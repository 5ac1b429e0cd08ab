---------------------------- MODULE PipeHandler ----------------------------
(***************************************************************************)
(* The software runtime of AHIR programs: threads that register pipes and  *)
(* signals and move bursts of words through them (v2/pipeHandler).         *)
(*                                                                         *)
(* The list of records is guarded by handler_mutex; each record is guarded *)
(* by its own mutex pm.  What a thread does under handler_mutex is one     *)
(* step.  What it does under pm is one step per word, so that the mutex    *)
(* itself is part of what is checked.  Between the two a thread holds a    *)
(* pointer it looked up earlier, and between looking a name up and adding  *)
(* a record for it a registering thread holds no lock at all.              *)
(*                                                                         *)
(* A read_<type>_n or write_<type>_n of Pipes.c asks the handler again and *)
(* again until its whole burst is done; the step after an unfinished       *)
(* request is the next look-up of the same name.                           *)
(***************************************************************************)
EXTENDS PipeRecord, FiniteSets

CONSTANTS Threads,     \* the threads of the program
          NoThread,    \* the holder of a mutex nobody holds
          Strict,      \* strict_mode: assert when an unregistered pipe is used
          Programs     \* what main may register, and what each thread then calls

(* What main registers are records as register_pipe and register_signal    *)
(* make them, and what the threads make are calls of the interface.        *)
Calls == [op : {"register", "signal", "read", "write", "show"}, name : Name,
          width : Nat, depth : Nat, mode : Nat, data : Seq(Word), n : Nat]
Sensible(c) == /\ c.op = "write" => c.n = Len(c.data)
               /\ c.op = "signal" => c.width > 0
Fresh(p) ==
  /\ WellFormed(p)
  /\ p = NewPipe(p.pipe_name, p.pipe_width, p.pipe_depth, p.pipe_mode, p.is_signal)
  /\ p.is_signal => p.pipe_mode = PIPE_FIFO_MODE
ASSUME ProgramsAssumption ==
  \A p \in Programs :
    /\ p.registered \in Seq({p.registered[i] : i \in DOMAIN p.registered})
    /\ \A i \in DOMAIN p.registered : Fresh(p.registered[i])
    /\ p.script \in [Threads -> Seq(SUBSET Calls)]
    /\ \A t \in Threads : \A k \in DOMAIN p.script[t] :
         \A c \in p.script[t][k] : Sensible(c)
ASSUME NoThreadAssumption == NoThread \notin Threads
ASSUME StrictAssumption == Strict \in BOOLEAN

(* The calls of the interface: an operation with its arguments.            *)
RegisterPipe(name, depth, width, mode) ==
  [op |-> "register", name |-> name, width |-> width,
   depth |-> depth, mode |-> mode, data |-> <<>>, n |-> 0]
RegisterSignal(name, width) ==
  [op |-> "signal", name |-> name, width |-> width,
   depth |-> 0, mode |-> 0, data |-> <<>>, n |-> 0]
ReadBurst(name, width, n) ==
  [op |-> "read", name |-> name, width |-> width,
   depth |-> 0, mode |-> 0, data |-> <<>>, n |-> n]
WriteBurst(name, width, data) ==
  [op |-> "write", name |-> name, width |-> width,
   depth |-> 0, mode |-> 0, data |-> data, n |-> Len(data)]
ShowPipe(name) ==
  [op |-> "show", name |-> name, width |-> 0,
   depth |-> 0, mode |-> 0, data |-> <<>>, n |-> 1]
NoCall == ShowPipe(CHOOSE name \in Name : TRUE)

VARIABLES
  program,  \* the program that runs, one of Programs
  pipes,    \* the records, oldest first: the list is searched from the end
  holder,   \* the thread that holds each record's mutex pm
  pc,       \* where each thread is
  call,     \* the call it is executing
  made,     \* how many calls of its script it has made
  ptr,      \* the record it looked up (an index of pipes; 0 is NULL)
  words,    \* the words its burst has moved so far
  left,     \* the words the current request still has to move
  status,   \* what its latest registration returned
  aborted,  \* an assertion of the code has failed
  io        \* the word the last step moved: the record, what went in and out

vars == <<program, pipes, holder, pc, call, made, ptr, words, left, status, aborted, io>>

NoIO == [rec |-> 0, put |-> <<>>, got |-> <<>>]

(* The records main adds before it starts the threads, and the calls of    *)
(* each thread: for each of them, a choice.                                *)
Registered == program.registered
Script     == program.script

(* Record fields that other threads can reach change only through these.   *)
Quiet == io' = NoIO
Stay  == UNCHANGED <<pipes, holder>>

Init ==
  /\ program \in Programs
  /\ pipes = Registered
  /\ holder = [i \in DOMAIN Registered |-> NoThread]
  /\ pc = [t \in Threads |-> "idle"]
  /\ call = [t \in Threads |-> NoCall]
  /\ made = [t \in Threads |-> 0]
  /\ ptr = [t \in Threads |-> 0]
  /\ words = [t \in Threads |-> <<>>]
  /\ left = [t \in Threads |-> 0]
  /\ status = [t \in Threads |-> 0]
  /\ aborted = FALSE
  /\ io = NoIO

goto(t, label) == pc' = [pc EXCEPT ![t] = label]

(* find_pipe: the record of that name added last, 0 when there is none.    *)
Named(name) == {i \in 1 .. Len(pipes) : pipes[i].pipe_name = name}
FindPipe(name) ==
  IF Named(name) = {} THEN 0
  ELSE CHOOSE i \in Named(name) : \A j \in Named(name) : j <= i

----------------------------------------------------------------------------
(* Making a call.                                                          *)

Entry(op) == CASE op \in {"register", "signal"} -> "register"
               [] op \in {"read", "write"}      -> "find"
               [] op = "show"                   -> "look"

Call(t) ==
  /\ ~aborted
  /\ pc[t] = "idle"
  /\ made[t] < Len(Script[t])
  /\ \E c \in Script[t][made[t] + 1] :
       /\ call' = [call EXCEPT ![t] = c]
       /\ goto(t, Entry(c.op))
  /\ made' = [made EXCEPT ![t] = made[t] + 1]
  /\ words' = [words EXCEPT ![t] = <<>>]
  /\ Quiet /\ Stay
  /\ UNCHANGED <<ptr, left, status, aborted>>

----------------------------------------------------------------------------
(* Registering: look the name up, and add a record if there was none.      *)

StandardWidths == {8, 16, 32, 64}

(* A signal of a width that is not a C width is an array of bytes.         *)
SignalWidth(w) == IF w \in StandardWidths THEN w ELSE 8
SignalWords(w) == (w + SignalWidth(w) - 1) \div SignalWidth(w)

(* The record the thread's registration asks for.  A read or a write of an *)
(* unregistered pipe asks for a FIFO of depth 1.                           *)
Wanted(t) ==
  LET c == call[t] IN
  CASE c.op = "register" -> NewPipe(c.name, c.width,
                                    IF c.depth = 0 THEN 1 ELSE c.depth,
                                    c.mode, FALSE)
    [] c.op = "signal"   -> NewPipe(c.name, SignalWidth(c.width),
                                    SignalWords(c.width), PIPE_FIFO_MODE, TRUE)
    [] OTHER             -> NewPipe(c.name, c.width, 1, PIPE_FIFO_MODE, FALSE)

Conflict_of_widths(p, q) == p.pipe_width # q.pipe_width

Conflict(p, q) ==
  \/ p.pipe_width # q.pipe_width
  \/ IF q.is_signal THEN ~p.is_signal
     ELSE p.pipe_depth # q.pipe_depth \/ p.pipe_mode # q.pipe_mode

(* A registration called from a read or a write returns into it.           *)
AfterRegister(t) == IF call[t].op \in {"read", "write"} THEN "refind" ELSE "idle"

Register_without_looking(t) ==
  /\ ~aborted
  /\ pc[t] = "register"
  /\ goto(t, "insert")
  /\ Quiet /\ Stay
  /\ UNCHANGED <<call, made, ptr, words, left, status, aborted>>

Register(t) ==
  /\ ~aborted
  /\ pc[t] = "register"
  /\ LET i == FindPipe(call[t].name) IN
       IF i = 0
       THEN goto(t, "insert") /\ UNCHANGED status
       ELSE /\ status' = [status EXCEPT ![t] =
                            IF Conflict(pipes[i], Wanted(t)) THEN 1 ELSE 0]
            /\ goto(t, AfterRegister(t))
  /\ Quiet /\ Stay
  /\ UNCHANGED <<call, made, ptr, words, left, aborted>>

Insert(t) ==
  /\ ~aborted
  /\ pc[t] = "insert"
  /\ pipes' = Append(pipes, Wanted(t))
  /\ holder' = Append(holder, NoThread)
  /\ status' = [status EXCEPT ![t] = 0]
  /\ goto(t, AfterRegister(t))
  /\ Quiet
  /\ UNCHANGED <<call, made, ptr, words, left, aborted>>

----------------------------------------------------------------------------
(* Looking up the pipe of a request.                                       *)

(* A width mismatch makes the request return 0: a burst then tries again.  *)
Mismatch(t) == IF call[t].op = "show" THEN "idle" ELSE "find"

Use(t, i) ==
  /\ ptr' = [ptr EXCEPT ![t] = i]
  /\ goto(t, IF pipes[i].pipe_width = call[t].width THEN "lock" ELSE Mismatch(t))
  /\ UNCHANGED aborted

Find(t) ==
  /\ ~aborted
  /\ pc[t] = "find"
  /\ LET i == FindPipe(call[t].name) IN
       IF i # 0 THEN Use(t, i)
       ELSE /\ IF Strict THEN aborted' = TRUE /\ UNCHANGED pc
                         ELSE goto(t, "register") /\ UNCHANGED aborted
            /\ UNCHANGED ptr
  /\ Quiet /\ Stay
  /\ UNCHANGED <<call, made, words, left, status>>

(* The second look-up, after the registration of an unregistered pipe.     *)
Refind(t) ==
  /\ ~aborted
  /\ pc[t] = "refind"
  /\ Use(t, FindPipe(call[t].name))
  /\ Quiet /\ Stay
  /\ UNCHANGED <<call, made, words, left, status>>

(* pipe_value_to_string looks the pipe up once for its width, and does     *)
(* nothing when there is no such pipe.                                     *)
Look(t) ==
  /\ ~aborted
  /\ pc[t] = "look"
  /\ LET i == FindPipe(call[t].name) IN
       IF i = 0
       THEN goto(t, "idle") /\ UNCHANGED call
       ELSE goto(t, "find")
            /\ call' = [call EXCEPT ![t].width = pipes[i].pipe_width]
  /\ Quiet /\ Stay
  /\ UNCHANGED <<made, ptr, words, left, status, aborted>>

----------------------------------------------------------------------------
(* One request, under the record's mutex.                                  *)

Requested_one_less(t) == call[t].n - Len(words[t]) - 1

Requested(t) == call[t].n - Len(words[t])

Least(m, n) == IF m <= n THEN m ELSE n

Granted_unchecked(t, p) == Requested(t)

(* How many words this request moves.                                      *)
Granted(t, p) ==
  Least(Requested(t), IF call[t].op = "write" THEN AVAILABLE(p) ELSE Readable(p))

ZeroFilled_when_empty(t, p) ==
  /\ call[t].op # "write"
  /\ p.pipe_mode = PIPE_FIFO_NON_BLOCK_READ
  /\ Granted(t, p) = 0

(* A non-blocking read that cannot have all its words gets zeros instead.  *)
ZeroFilled(t, p) ==
  /\ call[t].op # "write"
  /\ p.pipe_mode = PIPE_FIFO_NON_BLOCK_READ
  /\ Granted(t, p) < Requested(t)

Zeros(n) == [k \in 1 .. n |-> Zero]

(* A signal of several words is moved whole, or the code asserts.          *)
Misfit(t, p) ==
  /\ p.is_signal /\ p.pipe_depth > 1
  /\ Granted(t, p) > 0
  /\ p.pipe_depth # Requested(t)

(* MUTEX_LOCK__ waits until nobody holds the record's mutex.               *)
Free_always(i) == TRUE
Free(i) == holder[i] = NoThread

Lock(t) ==
  /\ ~aborted
  /\ pc[t] = "lock"
  /\ Free(ptr[t])
  /\ holder' = [holder EXCEPT ![ptr[t]] = t]
  /\ LET p == pipes[ptr[t]] IN
       IF ZeroFilled(t, p)
       THEN /\ words' = [words EXCEPT ![t] = words[t] \o Zeros(Requested(t))]
            /\ goto(t, "unlock")
            /\ UNCHANGED <<left, aborted>>
       ELSE /\ left' = [left EXCEPT ![t] = Granted(t, p)]
            /\ goto(t, IF Granted(t, p) > 0 THEN "word" ELSE "unlock")
            /\ aborted' = Misfit(t, p)
            /\ UNCHANGED words
  /\ Quiet
  /\ UNCHANGED <<pipes, call, made, ptr, status>>

(* A signal of several words is copied word for word, the i-th from or to  *)
(* the i-th place; everything else is popped or pushed.                    *)
Place(t, p) == IF p.pipe_depth > 1 THEN p.pipe_depth - left[t] ELSE 0

Moved(t, p) ==
  CASE call[t].op = "write"                  -> call[t].data[Len(words[t]) + 1]
    [] call[t].op # "write" /\ p.is_signal   -> p.buffer[Place(t, p)]
    [] call[t].op # "write" /\ ~p.is_signal  -> PopWord(p)

AfterMove(t, p) ==
  CASE call[t].op = "show"  -> POPANDRESTORE(p)
    [] call[t].op = "read"  -> POP(p)
    [] call[t].op = "write" -> IF p.is_signal
                               THEN [p EXCEPT !.buffer[Place(t, p)] = Moved(t, p)]
                               ELSE PUSH(p, Moved(t, p))

MoveWord(t) ==
  /\ ~aborted
  /\ pc[t] = "word"
  /\ LET i == ptr[t]
         p == pipes[i]
         w == Moved(t, p) IN
       /\ pipes' = [pipes EXCEPT ![i] = AfterMove(t, p)]
       /\ words' = [words EXCEPT ![t] = Append(words[t], w)]
       /\ io' = IF p.is_signal \/ call[t].op = "show" THEN NoIO
                ELSE [rec |-> i,
                      put |-> IF call[t].op = "write" THEN <<w>> ELSE <<>>,
                      got |-> IF call[t].op = "read" THEN <<w>> ELSE <<>>]
  /\ left' = [left EXCEPT ![t] = left[t] - 1]
  /\ goto(t, IF left[t] = 1 THEN "unlock" ELSE "word")
  /\ UNCHANGED <<holder, call, made, ptr, status, aborted>>

(* The request returns; READ_BURST__ and WRITE_BURST__ go on until done.   *)
Unlock(t) ==
  /\ ~aborted
  /\ pc[t] = "unlock"
  /\ holder' = [holder EXCEPT ![ptr[t]] = NoThread]
  /\ goto(t, IF call[t].op = "show" \/ Len(words[t]) = call[t].n
             THEN "idle" ELSE "find")
  /\ Quiet
  /\ UNCHANGED <<pipes, call, made, ptr, words, left, status, aborted>>

----------------------------------------------------------------------------
Finished == \A t \in Threads : pc[t] = "idle" /\ made[t] = Len(Script[t])

(* The program has ended, or an assertion has killed it.                   *)
Ended == (aborted \/ Finished) /\ UNCHANGED vars

Step(t) ==
  /\ \/ Call(t) \/ Register(t) \/ Insert(t) \/ Find(t) \/ Refind(t) \/ Look(t)
     \/ Lock(t) \/ MoveWord(t) \/ Unlock(t)
  /\ UNCHANGED program

Next == (\E t \in Threads : Step(t)) \/ Ended

Spec == Init /\ [][Next]_vars

(* A thread that can go on does; a mutex that is free again and again is   *)
(* granted at last to a thread that keeps asking for it.                   *)
Fairness == \A t \in Threads : WF_vars(Step(t)) /\ SF_vars(Lock(t) /\ UNCHANGED program)

FairSpec == Spec /\ Fairness

----------------------------------------------------------------------------
(* What the handler is for.                                                *)

(* Every variable has its type; a record's buffer has pipe_depth places.   *)
Labels == {"idle", "register", "insert", "find", "refind", "look",
           "lock", "word", "unlock"}
TypeOK ==
  /\ pipes \in Seq({pipes[i] : i \in DOMAIN pipes})
  /\ \A i \in DOMAIN pipes : WellFormed(pipes[i])
  /\ holder \in Seq(Threads \union {NoThread}) /\ Len(holder) = Len(pipes)
  /\ pc \in [Threads -> Labels]
  /\ call \in [Threads -> Calls]
  /\ made \in [Threads -> Nat]
  /\ ptr \in [Threads -> 0 .. Len(pipes)]
  /\ words \in [Threads -> Seq(Word)] /\ left \in [Threads -> Nat]
  /\ status \in [Threads -> {0, 1}]
  /\ aborted \in BOOLEAN

(* What the programs owe the handler.  Looking a name up and adding a      *)
(* record for it are two critical sections (pipeHandler.c:204-236): a name *)
(* has one record when main registers it once, or when one thread alone    *)
(* asks for it.                                                            *)
CallsOf(p, t) == UNION {p.script[t][k] : k \in DOMAIN p.script[t]}
Asked(p, t)   == {c.name : c \in {d \in CallsOf(p, t) : d.op # "show"}}
NamesHaveOneOwner(p) ==
  /\ \A i, j \in DOMAIN p.registered :
       p.registered[i].pipe_name = p.registered[j].pipe_name => i = j
  /\ \A t, u \in Threads : t # u =>
       Asked(p, t) \intersect Asked(p, u)
         \subseteq {p.registered[i].pipe_name : i \in DOMAIN p.registered}

(* A signal of several words is asked for whole (the assertion of          *)
(* pipeHandler.c:383, 545).                                                *)
SignalSizes(p, name) ==
  {p.registered[i].pipe_depth : i \in {j \in DOMAIN p.registered :
       p.registered[j].is_signal /\ p.registered[j].pipe_name = name}}
  \union UNION {{SignalWords(c.width) : c \in {d \in CallsOf(p, t) :
                    d.op = "signal" /\ d.name = name}} : t \in Threads}
BurstsFit(p) ==
  \A t \in Threads : \A c \in CallsOf(p, t) : c.op \in {"read", "write", "show"} =>
    \A d \in SignalSizes(p, c.name) : d > 1 => c.n = d

(* Zeros are what a non-blocking read gets when there is too little.       *)
WritesNoZero(p) ==
  \A t \in Threads : \A c \in CallsOf(p, t) :
    c.op = "write" => \A k \in DOMAIN c.data : c.data[k] # Zero

(* Showing a pipe that holds words upsets its ring (pipeHandler.h:166).    *)
PrintsNothingWritten(p) ==
  \A t, u \in Threads : \A c \in CallsOf(p, t) : \A d \in CallsOf(p, u) :
    c.op = "show" /\ d.op = "write" => c.name # d.name

(* The loop that moves the words of a request relies on what the request   *)
(* was granted before its first word: POP and PUSH do nothing on an empty  *)
(* or full pipe and the loop does not look, so a word that has gone by     *)
(* then would be replaced by whatever the caller's buffer holds            *)
(* (pipeHandler.c:362-421, 531-577).                                       *)
GrantHolds ==
  \A t \in Threads :
    pc[t] = "word" /\ ~pipes[ptr[t]].is_signal =>
      IF call[t].op = "write"
      THEN left[t] + pipes[ptr[t]].number_of_entries <= pipes[ptr[t]].pipe_depth
      ELSE left[t] <= pipes[ptr[t]].number_of_entries

(* The three numbers of a ring agree: the write pointer is the read        *)
(* pointer advanced by the number of entries; on a LIFO the write pointer  *)
(* counts the entries and the read pointer is just behind it.              *)
RingAgrees(p) ==
  IF p.is_signal THEN p.number_of_entries = 0
  ELSE IF is_lifo_mode(p)
  THEN /\ \/ p.write_pointer = p.number_of_entries
          \/ p.number_of_entries = p.pipe_depth /\ p.write_pointer = 0
       /\ p.number_of_entries > 0 =>
            p.read_pointer = p.number_of_entries - 1
  ELSE \/ p.read_pointer + p.number_of_entries = p.write_pointer
       \/ p.read_pointer + p.number_of_entries = p.write_pointer + p.pipe_depth
RingsAgree == \A i \in DOMAIN pipes : RingAgrees(pipes[i])

(* A signal of several words is one value: a reader gets all the words of  *)
(* one write, never the head of one and the tail of another                *)
(* ("the last written value is read back", pipeHandler.h:243).             *)
WrittenTo(name) ==
  UNION {UNION {{c.data : c \in {d \in Script[t][k] : d.op = "write" /\ d.name = name}} :
                k \in DOMAIN Script[t]} : t \in Threads}
SignalsAreWhole ==
  \A t \in Threads :
    (pc[t] = "unlock" /\ call[t].op = "read" /\ call[t].n > 0
       /\ pipes[ptr[t]].is_signal /\ pipes[ptr[t]].pipe_depth > 1) =>
      words[t] \in WrittenTo(call[t].name)
                   \union {Zeros(pipes[ptr[t]].pipe_depth)}

(* "if pipe mode is NOBLOCK, then either send back the full chunk of data  *)
(* or send back all zeros" (pipeHandler.c:481): and nothing is taken from  *)
(* the pipe when the answer is zeros (that part is in the refinement).     *)
NonBlockingIsAllOrNothing ==
  \A t \in Threads :
    (pc[t] = "unlock" /\ call[t].op = "read"
       /\ pipes[ptr[t]].pipe_mode = PIPE_FIFO_NON_BLOCK_READ) =>
      /\ Len(words[t]) = call[t].n
      /\ \/ \A k \in 1 .. Len(words[t]) : words[t][k] = Zero
         \/ \A k \in 1 .. Len(words[t]) : words[t][k] # Zero

(* A registration that returned 0 means that the program and the handler   *)
(* agree on the shape of the pipe ("return 0 on success, 1 if something    *)
(* went wrong", pipeHandler.h:240; pipeHandler.c:207-224, 285-294).        *)
SameShape(p, q) ==
  /\ p.pipe_width = q.pipe_width
  /\ p.is_signal \/ ~q.is_signal
  /\ q.is_signal \/ (p.pipe_depth = q.pipe_depth /\ p.pipe_mode = q.pipe_mode)
RegistrationIsHonoured ==
  \A t \in Threads :
    (pc[t] = "idle" /\ call[t].op \in {"register", "signal"} /\ status[t] = 0) =>
      LET i == FindPipe(call[t].name) IN
        i # 0 /\ SameShape(pipes[i], Wanted(t))

(* The words of an unfinished exchange stay within reach: a record that    *)
(* holds words, or that a burst is about to use, is the one its name finds *)
(* ("returns the number of words successfully written to the pipe",        *)
(* pipeHandler.h:249).                                                     *)
NoWordIsStranded ==
  \A i \in DOMAIN pipes :
    pipes[i].number_of_entries > 0 => FindPipe(pipes[i].pipe_name) = i

(* Printing a pipe's value "useful for debugging" (pipeHandler.h:262) pops *)
(* and restores: it leaves the pipe as it was.                             *)
ShowingChangesNothing ==
  [][\A t \in Threads : (pc[t] = "word" /\ pc'[t] # "word" /\ call[t].op = "show")
        => pipes' = pipes]_vars

(* No assertion of the handler can fail.                                   *)
NeverAborts == ~aborted

(* Every pipe that main registered is an AbstractPipe: what a read hands   *)
(* out is what a write took in, in the order of its mode, none lost and    *)
(* none twice, whoever reads and writes (pipeHandler.c:355-423, 530-578).  *)
Moves(i, side) == IF io.rec = i THEN side ELSE <<>>
P(p, i) == INSTANCE AbstractPipe WITH
          Depth    <- p.registered[i].pipe_depth,
          Lifo     <- is_lifo_mode(p.registered[i]),
          contents <- Contents(pipes[i]),
          put      <- Moves(i, io.put),
          got      <- Moves(i, io.got)
PipesArePipes ==
  /\ \A p \in Programs : program = p =>
       \A i \in DOMAIN p.registered : P(p, i)!Init
  /\ [][\A p \in Programs : program = p =>
          \A i \in DOMAIN p.registered : P(p, i)!Next]_vars

(* Every burst is moved whole at last in a program whose reads and writes  *)
(* balance (READ_BURST__ and WRITE_BURST__, Pipes.c:60-104).               *)
AllBurstsEnd == program.balanced => <>[]Finished
=============================================================================
