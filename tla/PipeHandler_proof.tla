------------------------- MODULE PipeHandler_proof -------------------------
(***************************************************************************)
(* Proofs about the pipe handler, for any threads, any programs they run   *)
(* and any words they move.                                                *)
(***************************************************************************)
EXTENDS PipeHandler, SequenceTheorems, WellFoundedInduction, TLAPS

-----------------------------------------------------------------------------
(* The records.                                                            *)

(* What never changes in a record once it has been added.                  *)
SameKind(p, q) ==
  /\ p.pipe_name = q.pipe_name /\ p.pipe_width = q.pipe_width
  /\ p.pipe_depth = q.pipe_depth /\ p.pipe_mode = q.pipe_mode
  /\ p.is_signal = q.is_signal

LEMMA NewPipeFacts ==
  ASSUME NEW name \in Name, NEW width \in Nat, NEW depth \in Nat \ {0},
         NEW mode \in Nat, NEW is_signal \in BOOLEAN
  PROVE  LET p == NewPipe(name, width, depth, mode, is_signal) IN
         /\ WellFormed(p)
         /\ p.pipe_name = name /\ p.pipe_width = width /\ p.pipe_depth = depth
         /\ p.pipe_mode = mode /\ p.is_signal = is_signal
         /\ p.number_of_entries = 0 /\ p.read_pointer = 0 /\ p.write_pointer = 0
BY ZeroIsAWord DEF WellFormed, NewPipe

(* A record whose pointers, count and buffer are given new values.         *)
Updated(p, r, w, n, b) ==
  [p EXCEPT !.read_pointer = r, !.write_pointer = w,
            !.number_of_entries = n, !.buffer = b]

LEMMA UpdateFacts ==
  ASSUME NEW p, WellFormed(p),
         NEW r \in 0 .. p.pipe_depth - 1, NEW w \in 0 .. p.pipe_depth - 1,
         NEW n \in 0 .. p.pipe_depth, NEW b \in [0 .. p.pipe_depth - 1 -> Word]
  PROVE  /\ WellFormed(Updated(p, r, w, n, b)) /\ SameKind(Updated(p, r, w, n, b), p)
         /\ Updated(p, r, w, n, b).read_pointer = r
         /\ Updated(p, r, w, n, b).write_pointer = w
         /\ Updated(p, r, w, n, b).number_of_entries = n
         /\ Updated(p, r, w, n, b).buffer = b
BY DEF WellFormed, SameKind, Updated

LEMMA FieldFacts ==
  ASSUME NEW p, WellFormed(p)
  PROVE  /\ p.pipe_depth \in Nat \ {0} /\ p.is_signal \in BOOLEAN
         /\ p.pipe_mode \in Nat /\ p.pipe_width \in Nat
         /\ p.read_pointer \in 0 .. p.pipe_depth - 1
         /\ p.write_pointer \in 0 .. p.pipe_depth - 1
         /\ p.number_of_entries \in 0 .. p.pipe_depth
         /\ p.buffer \in [0 .. p.pipe_depth - 1 -> Word]
BY DEF WellFormed

(* A word leaves a FIFO at its read pointer; a LIFO's pointers step back.  *)
LEMMA PopFacts ==
  ASSUME NEW p, WellFormed(p)
  PROVE  /\ WellFormed(POP(p)) /\ SameKind(POP(p), p)
         /\ POP(p).buffer = p.buffer
         /\ POP(p).number_of_entries =
              IF p.is_signal \/ p.number_of_entries = 0 THEN p.number_of_entries
              ELSE p.number_of_entries - 1
         /\ POP(p).read_pointer =
              IF p.is_signal \/ p.number_of_entries = 0 THEN p.read_pointer
              ELSE IF is_lifo_mode(p) THEN DECR(p.read_pointer, p)
              ELSE INCR(p.read_pointer, p)
         /\ POP(p).write_pointer =
              IF ~p.is_signal /\ p.number_of_entries # 0 /\ is_lifo_mode(p)
              THEN p.read_pointer ELSE p.write_pointer
<1> DEFINE empty == p.is_signal \/ p.number_of_entries = 0
           r == IF empty THEN p.read_pointer
                ELSE IF is_lifo_mode(p) THEN DECR(p.read_pointer, p)
                ELSE INCR(p.read_pointer, p)
           w == IF ~empty /\ is_lifo_mode(p) THEN p.read_pointer
                ELSE p.write_pointer
           n == IF empty THEN p.number_of_entries ELSE p.number_of_entries - 1
<1>1. /\ r \in 0 .. p.pipe_depth - 1 /\ w \in 0 .. p.pipe_depth - 1
      /\ n \in 0 .. p.pipe_depth /\ p.buffer \in [0 .. p.pipe_depth - 1 -> Word]
  BY FieldFacts DEF INCR, DECR
<1> DEFINE q == Updated(p, r, w, n, p.buffer)
<1>2. POP(p) = q
  BY DEF POP, WellFormed, Updated
<1>3. /\ WellFormed(q) /\ SameKind(q, p)
      /\ q.read_pointer = r /\ q.write_pointer = w
      /\ q.number_of_entries = n /\ q.buffer = p.buffer
  <2> HIDE DEF r, w, n
  <2> QED
    BY <1>1, UpdateFacts
<1> QED
  BY <1>2, <1>3, Zenon DEF r, w, n

(* A peek gives the write pointer the value of the read pointer.           *)
LEMMA RestoreFacts ==
  ASSUME NEW p, WellFormed(p)
  PROVE  /\ WellFormed(POPANDRESTORE(p)) /\ SameKind(POPANDRESTORE(p), p)
         /\ POPANDRESTORE(p).buffer = p.buffer
         /\ POPANDRESTORE(p).number_of_entries = p.number_of_entries
BY DEF WellFormed, POPANDRESTORE, SameKind

(* A word that finds room is put at the write pointer.                     *)
LEMMA PushFacts ==
  ASSUME NEW p, WellFormed(p), NEW w \in Word,
         ~p.is_signal, p.number_of_entries < p.pipe_depth
  PROVE  /\ WellFormed(PUSH(p, w)) /\ SameKind(PUSH(p, w), p)
         /\ PUSH(p, w).number_of_entries = p.number_of_entries + 1
         /\ \A k \in 0 .. p.pipe_depth - 1 :
              PUSH(p, w).buffer[k] = IF k = p.write_pointer THEN w ELSE p.buffer[k]
         /\ PUSH(p, w).write_pointer = INCR(p.write_pointer, p)
         /\ PUSH(p, w).read_pointer =
              IF is_lifo_mode(p) THEN p.write_pointer ELSE p.read_pointer
<1> DEFINE b == [p.buffer EXCEPT ![p.write_pointer] = w]
           r == IF is_lifo_mode(p) THEN p.write_pointer ELSE p.read_pointer
           n == p.number_of_entries + 1
           v == INCR(p.write_pointer, p)
           q == Updated(p, r, v, n, b)
<1>1. /\ r \in 0 .. p.pipe_depth - 1 /\ v \in 0 .. p.pipe_depth - 1
      /\ n \in 0 .. p.pipe_depth /\ b \in [0 .. p.pipe_depth - 1 -> Word]
  BY FieldFacts DEF INCR
<1>2. PUSH(p, w) = q
  <2>1. PUSH(p, w) = [p EXCEPT !.number_of_entries = n, !.buffer = b,
                               !.read_pointer = r, !.write_pointer = v]
    BY FieldFacts DEF PUSH
  <2> HIDE DEF r, v, n, b
  <2> QED
    BY <2>1 DEF WellFormed, Updated
<1>3. /\ WellFormed(q) /\ SameKind(q, p)
      /\ q.read_pointer = r /\ q.write_pointer = v
      /\ q.number_of_entries = n /\ q.buffer = b
  <2> HIDE DEF r, v, n, b
  <2> QED
    BY <1>1, UpdateFacts
<1>4. \A k \in 0 .. p.pipe_depth - 1 :
        q.buffer[k] = IF k = p.write_pointer THEN w ELSE p.buffer[k]
  <2>1. p.buffer \in [0 .. p.pipe_depth - 1 -> Word]
    BY FieldFacts
  <2> QED
    BY <1>3, <2>1 DEF b
<1> QED
  BY <1>2, <1>3, <1>4, Zenon DEF r, v, n

(* A word of a signal is put in its place.                                 *)
LEMMA OverwriteFacts ==
  ASSUME NEW p, WellFormed(p), NEW w \in Word, NEW k \in 0 .. p.pipe_depth - 1
  PROVE  LET q == [p EXCEPT !.buffer[k] = w] IN
         /\ WellFormed(q) /\ SameKind(q, p)
         /\ q.number_of_entries = p.number_of_entries
         /\ q.buffer = [p.buffer EXCEPT ![k] = w]
<1> DEFINE b == [p.buffer EXCEPT ![k] = w]
           q == Updated(p, p.read_pointer, p.write_pointer, p.number_of_entries, b)
<1>1. b \in [0 .. p.pipe_depth - 1 -> Word]
  BY FieldFacts
<1>2. [p EXCEPT !.buffer[k] = w] = q
  BY DEF WellFormed, Updated
<1>3. /\ WellFormed(q) /\ SameKind(q, p)
      /\ q.number_of_entries = p.number_of_entries /\ q.buffer = b
  <2> HIDE DEF b
  <2> QED
    BY <1>1, FieldFacts, UpdateFacts
<1> QED
  BY <1>2, <1>3, Zenon DEF b

(* A record that is allocated holds Zero in every place.                   *)
LEMMA NewPipeBuffer ==
  ASSUME NEW name, NEW width, NEW depth \in Nat, NEW mode, NEW is_signal
  PROVE  \A k \in 0 .. depth - 1 : NewPipe(name, width, depth, mode, is_signal).buffer[k] = Zero
BY DEF NewPipe

-----------------------------------------------------------------------------
(* Looking a pipe up.                                                      *)

LEMMA Greatest ==
  ASSUME NEW n \in Nat, NEW S, S \subseteq 1 .. n, S # {}
  PROVE  \E i \in S : \A j \in S : j <= i
<1> DEFINE T == {n - i : i \in S}
           R == OpToRel(<, Nat)
<1>1. T \subseteq Nat /\ T # {}
  <2> HIDE DEF R
  <2>1. PICK i \in S : TRUE
    OBVIOUS
  <2>2. n - i \in T
    OBVIOUS
  <2> QED
    BY <2>2
<1>2. PICK x \in T : \A y \in T : ~ (<<y, x>> \in R)
  <2> HIDE DEF T
  <2>1. IsWellFoundedOn(R, Nat)
    BY NatLessThanWellFounded
  <2> HIDE DEF R
  <2> QED
    BY <1>1, <2>1, WFMin
<1>3. \A y \in T : ~ (y < x)
  BY <1>1, <1>2 DEF OpToRel
<1>4. PICK i \in S : x = n - i
  BY <1>2
<1>5. ASSUME NEW j \in S PROVE j <= i
  BY <1>3, <1>4
<1> QED
  BY <1>5

(* A name is found when, and only when, some record has it.                *)
LEMMA FindFacts ==
  ASSUME TypeOK, NEW name
  PROVE  /\ FindPipe(name) = 0 <=> Named(name) = {}
         /\ FindPipe(name) # 0 => /\ FindPipe(name) \in DOMAIN pipes
                                  /\ pipes[FindPipe(name)].pipe_name = name
<1>1. Len(pipes) \in Nat /\ DOMAIN pipes = 1 .. Len(pipes)
  BY DEF TypeOK
<1>2. CASE Named(name) = {}
  BY <1>2 DEF FindPipe
<1>3. CASE Named(name) # {}
  <2>1. Named(name) \subseteq 1 .. Len(pipes)
    BY DEF Named
  <2>2. \E i \in Named(name) : \A j \in Named(name) : j <= i
    BY <1>1, <1>3, <2>1, Greatest
  <2>3. FindPipe(name) \in Named(name)
    BY <1>3, <2>2, Zenon DEF FindPipe
  <2> QED
    BY <1>1, <1>3, <2>1, <2>3 DEF Named
<1> QED
  BY <1>2, <1>3

-----------------------------------------------------------------------------
(* The invariant that needs nothing of the programs but that their calls   *)
(* are calls of the interface.                                             *)

(* A thread is where its call takes it.                                    *)
CallMatchesLabel ==
  \A t \in Threads :
    /\ pc[t] \in {"lock", "word", "unlock"} => call[t].op \in {"read", "write", "show"}
    /\ pc[t] \in {"find", "refind"} => call[t].op \in {"read", "write", "show"}
    /\ pc[t] = "look" => call[t].op = "show"

(* A thread that asks for a record's mutex, or holds it, has looked the    *)
(* record up; one that has just registered a name will find it.            *)
LooksBeforeLocking ==
  \A t \in Threads :
    /\ pc[t] \in {"lock", "word", "unlock"} => ptr[t] \in DOMAIN pipes
    /\ pc[t] = "refind" => Named(call[t].name) # {}

(* Who is in the middle of a request holds the record's mutex.             *)
HoldsWhatItMoves ==
  \A t \in Threads : pc[t] \in {"word", "unlock"} => holder[ptr[t]] = t

(* A burst never moves more words than it was asked for, and a request     *)
(* never more than it was granted.                                         *)
BurstInBounds ==
  \A t \in Threads :
    /\ Sensible(call[t])
    /\ pc[t] # "idle" => Len(words[t]) <= call[t].n
    /\ pc[t] = "word" => /\ left[t] > 0
                         /\ Len(words[t]) + left[t] <= call[t].n
                         /\ pipes[ptr[t]].is_signal =>
                              left[t] <= pipes[ptr[t]].pipe_depth

(* A signal holds no words to be popped.                                   *)
SignalsHoldNothing ==
  \A i \in DOMAIN pipes :
    pipes[i].is_signal => /\ pipes[i].number_of_entries = 0
                          /\ pipes[i].pipe_mode = PIPE_FIFO_MODE

(* What main registered is still there.                                    *)
RegisteredStays ==
  /\ program \in Programs
  /\ Len(Registered) <= Len(pipes)
  /\ \A i \in DOMAIN Registered : SameKind(pipes[i], Registered[i])

(* The call a thread executes is one of its script; only the width of a    *)
(* show is filled in, from the record.                                     *)
CallIsScripted ==
  \A t \in Threads :
    pc[t] # "idle" =>
      \E k \in DOMAIN Script[t] : \E c \in Script[t][k] :
        /\ call[t].op = c.op /\ call[t].name = c.name /\ call[t].n = c.n
        /\ c.op # "show" => call[t] = c

IInv ==
  /\ TypeOK
  /\ CallMatchesLabel
  /\ LooksBeforeLocking
  /\ HoldsWhatItMoves
  /\ BurstInBounds
  /\ SignalsHoldNothing
  /\ GrantHolds
  /\ RegisteredStays
  /\ CallIsScripted

LEMMA InitIInv == Init => IInv
<1> SUFFICES ASSUME Init PROVE IInv
  OBVIOUS
<1> DEFINE R == program.registered
<1>1. /\ R \in Seq({R[i] : i \in DOMAIN R})
      /\ \A i \in DOMAIN R : Fresh(R[i])
  BY ProgramsAssumption DEF Init
<1>2. pipes = R /\ Len(R) \in Nat /\ DOMAIN R = 1 .. Len(R)
  BY <1>1 DEF Init, Registered
<1>3. NoCall \in Calls /\ Sensible(NoCall)
  <2>1. (CHOOSE name \in Name : TRUE) \in Name
    BY NameAssumption
  <2> QED
    BY <2>1, EmptySeq DEF NoCall, ShowPipe, Calls, Sensible
<1>4. TypeOK
  <2>1. \A i \in DOMAIN pipes : WellFormed(pipes[i])
    BY <1>1, <1>2 DEF Fresh
  <2>2. holder \in Seq(Threads \union {NoThread}) /\ Len(holder) = Len(pipes)
    BY <1>2 DEF Init, Registered
  <2> QED
    <3>1. /\ pc \in [Threads -> Labels] /\ call \in [Threads -> Calls]
          /\ made \in [Threads -> Nat] /\ left \in [Threads -> Nat]
          /\ ptr \in [Threads -> 0 .. Len(pipes)]
          /\ words \in [Threads -> Seq(Word)] /\ status \in [Threads -> {0, 1}]
          /\ aborted \in BOOLEAN
      <4>1. pc \in [Threads -> Labels]
        BY DEF Init, Labels
      <4>2. call \in [Threads -> Calls] /\ made \in [Threads -> Nat]
        BY <1>3 DEF Init
      <4>3. left \in [Threads -> Nat] /\ status \in [Threads -> {0, 1}]
            /\ aborted \in BOOLEAN
        BY DEF Init
      <4>4. ptr \in [Threads -> 0 .. Len(pipes)]
        BY <1>2 DEF Init
      <4>5. words \in [Threads -> Seq(Word)]
        BY EmptySeq DEF Init
      <4> QED
        BY <4>1, <4>2, <4>3, <4>4, <4>5
    <3>2. pipes \in Seq({pipes[i] : i \in DOMAIN pipes})
      BY <1>1, <1>2
    <3> QED
      BY <2>1, <2>2, <3>1, <3>2 DEF TypeOK
<1>5. CallMatchesLabel /\ LooksBeforeLocking /\ HoldsWhatItMoves
      /\ GrantHolds /\ CallIsScripted
  BY DEF Init, CallMatchesLabel, LooksBeforeLocking, HoldsWhatItMoves,
         GrantHolds, CallIsScripted
<1>6. BurstInBounds
  BY <1>3 DEF Init, BurstInBounds
<1>7. SignalsHoldNothing
  <2> SUFFICES ASSUME NEW i \in DOMAIN pipes, pipes[i].is_signal
               PROVE  /\ pipes[i].number_of_entries = 0
                      /\ pipes[i].pipe_mode = PIPE_FIFO_MODE
    BY DEF SignalsHoldNothing
  <2> DEFINE p == pipes[i]
  <2>1. /\ p = NewPipe(p.pipe_name, p.pipe_width, p.pipe_depth, p.pipe_mode, p.is_signal)
        /\ p.is_signal => p.pipe_mode = PIPE_FIFO_MODE
    BY <1>1, <1>2 DEF Fresh
  <2>2. p.number_of_entries = 0
    BY <2>1 DEF NewPipe
  <2> QED
    BY <2>1, <2>2
<1>8. RegisteredStays
  BY <1>2 DEF Init, RegisteredStays, Registered, SameKind
<1> QED
  BY <1>4, <1>5, <1>6, <1>7, <1>8 DEF IInv

(* The steps that only look: no record and no mutex changes.               *)

LEMMA CallIInv ==
  ASSUME IInv, NEW t \in Threads, Call(t), program' = program
  PROVE  IInv'
<1>1. PICK c \in Script[t][made[t] + 1] :
        call' = [call EXCEPT ![t] = c] /\ goto(t, Entry(c.op))
  BY DEF Call
<1>2. made[t] + 1 \in DOMAIN Script[t]
  <2>1. Script[t] \in Seq(SUBSET Calls)
    BY ProgramsAssumption DEF Script, IInv, RegisteredStays
  <2> QED
    BY <2>1 DEF Call, IInv, TypeOK
<1>3. c \in Calls /\ Sensible(c)
  <2>1. Script[t] \in Seq(SUBSET Calls)
    BY ProgramsAssumption DEF Script, IInv, RegisteredStays
  <2>2. Sensible(c)
    BY ProgramsAssumption, <1>1, <1>2 DEF Script, IInv, RegisteredStays
  <2> QED
    BY <1>2, <2>1, <2>2
<1>4. /\ c.op \in {"register", "signal"} => Entry(c.op) = "register"
      /\ c.op \in {"read", "write"} => Entry(c.op) = "find"
      /\ c.op = "show" => Entry(c.op) = "look"
      /\ c.op \in {"register", "signal", "read", "write", "show"}
      /\ c.n \in Nat
  BY <1>3 DEF Entry, Calls
<1>5. /\ pc' = [pc EXCEPT ![t] = Entry(c.op)]
      /\ made' = [made EXCEPT ![t] = made[t] + 1]
      /\ words' = [words EXCEPT ![t] = <<>>]
      /\ UNCHANGED <<pipes, holder, ptr, left, status, aborted>>
  BY <1>1 DEF Call, goto, Stay
<1>6. TypeOK'
  BY <1>1, <1>3, <1>4, <1>5 DEF IInv, TypeOK, Labels
<1>7. pc \in [Threads -> Labels] /\ call \in [Threads -> Calls]
      /\ words \in [Threads -> Seq(Word)]
  BY DEF IInv, TypeOK
<1>8. CallMatchesLabel'
  BY <1>1, <1>4, <1>5, <1>7 DEF IInv, CallMatchesLabel
<1>9. LooksBeforeLocking' /\ HoldsWhatItMoves' /\ GrantHolds'
  BY <1>1, <1>4, <1>5, <1>7
     DEF IInv, LooksBeforeLocking, HoldsWhatItMoves, GrantHolds, Named
<1>10. BurstInBounds'
  BY <1>1, <1>3, <1>4, <1>5, <1>7 DEF IInv, BurstInBounds
<1>11. SignalsHoldNothing' /\ RegisteredStays'
  BY <1>5 DEF IInv, SignalsHoldNothing, RegisteredStays, Registered
<1>12. CallIsScripted'
  BY <1>1, <1>2, <1>5, <1>7 DEF IInv, CallIsScripted, Script
<1> QED
  BY <1>6, <1>8, <1>9, <1>10, <1>11, <1>12 DEF IInv

LEMMA RegisterIInv ==
  ASSUME IInv, NEW t \in Threads, Register(t), program' = program
  PROVE  IInv'
<1> DEFINE i == FindPipe(call[t].name)
<1>1. \/ pc' = [pc EXCEPT ![t] = "insert"] /\ UNCHANGED status
      \/ /\ i # 0
         /\ \E s \in {0, 1} : status' = [status EXCEPT ![t] = s]
         /\ pc' = [pc EXCEPT ![t] = AfterRegister(t)]
  BY DEF Register, goto
<1>2. i # 0 => Named(call[t].name) # {}
  BY FindFacts DEF IInv
<1> HIDE DEF i
<1>3. /\ AfterRegister(t) \in {"refind", "idle"}
      /\ AfterRegister(t) = "refind" => call[t].op \in {"read", "write"}
      /\ pc[t] = "register"
  BY DEF AfterRegister, Register
<1>4. UNCHANGED <<program, pipes, holder, call, made, ptr, words, left, aborted>>
  BY DEF Register, Stay
<1>5. pc \in [Threads -> Labels] /\ status \in [Threads -> {0, 1}]
  BY DEF IInv, TypeOK
<1>6. TypeOK'
  <2>1. pc' \in [Threads -> Labels] /\ status' \in [Threads -> {0, 1}]
    BY <1>1, <1>3, <1>5 DEF Labels
  <2> QED
    BY <1>4, <2>1 DEF IInv, TypeOK
<1>7. CallMatchesLabel'
  BY <1>1, <1>3, <1>4, <1>5 DEF IInv, CallMatchesLabel
<1>8. LooksBeforeLocking' /\ HoldsWhatItMoves' /\ GrantHolds'
  BY <1>1, <1>2, <1>3, <1>4, <1>5
     DEF IInv, LooksBeforeLocking, HoldsWhatItMoves, GrantHolds, Named
<1>9. BurstInBounds'
  BY <1>1, <1>3, <1>4, <1>5 DEF IInv, BurstInBounds
<1>10. SignalsHoldNothing' /\ RegisteredStays' /\ CallIsScripted'
  BY <1>1, <1>3, <1>4, <1>5
     DEF IInv, SignalsHoldNothing, RegisteredStays, Registered, CallIsScripted, Script
<1> QED
  BY <1>6, <1>7, <1>8, <1>9, <1>10 DEF IInv

(* A look-up that finds a record keeps its index; the width decides        *)
(* whether the request goes on.                                            *)
LEMMA UseIInv ==
  ASSUME IInv, NEW t \in Threads, pc[t] \in {"find", "refind"},
         NEW i \in DOMAIN pipes, Use(t, i),
         UNCHANGED <<program, pipes, holder, call, made, words, left, status>>
  PROVE  IInv'
<1>1. /\ ptr' = [ptr EXCEPT ![t] = i] /\ aborted' = aborted
      /\ \/ pc' = [pc EXCEPT ![t] = "lock"]
         \/ pc' = [pc EXCEPT ![t] = Mismatch(t)]
  BY DEF Use, goto
<1>2. /\ Mismatch(t) \in {"idle", "find"}
      /\ Mismatch(t) = "find" => call[t].op # "show"
  BY DEF Mismatch
<1>3. /\ pc \in [Threads -> Labels] /\ ptr \in [Threads -> 0 .. Len(pipes)]
      /\ DOMAIN pipes = 1 .. Len(pipes) /\ Len(pipes) \in Nat
  BY DEF IInv, TypeOK
<1>4. TypeOK'
  <2>1. pc' \in [Threads -> Labels] /\ ptr' \in [Threads -> 0 .. Len(pipes)]
    BY <1>1, <1>2, <1>3 DEF Labels
  <2> QED
    BY <1>1, <2>1 DEF IInv, TypeOK
<1>5. call[t].op \in {"read", "write", "show"}
  BY DEF IInv, CallMatchesLabel
<1>6. CallMatchesLabel'
  BY <1>1, <1>2, <1>3, <1>5 DEF IInv, CallMatchesLabel
<1>7. LooksBeforeLocking' /\ HoldsWhatItMoves' /\ GrantHolds'
  BY <1>1, <1>2, <1>3
     DEF IInv, LooksBeforeLocking, HoldsWhatItMoves, GrantHolds, Named
<1>8. BurstInBounds'
  BY <1>1, <1>2, <1>3 DEF IInv, BurstInBounds
<1>9. SignalsHoldNothing' /\ RegisteredStays' /\ CallIsScripted'
  BY <1>1, <1>2, <1>3
     DEF IInv, SignalsHoldNothing, RegisteredStays, Registered, CallIsScripted, Script
<1> QED
  BY <1>4, <1>6, <1>7, <1>8, <1>9 DEF IInv

LEMMA FindIInv ==
  ASSUME IInv, NEW t \in Threads, Find(t), program' = program
  PROVE  IInv'
<1> DEFINE i == FindPipe(call[t].name)
<1>0. /\ pc[t] = "find"
      /\ UNCHANGED <<program, pipes, holder, call, made, words, left, status>>
  BY DEF Find, Stay
<1>1. CASE i # 0
  <2>1. i \in DOMAIN pipes
    BY <1>1, FindFacts DEF IInv
  <2>2. Use(t, i)
    BY <1>1 DEF Find
  <2> QED
    BY <1>0, <2>1, <2>2, UseIInv
<1>2. CASE i = 0
  <2>1. /\ ptr' = ptr
        /\ \/ aborted' = TRUE /\ pc' = pc
           \/ aborted' = aborted /\ pc' = [pc EXCEPT ![t] = "register"]
    BY <1>2 DEF Find, goto
  <2>2. pc \in [Threads -> Labels]
    BY DEF IInv, TypeOK
  <2>3. TypeOK'
    <3>1. pc' \in [Threads -> Labels] /\ aborted' \in BOOLEAN
      BY <2>1, <2>2 DEF Labels, IInv, TypeOK
    <3> QED
      BY <1>0, <2>1, <3>1 DEF IInv, TypeOK
  <2>4. CallMatchesLabel' /\ HoldsWhatItMoves'
    BY <1>0, <2>1, <2>2 DEF IInv, CallMatchesLabel, HoldsWhatItMoves
  <2>5. LooksBeforeLocking' /\ GrantHolds'
    BY <1>0, <2>1, <2>2 DEF IInv, LooksBeforeLocking, GrantHolds, Named
  <2>6. BurstInBounds'
    BY <1>0, <2>1, <2>2 DEF IInv, BurstInBounds
  <2>7. SignalsHoldNothing' /\ RegisteredStays' /\ CallIsScripted'
    BY <1>0, <2>1, <2>2
       DEF IInv, SignalsHoldNothing, RegisteredStays, Registered, CallIsScripted, Script
  <2> QED
    BY <2>3, <2>4, <2>5, <2>6, <2>7 DEF IInv
<1> QED
  BY <1>1, <1>2

LEMMA RefindIInv ==
  ASSUME IInv, NEW t \in Threads, Refind(t), program' = program
  PROVE  IInv'
<1> DEFINE i == FindPipe(call[t].name)
<1>1. /\ pc[t] = "refind" /\ Use(t, i)
      /\ UNCHANGED <<program, pipes, holder, call, made, words, left, status>>
  BY DEF Refind, Stay
<1>2. i \in DOMAIN pipes
  BY <1>1, FindFacts DEF IInv, LooksBeforeLocking
<1> QED
  BY <1>1, <1>2, UseIInv

LEMMA LookIInv ==
  ASSUME IInv, NEW t \in Threads, Look(t), program' = program
  PROVE  IInv'
<1> DEFINE i == FindPipe(call[t].name)
           c == [call[t] EXCEPT !.width = pipes[i].pipe_width]
<1>1. /\ pc[t] = "look"
      /\ UNCHANGED <<program, pipes, holder, made, ptr, words, left, status, aborted>>
  BY DEF Look, Stay
<1>2. \/ /\ pc' = [pc EXCEPT ![t] = "idle"] /\ call' = call
      \/ /\ i # 0
         /\ pc' = [pc EXCEPT ![t] = "find"]
         /\ call' = [call EXCEPT ![t] = c]
  BY DEF Look, goto
<1>3. /\ pc \in [Threads -> Labels] /\ call \in [Threads -> Calls]
      /\ call[t].op = "show"
  BY <1>1 DEF IInv, TypeOK, CallMatchesLabel
<1>4. ASSUME i # 0
      PROVE  /\ c \in Calls /\ Sensible(c)
             /\ c.op = "show" /\ c.name = call[t].name /\ c.n = call[t].n
  <2>1. pipes[i].pipe_width \in Nat
    BY <1>4, FindFacts, FieldFacts DEF IInv, TypeOK
  <2> QED
    BY <1>3, <2>1 DEF Calls, Sensible
<1> HIDE DEF c, i
<1>5. TypeOK'
  <2>1. pc' \in [Threads -> Labels] /\ call' \in [Threads -> Calls]
    BY <1>2, <1>3, <1>4 DEF Labels
  <2> QED
    BY <1>1, <2>1 DEF IInv, TypeOK
<1>6. CallMatchesLabel' /\ HoldsWhatItMoves'
  BY <1>1, <1>2, <1>3, <1>4 DEF IInv, CallMatchesLabel, HoldsWhatItMoves
<1>7. LooksBeforeLocking' /\ GrantHolds'
  BY <1>1, <1>2, <1>3, <1>4 DEF IInv, LooksBeforeLocking, GrantHolds, Named
<1>8. BurstInBounds'
  BY <1>1, <1>2, <1>3, <1>4 DEF IInv, BurstInBounds
<1>9. SignalsHoldNothing' /\ RegisteredStays'
  BY <1>1 DEF IInv, SignalsHoldNothing, RegisteredStays, Registered
<1>10. CallIsScripted'
  BY <1>1, <1>2, <1>3, <1>4 DEF IInv, CallIsScripted, Script
<1> QED
  BY <1>5, <1>6, <1>7, <1>8, <1>9, <1>10 DEF IInv

(* What a registration asks for is a record of at least one place.         *)
LEMMA WantedFacts ==
  ASSUME NEW t \in Threads, call[t] \in Calls, Sensible(call[t])
  PROVE  /\ WellFormed(Wanted(t)) /\ Wanted(t).pipe_name = call[t].name
         /\ Wanted(t).number_of_entries = 0
         /\ Wanted(t).is_signal => Wanted(t).pipe_mode = PIPE_FIFO_MODE
         /\ \A k \in 0 .. Wanted(t).pipe_depth - 1 : Wanted(t).buffer[k] = Zero
         /\ Wanted(t).is_signal => /\ call[t].op = "signal"
                                  /\ Wanted(t).pipe_depth = SignalWords(call[t].width)
         /\ Wanted(t).read_pointer = 0 /\ Wanted(t).write_pointer = 0
<1> DEFINE c == call[t]
           d == CASE c.op = "register" -> IF c.depth = 0 THEN 1 ELSE c.depth
                  [] c.op = "signal"   -> SignalWords(c.width)
                  [] OTHER             -> 1
           w == IF c.op = "signal" THEN SignalWidth(c.width) ELSE c.width
           m == IF c.op = "register" THEN c.mode ELSE PIPE_FIFO_MODE
           g == c.op = "signal"
<1>1. /\ c.name \in Name /\ c.width \in Nat /\ c.depth \in Nat /\ c.mode \in Nat
  BY DEF Calls
<1>2. Wanted(t) = NewPipe(c.name, w, d, m, g)
  BY DEF Wanted
<1>3. w \in Nat /\ m \in Nat /\ g \in BOOLEAN /\ (g => m = PIPE_FIFO_MODE)
  BY <1>1 DEF SignalWidth, StandardWidths, PIPE_FIFO_MODE
<1>4. d \in Nat \ {0}
  <2>1. ASSUME c.op = "signal" PROVE SignalWords(c.width) \in Nat \ {0}
    <3>1. c.width > 0
      BY <2>1 DEF Sensible
    <3> QED
      BY <1>1, <3>1 DEF SignalWords, SignalWidth, StandardWidths
  <2> QED
    BY <1>1, <2>1
<1> HIDE DEF w, d, m, g
<1>5. LET p == NewPipe(c.name, w, d, m, g) IN
      /\ WellFormed(p) /\ p.pipe_name = c.name /\ p.number_of_entries = 0
      /\ p.is_signal = g /\ p.pipe_mode = m /\ p.pipe_depth = d
      /\ p.read_pointer = 0 /\ p.write_pointer = 0
  BY <1>1, <1>3, <1>4, NewPipeFacts
<1>6. \A k \in 0 .. d - 1 : NewPipe(c.name, w, d, m, g).buffer[k] = Zero
  BY <1>4, NewPipeBuffer
<1>7. g => c.op = "signal" /\ d = SignalWords(c.width)
  BY DEF g, d
<1> QED
  BY <1>2, <1>3, <1>5, <1>6, <1>7

LEMMA AppendRecord ==
  ASSUME NEW s, s \in Seq({s[i] : i \in DOMAIN s}), NEW q
  PROVE  LET u == Append(s, q) IN
         /\ u \in Seq({u[i] : i \in DOMAIN u})
         /\ Len(s) \in Nat /\ Len(u) = Len(s) + 1
         /\ DOMAIN s = 1 .. Len(s) /\ DOMAIN u = 1 .. Len(s) + 1
         /\ u[Len(s) + 1] = q
         /\ \A i \in DOMAIN s : u[i] = s[i]
<1> DEFINE u == Append(s, q)
           S == {s[i] : i \in DOMAIN s} \union {q}
<1>1. s \in Seq(S) /\ q \in S
  BY SeqMonotonic
<1> HIDE DEF S
<1>2. /\ u \in Seq(S) /\ Len(u) = Len(s) + 1 /\ Len(s) \in Nat
      /\ DOMAIN s = 1 .. Len(s) /\ DOMAIN u = 1 .. Len(s) + 1
      /\ u[Len(s) + 1] = q
      /\ \A i \in DOMAIN s : u[i] = s[i]
  BY <1>1
<1> HIDE DEF u
<1>3. u \in Seq({u[i] : i \in DOMAIN u})
  BY <1>2
<1> QED
  BY <1>2, <1>3 DEF u

(* A record that is added is one more record; it disturbs no other.        *)
LEMMA InsertFacts ==
  ASSUME IInv, NEW t \in Threads, Insert(t)
  PROVE  /\ Len(pipes) \in Nat /\ DOMAIN pipes = 1 .. Len(pipes)
         /\ DOMAIN pipes' = 1 .. Len(pipes) + 1 /\ Len(pipes') = Len(pipes) + 1
         /\ \A i \in DOMAIN pipes : pipes'[i] = pipes[i] /\ holder'[i] = holder[i]
         /\ pipes'[Len(pipes) + 1] = Wanted(t)
         /\ pipes' \in Seq({pipes'[i] : i \in DOMAIN pipes'})
         /\ holder' \in Seq(Threads \union {NoThread}) /\ Len(holder') = Len(pipes')
         /\ pc' = [pc EXCEPT ![t] = AfterRegister(t)]
         /\ AfterRegister(t) \in {"refind", "idle"}
         /\ AfterRegister(t) = "refind" => call[t].op \in {"read", "write"}
<1>1. pipes \in Seq({pipes[i] : i \in DOMAIN pipes}) /\ pipes' = Append(pipes, Wanted(t))
  BY DEF IInv, TypeOK, Insert
<1>2. /\ Len(pipes) \in Nat /\ DOMAIN pipes = 1 .. Len(pipes)
      /\ DOMAIN pipes' = 1 .. Len(pipes) + 1 /\ Len(pipes') = Len(pipes) + 1
      /\ \A i \in DOMAIN pipes : pipes'[i] = pipes[i]
      /\ pipes'[Len(pipes) + 1] = Wanted(t)
      /\ pipes' \in Seq({pipes'[i] : i \in DOMAIN pipes'})
  BY <1>1, AppendRecord
<1>3. /\ holder' \in Seq(Threads \union {NoThread}) /\ Len(holder') = Len(pipes')
      /\ \A i \in DOMAIN pipes : holder'[i] = holder[i]
  BY <1>2 DEF IInv, TypeOK, Insert
<1> QED
  BY <1>2, <1>3 DEF Insert, goto, AfterRegister

LEMMA InsertIInv ==
  ASSUME IInv, NEW t \in Threads, Insert(t), program' = program
  PROVE  IInv'
<1>1. /\ Len(pipes) \in Nat /\ DOMAIN pipes = 1 .. Len(pipes)
      /\ DOMAIN pipes' = 1 .. Len(pipes) + 1 /\ Len(pipes') = Len(pipes) + 1
      /\ \A i \in DOMAIN pipes : pipes'[i] = pipes[i] /\ holder'[i] = holder[i]
      /\ pipes'[Len(pipes) + 1] = Wanted(t)
      /\ pipes' \in Seq({pipes'[i] : i \in DOMAIN pipes'})
      /\ holder' \in Seq(Threads \union {NoThread}) /\ Len(holder') = Len(pipes')
      /\ pc' = [pc EXCEPT ![t] = AfterRegister(t)]
      /\ AfterRegister(t) \in {"refind", "idle"}
      /\ AfterRegister(t) = "refind" => call[t].op \in {"read", "write"}
  BY InsertFacts
<1>2. /\ WellFormed(Wanted(t)) /\ Wanted(t).pipe_name = call[t].name
      /\ Wanted(t).number_of_entries = 0
      /\ Wanted(t).is_signal => Wanted(t).pipe_mode = PIPE_FIFO_MODE
  BY WantedFacts DEF IInv, TypeOK, BurstInBounds
<1>3. UNCHANGED <<program, call, made, ptr, words, left, aborted>>
      /\ status' = [status EXCEPT ![t] = 0]
  BY DEF Insert
<1>4. pc \in [Threads -> Labels] /\ ptr \in [Threads -> 0 .. Len(pipes)]
  BY DEF IInv, TypeOK
<1>5. TypeOK'
  <2>1. pc' \in [Threads -> Labels] /\ status' \in [Threads -> {0, 1}]
    BY <1>1, <1>3 DEF Labels, IInv, TypeOK
  <2>2. ptr' \in [Threads -> 0 .. Len(pipes')]
    BY <1>1, <1>3, <1>4
  <2>3. ASSUME NEW i \in DOMAIN pipes' PROVE WellFormed(pipes'[i])
    <3>1. CASE i = Len(pipes) + 1
      BY <1>1, <1>2, <3>1
    <3>2. CASE i \in DOMAIN pipes
      BY <1>1, <3>2 DEF IInv, TypeOK
    <3> QED
      BY <1>1, <3>1, <3>2
  <2>4. \A i \in DOMAIN pipes' : WellFormed(pipes[i])'
    BY <2>3 DEF WellFormed
  <2> QED
    BY <1>1, <1>3, <2>1, <2>2, <2>4 DEF IInv, TypeOK
<1>6. CallMatchesLabel'
  BY <1>1, <1>3, <1>4 DEF IInv, CallMatchesLabel
<1>7. LooksBeforeLocking'
  <2>1. ASSUME NEW u \in Threads, pc'[u] = "refind"
        PROVE  \E i \in 1 .. Len(pipes') : pipes'[i].pipe_name = call[u].name
    <3>1. CASE u = t
      BY <1>1, <1>2, <3>1
    <3>2. CASE u # t
      <4>1. pc[u] = "refind"
        BY <1>1, <1>4, <2>1, <3>2
      <4> QED
        BY <1>1, <4>1 DEF IInv, LooksBeforeLocking, Named
    <3> QED
      BY <3>1, <3>2
  <2>2. ASSUME NEW u \in Threads, pc'[u] \in {"lock", "word", "unlock"}
        PROVE  ptr'[u] \in DOMAIN pipes'
    <3>1. pc[u] = pc'[u]
      BY <1>1, <1>4, <2>2
    <3> QED
      BY <1>1, <1>3, <2>2, <3>1 DEF IInv, LooksBeforeLocking
  <2> QED
    BY <1>3, <2>1, <2>2 DEF LooksBeforeLocking, Named
<1>8. HoldsWhatItMoves'
  BY <1>1, <1>3, <1>4 DEF IInv, HoldsWhatItMoves, LooksBeforeLocking
<1>9. GrantHolds' /\ BurstInBounds'
  <2>1. ASSUME NEW u \in Threads, pc'[u] = "word"
        PROVE  pc[u] = "word" /\ pipes'[ptr'[u]] = pipes[ptr[u]]
    BY <1>1, <1>3, <1>4, <2>1 DEF IInv, LooksBeforeLocking
  <2>2. ASSUME NEW u \in Threads, pc'[u] # "idle"
        PROVE  pc[u] # "idle"
    BY <1>1, <1>4, <2>2 DEF Insert
  <2> QED
    BY <1>3, <2>1, <2>2 DEF IInv, GrantHolds, BurstInBounds
<1>10. SignalsHoldNothing' /\ RegisteredStays'
  <2>1. SignalsHoldNothing'
    BY <1>1, <1>2 DEF IInv, SignalsHoldNothing
  <2>2. RegisteredStays'
    <3>1. Len(Registered) \in Nat /\ DOMAIN Registered = 1 .. Len(Registered)
      BY ProgramsAssumption DEF Registered, IInv, RegisteredStays
    <3> QED
      BY <1>1, <1>3, <3>1 DEF IInv, RegisteredStays, Registered
  <2> QED
    BY <2>1, <2>2
<1>11. CallIsScripted'
  <2>1. ASSUME NEW u \in Threads, pc'[u] # "idle"
        PROVE  pc[u] # "idle"
    BY <1>1, <1>4, <2>1 DEF Insert
  <2> QED
    BY <1>3, <2>1 DEF IInv, CallIsScripted, Script
<1> QED
  BY <1>5, <1>6, <1>7, <1>8, <1>9, <1>10, <1>11 DEF IInv

(* The steps under a record's mutex.                                       *)

LEMMA ZerosFacts ==
  ASSUME NEW n \in Nat
  PROVE  /\ Zeros(n) \in Seq(Word) /\ Len(Zeros(n)) = n
         /\ \A k \in 1 .. n : Zeros(n)[k] = Zero
<1>1. Zeros(n) \in [1 .. n -> Word]
  BY ZeroIsAWord DEF Zeros
<1> QED
  BY <1>1 DEF Zeros

(* A request is granted no more than it asked for, and no more than fits.  *)
LEMMA GrantFacts ==
  ASSUME IInv, NEW t \in Threads, pc[t] = "lock"
  PROVE  LET p == pipes[ptr[t]] IN
         /\ WellFormed(p)
         /\ Requested(t) \in Nat /\ Granted(t, p) \in 0 .. Requested(t)
         /\ p.is_signal => Granted(t, p) <= p.pipe_depth
         /\ ~p.is_signal => IF call[t].op = "write"
                            THEN Granted(t, p) + p.number_of_entries <= p.pipe_depth
                            ELSE Granted(t, p) <= p.number_of_entries
<1> DEFINE p == pipes[ptr[t]]
<1>1. WellFormed(p)
  BY DEF IInv, TypeOK, LooksBeforeLocking
<1>2. /\ p.pipe_depth \in Nat \ {0} /\ p.number_of_entries \in 0 .. p.pipe_depth
  BY <1>1, FieldFacts
<1>3. Len(words[t]) \in Nat /\ call[t].n \in Nat /\ Len(words[t]) <= call[t].n
  BY DEF IInv, TypeOK, BurstInBounds, Calls
<1> HIDE DEF p
<1>4. Requested(t) \in Nat
  BY <1>3 DEF Requested
<1>5. /\ Granted(t, p) \in 0 .. Requested(t)
      /\ p.is_signal => Granted(t, p) <= p.pipe_depth
      /\ ~p.is_signal => IF call[t].op = "write"
                         THEN Granted(t, p) + p.number_of_entries <= p.pipe_depth
                         ELSE Granted(t, p) <= p.number_of_entries
  BY <1>2, <1>4 DEF Granted, Least, AVAILABLE, Readable
<1> QED
  BY <1>1, <1>4, <1>5 DEF p

LEMMA LockIInv ==
  ASSUME IInv, NEW t \in Threads, Lock(t), program' = program
  PROVE  IInv'
<1> DEFINE p == pipes[ptr[t]]
<1>1. /\ pc[t] = "lock" /\ holder[ptr[t]] = NoThread
      /\ holder' = [holder EXCEPT ![ptr[t]] = t]
      /\ UNCHANGED <<program, pipes, call, made, ptr, status>>
  BY DEF Lock, Free
<1>2. /\ pc \in [Threads -> Labels] /\ words \in [Threads -> Seq(Word)]
      /\ left \in [Threads -> Nat] /\ call[t].n \in Nat
      /\ holder \in Seq(Threads \union {NoThread}) /\ Len(holder) = Len(pipes)
      /\ DOMAIN pipes = 1 .. Len(pipes) /\ Len(pipes) \in Nat
      /\ ptr[t] \in 1 .. Len(pipes)
      /\ call[t].op \in {"read", "write", "show"}
  BY <1>1 DEF IInv, TypeOK, LooksBeforeLocking, Calls, CallMatchesLabel
<1>3. /\ Requested(t) \in Nat /\ Granted(t, p) \in 0 .. Requested(t)
      /\ p.is_signal => Granted(t, p) <= p.pipe_depth
      /\ ~p.is_signal => IF call[t].op = "write"
                         THEN Granted(t, p) + p.number_of_entries <= p.pipe_depth
                         ELSE Granted(t, p) <= p.number_of_entries
  BY <1>1, GrantFacts
<1> DEFINE z == words[t] \o Zeros(Requested(t))
<1>4. Len(words[t]) + Requested(t) = call[t].n /\ z \in Seq(Word) /\ Len(z) = call[t].n
  <2>1. Len(words[t]) \in Nat /\ words[t] \in Seq(Word)
    BY <1>2
  <2>2. Zeros(Requested(t)) \in Seq(Word) /\ Len(Zeros(Requested(t))) = Requested(t)
    BY <1>3, ZerosFacts
  <2>3. z \in Seq(Word) /\ Len(z) = Len(words[t]) + Requested(t)
    <3> DEFINE w == words[t]
               zeros == Zeros(Requested(t))
    <3>1. w \in Seq(Word) /\ zeros \in Seq(Word) /\ Len(zeros) = Requested(t)
      BY <2>1, <2>2
    <3> HIDE DEF w, zeros
    <3>2. w \o zeros \in Seq(Word) /\ Len(w \o zeros) = Len(w) + Len(zeros)
      BY <3>1, ConcatProperties
    <3> QED
      BY <3>1, <3>2 DEF w, zeros
  <2>4. Len(words[t]) + Requested(t) = call[t].n
    <3>1. call[t].n \in Nat
      BY <1>2
    <3> QED
      BY <2>1, <3>1 DEF Requested
  <2> HIDE DEF z
  <2> QED
    BY <2>3, <2>4
<1>5. \/ /\ words' = [words EXCEPT ![t] = z] /\ pc' = [pc EXCEPT ![t] = "unlock"]
         /\ left' = left /\ aborted' = aborted
      \/ /\ left' = [left EXCEPT ![t] = Granted(t, p)]
         /\ \/ Granted(t, p) > 0 /\ pc' = [pc EXCEPT ![t] = "word"]
            \/ pc' = [pc EXCEPT ![t] = "unlock"]
         /\ words' = words /\ aborted' = Misfit(t, p)
  BY DEF Lock, goto
<1>6. aborted' \in BOOLEAN
  BY <1>5 DEF Misfit, IInv, TypeOK
<1> HIDE DEF z
<1>7. /\ holder' \in Seq(Threads \union {NoThread}) /\ Len(holder') = Len(pipes)
      /\ \A i \in 1 .. Len(pipes) : holder'[i] = IF i = ptr[t] THEN t ELSE holder[i]
  BY <1>1, <1>2
<1>8. TypeOK'
  <2>1. pc' \in [Threads -> Labels]
    BY <1>2, <1>5 DEF Labels
  <2>2. words' \in [Threads -> Seq(Word)] /\ left' \in [Threads -> Nat]
    <3>1. Granted(t, p) \in Nat
      BY <1>3
    <3> HIDE DEF p
    <3> QED
      BY <1>2, <1>4, <1>5, <3>1
  <2> QED
    BY <1>1, <1>6, <1>7, <2>1, <2>2 DEF IInv, TypeOK
<1>9. CallMatchesLabel'
  BY <1>1, <1>2, <1>5 DEF IInv, CallMatchesLabel
<1>10. LooksBeforeLocking'
  BY <1>1, <1>2, <1>5 DEF IInv, LooksBeforeLocking, Named
<1>11. HoldsWhatItMoves'
  <2> SUFFICES ASSUME NEW u \in Threads, pc'[u] \in {"word", "unlock"}
               PROVE  holder'[ptr[u]] = u
    BY <1>1 DEF HoldsWhatItMoves
  <2>1. CASE u = t
    BY <1>2, <1>7, <2>1
  <2>2. CASE u # t
    <3>1. pc[u] \in {"word", "unlock"}
      BY <1>2, <1>5, <2>2
    <3>2. holder[ptr[u]] = u /\ ptr[u] \in 1 .. Len(pipes)
      BY <1>2, <3>1 DEF IInv, HoldsWhatItMoves, LooksBeforeLocking
    <3>3. ptr[u] # ptr[t]
      BY <1>1, <3>2, NoThreadAssumption
    <3> QED
      BY <1>7, <3>2, <3>3
  <2> QED
    BY <2>1, <2>2
<1>12. BurstInBounds'
  <2> SUFFICES ASSUME NEW u \in Threads
               PROVE  /\ pc'[u] # "idle" => Len(words'[u]) <= call[u].n
                      /\ pc'[u] = "word" =>
                           /\ left'[u] > 0
                           /\ Len(words'[u]) + left'[u] <= call[u].n
                           /\ pipes[ptr[u]].is_signal =>
                                left'[u] <= pipes[ptr[u]].pipe_depth
    BY <1>1 DEF IInv, BurstInBounds
  <2>1. CASE u = t
    BY <1>1, <1>2, <1>3, <1>4, <1>5, <2>1 DEF IInv, BurstInBounds
  <2>2. CASE u # t
    BY <1>2, <1>5, <2>2 DEF IInv, BurstInBounds
  <2> QED
    BY <2>1, <2>2
<1>13. GrantHolds'
  <2> SUFFICES ASSUME NEW u \in Threads, pc'[u] = "word", ~pipes[ptr[u]].is_signal
               PROVE  IF call[u].op = "write"
                      THEN left'[u] + pipes[ptr[u]].number_of_entries
                             <= pipes[ptr[u]].pipe_depth
                      ELSE left'[u] <= pipes[ptr[u]].number_of_entries
    BY <1>1 DEF GrantHolds
  <2>1. CASE u = t
    BY <1>2, <1>3, <1>5, <2>1
  <2>2. CASE u # t
    BY <1>2, <1>5, <2>2 DEF IInv, GrantHolds
  <2> QED
    BY <2>1, <2>2
<1>14. SignalsHoldNothing' /\ RegisteredStays'
  BY <1>1 DEF IInv, SignalsHoldNothing, RegisteredStays, Registered
<1>15. CallIsScripted'
  <2>1. \A u \in Threads : pc'[u] # "idle" => pc[u] # "idle"
    BY <1>1, <1>2, <1>5
  <2> QED
    BY <1>1, <2>1 DEF IInv, CallIsScripted, Script
<1> QED
  BY <1>8, <1>9, <1>10, <1>11, <1>12, <1>13, <1>14, <1>15 DEF IInv

LEMMA UnlockIInv ==
  ASSUME IInv, NEW t \in Threads, Unlock(t), program' = program
  PROVE  IInv'
<1>1. /\ pc[t] = "unlock"
      /\ holder' = [holder EXCEPT ![ptr[t]] = NoThread]
      /\ \/ pc' = [pc EXCEPT ![t] = "idle"]
         \/ pc' = [pc EXCEPT ![t] = "find"]
      /\ UNCHANGED <<program, pipes, call, made, ptr, words, left, status, aborted>>
  BY DEF Unlock, goto
<1>2. /\ pc \in [Threads -> Labels]
      /\ holder \in Seq(Threads \union {NoThread}) /\ Len(holder) = Len(pipes)
      /\ DOMAIN pipes = 1 .. Len(pipes) /\ Len(pipes) \in Nat
      /\ ptr[t] \in 1 .. Len(pipes) /\ holder[ptr[t]] = t
      /\ call[t].op \in {"read", "write", "show"}
  BY <1>1 DEF IInv, TypeOK, LooksBeforeLocking, HoldsWhatItMoves, CallMatchesLabel
<1>3. /\ holder' \in Seq(Threads \union {NoThread}) /\ Len(holder') = Len(pipes)
      /\ \A i \in 1 .. Len(pipes) : holder'[i] = IF i = ptr[t] THEN NoThread
                                                  ELSE holder[i]
  BY <1>1, <1>2
<1>4. TypeOK'
  <2>1. pc' \in [Threads -> Labels]
    BY <1>1, <1>2 DEF Labels
  <2> QED
    BY <1>1, <1>3, <2>1 DEF IInv, TypeOK
<1>5. CallMatchesLabel'
  BY <1>1, <1>2 DEF IInv, CallMatchesLabel
<1>6. LooksBeforeLocking'
  BY <1>1, <1>2 DEF IInv, LooksBeforeLocking, Named
<1>7. HoldsWhatItMoves'
  <2> SUFFICES ASSUME NEW u \in Threads, pc'[u] \in {"word", "unlock"}
               PROVE  holder'[ptr[u]] = u
    BY <1>1 DEF HoldsWhatItMoves
  <2>1. u # t /\ pc[u] \in {"word", "unlock"}
    BY <1>1, <1>2
  <2>2. holder[ptr[u]] = u /\ ptr[u] \in 1 .. Len(pipes)
    BY <1>2, <2>1 DEF IInv, HoldsWhatItMoves, LooksBeforeLocking
  <2> QED
    BY <1>2, <1>3, <2>1, <2>2
<1>8. BurstInBounds' /\ GrantHolds'
  BY <1>1, <1>2 DEF IInv, BurstInBounds, GrantHolds
<1>9. SignalsHoldNothing' /\ RegisteredStays' /\ CallIsScripted'
  BY <1>1, <1>2
     DEF IInv, SignalsHoldNothing, RegisteredStays, Registered, CallIsScripted, Script
<1> QED
  BY <1>4, <1>5, <1>6, <1>7, <1>8, <1>9 DEF IInv

(* The word that moves is a word, and it is moved within the record that   *)
(* the thread alone holds: nothing is written past a buffer or a burst.    *)
LEMMA MovedFacts ==
  ASSUME IInv, NEW t \in Threads, pc[t] = "word"
  PROVE  LET p == pipes[ptr[t]] IN
         /\ ptr[t] \in DOMAIN pipes /\ WellFormed(p)
         /\ call[t].op \in {"read", "write", "show"}
         /\ p.is_signal => Place(t, p) \in 0 .. p.pipe_depth - 1
         /\ Moved(t, p) \in Word
         /\ ~p.is_signal /\ call[t].op = "write" => p.number_of_entries < p.pipe_depth
         /\ ~p.is_signal /\ call[t].op # "write" => p.number_of_entries > 0
<1> DEFINE p == pipes[ptr[t]]
<1>1. ptr[t] \in DOMAIN pipes /\ WellFormed(p) /\ call[t].op \in {"read", "write", "show"}
  BY DEF IInv, TypeOK, LooksBeforeLocking, CallMatchesLabel
<1>2. /\ p.pipe_depth \in Nat \ {0} /\ p.number_of_entries \in 0 .. p.pipe_depth
      /\ p.read_pointer \in 0 .. p.pipe_depth - 1
      /\ p.buffer \in [0 .. p.pipe_depth - 1 -> Word]
  BY <1>1, FieldFacts
<1>3. /\ left[t] \in Nat /\ left[t] > 0 /\ Len(words[t]) \in Nat
      /\ Len(words[t]) + left[t] <= call[t].n
      /\ call[t].n \in Nat /\ call[t].data \in Seq(Word)
      /\ call[t].op = "write" => call[t].n = Len(call[t].data)
      /\ p.is_signal => left[t] <= p.pipe_depth
  BY DEF IInv, TypeOK, BurstInBounds, Calls, Sensible
<1>4. ~p.is_signal => IF call[t].op = "write"
                      THEN left[t] + p.number_of_entries <= p.pipe_depth
                      ELSE left[t] <= p.number_of_entries
  BY DEF IInv, GrantHolds
<1> HIDE DEF p
<1>5. p.is_signal => Place(t, p) \in 0 .. p.pipe_depth - 1
  BY <1>2, <1>3 DEF Place
<1>6. Moved(t, p) \in Word
  <2>1. CASE call[t].op = "write"
    <3>1. Len(words[t]) + 1 \in 1 .. Len(call[t].data)
      BY <1>3, <2>1
    <3>2. call[t].data[Len(words[t]) + 1] \in Word
      BY <1>3, <3>1
    <3> QED
      BY <2>1, <3>2 DEF Moved
  <2>2. CASE call[t].op # "write" /\ p.is_signal
    BY <1>2, <1>5, <2>2 DEF Moved
  <2>3. CASE call[t].op # "write" /\ ~p.is_signal
    BY <1>2, <2>3 DEF Moved, PopWord
  <2> QED
    BY <2>1, <2>2, <2>3
<1> QED
  BY <1>1, <1>2, <1>3, <1>4, <1>5, <1>6 DEF p

(* What the move does to the record.                                       *)
LEMMA AfterMoveFacts ==
  ASSUME IInv, NEW t \in Threads, pc[t] = "word"
  PROVE  LET p == pipes[ptr[t]]
             q == AfterMove(t, p) IN
         /\ WellFormed(q) /\ SameKind(q, p)
         /\ p.is_signal => q.number_of_entries = p.number_of_entries
         /\ ~p.is_signal /\ call[t].op = "write" => q.number_of_entries = p.number_of_entries + 1
         /\ ~p.is_signal /\ call[t].op = "read" => q.number_of_entries = p.number_of_entries - 1
         /\ ~p.is_signal /\ call[t].op = "show" => q.number_of_entries = p.number_of_entries
<1> DEFINE p == pipes[ptr[t]]
<1>1. /\ WellFormed(p) /\ call[t].op \in {"read", "write", "show"}
      /\ p.is_signal => Place(t, p) \in 0 .. p.pipe_depth - 1
      /\ Moved(t, p) \in Word
      /\ ~p.is_signal /\ call[t].op = "write" => p.number_of_entries < p.pipe_depth
      /\ ~p.is_signal /\ call[t].op # "write" => p.number_of_entries > 0
  BY MovedFacts
<1> HIDE DEF p
<1> SUFFICES LET q == AfterMove(t, p) IN
             /\ WellFormed(q) /\ SameKind(q, p)
             /\ p.is_signal => q.number_of_entries = p.number_of_entries
             /\ ~p.is_signal /\ call[t].op = "write" => q.number_of_entries = p.number_of_entries + 1
             /\ ~p.is_signal /\ call[t].op = "read" => q.number_of_entries = p.number_of_entries - 1
             /\ ~p.is_signal /\ call[t].op = "show" => q.number_of_entries = p.number_of_entries
  BY DEF p
<1>2. CASE call[t].op = "show"
  <2>1. AfterMove(t, p) = POPANDRESTORE(p)
    BY <1>2 DEF AfterMove
  <2> QED
    BY <1>1, <1>2, <2>1, RestoreFacts
<1>3. CASE call[t].op = "read"
  <2>1. AfterMove(t, p) = POP(p)
    BY <1>3 DEF AfterMove
  <2>2. p.is_signal \/ p.number_of_entries # 0
    BY <1>1, <1>3
  <2> QED
    BY <1>1, <1>3, <2>1, <2>2, PopFacts
<1>4. CASE call[t].op = "write" /\ ~p.is_signal
  <2>1. AfterMove(t, p) = PUSH(p, Moved(t, p))
    BY <1>4 DEF AfterMove
  <2> QED
    BY <1>1, <1>4, <2>1, PushFacts
<1>5. CASE call[t].op = "write" /\ p.is_signal
  <2>1. AfterMove(t, p) = [p EXCEPT !.buffer[Place(t, p)] = Moved(t, p)]
    BY <1>5 DEF AfterMove
  <2> QED
    BY <1>1, <1>5, <2>1, OverwriteFacts
<1> QED
  BY <1>1, <1>2, <1>3, <1>4, <1>5

(* A read or a show of a signal changes none of its words; a write changes *)
(* one of them.                                                            *)
LEMMA SignalMove ==
  ASSUME IInv, NEW t \in Threads, pc[t] = "word", pipes[ptr[t]].is_signal
  PROVE  LET p == pipes[ptr[t]]
             q == AfterMove(t, p) IN
         /\ call[t].op # "write" => q.buffer = p.buffer
         /\ call[t].op = "write" => q.buffer = [p.buffer EXCEPT ![Place(t, p)] = Moved(t, p)]
<1> DEFINE p == pipes[ptr[t]]
<1>1. /\ WellFormed(p) /\ call[t].op \in {"read", "write", "show"}
      /\ Place(t, p) \in 0 .. p.pipe_depth - 1 /\ Moved(t, p) \in Word
  BY MovedFacts
<1>2. CASE call[t].op = "show"
  BY <1>1, <1>2, RestoreFacts DEF AfterMove
<1>3. CASE call[t].op = "read"
  BY <1>3 DEF AfterMove, POP
<1>4. CASE call[t].op = "write"
  <2>1. AfterMove(t, p) = [p EXCEPT !.buffer[Place(t, p)] = Moved(t, p)]
    BY <1>4 DEF AfterMove
  <2> HIDE DEF p
  <2>2. AfterMove(t, p).buffer = [p.buffer EXCEPT ![Place(t, p)] = Moved(t, p)]
    BY <1>1, <2>1, OverwriteFacts
  <2> QED
    BY <1>4, <2>2 DEF p
<1> QED
  BY <1>1, <1>2, <1>3, <1>4

(* Nobody else is in the middle of a request on the same record.           *)
LEMMA Alone ==
  ASSUME IInv, NEW t \in Threads, pc[t] \in {"word", "unlock"},
         NEW u \in Threads, pc[u] \in {"word", "unlock"}, u # t
  PROVE  ptr[u] # ptr[t]
BY DEF IInv, HoldsWhatItMoves

LEMMA MoveStep ==
  ASSUME IInv, NEW t \in Threads, MoveWord(t), program' = program
  PROVE  LET i == ptr[t]
             q == AfterMove(t, pipes[i])
             w == Moved(t, pipes[i]) IN
         /\ pc[t] = "word" /\ i \in DOMAIN pipes
         /\ pipes' \in Seq({pipes'[j] : j \in DOMAIN pipes'})
         /\ Len(pipes') = Len(pipes) /\ DOMAIN pipes' = DOMAIN pipes
         /\ \A j \in DOMAIN pipes : pipes'[j] = IF j = i THEN q ELSE pipes[j]
         /\ words' = [words EXCEPT ![t] = Append(words[t], w)]
         /\ Append(words[t], w) \in Seq(Word)
         /\ Len(Append(words[t], w)) = Len(words[t]) + 1
         /\ left' = [left EXCEPT ![t] = left[t] - 1] /\ left[t] - 1 \in Nat
         /\ pc' = [pc EXCEPT ![t] = IF left[t] = 1 THEN "unlock" ELSE "word"]
         /\ UNCHANGED <<program, holder, call, made, ptr, status, aborted>>
<1> DEFINE i == ptr[t]
           q == AfterMove(t, pipes[i])
           w == Moved(t, pipes[i])
           S == {pipes[j] : j \in DOMAIN pipes} \union {q}
<1>1. /\ pc[t] = "word" /\ pipes' = [pipes EXCEPT ![i] = q]
      /\ words' = [words EXCEPT ![t] = Append(words[t], w)]
      /\ left' = [left EXCEPT ![t] = left[t] - 1]
      /\ pc' = [pc EXCEPT ![t] = IF left[t] = 1 THEN "unlock" ELSE "word"]
      /\ UNCHANGED <<program, holder, call, made, ptr, status, aborted>>
  BY DEF MoveWord, goto
<1>2. i \in DOMAIN pipes /\ w \in Word
  BY <1>1, MovedFacts
<1>3. words[t] \in Seq(Word) /\ left[t] \in Nat /\ left[t] > 0
  BY <1>1 DEF IInv, TypeOK, BurstInBounds
<1>4. pipes \in Seq(S) /\ q \in S
  BY SeqMonotonic DEF IInv, TypeOK
<1> HIDE DEF S, q, w, i
<1>5. /\ pipes' \in Seq(S) /\ Len(pipes') = Len(pipes) /\ DOMAIN pipes' = DOMAIN pipes
      /\ \A j \in DOMAIN pipes : pipes'[j] = IF j = i THEN q ELSE pipes[j]
  BY <1>1, <1>2, <1>4, ExceptSeq
<1>6. pipes' \in Seq({pipes'[j] : j \in DOMAIN pipes'})
  BY <1>5
<1>7. Append(words[t], w) \in Seq(Word) /\ Len(Append(words[t], w)) = Len(words[t]) + 1
  BY <1>2, <1>3
<1>8. left[t] - 1 \in Nat
  BY <1>3
<1> QED
  BY <1>1, <1>2, <1>5, <1>6, <1>7, <1>8 DEF i, q, w

LEMMA MoveWordIInv ==
  ASSUME IInv, NEW t \in Threads, MoveWord(t), program' = program
  PROVE  IInv'
<1> DEFINE i == ptr[t]
           q == AfterMove(t, pipes[i])
           s == Append(words[t], Moved(t, pipes[i]))
<1>1. /\ pc[t] = "word" /\ i \in DOMAIN pipes
      /\ pipes' \in Seq({pipes'[j] : j \in DOMAIN pipes'})
      /\ Len(pipes') = Len(pipes) /\ DOMAIN pipes' = DOMAIN pipes
      /\ \A j \in DOMAIN pipes : pipes'[j] = IF j = i THEN q ELSE pipes[j]
      /\ words' = [words EXCEPT ![t] = s]
      /\ s \in Seq(Word) /\ Len(s) = Len(words[t]) + 1
      /\ left' = [left EXCEPT ![t] = left[t] - 1] /\ left[t] - 1 \in Nat
      /\ pc' = [pc EXCEPT ![t] = IF left[t] = 1 THEN "unlock" ELSE "word"]
      /\ UNCHANGED <<program, holder, call, made, ptr, status, aborted>>
  BY MoveStep
<1>2. LET p == pipes[i] IN
      /\ WellFormed(q) /\ SameKind(q, p)
      /\ p.is_signal => q.number_of_entries = p.number_of_entries
      /\ ~p.is_signal /\ call[t].op = "write" => q.number_of_entries = p.number_of_entries + 1
      /\ ~p.is_signal /\ call[t].op = "read" => q.number_of_entries = p.number_of_entries - 1
      /\ ~p.is_signal /\ call[t].op = "show" => q.number_of_entries = p.number_of_entries
  BY <1>1, AfterMoveFacts
<1> HIDE DEF i, q, s
<1>3. /\ pc \in [Threads -> Labels] /\ words \in [Threads -> Seq(Word)]
      /\ left \in [Threads -> Nat] /\ call[t].op \in {"read", "write", "show"}
      /\ i = ptr[t]
  BY <1>1 DEF IInv, TypeOK, CallMatchesLabel, i
<1>4. TypeOK'
  <2>1. pc' \in [Threads -> Labels] /\ words' \in [Threads -> Seq(Word)]
        /\ left' \in [Threads -> Nat]
    BY <1>1, <1>3 DEF Labels
  <2>2. \A j \in DOMAIN pipes' : WellFormed(pipes'[j])
    BY <1>1, <1>2 DEF IInv, TypeOK
  <2>3. \A j \in DOMAIN pipes' : WellFormed(pipes[j])'
    BY <2>2 DEF WellFormed
  <2> QED
    BY <1>1, <2>1, <2>3 DEF IInv, TypeOK
<1>5. CallMatchesLabel'
  BY <1>1, <1>3 DEF IInv, CallMatchesLabel
<1>6. \A j \in DOMAIN pipes : SameKind(pipes'[j], pipes[j])
  BY <1>1, <1>2 DEF SameKind
<1>7. LooksBeforeLocking'
  <2>1. ASSUME NEW u \in Threads, pc'[u] = "refind"
        PROVE  \E j \in 1 .. Len(pipes') : pipes'[j].pipe_name = call[u].name
    <3>1. pc[u] = "refind"
      BY <1>1, <1>3, <2>1
    <3>2. PICK j \in 1 .. Len(pipes) : pipes[j].pipe_name = call[u].name
      BY <3>1 DEF IInv, LooksBeforeLocking, Named
    <3>3. DOMAIN pipes = 1 .. Len(pipes)
      BY DEF IInv, TypeOK
    <3> QED
      BY <1>1, <1>6, <3>2, <3>3 DEF SameKind
  <2>2. ASSUME NEW u \in Threads, pc'[u] \in {"lock", "word", "unlock"}
        PROVE  ptr'[u] \in DOMAIN pipes'
    <3>1. pc[u] \in {"lock", "word", "unlock"}
      BY <1>1, <1>3, <2>2
    <3> QED
      BY <1>1, <3>1 DEF IInv, LooksBeforeLocking
  <2> QED
    BY <1>1, <2>1, <2>2 DEF LooksBeforeLocking, Named
<1>8. HoldsWhatItMoves'
  BY <1>1, <1>3 DEF IInv, HoldsWhatItMoves
<1>9. ASSUME NEW u \in Threads, u # t, pc'[u] = "word"
      PROVE  /\ pc[u] = "word" /\ pipes'[ptr[u]] = pipes[ptr[u]]
             /\ words'[u] = words[u] /\ left'[u] = left[u]
  <2>1. pc[u] = "word" /\ words'[u] = words[u] /\ left'[u] = left[u]
    BY <1>1, <1>3, <1>9
  <2>2. ptr[u] # i /\ ptr[u] \in DOMAIN pipes
    BY <1>1, <1>3, <1>9, <2>1, Alone DEF IInv, LooksBeforeLocking
  <2> QED
    BY <1>1, <2>1, <2>2
<1>10. BurstInBounds'
  <2> SUFFICES ASSUME NEW u \in Threads
               PROVE  /\ pc'[u] # "idle" => Len(words'[u]) <= call[u].n
                      /\ pc'[u] = "word" =>
                           /\ left'[u] > 0
                           /\ Len(words'[u]) + left'[u] <= call[u].n
                           /\ pipes'[ptr[u]].is_signal =>
                                left'[u] <= pipes'[ptr[u]].pipe_depth
    BY <1>1 DEF IInv, BurstInBounds
  <2>1. CASE u = t
    <3>1. /\ Len(words[t]) + left[t] <= call[t].n /\ Len(words[t]) \in Nat
          /\ call[t].n \in Nat /\ left[t] > 0
          /\ pipes[i].is_signal => left[t] <= pipes[i].pipe_depth
          /\ pipes[i].pipe_depth \in Nat
      <4>1. pipes[i].pipe_depth \in Nat
        <5>1. WellFormed(pipes[i])
          BY <1>1 DEF IInv, TypeOK
        <5> QED
          BY <5>1, FieldFacts
      <4>2. call[t].n \in Nat /\ Len(words[t]) \in Nat
        <5>1. call[t] \in Calls /\ words[t] \in Seq(Word)
          BY <1>3 DEF IInv, TypeOK
        <5> QED
          BY <5>1 DEF Calls
      <4>3. /\ left[t] > 0 /\ Len(words[t]) + left[t] <= call[t].n
            /\ pipes[ptr[t]].is_signal => left[t] <= pipes[ptr[t]].pipe_depth
        BY <1>1 DEF IInv, BurstInBounds
      <4> QED
        BY <1>3, <4>1, <4>2, <4>3
    <3>2. /\ pipes'[i].is_signal = pipes[i].is_signal
          /\ pipes'[i].pipe_depth = pipes[i].pipe_depth
      BY <1>1, <1>6 DEF SameKind
    <3>3. Len(words'[t]) = Len(words[t]) + 1 /\ left'[t] = left[t] - 1 /\ ptr'[t] = i
      BY <1>1, <1>3
    <3>4. left[t] \in Nat /\ (pc'[t] = "word" => left[t] # 1)
      BY <1>1, <1>3
    <3> QED
      BY <1>3, <2>1, <3>1, <3>2, <3>3, <3>4
  <2>2. CASE u # t
    <3>1. pc'[u] = pc[u] /\ words'[u] = words[u]
      BY <1>1, <1>3, <2>2
    <3> QED
      BY <1>9, <2>2, <3>1 DEF IInv, BurstInBounds
  <2> QED
    BY <2>1, <2>2
<1>11. GrantHolds'
  <2> SUFFICES ASSUME NEW u \in Threads, pc'[u] = "word", ~pipes'[ptr[u]].is_signal
               PROVE  IF call[u].op = "write"
                      THEN left'[u] + pipes'[ptr[u]].number_of_entries
                             <= pipes'[ptr[u]].pipe_depth
                      ELSE left'[u] <= pipes'[ptr[u]].number_of_entries
    BY <1>1 DEF GrantHolds
  <2>1. CASE u = t
    <3>1. ~pipes[i].is_signal /\ pipes'[i].pipe_depth = pipes[i].pipe_depth
      BY <1>1, <1>3, <1>6, <2>1 DEF SameKind
    <3>2. IF call[t].op = "write"
          THEN left[t] + pipes[i].number_of_entries <= pipes[i].pipe_depth
          ELSE left[t] <= pipes[i].number_of_entries
      BY <1>1, <1>3, <3>1 DEF IInv, GrantHolds
    <3>3. pipes[i].number_of_entries \in Nat /\ pipes[i].pipe_depth \in Nat
      <4>1. WellFormed(pipes[i])
        BY <1>1 DEF IInv, TypeOK
      <4> QED
        BY <4>1, FieldFacts
    <3>4. /\ call[t].op = "write" =>
               pipes'[i].number_of_entries = pipes[i].number_of_entries + 1
          /\ call[t].op = "read" =>
               pipes'[i].number_of_entries = pipes[i].number_of_entries - 1
          /\ call[t].op = "show" =>
               pipes'[i].number_of_entries = pipes[i].number_of_entries
      BY <1>1, <1>2, <3>1
    <3>5. left'[t] = left[t] - 1 /\ left[t] \in Nat
      BY <1>1, <1>3
    <3>6. call[t].op \in {"read", "write", "show"}
      BY <1>3
    <3>7. IF call[t].op = "write"
          THEN left'[t] + pipes'[i].number_of_entries <= pipes[i].pipe_depth
          ELSE left'[t] <= pipes'[i].number_of_entries
      <4>1. CASE call[t].op = "write"
        BY <3>2, <3>3, <3>4, <3>5, <4>1
      <4>2. CASE call[t].op # "write"
        BY <3>2, <3>3, <3>4, <3>5, <3>6, <4>2
      <4> QED
        BY <4>1, <4>2
    <3> QED
      BY <1>3, <2>1, <3>1, <3>7
  <2>2. CASE u # t
    BY <1>9, <2>2 DEF IInv, GrantHolds
  <2> QED
    BY <2>1, <2>2
<1>12. SignalsHoldNothing'
  <2> SUFFICES ASSUME NEW j \in DOMAIN pipes, pipes'[j].is_signal
               PROVE  /\ pipes'[j].number_of_entries = 0
                      /\ pipes'[j].pipe_mode = PIPE_FIFO_MODE
    BY <1>1 DEF SignalsHoldNothing
  <2>1. pipes[j].is_signal /\ pipes'[j].pipe_mode = pipes[j].pipe_mode
    BY <1>6 DEF SameKind
  <2> QED
    BY <1>1, <1>2, <2>1 DEF IInv, SignalsHoldNothing
<1>13. RegisteredStays'
  <2>1. DOMAIN Registered \subseteq DOMAIN pipes
    <3>1. DOMAIN Registered = 1 .. Len(Registered) /\ Len(Registered) \in Nat
      BY ProgramsAssumption DEF Registered, IInv, RegisteredStays
    <3> QED
      BY <3>1 DEF IInv, TypeOK, RegisteredStays
  <2>2. \A j \in DOMAIN Registered : SameKind(pipes'[j], Registered[j])
    BY <1>6, <2>1 DEF IInv, RegisteredStays, SameKind
  <2> QED
    BY <1>1, <2>2 DEF IInv, RegisteredStays, Registered, SameKind
<1>14. CallIsScripted'
  <2>1. \A u \in Threads : pc'[u] # "idle" => pc[u] # "idle"
    BY <1>1, <1>3
  <2> QED
    BY <1>1, <2>1 DEF IInv, CallIsScripted, Script
<1> QED
  BY <1>4, <1>5, <1>7, <1>8, <1>10, <1>11, <1>12, <1>13, <1>14 DEF IInv

-----------------------------------------------------------------------------
(* The invariant holds in every program.                                   *)

LEMMA StepIInv ==
  ASSUME IInv, NEW t \in Threads, Step(t)
  PROVE  IInv'
BY CallIInv, RegisterIInv, InsertIInv, FindIInv, RefindIInv, LookIInv,
   LockIInv, MoveWordIInv, UnlockIInv DEF Step

LEMMA StutterIInv == IInv /\ UNCHANGED vars => IInv'
BY DEF IInv, vars, TypeOK, CallMatchesLabel, LooksBeforeLocking, HoldsWhatItMoves,
       BurstInBounds, SignalsHoldNothing, GrantHolds, RegisteredStays,
       CallIsScripted, Named, Registered, Script

THEOREM Invariance == Spec => []IInv
<1>1. IInv /\ [Next]_vars => IInv'
  BY StepIInv, StutterIInv DEF Next, Ended
<1> QED
  BY InitIInv, <1>1, PTL DEF Spec

(* Every pointer stays within its ring and every buffer keeps its size,    *)
(* whatever the threads call (pipeHandler.h:125-207).                      *)
THEOREM Typing == Spec => []TypeOK
<1>1. IInv => TypeOK
  BY DEF IInv
<1> QED
  BY Invariance, <1>1, PTL

(* What a request was granted before its first word still holds at its     *)
(* last one: the loop that moves the words may go without looking, in any  *)
(* program and with any number of threads (pipeHandler.c:362-421).         *)
THEOREM GrantsHold == Spec => []GrantHolds
<1>1. IInv => GrantHolds
  BY DEF IInv
<1> QED
  BY Invariance, <1>1, PTL

-----------------------------------------------------------------------------
(* What holds of the pipe handler in a well-behaved program.  First, if    *)
(* every name has one owner: main registers it before the threads start,   *)
(* or one thread alone asks for it.  Then, if no pipe that holds words is  *)
(* shown: its rings stay consistent, and every pipe that main registered   *)
(* is an AbstractPipe.                                                     *)

-----------------------------------------------------------------------------
(* Every name has one record.                                              *)

OneRecordEach ==
  \A i, j \in DOMAIN pipes : pipes[i].pipe_name = pipes[j].pipe_name => i = j

(* A name that is about to be added is not there yet; a pipe that is about *)
(* to be shown is.                                                         *)
AddsWhatIsMissing ==
  \A t \in Threads :
    /\ pc[t] \in {"register", "insert"} => call[t].op # "show"
    /\ pc[t] = "insert" => Named(call[t].name) = {}
    /\ pc[t] = "find" /\ call[t].op = "show" => Named(call[t].name) # {}

(* A request works on the record its caller named.                         *)
UsesWhatItNamed ==
  \A t \in Threads :
    pc[t] \in {"lock", "word", "unlock"} => pipes[ptr[t]].pipe_name = call[t].name

(* A registration that succeeded is honoured by a record.                  *)
Honoured ==
  \A t \in Threads :
    (pc[t] = "idle" /\ call[t].op \in {"register", "signal"} /\ status[t] = 0) =>
      \E i \in DOMAIN pipes : /\ pipes[i].pipe_name = call[t].name
                              /\ SameShape(pipes[i], Wanted(t))

NInv == OneRecordEach /\ AddsWhatIsMissing /\ UsesWhatItNamed /\ Honoured

-----------------------------------------------------------------------------
(* A signal of several words is moved whole.                               *)

Wide(p) == p.is_signal /\ p.pipe_depth > 1

(* A burst that has moved words has a record; a burst on a signal starts   *)
(* with nothing moved, and ends with everything moved.                     *)
BurstOnASignal ==
  \A t \in Threads :
    /\ pc[t] # "idle" /\ words[t] # <<>> => Named(call[t].name) # {}
    /\ pc[t] \notin {"idle", "word", "unlock"} =>
         \A i \in DOMAIN pipes :
           (Wide(pipes[i]) /\ pipes[i].pipe_name = call[t].name) => words[t] = <<>>
    /\ ~aborted /\ pc[t] = "word" /\ Wide(pipes[ptr[t]]) =>
         /\ call[t].n = pipes[ptr[t]].pipe_depth
         /\ Len(words[t]) + left[t] = call[t].n
    /\ pc[t] = "unlock" /\ Wide(pipes[ptr[t]]) /\ call[t].op # "show" =>
         /\ Len(words[t]) = call[t].n
         /\ call[t].n > 0 => call[t].n = pipes[ptr[t]].pipe_depth

(* The k-th word moved is the k-th word of the record.                     *)
InStep ==
  \A t \in Threads :
    /\ ~aborted /\ pc[t] = "word" /\ Wide(pipes[ptr[t]]) /\ call[t].op = "write" =>
         \A k \in 1 .. Len(words[t]) :
           pipes[ptr[t]].buffer[k - 1] = call[t].data[k]
    /\ pc[t] \in {"word", "unlock"} /\ Wide(pipes[ptr[t]]) /\ call[t].op = "read" =>
         (aborted /\ pc[t] = "word")
           \/ \A k \in 1 .. Len(words[t]) :
                pipes[ptr[t]].buffer[k - 1] = words[t][k]

(* What a signal holds, unless a thread is in the middle of writing it.    *)
Image(p) == [k \in 1 .. p.pipe_depth |-> p.buffer[k - 1]]
BeingWritten(i) ==
  \E t \in Threads : pc[t] = "word" /\ ptr[t] = i /\ call[t].op = "write"
HoldsAWhole ==
  \A i \in DOMAIN pipes : Wide(pipes[i]) =>
    \/ BeingWritten(i)
    \/ Image(pipes[i]) \in WrittenTo(pipes[i].pipe_name)
                           \union {Zeros(pipes[i].pipe_depth)}

SInv == BurstOnASignal /\ InStep /\ HoldsAWhole

(* Every signal has one of the sizes it was asked for with.                *)
SizesAsAsked ==
  \A i \in DOMAIN pipes :
    pipes[i].is_signal => pipes[i].pipe_depth \in SignalSizes(program, pipes[i].pipe_name)

-----------------------------------------------------------------------------
(* What each step leaves alone.                                            *)

(* A step that is not an insertion adds no record and renames none.        *)
Kept ==
  /\ DOMAIN pipes' = DOMAIN pipes /\ Len(pipes') = Len(pipes)
  /\ \A i \in DOMAIN pipes : SameKind(pipes'[i], pipes[i])

LEMMA KindsKept ==
  ASSUME IInv, NEW t \in Threads, Step(t), ~ Insert(t)
  PROVE  Kept
<1>1. CASE MoveWord(t)
  <2>1. program' = program
    BY DEF Step
  <2> DEFINE q == AfterMove(t, pipes[ptr[t]])
  <2>2. /\ pc[t] = "word" /\ DOMAIN pipes' = DOMAIN pipes /\ Len(pipes') = Len(pipes)
        /\ \A j \in DOMAIN pipes : pipes'[j] = IF j = ptr[t] THEN q ELSE pipes[j]
    BY <1>1, <2>1, MoveStep
  <2>3. SameKind(q, pipes[ptr[t]])
    BY <2>2, AfterMoveFacts
  <2> HIDE DEF q
  <2> QED
    BY <2>2, <2>3 DEF SameKind, Kept
<1>2. CASE pipes' = pipes
  BY <1>2 DEF SameKind, Kept
<1> QED
  BY <1>1, <1>2 DEF Step, Call, Register, Find, Refind, Look, Lock, Unlock, Stay

(* A step of one thread moves no other.                                    *)
LEMMA OthersKeep ==
  ASSUME IInv, NEW t \in Threads, Step(t), NEW u \in Threads, u # t
  PROVE  /\ pc'[u] = pc[u] /\ call'[u] = call[u] /\ status'[u] = status[u]
         /\ ptr'[u] = ptr[u] /\ words'[u] = words[u] /\ left'[u] = left[u]
<1>1. /\ pc \in [Threads -> Labels] /\ call \in [Threads -> Calls]
      /\ status \in [Threads -> {0, 1}] /\ ptr \in [Threads -> 0 .. Len(pipes)]
      /\ words \in [Threads -> Seq(Word)] /\ left \in [Threads -> Nat]
  BY DEF IInv, TypeOK
<1>2. CASE Call(t) \/ Register(t) \/ Insert(t) \/ Look(t)
  BY <1>1, <1>2 DEF Call, Register, Insert, Look, goto
<1>3. CASE Find(t) \/ Refind(t)
  BY <1>1, <1>3 DEF Find, Refind, Use, goto
<1>4. CASE Lock(t) \/ MoveWord(t) \/ Unlock(t)
  BY <1>1, <1>4 DEF Lock, MoveWord, Unlock, goto
<1> QED
  BY <1>2, <1>3, <1>4 DEF Step

(* What is found stays found, and only an insertion adds to it.            *)
LEMMA Grows ==
  ASSUME IInv, NEW t \in Threads, Step(t)
  PROVE  /\ DOMAIN pipes \subseteq DOMAIN pipes'
         /\ DOMAIN pipes = 1 .. Len(pipes) /\ DOMAIN pipes' = 1 .. Len(pipes')
         /\ \A i \in DOMAIN pipes : SameKind(pipes'[i], pipes[i])
         /\ \A i \in DOMAIN pipes' : i \in DOMAIN pipes \/
              (Insert(t) /\ pipes'[i] = Wanted(t))
<1>0. DOMAIN pipes = 1 .. Len(pipes)
  BY DEF IInv, TypeOK
<1>1. CASE Insert(t)
  <2>1. /\ Len(pipes) \in Nat /\ DOMAIN pipes = 1 .. Len(pipes)
        /\ DOMAIN pipes' = 1 .. Len(pipes) + 1 /\ Len(pipes') = Len(pipes) + 1
        /\ \A i \in DOMAIN pipes : pipes'[i] = pipes[i]
        /\ pipes'[Len(pipes) + 1] = Wanted(t)
    BY <1>1, InsertFacts
  <2> QED
    BY <1>1, <2>1 DEF SameKind
<1>2. CASE ~ Insert(t)
  BY <1>0, <1>2, KindsKept DEF Kept
<1> QED
  BY <1>1, <1>2

(* A step that is not an insertion: the thread that takes it is where the  *)
(* call takes it, and nobody's record has gone.                            *)
LEMMA LabelsAfter ==
  ASSUME IInv, NEW t \in Threads, Step(t), ~ Insert(t)
  PROVE  /\ pc'[t] = "register" =>
              \/ Call(t) /\ call'[t].op # "show"
              \/ Find(t) /\ pc[t] = "find" /\ call'[t] = call[t]
                   /\ Named(call[t].name) = {}
         /\ pc'[t] = "insert" =>
              Register(t) /\ call'[t] = call[t] /\ Named(call[t].name) = {}
         /\ pc'[t] = "find" /\ call'[t].op = "show" =>
              \/ Look(t) /\ call'[t].name = call[t].name /\ Named(call[t].name) # {}
              \/ pc[t] = "find" /\ call'[t] = call[t]
         /\ pc'[t] \in {"lock", "word", "unlock"} =>
              \/ (Find(t) \/ Refind(t)) /\ call'[t] = call[t] /\ ptr'[t] = FindPipe(call[t].name)
                   /\ ptr'[t] # 0
              \/ pc[t] \in {"lock", "word", "unlock"} /\ call'[t] = call[t] /\ ptr'[t] = ptr[t]
         /\ pc'[t] = "idle" /\ call'[t].op \in {"register", "signal"} =>
              Register(t) /\ call'[t] = call[t] /\ FindPipe(call[t].name) # 0
<1>0. /\ pc \in [Threads -> Labels] /\ call \in [Threads -> Calls]
      /\ ptr \in [Threads -> 0 .. Len(pipes)]
  BY DEF IInv, TypeOK
<1>1. CASE Call(t)
  <2>1. PICK c \in Script[t][made[t] + 1] :
          /\ call' = [call EXCEPT ![t] = c] /\ pc' = [pc EXCEPT ![t] = Entry(c.op)]
    BY <1>1 DEF Call, goto
  <2>2. c.op \in {"register", "signal", "read", "write", "show"}
    <3>1. call' \in [Threads -> Calls]
      BY <1>1, CallIInv DEF Step, IInv, TypeOK
    <3>2. c \in Calls
      BY <1>0, <2>1, <3>1
    <3> QED
      BY <3>2 DEF Calls
  <2> QED
    BY <1>0, <1>1, <2>1, <2>2 DEF Entry
<1>2. CASE Register(t)
  BY <1>0, <1>2, FindFacts DEF Register, goto, AfterRegister, IInv
<1>3. CASE Find(t)
  <2>1. call[t].op \in {"read", "write", "show"} /\ call' = call
    BY <1>3 DEF Find, IInv, CallMatchesLabel
  <2>2. CASE FindPipe(call[t].name) = 0
    <3>1. Named(call[t].name) = {} /\ pc[t] = "find"
      BY <1>3, <2>2, FindFacts DEF Find, IInv
    <3>2. \/ pc' = pc
          \/ pc' = [pc EXCEPT ![t] = "register"]
      BY <1>3, <2>2 DEF Find, goto
    <3> QED
      BY <1>0, <1>3, <2>1, <3>1, <3>2
  <2>3. CASE FindPipe(call[t].name) # 0
    BY <1>0, <1>3, <2>1, <2>3, FindFacts DEF Find, Use, goto, Mismatch, IInv
  <2> QED
    BY <2>2, <2>3
<1>4. CASE Refind(t)
  <2>1. call[t].op \in {"read", "write", "show"} /\ FindPipe(call[t].name) # 0
    BY <1>4, FindFacts DEF Refind, IInv, CallMatchesLabel, LooksBeforeLocking
  <2> QED
    BY <1>0, <1>4, <2>1 DEF Refind, Use, goto, Mismatch
<1>5. CASE Look(t)
  <2>1. call[t].op = "show"
    BY <1>5 DEF Look, IInv, CallMatchesLabel
  <2> QED
    BY <1>0, <1>5, <2>1, FindFacts DEF Look, goto, IInv, Calls
<1>6. CASE Lock(t)
  BY <1>0, <1>6 DEF Lock, goto
<1>7. CASE MoveWord(t)
  BY <1>0, <1>7 DEF MoveWord, goto
<1>8. CASE Unlock(t)
  BY <1>0, <1>8 DEF Unlock, goto, IInv, CallMatchesLabel
<1> QED
  BY <1>1, <1>2, <1>3, <1>4, <1>5, <1>6, <1>7, <1>8 DEF Step

(* A request works on the record its caller named, in any program.         *)
LEMMA UsesStep ==
  ASSUME IInv, UsesWhatItNamed, NEW t \in Threads, Step(t)
  PROVE  UsesWhatItNamed'
<1> SUFFICES ASSUME NEW u \in Threads, pc'[u] \in {"lock", "word", "unlock"}
             PROVE  pipes'[ptr'[u]].pipe_name = call'[u].name
  BY DEF UsesWhatItNamed
<1>1. ASSUME NEW i \in DOMAIN pipes, pipes[i].pipe_name = call'[u].name, ptr'[u] = i
      PROVE  pipes'[ptr'[u]].pipe_name = call'[u].name
  BY <1>1, Grows DEF SameKind
<1>2. CASE u # t
  BY <1>1, <1>2, OthersKeep DEF UsesWhatItNamed, IInv, LooksBeforeLocking
<1>3. CASE u = t
  <2>1. ~ Insert(t)
    BY <1>3, InsertFacts DEF IInv, TypeOK
  <2>2. CASE pc[t] \in {"lock", "word", "unlock"} /\ call'[t] = call[t] /\ ptr'[t] = ptr[t]
    BY <1>1, <1>3, <2>2 DEF UsesWhatItNamed, IInv, LooksBeforeLocking
  <2>3. CASE call'[t] = call[t] /\ ptr'[t] = FindPipe(call[t].name) /\ ptr'[t] # 0
    <3>1. ptr'[t] \in DOMAIN pipes /\ pipes[ptr'[t]].pipe_name = call[t].name
      BY <2>3, FindFacts DEF IInv
    <3> QED
      BY <1>1, <1>3, <2>3, <3>1
  <2> QED
    BY <1>3, <2>1, <2>2, <2>3, LabelsAfter
<1> QED
  BY <1>2, <1>3

(* With one record to a name, the name finds it.                           *)
LEMMA FindsIt ==
  TypeOK /\ OneRecordEach => \A i \in DOMAIN pipes : FindPipe(pipes[i].pipe_name) = i
<1> SUFFICES ASSUME TypeOK, OneRecordEach, NEW i \in DOMAIN pipes
             PROVE  FindPipe(pipes[i].pipe_name) = i
  OBVIOUS
<1>1. i \in Named(pipes[i].pipe_name)
  BY DEF Named, TypeOK
<1>2. FindPipe(pipes[i].pipe_name) # 0
  BY <1>1, FindFacts
<1>3. /\ FindPipe(pipes[i].pipe_name) \in DOMAIN pipes
      /\ pipes[FindPipe(pipes[i].pipe_name)].pipe_name = pipes[i].pipe_name
  BY <1>2, FindFacts
<1> QED
  BY <1>3 DEF OneRecordEach

-----------------------------------------------------------------------------
(* One record to a name, for ever.                                         *)

LEMMA InitNInv ==
  ASSUME \A p \in Programs : NamesHaveOneOwner(p), Init
  PROVE  NInv
<1>1. pipes = program.registered /\ program \in Programs
  BY DEF Init, Registered
<1>2. OneRecordEach
  BY <1>1 DEF OneRecordEach, NamesHaveOneOwner
<1>3. AddsWhatIsMissing /\ UsesWhatItNamed
  BY DEF Init, AddsWhatIsMissing, UsesWhatItNamed
<1>4. Honoured
  BY DEF Init, Honoured, NoCall, ShowPipe
<1> QED
  BY <1>2, <1>3, <1>4 DEF NInv

(* Two threads never add a record for the same name.                       *)
LEMMA InsertsApart ==
  ASSUME \A p \in Programs : NamesHaveOneOwner(p), IInv, NInv,
         NEW t \in Threads, pc[t] = "insert",
         NEW u \in Threads, u # t, pc[u] # "idle", call[u].op # "show"
  PROVE  call[u].name # call[t].name
<1> SUFFICES ASSUME call[u].name = call[t].name PROVE FALSE
  OBVIOUS
<1> DEFINE name == call[t].name
<1>1. call[t].op # "show" /\ Named(name) = {}
  BY DEF NInv, AddsWhatIsMissing
<1>2. ASSUME NEW v \in Threads, pc[v] # "idle", call[v].op # "show"
      PROVE  call[v].name \in Asked(program, v)
  <2>1. PICK k \in DOMAIN Script[v] : call[v] \in Script[v][k]
    BY <1>2 DEF IInv, CallIsScripted
  <2>2. call[v] \in CallsOf(program, v)
    BY <2>1 DEF CallsOf, Script
  <2> QED
    BY <1>2, <2>2 DEF Asked
<1>3. name \in Asked(program, t) \intersect Asked(program, u)
  BY <1>1, <1>2
<1>4. PICK i \in DOMAIN program.registered : program.registered[i].pipe_name = name
  BY <1>3 DEF NamesHaveOneOwner, IInv, RegisteredStays
<1>5. i \in 1 .. Len(pipes) /\ pipes[i].pipe_name = name
  <2>1. DOMAIN Registered = 1 .. Len(Registered) /\ Len(Registered) \in Nat
    BY ProgramsAssumption DEF Registered, IInv, RegisteredStays
  <2> QED
    BY <1>4, <2>1 DEF IInv, TypeOK, RegisteredStays, Registered, SameKind
<1> QED
  BY <1>1, <1>5 DEF Named

LEMMA InsertNInv ==
  ASSUME \A p \in Programs : NamesHaveOneOwner(p), IInv, NInv,
         NEW t \in Threads, Insert(t), program' = program
  PROVE  NInv'
<1>1. /\ Len(pipes) \in Nat /\ DOMAIN pipes = 1 .. Len(pipes)
      /\ DOMAIN pipes' = 1 .. Len(pipes) + 1 /\ Len(pipes') = Len(pipes) + 1
      /\ \A i \in DOMAIN pipes : pipes'[i] = pipes[i]
      /\ pipes'[Len(pipes) + 1] = Wanted(t)
      /\ pc' = [pc EXCEPT ![t] = AfterRegister(t)]
      /\ AfterRegister(t) \in {"refind", "idle"}
      /\ AfterRegister(t) = "refind" => call[t].op \in {"read", "write"}
  BY InsertFacts
<1>2. Wanted(t).pipe_name = call[t].name
  BY WantedFacts DEF IInv, TypeOK, BurstInBounds
<1>3. /\ pc[t] = "insert" /\ UNCHANGED <<program, call, ptr>>
      /\ status' = [status EXCEPT ![t] = 0]
  BY DEF Insert
<1>4. pc \in [Threads -> Labels] /\ status \in [Threads -> {0, 1}]
  BY DEF IInv, TypeOK
<1>5. \A i \in DOMAIN pipes : pipes[i].pipe_name # call[t].name
  BY <1>1, <1>3 DEF NInv, AddsWhatIsMissing, Named
<1>6. OneRecordEach'
  BY <1>1, <1>2, <1>5 DEF NInv, OneRecordEach
<1>7. AddsWhatIsMissing'
  <2> SUFFICES ASSUME NEW u \in Threads
               PROVE  /\ pc'[u] \in {"register", "insert"} => call[u].op # "show"
                      /\ pc'[u] = "insert" => Named(call[u].name)' = {}
                      /\ pc'[u] = "find" /\ call[u].op = "show" => Named(call[u].name)' # {}
    BY <1>3 DEF AddsWhatIsMissing, Named
  <2>1. CASE u = t
    BY <1>1, <1>3, <1>4, <2>1
  <2>2. CASE u # t
    <3>1. pc'[u] = pc[u]
      BY <1>1, <1>4, <2>2
    <3>2. pc[u] \in {"register", "insert"} => call[u].op # "show"
      BY DEF NInv, AddsWhatIsMissing
    <3>3. ASSUME pc[u] = "insert" PROVE Named(call[u].name)' = {}
      <4>1. call[u].name # call[t].name
        BY <1>3, <2>2, <3>2, <3>3, InsertsApart
      <4>2. \A i \in DOMAIN pipes : pipes[i].pipe_name # call[u].name
        BY <1>1, <3>3 DEF NInv, AddsWhatIsMissing, Named
      <4>3. \A i \in DOMAIN pipes' : pipes'[i].pipe_name # call[u].name
        BY <1>1, <1>2, <4>1, <4>2
      <4> QED
        BY <1>1, <1>3, <4>3 DEF Named
    <3>4. ASSUME pc[u] = "find", call[u].op = "show"
          PROVE  Named(call[u].name)' # {}
      <4>1. PICK i \in 1 .. Len(pipes) : pipes[i].pipe_name = call[u].name
        BY <3>4 DEF NInv, AddsWhatIsMissing, Named
      <4> QED
        BY <1>1, <1>3, <4>1 DEF Named
    <3> QED
      BY <3>1, <3>2, <3>3, <3>4
  <2> QED
    BY <2>1, <2>2
<1>8. UsesWhatItNamed'
  BY UsesStep DEF NInv, Step
<1>9. \A u \in Threads : Wanted(u)' = Wanted(u)
  BY <1>3 DEF Wanted
<1>10. Honoured'
  <2> SUFFICES ASSUME NEW u \in Threads, pc'[u] = "idle",
                      call[u].op \in {"register", "signal"}, status'[u] = 0
               PROVE  \E i \in DOMAIN pipes' : /\ pipes'[i].pipe_name = call[u].name
                                               /\ SameShape(pipes'[i], Wanted(u))
    BY <1>3, <1>9 DEF Honoured, SameShape
  <2>1. CASE u = t
    <3>1. SameShape(Wanted(t), Wanted(t))
      BY DEF SameShape
    <3> QED
      BY <1>1, <1>2, <2>1, <3>1
  <2>2. CASE u # t
    <3>1. pc[u] = "idle" /\ status[u] = 0
      BY <1>1, <1>3, <1>4, <2>2
    <3>2. PICK i \in DOMAIN pipes : /\ pipes[i].pipe_name = call[u].name
                                    /\ SameShape(pipes[i], Wanted(u))
      BY <3>1 DEF NInv, Honoured
    <3> QED
      BY <1>1, <3>2
  <2> QED
    BY <2>1, <2>2
<1> QED
  BY <1>6, <1>7, <1>8, <1>10 DEF NInv

LEMMA KeptNInv ==
  ASSUME IInv, NInv, NEW t \in Threads, Step(t), ~ Insert(t)
  PROVE  NInv'
<1>1. Kept /\ TypeOK
  BY KindsKept DEF IInv
<1>2. \A u \in Threads : Named(call[u].name)' = Named(call'[u].name)
  BY <1>1 DEF Kept, TypeOK, Named, SameKind
<1>3. \A u \in Threads : u # t =>
        /\ pc'[u] = pc[u] /\ call'[u] = call[u] /\ status'[u] = status[u]
        /\ ptr'[u] = ptr[u]
  BY OthersKeep
<1>4. OneRecordEach'
  BY <1>1 DEF Kept, NInv, OneRecordEach, SameKind
<1>5. AddsWhatIsMissing'
  <2> SUFFICES ASSUME NEW u \in Threads
               PROVE  /\ pc'[u] \in {"register", "insert"} => call'[u].op # "show"
                      /\ pc'[u] = "insert" => Named(call[u].name)' = {}
                      /\ pc'[u] = "find" /\ call'[u].op = "show" =>
                           Named(call[u].name)' # {}
    BY DEF AddsWhatIsMissing
  <2>1. CASE u # t
    BY <1>2, <1>3, <2>1 DEF NInv, AddsWhatIsMissing
  <2>2. CASE u = t
    <3>1. ASSUME pc'[t] = "register" PROVE call'[t].op # "show"
      BY <3>1, LabelsAfter DEF NInv, AddsWhatIsMissing
    <3>2. ASSUME pc'[t] = "insert"
          PROVE  call'[t].op # "show" /\ Named(call[t].name)' = {}
      BY <1>2, <3>2, LabelsAfter DEF NInv, AddsWhatIsMissing, Register
    <3>3. ASSUME pc'[t] = "find", call'[t].op = "show"
          PROVE  Named(call[t].name)' # {}
      BY <1>2, <3>3, LabelsAfter DEF NInv, AddsWhatIsMissing
    <3> QED
      BY <2>2, <3>1, <3>2, <3>3
  <2> QED
    BY <2>1, <2>2
<1>6. UsesWhatItNamed'
  BY UsesStep DEF NInv
<1>7. Honoured'
  <2> SUFFICES ASSUME NEW u \in Threads, pc'[u] = "idle",
                      call'[u].op \in {"register", "signal"}, status'[u] = 0
               PROVE  \E i \in DOMAIN pipes' : /\ pipes'[i].pipe_name = call'[u].name
                                               /\ SameShape(pipes'[i], Wanted(u)')
    BY DEF Honoured, SameShape
  <2>1. ASSUME call'[u] = call[u],
               NEW i \in DOMAIN pipes, pipes[i].pipe_name = call[u].name,
               SameShape(pipes[i], Wanted(u))
        PROVE  \E j \in DOMAIN pipes' : /\ pipes'[j].pipe_name = call'[u].name
                                        /\ SameShape(pipes'[j], Wanted(u)')
    <3>1. Wanted(u)' = Wanted(u)
      BY <2>1 DEF Wanted
    <3>2. i \in DOMAIN pipes' /\ SameKind(pipes'[i], pipes[i])
      BY <1>1 DEF Kept
    <3> QED
      BY <2>1, <3>1, <3>2 DEF SameKind, SameShape
  <2>2. CASE u # t
    BY <1>3, <2>1, <2>2 DEF NInv, Honoured
  <2>3. CASE u = t
    <3> DEFINE i == FindPipe(call[t].name)
    <3>1. Register(t) /\ call'[t] = call[t] /\ i # 0
      BY <2>3, LabelsAfter
    <3>2. i \in DOMAIN pipes /\ pipes[i].pipe_name = call[t].name
      BY <1>1, <3>1, FindFacts
    <3>3. ~ Conflict(pipes[i], Wanted(t))
      BY <2>3, <3>1 DEF Register, IInv, TypeOK
    <3>4. SameShape(pipes[i], Wanted(t))
      BY <3>3 DEF SameShape, Conflict
    <3> HIDE DEF i
    <3> QED
      BY <2>1, <2>3, <3>1, <3>2, <3>4
  <2> QED
    BY <2>2, <2>3
<1> QED
  BY <1>4, <1>5, <1>6, <1>7 DEF NInv

LEMMA StutterNInv == NInv /\ UNCHANGED vars => NInv'
<1> SUFFICES ASSUME NInv, UNCHANGED vars PROVE NInv'
  OBVIOUS
<1>1. UNCHANGED <<pipes, pc, call, ptr, status>>
  BY DEF vars
<1>2. \A t \in Threads : Wanted(t)' = Wanted(t)
  BY <1>1 DEF Wanted
<1>3. \A t \in Threads : Named(call[t].name)' = Named(call[t].name)
  BY <1>1 DEF Named
<1>4. OneRecordEach' /\ UsesWhatItNamed'
  BY <1>1 DEF NInv, OneRecordEach, UsesWhatItNamed
<1>5. AddsWhatIsMissing'
  BY <1>1, <1>3 DEF NInv, AddsWhatIsMissing
<1>6. Honoured'
  BY <1>1, <1>2 DEF NInv, Honoured, SameShape
<1> QED
  BY <1>4, <1>5, <1>6 DEF NInv

THEOREM NamesInvariance ==
  ASSUME \A p \in Programs : NamesHaveOneOwner(p)
  PROVE  Spec => [](IInv /\ NInv)
<1>1. Init => IInv /\ NInv
  BY InitIInv, InitNInv
<1>2. IInv /\ NInv /\ [Next]_vars => (IInv /\ NInv)'
  <2>1. ASSUME IInv, NInv, NEW t \in Threads, Step(t) PROVE (IInv /\ NInv)'
    <3>1. IInv' /\ program' = program
      BY <2>1, StepIInv DEF Step
    <3>2. NInv'
      BY <2>1, <3>1, KeptNInv, InsertNInv
    <3> QED
      BY <3>1, <3>2
  <2> QED
    BY <2>1, StutterIInv, StutterNInv DEF Next, Ended
<1> QED
  BY <1>1, <1>2, PTL DEF Spec

(* Words never end up in a record that no look-up finds: with one owner to *)
(* a name there is one record to a name (pipeHandler.c:161-180, 204-236).  *)
THEOREM NothingStranded ==
  ASSUME \A p \in Programs : NamesHaveOneOwner(p)
  PROVE  Spec => []NoWordIsStranded
<1>1. IInv /\ NInv => NoWordIsStranded
  BY FindsIt DEF IInv, NInv, NoWordIsStranded
<1> QED
  BY NamesInvariance, <1>1, PTL

(* A registration that returned 0 stays honoured: the record that its name *)
(* finds has the shape it asked for, whatever the other threads add        *)
(* afterwards (pipeHandler.c:204-236, 285-294).                            *)
THEOREM RegistrationsHonoured ==
  ASSUME \A p \in Programs : NamesHaveOneOwner(p)
  PROVE  Spec => []RegistrationIsHonoured
<1>1. IInv /\ NInv => RegistrationIsHonoured
  <2> SUFFICES ASSUME IInv, NInv, NEW t \in Threads, pc[t] = "idle",
                      call[t].op \in {"register", "signal"}, status[t] = 0
               PROVE  LET i == FindPipe(call[t].name) IN
                        i # 0 /\ SameShape(pipes[i], Wanted(t))
    BY DEF RegistrationIsHonoured
  <2>1. PICK i \in DOMAIN pipes : /\ pipes[i].pipe_name = call[t].name
                                  /\ SameShape(pipes[i], Wanted(t))
    BY DEF NInv, Honoured
  <2>2. FindPipe(call[t].name) = i
    BY <2>1, FindsIt DEF IInv, NInv
  <2>3. i # 0
    BY DEF IInv, TypeOK
  <2> QED
    BY <2>1, <2>2, <2>3
<1> QED
  BY NamesInvariance, <1>1, PTL

-----------------------------------------------------------------------------
(* A signal is read and written whole.                                     *)

LEMMA InitSInv == Init => SInv
<1> SUFFICES ASSUME Init PROVE SInv
  OBVIOUS
<1>1. \A t \in Threads : pc[t] = "idle"
  BY DEF Init
<1>2. BurstOnASignal /\ InStep
  BY <1>1 DEF BurstOnASignal, InStep
<1>3. HoldsAWhole
  <2> SUFFICES ASSUME NEW i \in DOMAIN pipes
               PROVE  Image(pipes[i]) = Zeros(pipes[i].pipe_depth)
    BY DEF HoldsAWhole
  <2>1. Fresh(pipes[i])
    BY ProgramsAssumption DEF Init, Registered
  <2> DEFINE p == pipes[i]
  <2>2. /\ p.pipe_depth \in Nat
        /\ p = NewPipe(p.pipe_name, p.pipe_width, p.pipe_depth, p.pipe_mode, p.is_signal)
    BY <2>1, FieldFacts DEF Fresh
  <2> HIDE DEF p
  <2>3. \A k \in 0 .. p.pipe_depth - 1 : p.buffer[k] = Zero
    BY <2>2, NewPipeBuffer
  <2>4. \A k \in 1 .. p.pipe_depth : k - 1 \in 0 .. p.pipe_depth - 1
    BY <2>2
  <2>5. Image(p) = Zeros(p.pipe_depth)
    BY <2>2, <2>3, <2>4 DEF Image, Zeros
  <2> QED
    BY <2>5 DEF p
<1> QED
  BY <1>2, <1>3 DEF SInv

(* Only the mover of words writes a buffer, and only its own.              *)
LEMMA BuffersKept ==
  ASSUME IInv, NEW t \in Threads, Step(t), NEW i \in DOMAIN pipes,
         ~ (MoveWord(t) /\ ptr[t] = i)
  PROVE  pipes'[i] = pipes[i]
<1>1. program' = program
  BY DEF Step
<1>2. CASE Insert(t)
  BY <1>2, InsertFacts
<1>3. CASE MoveWord(t)
  <2>1. /\ pc[t] = "word"
        /\ \A j \in DOMAIN pipes :
             pipes'[j] = IF j = ptr[t] THEN AfterMove(t, pipes[ptr[t]]) ELSE pipes[j]
    BY <1>1, <1>3, MoveStep
  <2> QED
    BY <1>3, <2>1
<1> QED
  BY <1>2, <1>3 DEF Step, Call, Register, Find, Refind, Look, Lock, Unlock, Stay

LEMMA FoundStaysFound ==
  ASSUME IInv, NEW t \in Threads, Step(t), NEW u \in Threads,
         \E i \in DOMAIN pipes : pipes[i].pipe_name = call'[u].name
  PROVE  Named(call[u].name)' # {}
<1>1. PICK i \in DOMAIN pipes : pipes[i].pipe_name = call'[u].name
  OBVIOUS
<1>2. i \in 1 .. Len(pipes') /\ pipes'[i].pipe_name = call'[u].name
  BY <1>1, Grows DEF SameKind
<1> QED
  BY <1>2 DEF Named

(* Where the burst of the thread that steps stands.                        *)
LEMMA BurstAfter ==
  ASSUME IInv, NInv, BurstOnASignal, NEW t \in Threads, Step(t)
  PROVE  /\ pc'[t] # "idle" =>
              \/ words'[t] = <<>>
              \/ /\ pc[t] # "idle" /\ words'[t] = words[t] /\ call'[t].name = call[t].name
              \/ pc[t] \in {"lock", "word"} /\ call' = call /\ ptr' = ptr
         /\ pc'[t] \notin {"idle", "word", "unlock"} =>
              \/ words'[t] = <<>>
              \/ /\ pc[t] \notin {"idle", "word", "unlock"}
                 /\ words'[t] = words[t] /\ call'[t].name = call[t].name
                 /\ call'[t].op = call[t].op
              \/ /\ pc[t] = "unlock" /\ words'[t] = words[t] /\ call' = call
                 /\ Len(words[t]) # call[t].n /\ call[t].op # "show" /\ ~ Insert(t)
<1>0. /\ pc \in [Threads -> Labels] /\ call \in [Threads -> Calls]
      /\ words \in [Threads -> Seq(Word)]
  BY DEF IInv, TypeOK
<1>1. CASE Call(t)
  BY <1>0, <1>1 DEF Call
<1>2. CASE Register(t) \/ Insert(t)
  BY <1>0, <1>2 DEF Register, Insert
<1>3. CASE Find(t) \/ Refind(t)
  BY <1>0, <1>3 DEF Find, Refind
<1>4. CASE Look(t)
  BY <1>0, <1>4 DEF Look, Calls
<1>5. CASE Lock(t)
  BY <1>0, <1>5 DEF Lock, goto
<1>6. CASE MoveWord(t)
  BY <1>0, <1>6 DEF MoveWord, goto
<1>7. CASE Unlock(t)
  BY <1>0, <1>7 DEF Unlock, goto, Insert
<1> QED
  BY <1>1, <1>2, <1>3, <1>4, <1>5, <1>6, <1>7 DEF Step

(* A request on a signal of several words is granted all of them or the    *)
(* program is stopped; it starts with nothing moved.                       *)
LEMMA LockOnASignal ==
  ASSUME IInv, NInv, SInv, NEW t \in Threads, Lock(t), Wide(pipes[ptr[t]])
  PROVE  /\ pc[t] = "lock" /\ words[t] = <<>> /\ words'[t] = <<>>
         /\ UNCHANGED <<pipes, call, ptr>>
         /\ pc'[t] \in {"word", "unlock"}
         /\ pc'[t] = "word" /\ ~aborted' =>
              call[t].n = pipes[ptr[t]].pipe_depth /\ left'[t] = call[t].n
         /\ pc'[t] = "unlock" => call[t].n = 0
<1> DEFINE p == pipes[ptr[t]]
<1>0. /\ pc \in [Threads -> Labels] /\ words \in [Threads -> Seq(Word)]
      /\ left \in [Threads -> Nat] /\ call[t].n \in Nat
  BY DEF IInv, TypeOK, Calls
<1>1. /\ pc[t] = "lock" /\ ptr[t] \in DOMAIN pipes
      /\ UNCHANGED <<pipes, call, ptr>>
  BY DEF Lock, IInv, LooksBeforeLocking
<1>2. words[t] = <<>>
  <2>1. p.pipe_name = call[t].name
    BY <1>1 DEF NInv, UsesWhatItNamed
  <2> QED
    BY <1>1, <2>1 DEF SInv, BurstOnASignal
<1>3. p.is_signal /\ p.pipe_depth > 1 /\ p.pipe_depth \in Nat
  BY <1>1, FieldFacts DEF Wide, IInv, TypeOK
<1>4. ~ ZeroFilled(t, p)
  BY <1>1, <1>3 DEF ZeroFilled, IInv, SignalsHoldNothing,
                    PIPE_FIFO_MODE, PIPE_FIFO_NON_BLOCK_READ
<1>5. Requested(t) = call[t].n
  BY <1>0, <1>2 DEF Requested
<1>6. Granted(t, p) = Least(call[t].n, p.pipe_depth)
  BY <1>3, <1>5 DEF Granted, AVAILABLE, Readable
<1>7. /\ words' = words /\ left' = [left EXCEPT ![t] = Granted(t, p)]
      /\ pc' = [pc EXCEPT ![t] = IF Granted(t, p) > 0 THEN "word" ELSE "unlock"]
      /\ aborted' = Misfit(t, p)
  BY <1>4 DEF Lock, goto
<1>8. Granted(t, p) > 0 /\ ~ Misfit(t, p) =>
        p.pipe_depth = call[t].n /\ Granted(t, p) = call[t].n
  BY <1>0, <1>3, <1>5, <1>6 DEF Misfit, Least
<1>9. Granted(t, p) = 0 => call[t].n = 0
  BY <1>0, <1>3, <1>6 DEF Least
<1>10. Granted(t, p) \in Nat
  BY <1>0, <1>3, <1>6 DEF Least
<1> HIDE DEF p
<1>11. /\ pc'[t] \in {"word", "unlock"}
       /\ pc'[t] = "word" => Granted(t, p) > 0
       /\ pc'[t] = "unlock" => Granted(t, p) = 0
       /\ left'[t] = Granted(t, p)
  BY <1>0, <1>7, <1>10
<1> QED
  BY <1>1, <1>2, <1>7, <1>8, <1>9, <1>11 DEF p

(* The k-th word moved is the k-th place of the signal's buffer.           *)
LEMMA MoveOnASignal ==
  ASSUME IInv, NInv, SInv, NEW t \in Threads, MoveWord(t), program' = program,
         Wide(pipes[ptr[t]])
  PROVE  LET p == pipes[ptr[t]]
             q == pipes'[ptr[t]]
             n == Len(words[t]) IN
         /\ pc[t] = "word" /\ ~aborted /\ UNCHANGED <<call, ptr, aborted>>
         /\ call[t].n = p.pipe_depth /\ n + left[t] = call[t].n /\ n \in Nat
         /\ left[t] \in Nat /\ left'[t] = left[t] - 1
         /\ pc'[t] = IF left[t] = 1 THEN "unlock" ELSE "word"
         /\ Len(words'[t]) = n + 1
         /\ \A k \in 1 .. n : words'[t][k] = words[t][k]
         /\ call[t].op = "read" => words'[t][n + 1] = q.buffer[n]
         /\ call[t].op # "write" => q.buffer = p.buffer
         /\ call[t].op = "write" =>
              /\ q.buffer[n] = call[t].data[n + 1]
              /\ \A k \in 0 .. p.pipe_depth - 1 : k # n => q.buffer[k] = p.buffer[k]
<1> DEFINE p == pipes[ptr[t]]
           q == AfterMove(t, p)
           n == Len(words[t])
           w == Moved(t, p)
<1>1. /\ pc[t] = "word" /\ ptr[t] \in DOMAIN pipes
      /\ pipes'[ptr[t]] = q
      /\ words' = [words EXCEPT ![t] = Append(words[t], w)]
      /\ left' = [left EXCEPT ![t] = left[t] - 1]
      /\ pc' = [pc EXCEPT ![t] = IF left[t] = 1 THEN "unlock" ELSE "word"]
      /\ UNCHANGED <<call, ptr, aborted>>
  BY MoveStep
<1>2. /\ pc \in [Threads -> Labels] /\ words \in [Threads -> Seq(Word)]
      /\ left \in [Threads -> Nat] /\ left[t] > 0 /\ n \in Nat
      /\ call[t].op \in {"read", "write", "show"} /\ WellFormed(p)
  BY <1>1 DEF IInv, TypeOK, BurstInBounds, CallMatchesLabel
<1>3. ~aborted /\ call[t].n = p.pipe_depth /\ n + left[t] = call[t].n
  BY <1>1 DEF MoveWord, SInv, BurstOnASignal
<1>4. p.is_signal /\ p.pipe_depth > 1 /\ p.pipe_depth \in Nat
  BY <1>2, FieldFacts DEF Wide
<1>5. Place(t, p) = n
  BY <1>2, <1>3, <1>4 DEF Place
<1>6. w \in Word
  BY <1>1, MovedFacts
<1>7. /\ call[t].op # "write" => w = p.buffer[n] /\ q.buffer = p.buffer
      /\ call[t].op = "write" => /\ w = call[t].data[n + 1]
                                 /\ q.buffer = [p.buffer EXCEPT ![n] = w]
  BY <1>1, <1>4, <1>5, SignalMove DEF Moved
<1>8. p.buffer \in [0 .. p.pipe_depth - 1 -> Word] /\ n \in 0 .. p.pipe_depth - 1
  BY <1>2, <1>3, <1>4, FieldFacts
<1> HIDE DEF p, q, w
<1>9. /\ Len(words'[t]) = n + 1 /\ words'[t][n + 1] = w
      /\ \A k \in 1 .. n : words'[t][k] = words[t][k]
  BY <1>1, <1>2, <1>6
<1>10. call[t].op = "write" =>
         /\ q.buffer[n] = w
         /\ \A k \in 0 .. p.pipe_depth - 1 : k # n => q.buffer[k] = p.buffer[k]
  BY <1>7, <1>8
<1>11. left'[t] = left[t] - 1 /\ pc'[t] = IF left[t] = 1 THEN "unlock" ELSE "word"
  BY <1>1, <1>2
<1> QED
  BY <1>1, <1>2, <1>3, <1>7, <1>9, <1>10, <1>11 DEF p, q

(* Where a thread is when its burst is under way.                          *)
LEMMA AtWork ==
  ASSUME IInv, NEW t \in Threads, Step(t)
  PROVE  /\ ~aborted
         /\ pc'[t] \in {"word", "unlock"} =>
              (Lock(t) \/ MoveWord(t)) /\ ptr'[t] = ptr[t] /\ call'[t] = call[t]
         /\ pc[t] = "word" => MoveWord(t)
<1>0. pc \in [Threads -> Labels]
  BY DEF IInv, TypeOK
<1>1. CASE Call(t)
  <2>1. PICK c \in Script[t][made[t] + 1] :
          /\ call' = [call EXCEPT ![t] = c] /\ pc' = [pc EXCEPT ![t] = Entry(c.op)]
    BY <1>1 DEF Call, goto
  <2>2. c.op \in {"register", "signal", "read", "write", "show"}
    <3>1. call' \in [Threads -> Calls] /\ call \in [Threads -> Calls]
      BY <1>1, CallIInv DEF Step, IInv, TypeOK
    <3>2. c \in Calls
      BY <2>1, <3>1
    <3> QED
      BY <3>2 DEF Calls
  <2> QED
    BY <1>0, <1>1, <2>1, <2>2 DEF Entry, Call
<1>2. CASE Register(t) \/ Insert(t) \/ Look(t)
  BY <1>0, <1>2 DEF Register, Insert, Look, goto, AfterRegister
<1>3. CASE Find(t) \/ Refind(t)
  BY <1>0, <1>3 DEF Find, Refind, Use, goto, Mismatch
<1>4. CASE Lock(t) \/ MoveWord(t) \/ Unlock(t)
  BY <1>0, <1>4 DEF Lock, MoveWord, Unlock, goto
<1> QED
  BY <1>1, <1>2, <1>3, <1>4 DEF Step

LEMMA BurstStep ==
  ASSUME IInv, NInv, SInv, NEW t \in Threads, Step(t)
  PROVE  BurstOnASignal'
<1>1. BurstOnASignal /\ program' = program
  BY DEF SInv, Step
<1>2. ASSUME NEW u \in Threads, pc'[u] # "idle", words'[u] # <<>>
      PROVE  Named(call[u].name)' # {}
  <2>1. ASSUME pc[u] # "idle", words[u] # <<>>, call'[u].name = call[u].name
        PROVE  \E i \in DOMAIN pipes : pipes[i].pipe_name = call'[u].name
    <3>1. Named(call[u].name) # {}
      BY <1>1, <2>1 DEF BurstOnASignal
    <3> QED
      BY <2>1, <3>1 DEF Named, IInv, TypeOK
  <2>2. \E i \in DOMAIN pipes : pipes[i].pipe_name = call'[u].name
    <3>1. CASE u # t
      BY <1>2, <2>1, <3>1, OthersKeep
    <3>2. CASE u = t
      <4>1. CASE pc[t] \in {"lock", "word"} /\ call' = call
        BY <3>2, <4>1 DEF NInv, UsesWhatItNamed, IInv, LooksBeforeLocking
      <4> QED
        BY <1>1, <1>2, <2>1, <3>2, <4>1, BurstAfter
    <3> QED
      BY <3>1, <3>2
  <2> QED
    BY <2>2, FoundStaysFound
<1>3. ASSUME NEW u \in Threads, pc'[u] \notin {"idle", "word", "unlock"},
             NEW i \in DOMAIN pipes', Wide(pipes'[i]), pipes'[i].pipe_name = call'[u].name
      PROVE  words'[u] = <<>>
  <2>1. CASE i \in DOMAIN pipes
    <3>1. Wide(pipes[i]) /\ pipes[i].pipe_name = call'[u].name
      BY <1>3, <2>1, Grows DEF SameKind, Wide
    <3>2. ASSUME pc[u] \notin {"idle", "word", "unlock"}, words'[u] = words[u],
                 call'[u].name = call[u].name
          PROVE  words'[u] = <<>>
      BY <1>1, <2>1, <3>1, <3>2 DEF BurstOnASignal
    <3>3. CASE u # t
      BY <1>3, <3>2, <3>3, OthersKeep
    <3>4. CASE u = t
      <4>1. ASSUME pc[t] = "unlock", call' = call, Len(words[t]) # call[t].n,
                   call[t].op # "show"
            PROVE  FALSE
        <5>1. /\ ptr[t] \in DOMAIN pipes
              /\ pipes[ptr[t]].pipe_name = pipes[i].pipe_name
          BY <3>1, <3>4, <4>1 DEF NInv, UsesWhatItNamed, IInv, LooksBeforeLocking
        <5>2. ptr[t] = i
          BY <2>1, <5>1 DEF NInv, OneRecordEach
        <5> QED
          BY <1>1, <3>1, <4>1, <5>2 DEF BurstOnASignal
      <4> QED
        BY <1>1, <1>3, <3>2, <3>4, <4>1, BurstAfter
    <3> QED
      BY <3>3, <3>4
  <2>2. CASE i \notin DOMAIN pipes
    <3>1. Insert(t) /\ pipes'[i] = Wanted(t)
      BY <2>2, Grows
    <3>2. call'[u].name = call[t].name
      BY <1>3, <3>1, WantedFacts DEF IInv, TypeOK, BurstInBounds
    <3>3. pc[t] = "insert" /\ call' = call /\ words' = words
      BY <3>1 DEF Insert
    <3>4. Named(call[t].name) = {}
      BY <3>3 DEF NInv, AddsWhatIsMissing
    <3>5. pc[u] # "idle"
      <4>1. CASE u # t
        BY <1>3, <4>1, OthersKeep
      <4> QED
        BY <3>3, <4>1
    <3> QED
      BY <1>1, <3>2, <3>3, <3>4, <3>5 DEF BurstOnASignal
  <2> QED
    BY <2>1, <2>2
<1>4. ASSUME NEW u \in Threads, ptr'[u] = ptr[u], ptr[u] \in DOMAIN pipes,
             Wide(pipes'[ptr'[u]])
      PROVE  /\ Wide(pipes[ptr[u]])
             /\ pipes'[ptr'[u]].pipe_depth = pipes[ptr[u]].pipe_depth
  BY <1>4, Grows DEF SameKind, Wide
<1>5. ASSUME NEW u \in Threads, pc'[u] \in {"word", "unlock"}, Wide(pipes'[ptr'[u]])
      PROVE  /\ ~aborted' /\ pc'[u] = "word" =>
                  /\ call'[u].n = pipes'[ptr'[u]].pipe_depth
                  /\ Len(words'[u]) + left'[u] = call'[u].n
             /\ pc'[u] = "unlock" /\ call'[u].op # "show" =>
                  /\ Len(words'[u]) = call'[u].n
                  /\ call'[u].n > 0 => call'[u].n = pipes'[ptr'[u]].pipe_depth
  <2>1. CASE u # t
    <3>1. /\ pc'[u] = pc[u] /\ call'[u] = call[u] /\ ptr'[u] = ptr[u]
          /\ words'[u] = words[u] /\ left'[u] = left[u]
      BY <2>1, OthersKeep
    <3>2. ptr[u] \in DOMAIN pipes
      BY <1>5, <3>1 DEF IInv, LooksBeforeLocking
    <3>3. /\ Wide(pipes[ptr[u]])
          /\ pipes'[ptr'[u]].pipe_depth = pipes[ptr[u]].pipe_depth
      BY <1>4, <1>5, <3>1, <3>2
    <3> QED
      BY <1>1, <1>5, <3>1, <3>3, AtWork DEF BurstOnASignal
  <2>2. CASE u = t
    <3>1. /\ Lock(t) \/ MoveWord(t)
          /\ ptr'[t] = ptr[t] /\ call'[t] = call[t]
      BY <1>5, <2>2, AtWork
    <3>2. ptr[t] \in DOMAIN pipes
      BY <3>1 DEF IInv, LooksBeforeLocking, Lock, MoveWord
    <3>3. /\ Wide(pipes[ptr[t]])
          /\ pipes'[ptr'[t]].pipe_depth = pipes[ptr[t]].pipe_depth
      BY <1>4, <1>5, <2>2, <3>1, <3>2
    <3>4. CASE Lock(t)
      <4>1. /\ words'[t] = <<>>
            /\ pc'[t] = "word" /\ ~aborted' =>
                 call[t].n = pipes[ptr[t]].pipe_depth /\ left'[t] = call[t].n
            /\ pc'[t] = "unlock" => call[t].n = 0
        BY <3>3, <3>4, LockOnASignal
      <4>2. Len(words'[t]) = 0 /\ call[t].n \in Nat
        BY <4>1 DEF IInv, TypeOK, Calls
      <4> QED
        BY <2>2, <3>1, <3>3, <4>1, <4>2
    <3>5. CASE MoveWord(t)
      <4> DEFINE n == Len(words[t])
      <4>1. /\ call[t].n = pipes[ptr[t]].pipe_depth /\ n + left[t] = call[t].n /\ n \in Nat
            /\ left[t] \in Nat /\ left'[t] = left[t] - 1
            /\ pc'[t] = IF left[t] = 1 THEN "unlock" ELSE "word"
            /\ Len(words'[t]) = n + 1
        BY <1>1, <3>3, <3>5, MoveOnASignal
      <4> HIDE DEF n
      <4> QED
        BY <2>2, <3>1, <3>3, <4>1
    <3> QED
      BY <3>1, <3>4, <3>5
  <2> QED
    BY <2>1, <2>2
<1> SUFFICES ASSUME NEW u \in Threads
             PROVE  /\ pc'[u] # "idle" /\ words'[u] # <<>> => Named(call[u].name)' # {}
                    /\ pc'[u] \notin {"idle", "word", "unlock"} =>
                         \A i \in DOMAIN pipes' :
                           (Wide(pipes'[i]) /\ pipes'[i].pipe_name = call'[u].name)
                              => words'[u] = <<>>
                    /\ ~aborted' /\ pc'[u] = "word" /\ Wide(pipes'[ptr'[u]]) =>
                         /\ call'[u].n = pipes'[ptr'[u]].pipe_depth
                         /\ Len(words'[u]) + left'[u] = call'[u].n
                    /\ pc'[u] = "unlock" /\ Wide(pipes'[ptr'[u]]) /\ call'[u].op # "show" =>
                         /\ Len(words'[u]) = call'[u].n
                         /\ call'[u].n > 0 => call'[u].n = pipes'[ptr'[u]].pipe_depth
  BY DEF BurstOnASignal, Wide
<1> QED
  BY <1>2, <1>3, <1>5

(* A thread in the middle of a request keeps its record's buffer when      *)
(* another thread steps.                                                   *)
LEMMA UndisturbedBuffer ==
  ASSUME IInv, NEW t \in Threads, Step(t),
         NEW u \in Threads, u # t, pc[u] \in {"word", "unlock"}
  PROVE  ptr[u] \in DOMAIN pipes /\ pipes'[ptr[u]] = pipes[ptr[u]]
<1>1. ptr[u] \in DOMAIN pipes
  BY DEF IInv, LooksBeforeLocking
<1>2. ~ (MoveWord(t) /\ ptr[t] = ptr[u])
  BY Alone DEF MoveWord
<1> QED
  BY <1>1, <1>2, BuffersKept

LEMMA InStepStep ==
  ASSUME IInv, NInv, SInv, NEW t \in Threads, Step(t)
  PROVE  InStep'
<1>1. InStep /\ program' = program
  BY DEF SInv, Step
<1>2. ASSUME NEW u \in Threads, pc'[u] \in {"word", "unlock"}, Wide(pipes'[ptr'[u]]),
             ~ (aborted' /\ pc'[u] = "word")
      PROVE  /\ pc'[u] = "word" /\ call'[u].op = "write" =>
                  \A k \in 1 .. Len(words'[u]) :
                    pipes'[ptr'[u]].buffer[k - 1] = call'[u].data[k]
             /\ call'[u].op = "read" =>
                  \A k \in 1 .. Len(words'[u]) :
                    pipes'[ptr'[u]].buffer[k - 1] = words'[u][k]
  <2>1. CASE u # t
    <3>1. /\ pc'[u] = pc[u] /\ call'[u] = call[u] /\ ptr'[u] = ptr[u]
          /\ words'[u] = words[u]
      BY <2>1, OthersKeep
    <3>2. pipes'[ptr'[u]] = pipes[ptr[u]]
      BY <1>2, <2>1, <3>1, UndisturbedBuffer
    <3>3. ~aborted
      BY AtWork
    <3> QED
      BY <1>1, <1>2, <3>1, <3>2, <3>3 DEF InStep
  <2>2. CASE u = t
    <3>1. /\ Lock(t) \/ MoveWord(t)
          /\ ptr'[t] = ptr[t] /\ call'[t] = call[t]
      BY <1>2, <2>2, AtWork
    <3>2. ptr[t] \in DOMAIN pipes
      BY <3>1 DEF IInv, LooksBeforeLocking, Lock, MoveWord
    <3>3. Wide(pipes[ptr[t]])
      BY <1>2, <2>2, <3>1, <3>2, Grows DEF SameKind, Wide
    <3>4. CASE Lock(t)
      <4>1. Len(words'[t]) = 0
        BY <3>3, <3>4, LockOnASignal
      <4> QED
        BY <2>2, <4>1
    <3>5. CASE MoveWord(t)
      <4> DEFINE n == Len(words[t])
                 p == pipes[ptr[t]]
                 q == pipes'[ptr[t]]
      <4>1. /\ pc[t] = "word" /\ ~aborted /\ call[t].n = p.pipe_depth /\ n \in Nat
            /\ n + left[t] = call[t].n /\ left[t] \in Nat /\ left'[t] = left[t] - 1
            /\ Len(words'[t]) = n + 1
            /\ \A k \in 1 .. n : words'[t][k] = words[t][k]
            /\ call[t].op = "read" => words'[t][n + 1] = q.buffer[n]
            /\ call[t].op # "write" => q.buffer = p.buffer
            /\ call[t].op = "write" =>
                 /\ q.buffer[n] = call[t].data[n + 1]
                 /\ \A k \in 0 .. p.pipe_depth - 1 : k # n => q.buffer[k] = p.buffer[k]
        BY <1>1, <3>3, <3>5, MoveOnASignal
      <4>2. /\ call[t].op = "write" => \A k \in 1 .. n : p.buffer[k - 1] = call[t].data[k]
            /\ call[t].op = "read" => \A k \in 1 .. n : p.buffer[k - 1] = words[t][k]
        BY <1>1, <3>3, <4>1 DEF InStep
      <4>3. left[t] > 0
        BY <4>1 DEF IInv, BurstInBounds
      <4> HIDE DEF n, p, q
      <4>4. \A k \in 1 .. n : k - 1 \in 0 .. p.pipe_depth - 1 /\ k - 1 # n
        BY <4>1, <4>3
      <4>5. \A k \in 1 .. n + 1 : k \in 1 .. n \/ k = n + 1
        BY <4>1
      <4>6. n + 1 - 1 = n
        BY <4>1
      <4>7. ASSUME call[t].op = "write", NEW k \in 1 .. n + 1
            PROVE  q.buffer[k - 1] = call[t].data[k]
        <5>1. CASE k = n + 1
          BY <4>1, <4>6, <4>7, <5>1
        <5>2. CASE k \in 1 .. n
          BY <4>1, <4>2, <4>4, <4>7, <5>2
        <5> QED
          BY <4>5, <5>1, <5>2
      <4>8. ASSUME call[t].op = "read", NEW k \in 1 .. n + 1
            PROVE  q.buffer[k - 1] = words'[t][k]
        <5>1. CASE k = n + 1
          BY <4>1, <4>6, <4>8, <5>1
        <5>2. CASE k \in 1 .. n
          BY <4>1, <4>2, <4>8, <5>2
        <5> QED
          BY <4>5, <5>1, <5>2
      <4> QED
        BY <2>2, <3>1, <4>1, <4>7, <4>8 DEF q
    <3> QED
      BY <3>1, <3>4, <3>5
  <2> QED
    BY <2>1, <2>2
<1> QED
  BY <1>2 DEF InStep, Wide

(* When the last word of a burst is written, a signal holds the burst.     *)
LEMMA WholeAtLast ==
  ASSUME IInv, NInv, SInv, NEW t \in Threads, MoveWord(t), program' = program,
         Wide(pipes[ptr[t]]), call[t].op = "write", pc'[t] # "word"
  PROVE  /\ Image(pipes'[ptr[t]]) = call[t].data
         /\ call[t].data \in WrittenTo(call[t].name)
<1> DEFINE n == Len(words[t])
           p == pipes[ptr[t]]
           q == pipes'[ptr[t]]
           d == call[t].data
<1>1. /\ pc[t] = "word" /\ ~aborted /\ call[t].n = p.pipe_depth /\ n \in Nat
      /\ n + left[t] = call[t].n /\ left[t] \in Nat
      /\ pc'[t] = IF left[t] = 1 THEN "unlock" ELSE "word"
      /\ q.buffer[n] = d[n + 1]
      /\ \A k \in 0 .. p.pipe_depth - 1 : k # n => q.buffer[k] = p.buffer[k]
  BY MoveOnASignal
<1>2. \A k \in 1 .. n : p.buffer[k - 1] = d[k]
  BY <1>1 DEF SInv, InStep
<1>3. /\ ptr[t] \in DOMAIN pipes /\ d \in Seq(Word) /\ call[t].n = Len(d)
  BY <1>1 DEF IInv, TypeOK, LooksBeforeLocking, BurstInBounds, Sensible, Calls
<1>4. q.pipe_depth = p.pipe_depth
  BY <1>3, Grows DEF SameKind, Step
<1>5. call[t] \in UNION {Script[t][k] : k \in DOMAIN Script[t]}
  BY <1>1 DEF IInv, CallIsScripted
<1>6. d \in WrittenTo(call[t].name)
  BY <1>5 DEF WrittenTo
<1> HIDE DEF n, p, q, d
<1>7. p.pipe_depth = n + 1 /\ Len(d) = n + 1 /\ q.pipe_depth = n + 1
  BY <1>1, <1>3, <1>4
<1>8. ASSUME NEW k \in 1 .. n + 1
      PROVE  q.buffer[k - 1] = d[k]
  <2>1. CASE k = n + 1
    BY <1>1, <2>1
  <2>2. CASE k \in 1 .. n
    <3>1. k - 1 \in 0 .. p.pipe_depth - 1 /\ k - 1 # n
      BY <1>1, <1>7, <2>2
    <3> QED
      BY <1>1, <1>2, <2>2, <3>1
  <2> QED
    BY <1>1, <2>1, <2>2
<1>9. d = [k \in 1 .. n + 1 |-> d[k]]
  BY <1>3, <1>7
<1>10. Image(q) = d
  BY <1>7, <1>8, <1>9 DEF Image
<1> QED
  BY <1>6, <1>10 DEF d, q

LEMMA WholeStep ==
  ASSUME IInv, NInv, SInv, NEW t \in Threads, Step(t)
  PROVE  HoldsAWhole'
<1>1. HoldsAWhole /\ program' = program
  BY DEF SInv, Step
<1>2. \A i \in DOMAIN pipes' :
        WrittenTo(pipes[i].pipe_name)' = WrittenTo(pipes'[i].pipe_name)
  BY <1>1 DEF WrittenTo, Script
<1> SUFFICES ASSUME NEW i \in DOMAIN pipes', Wide(pipes'[i]), ~ BeingWritten(i)'
             PROVE  Image(pipes'[i]) \in WrittenTo(pipes'[i].pipe_name)
                                         \union {Zeros(pipes'[i].pipe_depth)}
  BY <1>2 DEF HoldsAWhole, Wide, Image, Zeros
<1>3. CASE i \notin DOMAIN pipes
  <2>1. Insert(t) /\ pipes'[i] = Wanted(t)
    BY <1>3, Grows
  <2> DEFINE q == Wanted(t)
  <2>2. WellFormed(q) /\ \A k \in 0 .. q.pipe_depth - 1 : q.buffer[k] = Zero
    BY WantedFacts DEF IInv, TypeOK, BurstInBounds
  <2>3. q.pipe_depth \in Nat
    BY <2>2, FieldFacts
  <2> HIDE DEF q
  <2>4. \A k \in 1 .. q.pipe_depth : k - 1 \in 0 .. q.pipe_depth - 1
    BY <2>3
  <2>5. Image(q) = Zeros(q.pipe_depth)
    BY <2>2, <2>4 DEF Image, Zeros
  <2> QED
    BY <2>1, <2>5 DEF q
<1>4. CASE i \in DOMAIN pipes
  <2>1. /\ Wide(pipes[i]) /\ SameKind(pipes'[i], pipes[i])
    BY <1>4, Grows DEF SameKind, Wide
  <2>2. ASSUME ~ BeingWritten(i), pipes'[i].buffer = pipes[i].buffer
        PROVE  Image(pipes'[i]) \in WrittenTo(pipes'[i].pipe_name)
                                    \union {Zeros(pipes'[i].pipe_depth)}
    <3>1. Image(pipes'[i]) = Image(pipes[i])
      BY <2>1, <2>2 DEF Image, SameKind
    <3> QED
      BY <1>1, <1>4, <2>1, <2>2, <3>1 DEF HoldsAWhole, SameKind
  <2>3. ASSUME BeingWritten(i)
        PROVE  MoveWord(t) /\ ptr[t] = i /\ call[t].op = "write" /\ pc'[t] # "word"
    <3>1. PICK v \in Threads : pc[v] = "word" /\ ptr[v] = i /\ call[v].op = "write"
      BY <2>3 DEF BeingWritten
    <3>2. v = t
      BY <3>1, OthersKeep DEF BeingWritten
    <3>3. MoveWord(t)
      BY <3>1, <3>2, AtWork
    <3>4. UNCHANGED <<ptr, call>>
      BY <3>3 DEF MoveWord
    <3> QED
      BY <3>1, <3>2, <3>3, <3>4 DEF BeingWritten
  <2>4. CASE MoveWord(t) /\ ptr[t] = i
    <3>1. CASE call[t].op = "write"
      <4>1. UNCHANGED <<ptr, call>>
        BY <2>4 DEF MoveWord
      <4>2. pc'[t] # "word"
        BY <2>4, <3>1, <4>1 DEF BeingWritten
      <4>3. pipes[i].pipe_name = call[t].name
        BY <2>4 DEF NInv, UsesWhatItNamed, MoveWord
      <4> QED
        BY <1>1, <2>1, <2>4, <3>1, <4>2, <4>3, WholeAtLast DEF SameKind
    <3>2. CASE call[t].op # "write"
      <4>1. pipes'[i].buffer = pipes[i].buffer
        BY <1>1, <2>1, <2>4, <3>2, MoveOnASignal
      <4> QED
        BY <2>2, <2>3, <3>2, <4>1
    <3> QED
      BY <3>1, <3>2
  <2>5. CASE ~ (MoveWord(t) /\ ptr[t] = i)
    BY <1>4, <2>2, <2>3, <2>5, BuffersKept
  <2> QED
    BY <2>4, <2>5
<1> QED
  BY <1>3, <1>4

LEMMA StutterSInv == SInv /\ UNCHANGED vars => SInv'
<1> SUFFICES ASSUME SInv, UNCHANGED vars PROVE SInv'
  OBVIOUS
<1>1. UNCHANGED <<program, pipes, pc, call, ptr, words, left, aborted>>
  BY DEF vars
<1>2. BurstOnASignal'
  BY <1>1 DEF SInv, BurstOnASignal, Wide, Named
<1>3. InStep'
  BY <1>1 DEF SInv, InStep, Wide
<1>4. HoldsAWhole'
  BY <1>1 DEF SInv, HoldsAWhole, Wide, BeingWritten, Image, WrittenTo, Script
<1> QED
  BY <1>2, <1>3, <1>4 DEF SInv

THEOREM SignalsInvariance ==
  ASSUME \A p \in Programs : NamesHaveOneOwner(p)
  PROVE  Spec => []SInv
<1>1. SInv /\ IInv /\ NInv /\ [Next]_vars => SInv'
  <2>1. ASSUME IInv, NInv, SInv, NEW t \in Threads, Step(t) PROVE SInv'
    BY <2>1, BurstStep, InStepStep, WholeStep DEF SInv
  <2> QED
    BY <2>1, StutterSInv DEF Next, Ended
<1> QED
  BY NamesInvariance, InitSInv, <1>1, PTL DEF Spec

(* A reader of a signal of several words gets the words of one write, all  *)
(* of them, whatever other threads write meanwhile (pipeHandler.c:375-395, *)
(* 540-556; "the last written value is read back", pipeHandler.h:243).     *)
THEOREM SignalsWhole ==
  ASSUME \A p \in Programs : NamesHaveOneOwner(p)
  PROVE  Spec => []SignalsAreWhole
<1>1. IInv /\ NInv /\ SInv => SignalsAreWhole
  <2> SUFFICES ASSUME IInv, NInv, SInv, NEW t \in Threads,
                      pc[t] = "unlock", call[t].op = "read", call[t].n > 0,
                      pipes[ptr[t]].is_signal, pipes[ptr[t]].pipe_depth > 1
               PROVE  words[t] \in WrittenTo(call[t].name)
                                   \union {Zeros(pipes[ptr[t]].pipe_depth)}
    BY DEF SignalsAreWhole
  <2> DEFINE p == pipes[ptr[t]]
  <2>1. Wide(p) /\ ptr[t] \in DOMAIN pipes /\ p.pipe_name = call[t].name
    BY DEF Wide, IInv, LooksBeforeLocking, NInv, UsesWhatItNamed
  <2>2. /\ Len(words[t]) = p.pipe_depth /\ words[t] \in Seq(Word)
        /\ \A k \in 1 .. Len(words[t]) : p.buffer[k - 1] = words[t][k]
    <3>1. words[t] \in Seq(Word)
      BY DEF IInv, TypeOK
    <3>2. Len(words[t]) = p.pipe_depth
      BY <2>1 DEF SInv, BurstOnASignal
    <3>3. \A k \in 1 .. Len(words[t]) : p.buffer[k - 1] = words[t][k]
      BY <2>1 DEF SInv, InStep
    <3> QED
      BY <3>1, <3>2, <3>3
  <2>3. ~ BeingWritten(ptr[t])
    BY Alone DEF BeingWritten
  <2>4. Image(p) \in WrittenTo(call[t].name) \union {Zeros(p.pipe_depth)}
    BY <2>1, <2>3 DEF SInv, HoldsAWhole
  <2> HIDE DEF p
  <2>5. words[t] = [k \in 1 .. p.pipe_depth |-> words[t][k]]
    BY <2>2
  <2>6. words[t] = Image(p)
    BY <2>2, <2>5 DEF Image
  <2> QED
    BY <2>4, <2>6 DEF p
<1> QED
  BY NamesInvariance, SignalsInvariance, <1>1, PTL

-----------------------------------------------------------------------------
(* No assertion fails.                                                     *)

LEMMA InitSizes == Init => SizesAsAsked
<1> SUFFICES ASSUME Init, NEW i \in DOMAIN pipes, pipes[i].is_signal
             PROVE  pipes[i].pipe_depth \in SignalSizes(program, pipes[i].pipe_name)
  BY DEF SizesAsAsked
<1>1. pipes = program.registered
  BY DEF Init, Registered
<1> QED
  BY <1>1 DEF SignalSizes

LEMMA SizesStep ==
  ASSUME IInv, SizesAsAsked, NEW t \in Threads, Step(t)
  PROVE  SizesAsAsked'
<1>1. program' = program
  BY DEF Step
<1> SUFFICES ASSUME NEW i \in DOMAIN pipes', pipes'[i].is_signal
             PROVE  pipes'[i].pipe_depth \in SignalSizes(program, pipes'[i].pipe_name)
  BY <1>1 DEF SizesAsAsked, SignalSizes, CallsOf
<1>2. CASE i \in DOMAIN pipes
  BY <1>2, Grows DEF SameKind, SizesAsAsked
<1>3. CASE i \notin DOMAIN pipes
  <2>1. Insert(t) /\ pipes'[i] = Wanted(t) /\ pc[t] = "insert"
    BY <1>3, Grows DEF Insert
  <2>2. /\ call[t].op = "signal" /\ pipes'[i].pipe_name = call[t].name
        /\ pipes'[i].pipe_depth = SignalWords(call[t].width)
    BY <2>1, WantedFacts DEF IInv, TypeOK, BurstInBounds
  <2>3. call[t] \in CallsOf(program, t)
    <3>1. PICK k \in DOMAIN Script[t] : call[t] \in Script[t][k]
      BY <2>1, <2>2 DEF IInv, CallIsScripted
    <3> QED
      BY <3>1 DEF CallsOf, Script
  <2> QED
    BY <2>2, <2>3 DEF SignalSizes
<1> QED
  BY <1>2, <1>3

(* In strict mode main registers whatever the threads read and write.      *)
MainRegistersAll(p) ==
  \A t \in Threads : \A c \in CallsOf(p, t) : c.op \in {"read", "write"} =>
    \E i \in DOMAIN p.registered : p.registered[i].pipe_name = c.name

LEMMA NoAssertionFails ==
  ASSUME IInv, NInv, SInv, SizesAsAsked, BurstsFit(program),
         Strict => MainRegistersAll(program), NEW t \in Threads, Step(t)
  PROVE  ~aborted'
<1>1. ~aborted
  BY AtWork
<1>2. ASSUME pc[t] # "idle"
      PROVE  \E c \in CallsOf(program, t) :
               call[t].op = c.op /\ call[t].name = c.name /\ call[t].n = c.n
  <2>1. PICK k \in DOMAIN Script[t] : \E c \in Script[t][k] :
               call[t].op = c.op /\ call[t].name = c.name /\ call[t].n = c.n
    BY <1>2 DEF IInv, CallIsScripted
  <2> QED
    BY <2>1 DEF CallsOf, Script
<1>3. CASE Find(t)
  <2>1. pc[t] = "find" /\ call[t].op \in {"read", "write", "show"}
    BY <1>3 DEF Find, IInv, CallMatchesLabel
  <2>2. ASSUME Strict PROVE FindPipe(call[t].name) # 0
    <3>1. CASE call[t].op = "show"
      BY <2>1, <3>1, FindFacts DEF NInv, AddsWhatIsMissing, IInv
    <3>2. CASE call[t].op # "show"
      <4>1. PICK i \in DOMAIN program.registered :
              program.registered[i].pipe_name = call[t].name
        BY <1>2, <2>1, <2>2, <3>2 DEF MainRegistersAll
      <4>2. i \in 1 .. Len(pipes) /\ pipes[i].pipe_name = call[t].name
        <5>1. DOMAIN Registered = 1 .. Len(Registered) /\ Len(Registered) \in Nat
          BY ProgramsAssumption DEF Registered, IInv, RegisteredStays
        <5> QED
          BY <4>1, <5>1 DEF IInv, TypeOK, RegisteredStays, Registered, SameKind
      <4>3. Named(call[t].name) # {}
        BY <4>2 DEF Named
      <4> QED
        BY <4>3, FindFacts DEF IInv
    <3> QED
      BY <3>1, <3>2
  <2> QED
    BY <1>1, <1>3, <2>2 DEF Find, Use
<1>4. CASE Lock(t)
  <2> DEFINE p == pipes[ptr[t]]
  <2>1. pc[t] = "lock" /\ ptr[t] \in DOMAIN pipes /\ p.pipe_name = call[t].name
    BY <1>4 DEF Lock, IInv, LooksBeforeLocking, NInv, UsesWhatItNamed
  <2>2. ~ Misfit(t, p)
    <3> SUFFICES ASSUME p.is_signal, p.pipe_depth > 1
                 PROVE  p.pipe_depth = Requested(t)
      BY DEF Misfit
    <3>1. words[t] = <<>>
      BY <2>1 DEF SInv, BurstOnASignal, Wide
    <3>2. Requested(t) = call[t].n
      BY <3>1 DEF Requested, IInv, TypeOK, Calls
    <3>3. p.pipe_depth \in SignalSizes(program, call[t].name)
      BY <2>1 DEF SizesAsAsked
    <3>4. call[t].op \in {"read", "write", "show"}
      BY <2>1 DEF IInv, CallMatchesLabel
    <3> HIDE DEF p
    <3> QED
      BY <1>2, <2>1, <3>2, <3>3, <3>4 DEF BurstsFit
  <2> QED
    BY <1>1, <1>4, <2>2 DEF Lock
<1> QED
  BY <1>1, <1>3, <1>4
     DEF Step, Call, Register, Insert, Refind, Use, Look, MoveWord, Unlock

(* The assertions of the handler, that a signal of several words is moved  *)
(* whole and that strict mode never meets an unregistered pipe, cannot     *)
(* fail in a program that asks for signals whole and that main has         *)
(* prepared for strict mode (pipeHandler.c:341-342, 383, 516-517, 545).    *)
THEOREM NoneAborts ==
  ASSUME \A p \in Programs : NamesHaveOneOwner(p) /\ BurstsFit(p),
         Strict => \A p \in Programs : MainRegistersAll(p)
  PROVE  Spec => []NeverAborts
<1> DEFINE Inv == IInv /\ NInv /\ SInv /\ SizesAsAsked /\ NeverAborts
<1>1. Init => Inv
  BY InitIInv, InitNInv, InitSInv, InitSizes DEF NeverAborts, Init
<1>2. Inv /\ [Next]_vars => Inv'
  <2>1. ASSUME Inv, NEW t \in Threads, Step(t) PROVE Inv'
    <3>1. IInv' /\ program' = program
      BY <2>1, StepIInv DEF Step
    <3>2. NInv' /\ SInv'
      BY <2>1, <3>1, KeptNInv, InsertNInv, BurstStep, InStepStep, WholeStep DEF SInv
    <3>3. program \in Programs
      BY <2>1 DEF IInv, RegisteredStays
    <3>4. ~aborted' /\ SizesAsAsked'
      BY <2>1, <3>3, NoAssertionFails, SizesStep
    <3> QED
      BY <3>1, <3>2, <3>4 DEF NeverAborts
  <2>2. ASSUME Inv, UNCHANGED vars PROVE Inv'
    <3>1. SizesAsAsked' /\ NeverAborts'
      BY <2>2 DEF vars, SizesAsAsked, NeverAborts, SignalSizes, CallsOf
    <3> QED
      BY <2>2, <3>1, StutterIInv, StutterNInv, StutterSInv
  <2> QED
    BY <2>1, <2>2 DEF Next, Ended
<1>3. Inv => NeverAborts
  OBVIOUS
<1> QED
  BY <1>1, <1>2, <1>3, PTL DEF Spec

-----------------------------------------------------------------------------
(* The rings.                                                              *)

(* Showing pops the word and then puts the pointers back, the write        *)
(* pointer from the read pointer (pipeHandler.h:166): that is harmless for *)
(* a signal and for a pipe of one place.                                   *)
ShowsNoRing ==
  \A t \in Threads :
    pc[t] = "word" /\ call[t].op = "show" =>
      pipes[ptr[t]].is_signal \/ pipes[ptr[t]].pipe_depth = 1

LEMMA PushRing ==
  ASSUME NEW p, WellFormed(p), NEW w \in Word, ~p.is_signal,
         p.number_of_entries < p.pipe_depth, RingAgrees(p)
  PROVE  RingAgrees(PUSH(p, w))
<1> DEFINE q == PUSH(p, w)
<1>1. /\ SameKind(q, p) /\ q.number_of_entries = p.number_of_entries + 1
      /\ q.write_pointer = INCR(p.write_pointer, p)
      /\ q.read_pointer = IF is_lifo_mode(p) THEN p.write_pointer ELSE p.read_pointer
  BY PushFacts
<1>2. /\ p.pipe_depth \in Nat \ {0} /\ p.number_of_entries \in 0 .. p.pipe_depth
      /\ p.read_pointer \in 0 .. p.pipe_depth - 1
      /\ p.write_pointer \in 0 .. p.pipe_depth - 1
  BY FieldFacts
<1> HIDE DEF q
<1>3. RingAgrees(q)
  <2>1. /\ q.is_signal = p.is_signal /\ q.pipe_depth = p.pipe_depth
        /\ is_lifo_mode(q) <=> is_lifo_mode(p)
    BY <1>1 DEF SameKind, is_lifo_mode
  <2>2. CASE is_lifo_mode(p)
    BY <1>1, <1>2, <2>1, <2>2 DEF RingAgrees, INCR
  <2>3. CASE ~ is_lifo_mode(p)
    BY <1>1, <1>2, <2>1, <2>3 DEF RingAgrees, INCR
  <2> QED
    BY <2>2, <2>3
<1> QED
  BY <1>3 DEF q

LEMMA PopRing ==
  ASSUME NEW p, WellFormed(p), ~p.is_signal, p.number_of_entries > 0, RingAgrees(p)
  PROVE  RingAgrees(POP(p))
<1> DEFINE q == POP(p)
<1>1. /\ p.pipe_depth \in Nat \ {0} /\ p.number_of_entries \in 0 .. p.pipe_depth
      /\ p.read_pointer \in 0 .. p.pipe_depth - 1
      /\ p.write_pointer \in 0 .. p.pipe_depth - 1
  BY FieldFacts
<1>2. /\ SameKind(q, p) /\ q.number_of_entries = p.number_of_entries - 1
      /\ q.read_pointer = IF is_lifo_mode(p) THEN DECR(p.read_pointer, p)
                          ELSE INCR(p.read_pointer, p)
      /\ q.write_pointer = IF is_lifo_mode(p) THEN p.read_pointer ELSE p.write_pointer
  BY <1>1, PopFacts
<1> HIDE DEF q
<1>3. RingAgrees(q)
  <2>1. /\ q.is_signal = p.is_signal /\ q.pipe_depth = p.pipe_depth
        /\ is_lifo_mode(q) <=> is_lifo_mode(p)
    BY <1>2 DEF SameKind, is_lifo_mode
  <2>2. CASE is_lifo_mode(p)
    BY <1>1, <1>2, <2>1, <2>2 DEF RingAgrees, DECR
  <2>3. CASE ~ is_lifo_mode(p)
    BY <1>1, <1>2, <2>1, <2>3 DEF RingAgrees, INCR
  <2> QED
    BY <2>2, <2>3
<1> QED
  BY <1>3 DEF q

(* A pipe of one place has its pointers at that place.                     *)
LEMMA RestoreRing ==
  ASSUME NEW p, WellFormed(p), ~p.is_signal, p.pipe_depth = 1, RingAgrees(p)
  PROVE  RingAgrees(POPANDRESTORE(p)) /\ POPANDRESTORE(p) = p
<1>1. p.read_pointer = 0 /\ p.write_pointer = 0
  BY FieldFacts
<1>2. POPANDRESTORE(p) = p
  BY <1>1 DEF POPANDRESTORE, WellFormed
<1> QED
  BY <1>2

(* The move of a word keeps the ring of its record.                        *)
LEMMA MoveRing ==
  ASSUME IInv, NEW t \in Threads, pc[t] = "word", ShowsNoRing,
         RingAgrees(pipes[ptr[t]])
  PROVE  RingAgrees(AfterMove(t, pipes[ptr[t]]))
<1> DEFINE p == pipes[ptr[t]]
<1>1. /\ WellFormed(p) /\ call[t].op \in {"read", "write", "show"}
      /\ Moved(t, p) \in Word
      /\ ~p.is_signal /\ call[t].op = "write" => p.number_of_entries < p.pipe_depth
      /\ ~p.is_signal /\ call[t].op # "write" => p.number_of_entries > 0
      /\ call[t].op = "show" => p.is_signal \/ p.pipe_depth = 1
  BY MovedFacts DEF ShowsNoRing
<1>2. SameKind(AfterMove(t, p), p)
      /\ (p.is_signal => AfterMove(t, p).number_of_entries = p.number_of_entries)
  BY AfterMoveFacts
<1> HIDE DEF p
<1> SUFFICES RingAgrees(p) => RingAgrees(AfterMove(t, p))
  BY DEF p
<1>3. CASE p.is_signal
  BY <1>2, <1>3 DEF RingAgrees, SameKind
<1>4. CASE ~p.is_signal /\ call[t].op = "show"
  <2>1. AfterMove(t, p) = POPANDRESTORE(p)
    BY <1>4 DEF AfterMove
  <2> QED
    BY <1>1, <1>4, <2>1, RestoreRing
<1>5. CASE ~p.is_signal /\ call[t].op = "read"
  <2>1. AfterMove(t, p) = POP(p)
    BY <1>5 DEF AfterMove
  <2> QED
    BY <1>1, <1>5, <2>1, PopRing
<1>6. CASE ~p.is_signal /\ call[t].op = "write"
  <2>1. AfterMove(t, p) = PUSH(p, Moved(t, p))
    BY <1>6 DEF AfterMove
  <2> QED
    BY <1>1, <1>6, <2>1, PushRing
<1> QED
  BY <1>1, <1>3, <1>4, <1>5, <1>6

(* A record that is new is empty and has its pointers at the start.        *)
LEMMA NewRing ==
  ASSUME NEW p, WellFormed(p), p.number_of_entries = 0,
         p.read_pointer = 0, p.write_pointer = 0
  PROVE  RingAgrees(p)
BY FieldFacts DEF RingAgrees

LEMMA FreshRing ==
  ASSUME NEW p, Fresh(p)
  PROVE  RingAgrees(p) /\ p.number_of_entries = 0
<1>1. p = NewPipe(p.pipe_name, p.pipe_width, p.pipe_depth, p.pipe_mode, p.is_signal)
      /\ WellFormed(p)
  BY DEF Fresh
<1>2. p.number_of_entries = 0 /\ p.read_pointer = 0 /\ p.write_pointer = 0
  BY <1>1 DEF NewPipe
<1> QED
  BY <1>1, <1>2, NewRing

LEMMA InitRings == Init => RingsAgree
<1> SUFFICES ASSUME Init, NEW i \in DOMAIN pipes PROVE RingAgrees(pipes[i])
  BY DEF RingsAgree
<1>1. Fresh(pipes[i])
  BY ProgramsAssumption DEF Init, Registered
<1> QED
  BY <1>1, FreshRing

LEMMA RingsStep ==
  ASSUME IInv, RingsAgree, ShowsNoRing, NEW t \in Threads, Step(t)
  PROVE  RingsAgree'
<1> SUFFICES ASSUME NEW i \in DOMAIN pipes' PROVE RingAgrees(pipes'[i])
  BY DEF RingsAgree, RingAgrees, is_lifo_mode
<1>1. CASE i \notin DOMAIN pipes
  <2>1. pipes'[i] = Wanted(t)
    BY <1>1, Grows
  <2>2. WellFormed(Wanted(t)) /\ Wanted(t).number_of_entries = 0
        /\ Wanted(t).read_pointer = 0 /\ Wanted(t).write_pointer = 0
    BY WantedFacts DEF IInv, TypeOK, BurstInBounds
  <2> QED
    BY <2>1, <2>2, NewRing
<1>2. CASE i \in DOMAIN pipes /\ MoveWord(t) /\ ptr[t] = i
  <2>1. pc[t] = "word" /\ pipes'[i] = AfterMove(t, pipes[i])
    BY <1>2, MoveStep DEF Step
  <2> QED
    BY <1>2, <2>1, MoveRing DEF RingsAgree
<1>3. CASE i \in DOMAIN pipes /\ ~ (MoveWord(t) /\ ptr[t] = i)
  BY <1>3, BuffersKept DEF RingsAgree
<1> QED
  BY <1>1, <1>2, <1>3

(* The pointers and the count of a ring agree for ever, whoever reads and  *)
(* writes, as long as no ring is shown (pipeHandler.h:125-207).            *)
THEOREM RingsStayInStep == Spec /\ []ShowsNoRing => []RingsAgree
<1>1. IInv /\ ShowsNoRing /\ RingsAgree /\ [Next]_vars => RingsAgree'
  <2>1. ASSUME RingsAgree, UNCHANGED vars PROVE RingsAgree'
    BY <2>1 DEF vars, RingsAgree
  <2> QED
    BY <2>1, RingsStep DEF Next, Ended
<1> QED
  BY Invariance, InitRings, <1>1, PTL DEF Spec

(* In a program that shows no pipe it writes, no ring is shown while it    *)
(* holds a word.                                                           *)
HoldsWhatWasWritten ==
  \A i \in DOMAIN pipes : pipes[i].number_of_entries > 0 =>
    \E u \in Threads : \E d \in CallsOf(program, u) :
      d.op = "write" /\ d.name = pipes[i].pipe_name

WInv == UsesWhatItNamed /\ HoldsWhatWasWritten

(* The call of a thread that moves words is one of its script.             *)
LEMMA ScriptedMove ==
  ASSUME IInv, NEW t \in Threads, pc[t] # "idle"
  PROVE  \E c \in CallsOf(program, t) : call[t].op = c.op /\ call[t].name = c.name
<1>1. PICK k \in DOMAIN Script[t] : \E c \in Script[t][k] :
        call[t].op = c.op /\ call[t].name = c.name
  BY DEF IInv, CallIsScripted
<1> QED
  BY <1>1 DEF CallsOf, Script

LEMMA WrittenStep ==
  ASSUME IInv, WInv, NEW t \in Threads, Step(t)
  PROVE  WInv'
<1>1. UsesWhatItNamed'
  BY UsesStep DEF WInv
<1>2. HoldsWhatWasWritten'
  <2> SUFFICES ASSUME NEW i \in DOMAIN pipes', pipes'[i].number_of_entries > 0
               PROVE  \E u \in Threads : \E d \in CallsOf(program, u) :
                        d.op = "write" /\ d.name = pipes'[i].pipe_name
    BY DEF HoldsWhatWasWritten, Step, CallsOf
  <2>1. CASE i \notin DOMAIN pipes
    BY <2>1, Grows, WantedFacts DEF IInv, TypeOK, BurstInBounds
  <2>2. ASSUME i \in DOMAIN pipes, pipes[i].number_of_entries > 0
        PROVE  \E u \in Threads : \E d \in CallsOf(program, u) :
                 d.op = "write" /\ d.name = pipes'[i].pipe_name
    BY <2>2, Grows DEF WInv, HoldsWhatWasWritten, SameKind
  <2>3. CASE i \in DOMAIN pipes /\ ~ (MoveWord(t) /\ ptr[t] = i)
    BY <2>2, <2>3, BuffersKept
  <2>4. CASE i \in DOMAIN pipes /\ MoveWord(t) /\ ptr[t] = i
    <3>1. /\ pc[t] = "word" /\ pipes'[i] = AfterMove(t, pipes[i])
          /\ call[t].op \in {"read", "write", "show"}
      BY <2>4, MoveStep, MovedFacts DEF Step
    <3>2. CASE call[t].op = "write"
      <4>1. pipes'[i].pipe_name = call[t].name
        BY <2>4, <3>1, Grows DEF WInv, UsesWhatItNamed, SameKind
      <4> QED
        BY <3>1, <3>2, <4>1, ScriptedMove
    <3>3. CASE call[t].op # "write"
      <4>1. pipes[i].number_of_entries \in Nat
        BY <2>4, FieldFacts DEF IInv, TypeOK
      <4>2. pipes[i].number_of_entries > 0
        BY <2>4, <3>1, <3>3, <4>1, AfterMoveFacts
      <4> QED
        BY <2>2, <2>4, <4>2
    <3> QED
      BY <3>2, <3>3
  <2> QED
    BY <2>1, <2>3, <2>4
<1> QED
  BY <1>1, <1>2 DEF WInv

LEMMA InitWInv == Init => WInv
<1> SUFFICES ASSUME Init PROVE WInv
  OBVIOUS
<1>1. UsesWhatItNamed
  BY DEF Init, UsesWhatItNamed
<1>2. \A i \in DOMAIN pipes : pipes[i].number_of_entries = 0
  <2>1. \A i \in DOMAIN pipes : Fresh(pipes[i])
    BY ProgramsAssumption DEF Init, Registered
  <2> QED
    BY <2>1, FreshRing
<1> QED
  BY <1>1, <1>2 DEF WInv, HoldsWhatWasWritten

THEOREM PrintsNoRing ==
  ASSUME \A p \in Programs : PrintsNothingWritten(p)
  PROVE  Spec => []ShowsNoRing
<1>1. IInv /\ WInv /\ [Next]_vars => WInv'
  <2>1. ASSUME WInv, UNCHANGED vars PROVE WInv'
    BY <2>1 DEF vars, WInv, UsesWhatItNamed, HoldsWhatWasWritten, CallsOf
  <2> QED
    BY <2>1, WrittenStep DEF Next, Ended
<1>2. IInv /\ WInv => ShowsNoRing
  <2> SUFFICES ASSUME IInv, WInv, NEW t \in Threads, pc[t] = "word",
                      call[t].op = "show", ~ pipes[ptr[t]].is_signal
               PROVE  FALSE
    BY DEF ShowsNoRing
  <2>1. /\ ptr[t] \in DOMAIN pipes /\ pipes[ptr[t]].number_of_entries > 0
        /\ pipes[ptr[t]].pipe_name = call[t].name
    BY MovedFacts DEF WInv, UsesWhatItNamed
  <2>2. PICK u \in Threads : \E d \in CallsOf(program, u) :
          d.op = "write" /\ d.name = call[t].name
    BY <2>1 DEF WInv, HoldsWhatWasWritten
  <2>3. PICK c \in CallsOf(program, t) : c.op = "show" /\ c.name = call[t].name
    BY ScriptedMove
  <2> QED
    BY <2>2, <2>3 DEF PrintsNothingWritten, IInv, RegisteredStays
<1> QED
  BY Invariance, InitWInv, <1>1, <1>2, PTL DEF Spec

(* So the rings of a program that prints no pipe it writes always agree.   *)
THEOREM RingsAlwaysAgree ==
  ASSUME \A p \in Programs : PrintsNothingWritten(p)
  PROVE  Spec => []RingsAgree
BY PrintsNoRing, RingsStayInStep, PTL

-----------------------------------------------------------------------------
(* The pipes that main registered are AbstractPipes.                       *)

LEMMA ContentsFacts ==
  ASSUME NEW p, WellFormed(p)
  PROVE  /\ Contents(p) \in Seq(Word) /\ Len(Contents(p)) = p.number_of_entries
         /\ \A k \in 1 .. p.number_of_entries :
              Contents(p)[k] = p.buffer[Slot(p, k - 1)]
         /\ \A k \in 0 .. p.number_of_entries - 1 : Slot(p, k) \in 0 .. p.pipe_depth - 1
<1> DEFINE n == p.number_of_entries
<1>1. /\ p.pipe_depth \in Nat \ {0} /\ n \in 0 .. p.pipe_depth
      /\ p.read_pointer \in 0 .. p.pipe_depth - 1
      /\ p.buffer \in [0 .. p.pipe_depth - 1 -> Word]
  BY FieldFacts
<1> HIDE DEF n
<1>2. \A k \in 0 .. n - 1 : Slot(p, k) \in 0 .. p.pipe_depth - 1
  BY <1>1 DEF Slot
<1>3. \A k \in 1 .. n : p.buffer[Slot(p, k - 1)] \in Word
  <2>1. \A k \in 1 .. n : k - 1 \in 0 .. n - 1
    BY <1>1
  <2> QED
    BY <1>1, <1>2, <2>1
<1>4. Contents(p) = [k \in 1 .. n |-> p.buffer[Slot(p, k - 1)]]
  BY DEF Contents, n
<1>5. n \in Nat
  BY <1>1
<1>6. Contents(p) \in Seq(Word) /\ Len(Contents(p)) = n
  BY <1>3, <1>4, <1>5, IsASeq
<1> QED
  BY <1>2, <1>4, <1>6 DEF n

(* A word that is put at the write pointer is the newest one.              *)
LEMMA PushContents ==
  ASSUME NEW p, WellFormed(p), NEW w \in Word, ~p.is_signal,
         p.number_of_entries < p.pipe_depth, RingAgrees(p)
  PROVE  Contents(PUSH(p, w)) = Append(Contents(p), w)
<1> DEFINE q == PUSH(p, w)
           n == p.number_of_entries
<1>1. /\ WellFormed(q) /\ SameKind(q, p) /\ q.number_of_entries = n + 1
      /\ \A k \in 0 .. p.pipe_depth - 1 :
           q.buffer[k] = IF k = p.write_pointer THEN w ELSE p.buffer[k]
      /\ q.read_pointer = IF is_lifo_mode(p) THEN p.write_pointer ELSE p.read_pointer
  BY PushFacts
<1>2. /\ p.pipe_depth \in Nat \ {0} /\ n \in 0 .. p.pipe_depth
      /\ p.read_pointer \in 0 .. p.pipe_depth - 1
      /\ p.write_pointer \in 0 .. p.pipe_depth - 1
  BY FieldFacts
<1>3. /\ Contents(p) \in Seq(Word) /\ Len(Contents(p)) = n
      /\ \A k \in 1 .. n : Contents(p)[k] = p.buffer[Slot(p, k - 1)]
      /\ \A k \in 0 .. n - 1 : Slot(p, k) \in 0 .. p.pipe_depth - 1
  BY ContentsFacts
<1> HIDE DEF q
<1>4. /\ Contents(q) \in Seq(Word) /\ Len(Contents(q)) = n + 1
      /\ \A k \in 1 .. n + 1 : Contents(q)[k] = q.buffer[Slot(q, k - 1)]
  BY <1>1, ContentsFacts
<1> HIDE DEF n
<1>5. /\ \A k \in 0 .. n - 1 : Slot(q, k) = Slot(p, k) /\ Slot(p, k) # p.write_pointer
      /\ Slot(q, n) = p.write_pointer
  <2>1. /\ q.pipe_depth = p.pipe_depth /\ (is_lifo_mode(q) <=> is_lifo_mode(p))
        /\ n < p.pipe_depth
    BY <1>1 DEF SameKind, is_lifo_mode, n
  <2>2. CASE is_lifo_mode(p)
    BY <1>1, <1>2, <2>1, <2>2 DEF RingAgrees, Slot, n
  <2>3. CASE ~ is_lifo_mode(p)
    BY <1>1, <1>2, <2>1, <2>3 DEF RingAgrees, Slot, n
  <2> QED
    BY <2>2, <2>3
<1>6. ASSUME NEW k \in 1 .. n + 1
      PROVE  Contents(q)[k] = Append(Contents(p), w)[k]
  <2>1. CASE k = n + 1
    <3>1. q.buffer[Slot(q, n)] = w
      BY <1>1, <1>2, <1>5
    <3>2. k - 1 = n
      BY <1>2, <2>1
    <3>3. Append(Contents(p), w)[n + 1] = w
      BY <1>3
    <3> QED
      BY <1>4, <2>1, <3>1, <3>2, <3>3
  <2>2. CASE k \in 1 .. n
    <3>1. k - 1 \in 0 .. n - 1
      BY <1>2, <2>2
    <3>2. q.buffer[Slot(q, k - 1)] = p.buffer[Slot(p, k - 1)]
      BY <1>1, <1>3, <1>5, <3>1
    <3>3. Append(Contents(p), w)[k] = Contents(p)[k]
      BY <1>2, <1>3, <2>2
    <3> QED
      BY <1>3, <1>4, <2>2, <3>2, <3>3
  <2>3. n \in Nat
    BY <1>2
  <2>4. k = n + 1 \/ k \in 1 .. n
    BY <2>3
  <2> QED
    BY <2>1, <2>2, <2>4
<1>7. Append(Contents(p), w) \in Seq(Word) /\ Len(Append(Contents(p), w)) = n + 1
  BY <1>3
<1>8. Contents(q) = Append(Contents(p), w)
  BY <1>4, <1>6, <1>7, SeqEqual
<1> QED
  BY <1>8 DEF q

(* The word that is popped is the oldest one, or the newest one of a LIFO. *)
LEMMA PopContents ==
  ASSUME NEW p, WellFormed(p), ~p.is_signal, p.number_of_entries > 0, RingAgrees(p)
  PROVE  LET s == Contents(p)
             n == p.number_of_entries IN
         IF is_lifo_mode(p)
         THEN Contents(POP(p)) = SubSeq(s, 1, n - 1) /\ <<PopWord(p)>> = SubSeq(s, n, n)
         ELSE Contents(POP(p)) = SubSeq(s, 2, n) /\ <<PopWord(p)>> = SubSeq(s, 1, 1)
<1> DEFINE q == POP(p)
           n == p.number_of_entries
           s == Contents(p)
<1>1. /\ p.pipe_depth \in Nat \ {0} /\ n \in 1 .. p.pipe_depth
      /\ p.read_pointer \in 0 .. p.pipe_depth - 1
  BY FieldFacts
<1>2. /\ WellFormed(q) /\ SameKind(q, p) /\ q.number_of_entries = n - 1
      /\ q.buffer = p.buffer
      /\ ~ is_lifo_mode(p) => q.read_pointer = INCR(p.read_pointer, p)
  BY <1>1, PopFacts
<1>3. /\ s \in Seq(Word) /\ Len(s) = n
      /\ \A k \in 1 .. n : s[k] = p.buffer[Slot(p, k - 1)]
  BY ContentsFacts
<1> HIDE DEF q
<1>4. /\ Contents(q) \in Seq(Word) /\ Len(Contents(q)) = n - 1
      /\ \A k \in 1 .. n - 1 : Contents(q)[k] = p.buffer[Slot(q, k - 1)]
  BY <1>2, ContentsFacts
<1>5. PopWord(p) = p.buffer[p.read_pointer]
  BY DEF PopWord
<1> HIDE DEF n, s
<1>6. n \in Nat \ {0}
  BY <1>1
<1>7. CASE is_lifo_mode(p)
  <2>1. \A k \in 1 .. n - 1 : Slot(q, k - 1) = Slot(p, k - 1)
    BY <1>2, <1>7 DEF Slot, is_lifo_mode, SameKind
  <2>2. p.read_pointer = Slot(p, n - 1)
    BY <1>1, <1>7 DEF RingAgrees, Slot, n
  <2> DEFINE u == SubSeq(s, 1, n - 1)
             v == SubSeq(s, n, n)
  <2>3. /\ u \in Seq(Word) /\ Len(u) = n - 1
        /\ \A k \in 1 .. n - 1 : u[k] = s[k]
    BY <1>1, <1>3, SubSeqProperties
  <2>4. v \in Seq(Word) /\ Len(v) = 1 /\ v[1] = s[n]
    BY <1>1, <1>3, SubSeqProperties
  <2> HIDE DEF u, v
  <2>5. ASSUME NEW k \in 1 .. n - 1 PROVE Contents(q)[k] = u[k]
    <3>1. k \in 1 .. n
      BY <1>6
    <3> QED
      BY <1>3, <1>4, <2>1, <2>3, <3>1
  <2>6. Contents(q) = u
    BY <1>4, <2>3, <2>5, SeqEqual
  <2>7. v = <<PopWord(p)>>
    BY <1>1, <1>3, <1>5, <2>2, <2>4
  <2> QED
    BY <1>7, <2>6, <2>7 DEF q, u, v, n, s
<1>8. CASE ~ is_lifo_mode(p)
  <2>1. \A k \in 1 .. n - 1 : Slot(q, k - 1) = Slot(p, k)
    BY <1>1, <1>2, <1>8 DEF Slot, is_lifo_mode, SameKind, INCR
  <2>2. p.read_pointer = Slot(p, 0)
    BY <1>1, <1>8 DEF Slot
  <2> DEFINE u == SubSeq(s, 2, n)
             v == SubSeq(s, 1, 1)
  <2>3. /\ u \in Seq(Word) /\ Len(u) = n - 1
        /\ \A k \in 1 .. n - 1 : u[k] = s[k + 1]
    BY <1>1, <1>3, SubSeqProperties
  <2>4. v \in Seq(Word) /\ Len(v) = 1 /\ v[1] = s[1]
    BY <1>1, <1>3, SubSeqProperties
  <2> HIDE DEF u, v
  <2>5. ASSUME NEW k \in 1 .. n - 1 PROVE Contents(q)[k] = u[k]
    <3>1. k + 1 \in 1 .. n /\ k + 1 - 1 = k
      BY <1>6
    <3>2. s[k + 1] = p.buffer[Slot(p, k)]
      BY <1>3, <3>1
    <3> QED
      BY <1>4, <2>1, <2>3, <3>2
  <2>6. Contents(q) = u
    BY <1>4, <2>3, <2>5, SeqEqual
  <2>7. v = <<PopWord(p)>>
    BY <1>1, <1>3, <1>5, <2>2, <2>4
  <2> QED
    BY <1>8, <2>6, <2>7 DEF q, u, v, n, s
<1> QED
  BY <1>7, <1>8

(* Showing a word, or moving a word of a signal, moves no word of a pipe.  *)
LEMMA QuietContents ==
  ASSUME IInv, NEW t \in Threads, pc[t] = "word",
         pipes[ptr[t]].is_signal \/ call[t].op = "show"
  PROVE  Contents(AfterMove(t, pipes[ptr[t]])) = Contents(pipes[ptr[t]])
<1> DEFINE p == pipes[ptr[t]]
           q == AfterMove(t, p)
<1>1. /\ ptr[t] \in DOMAIN pipes /\ WellFormed(p) /\ WellFormed(q)
      /\ p.is_signal => q.number_of_entries = p.number_of_entries
  BY MovedFacts, AfterMoveFacts
<1>2. CASE p.is_signal
  <2>1. p.number_of_entries = 0 /\ q.number_of_entries = 0
    BY <1>1, <1>2 DEF IInv, SignalsHoldNothing
  <2> HIDE DEF p, q
  <2>2. Contents(p) = <<>> /\ Contents(q) = <<>>
    BY <2>1 DEF Contents
  <2> QED
    BY <2>2 DEF p, q
<1>3. CASE call[t].op = "show"
  <2>1. q = POPANDRESTORE(p)
    BY <1>3 DEF AfterMove
  <2> HIDE DEF p, q
  <2>2. /\ q.number_of_entries = p.number_of_entries /\ q.buffer = p.buffer
        /\ q.pipe_mode = p.pipe_mode /\ q.pipe_depth = p.pipe_depth
        /\ q.read_pointer = p.read_pointer
    BY <1>1, <2>1 DEF POPANDRESTORE, WellFormed
  <2>3. Contents(q) = Contents(p)
    BY <2>2 DEF Contents, Slot, is_lifo_mode
  <2> QED
    BY <2>3 DEF p, q
<1> QED
  BY <1>2, <1>3

(* A step of the handler is a step of the pipe i that p registered: a word *)
(* put, a word got, or nothing at all.                                     *)
LEMMA PipeStep ==
  ASSUME IInv, RingsAgree, NEW t \in Threads, Step(t),
         NEW p \in Programs, program = p, NEW i \in DOMAIN p.registered
  PROVE  P(p, i)!Next
<1> DEFINE r == pipes[i]
           q == pipes'[i]
<1>1. /\ i \in DOMAIN pipes /\ i # 0 /\ WellFormed(r) /\ RingAgrees(r)
      /\ r.pipe_depth = p.registered[i].pipe_depth
      /\ is_lifo_mode(r) <=> is_lifo_mode(p.registered[i])
  <2>1. DOMAIN Registered = 1 .. Len(Registered) /\ Len(Registered) \in Nat
    BY ProgramsAssumption DEF Registered, IInv, RegisteredStays
  <2>2. i \in 1 .. Len(pipes) /\ DOMAIN pipes = 1 .. Len(pipes)
    BY <2>1 DEF IInv, TypeOK, RegisteredStays, Registered
  <2>3. SameKind(r, p.registered[i])
    BY DEF IInv, RegisteredStays, Registered
  <2> QED
    BY <2>2, <2>3 DEF IInv, TypeOK, RingsAgree, SameKind, is_lifo_mode
<1>2. CASE Contents(q) = Contents(r) /\ io'.rec # i
  <2>1. P(p, i)!Idle
    BY <1>2 DEF P!Idle, Moves
  <2> QED
    BY <2>1 DEF P!Next
<1>3. CASE ~ (MoveWord(t) /\ ptr[t] = i)
  <2>1. q = r
    BY <1>1, <1>3, BuffersKept
  <2>2. io'.rec # i
    BY <1>1, <1>3 DEF Step, Call, Register, Insert, Find, Refind, Look, Lock,
                      MoveWord, Unlock, Quiet, NoIO
  <2> QED
    BY <1>2, <2>1, <2>2
<1>4. CASE MoveWord(t) /\ ptr[t] = i
  <2> DEFINE w == Moved(t, r)
  <2>1. pc[t] = "word" /\ q = AfterMove(t, r)
    BY <1>4, MoveStep DEF Step
  <2>2. /\ call[t].op \in {"read", "write", "show"} /\ w \in Word
        /\ ~r.is_signal /\ call[t].op = "write" => r.number_of_entries < r.pipe_depth
        /\ ~r.is_signal /\ call[t].op # "write" => r.number_of_entries > 0
    BY <1>4, <2>1, MovedFacts
  <2>3. io' = IF r.is_signal \/ call[t].op = "show" THEN NoIO
              ELSE [rec |-> i,
                    put |-> IF call[t].op = "write" THEN <<w>> ELSE <<>>,
                    got |-> IF call[t].op = "read" THEN <<w>> ELSE <<>>]
    BY <1>4 DEF MoveWord
  <2>4. Contents(r) \in Seq(Word) /\ Len(Contents(r)) = r.number_of_entries
    BY <1>1, ContentsFacts
  <2>5. CASE r.is_signal \/ call[t].op = "show"
    <3>1. Contents(q) = Contents(r)
      BY <1>4, <2>1, <2>5, QuietContents
    <3>2. io'.rec # i
      BY <1>1, <2>3, <2>5 DEF NoIO
    <3> QED
      BY <1>2, <3>1, <3>2
  <2>6. CASE ~r.is_signal /\ call[t].op = "write"
    <3>1. q = PUSH(r, w)
      BY <2>1, <2>6 DEF AfterMove
    <3>2. Contents(q) = Append(Contents(r), w)
      BY <1>1, <2>2, <2>6, <3>1, PushContents
    <3>3. io'.rec = i /\ io'.put = <<w>> /\ io'.got = <<>>
      BY <2>3, <2>6
    <3>4. Len(Contents(r)) < p.registered[i].pipe_depth
      BY <1>1, <2>2, <2>4, <2>6
    <3> HIDE DEF w
    <3>5. P(p, i)!Put(w)
      BY <3>2, <3>3, <3>4 DEF P!Put, Moves
    <3> QED
      BY <2>2, <3>5 DEF P!Next
  <2>7. CASE ~r.is_signal /\ call[t].op = "read"
    <3> DEFINE s == Contents(r)
    <3>1. q = POP(r)
      BY <2>1, <2>7 DEF AfterMove
    <3>2. w = PopWord(r)
      BY <2>7 DEF Moved
    <3>3. IF is_lifo_mode(r)
          THEN Contents(q) = SubSeq(s, 1, Len(s) - 1) /\ <<w>> = SubSeq(s, Len(s), Len(s))
          ELSE Contents(q) = SubSeq(s, 2, Len(s)) /\ <<w>> = SubSeq(s, 1, 1)
      BY <1>1, <2>2, <2>4, <2>7, <3>1, <3>2, PopContents
    <3>4. io'.rec = i /\ io'.put = <<>> /\ io'.got = <<w>>
      BY <2>3, <2>7
    <3>5. s # <<>>
      BY <2>2, <2>4, <2>7
    <3> HIDE DEF w
    <3>6. P(p, i)!Get
      BY <1>1, <3>3, <3>4, <3>5 DEF P!Get, P!Newest, P!Oldest, P!Rest, Moves
    <3> QED
      BY <3>6 DEF P!Next
  <2> QED
    BY <2>2, <2>5, <2>6, <2>7
<1> QED
  BY <1>3, <1>4

(* Every pipe that main registered is an AbstractPipe, with any number of  *)
(* readers and writers and any bursts, as long as no ring is shown: what   *)
(* is read is what was written, in order, none lost and none twice.        *)
THEOREM RegisteredPipesArePipes == Spec /\ []ShowsNoRing => PipesArePipes
<1> DEFINE Starts == \A p \in Programs : program = p =>
                       \A i \in DOMAIN p.registered : P(p, i)!Init
           Goes   == \A p \in Programs : program = p =>
                       \A i \in DOMAIN p.registered : P(p, i)!Next
<1>1. Init => Starts
  <2> SUFFICES ASSUME Init, NEW i \in DOMAIN program.registered
               PROVE  P(program, i)!Init
    OBVIOUS
  <2>1. Fresh(pipes[i]) /\ io = NoIO
    BY ProgramsAssumption DEF Init, Registered
  <2>2. Contents(pipes[i]) = <<>>
    BY <2>1, FreshRing DEF Contents
  <2> QED
    BY <2>1, <2>2 DEF P!Init, Moves, NoIO
<1>2. IInv /\ RingsAgree /\ [Next]_vars => [Goes]_vars
  BY PipeStep DEF Next, Ended
<1>3. Spec /\ []ShowsNoRing => Starts /\ [][Goes]_vars
  <2> HIDE DEF Starts, Goes
  <2> QED
    BY Invariance, RingsStayInStep, <1>1, <1>2, PTL DEF Spec
<1> QED
  BY <1>3 DEF PipesArePipes

THEOREM PipesAlwaysArePipes ==
  ASSUME \A p \in Programs : PrintsNothingWritten(p)
  PROVE  Spec => PipesArePipes
BY PrintsNoRing, RegisteredPipesArePipes, PTL

-----------------------------------------------------------------------------
(* A non-blocking read is answered at once, with words or with zeros.      *)

NonBlocking(p) == p.pipe_mode = PIPE_FIFO_NON_BLOCK_READ

(* A thread that reads a non-blocking pipe asks once: it has nothing until *)
(* it has the mutex and everything when it gives the mutex back.           *)
AnswersAtOnce ==
  \A t \in Threads : call[t].op = "read" =>
    /\ pc[t] \notin {"idle", "word", "unlock"} =>
         \A i \in DOMAIN pipes :
           (NonBlocking(pipes[i]) /\ pipes[i].pipe_name = call[t].name) => words[t] = <<>>
    /\ pc[t] = "word" /\ NonBlocking(pipes[ptr[t]]) =>
         /\ Len(words[t]) + left[t] = call[t].n
         /\ \A k \in 1 .. Len(words[t]) : words[t][k] # Zero
    /\ pc[t] = "unlock" /\ NonBlocking(pipes[ptr[t]]) =>
         /\ Len(words[t]) = call[t].n
         /\ \/ \A k \in 1 .. Len(words[t]) : words[t][k] = Zero
            \/ \A k \in 1 .. Len(words[t]) : words[t][k] # Zero

(* No pipe holds a zero.                                                   *)
NoZeroHeld ==
  \A i \in DOMAIN pipes : \A k \in 1 .. pipes[i].number_of_entries :
    Contents(pipes[i])[k] # Zero

ZInv == AnswersAtOnce /\ NoZeroHeld

LEMMA InitZInv == Init => ZInv
<1> SUFFICES ASSUME Init PROVE ZInv
  OBVIOUS
<1>1. AnswersAtOnce
  BY DEF Init, AnswersAtOnce, NoCall, ShowPipe
<1>2. NoZeroHeld
  <2>1. \A i \in DOMAIN pipes : pipes[i].number_of_entries = 0
    BY InitWInv, ProgramsAssumption, FreshRing DEF Init, Registered
  <2> QED
    BY <2>1 DEF NoZeroHeld
<1> QED
  BY <1>1, <1>2 DEF ZInv

(* What is put into a pipe is a word of some write.                        *)
LEMMA NoZeroStep ==
  ASSUME IInv, RingsAgree, NoZeroHeld, WritesNoZero(program), NEW t \in Threads, Step(t)
  PROVE  NoZeroHeld'
<1> SUFFICES ASSUME NEW i \in DOMAIN pipes',
                    NEW k \in 1 .. pipes'[i].number_of_entries
             PROVE  Contents(pipes'[i])[k] # Zero
  BY DEF NoZeroHeld, Contents, Slot, is_lifo_mode
<1>1. CASE i \notin DOMAIN pipes
  BY <1>1, Grows, WantedFacts DEF IInv, TypeOK, BurstInBounds
<1>2. CASE i \in DOMAIN pipes /\ Contents(pipes'[i]) = Contents(pipes[i])
             /\ pipes'[i].number_of_entries = pipes[i].number_of_entries
  BY <1>2 DEF NoZeroHeld
<1>3. CASE i \in DOMAIN pipes /\ ~ (MoveWord(t) /\ ptr[t] = i)
  BY <1>2, <1>3, BuffersKept
<1>4. CASE i \in DOMAIN pipes /\ MoveWord(t) /\ ptr[t] = i
  <2> DEFINE r == pipes[i]
             s == Contents(r)
             n == r.number_of_entries
             w == Moved(t, r)
  <2>1. pc[t] = "word" /\ pipes'[i] = AfterMove(t, r)
    BY <1>4, MoveStep DEF Step
  <2>2. /\ call[t].op \in {"read", "write", "show"} /\ w \in Word /\ WellFormed(r)
        /\ ~r.is_signal /\ call[t].op = "write" => n < r.pipe_depth
        /\ ~r.is_signal /\ call[t].op # "write" => n > 0
        /\ n \in Nat /\ RingAgrees(r)
    BY <1>4, <2>1, MovedFacts, FieldFacts DEF RingsAgree
  <2>3. /\ s \in Seq(Word) /\ Len(s) = n
        /\ \A j \in 1 .. n : s[j] # Zero
    BY <1>4, <2>2, ContentsFacts DEF NoZeroHeld
  <2>4. CASE r.is_signal \/ call[t].op = "show"
    BY <1>2, <1>4, <2>1, <2>4, QuietContents, AfterMoveFacts
  <2>5. CASE ~r.is_signal /\ call[t].op = "write"
    <3>1. pipes'[i] = PUSH(r, w)
      BY <2>1, <2>5 DEF AfterMove
    <3>2. /\ Contents(pipes'[i]) = Append(s, w) /\ k \in 1 .. n + 1
      BY <2>2, <2>5, <3>1, PushContents, PushFacts
    <3>3. w # Zero
      <4>1. /\ w = call[t].data[Len(words[t]) + 1]
            /\ Len(words[t]) + 1 \in DOMAIN call[t].data
        <5>1. /\ left[t] \in Nat /\ left[t] > 0 /\ Len(words[t]) \in Nat
              /\ Len(words[t]) + left[t] <= call[t].n
              /\ call[t].data \in Seq(Word) /\ call[t].n = Len(call[t].data)
          BY <2>1, <2>5 DEF IInv, TypeOK, BurstInBounds, Calls, Sensible
        <5> QED
          BY <2>5, <5>1 DEF Moved
      <4>2. call[t] \in CallsOf(program, t)
        <5>1. PICK j \in DOMAIN Script[t] : call[t] \in Script[t][j]
          BY <2>1, <2>5 DEF IInv, CallIsScripted
        <5> QED
          BY <5>1 DEF CallsOf, Script
      <4> HIDE DEF w
      <4> QED
        BY <2>5, <4>1, <4>2 DEF WritesNoZero
    <3> HIDE DEF s, w, n
    <3>4. /\ Append(s, w)[n + 1] = w /\ \A j \in 1 .. n : Append(s, w)[j] = s[j]
      BY <2>2, <2>3, AppendProperties
    <3>5. k = n + 1 \/ k \in 1 .. n
      BY <2>2, <3>2
    <3> QED
      BY <2>3, <3>2, <3>3, <3>4, <3>5
  <2>6. CASE ~r.is_signal /\ call[t].op = "read"
    <3>1. pipes'[i] = POP(r)
      BY <2>1, <2>6 DEF AfterMove
    <3>2. n > 0
      BY <2>2, <2>6
    <3>3. k \in 1 .. n - 1
      <4>1. POP(r).number_of_entries = n - 1
        BY <2>2, <2>6, <3>2, PopFacts
      <4> QED
        BY <3>1, <4>1
    <3>4. \/ Contents(pipes'[i]) = SubSeq(s, 1, n - 1)
          \/ Contents(pipes'[i]) = SubSeq(s, 2, n)
      BY <2>2, <2>6, <3>1, <3>2, PopContents
    <3> HIDE DEF s, n
    <3>5. /\ \A j \in 1 .. n - 1 : SubSeq(s, 1, n - 1)[j] = s[j]
          /\ \A j \in 1 .. n - 1 : SubSeq(s, 2, n)[j] = s[j + 1]
      BY <2>2, <2>3, SubSeqProperties
    <3>6. k \in 1 .. n /\ k + 1 \in 1 .. n
      BY <2>2, <3>3
    <3> QED
      BY <2>3, <3>3, <3>4, <3>5, <3>6
  <2> QED
    BY <2>2, <2>4, <2>5, <2>6
<1> QED
  BY <1>1, <1>3, <1>4

(* A request on a non-blocking pipe: all the words, or zeros for all.      *)
LEMMA LockNonBlocking ==
  ASSUME IInv, NInv, ZInv, NEW t \in Threads, Lock(t), call[t].op = "read",
         NonBlocking(pipes[ptr[t]])
  PROVE  /\ pc'[t] = "word" => words'[t] = <<>> /\ left'[t] = call[t].n
         /\ pc'[t] = "unlock" =>
              /\ Len(words'[t]) = call[t].n
              /\ \A k \in 1 .. Len(words'[t]) : words'[t][k] = Zero
<1> DEFINE p == pipes[ptr[t]]
<1>0. /\ pc \in [Threads -> Labels] /\ words \in [Threads -> Seq(Word)]
      /\ left \in [Threads -> Nat] /\ call[t].n \in Nat
  BY DEF IInv, TypeOK, Calls
<1>1. pc[t] = "lock" /\ ptr[t] \in DOMAIN pipes
  BY DEF Lock, IInv, LooksBeforeLocking
<1>2. words[t] = <<>>
  <2>1. p.pipe_name = call[t].name
    BY <1>1 DEF NInv, UsesWhatItNamed
  <2> QED
    BY <1>1, <2>1 DEF ZInv, AnswersAtOnce
<1>3. Requested(t) = call[t].n
  BY <1>0, <1>2 DEF Requested
<1>4. Granted(t, p) \in 0 .. call[t].n
  BY <1>1, <1>3, GrantFacts
<1>5. CASE ZeroFilled(t, p)
  <2>1. words'[t] = words[t] \o Zeros(call[t].n) /\ pc'[t] = "unlock"
    BY <1>0, <1>3, <1>5 DEF Lock, goto
  <2>2. /\ Zeros(call[t].n) \in Seq(Word) /\ Len(Zeros(call[t].n)) = call[t].n
        /\ \A k \in 1 .. call[t].n : Zeros(call[t].n)[k] = Zero
    BY <1>0, ZerosFacts
  <2>3. words'[t] = Zeros(call[t].n)
    BY <1>2, <2>1, <2>2, ConcatEmptySeq
  <2> QED
    BY <2>1, <2>2, <2>3
<1>6. CASE ~ ZeroFilled(t, p)
  <2>1. Granted(t, p) = call[t].n
    BY <1>0, <1>3, <1>4, <1>6 DEF ZeroFilled, NonBlocking
  <2>2. /\ words' = words /\ left' = [left EXCEPT ![t] = Granted(t, p)]
        /\ pc' = [pc EXCEPT ![t] = IF Granted(t, p) > 0 THEN "word" ELSE "unlock"]
    BY <1>6 DEF Lock, goto
  <2> HIDE DEF p
  <2>3. words'[t] = <<>> /\ left'[t] = call[t].n
    BY <1>0, <1>2, <2>1, <2>2
  <2>4. pc'[t] = "unlock" => call[t].n = 0
    BY <1>0, <2>1, <2>2
  <2> QED
    BY <2>3, <2>4
<1> QED
  BY <1>5, <1>6

LEMMA MoveNonBlocking ==
  ASSUME IInv, RingsAgree, ZInv, NEW t \in Threads, MoveWord(t), program' = program,
         call[t].op = "read", NonBlocking(pipes[ptr[t]])
  PROVE  /\ Len(words'[t]) = Len(words[t]) + 1 /\ left'[t] = left[t] - 1
         /\ \A k \in 1 .. Len(words'[t]) : words'[t][k] # Zero
         /\ pc'[t] = IF left[t] = 1 THEN "unlock" ELSE "word"
<1> DEFINE p == pipes[ptr[t]]
           w == Moved(t, p)
           s == Contents(p)
           n == Len(words[t])
<1>1. /\ pc[t] = "word" /\ ptr[t] \in DOMAIN pipes
      /\ words' = [words EXCEPT ![t] = Append(words[t], w)]
      /\ left' = [left EXCEPT ![t] = left[t] - 1]
      /\ pc' = [pc EXCEPT ![t] = IF left[t] = 1 THEN "unlock" ELSE "word"]
  BY MoveStep
<1>2. ~ p.is_signal
  BY <1>1 DEF IInv, SignalsHoldNothing, NonBlocking, PIPE_FIFO_MODE,
              PIPE_FIFO_NON_BLOCK_READ
<1>3. /\ WellFormed(p) /\ RingAgrees(p) /\ p.number_of_entries > 0
      /\ p.number_of_entries \in Nat /\ w = PopWord(p) /\ w \in Word
  BY <1>1, <1>2, MovedFacts, FieldFacts DEF RingsAgree, Moved
<1>4. /\ s \in Seq(Word) /\ Len(s) = p.number_of_entries
      /\ \A k \in 1 .. p.number_of_entries : s[k] # Zero
  BY <1>1, <1>3, ContentsFacts DEF ZInv, NoZeroHeld
<1>5. <<w>> = SubSeq(s, 1, 1) \/ <<w>> = SubSeq(s, Len(s), Len(s))
  BY <1>2, <1>3, <1>4, PopContents
<1>6. /\ pc \in [Threads -> Labels] /\ words \in [Threads -> Seq(Word)]
      /\ left \in [Threads -> Nat] /\ n \in Nat
      /\ \A k \in 1 .. n : words[t][k] # Zero
  <2>1. \A k \in 1 .. n : words[t][k] # Zero
    BY <1>1 DEF ZInv, AnswersAtOnce
  <2> QED
    BY <2>1 DEF IInv, TypeOK
<1> HIDE DEF w, s, n
<1>7. w # Zero
  <2>1. /\ \A k \in 1 .. Len(s) : s[k] # Zero
        /\ Len(s) \in Nat /\ Len(s) > 0
    BY <1>3, <1>4
  <2>2. SubSeq(s, 1, 1)[1] = s[1] /\ SubSeq(s, Len(s), Len(s))[1] = s[Len(s)]
    BY <1>4, <2>1, SubSeqProperties
  <2>3. <<w>>[1] = w
    OBVIOUS
  <2>4. w = s[1] \/ w = s[Len(s)]
    BY <1>5, <2>2, <2>3
  <2> QED
    BY <2>1, <2>4
<1>8. /\ words'[t] = Append(words[t], w) /\ left'[t] = left[t] - 1
      /\ pc'[t] = IF left[t] = 1 THEN "unlock" ELSE "word"
  BY <1>1, <1>6
<1>9. /\ Len(words'[t]) = n + 1 /\ words'[t][n + 1] = w
      /\ \A k \in 1 .. n : words'[t][k] = words[t][k]
  BY <1>3, <1>6, <1>8, AppendProperties DEF n
<1>10. \A k \in 1 .. n + 1 : k = n + 1 \/ k \in 1 .. n
  BY <1>6
<1>11. \A k \in 1 .. n + 1 : words'[t][k] # Zero
  BY <1>6, <1>7, <1>9, <1>10
<1> QED
  BY <1>8, <1>9, <1>11 DEF n

LEMMA AnswersStep ==
  ASSUME IInv, NInv, SInv, ZInv, RingsAgree, NEW t \in Threads, Step(t)
  PROVE  AnswersAtOnce'
<1>1. AnswersAtOnce /\ BurstOnASignal
  BY DEF ZInv, SInv
<1>2. ASSUME NEW u \in Threads, call'[u].op = "read",
             pc'[u] \notin {"idle", "word", "unlock"}, NEW i \in DOMAIN pipes',
             NonBlocking(pipes'[i]), pipes'[i].pipe_name = call'[u].name
      PROVE  words'[u] = <<>>
  <2>1. CASE i \in DOMAIN pipes
    <3>1. NonBlocking(pipes[i]) /\ pipes[i].pipe_name = call'[u].name
      BY <1>2, <2>1, Grows DEF SameKind, NonBlocking
    <3>2. ASSUME pc[u] \notin {"idle", "word", "unlock"}, words'[u] = words[u],
                 call'[u].name = call[u].name, call'[u].op = call[u].op
          PROVE  words'[u] = <<>>
      BY <1>1, <1>2, <2>1, <3>1, <3>2 DEF AnswersAtOnce
    <3>3. CASE u # t
      BY <1>2, <3>2, <3>3, OthersKeep
    <3>4. CASE u = t
      <4>1. ASSUME pc[t] = "unlock", call' = call, Len(words[t]) # call[t].n
            PROVE  FALSE
        <5>1. /\ ptr[t] \in DOMAIN pipes
              /\ pipes[ptr[t]].pipe_name = pipes[i].pipe_name
          BY <3>1, <3>4, <4>1 DEF NInv, UsesWhatItNamed, IInv, LooksBeforeLocking
        <5>2. ptr[t] = i
          BY <2>1, <5>1 DEF NInv, OneRecordEach
        <5> QED
          BY <1>1, <1>2, <3>1, <3>4, <4>1, <5>2 DEF AnswersAtOnce
      <4> QED
        BY <1>1, <1>2, <3>2, <3>4, <4>1, BurstAfter
    <3> QED
      BY <3>3, <3>4
  <2>2. CASE i \notin DOMAIN pipes
    <3>1. Insert(t) /\ pipes'[i] = Wanted(t)
      BY <2>2, Grows
    <3>2. call'[u].name = call[t].name
      BY <1>2, <3>1, WantedFacts DEF IInv, TypeOK, BurstInBounds
    <3>3. pc[t] = "insert" /\ call' = call /\ words' = words
      BY <3>1 DEF Insert
    <3>4. Named(call[t].name) = {}
      BY <3>3 DEF NInv, AddsWhatIsMissing
    <3>5. pc[u] # "idle"
      <4>1. CASE u # t
        BY <1>2, <4>1, OthersKeep
      <4> QED
        BY <3>3, <4>1
    <3> QED
      BY <1>1, <3>2, <3>3, <3>4, <3>5 DEF BurstOnASignal
  <2> QED
    BY <2>1, <2>2
<1>3. ASSUME NEW u \in Threads, call'[u].op = "read", pc'[u] \in {"word", "unlock"},
             NonBlocking(pipes'[ptr'[u]])
      PROVE  /\ pc'[u] = "word" =>
                  /\ Len(words'[u]) + left'[u] = call'[u].n
                  /\ \A k \in 1 .. Len(words'[u]) : words'[u][k] # Zero
             /\ pc'[u] = "unlock" =>
                  /\ Len(words'[u]) = call'[u].n
                  /\ \/ \A k \in 1 .. Len(words'[u]) : words'[u][k] = Zero
                     \/ \A k \in 1 .. Len(words'[u]) : words'[u][k] # Zero
  <2>1. CASE u # t
    <3>1. /\ pc'[u] = pc[u] /\ call'[u] = call[u] /\ ptr'[u] = ptr[u]
          /\ words'[u] = words[u] /\ left'[u] = left[u]
      BY <2>1, OthersKeep
    <3>2. ptr[u] \in DOMAIN pipes
      BY <1>3, <3>1 DEF IInv, LooksBeforeLocking
    <3>3. NonBlocking(pipes[ptr[u]])
      BY <1>3, <3>1, <3>2, Grows DEF SameKind, NonBlocking
    <3> QED
      BY <1>1, <1>3, <3>1, <3>3 DEF AnswersAtOnce
  <2>2. CASE u = t
    <3>1. /\ Lock(t) \/ MoveWord(t)
          /\ ptr'[t] = ptr[t] /\ call'[t] = call[t]
      BY <1>3, <2>2, AtWork
    <3>2. ptr[t] \in DOMAIN pipes
      BY <3>1 DEF IInv, LooksBeforeLocking, Lock, MoveWord
    <3>3. NonBlocking(pipes[ptr[t]])
      BY <1>3, <2>2, <3>1, <3>2, Grows DEF SameKind, NonBlocking
    <3>4. CASE Lock(t)
      <4>1. /\ pc'[t] = "word" => words'[t] = <<>> /\ left'[t] = call[t].n
            /\ pc'[t] = "unlock" =>
                 /\ Len(words'[t]) = call[t].n
                 /\ \A k \in 1 .. Len(words'[t]) : words'[t][k] = Zero
        BY <1>3, <2>2, <3>1, <3>3, <3>4, LockNonBlocking
      <4>2. Len(<<>>) = 0 /\ call[t].n \in Nat
        BY DEF IInv, TypeOK, Calls
      <4> QED
        BY <2>2, <3>1, <4>1, <4>2
    <3>5. CASE MoveWord(t)
      <4>1. /\ Len(words'[t]) = Len(words[t]) + 1 /\ left'[t] = left[t] - 1
            /\ \A k \in 1 .. Len(words'[t]) : words'[t][k] # Zero
            /\ pc'[t] = IF left[t] = 1 THEN "unlock" ELSE "word"
        BY <1>3, <2>2, <3>1, <3>3, <3>5, MoveNonBlocking DEF Step
      <4>2. Len(words[t]) + left[t] = call[t].n
        BY <1>1, <1>3, <2>2, <3>1, <3>3, <3>5 DEF AnswersAtOnce, MoveWord
      <4>3. Len(words[t]) \in Nat /\ left[t] \in Nat
        BY DEF IInv, TypeOK
      <4>4. /\ pc'[t] = "word" => Len(words'[t]) + left'[t] = call[t].n
            /\ pc'[t] = "unlock" => Len(words'[t]) = call[t].n
        BY <4>1, <4>2, <4>3
      <4> QED
        BY <2>2, <3>1, <4>1, <4>4
    <3> QED
      BY <3>1, <3>4, <3>5
  <2> QED
    BY <2>1, <2>2
<1> QED
  BY <1>2, <1>3 DEF AnswersAtOnce, NonBlocking

(* A non-blocking read gets all its words or all zeros, and never a word   *)
(* that another reader took meanwhile (pipeHandler.c:372-376, 481), in a   *)
(* program that writes no zeros, so that the two can be told apart.        *)
THEOREM NonBlockingReads ==
  ASSUME \A p \in Programs : NamesHaveOneOwner(p) /\ WritesNoZero(p)
  PROVE  Spec /\ []ShowsNoRing => []NonBlockingIsAllOrNothing
<1>1. IInv /\ NInv /\ SInv /\ RingsAgree /\ ZInv /\ [Next]_vars => ZInv'
  <2>1. ASSUME IInv, NInv, SInv, RingsAgree, ZInv, NEW t \in Threads, Step(t)
        PROVE  ZInv'
    <3>1. WritesNoZero(program)
      BY <2>1 DEF IInv, RegisteredStays
    <3> QED
      BY <2>1, <3>1, AnswersStep, NoZeroStep DEF ZInv
  <2>2. ASSUME ZInv, UNCHANGED vars PROVE ZInv'
    <3>1. UNCHANGED <<pipes, pc, call, ptr, words, left>>
      BY <2>2 DEF vars
    <3>2. AnswersAtOnce'
      BY <2>2, <3>1 DEF ZInv, AnswersAtOnce, NonBlocking
    <3>3. NoZeroHeld'
      BY <2>2, <3>1 DEF ZInv, NoZeroHeld, Contents, Slot, is_lifo_mode
    <3> QED
      BY <3>2, <3>3 DEF ZInv
  <2> QED
    BY <2>1, <2>2 DEF Next, Ended
<1>2. ZInv => NonBlockingIsAllOrNothing
  BY DEF ZInv, AnswersAtOnce, NonBlocking, NonBlockingIsAllOrNothing
<1>3. \A p \in Programs : NamesHaveOneOwner(p)
  OBVIOUS
<1> QED
  BY <1>1, <1>2, <1>3, NamesInvariance, SignalsInvariance, RingsStayInStep, InitZInv, PTL
     DEF Spec
=============================================================================
