----------------------------- MODULE VhpiBridge -----------------------------
(***************************************************************************)
(* The bridge between the threads of a C test-bench and a VHDL simulator:  *)
(* Vhpi.c in the simulator, SocketLib.c and SockPipes.c in the threads,    *)
(* and the processes of the test bench that vcSystem.cpp prints, one for   *)
(* each pipe and each module.  The simulator is one thread.  In each cycle *)
(* it takes in the requests that have arrived and answers those that are   *)
(* finished (Vhpi_Listen, Vhpi_Send), reads what the test-bench asks of    *)
(* each pipe and module (Vhpi_Get_Port_Value), and at the rising edge      *)
(* reports what the hardware did (Vhpi_Set_Port_Value).                    *)
(***************************************************************************)
EXTENDS Naturals, Sequences, FiniteSets, SequencesExt

CONSTANTS
  Clients,                    \* the threads
  InPipes, OutPipes, Modules, \* names: the hardware reads, writes, is called
  Word, Zero,
  Payloads,                   \* the words of the threads' writes and calls
  Lengths,                    \* how many words their burst reads ask for
  MaxBuf                      \* MAX_BUF_SIZE in words; a header is one word
CONSTANT Nothing

ASSUME BridgeAssumption ==
  /\ Zero \in Word
  /\ Payloads \subseteq Seq(Word) \ {<<>>}
  /\ Lengths \subseteq Nat \ {0}
  /\ MaxBuf \in Nat \ {0}

VARIABLES
  request,       \* per thread: what it waits for, or Nothing
  pending,       \* threads that connected and are not accepted yet
  sent,          \* threads whose message is on its way
  phase,         \* "falling": listen and send, "get", "rising"
  new_sock,      \* the thread Vhpi_Listen waits for, or Nothing
  new_jobs, active_jobs, finished_jobs,
  wires,         \* per pipe: request and data signals of the hardware
  started,       \* per module: the argument it runs with, or <<>>
  answer,        \* per thread: the last answer
  moved          \* what the hardware moved for each thread's request

clients == <<request, pending, sent>>
jobs == <<new_jobs, active_jobs, finished_jobs>>
vars == <<clients, phase, new_sock, jobs, wires, started, answer, moved>>

Pipes == InPipes \union OutPipes
Names == Pipes \union Modules

Quiet == [req |-> FALSE, data |-> Zero]

Init ==
  /\ request = [c \in Clients |-> Nothing]
  /\ pending = <<>>
  /\ sent = {}
  /\ phase = "falling"
  /\ new_sock = Nothing
  /\ new_jobs = <<>> /\ active_jobs = <<>> /\ finished_jobs = <<>>
  /\ wires = [n \in Pipes |-> Quiet]
  /\ started = [m \in Modules |-> <<>>]
  /\ answer = [c \in Clients |-> <<>>]
  /\ moved = [c \in Clients |-> <<>>]

----------------------------------------------------------------------------
(* A thread: send_packet_and_wait_for_response under the macros of         *)
(* SockPipes.c.  A burst longer than a buffer is dropped with a message.   *)
Call(name, op, burst, words) ==
  [name |-> name, op |-> op, burst |-> burst, size |-> Len(words), words |-> words]

One == {s \in Payloads : Len(s) = 1}
Sendable == {s \in Payloads : Len(s) <= MaxBuf}
Blank(k) == [i \in 1 .. k |-> Zero]

Requests ==
       {Call(n, "write", FALSE, s) : n \in InPipes, s \in One}
  \union {Call(n, "write", TRUE, s) : n \in InPipes, s \in Sendable}
  \union {Call(n, "read", FALSE, Blank(1)) : n \in OutPipes}
  \union {Call(n, "read", TRUE, Blank(k)) : n \in OutPipes, k \in Lengths \cap (1 .. MaxBuf)}
  \union {Call(n, "call", FALSE, s) : n \in Modules, s \in One}

Connect(c) ==
  /\ request[c] = Nothing
  /\ \E r \in Requests : request' = [request EXCEPT ![c] = r]
  /\ pending' = Append(pending, c)
  /\ answer' = [answer EXCEPT ![c] = <<>>]   \* one buffer for both directions
  /\ UNCHANGED <<sent, phase, new_sock, jobs, wires, started, moved>>

Send(c) ==
  /\ request[c] # Nothing
  /\ Contains(pending, c) \/ new_sock = c
  /\ c \notin sent
  /\ sent' = sent \union {c}
  /\ UNCHANGED <<request, pending, phase, new_sock, jobs, wires, started, answer, moved>>

----------------------------------------------------------------------------
(* Vhpi_Listen accepts one thread after another and waits for its message. *)
Accept ==
  /\ phase = "falling" /\ new_sock = Nothing
  /\ pending # <<>>
  /\ new_sock' = Head(pending)
  /\ pending' = Tail(pending)
  /\ UNCHANGED <<request, sent, phase, jobs, wires, started, answer, moved>>

(* What arrives of the payload: receive_string calls recv once, with a     *)
(* buffer of MAX_BUF_SIZE, and the header comes first.                     *)
Arrived(r) == IF r.op = "write" /\ r.burst /\ r.size + 1 > MaxBuf
              THEN MaxBuf - 1 ELSE r.size

Job(c, r) ==
  [client |-> c, name |-> r.name, op |-> r.op, burst |-> r.burst, size |-> r.size,
   words |-> r.words, req |-> TRUE, ack |-> FALSE, active_word_count |-> 0]

(* Append_To_JobList; a burst write whose payload has not the right length *)
(* is reported and forgotten.                                              *)
Append_To_JobList(c, r) ==
  IF Arrived(r) # r.size THEN new_jobs ELSE Append(new_jobs, Job(c, r))

Receive ==
  /\ new_sock \in sent
  /\ sent' = sent \ {new_sock}
  /\ new_jobs' = Append_To_JobList(new_sock, request[new_sock])
  /\ new_sock' = Nothing
  /\ UNCHANGED <<request, pending, phase, active_jobs, finished_jobs, wires, started,
                 answer, moved>>

Done(j) == j.ack /\ (j.burst => j.active_word_count = j.size)

(* Vhpi_Send, once nobody waits to be accepted: what is finished leaves    *)
(* the active jobs, and each finished job whose socket takes data          *)
(* (can_write_to_socket) is answered, closed and deleted.                  *)
Answered(j) == IF j.op = "write" THEN <<>> ELSE j.words

Unanswered_dropped(finished, writable) == <<>>

Unanswered(finished, writable) ==
  SelectSeq(finished, LAMBDA j : j.client \notin writable)

Vhpi_Send(writable) ==
  LET finished == finished_jobs \o SelectSeq(active_jobs, Done)
      sending  == {finished[i] : i \in {k \in DOMAIN finished : finished[k].client \in writable}}
      Of(c)    == CHOOSE j \in sending : j.client = c
      served   == {j.client : j \in sending}
  IN /\ phase = "falling" /\ new_sock = Nothing /\ pending = <<>>
     /\ active_jobs' = SelectSeq(active_jobs, LAMBDA j : ~ Done(j))
     /\ finished_jobs' = Unanswered(finished, writable)
     /\ answer' = [c \in Clients |-> IF c \in served THEN Answered(Of(c)) ELSE answer[c]]
     /\ request' = [c \in Clients |-> IF c \in served THEN Nothing ELSE request[c]]
     /\ moved' = [c \in Clients |-> IF c \in served THEN <<>> ELSE moved[c]]
     /\ phase' = "get"
     /\ UNCHANGED <<pending, sent, new_sock, new_jobs, wires, started>>

----------------------------------------------------------------------------
(* Vhpi_Get_Port_Value: the first active job of that name, or else the     *)
(* first new one, which becomes active.                                    *)
Named(list, n) == SelectSeq(list, LAMBDA j : j.name = n)

Promoted_unconditionally(n) ==
  IF Named(new_jobs, n) = <<>> THEN <<>> ELSE <<Head(Named(new_jobs, n))>>

Promoted(n) ==
  IF Named(active_jobs, n) # <<>> \/ Named(new_jobs, n) = <<>>
  THEN <<>> ELSE <<Head(Named(new_jobs, n))>>

Without(list, some) == SelectSeq(list, LAMBDA j : j \notin some)

(* The order of the processes does not matter: they look at jobs of        *)
(* different names.                                                        *)
Asking == {n \in Names : n \in Modules => started[n] = <<>>}

Current(n) == Named(active_jobs \o Promoted(n), n)

PortData(j) == IF ~ j.burst THEN j.words[1]
               ELSE IF j.active_word_count < j.size THEN j.words[j.active_word_count + 1]
               ELSE Zero

ReadPorts ==
  LET promoted == {Promoted(n)[1] : n \in {m \in Asking : Promoted(m) # <<>>}}
      Pulse(j) == IF j.op = "call" /\ j.name \in Asking THEN [j EXCEPT !.req = FALSE] ELSE j
      active   == active_jobs \o SelectSeq(new_jobs, LAMBDA j : j \in promoted)
  IN /\ phase = "get"
     /\ new_jobs' = Without(new_jobs, promoted)
     /\ active_jobs' = [i \in DOMAIN active |-> Pulse(active[i])]
     /\ wires' = [n \in Pipes |->
          IF Current(n) = <<>> THEN Quiet
          ELSE [req |-> Head(Current(n)).req, data |-> PortData(Head(Current(n)))]]
     /\ started' = [m \in Modules |->
          IF m \in Asking /\ Current(m) # <<>> /\ Head(Current(m)).req
          THEN <<PortData(Head(Current(m)))>> ELSE started[m]]
     /\ phase' = "rising"
     /\ UNCHANGED <<clients, new_sock, finished_jobs, answer, moved>>

----------------------------------------------------------------------------
(* Vhpi_Set_Port_Value, first for the acknowledge, then for the data, on   *)
(* every active job of the name.                                           *)
SetAck(j, ack) ==
  LET count == IF ack /\ j.burst THEN j.active_word_count + 1 ELSE j.active_word_count
      done  == ack /\ (j.burst => count = j.size)
  IN [j EXCEPT !.ack = ack, !.active_word_count = count, !.req = @ /\ ~ done]

SetData(j, w) ==
  IF ~ j.burst THEN [j EXCEPT !.words = <<w>>]
  ELSE IF j.ack /\ j.active_word_count \in DOMAIN j.words
       THEN [j EXCEPT !.words[j.active_word_count] = w]
  ELSE j

(* Writes report no data.                                                  *)
Vhpi_Set_Port_Value(j, ack, w) ==
  IF j.name \in InPipes THEN SetAck(j, ack) ELSE SetData(SetAck(j, ack), w)

(* The hardware acknowledges a pipe, asked or not, when it has room or a   *)
(* word; a word moves when it was asked.  A module ends when it likes, and *)
(* hands back its argument.                                                *)
Moves(acks) == {n \in Pipes : n \in acks /\ wires[n].req} \union (acks \cap Modules)

Mover(n) == Head(Named(active_jobs, n)).client

RisingEdge(acks, data) ==
  LET On(n) == IF n \in Modules THEN started[n][1]
               ELSE IF n \in InPipes THEN wires[n].data ELSE data[n]
      (* A module's process reports only when the module has ended.        *)
      Reports(j) == j.name \in Modules => j.name \in acks
      After(j) == IF ~ Reports(j) THEN j
                  ELSE Vhpi_Set_Port_Value(j, j.name \in acks, On(j.name))
  IN /\ phase = "rising"
     /\ active_jobs' = [i \in DOMAIN active_jobs |-> After(active_jobs[i])]
     /\ moved' = [c \in Clients |->
          LET for == {n \in Moves(acks) : Mover(n) = c}
          IN IF for = {} THEN moved[c] ELSE Append(moved[c], On(CHOOSE n \in for : TRUE))]
     /\ started' = [m \in Modules |-> IF m \in acks THEN <<>> ELSE started[m]]
     /\ phase' = "falling"
     /\ UNCHANGED <<clients, new_sock, new_jobs, finished_jobs, wires, answer>>

Running == {m \in Modules : started[m] # <<>>}

Clock(acks) ==
  \E data \in [OutPipes -> Word] :
    (\A p \in OutPipes \ acks : data[p] = Zero) /\ RisingEdge(acks, data)

----------------------------------------------------------------------------
Simulator ==
  \/ Accept
  \/ Receive
  \/ \E writable \in SUBSET Clients : Vhpi_Send(writable)
  \/ ReadPorts
  \/ \E acks \in SUBSET (Pipes \union Running) : Clock(acks)

Next == (\E c \in Clients : Connect(c) \/ Send(c)) \/ Simulator

Spec == Init /\ [][Next]_vars

(* The simulator runs on, threads that connected send their message, no    *)
(* socket is blocked for ever, and the hardware serves who asks it.        *)
Fairness ==
  /\ WF_vars(Simulator)
  /\ \A c \in Clients : WF_vars(Send(c))
  /\ \A c \in Clients :
       SF_vars(\E writable \in SUBSET Clients : c \in writable /\ Vhpi_Send(writable))
  /\ \A n \in Names :
       SF_vars(\E acks \in SUBSET (Pipes \union Running) : n \in acks /\ Clock(acks))

FairSpec == Spec /\ Fairness

----------------------------------------------------------------------------
(* The jobs of a name the hardware is not through with.                    *)
line == [n \in Names |->
  LET open == SelectSeq(active_jobs \o new_jobs, LAMBDA j : j.name = n /\ Len(moved[j.client]) < j.size)
  IN [i \in DOMAIN open |-> open[i].client]]

B == INSTANCE AbstractBridge

(* Requests for one pipe or module are served one by one in the order in   *)
(* which they came in, bursts are whole, and each thread gets the answer   *)
(* to its own request (SockPipes.c:143-149, Vhpi.c:907-960).               *)
ServesInOrder == B!Spec

(* A thread that has sent its request gets an answer and its socket is     *)
(* closed ("will establish a connection, send the packet and block till a  *)
(* response is obtained", SocketLib.c:471-473).                            *)
EveryRequestIsAnswered ==
  \A c \in Clients : request[c] # Nothing ~> request[c] = Nothing
=============================================================================
