--------------------------- MODULE AbstractBridge ---------------------------
(***************************************************************************)
(* What the bridge between test-bench and simulated hardware promises the  *)
(* test-bench: each pipe and each module serves one request at a time, in  *)
(* the order in which the requests came in; a burst is not interrupted;    *)
(* whoever asked gets the answer to its own request.                       *)
(***************************************************************************)
EXTENDS Naturals, Sequences

CONSTANTS Clients, Names, Word, Nothing

VARIABLES
  request,  \* per client: the request it waits for, or Nothing
  line,     \* per name: the clients whose requests wait or are served
  moved,    \* per client: the words moved for its request so far
  answer    \* per client: the last answer it got

bridge == <<request, line, moved, answer>>

Init ==
  /\ request = [c \in Clients |-> Nothing]
  /\ line = [n \in Names |-> <<>>]
  /\ moved = [c \in Clients |-> <<>>]
  /\ answer = [c \in Clients |-> <<>>]

Ask(c) ==
  /\ request[c] = Nothing
  /\ request'[c] # Nothing
  /\ request' = [request EXCEPT ![c] = request'[c]]
  /\ answer' = [answer EXCEPT ![c] = <<>>]
  /\ UNCHANGED <<line, moved>>

Queue(c) ==
  /\ request[c] # Nothing
  /\ \A n \in Names : \A i \in DOMAIN line[n] : line[n][i] # c
  /\ line' = [line EXCEPT ![request[c].name] = Append(@, c)]
  /\ UNCHANGED <<request, moved, answer>>

(* The words of a write come from its request; a module hands back the     *)
(* argument it was called with.                                            *)
Right(c, w) ==
  request[c].op # "read" => w = request[c].words[Len(moved[c]) + 1]

Complete(c, words) == Len(words) = request[c].size

(* One clock edge moves at most a word through each pipe or module.        *)
Edge ==
  \E T \in SUBSET {n \in Names : line[n] # <<>>} :
    LET served == {Head(line[n]) : n \in T}
    IN /\ T # {}
       /\ \A c \in served : \E w \in Word :
            Right(c, w) /\ moved'[c] = Append(moved[c], w)
       /\ moved' = [c \in Clients |-> IF c \in served THEN moved'[c] ELSE moved[c]]
       /\ line' = [n \in Names |->
            IF n \in T /\ Complete(Head(line[n]), moved'[Head(line[n])])
            THEN Tail(line[n]) ELSE line[n]]
       /\ UNCHANGED <<request, answer>>

(* Any number of finished requests are answered together.                  *)
Answer ==
  \E A \in SUBSET {c \in Clients : request[c] # Nothing} :
    /\ A # {}
    /\ \A c \in A : Complete(c, moved[c])
    /\ answer' = [c \in Clients |->
         IF c \notin A THEN answer[c]
         ELSE IF request[c].op = "write" THEN <<>> ELSE moved[c]]
    /\ request' = [c \in Clients |-> IF c \in A THEN Nothing ELSE request[c]]
    /\ moved' = [c \in Clients |-> IF c \in A THEN <<>> ELSE moved[c]]
    /\ UNCHANGED line

Next == (\E c \in Clients : Ask(c) \/ Queue(c)) \/ Edge \/ Answer

Spec == Init /\ [][Next]_bridge
=============================================================================
