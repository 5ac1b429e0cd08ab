-------------------------- MODULE NobodyLeftBehind --------------------------
(***************************************************************************)
(* The fair arbiter of everything several operators share in the generated *)
(* hardware (NobodyLeftBehind.vhd, with the PriorityEncode of              *)
(* OutputPortLevel.vhd and SplitCallArbiter.vhd behind it), and a shared   *)
(* resource that may or may not acknowledge in any cycle.  A requester     *)
(* holds its request until it is acknowledged.                             *)
(***************************************************************************)
EXTENDS Arbitration

CONSTANT NumReqs    \* generic num_reqs

ASSUME NumReqsAssumption == NumReqs \in Nat \ {0}

Requesters == 0 .. NumReqs - 1

VARIABLES reqIn,            \* who requests
          reqIn_register,   \* who was left over from the current round
          victim,           \* one requester, whose waiting is watched
          overtaken         \* how often each other one was served meanwhile

(* The requester the shared resource sees, and who is acknowledged.        *)
Active(req, register) == PriorityEncode(reqOut(NumReqs, req, register))
Acked(req, register, oack) == IF oack THEN Active(req, register) ELSE {}

----------------------------------------------------------------------------
(* The arbiter with requesters that hold their requests, over a resource   *)
(* that may or may not acknowledge (oack) in any cycle.                    *)

vars == <<reqIn, reqIn_register, victim, overtaken>>

NobodyYet == [j \in Requesters |-> 0]

Init ==
  /\ reqIn \in SUBSET Requesters
  /\ reqIn_register = {}
  /\ victim \in Requesters
  /\ overtaken = NobodyYet

(* An acknowledged requester may ask again at once; others may begin to.   *)
NextRequests(req, acks) == {r \in SUBSET Requesters : req \ acks \subseteq r}

Tick(oack) ==
  LET acks == Acked(reqIn, reqIn_register, oack) IN
    /\ reqIn' \in NextRequests(reqIn, acks)
    /\ reqIn_register' = next_reqIn_register(NumReqs, reqIn, reqIn_register, acks)
    /\ overtaken' = IF victim \in reqIn /\ victim \notin acks
                    THEN [j \in Requesters |->
                            overtaken[j] + (IF j \in acks THEN 1 ELSE 0)]
                    ELSE NobodyYet
    /\ UNCHANGED victim

Next == \E oack \in BOOLEAN : Tick(oack)

(* The shared resource does not refuse: assumed to happen again and again. *)
Serve == Tick(TRUE)

Spec == Init /\ [][Next]_vars

----------------------------------------------------------------------------
TypeOK ==
  /\ reqIn \subseteq Requesters
  /\ reqIn_register \subseteq Requesters
  /\ victim \in Requesters
  /\ overtaken \in [Requesters -> Nat]

(* What the register remembers is still being requested: no requester is   *)
(* acknowledged for a request it does not make.                            *)
RegisterIsRequested == reqIn_register \subseteq reqIn

(* "Nobody left behind": while a requester waits, any other one is served  *)
(* at most twice, once in the round that was under way when it began to    *)
(* wait and once in its own round, however long the resource takes and     *)
(* however the fixed priority ranks them (NobodyLeftBehind.vhd:84-108).    *)
BoundedOvertaking == \A j \in Requesters : overtaken[j] <= 2

(* A request reaches the shared resource at last, and stays there until it *)
(* is acknowledged ("make sure that there is no starvation").              *)
NoStarvation ==
  \A i \in Requesters : i \in reqIn ~> i \in Active(reqIn, reqIn_register)
=============================================================================
