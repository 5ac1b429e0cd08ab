---------------------------- MODULE Arbitration ----------------------------
(***************************************************************************)
(* The combinational logic of the arbiters in the generated hardware.  A   *)
(* vector of requests is the set of the requesters whose bit is '1'.       *)
(*                                                                         *)
(* NobodyLeftBehind.vhd remembers the requests of a round in a register;   *)
(* until every one of them has been acknowledged no newer request is let   *)
(* through.                                                                *)
(***************************************************************************)
EXTENDS Integers

reqOut_unfair(num_reqs, req, register) == req

(* With a single requester there is nothing to remember.                   *)
reqOut(num_reqs, req, register) ==
  IF num_reqs = 1 \/ register = {} THEN req ELSE register

next_reqIn_register(num_reqs, req, register, ackIn) ==
  IF num_reqs = 1 THEN register ELSE reqOut(num_reqs, req, register) \ ackIn

PriorityEncode_uncontended(x) == {i \in x : x = {i}}

(* The leftmost '1' of a vector (num_reqs-1 downto 0): the highest index.  *)
PriorityEncode(x) == {i \in x : \A j \in x : j <= i}
=============================================================================
