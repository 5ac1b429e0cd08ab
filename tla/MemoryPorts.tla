---------------------------- MODULE MemoryPorts ----------------------------
(***************************************************************************)
(* The request ports of a memory space and the operators behind them,      *)
(* which hold a request up until it is accepted.  What is accepted and     *)
(* what is handed back in a cycle is entered in AbstractMemory's account.  *)
(***************************************************************************)
EXTENDS Integers, Sequences, FiniteSets

CONSTANTS LoadPorts, StorePorts, \* 0 .. num_loads - 1, 0 .. num_stores - 1
          Addr, Word, Zero,
          MaxRequests,           \* bound: requests made in a behaviour; 0: none
          MaxStall               \* bound: cycles in a row in which a result waits

ASSUME PortsAssumption ==
  /\ \E n \in 0 .. 63 : LoadPorts = 0 .. n
  /\ \E n \in 0 .. 63 : StorePorts = 0 .. n
  /\ MaxRequests \in Nat

VARIABLES
  lr_in, sr_in,      \* per port: the request it holds up, or <<>>
  made, stall,       \* what the bounds count
  possible, loads, stores, taken, done   \* AbstractMemory's account

M == INSTANCE AbstractMemory

ports == <<lr_in, sr_in, made, M!memory>>

PortsInit ==
  /\ lr_in = [p \in LoadPorts |-> <<>>]
  /\ sr_in = [p \in StorePorts |-> <<>>]
  /\ made = 0
  /\ M!Init

Nobody == <<>>
Requests(words) == {<<r>> : r \in [addr : Addr, data : words]}

The(op, p, in) == [op |-> op, port |-> p, addr |-> in[p][1].addr, data |-> in[p][1].data]

Asking(in) == Cardinality({p \in DOMAIN in : in[p] # Nobody})

Held(in, ack) == {p \in DOMAIN in : in[p] # Nobody /\ p \notin ack}

(* Who was not acknowledged goes on; the others may ask again.             *)
Requesters(lr_ack, sr_ack) ==
  /\ lr_in' \in [LoadPorts -> {Nobody} \union Requests({Zero})]
  /\ \A p \in Held(lr_in, lr_ack) : lr_in'[p] = lr_in[p]
  /\ sr_in' \in [StorePorts -> {Nobody} \union Requests(Word)]
  /\ \A p \in Held(sr_in, sr_ack) : sr_in'[p] = sr_in[p]
  /\ made' = IF MaxRequests = 0 THEN 0
             ELSE made + Asking(lr_in') + Asking(sr_in')
                  - Cardinality(Held(lr_in, lr_ack)) - Cardinality(Held(sr_in, sr_ack))
  /\ made' <= MaxRequests

(* One cycle, as the requesters see it.                                    *)
Cycle(lr_ack, sr_ack, completions) ==
  /\ Requesters(lr_ack, sr_ack)
  /\ M!Account({The("load", p, lr_in) : p \in lr_ack}
                 \union {The("store", p, sr_in) : p \in sr_ack},
               completions)

----------------------------------------------------------------------------
(* Loads return what was stored last before they were accepted, whatever   *)
(* waits in the memory meanwhile, and each port gets its completions in    *)
(* order ("accesses to the same location will take place in the order of   *)
(* the time-stamp assigned", memory_subsystem.vhd:41-44).                  *)
IsAMemory == M!Spec

(* Every request is accepted, and completed, at last.                      *)
Completed(op, p) == \E c \in done : c.op = op /\ c.port = p
EveryAccessCompletes ==
  /\ \A p \in LoadPorts : lr_in[p] # <<>> ~> Completed("load", p)
  /\ \A p \in StorePorts : sr_in[p] # <<>> ~> Completed("store", p)
=============================================================================
