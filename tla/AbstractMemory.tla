--------------------------- MODULE AbstractMemory ---------------------------
(***************************************************************************)
(* What a memory space promises to the modules that share it: an access    *)
(* takes place when its request is accepted.  A load returns the word that *)
(* was stored last before it; if a store to the same address is accepted   *)
(* in the very cycle of the load, either word will do, and of two stores   *)
(* in one cycle either may be the later one ("tie breaks will be random",  *)
(* memory_subsystem.vhd:43).  The requests of one port complete in the     *)
(* order in which they were accepted.                                      *)
(***************************************************************************)
EXTENDS Integers, Sequences, FiniteSets

CONSTANTS LoadPorts, StorePorts, Addr, Word, Zero

VARIABLES
  possible,  \* the words each address may hold
  loads,     \* per port, oldest first: the words each open load may return
  stores,    \* per port: how many stores are open
  taken,     \* the requests accepted in the last cycle
  done       \* the completions handed over in the last cycle

memory == <<possible, loads, stores, taken, done>>

Nothing == {}

Init ==
  /\ possible = [a \in Addr |-> {Zero}]
  /\ loads = [p \in LoadPorts |-> <<>>]
  /\ stores = [p \in StorePorts |-> 0]
  /\ taken = Nothing
  /\ done = Nothing

(* A request is [op, port, addr, data]; a completion [op, port, data].     *)
Written(requests, a) ==
  {r.data : r \in {q \in requests : q.op = "store" /\ q.addr = a}}

Permitted(requests, a) == possible[a] \union Written(requests, a)

(* The loads of a port after a cycle in which one may have been accepted   *)
(* and the oldest one may have completed.                                  *)
After(p, requests, completions) ==
  LET left == IF \E c \in completions : c.op = "load" /\ c.port = p
              THEN Tail(loads[p]) ELSE loads[p]
      new  == {r \in requests : r.op = "load" /\ r.port = p}
  IN IF new = {} THEN left
     ELSE Append(left, Permitted(requests, (CHOOSE r \in new : TRUE).addr))

Count(set, op, p) == Cardinality({x \in set : x.op = op /\ x.port = p})

(* The bookkeeping of one cycle.                                           *)
Account(requests, completions) ==
  /\ possible' = [a \in Addr |-> IF Written(requests, a) = {} THEN possible[a]
                                 ELSE Written(requests, a)]
  /\ loads' = [p \in LoadPorts |-> After(p, requests, completions)]
  /\ stores' = [p \in StorePorts |-> stores[p] + Count(requests, "store", p)
                                               - Count(completions, "store", p)]
  /\ taken' = requests
  /\ done' = completions

Honest(completions) ==
  \A c \in completions :
    IF c.op = "load"
    THEN loads[c.port] # <<>> /\ c.data \in Head(loads[c.port])
    ELSE stores[c.port] > 0

Next == Honest(done') /\ Account(taken', done')

Spec == Init /\ [][Next]_memory
=============================================================================
