------------------------------ MODULE ForkBlock ------------------------------
(***************************************************************************)
(* The clean-up of a fork block by the vC library (vcControlPath.cpp): a   *)
(* dependency u -> v is an arc, a reenable dependency v => u a marked arc, *)
(* which starts with a token and has a delay.  Arcs that a longer path     *)
(* implies are removed, in an order that nobody fixed.                     *)
(*                                                                         *)
(* Transitions are numbered in an order the arcs agree with, a block being *)
(* acyclic (Check_Structure).                                              *)
(***************************************************************************)
EXTENDS Integers, FiniteSets, FiniteSetsExt

CONSTANTS Transitions,  \* 1 .. n
          Blocks        \* as written: [arcs, marked : sets of pairs, delay : [marked -> {0, 1}]]

ASSUME TransitionsAssumption ==
  IsFiniteSet(Transitions) /\ Transitions = 1 .. Cardinality(Transitions)
ASSUME BlocksAssumption ==
  \A b \in Blocks : /\ \A a \in b.arcs : a \in Transitions \X Transitions /\ a[1] < a[2]
                    /\ b.marked \subseteq Transitions \X Transitions
                    /\ b.delay \in [b.marked -> {0, 1}]

VARIABLES written, arcs, marked, pass
bvars == <<written, arcs, marked, pass>>

(* The longest path from v to w, 0 where there is none, over the arcs A.   *)
Longest(A) ==
  LET distance[p \in Transitions \X Transitions] ==
        Max({0} \union {distance[<<p[1], u>>] + 1 :
              u \in {x \in Transitions : /\ <<x, p[2]>> \in A
                                         /\ x = p[1] \/ distance[<<p[1], x>>] > 0}})
  IN distance

Redundant(A) == LET distance == Longest(A) IN {a \in A : distance[a] > 1}

(* v => u is implied by a reenable arc w => u that v comes before.         *)
Dominated_backwards(a, b, distance) ==
  /\ b[2] = a[2]
  /\ distance[b[1], a[1]] > 0
  /\ written.delay[a] <= written.delay[b]
Dominated(a, b, distance) ==
  /\ b[2] = a[2]
  /\ distance[a[1], b[1]] > 0
  /\ written.delay[a] <= written.delay[b]

(* u => x is implied by u => y where y comes before x.                     *)
Droppable(a, distance) ==
  \E b \in marked : b[1] = a[1] /\ distance[b[2], a[2]] > 0

FBInit ==
  /\ written \in Blocks
  /\ arcs = written.arcs /\ marked = written.marked /\ pass = "pairs"

(* The forward arcs the depth-first search found: which ones it finds      *)
(* depends on the order of its successors.                                 *)
RemovePairs ==
  /\ pass = "pairs" /\ pass' = "reenable"
  /\ \E found \in SUBSET Redundant(arcs) : arcs' = arcs \ found
  /\ UNCHANGED <<written, marked>>

RemoveReenables ==
  /\ pass = "reenable" /\ pass' = "pass2"
  /\ LET distance == Longest(arcs)
     IN marked' = {a \in marked : ~\E b \in marked : Dominated(a, b, distance)}
  /\ UNCHANGED <<written, arcs>>

(* Pass 2 looks for one arc to drop at every transition, and then stops.   *)
RemoveReenablesPass2 ==
  /\ pass = "pass2" /\ pass' = "arcs"
  /\ LET distance == Longest(arcs)
         found(u) == {a \in marked : a[1] = u /\ Droppable(a, distance)}
     IN \E dropped \in SUBSET marked :
          /\ \A u \in Transitions :
               LET here == {a \in dropped : a[1] = u}
               IN here \subseteq found(u) /\ Cardinality(here) = Min({1, Cardinality(found(u))})
          /\ marked' = marked \ dropped
  /\ UNCHANGED <<written, arcs>>

(* The loop over the successors of u goes on to the next index where it    *)
(* has removed one: the successor after each removed one is not looked at. *)
Overlooks(u, kept, removed) ==
  Cardinality({a \in kept : a[1] = u}) <= Cardinality({a \in removed : a[1] = u})

RemoveArcs ==
  /\ pass = "arcs" /\ pass' = "done"
  /\ LET redundant == Redundant(arcs)
     IN \E removed \in SUBSET redundant :
          /\ \A u \in Transitions : Overlooks(u, redundant \ removed, removed)
          /\ arcs' = arcs \ removed
  /\ UNCHANGED <<written, marked>>

FBNext == RemovePairs \/ RemoveReenables \/ RemoveReenablesPass2 \/ RemoveArcs

FBSpec == FBInit /\ [][FBNext]_bvars

----------------------------------------------------------------------------
(* Whatever was removed and in whatever order: a transition still waits    *)
(* for each transition it was written to wait for, over a path with no     *)
(* more tokens than the arc had (vcControlPath.cpp:2490-2573, 3037-3175).  *)
NoDependencyIsLost ==
  LET distance == Longest(arcs)
      Before(v, w) == v = w \/ distance[v, w] > 0
  IN /\ \A a \in written.arcs : distance[a] > 0
     /\ \A a \in written.marked :
          \E b \in marked : Before(a[1], b[1]) /\ Before(b[2], a[2])
=============================================================================
