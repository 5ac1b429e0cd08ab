--------------------------- MODULE GroupReduction ---------------------------
(***************************************************************************)
(* The reduction of a control path by the vC library                       *)
(* (vcControlPathReduce.cpp): every element is a group of its own at       *)
(* first; dead groups are deleted, each nucleus absorbs the groups that    *)
(* follow it alone, groups left over join their only predecessor, and      *)
(* trees of pure transitions collapse.  Sets of pointers are walked in an  *)
(* order nobody fixed: what comes next is any of them.                     *)
(*                                                                         *)
(* What a control path does is what Print_VHDL makes of its groups: how    *)
(* often each fires, given how often every source of it fired.             *)
(***************************************************************************)
EXTENDS Integers, FiniteSets, FiniteSetsExt

CONSTANTS
  Paths,  \* control paths: [kind : of each element 1 .. n, fn : the phi sequencer
          \* or terminator it is bound to or 0, arcs, marked : sets of pairs of
          \* elements, body : the elements of a pipelined body]
  Waves   \* the sources fire so often at most

TransitionKinds == {"plain", "req", "ack", "delay", "dead", "to_fn", "from_fn"}

(* What is written: every element but the entry follows one before it, and *)
(* no dead link alone; what only dead links lead to is in no loop.  A delay*)
(* follows one operation (Aa2VCWrite.cpp:572-597), and a pipelined body has*)
(* transitions only (vc.g:664-672, 691-703).                               *)
Alive(p, live, e) ==
  LET P == {a[1] : a \in {b \in p.arcs : b[2] = e}}
  IN /\ e \in live => /\ p.kind[e] # "dead"
                      /\ P # {} => \E q \in P \cap live : q < e
     /\ e \notin live => p.kind[e] # "delay" /\ \A q \in P : q < e
     /\ p.kind[e] = "delay" => /\ Cardinality(P) = 1
                               /\ \A a \in p.marked : a[2] # e
IsControlPath(p) ==
  LET n == Cardinality(DOMAIN p.kind)
  IN
    /\ n \in Nat \ {0} /\ DOMAIN p.kind = 1 .. n /\ p.fn \in [1 .. n -> Nat]
    /\ p.arcs \subseteq (1 .. n) \X (1 .. n) /\ p.marked \subseteq (1 .. n) \X (1 .. n)
    /\ \A e \in 1 .. n : /\ p.kind[e] \in TransitionKinds \cup {"place"}
                         /\ p.fn[e] # 0 => p.kind[e] \in {"to_fn", "from_fn"}
                         /\ e \in p.body => p.kind[e] # "place"
    /\ \E live \in SUBSET (1 .. n) : \A e \in 1 .. n : Alive(p, live, e)

ASSUME PathsAssumption == \A p \in Paths : IsControlPath(p)

VARIABLES path, group, step, nuclei, absorbed, nucleus, worklist
gvars == <<path, group, step, nuclei, absorbed, nucleus, worklist>>

Gone == 0
Elements == DOMAIN path.kind

(* Groups, as a map from elements.  Connect_Groups and Merge_Groups keep   *)
(* the arcs between groups those between their elements, without loops.    *)
Alone == [e \in Elements |-> e]
Groups(of) == {of[e] : e \in Elements} \ {Gone}
Members(of, g) == {e \in Elements : of[e] = g}
Arcs(of, A) ==
  {a \in {<<of[b[1]], of[b[2]]>> : b \in A} : Gone \notin {a[1], a[2]} /\ a[1] # a[2]}
Preds(of, g) == {a[1] : a \in {b \in Arcs(of, path.arcs) : b[2] = g}}
Succs(of, g) == {a[2] : a \in {b \in Arcs(of, path.arcs) : b[1] = g}}
MarkedPreds(of, g) == {a[1] : a \in {b \in Arcs(of, path.marked) : b[2] = g}}
MarkedSuccs(of, g) == {a[2] : a \in {b \in Arcs(of, path.marked) : b[1] = g}}

(* What is known of a group is what Add_Element saw of its elements, with  *)
(* the arcs they were written with.                                        *)
Has(of, g, kinds) == \E e \in Members(of, g) : path.kind[e] \in kinds
Wide(e, end) == Cardinality({a \in path.arcs : a[end] = e}) > 1
Marked(e, end) == \E a \in path.marked : a[end] = e
is_join(of, g) == \E e \in Members(of, g) :
  path.kind[e] # "place" /\ (Wide(e, 2) \/ Marked(e, 2))
is_fork(of, g) == \E e \in Members(of, g) :
  path.kind[e] # "place" /\ (Wide(e, 1) \/ Marked(e, 1))
is_merge(of, g) == \E e \in Members(of, g) : path.kind[e] = "place" /\ Wide(e, 2)
is_branch(of, g) == \E e \in Members(of, g) : path.kind[e] = "place" /\ Wide(e, 1)
Functions(of, g) == {path.fn[e] : e \in Members(of, g)} \ {0}
in_body(of, g) == Members(of, g) \cap path.body # {}

Is_Pure_Transition_Group(g) ==
  /\ ~Has(group, g, {"place", "req", "ack", "delay", "dead", "to_fn", "from_fn"})
  /\ MarkedPreds(group, g) = {} /\ MarkedSuccs(group, g) = {}
  /\ Cardinality(Succs(group, g)) <= 1

(* Pulled in, a group with a marked predecessor would make the whole wait. *)
Reenabled_never(g) == FALSE
Reenabled(g) == MarkedPreds(group, g) # {}

Can_Potentially_Absorb(w, g) ==
  /\ Cardinality(Functions(group, w) \cup Functions(group, g)) <= 1
  /\ ~Has(group, w, {"to_fn", "delay"})
  /\ ~Has(group, g, {"from_fn", "delay", "ack", "dead"})
  /\ ~Reenabled(g)
  /\ in_body(group, w) = in_body(group, g)
  /\ IF Has(group, w, {"place"}) THEN ~Has(group, g, TransitionKinds)
                                 ELSE ~Has(group, g, {"place"})

Merged(part, whole) == [e \in Elements |-> IF group[e] = part THEN whole ELSE group[e]]

(* All that a depth-first search over some links collects from some groups *)
(* when it goes on to a group once it came to it from each predecessor.    *)
Collected(from, links) ==
  LET after[n \in 0 .. Cardinality(Elements)] ==
        IF n = 0 THEN from
        ELSE LET before == after[n - 1]
             IN before \cup {g \in Groups(group) \ from :
                  /\ Preds(group, g) # {} /\ Preds(group, g) \subseteq before
                  /\ \A p \in Preds(group, g) : <<p, g>> \in links}
  IN after[Cardinality(Elements)]

----------------------------------------------------------------------------
GInit ==
  /\ path \in Paths /\ group = Alone /\ step = "dead"
  /\ nuclei = {} /\ absorbed = {} /\ nucleus = Gone /\ worklist = {}

Eliminate_Dead_Groups ==
  /\ step = "dead" /\ step' = "nuclei"
  /\ LET links == {a \in Arcs(group, path.arcs) : ~Has(group, a[2], {"ack"})}
         dead == Collected({g \in Groups(group) : Has(group, g, {"dead"})}, links)
     IN group' = [e \in Elements |-> IF group[e] \in dead THEN Gone ELSE group[e]]
  /\ UNCHANGED <<path, nuclei, absorbed, nucleus, worklist>>

Identify_Nucleii ==
  /\ step = "nuclei" /\ step' = "absorb"
  /\ nuclei' = {g \in Groups(group) : \/ Preds(group, g) = {}
                                      \/ Reenabled(g)
                                      \/ Has(group, g, {"ack", "from_fn", "delay", "dead"})}
  /\ UNCHANGED <<path, group, absorbed, nucleus, worklist>>

(* The search of Reduce_From_Nucleus: what it visits without absorbing it  *)
(* is a nucleus later on.                                                  *)
Search_From_Nucleus ==
  /\ step = "absorb" /\ worklist = {} /\ nuclei # {}
  /\ \E n \in nuclei :
       LET taken == absorbed \cup {n}
           links == {a \in Arcs(group, path.arcs) :
                       a[2] \notin taken /\ Can_Potentially_Absorb(a[1], a[2])}
           collected == Collected({n}, links)
           visited == (UNION {Succs(group, g) : g \in collected}) \ taken
       IN /\ nucleus' = n /\ absorbed' = taken
          /\ worklist' = collected \ {n}
          /\ nuclei' = (nuclei \cup visited) \ {n}
  /\ UNCHANGED <<path, group, step>>

(* Its last loop: predecessors first, and asking again, since the nucleus  *)
(* grew.                                                                   *)
NextOf == {g \in worklist : Preds(group, g) \cap worklist = {}}
Reduce_From_Nucleus ==
  /\ step = "absorb"
  /\ \E g \in NextOf :
       /\ worklist' = worklist \ {g}
       /\ \/ /\ Can_Potentially_Absorb(nucleus, g)
             /\ group' = Merged(g, nucleus) /\ nuclei' = nuclei \ {g}
          \/ /\ ~Can_Potentially_Absorb(nucleus, g)
             /\ UNCHANGED <<group, nuclei>>
  /\ UNCHANGED <<path, step, absorbed, nucleus>>

Candidates ==
  {g \in Groups(group) : /\ ~Has(group, g, {"from_fn", "ack", "delay"})
                         /\ ~Reenabled(g)
                         /\ Cardinality(Preds(group, g)) = 1}

(* No join is a merge, no fork a branch, in one group.                     *)
Confused(g, h) ==
  \/ is_join(group, g) /\ is_merge(group, h)
  \/ is_fork(group, g) /\ is_branch(group, h)
Aliased_never(g, h) == FALSE
Aliased(g, h) == Confused(g, h) \/ Confused(h, g)

Last_Gasp_Candidates ==
  /\ step = "absorb" /\ worklist = {} /\ nuclei = {}
  /\ step' = "gasp" /\ worklist' = Candidates
  /\ UNCHANGED <<path, group, nuclei, absorbed, nucleus>>

Joins_Its_Predecessor(g, p) ==
  /\ in_body(group, g) = in_body(group, p)
  /\ Functions(group, g) = Functions(group, p)
  /\ in_body(group, g) \/ ~Aliased(g, p)

Last_Gasp_Reduce ==
  /\ step = "gasp"
  /\ \E g \in worklist : \E p \in Preds(group, g) :
       /\ worklist' = worklist \ {g}
       /\ group' = IF Joins_Its_Predecessor(g, p) THEN Merged(g, p) ELSE group
  /\ UNCHANGED <<path, step, nuclei, absorbed, nucleus>>

(* A component: the groups linked to one over arcs of the set L.           *)
Component(g, L) ==
  LET after[n \in 0 .. Cardinality(Elements)] ==
        IF n = 0 THEN {g}
        ELSE LET before == after[n - 1]
             IN before \cup {a[1] : a \in {b \in L : b[2] \in before}}
                       \cup {a[2] : a \in {b \in L : b[1] \in before}}
  IN after[Cardinality(Elements)]

Collapse_Pure_Transition_Components ==
  /\ step = "gasp" /\ worklist = {} /\ step' = "done"
  /\ LET links == {a \in Arcs(group, path.arcs) :
                     /\ Is_Pure_Transition_Group(a[1]) /\ Is_Pure_Transition_Group(a[2])
                     /\ in_body(group, a[1]) = in_body(group, a[2])}
     IN group' = [e \in Elements |->
                    IF group[e] = Gone THEN Gone ELSE Min(Component(group[e], links))]
  /\ UNCHANGED <<path, nuclei, absorbed, nucleus, worklist>>

GNext ==
  \/ Eliminate_Dead_Groups \/ Identify_Nucleii
  \/ Search_From_Nucleus \/ Reduce_From_Nucleus
  \/ Last_Gasp_Candidates \/ Last_Gasp_Reduce
  \/ Collapse_Pure_Transition_Components

GSpec == GInit /\ [][GNext]_gvars

----------------------------------------------------------------------------
(* Print_VHDL: how often each group fires, the first so many times.  An    *)
(* acknowledgement and what a function drives fire as often as they do, as *)
(* does the entry; a join waits for all its predecessors, and has a token  *)
(* from each marked one; other groups are the OR of their predecessors.    *)
IsSource(e) == path.kind[e] \in {"ack", "from_fn"} \/ e = 1
Fired(of, sources) ==
  LET is_true_join(g) ==
        \/ Cardinality(Preds(of, g)) > 1
        \/ in_body(of, g) /\ MarkedPreds(of, g) # {}
      fires[n \in 0 .. Waves, g \in Groups(of)] ==
        LET driven == {e \in Members(of, g) : IsSource(e)}
            Pred(p) == fires[n, p]
            times == IF Has(of, g, {"dead"}) THEN 0
                     ELSE IF driven # {} THEN sources[CHOOSE e \in driven : TRUE]
                     ELSE IF /\ is_join(of, g) \/ MarkedPreds(of, g) # {}
                             /\ is_true_join(g)
                     THEN Min({fires[n, p] : p \in Preds(of, g)}
                              \cup {fires[n - 1, p] + 1 : p \in MarkedPreds(of, g)})
                     ELSE MapThenSumSet(Pred, Preds(of, g))
        IN IF n = 0 THEN 0 ELSE Min({n, times})
  IN [e \in Elements |-> IF of[e] = Gone THEN 0 ELSE fires[Waves, of[e]]]

Observed == {e \in Elements : path.kind[e] \in {"req", "to_fn"}} \cup {Max(Elements)}

(* The reduced control path makes the same requests, and ends, as often as *)
(* the one that was written, however often it is answered                  *)
(* (vcControlPathReduce.cpp:1074-1110).                                    *)
ReductionIsFaithful ==
  step = "done" =>
    \A sources \in [{e \in Elements : IsSource(e)} -> 0 .. Waves] :
      LET written == Fired(Alone, sources)
          reduced == Fired(group, sources)
      IN \A e \in Observed : written[e] = reduced[e]

(* Merge_Groups never meets what it asserts not to, it merges a group into *)
(* its own predecessor only, and no group has two functions or two parents *)
(* (vcControlPathReduce.cpp:350-364, 1417-1431).                           *)
MergeAllowed(part, whole) ==
  /\ Preds(group, part) = {whole}
  /\ ~Has(group, part, {"delay"}) /\ ~Confused(part, whole) /\ ~Confused(whole, part)
MergesAreAllowed ==
  /\ step = "absorb" => \A g \in NextOf :
       Can_Potentially_Absorb(nucleus, g) => MergeAllowed(g, nucleus)
  /\ step = "gasp" => \A g \in worklist :
       /\ Cardinality(Preds(group, g)) = 1
       /\ \A p \in Preds(group, g) :
            Joins_Its_Predecessor(g, p) => MergeAllowed(g, p)
  /\ \A g \in Groups(group) :
       /\ Cardinality(Functions(group, g)) <= 1
       /\ Members(group, g) \subseteq path.body \/ Members(group, g) \cap path.body = {}
       /\ step = "done" /\ Has(group, g, {"delay"}) =>
            Cardinality(Preds(group, g)) = 1 /\ MarkedPreds(group, g) = {}
=============================================================================
