--------------------------- MODULE MCControlPath ---------------------------
(***************************************************************************)
(* A pipelined loop, and what the vC library does to control paths before  *)
(* they become hardware, side by side: every behaviour is that of one.     *)
(* The library is given every fork block of four transitions with up to    *)
(* two reenable arcs, and every control path of four elements that Aa2VC   *)
(* could have written, in a pipelined body or not, and some larger ones.   *)
(***************************************************************************)
EXTENDS PipelinedLoop, ForkBlock, GroupReduction

VARIABLE part

(* The counters of the places (place_with_bypass.vhdl:58-77) are wider     *)
(* than their capacity.                                                    *)
ASSUME CountersAreWide ==
  \A c \in 1 .. 24 : TokenRange(c) \in Nat /\ TokenRange(c) > c

Element == 1 .. 4
Preceding(A, e) == {a[1] : a \in {b \in A : b[2] = e}}
Following(A, e) == {a[2] : a \in {b \in A : b[1] = e}}
AllPreceding(A, e) ==
  LET before[x \in Element] == Preceding(A, x) \cup UNION {before[p] : p \in Preceding(A, x)}
  IN before[e]

(* Everything but the entry waits for something.                           *)
Graphs == {A \in SUBSET {a \in Element \X Element : a[1] < a[2]} :
             \A e \in 2 .. 4 : Preceding(A, e) # {}}

(* A reenable arc leads from a transition back to one it depends on.       *)
Reenables(A, most) ==
  {M \in SUBSET {m \in Element \X Element : m[2] \in AllPreceding(A, m[1])} :
     Cardinality(M) <= most}

ForkBlocks ==
  UNION {UNION {{[arcs |-> A, marked |-> M, delay |-> d] : d \in [M -> {0, 1}]} :
                M \in Reenables(A, 2)} : A \in Graphs}

----------------------------------------------------------------------------
Kinds(used) == {kind \in [Element -> used] : kind[1] = "plain"}

(* In the body of a pipelined loop: acknowledgements and delays follow one *)
(* element and are not reenabled, what a function drives follows none.     *)
InBody(kind, A) ==
  LET fn == [e \in Element |-> CASE kind[e] = "from_fn" -> 1
                                 [] kind[e] = "to_fn" -> 1 + (e % 2)
                                 [] OTHER -> 0]
      arcs_ == {a \in A : kind[a[2]] # "from_fn"}
  IN {[kind |-> kind, fn |-> fn, arcs |-> arcs_, marked |-> M, body |-> 2 .. 4] :
        M \in {S \in Reenables(arcs_, 1) : \A m \in S :
                 m[2] # 1 /\ kind[m[2]] \in {"plain", "req", "to_fn"}}}

BodyPaths ==
  LET all == UNION {InBody(kind, A) :
               kind \in Kinds({"plain", "req", "ack", "delay", "to_fn"})
                        \cup Kinds({"plain", "req", "from_fn"}),
               A \in Graphs}
  IN {p \in all : \A e \in 2 .. 4 :
        p.kind[e] \in {"ack", "delay"} => Cardinality(Preceding(p.arcs, e)) = 1}

(* Elsewhere: a place is entered over one of several ways only, and leaves *)
(* the choice between its successors to acknowledgements; a dead link is   *)
(* beside a live one, and no join waits for it (AaStatement.cpp:4216,      *)
(* 5277, 5764).                                                            *)
Origins(kind, A, e) ==
  LET from[x \in Element] == IF x = 1 \/ kind[x] \in {"ack", "dead"} THEN {x}
                             ELSE UNION {from[p] : p \in Preceding(A, x)}
  IN from[e]
WellWritten(kind, A) ==
  \A e \in 2 .. 4 :
    LET P == Preceding(A, e) IN
    CASE kind[e] = "ack"   -> Cardinality(P) = 1
      [] kind[e] = "dead"  -> Cardinality(P) = 1 /\ \A p \in P : kind[p] = "place"
      [] kind[e] = "place" ->
           /\ \A p \in P : kind[p] # "place"
           /\ \A p, q \in P : p # q => Origins(kind, A, p) \cap Origins(kind, A, q) = {}
           /\ Cardinality({x \in Following(A, e) : kind[x] \notin {"ack", "dead"}}) <= 1
      [] OTHER -> Cardinality(P) > 1 =>
           \A p \in P : /\ kind[p] # "place"
                        /\ \E o \in Origins(kind, A, p) : kind[o] # "dead"

Outside(kind, A) ==
  [kind |-> kind, fn |-> [e \in DOMAIN kind |-> 0], arcs |-> A, marked |-> {}, body |-> {}]
SeriesPaths ==
  {Outside(kind, A) : <<kind, A>> \in
     {p \in Kinds({"plain", "req", "ack", "dead", "place"}) \X Graphs : WellWritten(p[1], p[2])}}

(* A switch between two ways with its dead link; two operands evaluated at *)
(* once, with a dead link beside them.                                     *)
Switches ==
  {Outside(<<"plain", "place", "plain", "dead", "plain", x, "place", "ack", "ack", y,
             "place", z>>,
           {<<1, 2>>, <<2, 3>>, <<3, 4>>, <<4, 5>>, <<5, 11>>, <<2, 6>>, <<6, 7>>, <<7, 8>>,
            <<7, 9>>, <<8, 10>>, <<10, 11>>, <<9, 11>>, <<11, 12>>}) :
     x, y, z \in {"plain", "req"}}
Operands ==
  {Outside(<<"plain", "place", "dead", "plain", "req", "ack", x, "ack", y, "place", z>>,
           {<<1, 2>>, <<2, 3>>, <<3, 10>>, <<2, 4>>, <<4, 5>>, <<5, 6>>, <<4, 7>>, <<7, 8>>,
            <<6, 9>>, <<8, 9>>, <<9, 10>>, <<10, 11>>}) :
     x, y, z \in {"plain", "req"}}

ControlPaths == BodyPaths \cup SeriesPaths \cup Switches \cup Operands

----------------------------------------------------------------------------
NoBlock == /\ written = [arcs |-> {}, marked |-> {}, delay |-> <<>>]
           /\ arcs = {} /\ marked = {} /\ pass = "none"
NoPath == /\ path = Outside(<<>>, {}) /\ group = <<>> /\ step = "none"
          /\ nuclei = {} /\ absorbed = {} /\ nucleus = Gone /\ worklist = {}

MCInit ==
  \/ part = "loop" /\ LoopInit /\ NoBlock /\ NoPath
  \/ part = "block" /\ LoopInit /\ FBInit /\ NoPath
  \/ part = "path" /\ LoopInit /\ NoBlock /\ GInit

Loop(A) == part = "loop" /\ A /\ UNCHANGED <<bvars, gvars, part>>
Block(A) == part = "block" /\ A /\ UNCHANGED <<pvars, gvars, part>>
Path(A) == part = "path" /\ A /\ UNCHANGED <<pvars, bvars, part>>

(* The library is done with it.                                            *)
Finished == /\ "done" \in {pass, step}
            /\ UNCHANGED <<pvars, bvars, gvars, part>>

MCNext == Loop(LoopNext) \/ Block(FBNext) \/ Path(GNext) \/ Finished

MCvars == <<pvars, bvars, gvars, part>>

MCSpec == MCInit /\ [][MCNext]_MCvars /\ WF_MCvars(Loop(Lively))
=============================================================================
