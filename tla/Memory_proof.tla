---------------------------- MODULE Memory_proof ----------------------------
(***************************************************************************)
(* Proofs about the memories of the hardware, for any numbers of ports,    *)
(* any addresses and any words: each of them is an AbstractMemory.         *)
(***************************************************************************)
EXTENDS MemorySubsystem, RegisterBank, FiniteSetTheorems, SequenceTheorems,
        WellFoundedInduction, TLAPS

-----------------------------------------------------------------------------
(* The account.                                                            *)

(* What is accepted in a cycle from the load ports L and the store ports S *)
Taken(L, S) ==
  {The("load", p, lr_in) : p \in L} \union {The("store", p, sr_in) : p \in S}

LEMMA SameCardinality == ASSUME NEW C PROVE M!Cardinality(C) = Cardinality(C)
BY DEF M!Cardinality, Cardinality

LEMMA CountOfOne ==
  ASSUME NEW C, NEW op, NEW p, NEW c
  PROVE  /\ {x \in C : x.op = op /\ x.port = p} = {c} => M!Count(C, op, p) = 1
         /\ {x \in C : x.op = op /\ x.port = p} = {} => M!Count(C, op, p) = 0
<1>1. M!Count(C, op, p) = Cardinality({x \in C : x.op = op /\ x.port = p})
  BY SameCardinality DEF M!Count
<1> DEFINE X == {x \in C : x.op = op /\ x.port = p}
<1> HIDE DEF X
<1>2. X = {c} => Cardinality(X) = 1
  BY FS_Singleton
<1>3. X = {} => Cardinality(X) = 0
  BY FS_EmptySet
<1> QED
  BY <1>1, <1>2, <1>3 DEF X

(* What the account makes of it: at most one access of each port.          *)
LEMMA TakenFacts ==
  ASSUME NEW L, NEW S
  PROVE  /\ \A a : M!Written(Taken(L, S), a) =
                     {sr_in[p][1].data : p \in {q \in S : sr_in[q][1].addr = a}}
         /\ \A p, C : M!After(p, Taken(L, S), C) =
              LET left == IF \E c \in C : c.op = "load" /\ c.port = p
                          THEN Tail(loads[p]) ELSE loads[p]
              IN IF p \in L THEN Append(left, M!Permitted(Taken(L, S), lr_in[p][1].addr))
                 ELSE left
         /\ \A p : M!Count(Taken(L, S), "store", p) = IF p \in S THEN 1 ELSE 0
<1> DEFINE R == Taken(L, S)
<1>1. \A r : r \in R <=> \/ \E p \in L : r = The("load", p, lr_in)
                         \/ \E p \in S : r = The("store", p, sr_in)
  BY DEF Taken
<1>2. \A op, p, in : /\ The(op, p, in).op = op /\ The(op, p, in).port = p
                     /\ The(op, p, in).addr = in[p][1].addr
                     /\ The(op, p, in).data = in[p][1].data
  BY DEF The
<1> HIDE DEF R
<1>3. ASSUME NEW a
      PROVE  M!Written(R, a) = {sr_in[p][1].data : p \in {q \in S : sr_in[q][1].addr = a}}
  <2>1. {q \in R : q.op = "store" /\ q.addr = a}
          = {The("store", p, sr_in) : p \in {q \in S : sr_in[q][1].addr = a}}
    BY <1>1, <1>2
  <2> QED
    BY <1>2, <2>1 DEF M!Written
<1>4. ASSUME NEW p, NEW C
      PROVE  M!After(p, R, C) =
               LET left == IF \E c \in C : c.op = "load" /\ c.port = p
                           THEN Tail(loads[p]) ELSE loads[p]
               IN IF p \in L THEN Append(left, M!Permitted(R, lr_in[p][1].addr)) ELSE left
  <2> DEFINE new == {r \in R : r.op = "load" /\ r.port = p}
  <2>1. new = IF p \in L THEN {The("load", p, lr_in)} ELSE {}
    BY <1>1, <1>2
  <2>2. p \in L => (CHOOSE r \in new : TRUE) = The("load", p, lr_in)
    BY <2>1
  <2> QED
    BY <1>2, <2>1, <2>2 DEF M!After
<1>5. ASSUME NEW p
      PROVE  M!Count(R, "store", p) = IF p \in S THEN 1 ELSE 0
  <2>1. {x \in R : x.op = "store" /\ x.port = p}
          = IF p \in S THEN {The("store", p, sr_in)} ELSE {}
    BY <1>1, <1>2
  <2> QED
    BY <2>1, CountOfOne
<1> QED
  BY <1>3, <1>4, <1>5 DEF R

(* Of some ports, the one with the lowest index.                           *)
LEMMA LeastNumber ==
  ASSUME NEW P, P \subseteq Nat, P # {}
  PROVE  \E p \in P : \A q \in P : p <= q
<1>1. PICK p \in P : \A q \in P : ~ (<<q, p>> \in OpToRel(<, Nat))
  BY NatLessThanWellFounded, WFMin
<1>2. \A q \in P : ~ (q < p) /\ q \in Nat /\ p \in Nat
  BY <1>1 DEF OpToRel
<1> QED
  BY <1>2

LEMMA LowestPort ==
  ASSUME NEW P, P \subseteq StorePorts, P # {}
  PROVE  \E p \in P : \A q \in P : p <= q
<1>1. StorePorts \subseteq Nat
  BY PortsAssumption
<1> QED
  BY <1>1, LeastNumber

-----------------------------------------------------------------------------
(* A bank of registers.                                                    *)

(* A port with a result has one open access, whose word it offers.         *)
BInv ==
  /\ register_array \in [Addr -> UNION {possible[a] : a \in Addr}]
  /\ \A a \in Addr : register_array[a] \in possible[a]
  /\ \A p \in LoadPorts :
       /\ lr_in[p] # <<>> => lr_in[p][1].addr \in Addr
       /\ \/ lc_ack_flag[p] = <<>> /\ loads[p] = <<>>
          \/ \E w, S : lc_ack_flag[p] = <<w>> /\ loads[p] = <<S>> /\ w \in S
  /\ \A p \in StorePorts :
       /\ sr_in[p] # <<>> => sr_in[p][1].addr \in Addr
       /\ stores[p] = IF p \in sc_ack_flag THEN 1 ELSE 0
  /\ sc_ack_flag \subseteq StorePorts

LEMMA InitBInv == BInit => BInv
BY DEF BInit, BInv, PortsInit, M!Init

(* A request that stays or comes has an address.                           *)
LEMMA RequestsHaveAddresses ==
  ASSUME NEW L, NEW S, Requesters(L, S)
  PROVE  /\ \A p \in LoadPorts : lr_in'[p] # <<>> => lr_in'[p][1].addr \in Addr
         /\ \A p \in StorePorts : sr_in'[p] # <<>> => sr_in'[p][1].addr \in Addr
<1>1. \A W : \A r \in Requests(W) : r[1].addr \in Addr
  BY DEF Requests
<1>2. /\ \A p \in LoadPorts : lr_in'[p] \in {<<>>} \union Requests({Zero})
      /\ \A p \in StorePorts : sr_in'[p] \in {<<>>} \union Requests(Word)
  BY DEF Requesters, Nobody
<1> QED
  BY <1>1, <1>2

(* Of the stores to one register at most one is accepted.                  *)
LEMMA WinnerFacts ==
  ASSUME NEW a \in Addr, Writers(a) # {}
  PROVE  /\ Winner(a) \in Writers(a) /\ Winner(a) \in sr_ack
         /\ {q \in sr_ack : sr_in[q][1].addr = a} = {Winner(a)}
<1>1. \A b : Writers(b) \subseteq StorePorts /\ \A p \in Writers(b) : sr_in[p][1].addr = b
  BY DEF Writers
<1>2. \A b : Writers(b) # {} => Winner(b) \in Writers(b)
  BY <1>1, LowestPort DEF Winner
<1>3. Winner(a) \in sr_ack
  BY DEF sr_ack
<1>4. \A q \in sr_ack : \E b \in Addr : q = Winner(b) /\ Writers(b) # {}
  BY DEF sr_ack
<1>5. \A q \in sr_ack : sr_in[q][1].addr = a => q = Winner(a)
  BY <1>1, <1>2, <1>4
<1> QED
  BY <1>1, <1>2, <1>3, <1>5

LEMMA AcceptedStores ==
  /\ sr_ack \subseteq {p \in StorePorts : sr_in[p] # <<>> /\ p \notin sc_ack_flag}
  /\ \A a \in Addr : M!Written(Taken(lr_ack, sr_ack), a) =
       IF Writers(a) = {} THEN {} ELSE {sr_in[Winner(a)][1].data}
<1>1. ASSUME NEW q \in sr_ack
      PROVE  /\ q \in StorePorts /\ sr_in[q] # <<>> /\ q \notin sc_ack_flag
             /\ sr_in[q][1].addr \in Addr => Writers(sr_in[q][1].addr) # {}
  <2>1. PICK b \in Addr : q = Winner(b) /\ Writers(b) # {}
    BY DEF sr_ack
  <2>2. q \in Writers(b)
    BY <2>1, WinnerFacts
  <2> QED
    BY <2>2 DEF Writers
<1>2. ASSUME NEW a \in Addr
      PROVE  M!Written(Taken(lr_ack, sr_ack), a) =
               IF Writers(a) = {} THEN {} ELSE {sr_in[Winner(a)][1].data}
  <2>1. M!Written(Taken(lr_ack, sr_ack), a)
          = {sr_in[p][1].data : p \in {q \in sr_ack : sr_in[q][1].addr = a}}
    BY TakenFacts
  <2>2. {q \in sr_ack : sr_in[q][1].addr = a}
          = IF Writers(a) = {} THEN {} ELSE {Winner(a)}
    BY <1>1, WinnerFacts
  <2> QED
    BY <2>1, <2>2
<1> QED
  BY <1>1, <1>2

(* What an edge does to the account.                                       *)
LEMMA BankAccount ==
  ASSUME BInv, NEW accepted \in SUBSET Offered, BTick(accepted)
  PROVE  /\ M!Account(Taken(lr_ack, sr_ack), accepted)
         /\ Requesters(lr_ack, sr_ack)
         /\ \A p \in LoadPorts :
              /\ Takes("load", p, accepted) => lc_ack_flag[p] # <<>>
              /\ loads'[p] =
                   LET left == IF Takes("load", p, accepted) THEN Tail(loads[p]) ELSE loads[p]
                   IN IF p \in lr_ack
                      THEN Append(left, M!Permitted(Taken(lr_ack, sr_ack), lr_in[p][1].addr))
                      ELSE left
         /\ \A p \in StorePorts :
              /\ Takes("store", p, accepted) => p \in sc_ack_flag
              /\ stores'[p] = stores[p] + (IF p \in sr_ack THEN 1 ELSE 0)
                                        - (IF Takes("store", p, accepted) THEN 1 ELSE 0)
<1>1. M!Account(Taken(lr_ack, sr_ack), accepted) /\ Requesters(lr_ack, sr_ack)
  BY DEF BTick, Cycle, Taken
<1>2. ASSUME NEW p \in LoadPorts
      PROVE  /\ Takes("load", p, accepted) => lc_ack_flag[p] # <<>>
             /\ loads'[p] =
                   LET left == IF Takes("load", p, accepted) THEN Tail(loads[p]) ELSE loads[p]
                   IN IF p \in lr_ack
                      THEN Append(left, M!Permitted(Taken(lr_ack, sr_ack), lr_in[p][1].addr))
                      ELSE left
  <2>1. loads'[p] = M!After(p, Taken(lr_ack, sr_ack), accepted)
    BY <1>1 DEF M!Account
  <2> QED
    BY <2>1, TakenFacts DEF Takes, Offered
<1>3. ASSUME NEW p \in StorePorts
      PROVE  /\ Takes("store", p, accepted) => p \in sc_ack_flag
             /\ stores'[p] = stores[p] + (IF p \in sr_ack THEN 1 ELSE 0)
                                       - (IF Takes("store", p, accepted) THEN 1 ELSE 0)
  <2>1. stores'[p] = stores[p] + M!Count(Taken(lr_ack, sr_ack), "store", p)
                                - M!Count(accepted, "store", p)
    BY <1>1 DEF M!Account
  <2>2. {c \in accepted : c.op = "store" /\ c.port = p}
          = IF Takes("store", p, accepted)
            THEN {[op |-> "store", port |-> p, data |-> Zero]} ELSE {}
    BY DEF Takes, Offered
  <2>3. M!Count(accepted, "store", p) = IF Takes("store", p, accepted) THEN 1 ELSE 0
    BY <2>2, CountOfOne
  <2>4. Takes("store", p, accepted) => p \in sc_ack_flag
    BY DEF Takes, Offered
  <2> QED
    BY <2>1, <2>3, <2>4, TakenFacts
<1> QED
  BY <1>1, <1>2, <1>3

LEMMA BankIsHonest ==
  ASSUME BInv, NEW accepted \in SUBSET Offered
  PROVE  M!Honest(accepted)
<1> SUFFICES ASSUME NEW c \in accepted
             PROVE  IF c.op = "load"
                    THEN loads[c.port] # <<>> /\ c.data \in Head(loads[c.port])
                    ELSE stores[c.port] > 0
  BY DEF M!Honest
<1>1. CASE \E p \in LoadPorts : /\ lc_ack_flag[p] # <<>>
                               /\ c = [op |-> "load", port |-> p, data |-> lc_ack_flag[p][1]]
  <2>1. PICK p \in LoadPorts : /\ lc_ack_flag[p] # <<>>
                               /\ c = [op |-> "load", port |-> p, data |-> lc_ack_flag[p][1]]
    BY <1>1
  <2>2. PICK w, S : lc_ack_flag[p] = <<w>> /\ loads[p] = <<S>> /\ w \in S
    BY <2>1 DEF BInv
  <2>3. Head(<<S>>) = S /\ <<w>>[1] = w /\ <<S>> # <<>>
    OBVIOUS
  <2> QED
    BY <2>1, <2>2, <2>3
<1>2. CASE \E p \in sc_ack_flag : c = [op |-> "store", port |-> p, data |-> Zero]
  BY <1>2 DEF BInv
<1> QED
  BY <1>1, <1>2 DEF Offered

LEMMA BankStep ==
  ASSUME BInv, BNext
  PROVE  BInv' /\ M!Next
<1>1. PICK accepted \in SUBSET Offered : BTick(accepted)
  BY DEF BNext
<1> DEFINE R == Taken(lr_ack, sr_ack)
<1>2. M!Account(R, accepted) /\ Requesters(lr_ack, sr_ack)
  BY <1>1, BankAccount
<1>3. taken' = R /\ done' = accepted
  BY <1>2 DEF M!Account
<1>4. M!Next
  BY <1>2, <1>3, BankIsHonest DEF M!Next
<1> HIDE DEF R
<1>5. ASSUME NEW a \in Addr
      PROVE  register_array'[a] \in possible'[a]
  <2>1. possible'[a] = IF M!Written(R, a) = {} THEN possible[a] ELSE M!Written(R, a)
    BY <1>2 DEF M!Account
  <2>2. register_array'[a] = IF Writers(a) = {} THEN register_array[a]
                             ELSE sr_in[Winner(a)][1].data
    BY <1>1 DEF BTick
  <2>3. M!Written(R, a) = IF Writers(a) = {} THEN {} ELSE {sr_in[Winner(a)][1].data}
    BY AcceptedStores DEF R
  <2> QED
    BY <2>1, <2>2, <2>3 DEF BInv
<1>6. ASSUME NEW p \in LoadPorts
      PROVE  \/ lc_ack_flag'[p] = <<>> /\ loads'[p] = <<>>
             \/ \E w, S : lc_ack_flag'[p] = <<w>> /\ loads'[p] = <<S>> /\ w \in S
  <2> DEFINE takes == Takes("load", p, accepted)
             left  == IF takes THEN Tail(loads[p]) ELSE loads[p]
  <2>1. /\ lc_ack_flag'[p] =
             IF p \in lr_ack THEN <<register_array[lr_in[p][1].addr]>>
             ELSE IF takes THEN <<>> ELSE lc_ack_flag[p]
        /\ loads'[p] = IF p \in lr_ack
                       THEN Append(left, M!Permitted(R, lr_in[p][1].addr)) ELSE left
        /\ takes => lc_ack_flag[p] # <<>>
    BY <1>1, BankAccount DEF BTick, R
  <2> HIDE DEF takes
  <2>2. CASE p \in lr_ack
    <3>1. lc_ack_flag[p] = <<>> /\ loads[p] = <<>> /\ lr_in[p][1].addr \in Addr
      BY <2>2 DEF BInv, lr_ack
    <3>2. left = <<>>
      BY <2>1, <3>1
    <3>3. register_array[lr_in[p][1].addr] \in M!Permitted(R, lr_in[p][1].addr)
      BY <3>1 DEF BInv, M!Permitted
    <3>4. \A x : Append(<<>>, x) = <<x>>
      OBVIOUS
    <3> QED
      BY <2>1, <2>2, <3>2, <3>3, <3>4
  <2>3. CASE p \notin lr_ack /\ takes
    <3>1. PICK w, S : lc_ack_flag[p] = <<w>> /\ loads[p] = <<S>> /\ w \in S
      BY <2>1, <2>3 DEF BInv
    <3>2. Tail(<<S>>) = <<>>
      OBVIOUS
    <3> QED
      BY <2>1, <2>3, <3>1, <3>2
  <2>4. CASE p \notin lr_ack /\ ~takes
    BY <2>1, <2>4 DEF BInv
  <2> QED
    BY <2>2, <2>3, <2>4
<1>7. ASSUME NEW p \in StorePorts
      PROVE  stores'[p] = IF p \in sc_ack_flag' THEN 1 ELSE 0
  <2> DEFINE takes == Takes("store", p, accepted)
  <2>1. /\ takes => p \in sc_ack_flag
        /\ stores'[p] = stores[p] + (IF p \in sr_ack THEN 1 ELSE 0) - (IF takes THEN 1 ELSE 0)
    BY <1>1, BankAccount
  <2>2. p \in sc_ack_flag' <=> (p \in sc_ack_flag /\ ~takes) \/ p \in sr_ack
    BY <1>1 DEF BTick
  <2>3. p \in sr_ack => p \notin sc_ack_flag
    BY AcceptedStores
  <2>4. stores[p] = IF p \in sc_ack_flag THEN 1 ELSE 0
    BY DEF BInv
  <2> HIDE DEF takes
  <2> QED
    BY <2>1, <2>2, <2>3, <2>4
<1>8. sc_ack_flag' \subseteq StorePorts
  BY <1>1, AcceptedStores DEF BTick, BInv
<1>9. /\ \A p \in LoadPorts : lr_in'[p] # <<>> => lr_in'[p][1].addr \in Addr
      /\ \A p \in StorePorts : sr_in'[p] # <<>> => sr_in'[p][1].addr \in Addr
  BY <1>2, RequestsHaveAddresses
<1>10. register_array' \in [Addr -> UNION {possible'[a] : a \in Addr}]
  BY <1>1, <1>5 DEF BTick
<1> QED
  BY <1>4, <1>5, <1>6, <1>7, <1>8, <1>9, <1>10 DEF BInv

LEMMA StutterBInv == BInv /\ UNCHANGED bvars => BInv' /\ UNCHANGED M!memory
BY DEF BInv, bvars, ports, M!memory

(* A bank of registers is a memory to its ports: a load returns what was   *)
(* stored last, however long it is before its result is taken, and of the  *)
(* stores to one register those that lose are accepted later.              *)
THEOREM RegistersAreAMemory == BSpec => IsAMemory
<1>1. BInit => BInv /\ M!Init
  BY InitBInv DEF BInit, PortsInit
<1>2. BInv /\ [BNext]_bvars => BInv' /\ [M!Next]_(M!memory)
  BY BankStep, StutterBInv
<1> QED
  BY <1>1, <1>2, PTL DEF BSpec, IsAMemory, M!Spec

-----------------------------------------------------------------------------
(* Time stamps.                                                            *)

Turn == 4 * Quarter
Stamps == 0 .. Turn - 1

(* The cycles from x to now, around the clock.                             *)
AgeAt(now, x) == IF x <= now THEN now - x ELSE now - x + Turn

LEMMA TurnType == Quarter \in Nat \ {0} /\ Turn \in Nat /\ Turn >= 4
BY SubsystemAssumption DEF Turn

LEMMA NextStamp ==
  ASSUME NEW now \in Stamps
  PROVE  /\ IncrementSLV(now) \in Stamps
         /\ IncrementSLV(now) = IF now + 1 = Turn THEN 0 ELSE now + 1
<1> DEFINE m == Turn
<1>1. m \in Nat /\ m >= 4 /\ now \in 0 .. m - 1
  BY TurnType DEF Stamps
<1>2. IncrementSLV(now) = (now + 1) % m
  BY DEF IncrementSLV, Turn
<1> HIDE DEF m
<1>3. (now + 1) % m = IF now + 1 = m THEN 0 ELSE now + 1
  BY <1>1
<1>4. IncrementSLV(now) \in 0 .. m - 1
  BY <1>1, <1>2, <1>3
<1> QED
  BY <1>2, <1>3, <1>4 DEF m, Stamps

(* What has not been there for a whole turn grows older by a cycle.        *)
LEMMA Aging ==
  ASSUME NEW now \in Stamps, NEW x \in Stamps
  PROVE  /\ AgeAt(now, x) \in Nat
         /\ AgeAt(now, now) = 0 /\ AgeAt(IncrementSLV(now), now) = 1
         /\ AgeAt(now, x) < Turn - 1 => AgeAt(IncrementSLV(now), x) = AgeAt(now, x) + 1
BY NextStamp, TurnType DEF AgeAt, Stamps

(* The quarter a stamp is in.                                              *)
LEMMA QuotientByQuarter ==
  ASSUME NEW m \in Nat \ {0}, NEW x \in 0 .. 4 * m - 1
  PROVE  x \div m = IF x < m THEN 0 ELSE IF x < 2 * m THEN 1 ELSE IF x < 3 * m THEN 2 ELSE 3
<1>1. CASE x < m
  BY <1>1
<1>2. CASE x >= m /\ x < 2 * m
  BY <1>2
<1>3. CASE x >= 2 * m /\ x < 3 * m
  BY <1>3
<1>4. CASE x >= 3 * m
  BY <1>4
<1> QED
  BY <1>1, <1>2, <1>3, <1>4

LEMMA QuarterOf ==
  ASSUME NEW x \in Stamps
  PROVE  x \div Quarter = IF x < Quarter THEN 0
                          ELSE IF x < 2 * Quarter THEN 1
                          ELSE IF x < 3 * Quarter THEN 2 ELSE 3
BY TurnType, QuotientByQuarter DEF Stamps, Turn

(* No more than a quarter apart, stamps tell which is the younger.         *)
LEMMA GreaterIsYounger ==
  ASSUME NEW now \in Stamps, NEW x \in Stamps, NEW y \in Stamps,
         AgeAt(now, x) - AgeAt(now, y) <= Quarter,
         AgeAt(now, y) - AgeAt(now, x) <= Quarter
  PROVE  IsGreaterThan(x, y) <=> AgeAt(now, x) < AgeAt(now, y)
<1> DEFINE m == Quarter
           qx == x \div Quarter
           qy == y \div Quarter
<1>1. /\ qx = IF x < m THEN 0 ELSE IF x < 2 * m THEN 1 ELSE IF x < 3 * m THEN 2 ELSE 3
      /\ qy = IF y < m THEN 0 ELSE IF y < 2 * m THEN 1 ELSE IF y < 3 * m THEN 2 ELSE 3
  BY QuarterOf
<1>2. /\ m \in Nat \ {0}
      /\ now \in 0 .. 4 * m - 1 /\ x \in 0 .. 4 * m - 1 /\ y \in 0 .. 4 * m - 1
  BY TurnType DEF Stamps, Turn
<1>3. /\ AgeAt(now, x) = IF x <= now THEN now - x ELSE now - x + 4 * m
      /\ AgeAt(now, y) = IF y <= now THEN now - y ELSE now - y + 4 * m
  BY DEF AgeAt, Turn
<1>4. IsGreaterThan(x, y) <=> qx = (qy + 1) % 4 \/ (qx = qy /\ x > y)
  BY DEF IsGreaterThan
<1> HIDE DEF m, qx, qy
<1>5. /\ qx \in 0 .. 3 /\ qy \in 0 .. 3
      /\ qx = (qy + 1) % 4 <=> qx = qy + 1 \/ (qx = 0 /\ qy = 3)
  BY <1>1
<1>6. AgeAt(now, x) - AgeAt(now, y) <= m /\ AgeAt(now, y) - AgeAt(now, x) <= m
  BY DEF m
<1> QED
  BY <1>1, <1>2, <1>3, <1>4, <1>5, <1>6

-----------------------------------------------------------------------------
(* The selection of the oldest request.                                    *)

LEMMA LeastAbove ==
  ASSUME NEW P, P \subseteq Nat, P # {}
  PROVE  \E k \in P : \A j \in Nat : j < k => j \notin P
<1>1. PICK k \in P : \A q \in P : k <= q
  BY LeastNumber
<1> QED
  BY <1>1

(* One turn of the loop over the ports.                                    *)
Better(heads, i, last) ==
  IF heads[i] # <<>> /\ (last = -1 \/ IsGreaterThan(heads[last][1].stamp, heads[i][1].stamp))
  THEN i ELSE last

LoopUpTo(heads, b, n, k) ==
  /\ b \in [0 .. n -> -1 .. n] /\ b[0] = -1
  /\ \A i \in 1 .. k : b[i] = Better(heads, i - 1, b[i - 1])

LEMMA LoopExists ==
  ASSUME NEW heads, NEW n \in Nat
  PROVE  \E b : LoopUpTo(heads, b, n, n)
<1> DEFINE Bad == {k \in Nat : k <= n /\ ~ \E b : LoopUpTo(heads, b, n, k)}
<1> SUFFICES ASSUME Bad # {} PROVE FALSE
  OBVIOUS
<1>1. PICK k \in Bad : \A j \in Nat : j < k => j \notin Bad
  BY LeastAbove
<1>2. LoopUpTo(heads, [i \in 0 .. n |-> -1], n, 0)
  BY DEF LoopUpTo
<1>3. k \in 1 .. n
  BY <1>1, <1>2
<1>4. PICK b : LoopUpTo(heads, b, n, k - 1)
  BY <1>1, <1>3
<1> DEFINE new == Better(heads, k - 1, b[k - 1])
           g == [i \in 0 .. n |-> IF i = k THEN new ELSE b[i]]
<1>5. new \in -1 .. n
  BY <1>3, <1>4 DEF LoopUpTo, Better
<1> HIDE DEF new
<1>6. g \in [0 .. n -> -1 .. n] /\ g[0] = -1 /\ g[k] = new
      /\ \A i \in 0 .. n : i < k => g[i] = b[i]
  BY <1>3, <1>4, <1>5 DEF LoopUpTo
<1> HIDE DEF g
<1>7. ASSUME NEW i \in 1 .. k
      PROVE  g[i] = Better(heads, i - 1, g[i - 1])
  <2>1. g[i - 1] = b[i - 1]
    BY <1>3, <1>6
  <2>2. CASE i = k
    BY <1>6, <2>1, <2>2 DEF new
  <2>3. CASE i < k
    <3>1. i \in 1 .. k - 1 /\ g[i] = b[i]
      BY <1>3, <1>6, <2>3
    <3> QED
      BY <1>4, <2>1, <3>1 DEF LoopUpTo
  <2> QED
    BY <1>3, <2>2, <2>3
<1>8. LoopUpTo(heads, g, n, k)
  BY <1>6, <1>7 DEF LoopUpTo
<1> QED
  BY <1>1, <1>8

LEMMA SelectedIsLoop ==
  ASSUME NEW heads, NEW n \in Nat, DOMAIN heads = 0 .. n - 1
  PROVE  \E b : LoopUpTo(heads, b, n, n) /\ Selected(heads) = b[n]
<1> DEFINE Def(b) == [i \in 0 .. n |->
             IF i = 0 THEN -1
             ELSE IF heads[i - 1] # <<>>
                     /\ (b[i - 1] = -1
                         \/ IsGreaterThan(heads[b[i - 1]][1].stamp, heads[i - 1][1].stamp))
                  THEN i - 1 ELSE b[i - 1]]
           best == CHOOSE b : b = Def(b)
<1>1. Cardinality(DOMAIN heads) = n
  BY FS_Interval
<1>2. Selected(heads) = best[n]
  BY <1>1 DEF Selected
<1>3. PICK f : LoopUpTo(heads, f, n, n)
  BY LoopExists
<1>4. f = Def(f)
  <2>1. ASSUME NEW i \in 0 .. n PROVE f[i] = Def(f)[i]
    <3>1. CASE i = 0
      BY <1>3, <3>1 DEF LoopUpTo
    <3>2. CASE i # 0
      BY <1>3, <3>2 DEF LoopUpTo, Better
    <3> QED
      BY <3>1, <3>2
  <2> QED
    BY <1>3, <2>1 DEF LoopUpTo
<1>5. best = Def(best)
  <2> HIDE DEF Def
  <2> QED
    BY <1>4
<1> HIDE DEF best
<1>6. /\ DOMAIN best = 0 .. n
      /\ \A i \in 0 .. n : best[i] = IF i = 0 THEN -1 ELSE Better(heads, i - 1, best[i - 1])
  <2>1. ASSUME NEW i \in 0 .. n
        PROVE  best[i] = IF i = 0 THEN -1 ELSE Better(heads, i - 1, best[i - 1])
    <3>1. best[i] = Def(best)[i]
      BY <1>5
    <3> QED
      BY <3>1 DEF Better
  <2>2. DOMAIN best = DOMAIN Def(best)
    BY <1>5
  <2> QED
    BY <2>1, <2>2
<1> HIDE DEF Def
<1>7. ASSUME NEW i \in 0 .. n PROVE best[i] \in -1 .. n
  <2> DEFINE Bad == {k \in Nat : k <= n /\ best[k] \notin -1 .. n}
  <2> SUFFICES ASSUME Bad # {} PROVE FALSE
    BY <1>7
  <2>1. PICK k \in Bad : \A j \in Nat : j < k => j \notin Bad
    BY LeastAbove
  <2>2. CASE k = 0
    BY <1>6, <2>1, <2>2
  <2>3. CASE k # 0
    <3>1. k - 1 \in Nat /\ k - 1 < k /\ k - 1 <= n /\ k \in 0 .. n
      BY <2>1, <2>3
    <3>2. best[k - 1] \in -1 .. n
      BY <2>1, <3>1
    <3>3. best[k] = Better(heads, k - 1, best[k - 1])
      BY <1>6, <2>3, <3>1
    <3>4. best[k] \in -1 .. n
      BY <3>1, <3>2, <3>3 DEF Better
    <3> QED
      BY <2>1, <3>4
  <2> QED
    BY <2>2, <2>3
<1>8. best \in [0 .. n -> -1 .. n]
  <2>1. best = [i \in 0 .. n |-> best[i]]
    BY <1>5, <1>6 DEF Def
  <2> QED
    BY <1>7, <2>1
<1>9. LoopUpTo(heads, best, n, n)
  BY <1>6, <1>8 DEF LoopUpTo
<1> QED
  BY <1>2, <1>9

(* The heads of the queues of some ports, stamped within a quarter.        *)
CloseHeads(now, heads) ==
  \A i \in DOMAIN heads : heads[i] # <<>> =>
    /\ heads[i][1].stamp \in Stamps
    /\ \A j \in DOMAIN heads : heads[j] # <<>> =>
         AgeAt(now, heads[i][1].stamp) - AgeAt(now, heads[j][1].stamp) <= Quarter

LEMMA SelectedIsOldest ==
  ASSUME NEW now \in Stamps, NEW heads, NEW n \in Nat, DOMAIN heads = 0 .. n,
         CloseHeads(now, heads)
  PROVE  LET id == Selected(heads)
         IN \/ id = -1 /\ \A j \in DOMAIN heads : heads[j] = <<>>
            \/ /\ id \in DOMAIN heads /\ heads[id] # <<>> /\ id # -1
               /\ \A j \in DOMAIN heads : heads[j] # <<>> =>
                    AgeAt(now, heads[j][1].stamp) <= AgeAt(now, heads[id][1].stamp)
<1> DEFINE age(i) == AgeAt(now, heads[i][1].stamp)
           N == n + 1
           Oldest(i, k) == \/ k = -1 /\ \A j \in 0 .. i - 1 : heads[j] = <<>>
                           \/ /\ k \in 0 .. i - 1 /\ heads[k] # <<>>
                              /\ \A j \in 0 .. i - 1 : heads[j] # <<>> => age(j) <= age(k)
<1>1. N \in Nat /\ DOMAIN heads = 0 .. N - 1
  OBVIOUS
<1>2. PICK b : LoopUpTo(heads, b, N, N) /\ Selected(heads) = b[N]
  BY <1>1, SelectedIsLoop
<1>3. \A i \in 0 .. n : heads[i] # <<>> => age(i) \in Nat
  BY Aging DEF CloseHeads
<1>4. \A i, j \in 0 .. n : heads[i] # <<>> /\ heads[j] # <<>> =>
        (IsGreaterThan(heads[i][1].stamp, heads[j][1].stamp) <=> age(i) < age(j))
  BY GreaterIsYounger DEF CloseHeads
<1> HIDE DEF age
<1> DEFINE Bad == {i \in Nat : i <= N /\ ~Oldest(i, b[i])}
<1>5. Bad = {}
  <2> SUFFICES ASSUME Bad # {} PROVE FALSE
    OBVIOUS
  <2>1. PICK i \in Bad : \A j \in Nat : j < i => j \notin Bad
    BY LeastAbove
  <2>2. b[0] = -1
    BY <1>2 DEF LoopUpTo
  <2>3. i # 0
    BY <2>1, <2>2
  <2> DEFINE h == i - 1
             last == b[h]
  <2>4. h \in 0 .. n /\ h < i /\ h <= N /\ i = h + 1 /\ i \in 1 .. N
    BY <2>1, <2>3
  <2>5. Oldest(h, last)
    BY <2>1, <2>4
  <2>6. b[i] = Better(heads, h, last)
    BY <1>2, <2>4 DEF LoopUpTo
  <2> HIDE DEF h, last
  <2>7. CASE heads[h] = <<>>
    BY <2>1, <2>4, <2>5, <2>6, <2>7 DEF Better
  <2>8. CASE heads[h] # <<>> /\ last = -1
    <3>1. b[i] = h
      BY <2>6, <2>8 DEF Better
    <3>2. \A j \in 0 .. i - 1 : heads[j] # <<>> => j = h
      BY <2>4, <2>5, <2>8
    <3>3. age(h) <= age(h)
      BY <1>3, <2>4, <2>8
    <3> QED
      BY <2>1, <2>4, <2>8, <3>1, <3>2, <3>3
  <2>9. CASE heads[h] # <<>> /\ last # -1
    <3>1. /\ last \in 0 .. h - 1 /\ heads[last] # <<>>
          /\ \A j \in 0 .. h - 1 : heads[j] # <<>> => age(j) <= age(last)
      BY <2>5, <2>9
    <3>2. last \in 0 .. n
      BY <2>4, <3>1
    <3>3. b[i] = IF age(last) < age(h) THEN h ELSE last
      BY <1>4, <2>4, <2>6, <2>9, <3>1, <3>2 DEF Better
    <3>4. age(last) \in Nat /\ age(h) \in Nat /\ \A j \in 0 .. i - 1 : j \in 0 .. h - 1 \/ j = h
      BY <1>3, <2>4, <2>9, <3>1, <3>2
    <3>5. \A j \in 0 .. i - 1 : heads[j] # <<>> => age(j) \in Nat
      BY <1>3, <2>4
    <3>6. CASE age(last) < age(h)
      BY <2>1, <2>4, <2>9, <3>1, <3>3, <3>4, <3>5, <3>6
    <3>7. CASE ~(age(last) < age(h))
      BY <2>1, <2>4, <2>9, <3>1, <3>3, <3>4, <3>5, <3>7
    <3> QED
      BY <3>6, <3>7
  <2> QED
    BY <2>7, <2>8, <2>9
<1>6. Oldest(N, b[N])
  BY <1>1, <1>5
<1> QED
  BY <1>1, <1>2, <1>6 DEF age

-----------------------------------------------------------------------------
(* A line of requests: the repeaters of some ports and the queue that the  *)
(* oldest of their requests enters.                                        *)

Datum == Word \union {Zero}
Entry(op, ports_) ==
  [req : [op : {op}, port : ports_, addr : Addr, data : Datum], stamp : Stamps]

InOrder(now, q) ==
  \A j, k \in DOMAIN q : j < k => AgeAt(now, q[j].stamp) >= AgeAt(now, q[k].stamp)

LineType(op, ports_, stages, queue, rep) ==
  /\ queue \in Seq(Entry(op, ports_)) /\ Len(queue) <= 2
  /\ rep \in [ports_ -> Seq(Entry(op, ports_))]
  /\ \A p \in ports_ : \A k \in DOMAIN rep[p] : rep[p][k].req.port = p
  /\ stages = 0 => \A p \in ports_ : rep[p] = <<>>

(* The queue is in the order of its stamps, no request that waits in a     *)
(* repeater is older than one in the queue, and the queue is empty only if *)
(* they have all just come.                                                *)
LineInv(now, op, ports_, stages, queue, rep) ==
  /\ LineType(op, ports_, stages, queue, rep)
  /\ \A e \in InFlight(queue, rep) : AgeAt(now, e.stamp) >= 1
  /\ InOrder(now, queue)
  /\ \A p \in ports_ :
       /\ InOrder(now, rep[p])
       /\ \A j \in DOMAIN rep[p] :
            /\ \A k \in DOMAIN queue :
                 AgeAt(now, queue[k].stamp) >= AgeAt(now, rep[p][j].stamp)
            /\ queue = <<>> => AgeAt(now, rep[p][j].stamp) = 1

(* In a cycle an entry grows older by one.                                 *)
Ages(now, now2, e) ==
  /\ AgeAt(now, e.stamp) \in Nat
  /\ AgeAt(now2, e.stamp) = AgeAt(now, e.stamp) + 1

HeadsOf(op, ports_, stages, in, rep) ==
  IF stages = 0 THEN [p \in ports_ |-> Stamped(op, p, in)] ELSE rep

(* One edge.                                                               *)
LineEdge(op, ports_, stages, in, queue, rep, leaves, ack, queue2, rep2) ==
  LET heads    == HeadsOf(op, ports_, stages, in, rep)
      id       == Selected(heads)
      accepted == Accepted(id, queue)
  IN /\ ack = Acked(stages, in, rep, id, accepted)
     /\ queue2 = Shifted(queue, leaves, Arriving(heads, id, accepted))
     /\ rep2 = Repeat(stages, op, rep, in, ack, id, accepted)

Newcomer(op, p, in) == [req |-> The(op, p, in), stamp |-> raw_time_stamp]
Newcomers(op, ack, in) == {Newcomer(op, p, in) : p \in ack}

Asks(ports_, in) ==
  /\ DOMAIN in = ports_
  /\ \A p \in ports_ : in[p] # <<>> => in[p][1].addr \in Addr /\ in[p][1].data \in Datum

(* What has been in flight before an edge, and what is after it.           *)
FlightMoves(queue, rep, leaves, new, queue2, rep2) ==
  /\ InFlight(queue2, rep2) \subseteq InFlight(queue, rep) \union new
  /\ new \subseteq InFlight(queue2, rep2)
  /\ \A e \in InFlight(queue, rep) :
       e \in InFlight(queue2, rep2) \/ (leaves /\ e = queue[1])

LEMMA NewcomerType ==
  ASSUME NEW op, NEW P, NEW in, Asks(P, in), raw_time_stamp \in Stamps,
         NEW p \in P, in[p] # <<>>
  PROVE  /\ Newcomer(op, p, in) \in Entry(op, P)
         /\ Newcomer(op, p, in).req.port = p
         /\ Newcomer(op, p, in).stamp = raw_time_stamp
         /\ Stamped(op, p, in) = <<Newcomer(op, p, in)>>
BY DEF Newcomer, Entry, The, Asks, Stamped, Nobody

LEMMA FlightMembers ==
  ASSUME NEW queue, NEW rep
  PROVE  /\ \A k \in DOMAIN queue : queue[k] \in InFlight(queue, rep)
         /\ \A p \in DOMAIN rep : \A k \in DOMAIN rep[p] : rep[p][k] \in InFlight(queue, rep)
         /\ \A e \in InFlight(queue, rep) :
              \/ \E k \in DOMAIN queue : e = queue[k]
              \/ \E p \in DOMAIN rep : \E k \in DOMAIN rep[p] : e = rep[p][k]
BY DEF InFlight

(* The elements of a queue after an edge.                                  *)
LEMMA JoinFacts ==
  ASSUME NEW E, NEW b \in Seq(E), NEW a \in Seq(E)
  PROVE  /\ b \o a \in Seq(E) /\ Len(b \o a) = Len(b) + Len(a)
         /\ \A k \in 1 .. Len(b) : (b \o a)[k] = b[k]
         /\ \A k \in 1 .. Len(a) : (b \o a)[Len(b) + k] = a[k]
         /\ DOMAIN (b \o a) = 1 .. Len(b) + Len(a)
OBVIOUS

One(yes) == IF yes THEN 1 ELSE 0
If(comes, x) == IF comes THEN <<x>> ELSE <<>>

IsShift(E, q, leaves, comes, x, s, d, n) ==
  /\ s \in Seq(E) /\ n \in Nat /\ Len(s) = n + One(comes)
  /\ d \in {0, 1} /\ (d = 1 <=> leaves) /\ Len(q) = n + d
  /\ \A k \in DOMAIN s :
       \/ k \in 1 .. n /\ k + d \in DOMAIN q /\ s[k] = q[k + d]
       \/ comes /\ k = n + 1 /\ s[k] = x
  /\ \A k \in DOMAIN q :
       \/ k - d \in DOMAIN s /\ s[k - d] = q[k]
       \/ leaves /\ k = 1
  /\ comes => n + 1 \in DOMAIN s /\ s[n + 1] = x

LEMMA ShiftFacts ==
  ASSUME NEW E, NEW q \in Seq(E), NEW leaves \in BOOLEAN, leaves => q # <<>>,
         NEW x, NEW comes \in BOOLEAN, comes => x \in E,
         NEW s, s = Shifted(q, leaves, If(comes, x))
  PROVE  \E d, n : IsShift(E, q, leaves, comes, x, s, d, n)
<1> DEFINE a == If(comes, x)
           d == One(leaves)
           b == IF leaves THEN Tail(q) ELSE q
           n == Len(q) - d
           c == One(comes)
<1>1. b \in Seq(E) /\ Len(b) = n /\ n \in Nat /\ \A k \in 1 .. n : b[k] = q[k + d]
  BY DEF One
<1>2. /\ a \in Seq(E) /\ Len(a) = c /\ (comes => a[1] = x)
      /\ d \in {0, 1} /\ (d = 1 <=> leaves)
      /\ c \in {0, 1} /\ (c = 1 <=> comes)
      /\ DOMAIN q = 1 .. Len(q) /\ Len(q) \in Nat /\ Len(q) = n + d
  BY DEF One, If
<1>3. s = b \o a
  BY DEF Shifted
<1> HIDE DEF a, b, d, n, c
<1>4. /\ s \in Seq(E) /\ Len(s) = n + c
      /\ \A k \in 1 .. n : s[k] = b[k]
      /\ \A k \in 1 .. c : s[n + k] = a[k]
      /\ DOMAIN s = 1 .. n + c
  BY <1>1, <1>2, <1>3, JoinFacts
<1>5. ASSUME comes PROVE n + 1 \in DOMAIN s /\ s[n + 1] = x
  <2>1. c = 1 /\ a[1] = x
    BY <1>2, <1>5
  <2> QED
    BY <1>1, <1>4, <2>1
<1>6. \A k \in DOMAIN s :
        \/ k \in 1 .. n /\ k + d \in DOMAIN q /\ s[k] = q[k + d]
        \/ comes /\ k = n + 1 /\ s[k] = x
  <2> SUFFICES ASSUME NEW k \in DOMAIN s
               PROVE  \/ k \in 1 .. n /\ k + d \in DOMAIN q /\ s[k] = q[k + d]
                      \/ comes /\ k = n + 1 /\ s[k] = x
    OBVIOUS
  <2>1. CASE k \in 1 .. n
    <3>1. s[k] = q[k + d]
      BY <1>1, <1>4, <2>1
    <3>2. k + d \in 1 .. n + d
      BY <1>1, <1>2, <2>1
    <3> QED
      BY <1>2, <2>1, <3>1, <3>2
  <2>2. CASE k \notin 1 .. n
    <3>1. c = 1 /\ k = n + 1
      BY <1>1, <1>2, <1>4, <2>2
    <3> QED
      BY <1>2, <1>5, <3>1
  <2> QED
    BY <2>1, <2>2
<1>7. \A k \in DOMAIN q :
        \/ k - d \in DOMAIN s /\ s[k - d] = q[k]
        \/ leaves /\ k = 1
  <2> SUFFICES ASSUME NEW k \in DOMAIN q
               PROVE  \/ k - d \in DOMAIN s /\ s[k - d] = q[k]
                      \/ leaves /\ k = 1
    OBVIOUS
  <2> DEFINE i == k - d
  <2>1. k \in 1 .. n + d /\ i \in Int /\ i + d = k
    BY <1>1, <1>2
  <2> HIDE DEF i
  <2>2. CASE k > d
    <3>1. i \in 1 .. n
      BY <1>1, <1>2, <2>1, <2>2
    <3>2. i \in DOMAIN s /\ s[i] = q[k]
      BY <1>1, <1>2, <1>4, <2>1, <3>1
    <3> QED
      BY <3>2 DEF i
  <2>3. CASE ~(k > d)
    BY <1>2, <2>1, <2>3
  <2> QED
    BY <2>2, <2>3
<1>8. IsShift(E, q, leaves, comes, x, s, d, n)
  BY <1>1, <1>2, <1>4, <1>5, <1>6, <1>7 DEF IsShift, c
<1> QED
  BY <1>8

(* A queue stays in the order of its stamps if what it takes in is younger *)
(* than what it holds.                                                     *)
LEMMA OrderAfter ==
  ASSUME NEW E, NEW q \in Seq(E), NEW leaves \in BOOLEAN, leaves => q # <<>>,
         NEW x, NEW comes \in BOOLEAN, comes => x \in E, NEW now, NEW now2,
         \A k \in DOMAIN q : Ages(now, now2, q[k]),
         InOrder(now, q),
         comes => \A k \in DOMAIN q : AgeAt(now2, q[k].stamp) >= AgeAt(now2, x.stamp),
         NEW s, s = Shifted(q, leaves, If(comes, x))
  PROVE  InOrder(now2, s)
<1> DEFINE age2(e) == AgeAt(now2, e.stamp)
<1>1. PICK d, n : IsShift(E, q, leaves, comes, x, s, d, n)
  BY ShiftFacts
<1>2. /\ n \in Nat /\ d \in {0, 1}
      /\ \A k \in DOMAIN s :
           \/ k \in 1 .. n /\ k + d \in DOMAIN q /\ s[k] = q[k + d]
           \/ comes /\ k = n + 1 /\ s[k] = x
  BY <1>1 DEF IsShift
<1>3. \A j, k \in DOMAIN q : j < k => age2(q[j]) >= age2(q[k])
  BY DEF InOrder, Ages
<1>4. comes => \A k \in DOMAIN q : age2(q[k]) >= age2(x)
  OBVIOUS
<1> SUFFICES ASSUME NEW j \in DOMAIN s, NEW k \in DOMAIN s, j < k
             PROVE  age2(s[j]) >= age2(s[k])
  BY DEF InOrder
<1> HIDE DEF age2
<1>5. j \in 1 .. n /\ j + d \in DOMAIN q /\ s[j] = q[j + d]
  BY <1>2
<1>6. CASE k \in 1 .. n /\ k + d \in DOMAIN q /\ s[k] = q[k + d]
  <2>1. j + d < k + d
    BY <1>2, <1>5, <1>6
  <2> QED
    BY <1>3, <1>5, <1>6, <2>1
<1>7. CASE comes /\ s[k] = x
  BY <1>4, <1>5, <1>7
<1> QED
  BY <1>2, <1>6, <1>7

(* Without repeaters: what enters the queue has just been made.            *)
LEMMA FlightAges ==
  ASSUME NEW op, NEW P, NEW stages, NEW queue, NEW rep, raw_time_stamp \in Stamps,
         LineType(op, P, stages, queue, rep),
         NEW e \in InFlight(queue, rep), AgeAt(raw_time_stamp, e.stamp) < Turn - 1
  PROVE  /\ e \in Entry(op, P)
         /\ Ages(raw_time_stamp, IncrementSLV(raw_time_stamp), e)
<1>1. e \in Entry(op, P)
  <2>1. queue \in Seq(Entry(op, P)) /\ rep \in [P -> Seq(Entry(op, P))]
    BY DEF LineType
  <2>2. CASE \E k \in DOMAIN queue : e = queue[k]
    BY <2>1, <2>2
  <2>3. CASE \E p \in DOMAIN rep : \E k \in DOMAIN rep[p] : e = rep[p][k]
    BY <2>1, <2>3
  <2> QED
    BY <2>2, <2>3, FlightMembers
<1>2. e.stamp \in Stamps
  BY <1>1 DEF Entry
<1> QED
  BY <1>1, <1>2, Aging DEF Ages

(* The lines as they are when an edge comes.                               *)
EdgeFrom(op, n, stages, in, queue, rep, leaves, ack, queue2, rep2) ==
  /\ n \in Nat /\ raw_time_stamp \in Stamps
  /\ LineInv(raw_time_stamp, op, 0 .. n, stages, queue, rep)
  /\ Asks(0 .. n, in)
  /\ \A e \in InFlight(queue, rep) : AgeAt(raw_time_stamp, e.stamp) < Turn - 1
  /\ CloseHeads(raw_time_stamp, HeadsOf(op, 0 .. n, stages, in, rep))
  /\ leaves \in BOOLEAN /\ (leaves => queue # <<>>)
  /\ LineEdge(op, 0 .. n, stages, in, queue, rep, leaves, ack, queue2, rep2)

(* What the edge does to them: if "comes", x of port id enters the queue.  *)
LineMoves(op, n, stages, in, queue, rep, leaves, ack, queue2, rep2, id, comes, x) ==
  /\ comes \in BOOLEAN /\ (comes => id \in 0 .. n /\ Len(queue) < 2 /\ x.req.port = id)
  /\ comes => x \in Entry(op, 0 .. n)
  /\ queue2 = Shifted(queue, leaves, If(comes, x))
  /\ ack \subseteq {p \in 0 .. n : in[p] # <<>>}
  /\ stages = 0 =>
       /\ rep2 = rep /\ ack = (IF comes THEN {id} ELSE {})
       /\ comes => x = Newcomer(op, id, in)
  /\ stages # 0 =>
       /\ rep2 = [p \in 0 .. n |->
                    Shifted(rep[p], comes /\ p = id, If(p \in ack, Newcomer(op, p, in)))]
       /\ comes =>
            /\ rep[id] # <<>> /\ x = rep[id][1]
            /\ \A p \in 0 .. n : rep[p] # <<>> =>
                 AgeAt(raw_time_stamp, rep[p][1].stamp) <= AgeAt(raw_time_stamp, x.stamp)
       /\ ~comes => Len(queue) = 2 \/ \A p \in 0 .. n : rep[p] = <<>>

(* Without repeaters what enters the queue has just been made.             *)
LEMMA DirectMoves ==
  ASSUME NEW op, NEW n, NEW in, NEW queue, NEW rep, NEW leaves, NEW ack, NEW queue2, NEW rep2,
         EdgeFrom(op, n, 0, in, queue, rep, leaves, ack, queue2, rep2)
  PROVE  \E id, comes, x :
           LineMoves(op, n, 0, in, queue, rep, leaves, ack, queue2, rep2, id, comes, x)
<1> DEFINE P == 0 .. n
           heads == HeadsOf(op, P, 0, in, rep)
           id == Selected(heads)
           comes == Accepted(id, queue)
           x == Newcomer(op, id, in)
<1> USE DEF EdgeFrom
<1>1. \/ id = -1
      \/ id \in P /\ heads[id] # <<>> /\ id # -1
  BY SelectedIsOldest DEF HeadsOf
<1>2. comes \in BOOLEAN /\ (comes => id # -1 /\ Len(queue) < 2)
  BY DEF Accepted, Room, QueueDepth
<1>3. ASSUME comes
      PROVE  id \in P /\ in[id] # <<>> /\ heads[id] = <<x>> /\ x \in Entry(op, P) /\ x.req.port = id
  <2>1. id \in P /\ heads[id] # <<>> /\ heads[id] = Stamped(op, id, in)
    BY <1>1, <1>2, <1>3 DEF HeadsOf
  <2>2. Asks(P, in) /\ raw_time_stamp \in Stamps
    OBVIOUS
  <2> HIDE DEF id, heads, P, EdgeFrom
  <2>3. in[id] # <<>>
    BY <2>1 DEF Stamped, Nobody
  <2> QED
    BY <2>1, <2>2, <2>3, NewcomerType
<1>4. ack = IF comes THEN {id} ELSE {}
  <2>1. ack = {p \in DOMAIN in : in[p] # Nobody /\ comes /\ p = id} /\ DOMAIN in = P
    BY DEF LineEdge, Acked, Asks
  <2> HIDE DEF comes, id, P
  <2> QED
    BY <1>2, <1>3, <2>1 DEF Nobody
<1>5. rep2 = rep
  <2>1. rep2 = [p \in DOMAIN rep |-> <<>>] /\ rep \in [P -> Seq(Entry(op, P))]
    BY DEF LineEdge, Repeat, LineInv, LineType
  <2>2. \A p \in P : rep[p] = <<>>
    BY DEF LineInv, LineType
  <2> QED
    BY <2>1, <2>2
<1>6. queue2 = Shifted(queue, leaves, IF comes THEN <<heads[id][1]>> ELSE <<>>)
  BY DEF LineEdge, Arriving
<1> HIDE DEF id, heads, comes, x, EdgeFrom
<1>7. queue2 = Shifted(queue, leaves, If(comes, x))
  BY <1>3, <1>6 DEF If
<1>8. comes => x = Newcomer(op, id, in)
  BY DEF x
<1>9. LineMoves(op, n, 0, in, queue, rep, leaves, ack, queue2, rep2, id, comes, x)
  BY <1>2, <1>3, <1>4, <1>5, <1>7, <1>8 DEF LineMoves
<1> QED
  BY <1>9

(* With repeaters it is the oldest request that waits in one.              *)
LEMMA RepeatedMoves ==
  ASSUME NEW op, NEW n, NEW stages, stages # 0, NEW in, NEW queue, NEW rep, NEW leaves,
         NEW ack, NEW queue2, NEW rep2,
         EdgeFrom(op, n, stages, in, queue, rep, leaves, ack, queue2, rep2)
  PROVE  \E id, comes, x :
           LineMoves(op, n, stages, in, queue, rep, leaves, ack, queue2, rep2, id, comes, x)
<1> DEFINE P == 0 .. n
           id == Selected(rep)
           comes == Accepted(id, queue)
           x == rep[id][1]
<1>1. /\ n \in Nat /\ raw_time_stamp \in Stamps /\ LineType(op, P, stages, queue, rep)
      /\ CloseHeads(raw_time_stamp, rep) /\ Asks(P, in)
      /\ ack = Acked(stages, in, rep, id, comes)
      /\ queue2 = Shifted(queue, leaves, Arriving(rep, id, comes))
      /\ rep2 = Repeat(stages, op, rep, in, ack, id, comes)
  BY DEF EdgeFrom, LineEdge, HeadsOf, LineInv
<1>2. rep \in [P -> Seq(Entry(op, P))] /\ DOMAIN rep = P /\ Len(queue) <= 2 /\ Len(queue) \in Nat
  BY <1>1 DEF LineType
<1>3. \/ id = -1 /\ \A p \in P : rep[p] = <<>>
      \/ /\ id \in P /\ rep[id] # <<>> /\ id # -1
         /\ \A p \in P : rep[p] # <<>> =>
              AgeAt(raw_time_stamp, rep[p][1].stamp) <= AgeAt(raw_time_stamp, rep[id][1].stamp)
  BY <1>1, <1>2, SelectedIsOldest
<1>4. comes \in BOOLEAN /\ (comes <=> id # -1 /\ Len(queue) < 2)
  BY DEF Accepted, Room, QueueDepth
<1> HIDE DEF id, comes
<1>5. comes => /\ id \in P /\ Len(queue) < 2 /\ x.req.port = id
               /\ x \in Entry(op, P) /\ rep[id] # <<>>
               /\ \A p \in P : rep[p] # <<>> =>
                    AgeAt(raw_time_stamp, rep[p][1].stamp) <= AgeAt(raw_time_stamp, x.stamp)
  <2>1. \A p \in P : rep[p] # <<>> => rep[p][1] \in Entry(op, P) /\ 1 \in DOMAIN rep[p]
    BY <1>2
  <2> QED
    BY <1>1, <1>3, <1>4, <2>1 DEF LineType
<1>6. ~comes => Len(queue) = 2 \/ \A p \in P : rep[p] = <<>>
  <2>1. id = -1 => \A p \in P : rep[p] = <<>>
    BY <1>3
  <2>2. ASSUME ~comes, id # -1 PROVE Len(queue) = 2
    <3> DEFINE l == Len(queue)
    <3>1. ~(l < 2)
      BY <1>4, <2>2, Zenon
    <3>2. l \in Nat /\ l <= 2
      BY <1>2
    <3> HIDE DEF l
    <3>3. l = 2
      BY <3>1, <3>2
    <3> QED
      BY <3>3 DEF l
  <2> QED
    BY <2>1, <2>2
<1>7. queue2 = Shifted(queue, leaves, If(comes, x))
  BY <1>1 DEF Arriving, If
<1>8. ack \subseteq {p \in P : in[p] # <<>>}
  BY <1>1 DEF Acked, Asks, Nobody
<1>9. rep2 = [p \in P |-> Shifted(rep[p], comes /\ p = id, If(p \in ack, Newcomer(op, p, in)))]
  <2>1. rep2 = [p \in P |-> Shifted(rep[p], comes /\ p = id,
                                    IF p \in ack THEN Stamped(op, p, in) ELSE <<>>)]
    BY <1>1, <1>2 DEF Repeat
  <2>2. ASSUME NEW p \in ack PROVE Stamped(op, p, in) = <<Newcomer(op, p, in)>>
    <3>1. p \in P /\ in[p] # <<>>
      BY <1>8
    <3>2. Asks(P, in) /\ raw_time_stamp \in Stamps
      BY <1>1
    <3> HIDE DEF P, x
    <3> QED
      BY <3>1, <3>2 DEF Stamped, Newcomer, Nobody
  <2>3. \A p \in P : (IF p \in ack THEN Stamped(op, p, in) ELSE <<>>)
                       = If(p \in ack, Newcomer(op, p, in))
    BY <2>2 DEF If
  <2> QED
    BY <2>1, <2>3
<1> HIDE DEF x
<1>10. comes => x = rep[id][1]
  BY DEF x
<1>11. LineMoves(op, n, stages, in, queue, rep, leaves, ack, queue2, rep2, id, comes, x)
  BY <1>4, <1>5, <1>6, <1>7, <1>8, <1>9, <1>10 DEF LineMoves
<1> QED
  BY <1>11

(* The line after an edge, whose requests are all a cycle older.           *)
LEMMA LineAfter ==
  ASSUME NEW op, NEW n, NEW stages, NEW in, NEW queue, NEW rep, NEW leaves, NEW ack,
         NEW queue2, NEW rep2,
         EdgeFrom(op, n, stages, in, queue, rep, leaves, ack, queue2, rep2),
         NEW id, NEW comes, NEW x,
         LineMoves(op, n, stages, in, queue, rep, leaves, ack, queue2, rep2, id, comes, x)
  PROVE  /\ LineInv(IncrementSLV(raw_time_stamp), op, 0 .. n, stages, queue2, rep2)
         /\ FlightMoves(queue, rep, leaves, Newcomers(op, ack, in), queue2, rep2)
<1> DEFINE P == 0 .. n
           E == Entry(op, P)
           now == raw_time_stamp
           now2 == IncrementSLV(raw_time_stamp)
           new(p) == Newcomer(op, p, in)
           age(e) == AgeAt(now, e.stamp)
           age2(e) == AgeAt(now2, e.stamp)
           Flight == InFlight(queue, rep)
<1>1. /\ queue \in Seq(E) /\ Len(queue) <= 2 /\ rep \in [P -> Seq(E)]
      /\ leaves \in BOOLEAN /\ (leaves => queue # <<>>)
      /\ comes \in BOOLEAN /\ (comes => x \in E)
      /\ queue2 = Shifted(queue, leaves, If(comes, x))
      /\ InOrder(now, queue) /\ LineType(op, P, stages, queue, rep)
  BY DEF EdgeFrom, LineInv, LineType, LineMoves
<1>2. ASSUME NEW e \in Flight
      PROVE  e \in E /\ Ages(now, now2, e) /\ age(e) >= 1 /\ age(e) \in Nat /\ age2(e) = age(e) + 1
  <2>1. e \in E /\ Ages(now, now2, e)
    BY <1>1, FlightAges DEF EdgeFrom
  <2>2. age(e) >= 1
    BY DEF EdgeFrom, LineInv
  <2> QED
    BY <2>1, <2>2 DEF Ages
<1>3. ASSUME NEW p \in ack
      PROVE  p \in P /\ new(p) \in E /\ new(p).req.port = p /\ age2(new(p)) = 1
  <2>1. p \in P /\ in[p] # <<>> /\ Asks(P, in) /\ now \in Stamps
    BY DEF EdgeFrom, LineMoves
  <2>2. new(p) \in E /\ new(p).req.port = p /\ new(p).stamp = now
    <3> HIDE DEF P
    <3> QED
      BY <2>1, NewcomerType
  <2> QED
    BY <2>1, <2>2, Aging
<1>4. /\ \A k \in DOMAIN queue : queue[k] \in Flight
      /\ \A p \in P : \A k \in DOMAIN rep[p] : rep[p][k] \in Flight
  BY <1>1, FlightMembers
<1>5. /\ \A p \in P : \A k \in DOMAIN rep[p] : rep[p][k].req.port = p
      /\ \A p \in P : InOrder(now, rep[p])
      /\ \A p \in P : \A j \in DOMAIN rep[p] : \A k \in DOMAIN queue :
           age(queue[k]) >= age(rep[p][j])
      /\ stages = 0 => \A p \in P : rep[p] = <<>>
  BY DEF EdgeFrom, LineInv, LineType
<1>6. PICK d, m : IsShift(E, queue, leaves, comes, x, queue2, d, m)
  BY <1>1, ShiftFacts
<1>7. /\ stages = 0 => /\ rep2 = rep /\ ack = (IF comes THEN {id} ELSE {})
                       /\ comes => x = new(id)
      /\ stages # 0 =>
           /\ rep2 = [p \in P |-> Shifted(rep[p], comes /\ p = id, If(p \in ack, new(p)))]
           /\ comes => /\ rep[id] # <<>> /\ x = rep[id][1] /\ id \in P
                       /\ \A p \in P : rep[p] # <<>> => age(rep[p][1]) <= age(x)
           /\ ~comes => Len(queue) = 2 \/ \A p \in P : rep[p] = <<>>
  BY DEF LineMoves
<1> DEFINE Left == InFlight(queue2, rep2)
<1> HIDE DEF P, E, now, now2, new, age, age2, Flight, Left
<1>8. ASSUME comes, stages # 0
      PROVE  /\ x \in Flight /\ id \in P /\ 1 \in DOMAIN rep[id]
             /\ \A p \in P : \A k \in DOMAIN rep[p] : age(rep[p][k]) <= age(x)
  <2>1. \A p \in P : \A k \in DOMAIN rep[p] : k \in Nat /\ k >= 1 /\ 1 \in DOMAIN rep[p] /\ rep[p] # <<>>
    BY <1>1
  <2>2. id \in P /\ 1 \in DOMAIN rep[id] /\ x \in Flight
    BY <1>1, <1>4, <1>7, <1>8
  <2>3. ASSUME NEW p \in P, NEW k \in DOMAIN rep[p]
        PROVE  age(rep[p][k]) <= age(x)
    <3>1. age(rep[p][1]) <= age(x) /\ 1 \in DOMAIN rep[p] /\ k \in Nat /\ k >= 1
      BY <1>7, <1>8, <2>1
    <3>2. age(rep[p][1]) >= age(rep[p][k])
      <4>1. CASE k = 1
        BY <1>2, <1>4, <3>1, <4>1
      <4>2. CASE k > 1
        BY <1>5, <3>1, <4>2 DEF InOrder, age
      <4> QED
        BY <3>1, <4>1, <4>2
    <3>3. age(rep[p][1]) \in Nat /\ age(rep[p][k]) \in Nat /\ age(x) \in Nat
      BY <1>2, <1>4, <2>2, <3>1
    <3> QED
      BY <3>1, <3>2, <3>3
  <2> QED
    BY <2>2, <2>3
<1>9. ASSUME comes
      PROVE  age2(x) >= 1 /\ \A k \in DOMAIN queue : age2(queue[k]) >= age2(x)
  <2>1. CASE stages = 0
    <3>1. id \in ack /\ x = new(id)
      BY <1>7, <1>9, <2>1
    <3> QED
      BY <1>2, <1>3, <1>4, <3>1
  <2>2. CASE stages # 0
    <3>1. id \in P /\ 1 \in DOMAIN rep[id] /\ x \in Flight /\ x = rep[id][1]
      BY <1>7, <1>8, <1>9, <2>2
    <3>2. \A k \in DOMAIN queue : age(queue[k]) >= age(x)
      BY <1>5, <3>1
    <3> QED
      BY <1>2, <1>4, <3>1, <3>2
  <2> QED
    BY <2>1, <2>2
<1>10. InOrder(now2, queue2)
  <2>1. \A k \in DOMAIN queue : Ages(now, now2, queue[k])
    BY <1>2, <1>4
  <2>2. comes => \A k \in DOMAIN queue : AgeAt(now2, queue[k].stamp) >= AgeAt(now2, x.stamp)
    BY <1>9 DEF age2
  <2> QED
    BY <1>1, <2>1, <2>2, OrderAfter
<1>11. /\ queue2 \in Seq(E) /\ Len(queue2) <= 2
       /\ \A k \in DOMAIN queue2 : queue2[k] \in {queue[j] : j \in DOMAIN queue} \/ (comes /\ queue2[k] = x)
       /\ \A k \in DOMAIN queue : queue[k] \in {queue2[j] : j \in DOMAIN queue2} \/ (leaves /\ k = 1)
       /\ comes => x \in {queue2[j] : j \in DOMAIN queue2}
  <2>1. Len(queue2) <= 2
    <3> DEFINE l == Len(queue)
               l2 == Len(queue2)
    <3>1. /\ l2 = m + One(comes) /\ m \in Nat /\ d \in {0, 1} /\ l = m + d /\ l \in Nat
          /\ l <= 2 /\ (comes => l < 2)
      BY <1>1, <1>6 DEF IsShift, LineMoves
    <3> HIDE DEF l, l2
    <3>2. l2 <= 2
      BY <1>1, <3>1 DEF One
    <3> QED
      BY <3>2 DEF l2
  <2>2. queue2 \in Seq(E)
    BY <1>6 DEF IsShift
  <2>3. \A k \in DOMAIN queue2 : queue2[k] \in {queue[j] : j \in DOMAIN queue} \/ (comes /\ queue2[k] = x)
    BY <1>6 DEF IsShift
  <2>4. \A k \in DOMAIN queue : queue[k] \in {queue2[j] : j \in DOMAIN queue2} \/ (leaves /\ k = 1)
    BY <1>6 DEF IsShift
  <2>5. comes => x \in {queue2[j] : j \in DOMAIN queue2}
    BY <1>6 DEF IsShift
  <2> QED
    BY <2>1, <2>2, <2>3, <2>4, <2>5
<1>12. CASE stages = 0
  <2>1. rep2 = rep /\ (\A p \in P : rep[p] = <<>>) /\ DOMAIN rep = P /\ DOMAIN rep2 = P
    BY <1>1, <1>5, <1>7, <1>12
  <2>2. (comes => x = new(id) /\ ack = {id}) /\ (~comes => ack = {})
    BY <1>7, <1>12
  <2>3. \A e : e \in Flight <=> \E k \in DOMAIN queue : e = queue[k]
    BY <2>1, FlightMembers DEF Flight
  <2>4. \A e : e \in Left <=> \E k \in DOMAIN queue2 : e = queue2[k]
    BY <2>1, FlightMembers DEF Left
  <2>5. LineType(op, P, stages, queue2, rep2)
    BY <1>1, <1>11, <2>1 DEF LineType, E
  <2>6. \A e \in Left : age2(e) >= 1
    <3>1. \A k \in DOMAIN queue : age2(queue[k]) >= 1
      BY <1>2, <1>4
    <3>2. comes => age2(x) >= 1
      BY <1>9
    <3> QED
      BY <1>11, <2>4, <3>1, <3>2
  <2>7. LineInv(now2, op, P, stages, queue2, rep2)
    <3>1. \A p \in P : InOrder(now2, rep2[p]) /\ DOMAIN rep2[p] = {}
      BY <2>1 DEF InOrder
    <3>2. \A e \in InFlight(queue2, rep2) : AgeAt(now2, e.stamp) >= 1
      BY <2>6 DEF Left, age2
    <3> QED
      BY <1>10, <2>5, <3>1, <3>2 DEF LineInv
  <2>8. Newcomers(op, ack, in) = IF comes THEN {x} ELSE {}
    BY <1>1, <2>2 DEF Newcomers, new
  <2>9. FlightMoves(queue, rep, leaves, Newcomers(op, ack, in), queue2, rep2)
    <3>1. Left \subseteq Flight \union Newcomers(op, ack, in)
      BY <1>11, <2>3, <2>4, <2>8
    <3>2. Newcomers(op, ack, in) \subseteq Left
      BY <1>11, <2>4, <2>8
    <3>3. \A e \in Flight : e \in Left \/ (leaves /\ e = queue[1])
      BY <1>11, <2>3, <2>4
    <3> QED
      BY <3>1, <3>2, <3>3 DEF FlightMoves, Flight, Left
  <2> QED
    BY <2>7, <2>9 DEF P, now2
<1>13. CASE stages # 0
  <2> DEFINE out(p) == comes /\ p = id
  <2>1. ASSUME NEW p \in P
        PROVE  \E dp, mp : IsShift(E, rep[p], out(p), p \in ack, new(p), rep2[p], dp, mp)
    <3>1. rep2[p] = Shifted(rep[p], out(p), If(p \in ack, new(p)))
      BY <1>7, <1>13
    <3>2. out(p) => rep[p] # <<>>
      BY <1>7, <1>13
    <3>3. out(p) \in BOOLEAN /\ rep[p] \in Seq(E) /\ (p \in ack => new(p) \in E)
          /\ (p \in ack) \in BOOLEAN
      BY <1>1, <1>3
    <3> HIDE DEF out
    <3> QED
      BY <3>1, <3>2, <3>3, ShiftFacts
  <2>2. DOMAIN rep = P /\ DOMAIN rep2 = P
    BY <1>1, <1>7, <1>13
  <2>3. ASSUME NEW p \in P
        PROVE  /\ rep2[p] \in Seq(E)
               /\ \A k \in DOMAIN rep2[p] : \/ \E j \in DOMAIN rep[p] : rep2[p][k] = rep[p][j]
                                            \/ p \in ack /\ rep2[p][k] = new(p)
               /\ \A k \in DOMAIN rep[p] : \/ \E j \in DOMAIN rep2[p] : rep[p][k] = rep2[p][j]
                                           \/ out(p) /\ k = 1
               /\ p \in ack => \E j \in DOMAIN rep2[p] : new(p) = rep2[p][j]
    <3>1. PICK dp, mp : IsShift(E, rep[p], out(p), p \in ack, new(p), rep2[p], dp, mp)
      BY <2>1
    <3> HIDE DEF out
    <3> QED
      BY <3>1 DEF IsShift
  <2>4. ASSUME NEW p \in P PROVE InOrder(now2, rep2[p])
    <3>1. rep2[p] = Shifted(rep[p], out(p), If(p \in ack, new(p)))
      BY <1>7, <1>13
    <3>2. out(p) => rep[p] # <<>>
      BY <1>7, <1>13
    <3>3. out(p) \in BOOLEAN /\ rep[p] \in Seq(E) /\ (p \in ack => new(p) \in E)
          /\ (p \in ack) \in BOOLEAN
      BY <1>1, <1>3
    <3>4. \A k \in DOMAIN rep[p] : Ages(now, now2, rep[p][k])
      BY <1>2, <1>4
    <3>5. p \in ack =>
            \A k \in DOMAIN rep[p] : AgeAt(now2, rep[p][k].stamp) >= AgeAt(now2, new(p).stamp)
      <4>1. p \in ack => \A k \in DOMAIN rep[p] : age2(rep[p][k]) >= age2(new(p))
        BY <1>2, <1>3, <1>4
      <4> QED
        BY <4>1 DEF age2
    <3>6. InOrder(now, rep[p])
      BY <1>5
    <3> HIDE DEF out
    <3> QED
      BY <3>1, <3>2, <3>3, <3>4, <3>5, <3>6, OrderAfter
  <2>5. LineType(op, P, stages, queue2, rep2)
    <3>1. rep2 \in [P -> Seq(E)]
      <4>1. rep2 = [p \in P |-> rep2[p]]
        BY <1>7, <1>13
      <4> QED
        BY <2>3, <4>1
    <3>2. \A p \in P : \A k \in DOMAIN rep2[p] : rep2[p][k].req.port = p
      BY <1>3, <1>5, <2>3
    <3> QED
      BY <1>11, <1>13, <3>1, <3>2 DEF LineType, E
  <2>6. \A e : e \in Flight <=> \/ \E k \in DOMAIN queue : e = queue[k]
                                \/ \E p \in P : \E k \in DOMAIN rep[p] : e = rep[p][k]
    BY <2>2, FlightMembers DEF Flight
  <2>7. \A e : e \in Left <=> \/ \E k \in DOMAIN queue2 : e = queue2[k]
                              \/ \E p \in P : \E k \in DOMAIN rep2[p] : e = rep2[p][k]
    BY <2>2, FlightMembers DEF Left
  <2>8. Newcomers(op, ack, in) = {new(p) : p \in ack} /\ ack \subseteq P
    BY <1>3 DEF Newcomers, new
  <2>9. comes => x \in Flight /\ x = rep[id][1] /\ id \in P
    BY <1>7, <1>8, <1>13
  <2>10. Left \subseteq Flight \union Newcomers(op, ack, in)
    BY <1>11, <2>3, <2>6, <2>7, <2>8, <2>9
  <2>11. Newcomers(op, ack, in) \subseteq Left
    BY <2>3, <2>7, <2>8
  <2>12. \A e \in Flight : e \in Left \/ (leaves /\ e = queue[1])
    BY <1>11, <2>3, <2>6, <2>7, <2>9
  <2>13. \A e \in Left : age2(e) >= 1
    BY <1>2, <1>3, <2>8, <2>10
  <2>14. ASSUME NEW p \in P, NEW j \in DOMAIN rep2[p]
         PROVE  /\ \A k \in DOMAIN queue2 : age2(queue2[k]) >= age2(rep2[p][j])
                /\ queue2 = <<>> => age2(rep2[p][j]) = 1
    <3> DEFINE e == rep2[p][j]
    <3>1. CASE p \in ack /\ e = new(p)
      <4>1. \A k \in DOMAIN queue2 : queue2[k] \in Left
        BY <2>7
      <4>2. age2(e) = 1 /\ \A k \in DOMAIN queue2 : age2(queue2[k]) >= 1
        BY <1>3, <2>13, <3>1, <4>1
      <4> QED
        BY <4>2
    <3>2. CASE \E i \in DOMAIN rep[p] : e = rep[p][i]
      <4>1. PICK i \in DOMAIN rep[p] : e = rep[p][i]
        BY <3>2
      <4> HIDE DEF e
      <4>2. e \in Flight /\ rep[p] # <<>>
        BY <1>1, <1>4, <4>1
      <4>3. \A k \in DOMAIN queue : age2(queue[k]) >= age2(e)
        BY <1>2, <1>4, <1>5, <4>1, <4>2
      <4>4. comes => age2(x) >= age2(e)
        BY <1>2, <1>8, <1>13, <4>1, <4>2
      <4>5. queue2 # <<>>
        <5>1. CASE comes
          BY <1>11, <5>1
        <5>2. CASE ~comes
          <6> DEFINE l == Len(queue)
                     l2 == Len(queue2)
          <6>1. l = 2
            BY <1>7, <1>13, <4>2, <5>2
          <6>2. l2 = m + One(comes) /\ m \in Nat /\ d \in {0, 1} /\ l = m + d
            BY <1>6 DEF IsShift
          <6> HIDE DEF l, l2
          <6>3. l2 # 0
            BY <5>2, <6>1, <6>2 DEF One
          <6> QED
            BY <6>3 DEF l2
        <5> QED
          BY <1>1, <5>1, <5>2
      <4> QED
        BY <1>11, <4>3, <4>4, <4>5 DEF e
    <3> QED
      BY <2>3, <3>1, <3>2
  <2>15. LineInv(now2, op, P, stages, queue2, rep2)
    <3>1. \A e \in InFlight(queue2, rep2) : AgeAt(now2, e.stamp) >= 1
      BY <2>13 DEF Left, age2
    <3>2. \A p \in P : \A j \in DOMAIN rep2[p] :
             /\ \A k \in DOMAIN queue2 :
                  AgeAt(now2, queue2[k].stamp) >= AgeAt(now2, rep2[p][j].stamp)
             /\ queue2 = <<>> => AgeAt(now2, rep2[p][j].stamp) = 1
      BY <2>14 DEF age2
    <3> QED
      BY <1>10, <2>4, <2>5, <3>1, <3>2 DEF LineInv
  <2>16. FlightMoves(queue, rep, leaves, Newcomers(op, ack, in), queue2, rep2)
    BY <2>10, <2>11, <2>12 DEF FlightMoves, Flight, Left
  <2> QED
    BY <2>15, <2>16 DEF P, now2
<1> QED
  BY <1>12, <1>13

-----------------------------------------------------------------------------
(* What waits of a port.                                                   *)

Own(e, p) == IF e.req.port = p THEN <<e>> ELSE <<>>
Mine(q, p) ==
  IF q = <<>> THEN <<>> ELSE IF Len(q) = 1 THEN Own(q[1], p) ELSE Own(q[1], p) \o Own(q[2], p)

(* Its requests, from the queue and from its repeater, oldest first.       *)
Pending(queue, rep, p) == Mine(queue, p) \o rep[p]

LEMMA ShortQueue ==
  ASSUME NEW E, NEW q \in Seq(E), Len(q) <= 2
  PROVE  \/ q = <<>>
         \/ \E a \in E : q = <<a>>
         \/ \E a, b \in E : q = <<a, b>>
<1> DEFINE l == Len(q)
<1>1. l \in Nat /\ l <= 2
  OBVIOUS
<1> HIDE DEF l
<1>2. l = 0 \/ l = 1 \/ l = 2
  BY <1>1
<1>3. CASE l = 0
  BY <1>3 DEF l
<1>4. CASE l = 1
  <2>1. q = <<q[1]>> /\ q[1] \in E
    BY <1>4 DEF l
  <2> QED
    BY <2>1
<1>5. CASE l = 2
  <2>1. q = <<q[1], q[2]>> /\ q[1] \in E /\ q[2] \in E
    BY <1>5 DEF l
  <2> QED
    BY <2>1
<1> QED
  BY <1>2, <1>3, <1>4, <1>5

LEMMA Tuples ==
  /\ <<>> \o <<>> = <<>>
  /\ \A a : <<a>> \o <<>> = <<a>> /\ <<>> \o <<a>> = <<a>> /\ Tail(<<a>>) = <<>>
  /\ \A a, b : /\ <<a>> \o <<b>> = <<a, b>> /\ <<a, b>> \o <<>> = <<a, b>>
               /\ Tail(<<a, b>>) = <<b>>
<1>1. ASSUME NEW a, NEW b PROVE <<a>> \o <<b>> = <<a, b>>
  <2> DEFINE s == <<a>> \o <<b>>
  <2>1. <<a>> \in Seq({a, b}) /\ <<b>> \in Seq({a, b})
    OBVIOUS
  <2>2. s \in Seq({a, b}) /\ Len(s) = 2
    BY <2>1, ConcatProperties
  <2>3. s[1] = a /\ s[2] = b
    OBVIOUS
  <2> HIDE DEF s
  <2>4. s = <<s[1], s[2]>>
    BY <2>2
  <2> QED
    BY <2>3, <2>4 DEF s
<1> QED
  BY <1>1

LEMMA TupleParts ==
  /\ Len(<<>>) = 0 /\ DOMAIN <<>> = {}
  /\ \A a : <<a>>[1] = a /\ Len(<<a>>) = 1 /\ <<a>> # <<>> /\ DOMAIN <<a>> = {1}
  /\ \A a, b : /\ <<a, b>>[1] = a /\ <<a, b>>[2] = b /\ Len(<<a, b>>) = 2
               /\ <<a, b>> # <<>> /\ DOMAIN <<a, b>> = {1, 2}
OBVIOUS

LEMMA MineOf ==
  ASSUME NEW p
  PROVE  /\ Mine(<<>>, p) = <<>>
         /\ \A a : Mine(<<a>>, p) = Own(a, p)
         /\ \A a, b : Mine(<<a, b>>, p) = Own(a, p) \o Own(b, p)
BY DEF Mine

LEMMA MineFacts ==
  ASSUME NEW E, NEW q \in Seq(E), Len(q) <= 2, NEW p
  PROVE  /\ Mine(q, p) \in Seq(E)
         /\ q # <<>> /\ q[1].req.port = p => Mine(q, p) # <<>> /\ Mine(q, p)[1] = q[1]
         /\ \A k \in DOMAIN Mine(q, p) : \E j \in DOMAIN q : Mine(q, p)[k] = q[j]
<1>1. CASE q = <<>>
  BY <1>1, MineOf
<1>2. CASE \E a \in E : q = <<a>>
  <2>1. PICK a \in E : q = <<a>>
    BY <1>2
  <2>2. Mine(q, p) = IF a.req.port = p THEN <<a>> ELSE <<>>
    BY <2>1, MineOf DEF Own, If
  <2>3. q[1] = a /\ 1 \in DOMAIN q
    BY <2>1
  <2>4. CASE a.req.port = p
    <3>1. Mine(q, p) = q /\ q # <<>>
      BY <2>1, <2>2, <2>4
    <3> QED
      BY <3>1
  <2>5. CASE a.req.port # p
    <3>1. Mine(q, p) = <<>>
      BY <2>2, <2>5
    <3> QED
      BY <2>3, <2>5, <3>1
  <2> QED
    BY <2>4, <2>5
<1>3. CASE \E a, b \in E : q = <<a, b>>
  <2>1. PICK a \in E, b \in E : q = <<a, b>>
    BY <1>3
  <2>2. q[1] = a /\ q[2] = b /\ DOMAIN q = {1, 2}
    BY <2>1
  <2> DEFINE mine == Mine(q, p)
  <2>3. mine = IF a.req.port = p THEN IF b.req.port = p THEN <<a, b>> ELSE <<a>>
               ELSE IF b.req.port = p THEN <<b>> ELSE <<>>
    <3>1. mine = Own(a, p) \o Own(b, p)
      BY <2>1, MineOf
    <3> HIDE DEF mine
    <3> QED
      BY <3>1, Tuples DEF Own, If
  <2>4. mine \in Seq(E)
    BY <2>3
  <2>5. a.req.port = p => mine # <<>> /\ mine[1] = a
    BY <2>3, TupleParts
  <2>6. \A k \in DOMAIN mine : mine[k] = a \/ mine[k] = b
    BY <2>3, TupleParts
  <2> HIDE DEF mine
  <2>7. /\ q # <<>> /\ q[1].req.port = p => mine # <<>> /\ mine[1] = q[1]
        /\ \A k \in DOMAIN mine : \E j \in DOMAIN q : mine[k] = q[j]
    BY <2>2, <2>5, <2>6
  <2> QED
    BY <2>4, <2>7 DEF mine
<1> QED
  BY <1>1, <1>2, <1>3, ShortQueue

(* What a port has in the queue after an edge.                             *)
LEMMA MineAfter ==
  ASSUME NEW E, NEW q \in Seq(E), Len(q) <= 2,
         NEW leaves \in BOOLEAN, leaves => q # <<>>,
         NEW x, NEW comes \in BOOLEAN, comes => x \in E /\ Len(q) < 2,
         NEW s, s = Shifted(q, leaves, If(comes, x)),
         NEW p, NEW out \in BOOLEAN, out <=> leaves /\ q[1].req.port = p
  PROVE  Mine(s, p) = Shifted(Mine(q, p), out, IF comes THEN Own(x, p) ELSE <<>>)
<1> DEFINE into == IF comes THEN Own(x, p) ELSE <<>>
           more == IF comes THEN <<x>> ELSE <<>>
<1>1. s = (IF leaves THEN Tail(q) ELSE q) \o more
  BY DEF Shifted, If
<1>2. Shifted(Mine(q, p), out, into) = (IF out THEN Tail(Mine(q, p)) ELSE Mine(q, p)) \o into
  BY DEF Shifted
<1>3. /\ more = <<>> \/ (more = <<x>> /\ <<>> \o more = more)
      /\ into = <<>> \/ (into = <<x>> /\ <<>> \o into = into)
      /\ more \o <<>> = more
  <2>1. /\ more = <<>> \/ more = <<x>>
        /\ into = <<>> \/ into = <<x>>
    BY DEF Own
  <2>2. <<>> \o <<>> = <<>> /\ <<>> \o <<x>> = <<x>> /\ <<x>> \o <<>> = <<x>>
    BY Tuples
  <2> HIDE DEF more, into
  <2> QED
    BY <2>1, <2>2
<1>4. Mine(<<>>, p) = <<>> /\ Mine(<<x>>, p) = Own(x, p)
  BY MineOf
<1>5. Mine(more, p) = into
  BY <1>4
<1> HIDE DEF into, more
<1>6. CASE q = <<>>
  <2>1. ~leaves /\ ~out /\ Mine(q, p) = <<>>
    BY <1>4, <1>6
  <2>2. s = more
    BY <1>1, <1>3, <1>6, <2>1
  <2>3. Shifted(Mine(q, p), out, into) = into
    BY <1>2, <1>3, <2>1
  <2> QED
    BY <1>5, <2>2, <2>3 DEF into
<1>7. CASE \E a \in E : q = <<a>>
  <2>1. PICK a \in E : q = <<a>>
    BY <1>7
  <2>2. q[1] = a /\ Mine(<<a>>, p) = Own(a, p)
    BY <2>1, MineOf
  <2>3. Mine(q, p) = Own(a, p)
    BY <2>1, <2>2
  <2>4. CASE leaves
    <3>1. s = more
      BY <1>1, <1>3, <2>1, <2>4
    <3>2. Shifted(Mine(q, p), out, into) = into
      BY <1>2, <1>3, <2>2, <2>3, <2>4 DEF Own
    <3> QED
      BY <1>5, <3>1, <3>2 DEF into
  <2>5. CASE ~leaves
    <3>1. s = <<a>> \o more
      BY <1>1, <2>1, <2>5
    <3>2. Shifted(Mine(q, p), out, into) = Own(a, p) \o into
      BY <1>2, <2>3, <2>5
    <3>3. CASE comes
      <4>1. s = <<a, x>> /\ into = Own(x, p)
        BY <3>1, <3>3, Tuples DEF more, into
      <4>2. Mine(<<a, x>>, p) = Own(a, p) \o Own(x, p)
        BY MineOf
      <4> QED
        BY <3>2, <4>1, <4>2 DEF into
    <3>4. CASE ~comes
      <4>1. s = <<a>> /\ into = <<>> /\ <<a>> \o <<>> = <<a>> /\ <<>> \o <<>> = <<>>
        BY <3>1, <3>4, Tuples DEF more, into
      <4>2. Own(a, p) \o <<>> = Own(a, p)
        BY <4>1 DEF Own
      <4> QED
        BY <2>2, <3>2, <4>1, <4>2 DEF into
    <3> QED
      BY <3>3, <3>4
  <2> QED
    BY <2>4, <2>5
<1>8. CASE \E a, b \in E : q = <<a, b>>
  <2>1. PICK a \in E, b \in E : q = <<a, b>>
    BY <1>8
  <2>2. q[1] = a /\ Len(q) = 2 /\ ~comes
    BY <2>1
  <2>3. Mine(<<a, b>>, p) = Own(a, p) \o Own(b, p) /\ Mine(<<b>>, p) = Own(b, p)
    BY MineOf
  <2>4. Mine(q, p) = Own(a, p) \o Own(b, p)
    BY <2>1, <2>3
  <2>5. more = <<>> /\ into = <<>>
    BY <2>2 DEF more, into
  <2>6. Own(b, p) \o <<>> = Own(b, p) /\ <<>> \o Own(b, p) = Own(b, p)
    BY DEF Own
  <2>7. (Own(a, p) \o Own(b, p)) \o <<>> = Own(a, p) \o Own(b, p)
    <3>1. Own(a, p) \in Seq(E) /\ Own(b, p) \in Seq(E)
      BY DEF Own
    <3>2. Own(a, p) \o Own(b, p) \in Seq(E)
      BY <3>1, ConcatProperties
    <3> QED
      BY <3>2, ConcatEmptySeq
  <2>8. CASE leaves
    <3>1. s = <<b>>
      BY <1>1, <2>1, <2>5, <2>8
    <3>2. Shifted(Mine(q, p), out, into) = Own(b, p)
      <4>1. CASE out
        <5>1. Own(a, p) = <<a>>
          BY <2>2, <2>8, <4>1 DEF Own
        <5>2. Tail(<<a>> \o Own(b, p)) = Own(b, p)
          <6>1. <<a>> \o <<b>> = <<a, b>> /\ Tail(<<a, b>>) = <<b>>
            BY Tuples
          <6>2. Tail(<<a>> \o <<>>) = <<>>
            OBVIOUS
          <6> QED
            BY <6>1, <6>2 DEF Own
        <5> QED
          BY <1>2, <2>4, <2>5, <2>6, <4>1, <5>1, <5>2
      <4>2. CASE ~out
        <5>1. Own(a, p) = <<>>
          BY <2>2, <2>8, <4>2 DEF Own
        <5> QED
          BY <1>2, <2>4, <2>5, <2>6, <4>2, <5>1
      <4> QED
        BY <4>1, <4>2
    <3> QED
      BY <2>3, <3>1, <3>2 DEF into
  <2>9. CASE ~leaves
    <3>1. s = <<a, b>>
      BY <1>1, <2>1, <2>5, <2>9
    <3>2. Shifted(Mine(q, p), out, into) = Own(a, p) \o Own(b, p)
      BY <1>2, <2>4, <2>5, <2>7, <2>9
    <3> QED
      BY <2>3, <3>1, <3>2 DEF into
  <2> QED
    BY <2>8, <2>9
<1> QED
  BY <1>6, <1>7, <1>8, ShortQueue

LEMMA TailOfJoin ==
  ASSUME NEW E, NEW q \in Seq(E), NEW r \in Seq(E), q # <<>>
  PROVE  Tail(q \o r) = Tail(q) \o r
<1> DEFINE s == q \o r
           t == Tail(q) \o r
<1>1. s \in Seq(E) /\ s # <<>> /\ Len(s) = Len(q) + Len(r) /\ Len(q) \in Nat \ {0}
  BY ConcatProperties
<1>2. Tail(s) \in Seq(E) /\ Len(Tail(s)) = Len(s) - 1
      /\ \A i \in 1 .. Len(Tail(s)) : Tail(s)[i] = s[i + 1]
  BY <1>1, HeadTailProperties
<1>3. Tail(q) \in Seq(E) /\ Len(Tail(q)) = Len(q) - 1
      /\ \A i \in 1 .. Len(Tail(q)) : Tail(q)[i] = q[i + 1]
  BY HeadTailProperties
<1>4. t \in Seq(E) /\ Len(t) = Len(q) - 1 + Len(r)
  BY <1>3, ConcatProperties
<1>5. ASSUME NEW i \in 1 .. Len(q) - 1 + Len(r) PROVE Tail(s)[i] = t[i]
  <2>1. Tail(s)[i] = s[i + 1] /\ i + 1 \in 1 .. Len(q) + Len(r)
    BY <1>1, <1>2
  <2>2. s[i + 1] = IF i + 1 <= Len(q) THEN q[i + 1] ELSE r[i + 1 - Len(q)]
    BY <2>1, ConcatProperties
  <2>3. t[i] = IF i <= Len(Tail(q)) THEN Tail(q)[i] ELSE r[i - Len(Tail(q))]
    BY <1>3, ConcatProperties
  <2>4. CASE i <= Len(q) - 1
    BY <1>1, <1>3, <2>1, <2>2, <2>3, <2>4
  <2>5. CASE ~(i <= Len(q) - 1)
    <3>1. i + 1 - Len(q) = i - Len(Tail(q)) /\ ~(i + 1 <= Len(q)) /\ ~(i <= Len(Tail(q)))
      BY <1>1, <1>3, <2>5
    <3> QED
      BY <2>1, <2>2, <2>3, <3>1
  <2> QED
    BY <2>4, <2>5
<1>6. Len(Tail(s)) = Len(t)
  BY <1>1, <1>2, <1>4
<1> QED
  BY <1>1, <1>2, <1>4, <1>5, <1>6, SeqEqual

Regrouped(a, b, c) == (a \o b) \o c = a \o (b \o c)

LEMMA Regroup ==
  ASSUME NEW E, NEW a \in Seq(E), NEW b \in Seq(E), NEW c \in Seq(E)
  PROVE  Regrouped(a, b, c)
BY ConcatAssociative DEF Regrouped

LEMMA HeadThenTail ==
  ASSUME NEW E, NEW r \in Seq(E), r # <<>>
  PROVE  <<r[1]>> \o Tail(r) = r /\ r[1] \in E /\ Tail(r) \in Seq(E)
<1>1. r[1] \in E /\ Tail(r) \in Seq(E) /\ Len(Tail(r)) = Len(r) - 1 /\ Len(r) \in Nat \ {0}
      /\ \A i \in 1 .. Len(Tail(r)) : Tail(r)[i] = r[i + 1]
  BY HeadTailProperties
<1> DEFINE s == <<r[1]>> \o Tail(r)
<1>2. <<r[1]>> \in Seq(E) /\ Len(<<r[1]>>) = 1
  BY <1>1
<1>3. s \in Seq(E) /\ Len(s) = Len(r)
  BY <1>1, <1>2, ConcatProperties
<1>4. ASSUME NEW i \in 1 .. Len(r) PROVE s[i] = r[i]
  <2>1. s[i] = IF i <= 1 THEN <<r[1]>>[i] ELSE Tail(r)[i - 1]
    BY <1>1, <1>2, ConcatProperties
  <2> QED
    BY <1>1, <2>1
<1>5. s = r
  BY <1>3, <1>4, SeqEqual
<1> QED
  BY <1>1, <1>5

LEMMA PendingFacts ==
  ASSUME NEW op, NEW P, NEW stages, NEW queue, NEW rep, LineType(op, P, stages, queue, rep),
         NEW p \in P
  PROVE  /\ Pending(queue, rep, p) \in Seq(Entry(op, P))
         /\ queue # <<>> /\ queue[1].req.port = p =>
              Pending(queue, rep, p) # <<>> /\ Pending(queue, rep, p)[1] = queue[1]
         /\ \A k \in DOMAIN Pending(queue, rep, p) :
              Pending(queue, rep, p)[k] \in InFlight(queue, rep)
<1> DEFINE E == Entry(op, P)
           mine == Mine(queue, p)
           own == Pending(queue, rep, p)
<1>1. /\ queue \in Seq(E) /\ Len(queue) <= 2 /\ rep[p] \in Seq(E) /\ p \in DOMAIN rep
  BY DEF LineType
<1>2. /\ mine \in Seq(E)
      /\ queue # <<>> /\ queue[1].req.port = p => mine # <<>> /\ mine[1] = queue[1]
      /\ \A k \in DOMAIN mine : \E j \in DOMAIN queue : mine[k] = queue[j]
  BY <1>1, MineFacts
<1>3. own = mine \o rep[p]
  BY DEF Pending
<1> HIDE DEF E, mine, own
<1>4. /\ own \in Seq(E) /\ Len(own) = Len(mine) + Len(rep[p])
      /\ \A i \in 1 .. Len(mine) + Len(rep[p]) :
           own[i] = IF i <= Len(mine) THEN mine[i] ELSE rep[p][i - Len(mine)]
      /\ Len(mine) \in Nat /\ Len(rep[p]) \in Nat
      /\ DOMAIN own = 1 .. Len(mine) + Len(rep[p])
      /\ DOMAIN mine = 1 .. Len(mine) /\ DOMAIN rep[p] = 1 .. Len(rep[p])
  BY <1>1, <1>2, <1>3, ConcatProperties
<1>5. mine # <<>> => own # <<>> /\ own[1] = mine[1]
  <2>1. mine # <<>> => Len(mine) >= 1
    BY <1>2, <1>4
  <2> QED
    BY <1>4, <2>1
<1>6. ASSUME NEW k \in DOMAIN own PROVE own[k] \in InFlight(queue, rep)
  <2>1. CASE k <= Len(mine)
    <3>1. k \in DOMAIN mine /\ own[k] = mine[k]
      BY <1>4, <2>1
    <3> QED
      BY <1>2, <3>1, FlightMembers
  <2>2. CASE ~(k <= Len(mine))
    <3>1. k - Len(mine) \in DOMAIN rep[p] /\ own[k] = rep[p][k - Len(mine)]
      BY <1>4, <2>2
    <3> QED
      BY <1>1, <3>1, FlightMembers
  <2> QED
    BY <1>4, <2>1, <2>2
<1> QED
  BY <1>2, <1>4, <1>5, <1>6 DEF E, own

(* A port's requests stay in order from one edge to the next: the first of *)
(* them may go, and a new one comes last.                                  *)
LEMMA PendingAfter ==
  ASSUME NEW op, NEW n, NEW stages, NEW in, NEW queue, NEW rep, NEW leaves, NEW ack,
         NEW queue2, NEW rep2,
         EdgeFrom(op, n, stages, in, queue, rep, leaves, ack, queue2, rep2),
         NEW id, NEW comes, NEW x,
         LineMoves(op, n, stages, in, queue, rep, leaves, ack, queue2, rep2, id, comes, x),
         NEW p \in 0 .. n,
         NEW goes \in BOOLEAN, goes <=> leaves /\ queue[1].req.port = p,
         NEW asks \in BOOLEAN, asks <=> p \in ack
  PROVE  Pending(queue2, rep2, p)
           = Shifted(Pending(queue, rep, p), goes, If(asks, Newcomer(op, p, in)))
<1> DEFINE P == 0 .. n
           E == Entry(op, P)
           new == Newcomer(op, p, in)
           mine == Mine(queue, p)
           left == IF goes THEN Tail(mine) ELSE mine
           into == IF comes THEN Own(x, p) ELSE <<>>
           last == If(asks, new)
<1>1. /\ queue \in Seq(E) /\ Len(queue) <= 2 /\ rep[p] \in Seq(E)
      /\ LineType(op, P, stages, queue, rep)
      /\ leaves \in BOOLEAN /\ (leaves => queue # <<>>)
      /\ comes \in BOOLEAN /\ (comes => x \in E /\ Len(queue) < 2 /\ x.req.port = id)
      /\ queue2 = Shifted(queue, leaves, If(comes, x))
      /\ stages = 0 => rep[p] = <<>>
  BY DEF EdgeFrom, LineInv, LineType, LineMoves
<1>2. /\ mine \in Seq(E) /\ (goes => mine # <<>>)
  BY <1>1, MineFacts
<1>3. left \in Seq(E)
  <2> HIDE DEF mine, E
  <2> QED
    BY <1>2
<1>4. Mine(queue2, p) = left \o into
  <2>1. Mine(queue2, p) = Shifted(mine, goes, into)
    BY <1>1, MineAfter
  <2> QED
    BY <2>1 DEF Shifted
<1>5. last \in Seq(E) /\ (asks => last = <<new>>) /\ (~asks => last = <<>>)
  <2>1. asks => Asks(P, in) /\ raw_time_stamp \in Stamps /\ in[p] # <<>>
    BY DEF EdgeFrom, LineMoves
  <2> HIDE DEF P
  <2>2. asks => new \in E
    BY <2>1, NewcomerType DEF P
  <2> QED
    BY <2>2 DEF If
<1>6. Shifted(mine \o rep[p], goes, last) = (left \o rep[p]) \o last
  <2>1. goes => Tail(mine \o rep[p]) = left \o rep[p]
    BY <1>1, <1>2, TailOfJoin
  <2> HIDE DEF mine, last
  <2> QED
    BY <2>1 DEF Shifted
<1>7. into = IF comes /\ p = id THEN <<x>> ELSE <<>>
  BY <1>1 DEF Own
<1> HIDE DEF E, mine, left, into, last, new
<1>8. into \o rep2[p] = rep[p] \o last /\ rep2[p] \in Seq(E) /\ into \in Seq(E)
  <2>1. CASE stages = 0
    <3>1. rep2[p] = <<>> /\ rep[p] = <<>> /\ (asks <=> comes /\ p = id)
      BY <1>1, <2>1 DEF LineMoves
    <3>2. comes /\ p = id => x = new
      BY <2>1 DEF LineMoves, new
    <3>3. into = last
      BY <1>5, <1>7, <3>1, <3>2
    <3>4. into \o <<>> = into /\ <<>> \o last = last
      BY <1>5, <3>3, ConcatEmptySeq
    <3>5. <<>> \in Seq(E)
      OBVIOUS
    <3> QED
      BY <1>5, <3>1, <3>3, <3>4, <3>5
  <2>2. CASE stages # 0
    <3>1. rep2[p] = Shifted(rep[p], comes /\ p = id, last)
      <4>1. rep2[p] = Shifted(rep[p], comes /\ p = id, If(p \in ack, Newcomer(op, p, in)))
        BY <2>2 DEF LineMoves
      <4>2. If(p \in ack, Newcomer(op, p, in)) = last
        BY DEF If, last, new
      <4> QED
        BY <4>1, <4>2
    <3>2. CASE comes /\ p = id
      <4>1. rep[p] # <<>> /\ x = rep[p][1]
        BY <2>2, <3>2 DEF LineMoves
      <4>2. rep2[p] = Tail(rep[p]) \o last
        BY <3>1, <3>2 DEF Shifted
      <4>3. <<x>> \o Tail(rep[p]) = rep[p] /\ <<x>> \in Seq(E) /\ Tail(rep[p]) \in Seq(E)
        BY <1>1, <4>1, HeadThenTail
      <4>4. (<<x>> \o Tail(rep[p])) \o last = <<x>> \o (Tail(rep[p]) \o last)
        <5>1. Regrouped(<<x>>, Tail(rep[p]), last)
          BY <1>5, <4>3, Regroup
        <5> QED
          BY <5>1 DEF Regrouped
      <4>5. Tail(rep[p]) \o last \in Seq(E)
        BY <1>5, <4>3, ConcatProperties
      <4> QED
        BY <1>7, <3>2, <4>2, <4>3, <4>4, <4>5
    <3>3. CASE ~(comes /\ p = id)
      <4>1. rep2[p] = rep[p] \o last /\ into = <<>>
        BY <1>7, <3>1, <3>3 DEF Shifted
      <4>2. rep[p] \o last \in Seq(E) /\ <<>> \in Seq(E)
        BY <1>1, <1>5, ConcatProperties
      <4>3. <<>> \o (rep[p] \o last) = rep[p] \o last
        BY <4>2, ConcatEmptySeq
      <4> QED
        BY <4>1, <4>2, <4>3
    <3> QED
      BY <3>2, <3>3
  <2> QED
    BY <2>1, <2>2
<1>9. (left \o into) \o rep2[p] = (left \o rep[p]) \o last
  <2>1. (left \o into) \o rep2[p] = left \o (into \o rep2[p])
    <3>1. Regrouped(left, into, rep2[p])
      BY <1>3, <1>8, Regroup
    <3> QED
      BY <3>1 DEF Regrouped
  <2>2. (left \o rep[p]) \o last = left \o (rep[p] \o last)
    <3>1. Regrouped(left, rep[p], last)
      BY <1>1, <1>3, <1>5, Regroup
    <3> QED
      BY <3>1 DEF Regrouped
  <2> QED
    BY <1>8, <2>1, <2>2
<1>10. Pending(queue2, rep2, p) = (left \o into) \o rep2[p]
  BY <1>4 DEF Pending
<1>11. Pending(queue, rep, p) = mine \o rep[p]
  BY DEF Pending, mine
<1> QED
  BY <1>6, <1>9, <1>10, <1>11 DEF last, new

-----------------------------------------------------------------------------
(* What a load will find.                                                  *)

(* S has the words that a load of address a may return which was accepted  *)
(* t cycles ago, when stores F have not been performed: what is stored in  *)
(* its cycle, and the last word stored before, be it in flight or in the   *)
(* memory.                                                                 *)
Sees(F, mem, now, S, a, t) ==
  /\ \A e \in F : e.req.addr = a /\ AgeAt(now, e.stamp) = t => e.req.data \in S
  /\ \A e \in F :
       /\ e.req.addr = a /\ AgeAt(now, e.stamp) > t
       /\ \A f \in F : f.req.addr = a /\ AgeAt(now, f.stamp) > t =>
            AgeAt(now, e.stamp) <= AgeAt(now, f.stamp)
       => e.req.data \in S
  /\ (\A e \in F : e.req.addr = a => AgeAt(now, e.stamp) <= t) => mem[a] \in S

(* If a store is performed it is h, the oldest, and no load that is older  *)
(* waits.                                                                  *)
Performs(F, F2, new, now, now2, t, writes, h) ==
  /\ \A e \in F : Ages(now, now2, e)
  /\ \A e \in new : AgeAt(now2, e.stamp) = 1
  /\ F2 \subseteq F \union new
  /\ writes \in BOOLEAN
  /\ \A e \in F : e \in F2 \/ (writes /\ e = h)
  /\ writes => /\ h \in F /\ AgeAt(now, h.stamp) >= t
               /\ \A f \in F : AgeAt(now, f.stamp) <= AgeAt(now, h.stamp)

LEMMA SeesStep ==
  ASSUME NEW F, NEW F2, NEW new, NEW now, NEW now2, NEW mem, NEW mem2, NEW S, NEW S2,
         NEW a, NEW t \in Nat, NEW writes, NEW h,
         Performs(F, F2, new, now, now2, t, writes, h),
         mem2[a] = IF writes /\ h.req.addr = a THEN h.req.data ELSE mem[a],
         Sees(F, mem, now, S, a, t), S \subseteq S2,
         t = 0 => \A e \in new : e.req.addr = a => e.req.data \in S2
  PROVE  Sees(F2, mem2, now2, S2, a, t + 1)
<1> DEFINE age(e) == AgeAt(now, e.stamp)
           age2(e) == AgeAt(now2, e.stamp)
           at(e) == e.req.addr = a
<1>1. /\ \A e \in F : age(e) \in Nat /\ age2(e) = age(e) + 1
      /\ \A e \in new : age2(e) = 1
      /\ F2 \subseteq F \union new
      /\ writes \in BOOLEAN
      /\ \A e \in F : e \in F2 \/ (writes /\ e = h)
      /\ writes => h \in F /\ age(h) >= t /\ \A f \in F : age(f) <= age(h)
  BY DEF Performs, Ages
<1>2. \A e \in F : at(e) /\ age(e) = t => e.req.data \in S
  BY DEF Sees
<1>3. \A e \in F : at(e) /\ age(e) > t
                   /\ (\A f \in F : at(f) /\ age(f) > t => age(e) <= age(f))
                   => e.req.data \in S
  BY DEF Sees
<1>4. (\A e \in F : at(e) => age(e) <= t) => mem[a] \in S
  BY DEF Sees
<1> HIDE DEF age, age2
<1>5. ASSUME NEW e \in F2, at(e), age2(e) = t + 1
      PROVE  e.req.data \in S2
  BY <1>1, <1>2, <1>5
<1>6. ASSUME NEW e \in F2, at(e), age2(e) > t + 1,
             \A f \in F2 : at(f) /\ age2(f) > t + 1 => age2(e) <= age2(f)
      PROVE  e.req.data \in S2
  <2>1. e \in F /\ age(e) \in Nat /\ age2(e) = age(e) + 1 /\ age(e) > t
    BY <1>1, <1>6
  <2>2. ASSUME NEW f \in F, at(f), age(f) > t
        PROVE  age(e) <= age(f)
    <3>1. CASE f \in F2
      <4>1. age(f) \in Nat /\ age2(f) = age(f) + 1
        BY <1>1
      <4>2. age2(e) <= age2(f)
        BY <1>6, <2>2, <3>1, <4>1
      <4> QED
        BY <2>1, <4>1, <4>2
    <3>2. CASE writes /\ f = h
      BY <1>1, <2>1, <3>2
    <3> QED
      BY <1>1, <3>1, <3>2
  <2> HIDE DEF at
  <2>3. e.req.data \in S
    BY <1>3, <1>6, <2>1, <2>2
  <2> QED
    BY <2>3
<1>7. ASSUME \A e \in F2 : at(e) => age2(e) <= t + 1
      PROVE  mem2[a] \in S2
  <2>1. \A e \in F : e \in F2 /\ at(e) => age(e) <= t
    BY <1>1, <1>7
  <2>2. CASE writes /\ at(h)
    <3>1. h \in F /\ age(h) \in Nat /\ mem2[a] = h.req.data
      BY <1>1, <2>2
    <3>2. CASE age(h) = t
      BY <1>2, <2>2, <3>1, <3>2
    <3>3. CASE age(h) > t
      <4>1. \A f \in F : at(f) /\ age(f) > t => f = h
        BY <1>1, <2>1
      <4>2. \A f \in F : at(f) /\ age(f) > t => age(h) <= age(f)
        BY <3>1, <4>1
      <4> HIDE DEF at
      <4> QED
        BY <1>3, <2>2, <3>1, <3>3, <4>2
    <3> QED
      BY <1>1, <2>2, <3>1, <3>2, <3>3
  <2>3. CASE ~(writes /\ at(h))
    <3>1. \A e \in F : at(e) => e \in F2
      BY <1>1, <2>3
    <3>2. mem2[a] = mem[a]
      BY <2>3
    <3> HIDE DEF at
    <3> QED
      BY <1>4, <2>1, <3>1, <3>2
  <2> QED
    BY <2>2, <2>3
<1> QED
  BY <1>5, <1>6, <1>7 DEF Sees, age2

(* What a load sees that is accepted now: what one saw that was accepted a *)
(* cycle ago, if nothing was stored then.                                  *)
LEMMA SeesNow ==
  ASSUME NEW F, NEW mem, NEW now, NEW S, NEW a, Sees(F, mem, now, S, a, 1),
         \A e \in F : AgeAt(now, e.stamp) \in Nat /\ AgeAt(now, e.stamp) >= 1
  PROVE  Sees(F, mem, now, S, a, 0)
<1> DEFINE age(e) == AgeAt(now, e.stamp)
           at(e) == e.req.addr = a
<1>1. \A e \in F : age(e) \in Nat /\ age(e) >= 1
  OBVIOUS
<1>2. \A e \in F : at(e) /\ age(e) = 1 => e.req.data \in S
  BY DEF Sees
<1>3. \A e \in F : at(e) /\ age(e) > 1
                   /\ (\A f \in F : at(f) /\ age(f) > 1 => age(e) <= age(f))
                   => e.req.data \in S
  BY DEF Sees
<1>4. (\A e \in F : at(e) => age(e) <= 1) => mem[a] \in S
  BY DEF Sees
<1> HIDE DEF age
<1>5. \A e \in F : ~(age(e) = 0)
  BY <1>1
<1>6. ASSUME NEW e \in F, at(e), \A f \in F : at(f) /\ age(f) > 0 => age(e) <= age(f)
      PROVE  e.req.data \in S
  <2>1. \A f \in F : at(f) => age(e) <= age(f)
    BY <1>1, <1>6
  <2>2. age(e) = 1 \/ age(e) > 1
    BY <1>1
  <2> HIDE DEF at
  <2> QED
    BY <1>2, <1>3, <1>6, <2>1, <2>2
<1>7. ASSUME \A e \in F : at(e) => age(e) <= 0
      PROVE  mem[a] \in S
  BY <1>1, <1>4, <1>7
<1> QED
  BY <1>5, <1>6, <1>7 DEF Sees, age

(* ... or what was stored then.                                            *)
LEMMA SeesStored ==
  ASSUME NEW F, NEW mem, NEW now, NEW W, NEW a,
         NEW e0 \in F, e0.req.addr = a, AgeAt(now, e0.stamp) = 1,
         \A e \in F : /\ AgeAt(now, e.stamp) \in Nat /\ AgeAt(now, e.stamp) >= 1
                      /\ e.req.addr = a /\ AgeAt(now, e.stamp) = 1 => e.req.data \in W
  PROVE  Sees(F, mem, now, W, a, 0)
<1>1. ASSUME NEW e \in F, e.req.addr = a,
             \A f \in F : f.req.addr = a /\ AgeAt(now, f.stamp) > 0 =>
               AgeAt(now, e.stamp) <= AgeAt(now, f.stamp)
      PROVE  e.req.data \in W
  <2>1. AgeAt(now, e.stamp) <= 1
    BY <1>1
  <2> QED
    BY <1>1, <2>1
<1> QED
  BY <1>1 DEF Sees

-----------------------------------------------------------------------------
(* The memory subsystem.                                                   *)

Loading == InFlight(lrr, load_repeater)
Stored  == InFlight(srr, store_repeater)

Serves(op, p) == result # <<>> /\ result[1].op = op /\ result[1].port = p

BankInv ==
  \/ fsm_state = "IDLE" /\ result = <<>>
  \/ /\ fsm_state # "IDLE"
     /\ \E p \in StorePorts : \E w : result = <<[op |-> "store", port |-> p, data |-> w]>>
  \/ /\ fsm_state # "IDLE"
     /\ \E p \in LoadPorts : \E w : result = <<[op |-> "load", port |-> p, data |-> w]>>

LinesInv ==
  /\ raw_time_stamp \in Stamps
  /\ LineInv(raw_time_stamp, "load", LoadPorts, LoadStages, lrr, load_repeater)
  /\ LineInv(raw_time_stamp, "store", StorePorts, StoreStages, srr, store_repeater)
  /\ Asks(LoadPorts, lr_in) /\ Asks(StorePorts, sr_in)

(* The open loads of a port: that whose result the bank holds, and those   *)
(* in flight, each of which will find a word that it may return.           *)
LoadsInv(p) ==
  LET own == Pending(lrr, load_repeater, p)
      r   == One(Serves("load", p))
  IN /\ loads[p] \in Seq(SUBSET Datum)
     /\ Len(loads[p]) = r + Len(own)
     /\ Serves("load", p) => result[1].data \in loads[p][1]
     /\ \A k \in DOMAIN own :
          Sees(Stored, mem_array, raw_time_stamp, loads[p][k + r], own[k].req.addr,
               AgeAt(raw_time_stamp, own[k].stamp))

StoresInv(p) ==
  stores[p] = One(Serves("store", p)) + Len(Pending(srr, store_repeater, p))

MInv ==
  /\ LinesInv /\ BankInv
  /\ mem_array \in [Addr -> Datum]
  /\ \A a \in Addr : /\ possible[a] \subseteq Datum
                     /\ Sees(Stored, mem_array, raw_time_stamp, possible[a], a, 0)
  /\ \A p \in LoadPorts : LoadsInv(p)
  /\ \A p \in StorePorts : StoresInv(p)

PortRanges ==
  (\E n \in Nat : LoadPorts = 0 .. n) /\ (\E n \in Nat : StorePorts = 0 .. n)

LEMMA PortRangesAreNumbers == PortRanges
<1>1. \A n \in 0 .. 63 : n \in Nat
  OBVIOUS
<1> QED
  BY <1>1, PortsAssumption DEF PortRanges

LEMMA AgeIs == ASSUME NEW x PROVE Age(x) = AgeAt(raw_time_stamp, x)
BY DEF Age, AgeAt, Turn

(* The first requests of the ports, as StampsTellTheOrder has them.        *)
LEMMA FirstsAreClose ==
  ASSUME NEW heads,
         \A e, f \in FirstOf(heads) : Age(e.stamp) - Age(f.stamp) <= Quarter,
         \A i \in DOMAIN heads : heads[i] # <<>> => heads[i][1].stamp \in Stamps
  PROVE  CloseHeads(raw_time_stamp, heads)
<1>1. \A i \in DOMAIN heads : heads[i] # <<>> => heads[i][1] \in FirstOf(heads)
  BY DEF FirstOf
<1>2. ASSUME NEW i \in DOMAIN heads, NEW j \in DOMAIN heads,
             heads[i] # <<>>, heads[j] # <<>>
      PROVE  AgeAt(raw_time_stamp, heads[i][1].stamp)
               - AgeAt(raw_time_stamp, heads[j][1].stamp) <= Quarter
  <2>1. Age(heads[i][1].stamp) - Age(heads[j][1].stamp) <= Quarter
    BY <1>1, <1>2
  <2> QED
    BY <2>1, AgeIs
<1> QED
  BY <1>2 DEF CloseHeads

LEMMA HeadsAreClose ==
  ASSUME LinesInv, StampsTellTheOrder
  PROVE  /\ CloseHeads(raw_time_stamp, HeadsOf("load", LoadPorts, LoadStages, lr_in, load_repeater))
         /\ CloseHeads(raw_time_stamp,
                       HeadsOf("store", StorePorts, StoreStages, sr_in, store_repeater))
         /\ lrr # <<>> /\ srr # <<>> =>
              /\ lrr[1].stamp \in Stamps /\ srr[1].stamp \in Stamps
              /\ AgeAt(raw_time_stamp, srr[1].stamp) - AgeAt(raw_time_stamp, lrr[1].stamp) <= Quarter
              /\ AgeAt(raw_time_stamp, lrr[1].stamp) - AgeAt(raw_time_stamp, srr[1].stamp) <= Quarter
<1>1. ASSUME NEW op, NEW P, NEW stages, NEW in, NEW rep,
             rep \in [P -> Seq(Entry(op, P))], Asks(P, in), raw_time_stamp \in Stamps
      PROVE  LET heads == HeadsOf(op, P, stages, in, rep)
             IN \A i \in DOMAIN heads : heads[i] # <<>> => heads[i][1].stamp \in Stamps
  <2> DEFINE heads == HeadsOf(op, P, stages, in, rep)
  <2>1. CASE stages = 0
    <3>1. DOMAIN heads = P /\ \A i \in P : heads[i] = Stamped(op, i, in)
      BY <2>1 DEF HeadsOf
    <3>2. \A i \in P : Stamped(op, i, in) # <<>> => Stamped(op, i, in)[1].stamp = raw_time_stamp
      BY DEF Stamped
    <3> QED
      BY <1>1, <3>1, <3>2
  <2>2. CASE stages # 0
    <3>1. heads = rep
      BY <2>2 DEF HeadsOf
    <3>2. \A i \in P : rep[i] # <<>> => rep[i][1] \in Entry(op, P)
      BY <1>1
    <3>3. \A e \in Entry(op, P) : e.stamp \in Stamps
      BY DEF Entry
    <3> QED
      BY <1>1, <3>1, <3>2, <3>3
  <2> QED
    BY <2>1, <2>2
<1>2. /\ load_heads = HeadsOf("load", LoadPorts, LoadStages, lr_in, load_repeater)
      /\ store_heads = HeadsOf("store", StorePorts, StoreStages, sr_in, store_repeater)
  BY DEF load_heads, store_heads, HeadsOf
<1>3. /\ \A e, f \in FirstOf(load_heads) : Age(e.stamp) - Age(f.stamp) <= Quarter
      /\ \A e, f \in FirstOf(store_heads) : Age(e.stamp) - Age(f.stamp) <= Quarter
      /\ \A e, f \in FirstOf(<<lrr, srr>>) : Age(e.stamp) - Age(f.stamp) <= Quarter
  BY DEF StampsTellTheOrder
<1>4. /\ load_repeater \in [LoadPorts -> Seq(Entry("load", LoadPorts))]
      /\ store_repeater \in [StorePorts -> Seq(Entry("store", StorePorts))]
      /\ lrr \in Seq(Entry("load", LoadPorts)) /\ srr \in Seq(Entry("store", StorePorts))
      /\ Asks(LoadPorts, lr_in) /\ Asks(StorePorts, sr_in) /\ raw_time_stamp \in Stamps
  BY DEF LinesInv, LineInv, LineType
<1>5. CloseHeads(raw_time_stamp, load_heads)
  BY <1>1, <1>2, <1>3, <1>4, FirstsAreClose
<1>6. CloseHeads(raw_time_stamp, store_heads)
  BY <1>1, <1>2, <1>3, <1>4, FirstsAreClose
<1>7. ASSUME lrr # <<>>, srr # <<>>
      PROVE  /\ lrr[1].stamp \in Stamps /\ srr[1].stamp \in Stamps
             /\ AgeAt(raw_time_stamp, srr[1].stamp) - AgeAt(raw_time_stamp, lrr[1].stamp) <= Quarter
             /\ AgeAt(raw_time_stamp, lrr[1].stamp) - AgeAt(raw_time_stamp, srr[1].stamp) <= Quarter
  <2> DEFINE both == <<lrr, srr>>
  <2>1. DOMAIN both = {1, 2} /\ both[1] = lrr /\ both[2] = srr
    OBVIOUS
  <2>2. lrr[1] \in Entry("load", LoadPorts) /\ srr[1] \in Entry("store", StorePorts)
    BY <1>4, <1>7
  <2>3. lrr[1].stamp \in Stamps /\ srr[1].stamp \in Stamps
    BY <2>2 DEF Entry
  <2> HIDE DEF both
  <2>4. CloseHeads(raw_time_stamp, both)
    BY <1>3, <2>1, <2>3, FirstsAreClose DEF both
  <2> QED
    BY <1>7, <2>1, <2>3, <2>4 DEF CloseHeads
<1> QED
  BY <1>2, <1>5, <1>6, <1>7

(* The requests that leave the queues at an edge.                          *)
Writes(accept) == bank_free(accept) /\ write_active
Reads(accept)  == bank_free(accept) /\ read_active

Edges(accept, lack, sack, nl, ns) ==
  /\ LoadPorts = 0 .. nl /\ StorePorts = 0 .. ns
  /\ EdgeFrom("load", nl, LoadStages, lr_in, lrr, load_repeater, Reads(accept), lack,
              lrr', load_repeater')
  /\ EdgeFrom("store", ns, StoreStages, sr_in, srr, store_repeater, Writes(accept), sack,
              srr', store_repeater')

Handed(accept) == IF accept THEN {result[k] : k \in DOMAIN result} ELSE {}

LEMMA LeavingFacts ==
  ASSUME NEW accept \in BOOLEAN
  PROVE  /\ Writes(accept) \in BOOLEAN /\ Reads(accept) \in BOOLEAN
         /\ Writes(accept) => srr # <<>>
         /\ Reads(accept) => lrr # <<>>
         /\ ~(Writes(accept) /\ Reads(accept))
BY DEF Writes, Reads, write_active, read_active

LEMMA TickEdges ==
  ASSUME LinesInv, StampsTellTheOrder, NEW accept \in BOOLEAN, Tick(accept)
  PROVE  \E lr_ack_, sr_ack_, nl, ns :
           /\ Edges(accept, lr_ack_, sr_ack_, nl, ns)
           /\ Cycle(lr_ack_, sr_ack_, Handed(accept))
           /\ Bank(accept)
           /\ raw_time_stamp' = IncrementSLV(raw_time_stamp)
<1>1. PICK nl \in Nat : LoadPorts = 0 .. nl
  BY PortRangesAreNumbers DEF PortRanges
<1>2. PICK ns \in Nat : StorePorts = 0 .. ns
  BY PortRangesAreNumbers DEF PortRanges
<1> DEFINE la == Accepted(load_request_id, lrr)
           sa == Accepted(store_request_id, srr)
           lack == Acked(LoadStages, lr_in, load_repeater, load_request_id, la)
           sack == Acked(StoreStages, sr_in, store_repeater, store_request_id, sa)
<1>3. /\ raw_time_stamp' = IncrementSLV(raw_time_stamp)
      /\ lrr' = Shifted(lrr, Reads(accept), Arriving(load_heads, load_request_id, la))
      /\ srr' = Shifted(srr, Writes(accept), Arriving(store_heads, store_request_id, sa))
      /\ load_repeater' = Repeat(LoadStages, "load", load_repeater, lr_in, lack,
                                 load_request_id, la)
      /\ store_repeater' = Repeat(StoreStages, "store", store_repeater, sr_in, sack,
                                  store_request_id, sa)
      /\ Bank(accept)
      /\ Cycle(lack, sack, Handed(accept))
  BY DEF Tick, Reads, Writes, Handed
<1>4. /\ load_heads = HeadsOf("load", LoadPorts, LoadStages, lr_in, load_repeater)
      /\ store_heads = HeadsOf("store", StorePorts, StoreStages, sr_in, store_repeater)
  BY DEF load_heads, store_heads, HeadsOf
<1>5. LineEdge("load", LoadPorts, LoadStages, lr_in, lrr, load_repeater, Reads(accept), lack,
               lrr', load_repeater')
  BY <1>3, <1>4 DEF LineEdge, load_request_id
<1>6. LineEdge("store", StorePorts, StoreStages, sr_in, srr, store_repeater, Writes(accept), sack,
               srr', store_repeater')
  BY <1>3, <1>4 DEF LineEdge, store_request_id
<1>7. \A e \in Loading \union Stored : AgeAt(raw_time_stamp, e.stamp) < Turn - 1
  <2>1. \A e \in Loading \union Stored : Age(e.stamp) < 4 * Quarter - 1
    BY DEF StampsTellTheOrder, Loading, Stored
  <2> QED
    BY <2>1, AgeIs DEF Turn
<1> HIDE DEF la, sa, lack, sack
<1>8. EdgeFrom("load", nl, LoadStages, lr_in, lrr, load_repeater, Reads(accept), lack,
               lrr', load_repeater')
  BY <1>1, <1>5, <1>7, LeavingFacts, HeadsAreClose DEF EdgeFrom, LinesInv, Loading
<1>9. EdgeFrom("store", ns, StoreStages, sr_in, srr, store_repeater, Writes(accept), sack,
               srr', store_repeater')
  BY <1>2, <1>6, <1>7, LeavingFacts, HeadsAreClose DEF EdgeFrom, LinesInv, Stored
<1>10. Edges(accept, lack, sack, nl, ns)
  BY <1>1, <1>2, <1>8, <1>9 DEF Edges
<1> QED
  BY <1>3, <1>10

(* The head of a queue is as old as any of its port's requests; if there   *)
(* is none, they have all just come.                                       *)
LEMMA HeadIsOldest ==
  ASSUME NEW now, NEW op, NEW P, NEW stages, NEW queue, NEW rep,
         LineInv(now, op, P, stages, queue, rep),
         \A x \in Entry(op, P) : AgeAt(now, x.stamp) \in Nat,
         NEW e \in InFlight(queue, rep)
  PROVE  /\ queue # <<>> => /\ queue[1] \in InFlight(queue, rep)
                            /\ AgeAt(now, e.stamp) <= AgeAt(now, queue[1].stamp)
         /\ queue = <<>> => AgeAt(now, e.stamp) = 1
         /\ AgeAt(now, e.stamp) >= 1
         /\ AgeAt(now, e.stamp) \in Nat /\ e.stamp \in Stamps
<1> DEFINE E == Entry(op, P)
           age(x) == AgeAt(now, x.stamp)
<1>1. /\ queue \in Seq(E) /\ rep \in [P -> Seq(E)] /\ DOMAIN rep = P
      /\ age(e) >= 1
      /\ \A j, k \in DOMAIN queue : j < k => age(queue[j]) >= age(queue[k])
      /\ \A p \in P : \A j \in DOMAIN rep[p] :
           /\ \A k \in DOMAIN queue : age(queue[k]) >= age(rep[p][j])
           /\ queue = <<>> => age(rep[p][j]) = 1
  BY DEF LineInv, LineType, InOrder
<1>2. \A x \in E : age(x) \in Nat /\ x.stamp \in Stamps
  BY DEF Entry
<1>3. queue # <<>> => 1 \in DOMAIN queue /\ queue[1] \in E /\ queue[1] \in InFlight(queue, rep)
  BY <1>1, FlightMembers
<1>4. CASE \E k \in DOMAIN queue : e = queue[k]
  <2>1. PICK k \in DOMAIN queue : e = queue[k]
    BY <1>4
  <2>2. e \in E /\ queue # <<>> /\ k \in Nat /\ k >= 1
    BY <1>1, <2>1
  <2> HIDE DEF E, age
  <2>3. age(e) <= age(queue[1])
    BY <1>1, <1>2, <1>3, <2>1, <2>2
  <2> QED
    BY <1>1, <1>2, <1>3, <2>2, <2>3 DEF age
<1>5. CASE \E p \in P : \E k \in DOMAIN rep[p] : e = rep[p][k]
  <2>1. PICK p \in P : \E k \in DOMAIN rep[p] : e = rep[p][k]
    BY <1>5
  <2>2. e \in E
    BY <1>1, <2>1
  <2> HIDE DEF E, age
  <2>3. (queue # <<>> => age(e) <= age(queue[1])) /\ (queue = <<>> => age(e) = 1)
    BY <1>1, <1>2, <1>3, <2>1, <2>2
  <2> QED
    BY <1>1, <1>2, <1>3, <2>2, <2>3 DEF age
<1> QED
  BY <1>1, <1>4, <1>5, FlightMembers

LEMMA AgesOf ==
  ASSUME NEW op, NEW P, raw_time_stamp \in Stamps
  PROVE  \A x \in Entry(op, P) : AgeAt(raw_time_stamp, x.stamp) \in Nat
BY Aging DEF Entry

(* No store waits that is older than a load which is performed, and no     *)
(* load that is older than a store which is performed.                     *)
LEMMA PerformedInOrder ==
  ASSUME LinesInv, StampsTellTheOrder, NEW accept \in BOOLEAN
  PROVE  /\ Reads(accept) => \A e \in Stored :
              AgeAt(raw_time_stamp, e.stamp) <= AgeAt(raw_time_stamp, lrr[1].stamp)
         /\ Writes(accept) =>
              /\ srr[1] \in Stored
              /\ \A e \in Stored \union Loading :
                   AgeAt(raw_time_stamp, e.stamp) <= AgeAt(raw_time_stamp, srr[1].stamp)
<1> DEFINE age(e) == AgeAt(raw_time_stamp, e.stamp)
<1>1. /\ lrr # <<>> => lrr[1] \in Loading /\ \A e \in Loading : age(e) <= age(lrr[1])
      /\ lrr = <<>> => \A e \in Loading : age(e) = 1
      /\ \A e \in Loading : age(e) >= 1 /\ age(e) \in Nat
  <2>1. LineInv(raw_time_stamp, "load", LoadPorts, LoadStages, lrr, load_repeater)
    BY DEF LinesInv
  <2>2. \A x \in Entry("load", LoadPorts) : AgeAt(raw_time_stamp, x.stamp) \in Nat
    BY AgesOf DEF LinesInv
  <2>3. lrr # <<>> => lrr[1] \in Loading
    <3>1. lrr \in Seq(Entry("load", LoadPorts))
      BY <2>1 DEF LineInv, LineType
    <3> QED
      BY <3>1, FlightMembers DEF Loading
  <2> QED
    BY <2>1, <2>2, <2>3, HeadIsOldest DEF Loading
<1>2. /\ srr # <<>> => srr[1] \in Stored /\ \A e \in Stored : age(e) <= age(srr[1])
      /\ srr = <<>> => \A e \in Stored : age(e) = 1
      /\ \A e \in Stored : age(e) >= 1 /\ age(e) \in Nat
  <2>1. LineInv(raw_time_stamp, "store", StorePorts, StoreStages, srr, store_repeater)
    BY DEF LinesInv
  <2>2. \A x \in Entry("store", StorePorts) : AgeAt(raw_time_stamp, x.stamp) \in Nat
    BY AgesOf DEF LinesInv
  <2>3. srr # <<>> => srr[1] \in Stored
    <3>1. srr \in Seq(Entry("store", StorePorts))
      BY <2>1 DEF LineInv, LineType
    <3> QED
      BY <3>1, FlightMembers DEF Stored
  <2> QED
    BY <2>1, <2>2, <2>3, HeadIsOldest DEF Stored
<1>3. lrr # <<>> /\ srr # <<>> => (write_has_priority <=> age(lrr[1]) <= age(srr[1]))
  <2> SUFFICES ASSUME lrr # <<>>, srr # <<>>
               PROVE  write_has_priority <=> age(lrr[1]) <= age(srr[1])
    OBVIOUS
  <2>1. IsGreaterThan(srr[1].stamp, lrr[1].stamp) <=> age(srr[1]) < age(lrr[1])
    BY HeadsAreClose, GreaterIsYounger DEF LinesInv
  <2>2. age(srr[1]) \in Nat /\ age(lrr[1]) \in Nat
    BY <1>1, <1>2
  <2> HIDE DEF age
  <2> QED
    BY <2>1, <2>2 DEF write_has_priority
<1> HIDE DEF age
<1>4. ASSUME Reads(accept), NEW e \in Stored PROVE age(e) <= age(lrr[1])
  <2>1. lrr # <<>> /\ (srr = <<>> \/ ~write_has_priority)
    BY <1>4 DEF Reads, read_active, write_active
  <2> QED
    BY <1>1, <1>2, <1>3, <2>1
<1>5. ASSUME Writes(accept)
      PROVE  srr[1] \in Stored /\ \A e \in Stored \union Loading : age(e) <= age(srr[1])
  <2>1. srr # <<>> /\ (lrr = <<>> \/ write_has_priority)
    BY <1>5 DEF Writes, write_active
  <2>2. \A e \in Loading : age(e) <= age(srr[1])
    BY <1>1, <1>2, <1>3, <2>1
  <2> QED
    BY <1>2, <2>1, <2>2
<1> QED
  BY <1>4, <1>5 DEF age

(* What the bank does at an edge.                                          *)
BankMoves(accept) ==
  /\ Writes(accept) =>
       /\ fsm_state' # "IDLE"
       /\ result' = <<[op |-> "store", port |-> srr[1].req.port, data |-> Zero]>>
       /\ mem_array' = [mem_array EXCEPT ![srr[1].req.addr] = srr[1].req.data]
  /\ Reads(accept) =>
       /\ fsm_state' # "IDLE"
       /\ result' = <<[op |-> "load", port |-> lrr[1].req.port,
                       data |-> mem_array[lrr[1].req.addr]]>>
  /\ ~Writes(accept) => mem_array' = mem_array
  /\ ~Writes(accept) /\ ~Reads(accept) =>
       \/ fsm_state' = "IDLE" /\ result' = <<>> /\ (accept \/ result = <<>>)
       \/ ~accept /\ fsm_state' = fsm_state /\ result' = result
  /\ Writes(accept) \/ Reads(accept) => accept \/ result = <<>>

LEMMA BankMovement ==
  ASSUME LinesInv, BankInv, NEW accept \in BOOLEAN, Bank(accept)
  PROVE  BankMoves(accept)
<1>1. /\ srr # <<>> => srr[1].req.op = "store"
      /\ lrr # <<>> => lrr[1].req.op = "load"
  <2>1. srr \in Seq(Entry("store", StorePorts)) /\ lrr \in Seq(Entry("load", LoadPorts))
    BY DEF LinesInv, LineInv, LineType
  <2>2. /\ srr # <<>> => srr[1] \in Entry("store", StorePorts)
        /\ lrr # <<>> => lrr[1] \in Entry("load", LoadPorts)
    BY <2>1
  <2> QED
    BY <2>2 DEF Entry
<1>2. bank_free(accept) => accept \/ result = <<>>
  BY DEF bank_free, BankInv
<1>3. CASE bank_free(accept) /\ write_active
  <2>1. Writes(accept) /\ ~Reads(accept) /\ srr # <<>>
    BY <1>3 DEF Writes, Reads, read_active, write_active
  <2>2. /\ fsm_state' = "WDONE"
        /\ result' = Performed(srr[1].req, Zero)
        /\ mem_array' = [mem_array EXCEPT ![srr[1].req.addr] = srr[1].req.data]
    BY <1>3 DEF Bank
  <2>3. result' = <<[op |-> "store", port |-> srr[1].req.port, data |-> Zero]>>
    BY <1>1, <2>1, <2>2 DEF Performed
  <2> QED
    BY <1>2, <1>3, <2>1, <2>2, <2>3 DEF BankMoves
<1>4. CASE bank_free(accept) /\ ~write_active /\ read_active
  <2>1. ~Writes(accept) /\ Reads(accept) /\ lrr # <<>>
    BY <1>4 DEF Writes, Reads, read_active
  <2>2. /\ fsm_state' = "RDONE"
        /\ result' = Performed(lrr[1].req, mem_array[lrr[1].req.addr])
        /\ mem_array' = mem_array
    BY <1>4 DEF Bank
  <2>3. result' = <<[op |-> "load", port |-> lrr[1].req.port,
                     data |-> mem_array[lrr[1].req.addr]]>>
    BY <1>1, <2>1, <2>2 DEF Performed
  <2> QED
    BY <1>2, <1>4, <2>1, <2>2, <2>3 DEF BankMoves
<1>5. CASE bank_free(accept) /\ ~write_active /\ ~read_active
  <2>1. ~Writes(accept) /\ ~Reads(accept)
    BY <1>5 DEF Writes, Reads
  <2>2. fsm_state' = "IDLE" /\ result' = <<>> /\ mem_array' = mem_array
    BY <1>5 DEF Bank
  <2> QED
    BY <1>2, <1>5, <2>1, <2>2 DEF BankMoves
<1>6. CASE ~bank_free(accept)
  <2>1. ~Writes(accept) /\ ~Reads(accept) /\ ~accept
    BY <1>6 DEF Writes, Reads, bank_free
  <2>2. fsm_state' = fsm_state /\ result' = result /\ mem_array' = mem_array
    BY <1>6 DEF Bank, bank
  <2> QED
    BY <2>1, <2>2 DEF BankMoves
<1> QED
  BY <1>3, <1>4, <1>5, <1>6

(* What is handed over, and what the account makes of a cycle.             *)
LEMMA HandedFacts ==
  ASSUME BankInv, NEW accept \in BOOLEAN
  PROVE  /\ \A op, p : (\E c \in Handed(accept) : c.op = op /\ c.port = p)
                          <=> accept /\ Serves(op, p)
         /\ \A c \in Handed(accept) :
              /\ c = result[1]
              /\ \/ c.op = "load" /\ c.port \in LoadPorts /\ Serves("load", c.port)
                 \/ c.op = "store" /\ c.port \in StorePorts /\ Serves("store", c.port)
         /\ \A p : M!Count(Handed(accept), "store", p)
                     = IF accept /\ Serves("store", p) THEN 1 ELSE 0
<1>1. Handed(accept) = IF accept /\ result # <<>> THEN {result[1]} ELSE {}
  <2>1. CASE result = <<>>
    BY <2>1 DEF Handed
  <2>2. CASE result # <<>>
    <3>1. PICK r : result = <<r>>
      BY <2>2 DEF BankInv
    <3>2. DOMAIN result = {1} /\ result[1] = r
      BY <3>1
    <3> QED
      BY <2>2, <3>2 DEF Handed
  <2> QED
    BY <2>1, <2>2
<1>2. \A op, p : (\E c \in Handed(accept) : c.op = op /\ c.port = p) <=> accept /\ Serves(op, p)
  BY <1>1 DEF Serves
<1>3. ASSUME NEW c \in Handed(accept)
      PROVE  /\ c = result[1]
             /\ \/ c.op = "load" /\ c.port \in LoadPorts /\ Serves("load", c.port)
                \/ c.op = "store" /\ c.port \in StorePorts /\ Serves("store", c.port)
  <2>1. c = result[1] /\ result # <<>>
    BY <1>1
  <2>2. \A r : <<r>>[1] = r
    OBVIOUS
  <2>3. \/ c.op = "load" /\ c.port \in LoadPorts
        \/ c.op = "store" /\ c.port \in StorePorts
    BY <2>1, <2>2 DEF BankInv
  <2> QED
    BY <2>1, <2>3 DEF Serves
<1>4. ASSUME NEW p
      PROVE  M!Count(Handed(accept), "store", p) = IF accept /\ Serves("store", p) THEN 1 ELSE 0
  <2>1. {x \in Handed(accept) : x.op = "store" /\ x.port = p}
          = IF accept /\ Serves("store", p) THEN {result[1]} ELSE {}
    BY <1>1 DEF Serves
  <2>2. CASE accept /\ Serves("store", p)
    <3>1. {x \in Handed(accept) : x.op = "store" /\ x.port = p} = {result[1]}
      BY <2>1, <2>2
    <3>2. M!Count(Handed(accept), "store", p) = 1
      BY <3>1, CountOfOne
    <3> QED
      BY <2>2, <3>2
  <2>3. CASE ~(accept /\ Serves("store", p))
    <3>1. {x \in Handed(accept) : x.op = "store" /\ x.port = p} = {}
      BY <2>1, <2>3
    <3>2. M!Count(Handed(accept), "store", p) = 0
      BY <3>1, CountOfOne
    <3> QED
      BY <2>3, <3>2
  <2> QED
    BY <2>2, <2>3
<1> QED
  BY <1>2, <1>3, <1>4

LEMMA CycleAccount ==
  ASSUME BankInv, NEW accept \in BOOLEAN, NEW L, NEW S, Cycle(L, S, Handed(accept))
  PROVE  /\ M!Account(Taken(L, S), Handed(accept)) /\ Requesters(L, S)
         /\ \A a \in Addr : possible'[a] = IF M!Written(Taken(L, S), a) = {} THEN possible[a]
                                           ELSE M!Written(Taken(L, S), a)
         /\ \A a : M!Written(Taken(L, S), a)
                     = {sr_in[p][1].data : p \in {q \in S : sr_in[q][1].addr = a}}
         /\ \A p \in LoadPorts :
              loads'[p] =
                LET left == IF accept /\ Serves("load", p) THEN Tail(loads[p]) ELSE loads[p]
                IN IF p \in L
                   THEN Append(left, M!Permitted(Taken(L, S), lr_in[p][1].addr)) ELSE left
         /\ \A p \in StorePorts :
              stores'[p] = stores[p] + (IF p \in S THEN 1 ELSE 0)
                                     - (IF accept /\ Serves("store", p) THEN 1 ELSE 0)
<1>1. M!Account(Taken(L, S), Handed(accept)) /\ Requesters(L, S)
  BY DEF Cycle, Taken
<1>2. ASSUME NEW p \in LoadPorts
      PROVE  loads'[p] =
               LET left == IF accept /\ Serves("load", p) THEN Tail(loads[p]) ELSE loads[p]
               IN IF p \in L
                  THEN Append(left, M!Permitted(Taken(L, S), lr_in[p][1].addr)) ELSE left
  <2>1. loads'[p] = M!After(p, Taken(L, S), Handed(accept))
    BY <1>1 DEF M!Account
  <2>2. (\E c \in Handed(accept) : c.op = "load" /\ c.port = p) <=> accept /\ Serves("load", p)
    BY HandedFacts
  <2> QED
    BY <2>1, <2>2, TakenFacts
<1>3. ASSUME NEW p \in StorePorts
      PROVE  stores'[p] = stores[p] + (IF p \in S THEN 1 ELSE 0)
                                    - (IF accept /\ Serves("store", p) THEN 1 ELSE 0)
  <2>1. stores'[p] = stores[p] + M!Count(Taken(L, S), "store", p)
                                - M!Count(Handed(accept), "store", p)
    BY <1>1 DEF M!Account
  <2> QED
    BY <2>1, TakenFacts, HandedFacts
<1>4. \A a \in Addr : possible'[a] = IF M!Written(Taken(L, S), a) = {} THEN possible[a]
                                     ELSE M!Written(Taken(L, S), a)
  BY <1>1 DEF M!Account
<1> QED
  BY <1>1, <1>2, <1>3, <1>4, TakenFacts

(* An edge, for a line with or without repeaters.                          *)
LEMMA EdgeFacts ==
  ASSUME NEW op, NEW n, NEW stages, NEW in, NEW queue, NEW rep, NEW leaves, NEW ack,
         NEW queue2, NEW rep2,
         EdgeFrom(op, n, stages, in, queue, rep, leaves, ack, queue2, rep2)
  PROVE  /\ LineInv(IncrementSLV(raw_time_stamp), op, 0 .. n, stages, queue2, rep2)
         /\ FlightMoves(queue, rep, leaves, Newcomers(op, ack, in), queue2, rep2)
         /\ ack \subseteq {p \in 0 .. n : in[p] # <<>>}
         /\ \A p \in 0 .. n : \A goes, asks \in BOOLEAN :
              (goes <=> leaves /\ queue[1].req.port = p) /\ (asks <=> p \in ack) =>
                Pending(queue2, rep2, p)
                  = Shifted(Pending(queue, rep, p), goes, If(asks, Newcomer(op, p, in)))
<1>1. \E id, comes, x :
        LineMoves(op, n, stages, in, queue, rep, leaves, ack, queue2, rep2, id, comes, x)
  BY DirectMoves, RepeatedMoves
<1>2. PICK id, comes, x :
        LineMoves(op, n, stages, in, queue, rep, leaves, ack, queue2, rep2, id, comes, x)
  BY <1>1
<1>3. ack \subseteq {p \in 0 .. n : in[p] # <<>>}
  BY <1>2 DEF LineMoves
<1>4. ASSUME NEW p \in 0 .. n, NEW goes \in BOOLEAN, NEW asks \in BOOLEAN,
             goes <=> leaves /\ queue[1].req.port = p, asks <=> p \in ack
      PROVE  Pending(queue2, rep2, p)
               = Shifted(Pending(queue, rep, p), goes, If(asks, Newcomer(op, p, in)))
  BY <1>2, <1>4, PendingAfter
<1>5. /\ LineInv(IncrementSLV(raw_time_stamp), op, 0 .. n, stages, queue2, rep2)
      /\ FlightMoves(queue, rep, leaves, Newcomers(op, ack, in), queue2, rep2)
  BY <1>2, LineAfter
<1> QED
  BY <1>3, <1>4, <1>5

(* A cycle of the memory.                                                  *)
ACycle(accept, L, S, nl, ns) ==
  /\ LinesInv /\ BankInv /\ mem_array \in [Addr -> Datum]
  /\ StampsTellTheOrder
  /\ accept \in BOOLEAN
  /\ Edges(accept, L, S, nl, ns)
  /\ Cycle(L, S, Handed(accept))
  /\ BankMoves(accept)
  /\ raw_time_stamp' = IncrementSLV(raw_time_stamp)

(* The stores that are in flight, and those that come.                     *)
LEMMA StoresAfter ==
  ASSUME NEW accept, NEW L, NEW S, NEW nl, NEW ns, ACycle(accept, L, S, nl, ns)
  PROVE  /\ \A t \in Nat :
              (Writes(accept) => AgeAt(raw_time_stamp, srr[1].stamp) >= t) =>
                Performs(Stored, InFlight(srr', store_repeater'), Newcomers("store", S, sr_in),
                         raw_time_stamp, raw_time_stamp', t, Writes(accept), srr[1])
         /\ Newcomers("store", S, sr_in) \subseteq InFlight(srr', store_repeater')
         /\ \A e \in InFlight(srr', store_repeater') :
              /\ AgeAt(raw_time_stamp', e.stamp) \in Nat /\ AgeAt(raw_time_stamp', e.stamp) >= 1
              /\ AgeAt(raw_time_stamp', e.stamp) = 1 => e \in Newcomers("store", S, sr_in)
         /\ \A e \in Newcomers("store", S, sr_in) :
              /\ AgeAt(raw_time_stamp', e.stamp) = 1
              /\ \E p \in S : e.req.addr = sr_in[p][1].addr /\ e.req.data = sr_in[p][1].data
<1> DEFINE new == Newcomers("store", S, sr_in)
           now2 == raw_time_stamp'
           F2 == InFlight(srr', store_repeater')
           E == Entry("store", StorePorts)
<1>1. /\ LinesInv /\ StampsTellTheOrder /\ accept \in BOOLEAN
      /\ StorePorts = 0 .. ns
      /\ EdgeFrom("store", ns, StoreStages, sr_in, srr, store_repeater, Writes(accept), S,
                  srr', store_repeater')
      /\ now2 = IncrementSLV(raw_time_stamp)
  BY DEF ACycle, Edges
<1>2. /\ LineInv(now2, "store", StorePorts, StoreStages, srr', store_repeater')
      /\ FlightMoves(srr, store_repeater, Writes(accept), new, srr', store_repeater')
      /\ S \subseteq {p \in StorePorts : sr_in[p] # <<>>}
  BY <1>1, EdgeFacts
<1>3. raw_time_stamp \in Stamps /\ now2 \in Stamps
  BY <1>1, NextStamp DEF LinesInv
<1>4. ASSUME NEW e \in Stored PROVE Ages(raw_time_stamp, now2, e) /\ AgeAt(raw_time_stamp, e.stamp) >= 1
  <2>1. AgeAt(raw_time_stamp, e.stamp) < Turn - 1
    BY <1>1 DEF EdgeFrom, Stored
  <2>2. LineType("store", StorePorts, StoreStages, srr, store_repeater)
    BY <1>1 DEF LinesInv, LineInv
  <2>3. Ages(raw_time_stamp, now2, e)
    BY <1>1, <1>3, <2>1, <2>2, FlightAges DEF Stored
  <2>4. AgeAt(raw_time_stamp, e.stamp) >= 1
    BY <1>1 DEF LinesInv, LineInv, Stored
  <2> QED
    BY <2>3, <2>4
<1>5. ASSUME NEW e \in new
      PROVE  /\ AgeAt(now2, e.stamp) = 1
             /\ \E p \in S : e.req.addr = sr_in[p][1].addr /\ e.req.data = sr_in[p][1].data
  <2>1. PICK p \in S : e = Newcomer("store", p, sr_in)
    BY DEF Newcomers
  <2>2. e.stamp = raw_time_stamp /\ e.req.addr = sr_in[p][1].addr /\ e.req.data = sr_in[p][1].data
    BY <2>1 DEF Newcomer, The
  <2>3. AgeAt(now2, raw_time_stamp) = 1
    BY <1>1, <1>3, Aging
  <2> QED
    BY <2>2, <2>3
<1>6. /\ F2 \subseteq Stored \union new /\ new \subseteq F2
      /\ \A e \in Stored : e \in F2 \/ (Writes(accept) /\ e = srr[1])
  BY <1>2 DEF FlightMoves, Stored
<1>7. /\ Writes(accept) \in BOOLEAN
      /\ Writes(accept) => /\ srr[1] \in Stored
                           /\ \A f \in Stored : AgeAt(raw_time_stamp, f.stamp)
                                                  <= AgeAt(raw_time_stamp, srr[1].stamp)
  BY <1>1, LeavingFacts, PerformedInOrder
<1> HIDE DEF new, now2, F2
<1>8. ASSUME NEW t \in Nat, Writes(accept) => AgeAt(raw_time_stamp, srr[1].stamp) >= t
      PROVE  Performs(Stored, F2, new, raw_time_stamp, now2, t, Writes(accept), srr[1])
  BY <1>4, <1>5, <1>6, <1>7, <1>8 DEF Performs
<1>9. ASSUME NEW e \in F2
      PROVE  /\ AgeAt(now2, e.stamp) \in Nat /\ AgeAt(now2, e.stamp) >= 1
             /\ AgeAt(now2, e.stamp) = 1 => e \in new
  <2>1. CASE e \in new
    BY <1>5, <2>1
  <2>2. CASE e \in Stored
    BY <1>4, <2>2 DEF Ages
  <2> QED
    BY <1>6, <2>1, <2>2
<1> QED
  BY <1>5, <1>6, <1>8, <1>9 DEF new, now2, F2

(* What a load will find after the cycle.                                  *)
LEMMA SeesAfter ==
  ASSUME NEW accept, NEW L, NEW S, NEW nl, NEW ns, ACycle(accept, L, S, nl, ns),
         NEW a \in Addr, NEW W, NEW W2, NEW t \in Nat,
         Sees(Stored, mem_array, raw_time_stamp, W, a, t), W \subseteq W2,
         t = 0 => \A p \in S : sr_in[p][1].addr = a => sr_in[p][1].data \in W2,
         Writes(accept) => AgeAt(raw_time_stamp, srr[1].stamp) >= t
  PROVE  Sees(InFlight(srr', store_repeater'), mem_array', raw_time_stamp', W2, a, t + 1)
<1>1. mem_array'[a] = IF Writes(accept) /\ srr[1].req.addr = a THEN srr[1].req.data
                      ELSE mem_array[a]
  BY DEF ACycle, BankMoves
<1>2. Performs(Stored, InFlight(srr', store_repeater'), Newcomers("store", S, sr_in),
               raw_time_stamp, raw_time_stamp', t, Writes(accept), srr[1])
  BY StoresAfter
<1>3. t = 0 => \A e \in Newcomers("store", S, sr_in) : e.req.addr = a => e.req.data \in W2
  BY StoresAfter
<1> QED
  BY <1>1, <1>2, <1>3, SeesStep

(* What an address may hold after the cycle.                               *)
LEMMA PossibleAfter ==
  ASSUME NEW accept, NEW L, NEW S, NEW nl, NEW ns, ACycle(accept, L, S, nl, ns),
         NEW a \in Addr,
         Sees(Stored, mem_array, raw_time_stamp, possible[a], a, 0)
  PROVE  Sees(InFlight(srr', store_repeater'), mem_array', raw_time_stamp', possible'[a], a, 0)
<1> DEFINE W == M!Written(Taken(L, S), a)
           F2 == InFlight(srr', store_repeater')
<1>1. /\ possible'[a] = IF W = {} THEN possible[a] ELSE W
      /\ W = {sr_in[p][1].data : p \in {q \in S : sr_in[q][1].addr = a}}
  BY CycleAccount DEF ACycle
<1>2. \A e \in F2 : /\ AgeAt(raw_time_stamp', e.stamp) \in Nat
                    /\ AgeAt(raw_time_stamp', e.stamp) >= 1
                    /\ AgeAt(raw_time_stamp', e.stamp) = 1 => e \in Newcomers("store", S, sr_in)
  BY StoresAfter
<1> HIDE DEF W, F2
<1>3. CASE W = {}
  <2>1. \A p \in S : sr_in[p][1].addr # a
    BY <1>1, <1>3
  <2>2. Writes(accept) => AgeAt(raw_time_stamp, srr[1].stamp) >= 0
    <3>1. Writes(accept) => srr[1] \in Stored
      BY PerformedInOrder DEF ACycle
    <3>2. \A e \in Stored : AgeAt(raw_time_stamp, e.stamp) >= 1
      BY DEF ACycle, LinesInv, LineInv, Stored
    <3>3. Writes(accept) => AgeAt(raw_time_stamp, srr[1].stamp) \in Nat
      <4>1. Writes(accept) => srr[1] \in Entry("store", StorePorts)
        BY LeavingFacts DEF ACycle, LinesInv, LineInv, LineType
      <4> QED
        BY <4>1, AgesOf DEF ACycle, LinesInv
    <3> QED
      BY <3>3
  <2>3. Sees(F2, mem_array', raw_time_stamp', possible[a], a, 0 + 1)
    BY <2>1, <2>2, SeesAfter DEF F2
  <2>4. Sees(F2, mem_array', raw_time_stamp', possible[a], a, 0)
    BY <1>2, <2>3, SeesNow
  <2> QED
    BY <1>1, <1>3, <2>4 DEF F2
<1>4. CASE W # {}
  <2>1. PICK p \in S : sr_in[p][1].addr = a
    BY <1>1, <1>4
  <2> DEFINE e0 == Newcomer("store", p, sr_in)
  <2>2. e0 \in Newcomers("store", S, sr_in) /\ e0.req.addr = a
    BY <2>1 DEF Newcomers, Newcomer, The
  <2>3. e0 \in F2 /\ AgeAt(raw_time_stamp', e0.stamp) = 1
    BY <2>2, StoresAfter DEF F2
  <2>4. \A e \in F2 : e.req.addr = a /\ AgeAt(raw_time_stamp', e.stamp) = 1 => e.req.data \in W
    <3>1. \A e \in Newcomers("store", S, sr_in) : e.req.addr = a => e.req.data \in W
      BY <1>1, StoresAfter
    <3> QED
      BY <1>2, <3>1
  <2> HIDE DEF e0
  <2>5. Sees(F2, mem_array', raw_time_stamp', W, a, 0)
    BY <1>2, <2>2, <2>3, <2>4, SeesStored
  <2> QED
    BY <1>1, <1>4, <2>5 DEF F2
<1> QED
  BY <1>3, <1>4

(* Whom the bank serves after the cycle.                                   *)
LEMMA ServesAfter ==
  ASSUME NEW accept, NEW L, NEW S, NEW nl, NEW ns, ACycle(accept, L, S, nl, ns), NEW p
  PROVE  /\ Serves("load", p)' <=>
              \/ Reads(accept) /\ lrr[1].req.port = p
              \/ ~accept /\ Serves("load", p)
         /\ Serves("store", p)' <=>
              \/ Writes(accept) /\ srr[1].req.port = p
              \/ ~accept /\ Serves("store", p)
         /\ Reads(accept) \/ Writes(accept) => accept \/ result = <<>>
         /\ Reads(accept) => result'[1].data = mem_array[lrr[1].req.addr]
         /\ ~accept /\ result # <<>> => result' = result
<1>1. BankMoves(accept) /\ accept \in BOOLEAN
  BY DEF ACycle
<1>2. \A x : <<x>>[1] = x /\ <<x>> # <<>>
  OBVIOUS
<1>3. CASE Writes(accept)
  <2>1. ~Reads(accept) /\ (accept \/ result = <<>>)
    BY <1>1, <1>3, LeavingFacts DEF BankMoves
  <2>2. result' = <<[op |-> "store", port |-> srr[1].req.port, data |-> Zero]>>
    BY <1>1, <1>3 DEF BankMoves
  <2>3. result' # <<>> /\ result'[1].op = "store" /\ result'[1].port = srr[1].req.port
    BY <1>2, <2>2
  <2> QED
    BY <1>3, <2>1, <2>3 DEF Serves
<1>4. CASE Reads(accept)
  <2>1. ~Writes(accept) /\ (accept \/ result = <<>>)
    BY <1>1, <1>4, LeavingFacts DEF BankMoves
  <2>2. result' = <<[op |-> "load", port |-> lrr[1].req.port,
                     data |-> mem_array[lrr[1].req.addr]]>>
    BY <1>1, <1>4 DEF BankMoves
  <2>3. /\ result' # <<>> /\ result'[1].op = "load" /\ result'[1].port = lrr[1].req.port
        /\ result'[1].data = mem_array[lrr[1].req.addr]
    BY <1>2, <2>2
  <2> QED
    BY <1>4, <2>1, <2>3 DEF Serves
<1>5. CASE ~Writes(accept) /\ ~Reads(accept)
  <2>1. \/ result' = <<>> /\ (accept \/ result = <<>>)
        \/ ~accept /\ result' = result
    BY <1>1, <1>5 DEF BankMoves
  <2> QED
    BY <1>5, <2>1 DEF Serves
<1> QED
  BY <1>3, <1>4, <1>5

(* The requests of a port that come and go.                                *)
LEMMA PortMoves ==
  ASSUME NEW accept, NEW L, NEW S, NEW nl, NEW ns, ACycle(accept, L, S, nl, ns)
  PROVE  /\ \A p \in LoadPorts : \A goes, asks \in BOOLEAN :
              (goes <=> Reads(accept) /\ lrr[1].req.port = p) /\ (asks <=> p \in L) =>
                /\ Pending(lrr', load_repeater', p)
                     = Shifted(Pending(lrr, load_repeater, p), goes,
                               If(asks, Newcomer("load", p, lr_in)))
                /\ goes => /\ Pending(lrr, load_repeater, p) # <<>>
                           /\ Pending(lrr, load_repeater, p)[1] = lrr[1]
                /\ asks => Newcomer("load", p, lr_in) \in Entry("load", LoadPorts)
         /\ \A p \in StorePorts : \A goes, asks \in BOOLEAN :
              (goes <=> Writes(accept) /\ srr[1].req.port = p) /\ (asks <=> p \in S) =>
                /\ Pending(srr', store_repeater', p)
                     = Shifted(Pending(srr, store_repeater, p), goes,
                               If(asks, Newcomer("store", p, sr_in)))
                /\ goes => Pending(srr, store_repeater, p) # <<>>
                /\ asks => Newcomer("store", p, sr_in) \in Entry("store", StorePorts)
<1>1. /\ LoadPorts = 0 .. nl /\ StorePorts = 0 .. ns /\ LinesInv
      /\ EdgeFrom("load", nl, LoadStages, lr_in, lrr, load_repeater, Reads(accept), L,
                  lrr', load_repeater')
      /\ EdgeFrom("store", ns, StoreStages, sr_in, srr, store_repeater, Writes(accept), S,
                  srr', store_repeater')
      /\ accept \in BOOLEAN
  BY DEF ACycle, Edges
<1>2. /\ Reads(accept) => lrr # <<>>
      /\ Writes(accept) => srr # <<>>
  BY <1>1, LeavingFacts
<1>3. /\ L \subseteq {p \in LoadPorts : lr_in[p] # <<>>}
      /\ S \subseteq {p \in StorePorts : sr_in[p] # <<>>}
  BY <1>1, EdgeFacts
<1>4. /\ \A p \in L : Newcomer("load", p, lr_in) \in Entry("load", LoadPorts)
      /\ \A p \in S : Newcomer("store", p, sr_in) \in Entry("store", StorePorts)
  BY <1>1, <1>3, NewcomerType DEF LinesInv
<1>5. ASSUME NEW p \in LoadPorts, NEW goes \in BOOLEAN, NEW asks \in BOOLEAN,
             goes <=> Reads(accept) /\ lrr[1].req.port = p, asks <=> p \in L
      PROVE  /\ Pending(lrr', load_repeater', p)
                  = Shifted(Pending(lrr, load_repeater, p), goes,
                            If(asks, Newcomer("load", p, lr_in)))
             /\ goes => /\ Pending(lrr, load_repeater, p) # <<>>
                        /\ Pending(lrr, load_repeater, p)[1] = lrr[1]
  <2>1. LineType("load", LoadPorts, LoadStages, lrr, load_repeater)
    BY <1>1 DEF LinesInv, LineInv
  <2>2. lrr # <<>> /\ lrr[1].req.port = p =>
          /\ Pending(lrr, load_repeater, p) # <<>>
          /\ Pending(lrr, load_repeater, p)[1] = lrr[1]
    BY <2>1, PendingFacts
  <2>3. Pending(lrr', load_repeater', p)
                  = Shifted(Pending(lrr, load_repeater, p), goes,
                            If(asks, Newcomer("load", p, lr_in)))
    BY <1>1, <1>5, EdgeFacts
  <2> QED
    BY <1>2, <1>5, <2>2, <2>3
<1>6. ASSUME NEW p \in StorePorts, NEW goes \in BOOLEAN, NEW asks \in BOOLEAN,
             goes <=> Writes(accept) /\ srr[1].req.port = p, asks <=> p \in S
      PROVE  /\ Pending(srr', store_repeater', p)
                  = Shifted(Pending(srr, store_repeater, p), goes,
                            If(asks, Newcomer("store", p, sr_in)))
             /\ goes => Pending(srr, store_repeater, p) # <<>>
  <2>1. LineType("store", StorePorts, StoreStages, srr, store_repeater)
    BY <1>1 DEF LinesInv, LineInv
  <2>2. srr # <<>> /\ srr[1].req.port = p => Pending(srr, store_repeater, p) # <<>>
    BY <2>1, PendingFacts
  <2>3. Pending(srr', store_repeater', p)
                  = Shifted(Pending(srr, store_repeater, p), goes,
                            If(asks, Newcomer("store", p, sr_in)))
    BY <1>1, <1>6, EdgeFacts
  <2> QED
    BY <1>2, <1>6, <2>2, <2>3
<1> QED
  BY <1>4, <1>5, <1>6

LEMMA StorePortStep ==
  ASSUME NEW accept, NEW L, NEW S, NEW nl, NEW ns, ACycle(accept, L, S, nl, ns),
         NEW p \in StorePorts, StoresInv(p)
  PROVE  StoresInv(p)'
<1> DEFINE goes == Writes(accept) /\ srr[1].req.port = p
           asks == p \in S
           own == Pending(srr, store_repeater, p)
           own2 == Pending(srr', store_repeater', p)
           new == Newcomer("store", p, sr_in)
           E == Entry("store", StorePorts)
           r == IF Serves("store", p) THEN 1 ELSE 0
           r2 == IF Serves("store", p)' THEN 1 ELSE 0
           handed == IF accept /\ Serves("store", p) THEN 1 ELSE 0
           l == Len(own)
           l2 == Len(own2)
<1>1. goes \in BOOLEAN /\ asks \in BOOLEAN
  BY LeavingFacts DEF ACycle
<1>2. own2 = Shifted(own, goes, If(asks, new)) /\ (goes => own # <<>>) /\ (asks => new \in E)
  <2>1. (goes <=> Writes(accept) /\ srr[1].req.port = p) /\ (asks <=> p \in S)
    OBVIOUS
  <2> HIDE DEF goes, asks
  <2> QED
    BY <1>1, <2>1, PortMoves
<1>3. own \in Seq(E)
  BY PendingFacts DEF ACycle, LinesInv, LineInv
<1>4. PICK d, n : IsShift(E, own, goes, asks, new, own2, d, n)
  <2> HIDE DEF goes, asks, own, own2, new, E
  <2> QED
    BY <1>1, <1>2, <1>3, ShiftFacts
<1>5. /\ n \in Nat /\ l2 = n + One(asks) /\ d \in {0, 1} /\ (d = 1 <=> goes) /\ l = n + d
  BY <1>4 DEF IsShift
<1>6. stores[p] = r + l
  BY DEF StoresInv, One
<1>7. stores'[p] = stores[p] + (IF asks THEN 1 ELSE 0) - handed
  BY CycleAccount DEF ACycle
<1>8. Serves("store", p)' <=> goes \/ (~accept /\ Serves("store", p))
  BY ServesAfter
<1>9. goes => accept \/ ~Serves("store", p)
  BY ServesAfter DEF Serves
<1>10. r2 + handed = r + d
  <2>1. d = IF goes THEN 1 ELSE 0
    BY <1>5
  <2> HIDE DEF goes
  <2> QED
    BY <1>8, <1>9, <2>1
<1>11. One(asks) = IF asks THEN 1 ELSE 0
  BY DEF One
<1>12. r2 \in Nat /\ handed \in Nat /\ r \in Nat /\ (IF asks THEN 1 ELSE 0) \in Nat
  OBVIOUS
<1> HIDE DEF r, r2, handed, l, l2, asks, goes
<1>13. stores'[p] = r2 + l2
  BY <1>5, <1>6, <1>7, <1>10, <1>11, <1>12
<1>14. r2 = One(Serves("store", p)')
  BY DEF r2, One
<1> QED
  BY <1>13, <1>14 DEF StoresInv, l2

LEMMA LoadingFacts ==
  ASSUME NEW accept, NEW L, NEW S, NEW nl, NEW ns, ACycle(accept, L, S, nl, ns),
         NEW e \in Loading
  PROVE  /\ AgeAt(raw_time_stamp, e.stamp) \in Nat /\ AgeAt(raw_time_stamp, e.stamp) >= 1
         /\ AgeAt(raw_time_stamp', e.stamp) = AgeAt(raw_time_stamp, e.stamp) + 1
         /\ e.req.addr \in Addr
<1>1. LinesInv /\ StampsTellTheOrder /\ raw_time_stamp' = IncrementSLV(raw_time_stamp)
  BY DEF ACycle
<1>2. /\ LineType("load", LoadPorts, LoadStages, lrr, load_repeater)
      /\ raw_time_stamp \in Stamps /\ AgeAt(raw_time_stamp, e.stamp) >= 1
  BY <1>1 DEF LinesInv, LineInv, Loading
<1>3. AgeAt(raw_time_stamp, e.stamp) < Turn - 1
  <2>1. Age(e.stamp) < 4 * Quarter - 1
    BY <1>1 DEF StampsTellTheOrder, Loading
  <2> QED
    BY <2>1, AgeIs DEF Turn
<1>4. e \in Entry("load", LoadPorts) /\ Ages(raw_time_stamp, IncrementSLV(raw_time_stamp), e)
  BY <1>2, <1>3, FlightAges DEF Loading
<1>5. e.req.addr \in Addr
  BY <1>4 DEF Entry
<1> QED
  BY <1>1, <1>2, <1>4, <1>5 DEF Ages

(* The loads of a port, and the words that each of them may return.        *)
LEMMA LoadPortStep ==
  ASSUME NEW accept, NEW L, NEW S, NEW nl, NEW ns, ACycle(accept, L, S, nl, ns),
         \A a \in Addr : /\ possible[a] \subseteq Datum
                         /\ Sees(Stored, mem_array, raw_time_stamp, possible[a], a, 0),
         NEW p \in LoadPorts, LoadsInv(p)
  PROVE  LoadsInv(p)'
<1> DEFINE goes == Reads(accept) /\ lrr[1].req.port = p
           asks == p \in L
           handed == accept /\ Serves("load", p)
           own == Pending(lrr, load_repeater, p)
           own2 == Pending(lrr', load_repeater', p)
           new == Newcomer("load", p, lr_in)
           E == Entry("load", LoadPorts)
           addr == lr_in[p][1].addr
           R == Taken(L, S)
           perm == M!Permitted(R, addr)
           ld == loads[p]
           ld2 == loads'[p]
           r == One(Serves("load", p))
           r2 == One(Serves("load", p)')
           F2 == InFlight(srr', store_repeater')
           Find(W, e) == Sees(F2, mem_array', raw_time_stamp', W, e.req.addr,
                              AgeAt(raw_time_stamp', e.stamp))
<1>1. goes \in BOOLEAN /\ asks \in BOOLEAN /\ handed \in BOOLEAN
      /\ (Serves("load", p)') \in BOOLEAN /\ Serves("load", p) \in BOOLEAN
  BY LeavingFacts DEF ACycle, Serves
<1>2. /\ own2 = Shifted(own, goes, If(asks, new))
      /\ (goes => own # <<>> /\ own[1] = lrr[1]) /\ (asks => new \in E)
  <2>1. /\ goes \in BOOLEAN /\ asks \in BOOLEAN
        /\ (goes <=> Reads(accept) /\ lrr[1].req.port = p) /\ (asks <=> p \in L)
    BY <1>1
  <2> HIDE DEF goes, asks
  <2> QED
    BY <2>1, PortMoves
<1>3. own \in Seq(E) /\ \A k \in DOMAIN own : own[k] \in Loading
  BY PendingFacts DEF ACycle, LinesInv, LineInv, Loading
<1>4. /\ ld \in Seq(SUBSET Datum) /\ Len(ld) = r + Len(own)
      /\ Serves("load", p) => result[1].data \in ld[1]
      /\ \A k \in DOMAIN own :
           Sees(Stored, mem_array, raw_time_stamp, ld[k + r], own[k].req.addr,
                AgeAt(raw_time_stamp, own[k].stamp))
  BY DEF LoadsInv
<1>5. asks => /\ addr \in Addr /\ new.req.addr = addr /\ new.stamp = raw_time_stamp
              /\ perm = possible[addr] \union M!Written(R, addr)
              /\ perm \in SUBSET Datum
  <2> SUFFICES ASSUME asks
               PROVE  /\ addr \in Addr /\ new.req.addr = addr /\ new.stamp = raw_time_stamp
                      /\ perm = possible[addr] \union M!Written(R, addr)
                      /\ perm \in SUBSET Datum
    OBVIOUS
  <2>1. new.req.addr = addr /\ new.stamp = raw_time_stamp
    BY DEF Newcomer, The
  <2>2. addr \in Addr
    <3>1. new.req.addr \in Addr
      BY <1>2 DEF Entry
    <3> QED
      BY <2>1, <3>1
  <2>3. perm = possible[addr] \union M!Written(R, addr)
    BY DEF M!Permitted
  <2>4. M!Written(R, addr) \subseteq Datum
    <3>1. M!Written(R, addr) = {sr_in[q][1].data : q \in {x \in S : sr_in[x][1].addr = addr}}
      BY CycleAccount DEF ACycle
    <3>2. S \subseteq {q \in StorePorts : sr_in[q] # <<>>}
      BY EdgeFacts DEF ACycle, Edges
    <3>3. \A q \in S : sr_in[q][1].data \in Datum
      BY <3>2 DEF ACycle, LinesInv, Asks
    <3> QED
      BY <3>1, <3>3
  <2> QED
    BY <2>1, <2>2, <2>3, <2>4
<1>6. ld2 = Shifted(ld, handed, If(asks, perm))
  <2>1. ld2 = LET left == IF handed THEN Tail(ld) ELSE ld
              IN IF asks THEN Append(left, perm) ELSE left
    BY CycleAccount DEF ACycle
  <2> DEFINE left == IF handed THEN Tail(ld) ELSE ld
  <2>2. handed => ld # <<>>
    <3>1. handed => r = 1
      BY DEF One
    <3>2. Len(ld) = r + Len(own) /\ Len(own) \in Nat
      BY <1>3, <1>4
    <3> HIDE DEF r, handed, ld, own
    <3>3. handed => Len(ld) # 0
      BY <3>1, <3>2
    <3>4. Len(<<>>) = 0
      OBVIOUS
    <3> QED
      BY <3>3, <3>4
  <2>3. left \in Seq(SUBSET Datum)
    BY <1>4, <2>2
  <2>4. left \o <<>> = left
    BY <2>3, ConcatEmptySeq
  <2>5. asks => Append(left, perm) = left \o <<perm>>
    BY <1>5, <2>3, AppendIsConcat
  <2>6. ld2 = IF asks THEN Append(left, perm) ELSE left
    BY <2>1
  <2>7. Shifted(ld, handed, If(asks, perm)) = left \o If(asks, perm)
    BY DEF Shifted
  <2> HIDE DEF left, asks, perm, ld, ld2, handed
  <2>8. If(asks, perm) = IF asks THEN <<perm>> ELSE <<>>
    BY DEF If
  <2>9. ld2 = left \o If(asks, perm)
    <3>1. CASE asks
      BY <2>5, <2>6, <2>8, <3>1
    <3>2. CASE ~asks
      BY <2>4, <2>6, <2>8, <3>2
    <3> QED
      BY <3>1, <3>2
  <2> QED
    BY <2>7, <2>9
<1>7. PICK d, n : IsShift(E, own, goes, asks, new, own2, d, n)
  <2> HIDE DEF goes, asks, own, own2, new, E
  <2> QED
    BY <1>1, <1>2, <1>3, ShiftFacts
<1>8. PICK h, m : IsShift(SUBSET Datum, ld, handed, asks, perm, ld2, h, m)
  <2>1. handed => ld # <<>>
    <3>1. handed => Serves("load", p)
      OBVIOUS
    <3>2. Serves("load", p) => r = 1
      BY DEF One
    <3>3. Len(<<>>) = 0
      OBVIOUS
    <3> HIDE DEF r, handed, ld, own
    <3>4. Len(own) \in Nat
      BY <1>3
    <3> QED
      BY <1>4, <3>1, <3>2, <3>3, <3>4
  <2>2. asks => perm \in SUBSET Datum
    BY <1>5
  <2> HIDE DEF goes, asks, handed, perm, ld, ld2
  <2> QED
    BY <1>1, <1>4, <1>6, <2>1, <2>2, ShiftFacts
<1>9. /\ n \in Nat /\ Len(own2) = n + One(asks) /\ d \in {0, 1} /\ (d = 1 <=> goes)
      /\ Len(own) = n + d /\ own2 \in Seq(E)
      /\ \A k \in DOMAIN own2 : \/ k \in 1 .. n /\ k + d \in DOMAIN own /\ own2[k] = own[k + d]
                                \/ asks /\ k = n + 1 /\ own2[k] = new
      /\ DOMAIN own = 1 .. n + d
  BY <1>3, <1>7 DEF IsShift
<1>10. /\ m \in Nat /\ Len(ld2) = m + One(asks) /\ h \in {0, 1} /\ (h = 1 <=> handed)
       /\ Len(ld) = m + h /\ ld2 \in Seq(SUBSET Datum)
       /\ \A k \in 1 .. m : ld2[k] = ld[k + h]
       /\ asks => ld2[m + 1] = perm
  <2>1. /\ m \in Nat /\ Len(ld2) = m + One(asks) /\ h \in {0, 1} /\ (h = 1 <=> handed)
        /\ Len(ld) = m + h /\ ld2 \in Seq(SUBSET Datum)
        /\ asks => ld2[m + 1] = perm
        /\ \A k \in DOMAIN ld2 : \/ k \in 1 .. m /\ ld2[k] = ld[k + h]
                                 \/ asks /\ k = m + 1
    BY <1>8 DEF IsShift
  <2>2. 1 .. m \subseteq DOMAIN ld2
    <3>1. DOMAIN ld2 = 1 .. Len(ld2) /\ One(asks) \in Nat
      BY <2>1 DEF One
    <3> HIDE DEF ld2, asks
    <3> QED
      BY <2>1, <3>1
  <2>3. \A k \in 1 .. m : k \in DOMAIN ld2 /\ k # m + 1
    BY <2>1, <2>2
  <2> HIDE DEF ld, ld2, asks, handed, perm
  <2> QED
    BY <2>1, <2>3
<1>11. /\ Serves("load", p)' <=> goes \/ (~accept /\ Serves("load", p))
       /\ goes => accept \/ ~Serves("load", p)
       /\ ~accept /\ Serves("load", p) => result' = result
       /\ goes => result'[1].data = mem_array[lrr[1].req.addr]
  <2>1. /\ Serves("load", p)' <=> \/ Reads(accept) /\ lrr[1].req.port = p
                                  \/ ~accept /\ Serves("load", p)
        /\ Reads(accept) \/ Writes(accept) => accept \/ result = <<>>
        /\ Reads(accept) => result'[1].data = mem_array[lrr[1].req.addr]
        /\ ~accept /\ result # <<>> => result' = result
    BY ServesAfter
  <2>2. Serves("load", p) => result # <<>>
    BY DEF Serves
  <2> QED
    BY <2>1, <2>2
<1>12. /\ r2 + h = r + d /\ r \in {0, 1} /\ r2 \in {0, 1}
       /\ r = 1 <=> Serves("load", p)
       /\ goes => r2 = 1 /\ r = h
       /\ ~goes /\ r2 = 1 => ~accept /\ Serves("load", p) /\ r = 1 /\ h = 0
       /\ r2 = 1 <=> Serves("load", p)'
  <2>1. r = IF Serves("load", p) THEN 1 ELSE 0
    BY DEF One
  <2>2. r2 = IF Serves("load", p)' THEN 1 ELSE 0
    BY DEF One
  <2>3. handed <=> accept /\ Serves("load", p)
    OBVIOUS
  <2> DEFINE now == Serves("load", p)
             then == Serves("load", p)'
  <2>4. /\ now \in BOOLEAN /\ then \in BOOLEAN /\ accept \in BOOLEAN
        /\ then <=> goes \/ (~accept /\ now)
        /\ goes => accept \/ ~now
    BY <1>1, <1>11 DEF ACycle
  <2>5. r = (IF now THEN 1 ELSE 0) /\ r2 = (IF then THEN 1 ELSE 0) /\ (handed <=> accept /\ now)
    BY <2>1, <2>2, <2>3
  <2> HIDE DEF now, then, goes, handed, r, r2
  <2>6. h = (IF accept /\ now THEN 1 ELSE 0) /\ d = (IF goes THEN 1 ELSE 0)
    BY <1>9, <1>10, <2>5
  <2>7. /\ r2 + h = r + d /\ r \in {0, 1} /\ r2 \in {0, 1}
        /\ r = 1 <=> now
        /\ goes => r2 = 1 /\ r = h
        /\ ~goes /\ r2 = 1 => ~accept /\ now /\ r = 1 /\ h = 0
        /\ r2 = 1 <=> then
    BY <1>1, <2>4, <2>5, <2>6
  <2> QED
    BY <2>7 DEF now, then
<1>13. m = r2 + n /\ Len(ld2) = r2 + Len(own2)
  <2> DEFINE l == Len(own)
             l2 == Len(own2)
             k == Len(ld)
             k2 == Len(ld2)
             one == One(asks)
  <2>1. /\ k = r + l /\ l = n + d /\ k = m + h /\ r2 + h = r + d
        /\ l2 = n + one /\ k2 = m + one
        /\ n \in Nat /\ m \in Nat /\ r \in Nat /\ r2 \in Nat /\ h \in Nat /\ d \in Nat
    BY <1>4, <1>9, <1>10, <1>12
  <2>2. one \in Nat
    BY DEF One
  <2> HIDE DEF l, l2, k, k2, one, r, r2
  <2>3. m = r2 + n /\ k2 = r2 + l2
    BY <2>1, <2>2
  <2> QED
    BY <2>3 DEF k2, l2
<1> HIDE DEF goes, asks, handed, own, own2, new, E, addr, R, perm, ld, ld2, r, r2, F2
<1>14. \A e \in Loading : Writes(accept) =>
         AgeAt(raw_time_stamp, srr[1].stamp) >= AgeAt(raw_time_stamp, e.stamp)
  <2>1. Writes(accept) => \A e \in Stored \union Loading :
          AgeAt(raw_time_stamp, e.stamp) <= AgeAt(raw_time_stamp, srr[1].stamp)
    BY PerformedInOrder DEF ACycle
  <2>2. Writes(accept) => AgeAt(raw_time_stamp, srr[1].stamp) \in Nat
    <3>1. Writes(accept) => srr[1] \in Entry("store", StorePorts)
      BY LeavingFacts DEF ACycle, LinesInv, LineInv, LineType
    <3> QED
      BY <3>1, AgesOf DEF ACycle, LinesInv
  <2> QED
    BY <2>1, <2>2, LoadingFacts
<1>15. ASSUME r2 = 1
       PROVE  result'[1].data \in ld2[1]
  <2>1. m >= 1 /\ ld2[1] = ld[1 + h]
    BY <1>9, <1>10, <1>13, <1>15
  <2>2. CASE goes
    <3>1. own[1] = lrr[1] /\ 1 \in DOMAIN own /\ r = h
      BY <1>2, <1>3, <1>9, <1>12, <2>2
    <3>2. own[1].req.addr \in Addr /\ own[1] \in Loading
      BY <1>3, <3>1, LoadingFacts
    <3>3. Sees(Stored, mem_array, raw_time_stamp, ld[1 + h], own[1].req.addr,
               AgeAt(raw_time_stamp, own[1].stamp))
      BY <1>4, <3>1
    <3>4. Reads(accept)
      BY <2>2 DEF goes
    <3>5. \A e \in Stored : AgeAt(raw_time_stamp, e.stamp) <= AgeAt(raw_time_stamp, own[1].stamp)
      BY <3>1, <3>4, PerformedInOrder DEF ACycle
    <3>6. mem_array[own[1].req.addr] \in ld[1 + h]
      BY <3>3, <3>5 DEF Sees
    <3> QED
      BY <1>11, <2>1, <2>2, <3>1, <3>6
  <2>3. CASE ~goes
    <3>1. ~accept /\ Serves("load", p) /\ h = 0
      BY <1>12, <1>15, <2>3
    <3>2. result' = result /\ result[1].data \in ld[1]
      BY <1>4, <1>11, <3>1
    <3> QED
      BY <2>1, <3>1, <3>2
  <2> QED
    BY <2>2, <2>3
<1>16. ASSUME NEW k \in DOMAIN own2
       PROVE  Find(ld2[k + r2], own2[k])
  <2>1. CASE k \in 1 .. n /\ k + d \in DOMAIN own /\ own2[k] = own[k + d]
    <3> DEFINE e == own[k + d]
               W == ld[k + d + r]
               t == AgeAt(raw_time_stamp, e.stamp)
    <3>1. e \in Loading
      BY <1>3, <2>1
    <3>2. /\ t \in Nat /\ t >= 1 /\ e.req.addr \in Addr
          /\ AgeAt(raw_time_stamp', e.stamp) = t + 1
      BY <3>1, LoadingFacts
    <3>3. Sees(Stored, mem_array, raw_time_stamp, W, e.req.addr, t)
      BY <1>4, <2>1
    <3>4. Writes(accept) => AgeAt(raw_time_stamp, srr[1].stamp) >= t
      BY <1>14, <3>1
    <3>5. ld2[k + r2] = W
      <4>1. /\ k \in 1 .. n /\ n \in Nat /\ m = r2 + n /\ r2 + h = r + d
            /\ r2 \in {0, 1} /\ r \in {0, 1} /\ h \in {0, 1} /\ d \in {0, 1}
        <5>1. k \in 1 .. n
          BY <2>1
        <5>2. n \in Nat /\ d \in {0, 1}
          BY <1>9
        <5>3. h \in {0, 1}
          BY <1>10
        <5>4. m = r2 + n /\ r2 + h = r + d /\ r2 \in {0, 1} /\ r \in {0, 1}
          BY <1>12, <1>13
        <5> QED
          BY <5>1, <5>2, <5>3, <5>4
      <4>2. k + r2 \in 1 .. m /\ (k + r2) + h = k + d + r
        BY <4>1
      <4> HIDE DEF e, t
      <4> QED
        BY <1>10, <4>2
    <3> HIDE DEF e, W, t
    <3>6. Sees(F2, mem_array', raw_time_stamp', W, e.req.addr, t + 1)
      BY <3>2, <3>3, <3>4, SeesAfter DEF F2
    <3>7. own2[k] = e
      BY <2>1 DEF e
    <3> QED
      BY <3>2, <3>5, <3>6, <3>7
  <2>2. CASE asks /\ k = n + 1 /\ own2[k] = new
    <3>1. ld2[k + r2] = perm
      <4>1. k + r2 = m + 1
        BY <1>9, <1>12, <1>13, <2>2
      <4> QED
        BY <1>10, <2>2, <4>1
    <3>2. /\ addr \in Addr /\ new.req.addr = addr /\ new.stamp = raw_time_stamp
          /\ possible[addr] \subseteq perm
      BY <1>5, <2>2
    <3>3. \A q \in S : sr_in[q][1].addr = addr => sr_in[q][1].data \in perm
      <4>1. M!Written(R, addr) = {sr_in[q][1].data : q \in {x \in S : sr_in[x][1].addr = addr}}
        BY CycleAccount DEF ACycle, R
      <4> QED
        BY <1>5, <2>2, <4>1
    <3>4. Writes(accept) => AgeAt(raw_time_stamp, srr[1].stamp) >= 0
      <4>1. Writes(accept) => srr[1] \in Entry("store", StorePorts)
        BY LeavingFacts DEF ACycle, LinesInv, LineInv, LineType
      <4>2. Writes(accept) => AgeAt(raw_time_stamp, srr[1].stamp) \in Nat
        BY <4>1, AgesOf DEF ACycle, LinesInv
      <4> QED
        BY <4>2
    <3>5. Sees(F2, mem_array', raw_time_stamp', perm, addr, 0 + 1)
      BY <3>2, <3>3, <3>4, SeesAfter DEF F2
    <3>6. AgeAt(raw_time_stamp', new.stamp) = 0 + 1
      BY <3>2, Aging DEF ACycle, LinesInv
    <3> QED
      BY <2>2, <3>1, <3>2, <3>5, <3>6
  <2> QED
    BY <1>9, <2>1, <2>2
<1>17. \A k \in DOMAIN own2 : Sees(F2, mem_array', raw_time_stamp', ld2[k + r2],
                                   own2[k].req.addr, AgeAt(raw_time_stamp', own2[k].stamp))
  BY <1>16
<1>18. Serves("load", p)' => result'[1].data \in ld2[1]
  BY <1>12, <1>15
<1> QED
  BY <1>10, <1>13, <1>17, <1>18 DEF LoadsInv, Stored, F2, ld2, own2, r2

(* What is asked for after the cycle.                                      *)
LEMMA AskersAfter ==
  ASSUME NEW L, NEW S, Requesters(L, S)
  PROVE  Asks(LoadPorts, lr_in') /\ Asks(StorePorts, sr_in')
<1>1. /\ \A r \in Requests({Zero}) : r[1].addr \in Addr /\ r[1].data \in Datum
      /\ \A r \in Requests(Word) : r[1].addr \in Addr /\ r[1].data \in Datum
  BY DEF Requests, Datum
<1>2. /\ lr_in' \in [LoadPorts -> {<<>>} \union Requests({Zero})]
      /\ sr_in' \in [StorePorts -> {<<>>} \union Requests(Word)]
  BY DEF Requesters, Nobody
<1> QED
  BY <1>1, <1>2 DEF Asks

LEMMA BankAfter ==
  ASSUME LinesInv, BankInv, NEW accept \in BOOLEAN, BankMoves(accept),
         mem_array \in [Addr -> Datum]
  PROVE  BankInv' /\ mem_array' \in [Addr -> Datum]
<1>1. /\ Writes(accept) => srr[1] \in Entry("store", StorePorts)
      /\ Reads(accept) => lrr[1] \in Entry("load", LoadPorts)
  BY LeavingFacts DEF LinesInv, LineInv, LineType
<1>2. /\ Writes(accept) => srr[1].req.port \in StorePorts /\ srr[1].req.data \in Datum
      /\ Reads(accept) => lrr[1].req.port \in LoadPorts
  BY <1>1 DEF Entry
<1>3. mem_array' \in [Addr -> Datum]
  BY <1>2 DEF BankMoves
<1>4. BankInv'
  <2>1. CASE Writes(accept)
    BY <1>2, <2>1 DEF BankMoves, BankInv
  <2>2. CASE Reads(accept)
    BY <1>2, <2>2 DEF BankMoves, BankInv
  <2>3. CASE ~Writes(accept) /\ ~Reads(accept)
    BY <2>3 DEF BankMoves, BankInv
  <2> QED
    BY <2>1, <2>2, <2>3
<1> QED
  BY <1>3, <1>4

(* Who is handed a completion has an open access, and a load a word that   *)
(* it may return.                                                          *)
LEMMA MemoryIsHonest ==
  ASSUME MInv, NEW accept \in BOOLEAN
  PROVE  M!Honest(Handed(accept))
<1> SUFFICES ASSUME NEW c \in Handed(accept)
             PROVE  IF c.op = "load"
                    THEN loads[c.port] # <<>> /\ c.data \in Head(loads[c.port])
                    ELSE stores[c.port] > 0
  BY DEF M!Honest
<1>1. /\ c = result[1]
      /\ \/ c.op = "load" /\ c.port \in LoadPorts /\ Serves("load", c.port)
         \/ c.op = "store" /\ c.port \in StorePorts /\ Serves("store", c.port)
  BY HandedFacts DEF MInv
<1> DEFINE p == c.port
<1>2. CASE c.op = "load" /\ p \in LoadPorts /\ Serves("load", p)
  <2> DEFINE own == Pending(lrr, load_repeater, p)
             ld  == loads[p]
  <2>1. LoadsInv(p)
    BY <1>2 DEF MInv
  <2>2. One(Serves("load", p)) = 1
    BY <1>2 DEF One
  <2>3. /\ ld \in Seq(SUBSET Datum) /\ Len(ld) = 1 + Len(own)
        /\ result[1].data \in ld[1]
    BY <1>2, <2>1, <2>2 DEF LoadsInv
  <2>4. own \in Seq(Entry("load", LoadPorts))
    BY <1>2, PendingFacts DEF MInv, LinesInv, LineInv
  <2> HIDE DEF own, ld
  <2>5. Len(own) \in Nat
    BY <2>4
  <2>6. ld # <<>>
    BY <2>3, <2>5
  <2>7. Head(ld) = ld[1]
    BY <2>3, <2>6
  <2> QED
    BY <1>1, <1>2, <2>3, <2>6, <2>7 DEF ld
<1>3. CASE c.op = "store" /\ p \in StorePorts /\ Serves("store", p)
  <2> DEFINE own == Pending(srr, store_repeater, p)
  <2>1. stores[p] = 1 + Len(own)
    BY <1>3 DEF MInv, StoresInv, One
  <2>2. own \in Seq(Entry("store", StorePorts))
    BY <1>3, PendingFacts DEF MInv, LinesInv, LineInv
  <2> HIDE DEF own
  <2>3. Len(own) \in Nat
    BY <2>2
  <2> QED
    BY <1>3, <2>1, <2>3
<1> QED
  BY <1>1, <1>2, <1>3

LEMMA InitMInv == Init => MInv /\ M!Init
<1> SUFFICES ASSUME Init PROVE MInv /\ M!Init
  OBVIOUS
<1>1. /\ load_repeater = [p \in LoadPorts |-> <<>>] /\ lrr = <<>>
      /\ store_repeater = [p \in StorePorts |-> <<>>] /\ srr = <<>>
      /\ fsm_state = "IDLE" /\ result = <<>>
      /\ mem_array = [a \in Addr |-> Zero]
      /\ possible = [a \in Addr |-> {Zero}]
      /\ loads = [p \in LoadPorts |-> <<>>] /\ stores = [p \in StorePorts |-> 0]
      /\ lr_in = [p \in LoadPorts |-> <<>>] /\ sr_in = [p \in StorePorts |-> <<>>]
      /\ raw_time_stamp \in 0 .. Quarter - 1
      /\ M!Init
  BY DEF Init, PortsInit, M!Init
<1>2. raw_time_stamp \in Stamps
  BY <1>1, TurnType DEF Stamps, Turn
<1>3. Loading = {} /\ Stored = {}
  BY <1>1 DEF Loading, Stored, InFlight
<1>4. LinesInv
  <2>1. \A op, P, stages, rep : rep = [p \in P |-> <<>>] =>
          /\ LineType(op, P, stages, <<>>, rep)
          /\ \A now : InOrder(now, <<>>)
          /\ \A p \in P : DOMAIN rep[p] = {} /\ rep[p] = <<>>
    BY DEF LineType, InOrder
  <2>2. Asks(LoadPorts, lr_in) /\ Asks(StorePorts, sr_in)
    BY <1>1 DEF Asks
  <2>3. LineInv(raw_time_stamp, "load", LoadPorts, LoadStages, lrr, load_repeater)
    BY <1>1, <1>3, <2>1 DEF LineInv, Loading
  <2>4. LineInv(raw_time_stamp, "store", StorePorts, StoreStages, srr, store_repeater)
    BY <1>1, <1>3, <2>1 DEF LineInv, Stored
  <2> QED
    BY <1>2, <2>2, <2>3, <2>4 DEF LinesInv
<1>5. BankInv
  BY <1>1 DEF BankInv
<1>6. mem_array \in [Addr -> Datum]
  BY <1>1 DEF Datum
<1>7. ASSUME NEW a \in Addr
      PROVE  possible[a] \subseteq Datum /\ Sees(Stored, mem_array, raw_time_stamp, possible[a], a, 0)
  BY <1>1, <1>3 DEF Sees, Datum
<1>8. \A op, p : ~Serves(op, p) /\ One(Serves(op, p)) = 0
  BY <1>1 DEF Serves, One
<1>9. /\ \A p \in LoadPorts : Pending(lrr, load_repeater, p) = <<>>
      /\ \A p \in StorePorts : Pending(srr, store_repeater, p) = <<>>
  BY <1>1, MineOf DEF Pending
<1>10. \A p \in LoadPorts : LoadsInv(p)
  <2>1. <<>> \in Seq(SUBSET Datum) /\ Len(<<>>) = 0 /\ DOMAIN <<>> = {}
    OBVIOUS
  <2>2. ASSUME NEW p \in LoadPorts PROVE LoadsInv(p)
    <3>1. loads[p] = <<>> /\ Pending(lrr, load_repeater, p) = <<>>
      BY <1>1, <1>9
    <3>2. /\ loads[p] \in Seq(SUBSET Datum)
          /\ Len(loads[p]) = 0 + Len(Pending(lrr, load_repeater, p))
          /\ DOMAIN Pending(lrr, load_repeater, p) = {}
      BY <2>1, <3>1
    <3>3. ~Serves("load", p) /\ One(Serves("load", p)) = 0
      BY <1>8
    <3> QED
      BY <3>2, <3>3 DEF LoadsInv
  <2> QED
    BY <2>2
<1>11. \A p \in StorePorts : StoresInv(p)
  BY <1>1, <1>8, <1>9 DEF StoresInv
<1> QED
  BY <1>1, <1>4, <1>5, <1>6, <1>7, <1>10, <1>11 DEF MInv

(* A cycle of the memory is one of the abstract memory.                    *)
LEMMA MemoryStep ==
  ASSUME MInv, StampsTellTheOrder, Next
  PROVE  MInv' /\ M!Next
<1>1. PICK accept \in BOOLEAN : Tick(accept)
  BY DEF Next
<1>2. LinesInv /\ BankInv /\ mem_array \in [Addr -> Datum]
  BY DEF MInv
<1>3. PICK L, S, nl, ns :
        /\ Edges(accept, L, S, nl, ns)
        /\ Cycle(L, S, Handed(accept))
        /\ Bank(accept)
        /\ raw_time_stamp' = IncrementSLV(raw_time_stamp)
  BY <1>1, <1>2, TickEdges
<1>4. ACycle(accept, L, S, nl, ns)
  BY <1>2, <1>3, BankMovement DEF ACycle
<1>5. M!Account(Taken(L, S), Handed(accept)) /\ Requesters(L, S)
  BY <1>2, <1>3, CycleAccount
<1>6. M!Next
  <2>1. taken' = Taken(L, S) /\ done' = Handed(accept)
    BY <1>5 DEF M!Account
  <2> QED
    BY <1>5, <2>1, MemoryIsHonest DEF M!Next
<1>7. LinesInv'
  <2>1. raw_time_stamp' \in Stamps
    BY <1>2, <1>3, NextStamp DEF LinesInv
  <2>2. LineInv(raw_time_stamp', "load", LoadPorts, LoadStages, lrr', load_repeater')
    BY <1>3, EdgeFacts DEF Edges
  <2>3. LineInv(raw_time_stamp', "store", StorePorts, StoreStages, srr', store_repeater')
    BY <1>3, EdgeFacts DEF Edges
  <2> QED
    BY <1>5, <2>1, <2>2, <2>3, AskersAfter DEF LinesInv
<1>8. BankInv' /\ mem_array' \in [Addr -> Datum]
  BY <1>2, <1>4, BankAfter DEF ACycle
<1>9. \A a \in Addr : /\ possible[a] \subseteq Datum
                      /\ Sees(Stored, mem_array, raw_time_stamp, possible[a], a, 0)
  BY DEF MInv
<1>10. ASSUME NEW a \in Addr
       PROVE  /\ possible'[a] \subseteq Datum
              /\ Sees(Stored', mem_array', raw_time_stamp', possible'[a], a, 0)
  <2>1. Sees(Stored', mem_array', raw_time_stamp', possible'[a], a, 0)
    BY <1>4, <1>9, PossibleAfter DEF Stored
  <2>2. S \subseteq {q \in StorePorts : sr_in[q] # <<>>}
    BY <1>3, EdgeFacts DEF Edges
  <2>3. \A q \in S : sr_in[q][1].data \in Datum
    BY <1>2, <2>2 DEF LinesInv, Asks
  <2>4. M!Written(Taken(L, S), a) \subseteq Datum
    <3>1. M!Written(Taken(L, S), a) = {sr_in[q][1].data : q \in {x \in S : sr_in[x][1].addr = a}}
      BY <1>2, <1>3, CycleAccount
    <3> QED
      BY <2>3, <3>1
  <2>5. possible'[a] = IF M!Written(Taken(L, S), a) = {} THEN possible[a]
                       ELSE M!Written(Taken(L, S), a)
    BY <1>2, <1>3, CycleAccount
  <2> QED
    BY <1>9, <2>1, <2>4, <2>5
<1>11. ASSUME NEW p \in LoadPorts PROVE LoadsInv(p)'
  BY <1>4, <1>9, LoadPortStep DEF MInv
<1>12. ASSUME NEW p \in StorePorts PROVE StoresInv(p)'
  BY <1>4, StorePortStep DEF MInv
<1> QED
  BY <1>6, <1>7, <1>8, <1>10, <1>11, <1>12 DEF MInv

LEMMA StutterMInv == MInv /\ UNCHANGED mvars => MInv' /\ UNCHANGED M!memory
BY DEF MInv, LinesInv, BankInv, LoadsInv, StoresInv, Serves, Stored, mvars, bank, ports, M!memory

(* The memory subsystem is a memory to its ports while its time stamps     *)
(* tell the order of the requests, for any numbers of ports, with or       *)
(* without repeaters, and for any stamps: a load returns what was stored   *)
(* last before it was accepted, and each port gets its completions in      *)
(* order (memory_subsystem.vhd:41-44).  The hypothesis is what the         *)
(* compiler counts on when it sizes the stamps (vcMemorySpace.cpp:493).    *)
THEOREM TheSubsystemIsAMemory == Spec /\ []StampsTellTheOrder => IsAMemory
<1>1. Init => MInv /\ M!Init
  BY InitMInv
<1>2. MInv /\ StampsTellTheOrder /\ [Next]_mvars => MInv' /\ [M!Next]_(M!memory)
  BY MemoryStep, StutterMInv
<1> QED
  BY <1>1, <1>2, PTL DEF Spec, IsAMemory, M!Spec

=============================================================================
