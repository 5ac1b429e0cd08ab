----------------------------- MODULE PipeSteps -----------------------------
(***************************************************************************)
(* What the proofs about pipes have in common: sequences of words from     *)
(* which one is taken at the front and to which one is added at the back,  *)
(* for any set of words; and the deep FIFO, which is in deep pipes and in   *)
(* deep unload buffers.  LeastNumber stands in for induction.              *)
(***************************************************************************)
EXTENDS SynchFifoWithDPRAM, SequenceTheorems, WellFoundedInduction, TLAPS

(* What goes wrong somewhere goes wrong first at some number.              *)
LEMMA LeastNumber ==
  ASSUME NEW S, S \subseteq Nat, S # {}
  PROVE  \E k \in S : \A j \in Nat : j < k => j \notin S
<1>1. PICK k \in S : \A j \in S : ~ (<<j, k>> \in OpToRel(<, Nat))
  BY NatLessThanWellFounded, WFMin
<1> QED BY <1>1 DEF OpToRel

(* Taking the first word of a queue, and putting it before another one.    *)
LEMMA HeadAndTail ==
  ASSUME NEW W, NEW s \in Seq(W), s # <<>>
  PROVE  /\ Head(s) \in W /\ Tail(s) \in Seq(W) /\ Len(Tail(s)) = Len(s) - 1
         /\ <<Head(s)>> \o Tail(s) = s
<1>1. Head(s) \in W /\ Tail(s) \in Seq(W) /\ Len(Tail(s)) = Len(s) - 1
  OBVIOUS
<1>2. Len(<<Head(s)>> \o Tail(s)) = Len(s)
  BY <1>1
<1>3. \A k \in 1 .. Len(s) : (<<Head(s)>> \o Tail(s))[k] = s[k]
  OBVIOUS
<1> QED
  BY <1>1, <1>2, <1>3, SeqEqual

LEMMA Joined ==
  ASSUME NEW W, NEW s \in Seq(W), NEW t \in Seq(W)
  PROVE  /\ s \o t \in Seq(W) /\ Len(s \o t) = Len(s) + Len(t)
         /\ s = <<>> => s \o t = t
         /\ t = <<>> => s \o t = s
  OBVIOUS

LEMMA JoinedTwice ==
  ASSUME NEW W, NEW s \in Seq(W), NEW t \in Seq(W), NEW u \in Seq(W)
  PROVE  (s \o t) \o u = s \o (t \o u)
  OBVIOUS

(* A word behind a queue, and the word at its front.                       *)
LEMMA Behind ==
  ASSUME NEW Set, NEW seq \in Seq(Set), NEW x \in Set
  PROVE  seq \o <<x>> = Append(seq, x)
<1>1. seq \o <<x>> \in Seq(Set) /\ Append(seq, x) \in Seq(Set)
  BY Joined
<1> QED
  BY <1>1, SeqEqual

LEMMA InFront ==
  ASSUME NEW Set, NEW seq \in Seq(Set), NEW x \in Set
  PROVE  /\ <<x>> \o seq # <<>> /\ <<x>> = SubSeq(<<x>> \o seq, 1, 1)
         /\ seq = SubSeq(<<x>> \o seq, 2, Len(<<x>> \o seq))
<1> DEFINE longer == <<x>> \o seq
<1>0. longer = <<x>> \o seq
  OBVIOUS
<1> HIDE DEF longer
<1>1. <<x>> \in Seq(Set) /\ Len(<<x>>) = 1 /\ <<x>>[1] = x
  OBVIOUS
<1>2. /\ longer \in Seq(Set) /\ Len(longer) = 1 + Len(seq) /\ Len(seq) \in Nat
      /\ \A k \in 1 .. 1 + Len(seq) : longer[k] = IF k <= 1 THEN <<x>>[k] ELSE seq[k - 1]
  BY <1>0, <1>1, ConcatProperties
<1>3. longer # <<>>
  BY <1>2, EmptySeq
<1>4. <<x>> = SubSeq(longer, 1, 1)
  BY <1>1, <1>2
<1>5. \A k \in 1 .. Len(longer) : longer[k] \in Set
  BY <1>2, ElementOfSeq
<1>6. /\ SubSeq(longer, 2, Len(longer)) \in Seq(Set) /\ Len(SubSeq(longer, 2, Len(longer))) = Len(seq)
      /\ \A k \in 1 .. Len(seq) : SubSeq(longer, 2, Len(longer))[k] = longer[k + 1]
  BY <1>2, <1>5
<1>7. \A k \in 1 .. Len(seq) : longer[k + 1] = seq[k]
  BY <1>2
<1>8. seq = SubSeq(longer, 2, Len(longer))
  BY <1>6, <1>7, SeqEqual
<1> QED
  BY <1>0, <1>3, <1>4, <1>8

LEMMA AtMostOne ==
  ASSUME NEW W, NEW s, s = <<>> \/ \E w \in W : s = <<w>>
  PROVE  s \in Seq(W) /\ Len(s) = IF s = <<>> THEN 0 ELSE 1
<1>1. CASE s = <<>>
  BY <1>1
<1>2. ASSUME NEW w \in W, s = <<w>> PROVE s \in Seq(W) /\ s # <<>> /\ Len(s) = 1
  BY <1>2
<1> QED
  BY <1>1, <1>2

(* One word in, one word out: what is seen of one edge of the clock, from  *)
(* the side of one user.                                                   *)
OneStep(W, c, cn, g, p) ==
  \/ g = <<>> /\ p = <<>> /\ cn = c
  \/ \E w \in W : g = <<>> /\ p = <<w>> /\ cn = Append(c, w)
  \/ /\ c # <<>> /\ g = SubSeq(c, 1, 1) /\ p = <<>>
     /\ cn = SubSeq(c, 2, Len(c))
  \/ \E w \in W : /\ c # <<>> /\ g = SubSeq(c, 1, 1) /\ p = <<w>>
                  /\ cn = Append(SubSeq(c, 2, Len(c)), w)

LEMMA ByOne ==
  ASSUME NEW W, NEW s \in Seq(W), NEW g, NEW p,
         g = <<>> \/ \E w \in W : g = <<w>>,
         p = <<>> \/ \E w \in W : p = <<w>>
  PROVE  OneStep(W, g \o s, s \o p, g, p) /\ (g = <<>> => g \o s = s)
<1> DEFINE c == g \o s
           cn == s \o p
<1>0. c = g \o s /\ cn = s \o p
  OBVIOUS
<1> HIDE DEF c, cn
<1>1. <<>> \o s = s /\ s \o <<>> = s
  OBVIOUS
<1>2. CASE g = <<>> /\ p = <<>>
  BY <1>0, <1>1, <1>2 DEF OneStep
<1>3. ASSUME NEW w \in W, g = <<>>, p = <<w>>
      PROVE  OneStep(W, c, cn, g, p)
  <2>1. s \o <<w>> = Append(s, w)
    BY Behind, Zenon
  <2>2. cn = Append(c, w)
    BY <1>0, <1>1, <1>3, <2>1, Zenon
  <2> QED
    BY <1>0, <1>1, <1>3, <2>2 DEF OneStep
<1>4. ASSUME NEW v \in W, g = <<v>>
      PROVE  c # <<>> /\ g = SubSeq(c, 1, 1) /\ s = SubSeq(c, 2, Len(c))
  <2>1. /\ <<v>> \o s # <<>> /\ <<v>> = SubSeq(<<v>> \o s, 1, 1)
        /\ s = SubSeq(<<v>> \o s, 2, Len(<<v>> \o s))
    BY InFront, Zenon
  <2> QED
    BY <1>0, <1>4, <2>1, Zenon
<1>5. ASSUME NEW v \in W, g = <<v>>, p = <<>>
      PROVE  OneStep(W, c, cn, g, p)
  BY <1>0, <1>1, <1>4, <1>5 DEF OneStep
<1>6. ASSUME NEW v \in W, g = <<v>>, NEW w \in W, p = <<w>>
      PROVE  OneStep(W, c, cn, g, p)
  <2>1. cn = Append(s, w)
    BY <1>0, <1>6, Behind, Zenon
  <2> QED
    BY <1>4, <1>6, <2>1 DEF OneStep
<1>7. OneStep(W, c, cn, g, p) /\ (g = <<>> => c = s)
  BY <1>0, <1>1, <1>2, <1>3, <1>5, <1>6
<1> QED
  BY <1>0, <1>7, Zenon

-----------------------------------------------------------------------------
(* The deep FIFO.  Its memory is a ring, in which the word k places behind *)
(* the read pointer is at Around(read_pointer + k).                        *)

LEMMA AroundTheRing ==
  ASSUME QueueDepth \in Nat \ {0}, NEW r \in Ring
  PROVE  /\ Incr(r) \in Ring /\ Around(r) = r
         /\ \A k \in 0 .. QueueDepth : Around(r + k) \in Ring
         /\ \A k \in 0 .. QueueDepth - 1 :
              /\ Around(Incr(r) + k) = Around(r + (k + 1))
              /\ Incr(Around(r + k)) = Around(r + (k + 1))
BY DEF Ring, Incr, Around

LEMMA ApartOnTheRing ==
  ASSUME QueueDepth \in Nat \ {0}, NEW r \in Ring, NEW j \in 0 .. QueueDepth - 1,
         NEW k \in 0 .. QueueDepth - 1, j # k
  PROVE  Around(r + j) # Around(r + k)
BY DEF Ring, Around

MemoryInv(W, q) ==
  /\ q.queue_size \in 0 .. QueueDepth
  /\ q.read_pointer \in Ring
  /\ q.write_pointer = Around(q.read_pointer + q.queue_size)
  /\ q.dpram \in [Ring -> W]

FifoInv(W, q) ==
  /\ MemoryInv(W, q)
  /\ q.read_state \in {"Idle", "Valid", "WaitPop"}
  /\ q.read_data \in W /\ q.read_data_reg \in W

LEMMA InitFifoInv ==
  ASSUME QueueDepth \in Nat \ {0}, NEW W, Zero \in W
  PROVE  FifoInv(W, InitFifo) /\ FifoHolds(InitFifo) = <<>>
<1> DEFINE q == InitFifo
<1>1. FifoInv(W, q) /\ q.queue_size = 0 /\ q.read_state = "Idle"
  BY DEF FifoInv, MemoryInv, InitFifo, Around, Ring
<1>2. AtOutput(q) = <<>>
  BY <1>1 DEF AtOutput
<1>3. InMemory(q) = <<>>
  BY <1>1 DEF InMemory
<1> QED
  BY <1>1, <1>2, <1>3 DEF FifoHolds

LEMMA InMemoryType ==
  ASSUME QueueDepth \in Nat \ {0}, NEW W,
         NEW q, FifoInv(W, q)
  PROVE  /\ InMemory(q) \in Seq(W)
         /\ Len(InMemory(q)) = q.queue_size
         /\ \A k \in 1 .. q.queue_size :
              InMemory(q)[k] = q.dpram[Around(q.read_pointer + (k - 1))]
<1> DEFINE at(k) == q.dpram[Around(q.read_pointer + k - 1)]
           m == InMemory(q)
<1>1. q.queue_size \in Nat /\ q.queue_size <= QueueDepth
  BY DEF FifoInv, MemoryInv
<1>2. ASSUME NEW k \in 1 .. q.queue_size
      PROVE  at(k) \in W /\ at(k) = q.dpram[Around(q.read_pointer + (k - 1))]
  <2>1. /\ q.read_pointer \in Ring /\ q.dpram \in [Ring -> W]
        /\ k - 1 \in 0 .. QueueDepth
    BY <1>1 DEF FifoInv, MemoryInv
  <2>2. q.read_pointer + k - 1 = q.read_pointer + (k - 1)
    BY <2>1 DEF Ring
  <2> QED
    BY <2>1, <2>2, AroundTheRing
<1>3. m = [k \in 1 .. q.queue_size |-> at(k)]
  BY DEF InMemory
<1> HIDE DEF at, m
<1>4. m \in [1 .. q.queue_size -> W]
  BY <1>2, <1>3
<1>5. m \in Seq(W) /\ Len(m) = q.queue_size
  BY <1>1, <1>4
<1>6. \A k \in 1 .. q.queue_size : m[k] = at(k)
  BY <1>3
<1> QED
  BY <1>2, <1>5, <1>6 DEF m

(* Writing and reading the memory, one at a time or both at once.          *)
MemoryMoves(q, n, write, read, data_in) ==
  /\ n.read_pointer = IF read THEN Incr(q.read_pointer) ELSE q.read_pointer
  /\ n.write_pointer = IF write THEN Incr(q.write_pointer) ELSE q.write_pointer
  /\ n.queue_size = q.queue_size + (IF write THEN 1 ELSE 0) - (IF read THEN 1 ELSE 0)
  /\ n.dpram = IF write THEN [q.dpram EXCEPT ![q.write_pointer] = data_in] ELSE q.dpram
  /\ write => q.queue_size < QueueDepth
  /\ read => q.queue_size > 0

LEMMA MemoryKeeps ==
  ASSUME QueueDepth \in Nat \ {0}, NEW W,
         NEW q, FifoInv(W, q), NEW n, NEW write \in BOOLEAN, NEW read \in BOOLEAN,
         NEW data_in \in W, MemoryMoves(q, n, write, read, data_in)
  PROVE  MemoryInv(W, n)
<1>1. /\ q.queue_size \in 0 .. QueueDepth /\ q.read_pointer \in Ring
      /\ q.write_pointer = Around(q.read_pointer + q.queue_size)
      /\ q.write_pointer \in Ring
      /\ q.dpram \in [Ring -> W]
  BY AroundTheRing DEF FifoInv, MemoryInv
<1>2. n.queue_size \in 0 .. QueueDepth /\ n.read_pointer \in Ring
  BY <1>1, AroundTheRing DEF MemoryMoves
<1>3. n.dpram \in [Ring -> W]
  BY <1>1 DEF MemoryMoves
<1>4. n.write_pointer = Around(n.read_pointer + n.queue_size)
  <2> DEFINE r == q.read_pointer
             size == q.queue_size
  <2>1. r \in Ring /\ size \in 0 .. QueueDepth
    BY <1>1
  <2>2. size < QueueDepth => Incr(q.write_pointer) = Around(r + (size + 1))
    <3> SUFFICES ASSUME size < QueueDepth
                 PROVE  Incr(q.write_pointer) = Around(r + (size + 1))
      OBVIOUS
    <3>1. size \in 0 .. QueueDepth - 1
      BY <2>1
    <3>2. Incr(Around(r + size)) = Around(r + (size + 1))
      BY <2>1, <3>1, AroundTheRing
    <3> QED
      BY <1>1, <3>2
  <2>3. size < QueueDepth => Around(Incr(r) + size) = Around(r + (size + 1))
    BY <2>1, AroundTheRing
  <2>4. size > 0 => Around(Incr(r) + (size - 1)) = Around(r + size)
    <3> SUFFICES ASSUME size > 0
                 PROVE  Around(Incr(r) + (size - 1)) = Around(r + size)
      OBVIOUS
    <3>1. size - 1 \in 0 .. QueueDepth - 1 /\ (size - 1) + 1 = size
      BY <2>1
    <3> QED
      BY <2>1, <3>1, AroundTheRing
  <2> QED
    BY <1>1, <2>2, <2>3, <2>4 DEF MemoryMoves
<1> QED
  BY <1>2, <1>3, <1>4 DEF MemoryInv

LEMMA MemoryStep ==
  ASSUME QueueDepth \in Nat \ {0}, NEW W,
         NEW q, FifoInv(W, q), NEW n, FifoInv(W, n),
         NEW write \in BOOLEAN, NEW read \in BOOLEAN, NEW data_in \in W,
         MemoryMoves(q, n, write, read, data_in)
  PROVE  InMemory(q) \o (IF write THEN <<data_in>> ELSE <<>>)
           = (IF read THEN <<q.dpram[q.read_pointer]>> ELSE <<>>) \o InMemory(n)
<1> DEFINE m == InMemory(q)
           mn == InMemory(n)
           r == q.read_pointer
           size == q.queue_size
           P == IF write THEN <<data_in>> ELSE <<>>
           G == IF read THEN <<q.dpram[r]>> ELSE <<>>
           place(k) == Around(r + k)
<1>1. /\ size \in 0 .. QueueDepth /\ r \in Ring
      /\ q.write_pointer = place(size)
      /\ q.dpram \in [Ring -> W]
  BY DEF FifoInv, MemoryInv
<1>2. /\ m \in Seq(W) /\ Len(m) = size
      /\ \A k \in 1 .. size : m[k] = q.dpram[place(k - 1)]
  BY InMemoryType
<1>3. /\ mn \in Seq(W) /\ Len(mn) = n.queue_size
      /\ \A k \in 1 .. n.queue_size :
           mn[k] = n.dpram[Around(n.read_pointer + (k - 1))]
  BY InMemoryType
<1>4. /\ place(0) = r
      /\ \A k \in 0 .. QueueDepth - 1 :
           /\ place(k) \in Ring
           /\ Around(Incr(r) + k) = place(k + 1)
           /\ k # size /\ size < QueueDepth => place(k) # place(size)
  <2>1. place(0) = r
    <3>1. r + 0 = r
      BY <1>1 DEF Ring
    <3> QED
      BY <1>1, <3>1, AroundTheRing
  <2>2. ASSUME NEW k \in 0 .. QueueDepth - 1
        PROVE  /\ place(k) \in Ring
               /\ Around(Incr(r) + k) = place(k + 1)
               /\ k # size /\ size < QueueDepth => place(k) # place(size)
    <3>1. k \in 0 .. QueueDepth
      OBVIOUS
    <3>2. place(k) \in Ring
      BY <1>1, <3>1, AroundTheRing
    <3>3. Around(Incr(r) + k) = place(k + 1)
      BY <1>1, AroundTheRing
    <3>4. k # size /\ size < QueueDepth => place(k) # place(size)
      <4> SUFFICES ASSUME k # size, size < QueueDepth
                   PROVE  place(k) # place(size)
        OBVIOUS
      <4>1. size \in 0 .. QueueDepth - 1
        BY <1>1
      <4> QED
        BY <1>1, <4>1, ApartOnTheRing
    <3> QED
      BY <3>2, <3>3, <3>4
  <2> QED
    BY <2>1, <2>2
<1>5. /\ n.queue_size = size + (IF write THEN 1 ELSE 0) - (IF read THEN 1 ELSE 0)
      /\ n.read_pointer = IF read THEN Incr(r) ELSE r
      /\ n.dpram = IF write THEN [q.dpram EXCEPT ![place(size)] = data_in] ELSE q.dpram
      /\ write => size < QueueDepth
      /\ read => size > 0
  BY <1>1 DEF MemoryMoves
<1> HIDE DEF place, m, mn, r, size
<1>6. ASSUME NEW k \in 0 .. size - 1
      PROVE  n.dpram[place(k)] = m[k + 1]
  <2>1. k \in 0 .. QueueDepth - 1 /\ k # size
        /\ k + 1 \in 1 .. size /\ (k + 1) - 1 = k
    BY <1>1
  <2>2. m[k + 1] = q.dpram[place(k)]
    BY <1>2, <2>1
  <2>3. write => place(k) # place(size)
    BY <1>4, <1>5, <2>1
  <2> QED
    BY <1>1, <1>4, <1>5, <2>1, <2>2, <2>3
<1>7. write => n.dpram[place(size)] = data_in
  BY <1>1, <1>4, <1>5
<1>8. CASE ~read
  <2>1. ASSUME NEW k \in 1 .. n.queue_size
        PROVE  mn[k] = n.dpram[place(k - 1)]
    BY <1>3, <1>5, <1>8 DEF place
  <2>2. \A k \in 1 .. size : mn[k] = m[k]
    <3> SUFFICES ASSUME NEW k \in 1 .. size PROVE mn[k] = m[k]
      OBVIOUS
    <3>1. /\ k \in 1 .. n.queue_size /\ k - 1 \in 0 .. size - 1
          /\ (k - 1) + 1 = k
      BY <1>1, <1>5, <1>8
    <3> QED
      BY <1>6, <2>1, <3>1
  <2>3. CASE write
    <3>1. n.queue_size = size + 1 /\ (size + 1) - 1 = size
      BY <1>1, <1>5, <1>8, <2>3
    <3>2. mn[size + 1] = data_in
      <4>1. size + 1 \in 1 .. n.queue_size
        BY <1>1, <3>1
      <4> QED
        BY <1>7, <2>1, <2>3, <3>1, <4>1
    <3>3. mn = Append(m, data_in)
      BY <1>1, <1>2, <1>3, <2>2, <3>1, <3>2, SeqEqual
    <3>4. m \o <<data_in>> = Append(m, data_in)
      BY <1>2, Behind, Zenon
    <3>5. <<>> \o mn = mn
      BY <1>3
    <3> QED
      BY <1>8, <2>3, <3>3, <3>4, <3>5 DEF m, mn
  <2>4. CASE ~write
    <3>1. mn = m
      BY <1>1, <1>2, <1>3, <1>5, <1>8, <2>2, <2>4, SeqEqual
    <3>2. <<>> \o m = m /\ m \o <<>> = m
      BY <1>2
    <3> QED
      BY <1>8, <2>4, <3>1, <3>2 DEF m, mn
  <2> QED
    BY <2>3, <2>4
<1>9. CASE read
  <2>1. ASSUME NEW k \in 1 .. n.queue_size
        PROVE  mn[k] = n.dpram[place(k)]
    <3>1. k - 1 \in 0 .. QueueDepth - 1 /\ (k - 1) + 1 = k
      BY <1>1, <1>5
    <3>2. Around(n.read_pointer + (k - 1)) = place(k)
      BY <1>4, <1>5, <1>9, <3>1
    <3> QED
      BY <1>3, <3>2
  <2>2. q.dpram[r] = m[1]
    BY <1>1, <1>2, <1>4, <1>5, <1>9
  <2>3. m[1] \in W /\ m # <<>>
    BY <1>1, <1>2, <1>5, <1>9
  <2>4. \A k \in 1 .. size - 1 : mn[k] = m[k + 1]
    <3> SUFFICES ASSUME NEW k \in 1 .. size - 1 PROVE mn[k] = m[k + 1]
      OBVIOUS
    <3>1. k \in 1 .. n.queue_size /\ k \in 0 .. size - 1
      BY <1>1, <1>5, <1>9
    <3> QED
      BY <1>6, <2>1, <3>1
  <2>5. /\ Tail(m) \in Seq(W) /\ Len(Tail(m)) = size - 1
        /\ <<m[1]>> \o Tail(m) = m
        /\ \A k \in 1 .. size - 1 : Tail(m)[k] = m[k + 1]
    BY <1>1, <1>2, <2>3, HeadAndTail
  <2>6. CASE write
    <3>1. n.queue_size = size
      BY <1>1, <1>5, <1>9, <2>6
    <3>2. mn[size] = data_in
      BY <1>1, <1>5, <1>7, <1>9, <2>1, <2>6, <3>1
    <3>3. mn = Append(Tail(m), data_in)
      <4>1. /\ Append(Tail(m), data_in) \in Seq(W) /\ Len(Append(Tail(m), data_in)) = size
            /\ \A k \in 1 .. size - 1 : Append(Tail(m), data_in)[k] = mn[k]
            /\ Append(Tail(m), data_in)[size] = mn[size]
        BY <1>1, <1>5, <1>9, <2>4, <2>5, <3>2
      <4> QED
        BY <1>1, <1>3, <3>1, <4>1, SeqEqual
    <3>4. Tail(m) \o <<data_in>> = Append(Tail(m), data_in)
      BY <2>5, Behind, Zenon
    <3>5. (<<m[1]>> \o Tail(m)) \o <<data_in>> = <<m[1]>> \o (Tail(m) \o <<data_in>>)
      <4>1. <<m[1]>> \in Seq(W) /\ Tail(m) \in Seq(W) /\ <<data_in>> \in Seq(W)
        BY <2>3, <2>5
      <4> QED
        BY <4>1
    <3> QED
      BY <1>9, <2>2, <2>5, <2>6, <3>3, <3>4, <3>5, Zenon DEF m, mn, r
  <2>7. CASE ~write
    <3>1. n.queue_size = size - 1
      BY <1>1, <1>5, <1>9, <2>7
    <3>2. mn = Tail(m)
      BY <1>1, <1>3, <2>4, <2>5, <3>1, SeqEqual
    <3>3. m \o <<>> = m
      BY <1>2
    <3> QED
      BY <1>9, <2>2, <2>5, <2>7, <3>2, <3>3, Zenon DEF m, mn, r
  <2> QED
    BY <2>6, <2>7
<1> QED
  BY <1>8, <1>9

(* An edge of the clock: the words that stay are between the word handed   *)
(* out and the word taken in.                                              *)
FifoIn(q, push_req, data_in) ==
  IF push_req /\ fifo_push_ack(q) THEN <<data_in>> ELSE <<>>
FifoOut(q, pop_req) ==
  IF pop_req /\ fifo_pop_ack(q) THEN <<fifo_data_out(q)>> ELSE <<>>

FifoMoved(W, q, n, push_req, data_in, pop_req) ==
  \E s \in Seq(W) :
    /\ FifoHolds(q) = FifoOut(q, pop_req) \o s
    /\ FifoHolds(n) = s \o FifoIn(q, push_req, data_in)

LEMMA FifoStep ==
  ASSUME QueueDepth \in Nat \ {0}, NEW W,
         NEW q, FifoInv(W, q), NEW push_req \in BOOLEAN, NEW pop_req \in BOOLEAN,
         NEW data_in \in W, NEW n,
         n = FifoEdge(q, push_req, data_in, pop_req)
  PROVE  FifoInv(W, n) /\ FifoMoved(W, q, n, push_req, data_in, pop_req)
<1> DEFINE write == write_to_dpram(q, push_req, pop_req)
           read == read_from_dpram(q, pop_req)
           bypass == ready_for_bypass(q, push_req, pop_req)
           free == OutputFree(q, pop_req)
           m == InMemory(q)
           mn == InMemory(n)
           a == AtOutput(q)
           an == AtOutput(n)
           in == FifoIn(q, push_req, data_in)
           out == FifoOut(q, pop_req)
           below == IF write THEN <<data_in>> ELSE <<>>
           shown == IF read THEN <<q.dpram[q.read_pointer]>> ELSE <<>>
<1>1. /\ q.queue_size \in 0 .. QueueDepth /\ q.read_pointer \in Ring
      /\ q.dpram \in [Ring -> W]
      /\ q.read_state \in {"Idle", "Valid", "WaitPop"}
      /\ q.read_data \in W /\ q.read_data_reg \in W
  BY DEF FifoInv, MemoryInv
<1>2. /\ write \in BOOLEAN /\ read \in BOOLEAN
      /\ free <=> q.read_state = "Idle" \/ pop_req
      /\ read <=> free /\ q.queue_size > 0
      /\ bypass <=> free /\ q.queue_size = 0 /\ push_req
      /\ write <=> push_req /\ q.queue_size < QueueDepth /\ ~bypass
  BY DEF write_to_dpram, read_from_dpram, OutputFree,
         ready_for_bypass, fifo_push_ack
<1>3. /\ n.read_state = CASE read -> "Valid" [] bypass -> "WaitPop"
                          [] ~free -> "WaitPop" [] OTHER -> "Idle"
      /\ n.read_data = IF read THEN q.dpram[q.read_pointer] ELSE q.read_data
      /\ n.read_data_reg = CASE bypass -> data_in
                             [] q.read_state = "Valid" /\ ~pop_req -> q.read_data
                             [] OTHER -> q.read_data_reg
  BY DEF FifoEdge, next_read_state, next_read_data_reg
<1>4. MemoryMoves(q, n, write, read, data_in)
  <2>1. /\ n.read_pointer = IF read THEN Incr(q.read_pointer) ELSE q.read_pointer
        /\ n.write_pointer = IF write THEN Incr(q.write_pointer) ELSE q.write_pointer
        /\ n.queue_size = q.queue_size + (IF write THEN 1 ELSE 0) - (IF read THEN 1 ELSE 0)
        /\ n.dpram = IF write THEN [q.dpram EXCEPT ![q.write_pointer] = data_in] ELSE q.dpram
    BY DEF FifoEdge
  <2> QED
    BY <1>2, <2>1 DEF MemoryMoves
<1>5. FifoInv(W, n)
  <2>1. MemoryInv(W, n)
    BY <1>2, <1>4, MemoryKeeps
  <2>2. n.read_state \in {"Idle", "Valid", "WaitPop"}
    BY <1>3
  <2>3. n.read_data \in W /\ n.read_data_reg \in W
    BY <1>1, <1>3
  <2> QED
    BY <2>1, <2>2, <2>3 DEF FifoInv, MemoryInv
<1>6. m \o below = shown \o mn
  BY <1>2, <1>4, <1>5, MemoryStep
<1>7. m \in Seq(W) /\ mn \in Seq(W) /\ (m = <<>> <=> q.queue_size = 0)
  <2>1. m \in Seq(W) /\ mn \in Seq(W) /\ Len(m) = q.queue_size
    BY <1>5, InMemoryType
  <2> QED
    BY <2>1, EmptySeq
<1>8. /\ q.read_state = "Idle" => a = <<>>
      /\ q.read_state = "Valid" => a = <<q.read_data>>
      /\ q.read_state = "WaitPop" => a = <<q.read_data_reg>>
      /\ n.read_state = "Idle" => an = <<>>
      /\ n.read_state = "Valid" => an = <<n.read_data>>
      /\ n.read_state = "WaitPop" => an = <<n.read_data_reg>>
  BY DEF AtOutput, fifo_data_out
<1>9. a \in Seq(W) /\ an \in Seq(W)
  <2>1. n.read_state \in {"Idle", "Valid", "WaitPop"} /\ n.read_data \in W
        /\ n.read_data_reg \in W
    BY <1>5 DEF FifoInv, MemoryInv
  <2> HIDE DEF a, an
  <2>2. /\ a = <<>> \/ \E w \in W : a = <<w>>
        /\ an = <<>> \/ \E w \in W : an = <<w>>
    BY <1>1, <1>8, <2>1
  <2> QED
    BY <2>2, AtMostOne, Zenon
<1>10. /\ out = IF pop_req /\ q.read_state # "Idle" THEN a ELSE <<>>
       /\ in = IF push_req /\ q.queue_size < QueueDepth THEN <<data_in>> ELSE <<>>
  BY DEF FifoIn, FifoOut, fifo_push_ack, fifo_pop_ack,
         AtOutput
<1>11. FifoHolds(q) = a \o m /\ FifoHolds(n) = an \o mn
  BY DEF FifoHolds
<1>12. in \in Seq(W) /\ below \in Seq(W)
  BY <1>10
<1> SUFFICES \E s \in Seq(W) : a \o m = out \o s /\ an \o mn = s \o in
  BY <1>5, <1>11 DEF FifoMoved
<1>13. bypass \/ below = in
  BY <1>2, <1>10
<1>14. shown = IF read THEN <<q.dpram[q.read_pointer]>> ELSE <<>>
  OBVIOUS
<1>15. below = IF write THEN <<data_in>> ELSE <<>>
  OBVIOUS
<1> HIDE DEF write, read, bypass, free, m, mn, a, an, in, out, below, shown
<1>16. CASE free
  <2>1. a = out
    BY <1>1, <1>2, <1>8, <1>10, <1>16
  <2>2. an \o mn = m \o in
    <3>1. CASE read
      <4>1. an = shown
        <5>1. n.read_state = "Valid" /\ n.read_data = q.dpram[q.read_pointer]
          BY <1>1, <1>2, <1>3, <3>1
        <5> QED
          BY <1>8, <1>14, <3>1, <5>1
      <4>2. below = in
        BY <1>2, <1>13, <3>1
      <4> QED
        BY <1>6, <4>1, <4>2, Zenon
    <3>2. CASE bypass
      <4>1. m = <<>> /\ ~read /\ ~write
        BY <1>2, <1>7, <3>2
      <4>2. an = <<data_in>> /\ in = <<data_in>>
        <5>1. q.queue_size = 0 /\ QueueDepth > 0
          BY <1>1, <1>7, <4>1 DEF Ring
        <5> QED
          BY <1>2, <1>3, <1>8, <1>10, <3>2, <4>1, <5>1
      <4>3. mn = <<>>
        <5>1. m \o below = <<>> /\ shown \o mn = mn
          BY <1>7, <1>14, <1>15, <4>1
        <5> QED
          BY <1>6, <5>1, Zenon
      <4>4. an \o mn = <<data_in>> /\ m \o in = <<data_in>>
        BY <4>1, <4>2, <4>3
      <4> QED
        BY <4>4
    <3>3. CASE ~read /\ ~bypass
      <4>1. m = <<>> /\ an = <<>> /\ shown = <<>> /\ below = in
        BY <1>1, <1>2, <1>3, <1>7, <1>8, <1>13, <1>14, <1>16, <3>3
      <4> QED
        BY <1>6, <4>1, Zenon
    <3> QED
      BY <3>1, <3>2, <3>3
  <2> QED
    BY <1>7, <2>1, <2>2
<1>17. CASE ~free
  <2>1. out = <<>> /\ an = a /\ below = in /\ shown = <<>>
    BY <1>1, <1>2, <1>3, <1>8, <1>10, <1>13, <1>14, <1>17
  <2>2. a \o m \in Seq(W) /\ <<>> \o (a \o m) = a \o m
    BY <1>7, <1>9, Joined
  <2>3. <<>> \o mn = mn
    BY <1>7
  <2>4. m \o in = mn
    BY <1>6, <2>1, <2>3, Zenon
  <2>5. a \o (m \o in) = (a \o m) \o in
    <3>1. a \in Seq(W) /\ m \in Seq(W) /\ in \in Seq(W)
      BY <1>7, <1>9, <1>12
    <3> QED
      BY <3>1
  <2>6. a \o m = out \o (a \o m) /\ an \o mn = (a \o m) \o in
    BY <2>1, <2>2, <2>4, <2>5, Zenon
  <2> QED
    BY <2>2, <2>6
<1> QED
  BY <1>16, <1>17

LEMMA FifoHoldsType ==
  ASSUME QueueDepth \in Nat \ {0}, NEW W,
         NEW q, FifoInv(W, q)
  PROVE  /\ FifoHolds(q) \in Seq(W)
         /\ Len(FifoHolds(q)) <= QueueDepth + 1
<1> DEFINE m == InMemory(q)
           a == AtOutput(q)
<1>1. m \in Seq(W) /\ Len(m) <= QueueDepth
  BY InMemoryType DEF FifoInv, MemoryInv
<1>2. a = <<>> \/ \E w \in W : a = <<w>>
  BY DEF AtOutput, fifo_data_out, FifoInv
<1>3. FifoHolds(q) = a \o m
  BY DEF FifoHolds
<1> HIDE DEF m, a
<1>4. a \in Seq(W) /\ Len(a) <= 1
  <2>1. a \in Seq(W) /\ Len(a) = IF a = <<>> THEN 0 ELSE 1
    BY <1>2, AtMostOne, Zenon
  <2> QED
    BY <2>1
<1>5. a \o m \in Seq(W) /\ Len(a \o m) = Len(a) + Len(m)
  BY <1>1, <1>4, Joined
<1> QED
  BY <1>1, <1>3, <1>4, <1>5
=============================================================================
