--------------------------- MODULE PipeBase_proof ---------------------------
(***************************************************************************)
(* Proofs about the pipes of the generated hardware, for every depth, any  *)
(* number of ports, and every queue that the generics can choose.  First   *)
(* the ports, then an edge of the clock for each of the queues.            *)
(***************************************************************************)
EXTENDS PipeBase, QueueBase_proof, FiniteSetTheorems

Steps == INSTANCE PipeSteps

-----------------------------------------------------------------------------
(* The ports: at most one writer and one reader are let through, and what  *)
(* they exchange is what the queue takes in and hands out.                 *)

PortsInv ==
  /\ write_req \subseteq Writers /\ read_req \subseteq Readers
  /\ write_data \in [Writers -> Word]
  /\ reqIn_register \subseteq write_req
  /\ NumWrites = 1 => reqIn_register = {}
  /\ Alternating => write_req = {} \/ read_req = {}

LEMMA HighestOfSome ==
  ASSUME NEW x, x \subseteq Int
  PROVE  PriorityEncode(x) = {} \/ \E j \in x : PriorityEncode(x) = {j}
<1> DEFINE e == PriorityEncode(x)
<1>1. e \subseteq x /\ \A i \in e : \A j \in x : j <= i
  BY DEF PriorityEncode
<1> HIDE DEF e
<1>2. ASSUME NEW j \in e PROVE j \in x /\ e = {j}
  <2>1. ASSUME NEW i \in e PROVE i = j
    <3>1. i \in Int /\ j \in Int /\ i <= j /\ j <= i
      BY <1>1
    <3> QED BY <3>1
  <2> QED BY <1>1, <2>1
<1> QED
  BY <1>2 DEF e

LEMMA OneWriter ==
  ASSUME PortsInv
  PROVE  wmux_active = {} \/ \E j \in write_req : wmux_active = {j}
<1> DEFINE x == reqOut(NumWrites, write_req, reqIn_register)
<1>1. x \subseteq write_req /\ x \subseteq Int
  BY PortsAssumption DEF PortsInv, reqOut, Writers
<1> QED
  BY <1>1, HighestOfSome DEF wmux_active

LEMMA OneReader ==
  ASSUME PortsInv
  PROVE  rmux_active = {} \/ \E j \in read_req : rmux_active = {j}
<1>1. read_req \subseteq Int
  BY PortsAssumption DEF PortsInv, Readers
<1> QED
  BY <1>1, HighestOfSome DEF rmux_active

LEMMA SetToSeqOfFew ==
  ASSUME NEW j
  PROVE  SetToSeq({}) = <<>> /\ SetToSeq({j}) = <<j>>
<1>1. Cardinality({}) = 0 /\ Cardinality({j}) = 1
  BY FS_EmptySet, FS_Singleton
<1>2. [1 .. 0 -> {}] = {<<>>}
  <2>1. ASSUME NEW f \in [1 .. 0 -> {}] PROVE f = <<>>
    <3>1. f \in Seq({}) /\ Len(f) = 0
      OBVIOUS
    <3> QED BY <3>1, EmptySeq
  <2>2. <<>> \in [1 .. 0 -> {}]
    OBVIOUS
  <2> QED BY <2>1, <2>2
<1>3. [1 .. 1 -> {j}] = {<<j>>}
  OBVIOUS
<1>4. IsInjective(<<>>) /\ IsInjective(<<j>>)
  BY DEF IsInjective
<1> QED
  BY <1>1, <1>2, <1>3, <1>4 DEF SetToSeq

(* The words that pass the queue's two sides at this edge.                 *)
TakenIn == IF pipe_req /\ pipe_ack THEN <<pipe_data>> ELSE <<>>
HandedOut == IF pipe_req_repeated /\ pipe_ack_repeated THEN <<pipe_data_repeated>>
                                                       ELSE <<>>

LEMMA Exchange ==
  ASSUME PortsInv, PTick
  PROVE  /\ put' = TakenIn /\ got' = HandedOut
         /\ pipe_data \in Word
         /\ Alternating => ~(pipe_req /\ pipe_req_repeated)
<1>1. /\ put' = [k \in DOMAIN SetToSeq(write_ack) |-> write_data[SetToSeq(write_ack)[k]]]
      /\ got' = [k \in 1 .. Cardinality(read_ack) |-> pipe_data_repeated]
  BY DEF PTick
<1>2. put' = TakenIn /\ pipe_data \in Word
  <2>1. CASE wmux_active = {}
    <3>1. write_ack = {} /\ pipe_data = Zero /\ ~pipe_req
      BY <2>1 DEF write_ack, pipe_data, pipe_req
    <3>2. put' = [k \in DOMAIN <<>> |-> write_data[<<>>[k]]]
      BY <1>1, <3>1, SetToSeqOfFew
    <3>3. put' = <<>>
      BY <3>2
    <3> QED
      BY <3>1, <3>3, ZeroIsAWord DEF TakenIn
  <2>2. ASSUME NEW j \in write_req, wmux_active = {j}
        PROVE  put' = TakenIn /\ pipe_data \in Word
    <3>1. pipe_data = write_data[j] /\ pipe_req /\ write_data[j] \in Word
      BY <2>2 DEF pipe_data, pipe_req, PortsInv
    <3>2. CASE pipe_ack
      <4>1. put' = [k \in DOMAIN <<j>> |-> write_data[<<j>>[k]]]
        BY <1>1, <2>2, <3>2, SetToSeqOfFew DEF write_ack
      <4>2. put' = <<write_data[j]>>
        BY <4>1
      <4> QED
        BY <3>1, <3>2, <4>2 DEF TakenIn
    <3>3. CASE ~pipe_ack
      <4>1. put' = [k \in DOMAIN <<>> |-> write_data[<<>>[k]]]
        BY <1>1, <3>3, SetToSeqOfFew DEF write_ack
      <4>2. put' = <<>>
        BY <4>1
      <4> QED
        BY <3>1, <3>3, <4>2 DEF TakenIn
    <3> QED
      BY <3>2, <3>3
  <2> QED
    BY <2>1, <2>2, OneWriter
<1>3. got' = HandedOut
  <2>1. read_ack = {} \/ \E j \in read_req : read_ack = {j}
    BY OneReader DEF read_ack
  <2>2. Cardinality(read_ack) = IF read_ack = {} THEN 0 ELSE 1
    BY <2>1, FS_EmptySet, FS_Singleton
  <2>3. read_ack # {} <=> pipe_req_repeated /\ pipe_ack_repeated
    BY DEF read_ack, pipe_req_repeated
  <2>4. CASE read_ack = {}
    <3>1. got' = [k \in 1 .. 0 |-> pipe_data_repeated]
      BY <1>1, <2>2, <2>4
    <3>2. got' = <<>>
      BY <3>1
    <3> QED BY <2>3, <2>4, <3>2 DEF HandedOut
  <2>5. CASE read_ack # {}
    <3>1. got' = [k \in 1 .. 1 |-> pipe_data_repeated]
      BY <1>1, <2>2, <2>5
    <3>2. got' = <<pipe_data_repeated>>
      BY <3>1
    <3> QED BY <2>3, <2>5, <3>2 DEF HandedOut
  <2> QED BY <2>4, <2>5
<1>4. Alternating => ~(pipe_req /\ pipe_req_repeated)
  BY OneWriter, OneReader DEF PortsInv, pipe_req, pipe_req_repeated
<1> QED
  BY <1>2, <1>3, <1>4

LEMMA PInitPorts == PInit => PortsInv
BY ZeroIsAWord, PortsAssumption DEF PInit, PortsInv, Writers

(* What the arbiter remembers is still requested after the edge.           *)
LEMMA PTickPorts ==
  ASSUME PortsInv, PTick
  PROVE  PortsInv'
<1>1. /\ write_req' \subseteq Writers /\ read_req' \subseteq Readers
      /\ write_req \ write_ack \subseteq write_req'
      /\ write_data' \in [Writers -> Word]
      /\ Alternating => write_req' = {} \/ read_req' = {}
  BY DEF PTick, Ports
<1>2. /\ reqIn_register' \subseteq write_req'
      /\ NumWrites = 1 => reqIn_register' = {}
  <2>1. reqIn_register' = next_reqIn_register(NumWrites, write_req,
                                              reqIn_register, write_ack)
    BY DEF PTick
  <2>2. CASE NumWrites = 1
    <3>1. reqIn_register' = reqIn_register
      BY <2>1, <2>2 DEF next_reqIn_register
    <3> QED
      BY <1>1, <2>2, <3>1 DEF PortsInv
  <2>3. CASE NumWrites # 1
    BY <1>1, <2>1, <2>3 DEF PortsInv, next_reqIn_register, reqOut
  <2> QED
    BY <2>2, <2>3
<1> QED
  BY <1>1, <1>2 DEF PortsInv

(* The generics choose one queue.                                          *)
LEMMA OneKind ==
  /\ Kind \in {"stack", "shallow", "chain", "deep"}
  /\ Kind = "stack" <=> LifoMode
BY QueueDepthAssumption, ThresholdAssumption DEF Kind

LEMMA OthersHavePlaces == Kind # "shallow" => QueueDepth > 0
BY QueueDepthAssumption, ThresholdAssumption, StackAssumption DEF Kind

-----------------------------------------------------------------------------
(* The deep FIFO of the pipe is the one that PipeSteps is about.           *)
FifoInv(q) == Steps!FifoInv(Word, q)

FifoIn(q, push_req, data_in) ==
  IF push_req /\ DeepQueue!fifo_push_ack(q) THEN <<data_in>> ELSE <<>>
FifoOut(q, pop_req) ==
  IF pop_req /\ DeepQueue!fifo_pop_ack(q) THEN <<DeepQueue!fifo_data_out(q)>> ELSE <<>>

LEMMA SameEdge ==
  ASSUME NEW q, NEW push_req, NEW data_in, NEW pop_req
  PROVE  Steps!FifoEdge(q, push_req, data_in, pop_req)
           = DeepQueue!FifoEdge(q, push_req, data_in, pop_req)
BY DEF Steps!FifoEdge, DeepQueue!FifoEdge, Steps!write_to_dpram, DeepQueue!write_to_dpram,
       Steps!read_from_dpram, DeepQueue!read_from_dpram,
       Steps!ready_for_bypass, DeepQueue!ready_for_bypass,
       Steps!OutputFree, DeepQueue!OutputFree,
       Steps!fifo_push_ack, DeepQueue!fifo_push_ack,
       Steps!next_read_state, DeepQueue!next_read_state,
       Steps!next_read_data_reg, DeepQueue!next_read_data_reg,
       Steps!Incr, DeepQueue!Incr

LEMMA SameWords ==
  ASSUME NEW q
  PROVE  /\ Steps!AtOutput(q) = DeepQueue!AtOutput(q)
         /\ Steps!InMemory(q) = DeepQueue!InMemory(q)
         /\ Steps!FifoHolds(q) = DeepQueue!FifoHolds(q)
BY DEF Steps!AtOutput, DeepQueue!AtOutput, Steps!InMemory, DeepQueue!InMemory,
       Steps!FifoHolds, DeepQueue!FifoHolds, Steps!Around, DeepQueue!Around,
       Steps!fifo_data_out, DeepQueue!fifo_data_out

LEMMA SameHandshake ==
  ASSUME NEW q, NEW push_req, NEW data_in, NEW pop_req
  PROVE  /\ Steps!FifoIn(q, push_req, data_in) = FifoIn(q, push_req, data_in)
         /\ Steps!FifoOut(q, pop_req) = FifoOut(q, pop_req)
BY DEF Steps!FifoIn, FifoIn, Steps!FifoOut, FifoOut,
       Steps!fifo_push_ack, DeepQueue!fifo_push_ack, Steps!fifo_pop_ack,
       DeepQueue!fifo_pop_ack, Steps!fifo_data_out, DeepQueue!fifo_data_out

LEMMA InitFifoInv ==
  ASSUME Kind = "deep"
  PROVE  FifoInv(DeepQueue!InitFifo) /\ DeepQueue!FifoHolds(DeepQueue!InitFifo) = <<>>
<1>1. QueueDepth \in Nat \ {0} /\ Zero \in Word
  BY QueueDepthAssumption, OthersHavePlaces, ZeroIsAWord
<1>2. Steps!InitFifo = DeepQueue!InitFifo
  BY DEF Steps!InitFifo, DeepQueue!InitFifo, Steps!Ring, DeepQueue!Ring
<1> QED
  BY <1>1, <1>2, Steps!InitFifoInv, SameWords DEF FifoInv

FifoMoved(q, n, push_req, data_in, pop_req) ==
  \E s \in Seq(Word) :
    /\ DeepQueue!FifoHolds(q) = FifoOut(q, pop_req) \o s
    /\ DeepQueue!FifoHolds(n) = s \o FifoIn(q, push_req, data_in)

LEMMA FifoStep ==
  ASSUME Kind = "deep", NEW q, FifoInv(q),
         NEW push_req \in BOOLEAN, NEW pop_req \in BOOLEAN, NEW data_in \in Word,
         NEW n, n = DeepQueue!FifoEdge(q, push_req, data_in, pop_req)
  PROVE  FifoInv(n) /\ FifoMoved(q, n, push_req, data_in, pop_req)
<1>1. QueueDepth \in Nat \ {0}
  BY QueueDepthAssumption, OthersHavePlaces
<1>2. n = Steps!FifoEdge(q, push_req, data_in, pop_req)
  BY SameEdge, Zenon
<1>3. FifoInv(n) /\ Steps!FifoMoved(Word, q, n, push_req, data_in, pop_req)
  BY <1>1, <1>2, Steps!FifoStep, Zenon DEF FifoInv
<1>4. /\ Steps!FifoHolds(q) = DeepQueue!FifoHolds(q)
      /\ Steps!FifoHolds(n) = DeepQueue!FifoHolds(n)
      /\ Steps!FifoIn(q, push_req, data_in) = FifoIn(q, push_req, data_in)
      /\ Steps!FifoOut(q, pop_req) = FifoOut(q, pop_req)
  BY SameWords, SameHandshake, Zenon
<1> QED
  BY <1>3, <1>4, Zenon DEF Steps!FifoMoved, FifoMoved

LEMMA FifoType ==
  ASSUME Kind = "deep", NEW q, FifoInv(q)
  PROVE  /\ DeepQueue!FifoHolds(q) \in Seq(Word)
         /\ Len(DeepQueue!FifoHolds(q)) <= QueueDepth + 1
         /\ DeepQueue!fifo_data_out(q) \in Word
         /\ DeepQueue!InMemory(q) \in Seq(Word)
<1>1. QueueDepth \in Nat \ {0}
  BY QueueDepthAssumption, OthersHavePlaces
<1>2. Steps!FifoHolds(q) \in Seq(Word) /\ Len(Steps!FifoHolds(q)) <= QueueDepth + 1
  BY <1>1, Steps!FifoHoldsType, Zenon DEF FifoInv
<1>3. Steps!InMemory(q) \in Seq(Word)
  BY <1>1, Steps!InMemoryType, Zenon DEF FifoInv
<1>4. DeepQueue!fifo_data_out(q) \in Word
  BY DEF DeepQueue!fifo_data_out, FifoInv, Steps!FifoInv
<1> QED
  BY <1>2, <1>3, <1>4, SameWords, Zenon

-----------------------------------------------------------------------------
(* The stack, when nobody reads while somebody writes.  Then the array has *)
(* every word, its top included.                                           *)

LifoStates == [queue_size : Int, tos_pointer : Int, write_pointer : Int,
               select_bypass : BOOLEAN, bypass_reg : Word, mem_out_reg : Word,
               queue_array : [Places -> Word]]

LifoInv(q) ==
  /\ q \in LifoStates /\ q.queue_size \in 0 .. QueueDepth
  /\ q.write_pointer = IF q.queue_size = QueueDepth THEN 0 ELSE q.queue_size
  /\ q.tos_pointer = IF q.queue_size = 0 THEN 0 ELSE q.queue_size - 1
  /\ q.queue_size > 0 =>
       StackQueue!lifo_data_out(q) = q.queue_array[q.queue_size - 1]

LEMMA InitLifoInv ==
  ASSUME Kind = "stack"
  PROVE  LifoInv(StackQueue!InitLifo) /\ StackQueue!LifoHolds(StackQueue!InitLifo) = <<>>
<1> DEFINE q == StackQueue!InitLifo
<1>1. LifoInv(q) /\ q.queue_size = 0
  BY QueueDepthAssumption, OthersHavePlaces, ZeroIsAWord
     DEF LifoInv, LifoStates, StackQueue!InitLifo, StackQueue!Stack, Places
<1>2. StackQueue!LifoHolds(q) = <<>>
  BY <1>1 DEF StackQueue!LifoHolds
<1> QED
  BY <1>1, <1>2

LEMMA LifoHoldsType ==
  ASSUME NEW q, LifoInv(q)
  PROVE  /\ StackQueue!LifoHolds(q) \in Seq(Word)
         /\ Len(StackQueue!LifoHolds(q)) = q.queue_size
         /\ \A k \in 1 .. q.queue_size : StackQueue!LifoHolds(q)[k] = q.queue_array[k - 1]
<1> DEFINE c == StackQueue!LifoHolds(q)
<1>1. /\ q.queue_size \in Nat /\ q.queue_size <= QueueDepth
      /\ q.queue_array \in [Places -> Word]
      /\ q.queue_size > 0 =>
           StackQueue!lifo_data_out(q) = q.queue_array[q.queue_size - 1]
  BY QueueDepthAssumption DEF LifoInv, LifoStates
<1>2. c = [k \in 1 .. q.queue_size |->
             IF k = q.queue_size THEN StackQueue!lifo_data_out(q) ELSE q.queue_array[k - 1]]
  BY DEF StackQueue!LifoHolds
<1> HIDE DEF c
<1>3. ASSUME NEW k \in 1 .. q.queue_size
      PROVE  c[k] = q.queue_array[k - 1] /\ q.queue_array[k - 1] \in Word
  BY <1>1, <1>2, QueueDepthAssumption DEF Places
<1>4. c \in [1 .. q.queue_size -> Word]
  BY <1>2, <1>3
<1>5. c \in Seq(Word) /\ Len(c) = q.queue_size
  BY <1>1, <1>4
<1> QED
  BY <1>3, <1>5 DEF c

LEMMA LifoStep ==
  ASSUME NEW q, LifoInv(q), NEW push_req \in BOOLEAN, NEW pop_req \in BOOLEAN,
         ~(push_req /\ pop_req), NEW data_in \in Word, NEW n,
         n = StackQueue!LifoEdge(q, push_req, data_in, pop_req),
         NEW c, c = StackQueue!LifoHolds(q), NEW cn, cn = StackQueue!LifoHolds(n)
  PROVE  /\ LifoInv(n)
         /\ \/ /\ push_req /\ StackQueue!lifo_push_ack(q) /\ cn = Append(c, data_in)
            \/ /\ pop_req /\ StackQueue!lifo_pop_ack(q) /\ c # <<>>
               /\ <<StackQueue!lifo_data_out(q)>> = SubSeq(c, Len(c), Len(c))
               /\ cn = SubSeq(c, 1, Len(c) - 1)
            \/ /\ ~(push_req /\ StackQueue!lifo_push_ack(q))
               /\ ~(pop_req /\ StackQueue!lifo_pop_ack(q)) /\ cn = c
<1> USE QueueDepthAssumption
<1> DEFINE size == q.queue_size
<1>1. /\ q \in LifoStates
      /\ q.write_pointer = IF size = QueueDepth THEN 0 ELSE size
      /\ q.tos_pointer = IF size = 0 THEN 0 ELSE size - 1
      /\ size > 0 => StackQueue!lifo_data_out(q) = q.queue_array[size - 1]
      /\ size \in 0 .. QueueDepth
      /\ q.queue_array \in [Places -> Word]
      /\ q.mem_out_reg \in Word
  BY DEF LifoInv, LifoStates
<1>2. /\ c \in Seq(Word) /\ Len(c) = size
      /\ \A k \in 1 .. size : c[k] = q.queue_array[k - 1]
  BY LifoHoldsType
<1>3. /\ StackQueue!lifo_push_ack(q) <=> size < QueueDepth
      /\ StackQueue!lifo_pop_ack(q) <=> size > 0
  BY DEF StackQueue!lifo_push_ack, StackQueue!lifo_pop_ack
<1> HIDE DEF size
<1>4. CASE push_req /\ size < QueueDepth
  <2>1. n = StackQueue!Push(q, data_in)
    BY <1>3, <1>4 DEF StackQueue!LifoEdge
  <2>2. /\ n.queue_size = size + 1
        /\ n.write_pointer = StackQueue!Incr(size)
        /\ n.tos_pointer = IF size > 0 THEN StackQueue!Incr(size - 1) ELSE 0
        /\ n.queue_array = [q.queue_array EXCEPT ![size] = data_in]
        /\ n.select_bypass = TRUE /\ n.bypass_reg = data_in
    <3>1. q.write_pointer = size /\ (size > 0 => q.tos_pointer = size - 1)
      BY <1>1, <1>4
    <3> QED
      BY <1>1, <2>1, <3>1 DEF StackQueue!Push, LifoStates, size
  <2>3. size \in Places /\ n.queue_array[size] = data_in
    <3>1. size \in Places
      BY <1>1, <1>4 DEF Places
    <3> QED
      BY <1>1, <2>2, <3>1
  <2>4. LifoInv(n)
    <3>1. n \in LifoStates
      <4> DEFINE wp == StackQueue!Incr(q.write_pointer)
                 tos == IF q.queue_size > 0 THEN StackQueue!Incr(q.tos_pointer) ELSE 0
                 more == q.queue_size + 1
                 array == [q.queue_array EXCEPT ![q.write_pointer] = data_in]
      <4>1. n = [q EXCEPT !.write_pointer = wp, !.tos_pointer = tos, !.queue_size = more,
                          !.queue_array = array,
                          !.select_bypass = TRUE, !.bypass_reg = data_in]
        BY <2>1 DEF StackQueue!Push
      <4>2. q.tos_pointer \in Int /\ q.write_pointer \in Int /\ q.queue_size \in Int
        BY <1>1 DEF LifoStates
      <4>3. wp \in Int /\ tos \in Int /\ more \in Int
        BY <4>2 DEF StackQueue!Incr
      <4>4. array \in [Places -> Word]
        BY <1>1
      <4> HIDE DEF wp, tos, more, array
      <4> QED
        BY <1>1, <4>1, <4>3, <4>4 DEF LifoStates
    <3>2. StackQueue!lifo_data_out(n) = n.queue_array[n.queue_size - 1]
      <4>1. StackQueue!lifo_data_out(n) = data_in /\ n.queue_size - 1 = size
        BY <1>1, <2>2 DEF StackQueue!lifo_data_out
      <4> QED
        BY <2>3, <4>1
    <3>3. /\ n.queue_size \in 0 .. QueueDepth
          /\ n.write_pointer = IF n.queue_size = QueueDepth THEN 0 ELSE n.queue_size
          /\ n.tos_pointer = IF n.queue_size = 0 THEN 0 ELSE n.queue_size - 1
      <4>0. /\ size \in 0 .. QueueDepth /\ size < QueueDepth /\ n.queue_size = size + 1
            /\ n.tos_pointer = IF size > 0 THEN StackQueue!Incr(size - 1) ELSE 0
        BY <1>1, <1>4, <2>2, Zenon
      <4>1. n.queue_size \in 0 .. QueueDepth /\ n.queue_size # 0 /\ n.queue_size - 1 = size
        BY <4>0
      <4>2. n.queue_size = QueueDepth <=> ~(size < QueueDepth - 1)
        BY <4>0
      <4>3. n.tos_pointer = size
        BY <4>0 DEF StackQueue!Incr
      <4> QED
        BY <2>2, <4>1, <4>2, <4>3 DEF StackQueue!Incr
    <3> QED
      BY <3>1, <3>2, <3>3 DEF LifoInv
  <2>5. /\ cn \in Seq(Word) /\ Len(cn) = size + 1
        /\ \A k \in 1 .. size + 1 : cn[k] = n.queue_array[k - 1]
    <3>1. /\ cn \in Seq(Word) /\ Len(cn) = n.queue_size
          /\ \A k \in 1 .. n.queue_size : cn[k] = n.queue_array[k - 1]
      BY <2>4, LifoHoldsType
    <3>2. n.queue_size = size + 1
      BY <2>2
    <3> QED
      BY <3>1, <3>2
  <2>6. ASSUME NEW k \in 1 .. size PROVE cn[k] = c[k]
    <3>1. k - 1 \in Places /\ k - 1 # size /\ k \in 1 .. size + 1
      BY <1>1 DEF Places
    <3> QED
      BY <1>1, <1>2, <2>2, <2>5, <3>1
  <2>7. cn[size + 1] = data_in
    <3>1. size + 1 \in 1 .. size + 1 /\ (size + 1) - 1 = size
      BY <1>1
    <3> QED
      BY <2>3, <2>5, <3>1
  <2>8. cn = Append(c, data_in)
    <3> QED
      BY <1>1, <1>2, <2>5, <2>6, <2>7, SeqEqual
  <2> QED
    BY <1>3, <1>4, <2>4, <2>8
<1>5. CASE pop_req /\ size > 0
  <2>1. n = StackQueue!Pop(q)
    BY <1>3, <1>5 DEF StackQueue!LifoEdge
  <2>2. StackQueue!Below(q) \in Word /\ (size > 1 => StackQueue!Below(q) = q.queue_array[size - 2])
    BY <1>1, <1>5 DEF StackQueue!Below, Places
  <2>3. /\ n \in LifoStates
        /\ n.queue_size = size - 1
        /\ n.write_pointer = IF q.write_pointer > 0 THEN q.write_pointer - 1 ELSE QueueDepth - 1
        /\ n.tos_pointer = IF q.tos_pointer > 0 THEN q.tos_pointer - 1 ELSE 0
        /\ n.queue_array = q.queue_array
        /\ n.select_bypass = FALSE /\ n.mem_out_reg = StackQueue!Below(q)
    <3> DEFINE under == StackQueue!Below(q)
               wp == IF q.write_pointer > 0 THEN q.write_pointer - 1 ELSE QueueDepth - 1
               tos == IF q.tos_pointer > 0 THEN q.tos_pointer - 1 ELSE 0
               less == q.queue_size - 1
    <3>1. n = [q EXCEPT !.write_pointer = wp, !.tos_pointer = tos, !.queue_size = less,
                        !.select_bypass = FALSE,
                        !.mem_out_reg = under]
      BY <2>1 DEF StackQueue!Pop
    <3>2. under \in Word /\ wp \in Int /\ tos \in Int /\ less \in Int
      <4>1. q.tos_pointer \in Int /\ q.write_pointer \in Int /\ q.queue_size \in Int
        BY <1>1 DEF LifoStates
      <4> QED
        BY <2>2, <4>1
    <3> HIDE DEF under, wp, tos, less
    <3>3. n \in LifoStates
      BY <1>1, <3>1, <3>2 DEF LifoStates
    <3>4. /\ n.queue_size = less /\ n.write_pointer = wp /\ n.tos_pointer = tos
          /\ n.queue_array = q.queue_array
          /\ n.select_bypass = FALSE /\ n.mem_out_reg = under
      BY <1>1, <3>1 DEF LifoStates
    <3> QED
      BY <3>3, <3>4 DEF under, wp, tos, less, size
  <2>4. LifoInv(n)
    <3>1. n.queue_size > 0 =>
            StackQueue!lifo_data_out(n) = n.queue_array[n.queue_size - 1]
      <4>1. StackQueue!lifo_data_out(n) = StackQueue!Below(q)
        BY <2>3 DEF StackQueue!lifo_data_out
      <4>2. (size - 1) - 1 = size - 2 /\ (size - 1 > 0 <=> size > 1)
        BY <1>1
      <4> QED
        BY <2>2, <2>3, <4>1, <4>2
    <3>2. /\ n.queue_size \in 0 .. QueueDepth
          /\ n.write_pointer = IF n.queue_size = QueueDepth THEN 0 ELSE n.queue_size
          /\ n.tos_pointer = IF n.queue_size = 0 THEN 0 ELSE n.queue_size - 1
      <4>0. /\ size \in 0 .. QueueDepth /\ size > 0 /\ n.queue_size = size - 1
            /\ q.write_pointer = IF size = QueueDepth THEN 0 ELSE size
            /\ q.tos_pointer = IF size = 0 THEN 0 ELSE size - 1
            /\ n.write_pointer = IF q.write_pointer > 0 THEN q.write_pointer - 1 ELSE QueueDepth - 1
            /\ n.tos_pointer = IF q.tos_pointer > 0 THEN q.tos_pointer - 1 ELSE 0
        BY <1>1, <1>5, <2>3, Zenon
      <4>1. n.queue_size \in 0 .. QueueDepth /\ n.queue_size # QueueDepth
        BY <4>0
      <4>2. n.write_pointer = size - 1
        BY <4>0
      <4>3. n.tos_pointer = IF size - 1 = 0 THEN 0 ELSE (size - 1) - 1
        BY <4>0
      <4> QED
        BY <2>3, <4>1, <4>2, <4>3
    <3> QED
      BY <2>3, <3>1, <3>2 DEF LifoInv
  <2>5. /\ cn \in Seq(Word) /\ Len(cn) = size - 1
        /\ \A k \in 1 .. size - 1 : cn[k] = q.queue_array[k - 1]
    BY <2>3, <2>4, LifoHoldsType
  <2>6. cn = SubSeq(c, 1, Len(c) - 1) /\ c # <<>>
    <3>1. size \in Nat /\ size > 0 /\ Len(c) - 1 = size - 1 /\ c # <<>>
      BY <1>1, <1>2, <1>5
    <3>2. /\ SubSeq(c, 1, size - 1) \in Seq(Word)
          /\ Len(SubSeq(c, 1, size - 1)) = size - 1
          /\ \A k \in 1 .. size - 1 : SubSeq(c, 1, size - 1)[k] = c[k]
      BY <1>2, <3>1
    <3>3. \A k \in 1 .. size - 1 : c[k] = cn[k]
      <4> SUFFICES ASSUME NEW k \in 1 .. size - 1 PROVE c[k] = cn[k]
        OBVIOUS
      <4>1. k \in 1 .. size
        BY <3>1
      <4> QED
        BY <1>2, <2>5, <4>1
    <3>4. cn = SubSeq(c, 1, size - 1)
      BY <2>5, <3>2, <3>3, SeqEqual
    <3> QED
      BY <3>1, <3>4
  <2>7. <<StackQueue!lifo_data_out(q)>> = SubSeq(c, Len(c), Len(c))
    <3>1. c[size] = StackQueue!lifo_data_out(q)
      BY <1>1, <1>2, <1>5
    <3> QED
      BY <1>1, <1>2, <1>5, <3>1
  <2> QED
    BY <1>3, <1>5, <2>4, <2>6, <2>7
<1>6. CASE ~(push_req /\ size < QueueDepth) /\ ~(pop_req /\ size > 0)
  <2>1. n = q
    BY <1>3, <1>6 DEF StackQueue!LifoEdge
  <2> QED
    BY <1>3, <1>6, <2>1
<1> QED
  BY <1>4, <1>5, <1>6

-----------------------------------------------------------------------------
(* The chain of stages.  The word that leaves a stage at an edge is in     *)
(* front of what the stage keeps, and behind it in the next stage.         *)

Stages == (QueueDepth + 1) \div 2

ChainInv(s) ==
  /\ s \in [1 .. Stages -> Seq(Word)]
  /\ \A i \in 1 .. Stages : Len(s[i]) <= ChainQueue!StageDepth

LEMMA SomeStages == Stages \in Nat /\ (Kind = "chain" => Stages >= 1)
BY QueueDepthAssumption, OthersHavePlaces DEF Stages

(* The words of the first i stages, for i up to m.                         *)
AreHeld(f, s, m) ==
  f[0] = <<>> /\ \A i \in 1 .. m : f[i] = s[i] \o f[i - 1]

LEMMA HeldExist ==
  ASSUME NEW s, ChainInv(s)
  PROVE  \E f \in [0 .. Stages -> Seq(Word)] : AreHeld(f, s, Stages)
<1> DEFINE Good(m) == \E f \in [0 .. m -> Seq(Word)] : AreHeld(f, s, m)
           Bad == {m \in 0 .. Stages : ~Good(m)}
<1>0. Stages \in Nat
  BY SomeStages
<1> SUFFICES ASSUME Bad # {} PROVE FALSE
  BY <1>0
<1>1. PICK m \in Bad : \A j \in Nat : j < m => j \notin Bad
  <2>1. Bad \subseteq Nat
    BY <1>0
  <2> QED BY <2>1, Steps!LeastNumber
<1>2. m # 0
  <2>1. Good(0)
    <3> DEFINE f == [i \in 0 .. 0 |-> <<>>]
    <3>1. f \in [0 .. 0 -> Seq(Word)] /\ f[0] = <<>>
      OBVIOUS
    <3>2. AreHeld(f, s, 0)
      BY <3>1 DEF AreHeld
    <3> QED BY <3>1, <3>2
  <2> QED BY <2>1
<1>3. m \in 1 .. Stages /\ m - 1 \in 0 .. Stages /\ m - 1 \notin Bad
  BY <1>0, <1>1, <1>2
<1>4. PICK f \in [0 .. m - 1 -> Seq(Word)] : AreHeld(f, s, m - 1)
  BY <1>3
<1> DEFINE last == s[m] \o f[m - 1]
           g == [i \in 0 .. m |-> IF i = m THEN last ELSE f[i]]
<1>5. last \in Seq(Word)
  <2>1. s[m] \in Seq(Word) /\ f[m - 1] \in Seq(Word)
    BY <1>0, <1>3 DEF ChainInv
  <2> QED BY <2>1, Steps!Joined
<1>6. \A i \in 0 .. m - 1 : f[i] \in Seq(Word)
  OBVIOUS
<1>7. g \in [0 .. m -> Seq(Word)] /\ g[m] = last
      /\ \A i \in 0 .. m - 1 : g[i] = f[i]
  <2> HIDE DEF last
  <2> QED BY <1>0, <1>3, <1>5, <1>6
<1>8. AreHeld(g, s, m)
  <2> HIDE DEF g
  <2>1. g[0] = <<>>
    BY <1>0, <1>3, <1>4, <1>7 DEF AreHeld
  <2>2. ASSUME NEW i \in 1 .. m
        PROVE  g[i] = s[i] \o g[i - 1]
    <3>1. CASE i = m
      <4>1. m - 1 \in 0 .. m - 1
        BY <1>0, <1>3
      <4>2. g[m] = last /\ g[m - 1] = f[m - 1]
        BY <1>7, <4>1
      <4> QED BY <3>1, <4>2, Zenon DEF last
    <3>2. CASE i # m
      <4>1. i \in 1 .. m - 1 /\ i \in 0 .. m - 1 /\ i - 1 \in 0 .. m - 1
        BY <1>0, <1>3, <3>2
      <4> QED BY <1>4, <1>7, <4>1 DEF AreHeld
    <3> QED BY <3>1, <3>2
  <2> QED BY <2>1, <2>2 DEF AreHeld
<1> QED
  BY <1>3, <1>7, <1>8

LEMMA HeldAre ==
  ASSUME NEW s, ChainInv(s)
  PROVE  AreHeld(ChainQueue!FirstStagesHold(s), s, Stages)
<1>0. Stages \in Nat
  BY SomeStages
<1>1. PICK f \in [0 .. Stages -> Seq(Word)] : AreHeld(f, s, Stages)
  BY HeldExist
<1> DEFINE Step(w, i) == IF i = 0 THEN <<>> ELSE s[i] \o w[i - 1]
           Is(w) == w = [i \in 0 .. Stages |-> Step(w, i)]
<1>2. Is(f)
  <2>1. ASSUME NEW i \in 0 .. Stages PROVE f[i] = Step(f, i)
    <3>1. i = 0 \/ (i # 0 /\ i \in 1 .. Stages)
      BY <1>0
    <3> QED BY <1>1, <3>1, Zenon DEF AreHeld
  <2> QED BY <1>1, <2>1
<1> DEFINE u == ChainQueue!FirstStagesHold(s)
<1>3. u = CHOOSE w : Is(w)
  BY DEF ChainQueue!FirstStagesHold, Stages
<1>4. Is(u)
  <2> HIDE DEF Is
  <2> QED BY <1>2, <1>3
<1> HIDE DEF u
<1>5. \A i \in 0 .. Stages : u[i] = Step(u, i)
  BY <1>4
<1>6. AreHeld(u, s, Stages)
  <2>1. 0 \in 0 .. Stages /\ \A i \in 1 .. Stages : i \in 0 .. Stages /\ i # 0
    BY <1>0
  <2> QED BY <1>5, <2>1, Zenon DEF AreHeld
<1> QED
  BY <1>6 DEF u

LEMMA HeldTypes ==
  ASSUME NEW s, ChainInv(s)
  PROVE  \A i \in 0 .. Stages :
           /\ ChainQueue!FirstStagesHold(s)[i] \in Seq(Word)
           /\ Len(ChainQueue!FirstStagesHold(s)[i]) <= 2 * i
<1> DEFINE u == ChainQueue!FirstStagesHold(s)
           Bad == {i \in 0 .. Stages : ~(u[i] \in Seq(Word) /\ Len(u[i]) <= 2 * i)}
<1>0. Stages \in Nat
  BY SomeStages
<1>1. AreHeld(u, s, Stages)
  BY HeldAre
<1> HIDE DEF u
<1>2. Bad = {}
  <2> SUFFICES ASSUME Bad # {} PROVE FALSE
    OBVIOUS
  <2>1. PICK m \in Bad : \A k \in Nat : k < m => k \notin Bad
    <3>1. Bad \subseteq Nat
      BY <1>0
    <3> QED BY <3>1, Steps!LeastNumber
  <2>2. m # 0
    <3>1. u[0] = <<>>
      BY <1>1 DEF AreHeld
    <3>2. u[0] \in Seq(Word) /\ Len(u[0]) <= 2 * 0
      BY <3>1
    <3> QED BY <3>2
  <2>3. m \in 1 .. Stages /\ m - 1 \in 0 .. Stages /\ m - 1 \notin Bad
    BY <1>0, <2>1, <2>2
  <2>4. u[m - 1] \in Seq(Word) /\ Len(u[m - 1]) <= 2 * (m - 1)
    BY <2>3
  <2>5. u[m] = s[m] \o u[m - 1] /\ s[m] \in Seq(Word) /\ Len(s[m]) <= 2
    BY <1>1, <2>3 DEF AreHeld, ChainInv, ChainQueue!StageDepth
  <2>6. u[m] \in Seq(Word) /\ Len(u[m]) = Len(s[m]) + Len(u[m - 1])
    <3>1. s[m] \in Seq(Word) /\ u[m - 1] \in Seq(Word)
      BY <2>4, <2>5
    <3>2. /\ s[m] \o u[m - 1] \in Seq(Word)
          /\ Len(s[m] \o u[m - 1]) = Len(s[m]) + Len(u[m - 1])
      BY <3>1, Steps!Joined
    <3> QED BY <2>5, <3>2, Zenon
  <2>7. Len(u[m]) <= 2 * m
    <3>1. m \in Nat
      BY <1>0, <2>3
    <3> DEFINE a == Len(s[m])
               b == Len(u[m - 1])
               total == Len(u[m])
    <3>2. a \in Nat /\ b \in Nat /\ a <= 2
      BY <2>4, <2>5, LenProperties
    <3>3. total = a + b /\ b <= 2 * (m - 1)
      BY <2>4, <2>6
    <3> HIDE DEF a, b, total, Bad
    <3>4. total <= 2 * m
      BY <3>1, <3>2, <3>3
    <3> QED BY <3>4 DEF total
  <2> QED
    BY <2>6, <2>7
<1> QED
  BY <1>2 DEF u

ChainIn(s, push_req, data_in) ==
  IF push_req /\ ChainQueue!stages_push_ack(s) THEN <<data_in>> ELSE <<>>
Leaving(s, pop_req, i) ==
  IF ChainQueue!taken(s, i, pop_req) THEN <<Head(s[i])>> ELSE <<>>
StayingIn(s, pop_req, i) ==
  IF ChainQueue!taken(s, i, pop_req) THEN Tail(s[i]) ELSE s[i]
(* What stage i + 1 is given: by stage i, or by whoever pushes.            *)
PassedOn(s, push_req, data_in, pop_req, i) ==
  IF i = 0 THEN ChainIn(s, push_req, data_in) ELSE Leaving(s, pop_req, i)

(* One stage at an edge of the clock: l leaves it and p comes to it.       *)
StageMoves(si, ni, l, p) ==
  /\ l = <<>> \/ \E w \in Word : l = <<w>>
  /\ p = <<>> \/ \E w \in Word : p = <<w>>
  /\ ni \in Seq(Word) /\ Len(ni) <= ChainQueue!StageDepth
  /\ l \o ni = si \o p

LEMMA StageStep ==
  ASSUME NEW s, ChainInv(s), NEW push_req \in BOOLEAN, NEW pop_req \in BOOLEAN,
         NEW data_in \in Word, NEW n,
         n = ChainQueue!StagesEdge(s, push_req, data_in, pop_req),
         NEW i \in 1 .. Stages,
         NEW l, l = Leaving(s, pop_req, i),
         NEW p, p = PassedOn(s, push_req, data_in, pop_req, i - 1)
  PROVE  StageMoves(s[i], n[i], l, p)
<1> DEFINE k == StayingIn(s, pop_req, i)
           out == ChainQueue!taken(s, i, pop_req)
<1>0. Stages \in Nat /\ i \in Nat
  BY SomeStages
<1>1. s[i] \in Seq(Word) /\ Len(s[i]) <= 2
  BY DEF ChainInv, ChainQueue!StageDepth
<1>2. /\ k \in Seq(Word) /\ Len(k) = IF out THEN Len(s[i]) - 1 ELSE Len(s[i])
      /\ l = <<>> \/ \E w \in Word : l = <<w>>
      /\ l \o k = s[i]
  <2>1. CASE out
    <3>1. s[i] # <<>>
      BY <2>1 DEF ChainQueue!taken, ChainQueue!stage_pop_ack
    <3>2. /\ Head(s[i]) \in Word /\ Tail(s[i]) \in Seq(Word) /\ Len(Tail(s[i])) = Len(s[i]) - 1
          /\ <<Head(s[i])>> \o Tail(s[i]) = s[i]
      BY <1>1, <3>1, Steps!HeadAndTail, Zenon
    <3>3. l = <<Head(s[i])>> /\ k = Tail(s[i])
      BY <2>1 DEF Leaving, StayingIn
    <3> QED
      BY <2>1, <3>2, <3>3, Zenon
  <2>2. CASE ~out
    <3>1. l = <<>> /\ k = s[i]
      BY <2>2 DEF Leaving, StayingIn
    <3>2. <<>> \o s[i] = s[i]
      BY <1>1
    <3> QED
      BY <1>1, <2>2, <3>1, <3>2, Zenon
  <2> QED
    BY <2>1, <2>2
<1>3. n[i] = CASE i = 1 /\ push_req /\ ChainQueue!stage_push_ack(s, 1) -> Append(k, data_in)
               [] i > 1 /\ ChainQueue!taken(s, i - 1, pop_req) -> Append(k, Head(s[i - 1]))
               [] OTHER -> k
  BY DEF ChainQueue!StagesEdge, ChainQueue!next_stage, StayingIn, Stages
<1> HIDE DEF k, out
<1>4. \/ p = <<>> /\ n[i] = k
      \/ Len(s[i]) <= 1 /\ \E w \in Word : p = <<w>> /\ n[i] = Append(k, w)
  <2>1. CASE i = 1
    <3>1. p = IF push_req /\ ChainQueue!stage_push_ack(s, 1) THEN <<data_in>> ELSE <<>>
      BY <2>1 DEF PassedOn, ChainIn, ChainQueue!stages_push_ack
    <3>2. CASE push_req /\ ChainQueue!stage_push_ack(s, 1)
      <4>1. p = <<data_in>>
        BY <3>1, <3>2, Zenon
      <4>2. ~(i > 1)
        BY <2>1
      <4>3. n[i] = Append(k, data_in)
        BY <1>3, <2>1, <3>2, <4>2
      <4>4. Len(s[i]) <= 1
        BY <1>1, <2>1, <3>2, LenProperties DEF ChainQueue!stage_push_ack, ChainQueue!StageDepth
      <4> QED
        BY <4>1, <4>3, <4>4
    <3>3. CASE ~(push_req /\ ChainQueue!stage_push_ack(s, 1))
      BY <1>3, <2>1, <3>1, <3>3
    <3> QED
      BY <3>2, <3>3
  <2>2. CASE i > 1
    <3>1. i - 1 \in 1 .. Stages /\ i - 1 # 0 /\ i - 1 # Stages /\ (i - 1) + 1 = i
      BY <1>0, <2>2
    <3>2. p = IF ChainQueue!taken(s, i - 1, pop_req) THEN <<Head(s[i - 1])>> ELSE <<>>
      BY <3>1 DEF PassedOn, Leaving
    <3>3. CASE ChainQueue!taken(s, i - 1, pop_req)
      <4>1. p = <<Head(s[i - 1])>> /\ n[i] = Append(k, Head(s[i - 1]))
        BY <1>3, <2>2, <3>2, <3>3
      <4>2. s[i - 1] # <<>> /\ ChainQueue!stage_push_ack(s, i)
        BY <3>1, <3>3 DEF ChainQueue!taken, ChainQueue!stage_pop_ack, Stages
      <4>3. Head(s[i - 1]) \in Word
        BY <3>1, <4>2 DEF ChainInv
      <4>4. Len(s[i]) <= 1
        BY <1>1, <4>2, LenProperties DEF ChainQueue!stage_push_ack, ChainQueue!StageDepth
      <4> QED
        BY <4>1, <4>3, <4>4
    <3>4. CASE ~ChainQueue!taken(s, i - 1, pop_req)
      <4>1. p = <<>> /\ n[i] = k
        BY <1>3, <2>2, <3>2, <3>4
      <4> QED
        BY <4>1
    <3> QED
      BY <3>3, <3>4
  <2> QED
    BY <1>0, <2>1, <2>2
<1>5. CASE p = <<>> /\ n[i] = k
  <2>1. s[i] \o <<>> = s[i]
    BY <1>1
  <2>2. Len(k) <= 2
    BY <1>1, <1>2, LenProperties
  <2> QED
    BY <1>2, <1>5, <2>1, <2>2, Zenon DEF StageMoves, ChainQueue!StageDepth
<1>6. ASSUME Len(s[i]) <= 1, NEW w \in Word, p = <<w>>, n[i] = Append(k, w)
      PROVE  /\ n[i] \in Seq(Word) /\ Len(n[i]) <= 2
             /\ l \o n[i] = s[i] \o p
  <2>1. Append(k, w) \in Seq(Word) /\ Len(Append(k, w)) = Len(k) + 1
    BY <1>2
  <2>2. k \o <<w>> = Append(k, w)
    BY <1>2, Steps!Behind, Zenon
  <2>3. (l \o k) \o <<w>> = l \o (k \o <<w>>)
    <3>1. l \in Seq(Word)
      BY <1>2, Steps!AtMostOne, Zenon
    <3>2. l \in Seq(Word) /\ k \in Seq(Word) /\ <<w>> \in Seq(Word)
      BY <1>2, <3>1
    <3> QED
      BY <3>2
  <2>4. Len(k) + 1 <= 2
    BY <1>1, <1>2, <1>6, LenProperties
  <2> QED
    BY <1>2, <1>6, <2>1, <2>2, <2>3, <2>4, Zenon
<1> QED
  BY <1>2, <1>4, <1>5, <1>6, Zenon DEF StageMoves, ChainQueue!StageDepth

LEMMA Regroup ==
  \A s, t, u \in Seq(Word) : (s \o t) \o u = s \o (t \o u)
BY Steps!JoinedTwice

LEMMA ChainKeeps ==
  ASSUME NEW s, ChainInv(s), NEW push_req \in BOOLEAN, NEW pop_req \in BOOLEAN,
         NEW data_in \in Word, NEW n,
         n = ChainQueue!StagesEdge(s, push_req, data_in, pop_req)
  PROVE  ChainInv(n)
<1>1. n = [i \in 1 .. Stages |-> n[i]]
  BY DEF ChainQueue!StagesEdge, Stages
<1>2. ASSUME NEW i \in 1 .. Stages
      PROVE  n[i] \in Seq(Word) /\ Len(n[i]) <= ChainQueue!StageDepth
  <2>1. StageMoves(s[i], n[i], Leaving(s, pop_req, i),
                   PassedOn(s, push_req, data_in, pop_req, i - 1))
    BY StageStep
  <2> QED
    BY <2>1 DEF StageMoves
<1> QED
  BY <1>1, <1>2 DEF ChainInv

(* What the first i stages hold after the edge, with the word that left    *)
(* them in front, is what they held before it, with the word pushed last.  *)
ChainMoved(s, n, push_req, data_in, pop_req) ==
  \A i \in 0 .. Stages :
    PassedOn(s, push_req, data_in, pop_req, i) \o ChainQueue!FirstStagesHold(n)[i]
      = ChainQueue!FirstStagesHold(s)[i] \o ChainIn(s, push_req, data_in)

LEMMA ChainMoves ==
  ASSUME NEW s, ChainInv(s), NEW push_req \in BOOLEAN, NEW pop_req \in BOOLEAN,
         NEW data_in \in Word, NEW n,
         n = ChainQueue!StagesEdge(s, push_req, data_in, pop_req)
  PROVE  ChainMoved(s, n, push_req, data_in, pop_req)
<1> DEFINE f == ChainQueue!FirstStagesHold(s)
           g == ChainQueue!FirstStagesHold(n)
           l(i) == PassedOn(s, push_req, data_in, pop_req, i)
           in == ChainIn(s, push_req, data_in)
           Bad == {i \in 0 .. Stages : l(i) \o g[i] # f[i] \o in}
<1>0. Stages \in Nat
  BY SomeStages
<1>1. AreHeld(f, s, Stages) /\ AreHeld(g, n, Stages)
  BY ChainKeeps, HeldAre
<1>2. \A i \in 0 .. Stages : f[i] \in Seq(Word) /\ g[i] \in Seq(Word)
  BY ChainKeeps, HeldTypes
<1>3. l(0) = in /\ in \in Seq(Word)
  BY DEF PassedOn, ChainIn
<1>4. ASSUME NEW i \in 1 .. Stages
      PROVE  /\ l(i) \in Seq(Word) /\ l(i - 1) \in Seq(Word) /\ n[i] \in Seq(Word)
             /\ s[i] \in Seq(Word)
             /\ l(i) \o n[i] = s[i] \o l(i - 1)
  <2>1. l(i) = Leaving(s, pop_req, i)
    BY DEF PassedOn
  <2>2. /\ l(i) = <<>> \/ \E w \in Word : l(i) = <<w>>
        /\ l(i - 1) = <<>> \/ \E w \in Word : l(i - 1) = <<w>>
        /\ n[i] \in Seq(Word)
        /\ l(i) \o n[i] = s[i] \o l(i - 1)
    <3>1. StageMoves(s[i], n[i], Leaving(s, pop_req, i),
                     PassedOn(s, push_req, data_in, pop_req, i - 1))
      BY StageStep
    <3> QED
      BY <2>1, <3>1, Zenon DEF StageMoves
  <2>3. s[i] \in Seq(Word)
    BY DEF ChainInv
  <2> HIDE DEF l
  <2>4. l(i) \in Seq(Word) /\ l(i - 1) \in Seq(Word)
    BY <2>2, Steps!AtMostOne, Zenon
  <2> QED
    BY <2>2, <2>3, <2>4
<1> HIDE DEF f, g, l, in
<1>5. Bad = {}
  <2> SUFFICES ASSUME Bad # {} PROVE FALSE
    OBVIOUS
  <2>1. PICK m \in Bad : \A k \in Nat : k < m => k \notin Bad
    <3>1. Bad \subseteq Nat
      BY <1>0
    <3> HIDE DEF Bad
    <3> QED BY <3>1, Steps!LeastNumber
  <2>2. m \in 0 .. Stages /\ l(m) \o g[m] # f[m] \o in
    OBVIOUS
  <2>3. \A k \in Nat : k < m => (k \in 0 .. Stages => l(k) \o g[k] = f[k] \o in)
    BY <2>1
  <2> HIDE DEF Bad
  <2>4. m # 0
    <3>1. f[0] = <<>> /\ g[0] = <<>>
      BY <1>1 DEF AreHeld
    <3>2. in \o <<>> = in /\ <<>> \o in = in
      BY <1>3, Steps!Joined
    <3> QED BY <1>3, <2>2, <3>1, <3>2, Zenon
  <2>5. m \in 1 .. Stages /\ m - 1 \in 0 .. Stages /\ m - 1 \in Nat /\ m - 1 < m
    BY <1>0, <2>2, <2>4
  <2>6. l(m - 1) \o g[m - 1] = f[m - 1] \o in
    BY <2>3, <2>5, Zenon
  <2>7. f[m] = s[m] \o f[m - 1] /\ g[m] = n[m] \o g[m - 1]
    BY <1>1, <2>5, Zenon DEF AreHeld
  <2>8. /\ l(m) \in Seq(Word) /\ n[m] \in Seq(Word) /\ s[m] \in Seq(Word)
        /\ l(m - 1) \in Seq(Word) /\ g[m - 1] \in Seq(Word) /\ f[m - 1] \in Seq(Word)
        /\ in \in Seq(Word)
    BY <1>2, <1>3, <1>4, <2>5, Zenon
  <2>9. l(m) \o n[m] = s[m] \o l(m - 1)
    BY <1>4, <2>5, Zenon
  <2>10. l(m) \o (n[m] \o g[m - 1]) = (l(m) \o n[m]) \o g[m - 1]
    <3>1. l(m) \in Seq(Word) /\ n[m] \in Seq(Word) /\ g[m - 1] \in Seq(Word)
      BY <2>8, Zenon
    <3> QED BY <3>1, Regroup, Zenon
  <2>11. (s[m] \o l(m - 1)) \o g[m - 1] = s[m] \o (l(m - 1) \o g[m - 1])
    <3>1. s[m] \in Seq(Word) /\ l(m - 1) \in Seq(Word) /\ g[m - 1] \in Seq(Word)
      BY <2>8, Zenon
    <3> QED BY <3>1, Regroup, Zenon
  <2>12. s[m] \o (f[m - 1] \o in) = (s[m] \o f[m - 1]) \o in
    <3>1. s[m] \in Seq(Word) /\ f[m - 1] \in Seq(Word) /\ in \in Seq(Word)
      BY <2>8, Zenon
    <3> QED BY <3>1, Regroup, Zenon
  <2>13. l(m) \o g[m] = f[m] \o in
    BY <2>6, <2>7, <2>9, <2>10, <2>11, <2>12, Zenon
  <2> QED
    BY <2>2, <2>13
<1> QED
  BY <1>5 DEF ChainMoved, f, g, l, in

LEMMA InitChainInv ==
  ASSUME Kind = "chain"
  PROVE  /\ ChainInv(ChainQueue!InitStages)
         /\ ChainQueue!StagesHold(ChainQueue!InitStages) = <<>>
<1> DEFINE s == ChainQueue!InitStages
           f == ChainQueue!FirstStagesHold(s)
           Bad == {i \in 0 .. Stages : f[i] # <<>>}
<1>0. Stages \in Nat
  BY SomeStages
<1>1. s = [i \in 1 .. Stages |-> <<>>]
  BY DEF ChainQueue!InitStages, Stages
<1>2. ChainInv(s)
  BY <1>1 DEF ChainInv, ChainQueue!StageDepth
<1>3. AreHeld(f, s, Stages)
  BY <1>2, HeldAre
<1>4. ChainQueue!StagesHold(s) = f[Stages]
  BY DEF ChainQueue!StagesHold, Stages
<1> HIDE DEF f, s
<1>5. Bad = {}
  <2> SUFFICES ASSUME Bad # {} PROVE FALSE
    OBVIOUS
  <2>1. PICK m \in Bad : \A k \in Nat : k < m => k \notin Bad
    <3>1. Bad \subseteq Nat
      BY <1>0
    <3> QED BY <3>1, Steps!LeastNumber
  <2>2. m # 0
    BY <1>3 DEF AreHeld
  <2>3. m \in 1 .. Stages /\ m - 1 \in 0 .. Stages /\ m - 1 \notin Bad
    BY <1>0, <2>1, <2>2
  <2>4. f[m] = s[m] \o f[m - 1]
    BY <1>3, <2>3 DEF AreHeld
  <2>5. s[m] = <<>> /\ f[m - 1] = <<>>
    BY <1>1, <2>3
  <2>6. <<>> \o <<>> = <<>>
    OBVIOUS
  <2>7. f[m] = <<>>
    BY <2>4, <2>5, <2>6, Zenon
  <2> QED
    BY <2>7
<1>6. f[Stages] = <<>>
  BY <1>0, <1>5
<1> QED
  BY <1>2, <1>4, <1>6 DEF s

ChainOut(s, pop_req) ==
  IF pop_req /\ ChainQueue!stages_pop_ack(s)
  THEN <<ChainQueue!stages_data_out(s)>> ELSE <<>>

ChainHeld(s, n, push_req, data_in, pop_req) ==
  \E r \in Seq(Word) :
    /\ ChainQueue!StagesHold(s) = ChainOut(s, pop_req) \o r
    /\ ChainQueue!StagesHold(n) = r \o ChainIn(s, push_req, data_in)

LEMMA ChainStep ==
  ASSUME Kind = "chain",
         NEW s, ChainInv(s), NEW push_req \in BOOLEAN, NEW pop_req \in BOOLEAN,
         NEW data_in \in Word, NEW n,
         n = ChainQueue!StagesEdge(s, push_req, data_in, pop_req)
  PROVE  ChainHeld(s, n, push_req, data_in, pop_req)
<1> DEFINE f == ChainQueue!FirstStagesHold(s)
           g == ChainQueue!FirstStagesHold(n)
           in == ChainIn(s, push_req, data_in)
           out == ChainOut(s, pop_req)
           c == f[Stages]
           cn == g[Stages]
           below == f[Stages - 1]
           last == s[Stages]
<1>0. /\ Stages \in Nat /\ Stages # 0 /\ Stages \in 1 .. Stages
      /\ Stages \in 0 .. Stages /\ Stages - 1 \in 0 .. Stages
  BY SomeStages
<1>1. ChainQueue!StagesHold(s) = c /\ ChainQueue!StagesHold(n) = cn
  BY DEF ChainQueue!StagesHold, Stages
<1>2. /\ c \in Seq(Word) /\ cn \in Seq(Word) /\ below \in Seq(Word)
      /\ last \in Seq(Word) /\ in \in Seq(Word)
  <2>1. c \in Seq(Word) /\ cn \in Seq(Word) /\ below \in Seq(Word)
    BY <1>0, ChainKeeps, HeldTypes
  <2>2. last \in Seq(Word)
    BY <1>0 DEF ChainInv
  <2>3. in \in Seq(Word)
    BY DEF ChainIn
  <2> QED
    BY <2>1, <2>2, <2>3
<1>3. c = last \o below
  BY <1>0, HeldAre DEF AreHeld
<1>4. /\ out = PassedOn(s, push_req, data_in, pop_req, Stages)
      /\ out = <<>> \/ (last # <<>> /\ out = <<Head(last)>>)
  BY <1>0 DEF PassedOn, Leaving, ChainOut, ChainQueue!taken, ChainQueue!stages_pop_ack,
              ChainQueue!stage_pop_ack, ChainQueue!stages_data_out, Stages
<1>5. out \o cn = c \o in
  <2>1. PassedOn(s, push_req, data_in, pop_req, Stages) \o cn = c \o in
    <3>1. ChainMoved(s, n, push_req, data_in, pop_req)
      BY ChainMoves
    <3>2. Stages \in 0 .. Stages
      BY <1>0
    <3> QED
      BY <3>1, <3>2, Zenon DEF ChainMoved
  <2> QED
    BY <1>4, <2>1, Zenon
<1> SUFFICES \E r \in Seq(Word) : c = out \o r /\ cn = r \o in
  BY <1>1 DEF ChainHeld
<1> HIDE DEF f, g, in, out, c, cn, below, last
<1>6. CASE out = <<>>
  <2>1. <<>> \o c = c /\ <<>> \o cn = cn
    BY <1>2, Steps!Joined
  <2>2. c = out \o c /\ cn = c \o in
    BY <1>5, <1>6, <2>1, Zenon
  <2> QED
    BY <1>2, <2>2
<1>7. CASE last # <<>> /\ out = <<Head(last)>>
  <2> DEFINE h == Head(last)
             t == Tail(last)
             r == t \o below
  <2>1. h \in Word /\ t \in Seq(Word) /\ <<h>> \o t = last
    BY <1>2, <1>7, Steps!HeadAndTail, Zenon
  <2>2. out = <<h>>
    BY <1>7
  <2> HIDE DEF h, t
  <2>3. r \in Seq(Word) /\ r \o in \in Seq(Word) /\ <<h>> \in Seq(Word)
    BY <1>2, <2>1, Steps!Joined
  <2>4. (<<h>> \o t) \o below = <<h>> \o r
    <3>1. <<h>> \in Seq(Word) /\ t \in Seq(Word) /\ below \in Seq(Word)
      BY <1>2, <2>1, <2>3
    <3> QED
      BY <3>1, Regroup, Zenon
  <2> HIDE DEF r
  <2>5. c = <<h>> \o r
    BY <1>3, <2>1, <2>4, Zenon
  <2>6. (<<h>> \o r) \o in = <<h>> \o (r \o in)
    BY <1>2, <2>3, Regroup
  <2>7. <<h>> \o cn = <<h>> \o (r \o in)
    BY <1>5, <2>2, <2>5, <2>6, Zenon
  <2>8. cn = SubSeq(<<h>> \o cn, 2, Len(<<h>> \o cn))
    BY <1>2, <2>1, Steps!InFront
  <2>9. r \o in = SubSeq(<<h>> \o (r \o in), 2, Len(<<h>> \o (r \o in)))
    <3> DEFINE both == r \o in
    <3>1. both \in Seq(Word)
      BY <2>3
    <3> HIDE DEF both
    <3>2. both = SubSeq(<<h>> \o both, 2, Len(<<h>> \o both))
      BY <2>1, <3>1, Steps!InFront
    <3> QED
      BY <3>2 DEF both
  <2>10. cn = r \o in
    BY <2>7, <2>8, <2>9, Zenon
  <2> QED
    BY <2>2, <2>3, <2>5, <2>10
<1> QED
  BY <1>4, <1>6, <1>7

-----------------------------------------------------------------------------
(* The pipe: an edge of the clock for whichever queue is inside.           *)

PipeInv ==
  /\ PortsInv
  /\ IInv
  /\ Kind = "deep" => FifoInv(store)
  /\ Kind = "chain" => ChainInv(store)
  /\ Kind = "stack" => LifoInv(store)

AtMostAWord == {<<>>} \union {<<w>> : w \in Word}

LEMMA QueueStays ==
  ASSUME IInv, UNCHANGED queue, put' \in AtMostAWord, got' \in AtMostAWord
  PROVE  IInv'
BY DEF IInv, TypeOK, FlagsMatchPointers, Places, queue, AtMostAWord

(* A FIFO in which the words between the one that leaves and the one that  *)
(* comes stay makes a step of the abstract pipe.                           *)
LEMMA FifoIsAPipe ==
  ASSUME ~LifoMode, NEW r \in Seq(Word), held = got' \o r, held' = r \o put',
         got' \in AtMostAWord, put' \in AtMostAWord, Len(held') <= Capacity,
         Capacity \in Nat
  PROVE  Slots!Next
<1>1. /\ got' = <<>> \/ \E w \in Word : got' = <<w>>
      /\ put' = <<>> \/ \E w \in Word : put' = <<w>>
  BY DEF AtMostAWord
<1>2. Steps!OneStep(Word, got' \o r, r \o put', got', put')
  BY <1>1, Steps!ByOne
<1>3. Steps!OneStep(Word, held, held', got', put')
  BY <1>2, Zenon
<1>4. held \in Seq(Word)
  <2>1. got' \in Seq(Word)
    BY <1>1, Steps!AtMostOne, Zenon
  <2> QED
    BY <2>1, Steps!Joined, Zenon
<1>5. CASE got' = <<>> /\ put' = <<>> /\ held' = held
  BY <1>5 DEF Slots!Next, Slots!Idle
<1>6. ASSUME NEW w \in Word, got' = <<>>, put' = <<w>>, held' = Append(held, w)
      PROVE  Slots!Next
  <2>1. Len(Append(held, w)) = Len(held) + 1 /\ Len(held) \in Nat
    BY <1>4
  <2>2. Len(held) + 1 <= Capacity
    BY <1>6, <2>1, Zenon
  <2>3. Len(held) < Capacity
    BY <2>1, <2>2
  <2>4. Slots!Put(w)
    BY <1>6, <2>3, Zenon DEF Slots!Put
  <2> QED
    BY <2>4, Zenon DEF Slots!Next
<1>7. ASSUME held # <<>>, got' = SubSeq(held, 1, 1), put' = <<>>,
             held' = SubSeq(held, 2, Len(held))
      PROVE  Slots!Next
  <2>1. Slots!Get
    BY <1>7, Zenon DEF Slots!Get, Slots!Oldest, Slots!Rest
  <2> QED
    BY <2>1, Zenon DEF Slots!Next
<1>8. ASSUME NEW w \in Word, held # <<>>, got' = SubSeq(held, 1, 1), put' = <<w>>,
             held' = Append(SubSeq(held, 2, Len(held)), w)
      PROVE  Slots!Next
  <2>1. Slots!PutAndGet(w)
    BY <1>8, Zenon DEF Slots!PutAndGet, Slots!Oldest, Slots!Rest
  <2> QED
    BY <2>1, Zenon DEF Slots!Next
<1> QED
  BY <1>3, <1>5, <1>6, <1>7, <1>8, Zenon DEF Steps!OneStep

(* The shallow queue is proved in QueueBase_proof.  A bypass only matters  *)
(* while it is empty and somebody reads: then the word goes straight       *)
(* through, and the queue does not move.                                   *)
LEMMA ShallowStep ==
  ASSUME PortsInv, IInv, PTick, Kind = "shallow"
  PROVE  IInv' /\ Slots!Next
<1> USE QueueDepthAssumption, NotReversed
<1> DEFINE i == pipe_req
           o == pipe_req_repeated
<1>1. /\ put' = TakenIn /\ got' = HandedOut /\ pipe_data \in Word
      /\ i \in BOOLEAN /\ o \in BOOLEAN
  BY Exchange DEF pipe_req, pipe_req_repeated
<1>2. /\ fsm_state \in {"EMPTY", "INBETWEEN", "FULL"}
      /\ QueueDepth = 1 => fsm_state # "INBETWEEN"
  BY DEF IInv, TypeOK
<1>3. ~LifoMode /\ Capacity = QueueDepth /\ held = contents /\ held' = contents'
  BY OneKind DEF Capacity, held
<1>4. ShallowEdge
  BY DEF PTick, QueueEdge
<1>5. CASE ~(Bypassed /\ empty /\ o)
  <2>1. IF QueueDepth = 0 THEN UNCHANGED queue
        ELSE Clock(push(i, o), pop(i, o), pipe_data)
    <3>1. CASE Bypassed
      <4>1. (i /\ ~(empty /\ o)) = i /\ (o /\ ~empty) = o
        BY <1>1, <1>5, <3>1
      <4> QED
        BY <1>4, <3>1, <4>1
           DEF ShallowEdge, Bypassed, BypassClock, qpush_req, qpop_req, bypass_active
    <3>2. CASE ~Bypassed
      BY <1>4, <3>2 DEF ShallowEdge
    <3> QED
      BY <3>1, <3>2
  <2>2. (i /\ pipe_ack <=> push(i, o)) /\ (o /\ pipe_ack_repeated <=> pop(i, o))
    <3>1. CASE Bypassed
      <4>1. (pipe_ack <=> ~full) /\ (pipe_ack_repeated <=> IF empty THEN i ELSE ~empty)
        BY <3>1 DEF Bypassed, pipe_ack, pipe_ack_repeated, bypass_push_ack,
                    bypass_pop_ack, pop_ack
      <4>2. (push(i, o) <=> i /\ ~full) /\ (pop(i, o) <=> o /\ ~empty)
        BY <3>1 DEF Bypassed, push, pop, push_ack, pop_ack
      <4> HIDE DEF i, o
      <4> QED
        BY <1>5, <3>1, <4>1, <4>2
    <3>2. CASE ~Bypassed
      <4>1. pipe_ack = push_ack(o) /\ pipe_ack_repeated = pop_ack(i)
        BY <3>2 DEF pipe_ack, pipe_ack_repeated
      <4> QED
        BY <4>1 DEF push, pop
    <3> QED
      BY <3>1, <3>2
  <2>3. pop(i, o) => pipe_data_repeated = data_out(pipe_data)
    BY DEF pipe_data_repeated, Bypassed, bypass_data_out, pop, pop_ack
  <2>4. Tick(i, pipe_data, o)
    <3>1. put' = IF push(i, o) THEN <<pipe_data>> ELSE <<>>
      BY <1>1, <2>2, Zenon DEF TakenIn
    <3>2. got' = IF pop(i, o) THEN <<data_out(pipe_data)>> ELSE <<>>
      BY <1>1, <2>2, <2>3, Zenon DEF HandedOut
    <3> QED
      BY <2>1, <3>1, <3>2, Zenon DEF Tick
  <2>5. IInv'
    BY <1>1, <2>4, TickIInv
  <2>6. Pipe!Next
    BY <1>1, <2>4, <2>5, TickRefines
  <2>7. Slots!Next
    BY <1>3, <2>6, Zenon
       DEF Pipe!Next, Pipe!Idle, Pipe!Put, Pipe!Get, Pipe!PutAndGet, Pipe!PassThrough,
           Pipe!Oldest, Pipe!Newest, Pipe!Rest,
           Slots!Next, Slots!Idle, Slots!Put, Slots!Get, Slots!PutAndGet, Slots!PassThrough,
           Slots!Oldest, Slots!Newest, Slots!Rest
  <2> QED
    BY <2>5, <2>7
<1>6. CASE Bypassed /\ empty /\ o
  <2>1. Clock(FALSE, FALSE, pipe_data)
    <3>1. /\ push(i /\ ~(empty /\ o), o /\ ~empty) = FALSE
          /\ pop(i /\ ~(empty /\ o), o /\ ~empty) = FALSE
      BY <1>6 DEF push, pop
    <3> QED
      BY <1>4, <1>6, <3>1 DEF ShallowEdge, BypassClock, qpush_req, qpop_req, bypass_active
  <2>2. UNCHANGED queue
    <3>1. fsm_state' = fsm_state
      BY <1>2, <1>6, <2>1 DEF Bypassed, Clock, next_full_flag, next_fsm_state, empty
    <3> QED
      BY <2>1, <3>1 DEF Clock, queue
  <2>3. contents = <<>> /\ contents' = contents
    <3>1. Held = 0 /\ Held' = Held
      BY <1>6, <2>2 DEF Held, empty, queue
    <3>2. contents = <<>>
      BY <3>1 DEF contents
    <3>3. contents' = <<>>
      BY <3>1 DEF contents
    <3> QED
      BY <3>2, <3>3
  <2>4. /\ put' = IF i THEN <<pipe_data>> ELSE <<>>
        /\ got' = IF i THEN <<pipe_data>> ELSE <<>>
    <3>1. pipe_ack /\ pipe_ack_repeated = i /\ pipe_data_repeated = pipe_data
      BY <1>6 DEF Bypassed, pipe_ack, pipe_ack_repeated, pipe_data_repeated,
                  bypass_push_ack, bypass_pop_ack, bypass_data_out, full, empty
    <3> QED
      BY <1>1, <1>6, <3>1 DEF TakenIn, HandedOut
  <2>5. IInv'
    BY <1>1, <2>2, <2>4, QueueStays DEF AtMostAWord
  <2>6. Slots!Next
    <3>1. held = <<>> /\ held' = held
      BY <1>3, <2>3, Zenon
    <3>2. CASE i
      <4>1. Slots!PassThrough(pipe_data)
        BY <2>4, <3>1, <3>2 DEF Slots!PassThrough
      <4> QED
        BY <1>1, <4>1 DEF Slots!Next
    <3>3. CASE ~i
      BY <2>4, <3>1, <3>3 DEF Slots!Next, Slots!Idle
    <3> QED
      BY <3>2, <3>3
  <2> QED
    BY <2>5, <2>6
<1> QED
  BY <1>5, <1>6

LEMMA DeepStep ==
  ASSUME PortsInv, IInv, PTick, Kind = "deep", FifoInv(store)
  PROVE  IInv' /\ FifoInv(store') /\ Slots!Next
<1> USE QueueDepthAssumption
<1> DEFINE in == FifoIn(store, pipe_req, pipe_data)
           out == FifoOut(store, pipe_req_repeated)
<1>1. /\ pipe_data \in Word /\ pipe_req \in BOOLEAN /\ pipe_req_repeated \in BOOLEAN
      /\ put' = in /\ got' = out
  BY Exchange DEF pipe_req, pipe_req_repeated, TakenIn, HandedOut, FifoIn, FifoOut,
                  pipe_ack, pipe_ack_repeated, pipe_data_repeated
<1>2. /\ ~LifoMode /\ Capacity = QueueDepth + 1
      /\ held = DeepQueue!FifoHolds(store) /\ held' = DeepQueue!FifoHolds(store')
  BY OneKind DEF Capacity, held
<1>3. /\ store' = DeepQueue!FifoEdge(store, pipe_req, pipe_data, pipe_req_repeated)
      /\ UNCHANGED queue
  BY DEF PTick, QueueEdge
<1>4. /\ FifoInv(store')
      /\ FifoMoved(store, store', pipe_req, pipe_data, pipe_req_repeated)
  BY <1>1, <1>3, FifoStep
<1>5. put' \in AtMostAWord /\ got' \in AtMostAWord
  <2>1. DeepQueue!fifo_data_out(store) \in Word
    BY FifoType
  <2> QED
    BY <1>1, <2>1 DEF AtMostAWord, FifoIn, FifoOut
<1>6. IInv'
  BY <1>3, <1>5, QueueStays
<1>7. Len(held') <= Capacity /\ Capacity \in Nat
  BY <1>2, <1>4, FifoType
<1>8. PICK s \in Seq(Word) : held = got' \o s /\ held' = s \o put'
  BY <1>1, <1>2, <1>4, Zenon DEF FifoMoved
<1>9. Slots!Next
  BY <1>2, <1>5, <1>7, <1>8, FifoIsAPipe, Zenon
<1> QED
  BY <1>4, <1>6, <1>9

LEMMA ChainPipeStep ==
  ASSUME PortsInv, IInv, PTick, Kind = "chain", ChainInv(store)
  PROVE  IInv' /\ ChainInv(store') /\ Slots!Next
<1> DEFINE in == ChainIn(store, pipe_req, pipe_data)
           out == ChainOut(store, pipe_req_repeated)
<1>1. /\ pipe_data \in Word /\ pipe_req \in BOOLEAN /\ pipe_req_repeated \in BOOLEAN
      /\ put' = in /\ got' = out
  BY Exchange DEF pipe_req, pipe_req_repeated, TakenIn, HandedOut, ChainIn, ChainOut,
                  pipe_ack, pipe_ack_repeated, pipe_data_repeated
<1>2. /\ ~LifoMode /\ Capacity = 2 * Stages
      /\ held = ChainQueue!StagesHold(store) /\ held' = ChainQueue!StagesHold(store')
  BY OneKind DEF Capacity, held, Stages
<1>3. /\ store' = ChainQueue!StagesEdge(store, pipe_req, pipe_data, pipe_req_repeated)
      /\ UNCHANGED queue
  BY DEF PTick, QueueEdge
<1>4. /\ ChainInv(store')
      /\ ChainHeld(store, store', pipe_req, pipe_data, pipe_req_repeated)
  BY <1>1, <1>3, ChainKeeps, ChainStep
<1>5. put' \in AtMostAWord /\ got' \in AtMostAWord
  <2>1. ChainQueue!stages_pop_ack(store) => ChainQueue!stages_data_out(store) \in Word
    <3>1. store[Stages] \in Seq(Word)
      BY SomeStages DEF ChainInv
    <3> QED
      BY <3>1 DEF ChainQueue!stages_pop_ack, ChainQueue!stages_data_out,
                  ChainQueue!stage_pop_ack, Stages
  <2> QED
    BY <1>1, <2>1 DEF AtMostAWord, ChainIn, ChainOut
<1>6. IInv'
  BY <1>3, <1>5, QueueStays
<1>7. Len(held') <= Capacity /\ Capacity \in Nat
  <2>1. Stages \in Nat /\ Stages \in 0 .. Stages
    BY SomeStages
  <2>2. Len(ChainQueue!FirstStagesHold(store')[Stages]) <= 2 * Stages
    BY <1>4, <2>1, HeldTypes
  <2> QED
    BY <1>2, <2>1, <2>2 DEF ChainQueue!StagesHold, Stages
<1>8. PICK r \in Seq(Word) : held = got' \o r /\ held' = r \o put'
  BY <1>1, <1>2, <1>4, Zenon DEF ChainHeld
<1>9. Slots!Next
  BY <1>2, <1>5, <1>7, <1>8, FifoIsAPipe, Zenon
<1> QED
  BY <1>4, <1>6, <1>9

LEMMA StackStep ==
  ASSUME Alternating, PortsInv, IInv, PTick, Kind = "stack", LifoInv(store)
  PROVE  IInv' /\ LifoInv(store') /\ Slots!Next
<1> USE QueueDepthAssumption
<1> DEFINE i == pipe_req
           o == pipe_req_repeated
<1>1. /\ pipe_data \in Word /\ i \in BOOLEAN /\ o \in BOOLEAN /\ ~(i /\ o)
      /\ put' = IF i /\ StackQueue!lifo_push_ack(store) THEN <<pipe_data>> ELSE <<>>
      /\ got' = IF o /\ StackQueue!lifo_pop_ack(store)
                THEN <<StackQueue!lifo_data_out(store)>> ELSE <<>>
  BY Exchange DEF pipe_req, pipe_req_repeated, TakenIn, HandedOut,
                  pipe_ack, pipe_ack_repeated, pipe_data_repeated
<1>2. /\ LifoMode /\ Capacity = QueueDepth
      /\ held = StackQueue!LifoHolds(store) /\ held' = StackQueue!LifoHolds(store')
  BY OneKind DEF Capacity, held
<1>3. /\ store' = StackQueue!LifoEdge(store, i, pipe_data, o)
      /\ UNCHANGED queue
  BY DEF PTick, QueueEdge
<1>4. /\ LifoInv(store')
      /\ \/ /\ i /\ StackQueue!lifo_push_ack(store) /\ held' = Append(held, pipe_data)
         \/ /\ o /\ StackQueue!lifo_pop_ack(store) /\ held # <<>>
            /\ <<StackQueue!lifo_data_out(store)>> = SubSeq(held, Len(held), Len(held))
            /\ held' = SubSeq(held, 1, Len(held) - 1)
         \/ /\ ~(i /\ StackQueue!lifo_push_ack(store))
            /\ ~(o /\ StackQueue!lifo_pop_ack(store)) /\ held' = held
  <2> HIDE DEF i, o
  <2> QED
    BY <1>1, <1>2, <1>3, LifoStep
<1>5. put' \in AtMostAWord /\ got' \in AtMostAWord
  <2>1. StackQueue!lifo_data_out(store) \in Word
    BY DEF StackQueue!lifo_data_out, LifoInv, LifoStates
  <2> QED
    BY <1>1, <2>1 DEF AtMostAWord
<1>6. IInv'
  BY <1>3, <1>5, QueueStays
<1> HIDE DEF i, o
<1>7. CASE i /\ StackQueue!lifo_push_ack(store) /\ held' = Append(held, pipe_data)
  <2>1. put' = <<pipe_data>> /\ got' = <<>>
    BY <1>1, <1>7
  <2>2. Len(held) < Capacity
    <3>1. Len(held) = store.queue_size
      BY <1>2, LifoHoldsType
    <3> QED
      BY <1>2, <1>7, <3>1 DEF StackQueue!lifo_push_ack
  <2>3. Slots!Put(pipe_data)
    BY <1>7, <2>1, <2>2, Zenon DEF Slots!Put
  <2> QED
    BY <1>1, <1>4, <1>6, <2>3, Zenon DEF Slots!Next
<1>8. CASE /\ o /\ StackQueue!lifo_pop_ack(store) /\ held # <<>>
           /\ <<StackQueue!lifo_data_out(store)>> = SubSeq(held, Len(held), Len(held))
           /\ held' = SubSeq(held, 1, Len(held) - 1)
  <2>1. put' = <<>> /\ got' = SubSeq(held, Len(held), Len(held))
    BY <1>1, <1>8
  <2>2. Slots!Get
    BY <1>2, <1>8, <2>1, Zenon DEF Slots!Get, Slots!Newest, Slots!Rest
  <2> QED
    BY <1>4, <1>6, <2>2, Zenon DEF Slots!Next
<1>9. CASE /\ ~(i /\ StackQueue!lifo_push_ack(store))
           /\ ~(o /\ StackQueue!lifo_pop_ack(store)) /\ held' = held
  <2>1. put' = <<>> /\ got' = <<>>
    BY <1>1, <1>9
  <2> QED
    BY <1>4, <1>6, <1>9, <2>1, Zenon DEF Slots!Next, Slots!Idle
<1> QED
  BY <1>4, <1>7, <1>8, <1>9

LEMMA PInitPipe == PInit => PipeInv /\ Slots!Init
<1> SUFFICES ASSUME PInit PROVE PipeInv /\ Slots!Init
  OBVIOUS
<1>1. PortsInv /\ IInv
  BY PInitPorts, InitIInv DEF PInit
<1>2. /\ Kind = "deep" => store = DeepQueue!InitFifo
      /\ Kind = "chain" => store = ChainQueue!InitStages
      /\ Kind = "stack" => store = StackQueue!InitLifo
  BY DEF PInit
<1>3. PipeInv
  BY <1>1, <1>2, InitFifoInv, InitChainInv, InitLifoInv DEF PipeInv
<1>4. held = <<>>
  <2>1. contents = <<>>
    BY DEF PInit, Init, contents, Held
  <2> QED
    BY <1>2, <2>1, OneKind, InitFifoInv, InitChainInv, InitLifoInv DEF held
<1>5. put = <<>> /\ got = <<>>
  BY DEF PInit, Init
<1> QED
  BY <1>3, <1>4, <1>5 DEF Slots!Init

LEMMA PTickPipe ==
  ASSUME LifoMode => Alternating, PipeInv, PTick
  PROVE  PipeInv' /\ Slots!Next
<1>1. PortsInv' /\ Kind' = Kind
  BY PTickPorts DEF PipeInv, Kind
<1>2. CASE Kind = "shallow"
  BY <1>1, <1>2, ShallowStep DEF PipeInv
<1>3. CASE Kind = "deep"
  BY <1>1, <1>3, DeepStep DEF PipeInv
<1>4. CASE Kind = "chain"
  BY <1>1, <1>4, ChainPipeStep DEF PipeInv
<1>5. CASE Kind = "stack"
  BY <1>1, <1>5, OneKind, StackStep DEF PipeInv
<1> QED
  BY <1>2, <1>3, <1>4, <1>5, OneKind

LEMMA PStutter == PipeInv /\ UNCHANGED pvars => PipeInv' /\ UNCHANGED <<held, put, got>>
<1> SUFFICES ASSUME PipeInv, UNCHANGED pvars
             PROVE  PipeInv' /\ UNCHANGED <<held, put, got>>
  OBVIOUS
<1>1. /\ UNCHANGED vars /\ UNCHANGED <<put, got>> /\ store' = store
      /\ UNCHANGED <<write_req, write_data, reqIn_register, read_req>>
  BY DEF pvars, vars
<1>2. PortsInv' /\ IInv'
  BY <1>1, StutterIInv DEF PipeInv, PortsInv
<1>3. held' = held
  BY <1>1 DEF held, contents, Held, Distance, Slot, vars, queue
<1> QED
  BY <1>1, <1>2, <1>3 DEF PipeInv

(* The words in the queue are words, and what the writers' arbiter         *)
(* remembers is still requested, for every pipe (PipeBase.vhd:124-305).    *)
THEOREM PipeTyping ==
  ASSUME LifoMode => Alternating
  PROVE  PSpec => []PTypeOK
<1>1. PipeInv /\ [PTick]_pvars => PipeInv'
  BY PTickPipe, PStutter
<1>2. PipeInv => PTypeOK
  BY DEF PipeInv, PortsInv, IInv, PTypeOK
<1> QED
  BY PInitPipe, <1>1, <1>2, PTL DEF PSpec

(* Every pipe of the generated hardware is a pipe to its ports (Pipe-      *)
(* Base.vhd:124-305), a FIFO or a stack, for every depth, any numbers of   *)
(* writers and readers, and every queue that the generics choose.  A stack *)
(* must not be read while it is written: Replace in SynchLifo loses words. *)
THEOREM PipesArePipes ==
  ASSUME LifoMode => Alternating
  PROVE  PSpec => PortsSeeAPipe
<1>1. PipeInv /\ [PTick]_pvars => PipeInv'
  BY PTickPipe, PStutter
<1>2. PipeInv /\ [PTick]_pvars => [PipeStep]_pvars
  BY PTickPipe, PStutter DEF PipeStep
<1> QED
  BY PInitPipe, <1>1, <1>2, PTL DEF PSpec, PortsSeeAPipe

(* A word that is handed out was in the pipe before the edge.              *)
LEMMA HandedOutWasHeld ==
  ASSUME QueueDepth > 0, ~Bypass, PipeInv, PTick, got' # <<>>
  PROVE  held # <<>>
<1> USE QueueDepthAssumption
<1>1. pipe_req_repeated /\ pipe_ack_repeated
  BY Exchange DEF PipeInv, HandedOut
<1>2. CASE Kind = "shallow"
  <2>1. fsm_state # "EMPTY"
    BY <1>1, <1>2 DEF pipe_ack_repeated, Bypassed, pop_ack, empty
  <2>2. Held > 0
    <3>1. /\ fsm_state \in {"EMPTY", "INBETWEEN", "FULL"}
          /\ read_pointer \in Places /\ write_pointer \in Places
          /\ fsm_state = "INBETWEEN" => read_pointer # write_pointer
      BY DEF PipeInv, IInv, TypeOK, FlagsMatchPointers
    <3> QED
      BY <2>1, <3>1 DEF Held, Distance, Places
  <2>3. contents \in Seq(Word) /\ Len(contents) > 0
    BY <2>2, ContentsType DEF PipeInv, ContentsFacts
  <2> QED
    BY <1>2, <2>3 DEF held
<1>3. CASE Kind = "deep"
  <2> DEFINE a == DeepQueue!AtOutput(store)
             m == DeepQueue!InMemory(store)
  <2>1. FifoInv(store) /\ held = a \o m
    BY <1>3 DEF PipeInv, held, DeepQueue!FifoHolds
  <2>2. /\ a = <<DeepQueue!fifo_data_out(store)>>
        /\ DeepQueue!fifo_data_out(store) \in Word /\ m \in Seq(Word)
    BY <1>1, <1>3, <2>1, FifoType
       DEF pipe_ack_repeated, DeepQueue!fifo_pop_ack, DeepQueue!AtOutput
  <2> HIDE DEF a, m
  <2> QED
    BY <2>1, <2>2, Steps!InFront
<1>4. CASE Kind = "chain"
  <2> DEFINE last == store[Stages]
             below == ChainQueue!FirstStagesHold(store)[Stages - 1]
  <2>0. Stages \in 1 .. Stages /\ Stages - 1 \in 0 .. Stages
    BY <1>4, SomeStages
  <2>1. ChainInv(store)
    BY <1>4 DEF PipeInv
  <2>2. held = last \o below
    <3>1. held = ChainQueue!FirstStagesHold(store)[Stages]
      BY <1>4 DEF held, ChainQueue!StagesHold, Stages
    <3>2. AreHeld(ChainQueue!FirstStagesHold(store), store, Stages)
      BY <2>1, HeldAre
    <3> QED
      BY <2>0, <3>1, <3>2, Zenon DEF AreHeld
  <2>3. last \in Seq(Word) /\ last # <<>>
    BY <1>1, <1>4, <2>0, <2>1 DEF ChainInv, pipe_ack_repeated, ChainQueue!stages_pop_ack,
                                  ChainQueue!stage_pop_ack, Stages
  <2>4. below \in Seq(Word)
    BY <2>0, <2>1, HeldTypes
  <2> HIDE DEF last, below
  <2>5. Len(last \o below) = Len(last) + Len(below) /\ Len(last) > 0
    BY <2>3, <2>4
  <2>6. Len(held) > 0
    <3>1. Len(held) = Len(last) + Len(below)
      BY <2>2, <2>5, Zenon
    <3> QED
      BY <2>4, <2>5, <3>1
  <2> QED
    BY <2>6
<1>5. CASE Kind = "stack"
  <2>1. LifoInv(store) /\ store.queue_size > 0
    BY <1>1, <1>5 DEF PipeInv, pipe_ack_repeated, StackQueue!lifo_pop_ack
  <2>2. held \in Seq(Word) /\ Len(held) = store.queue_size
    BY <1>5, <2>1, LifoHoldsType DEF held
  <2> QED
    BY <2>1, <2>2
<1> QED
  BY <1>2, <1>3, <1>4, <1>5, OneKind

(* A pipe with places and without bypass registers every path from a       *)
(* writer to a reader: no word is handed out in the cycle in which it is   *)
(* taken in (PipeBase.vhd:45).                                             *)
THEOREM EveryPathIsRegistered ==
  ASSUME LifoMode => Alternating, QueueDepth > 0, ~Bypass
  PROVE  PSpec => [][Registered]_pvars
<1>1. PipeInv /\ [PTick]_pvars => PipeInv'
  BY PTickPipe, PStutter
<1>2. PipeInv /\ [PTick]_pvars => [Registered]_pvars
  BY HandedOutWasHeld DEF Registered
<1> QED
  BY PInitPipe, <1>1, <1>2, PTL DEF PSpec
=============================================================================
