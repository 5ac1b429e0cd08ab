------------------------ MODULE SharedModules_proof ------------------------
(***************************************************************************)
(* Proofs about what several parts of a program share.  The arbiter lets   *)
(* nobody wait for ever, for any number of requesters; and to each of its  *)
(* users a shared operator, or a shared module, is one of its own, for any *)
(* number of users and any buffering.                                      *)
(***************************************************************************)
EXTENDS NobodyLeftBehind, SplitOperatorShared, SplitCallArbiter, PipeSteps

----------------------------------------------------------------------------
(* The fair arbiter.                                                       *)

(* Once the victim is in the current round, whoever is still in that round *)
(* has overtaken it at most once, namely in the round before; until then,  *)
(* whoever is still in the round under way has not overtaken it at all.    *)
RoundsBound ==
  IF victim \in reqIn_register
  THEN \A j \in Requesters : /\ overtaken[j] <= 2
                             /\ j \in reqIn_register => overtaken[j] <= 1
  ELSE \A j \in Requesters : /\ overtaken[j] <= 1
                             /\ j \in reqIn_register => overtaken[j] = 0

ArbiterInv ==
  /\ TypeOK
  /\ RegisterIsRequested
  /\ RoundsBound
  /\ NumReqs = 1 => reqIn_register = {}

LEMMA InitArbiterInv == Init => ArbiterInv
BY NumReqsAssumption
   DEF Init, ArbiterInv, TypeOK, RegisterIsRequested, RoundsBound, NobodyYet, Requesters

(* The priority encoder picks among the requests it is given, and only the *)
(* requests of the current round are given to it.                          *)
LEMMA AckedIsRequested ==
  ASSUME ArbiterInv, NEW oack \in BOOLEAN
  PROVE  /\ Acked(reqIn, reqIn_register, oack) \subseteq reqIn
         /\ reqIn_register # {} =>
              Acked(reqIn, reqIn_register, oack) \subseteq reqIn_register
BY DEF ArbiterInv, RegisterIsRequested, Acked, Active, PriorityEncode, reqOut

LEMMA TickArbiterInv ==
  ASSUME ArbiterInv, NEW oack \in BOOLEAN, Tick(oack)
  PROVE  ArbiterInv'
<1> DEFINE acks == Acked(reqIn, reqIn_register, oack)
<1>1. /\ acks \subseteq reqIn
      /\ reqIn_register # {} => acks \subseteq reqIn_register
  BY AckedIsRequested
<1>2. /\ reqIn' \subseteq Requesters
      /\ reqIn \ acks \subseteq reqIn'
      /\ reqIn_register' = next_reqIn_register(NumReqs, reqIn, reqIn_register, acks)
      /\ overtaken' = IF victim \in reqIn /\ victim \notin acks
                      THEN [j \in Requesters |->
                              overtaken[j] + (IF j \in acks THEN 1 ELSE 0)]
                      ELSE NobodyYet
      /\ victim' = victim
  BY DEF Tick, NextRequests
<1> HIDE DEF acks
<1>3. TypeOK'
  BY <1>2 DEF ArbiterInv, TypeOK, NobodyYet, next_reqIn_register, reqOut
<1>4. reqIn_register' \subseteq reqIn \ acks \/ NumReqs = 1
  BY <1>1, <1>2 DEF ArbiterInv, RegisterIsRequested, next_reqIn_register, reqOut
<1>5. NumReqs = 1 => reqIn_register' = {}
  BY <1>2 DEF ArbiterInv, next_reqIn_register
<1>6. RegisterIsRequested'
  BY <1>2, <1>4, <1>5 DEF RegisterIsRequested
<1>7. RoundsBound'
  <2>1. CASE victim \notin reqIn \/ victim \in acks
    BY <1>2, <2>1 DEF RoundsBound, NobodyYet
  <2>2. CASE NumReqs = 1
    <3>1. CASE victim \in reqIn /\ victim \notin acks
      <4>1. acks = {}
        <5>1. Requesters = {0}
          BY <2>2 DEF Requesters
        <5> QED
          BY <1>1, <3>1, <5>1 DEF ArbiterInv, TypeOK
      <4> QED
        BY <1>2, <1>5, <2>2, <3>1, <4>1 DEF ArbiterInv, TypeOK, RoundsBound
    <3> QED
      BY <2>1, <3>1
  <2>3. CASE NumReqs # 1 /\ victim \in reqIn /\ victim \notin acks
    <3>1. overtaken' = [j \in Requesters |->
                          overtaken[j] + (IF j \in acks THEN 1 ELSE 0)]
      BY <1>2, <2>3
    <3>2. overtaken \in [Requesters -> Nat]
      BY DEF ArbiterInv, TypeOK
    <3>3. CASE reqIn_register = {}
      <4>1. reqIn_register' = reqIn \ acks
        BY <1>2, <2>3, <3>3 DEF next_reqIn_register, reqOut
      <4>2. victim \in reqIn_register'
        BY <2>3, <4>1
      <4>3. \A j \in Requesters : overtaken[j] <= 1
        BY <3>3 DEF ArbiterInv, RoundsBound
      <4> QED
        BY <1>2, <3>1, <3>2, <4>1, <4>2, <4>3 DEF RoundsBound
    <3>4. CASE reqIn_register # {}
      <4>1. reqIn_register' = reqIn_register \ acks
        BY <1>2, <2>3, <3>4 DEF next_reqIn_register, reqOut
      <4>2. victim \in reqIn_register' <=> victim \in reqIn_register
        BY <2>3, <4>1
      <4> QED
        BY <1>1, <1>2, <3>1, <3>2, <3>4, <4>1, <4>2 DEF ArbiterInv, RoundsBound
    <3> QED
      BY <3>3, <3>4
  <2> QED
    BY <2>1, <2>2, <2>3
<1> QED
  BY <1>3, <1>5, <1>6, <1>7 DEF ArbiterInv

THEOREM ArbiterInvariance == Spec => []ArbiterInv
<1>1. ArbiterInv /\ UNCHANGED vars => ArbiterInv'
  BY DEF ArbiterInv, TypeOK, RegisterIsRequested, RoundsBound, vars
<1>2. ArbiterInv /\ [Next]_vars => ArbiterInv'
  BY <1>1, TickArbiterInv DEF Next
<1> QED
  BY InitArbiterInv, <1>2, PTL DEF Spec

(* Nobody is left behind: for any number of requesters, nobody is served   *)
(* more than twice while another requester waits                           *)
(* (NobodyLeftBehind.vhd:84-108).                                          *)
THEOREM Fairness == Spec => []BoundedOvertaking
<1>1. ArbiterInv => BoundedOvertaking
  BY DEF ArbiterInv, TypeOK, RoundsBound, BoundedOvertaking
<1> QED
  BY ArbiterInvariance, <1>1, PTL

(* No requester is acknowledged for a request it does not make.            *)
THEOREM OnlyRequestsAreServed == Spec => []RegisterIsRequested
<1>1. ArbiterInv => RegisterIsRequested
  BY DEF ArbiterInv
<1> QED
  BY ArbiterInvariance, <1>1, PTL

----------------------------------------------------------------------------
(* The shared operator.                                                    *)

(* A pulse that has not been acknowledged is in the place of the access    *)
(* regulator or in the ReceiveBuffer, and its operands are held.           *)
PulsesAreHeld ==
  \A i \in Ops :
    /\ req_place[i] \in {0, 1} /\ rx_state[i] \in {"idle", "busy"}
    /\ i \in given => /\ i \notin req
                      /\ req_place[i] = 1 <=> rx_state[i] = "idle"
    /\ i \notin given => req_place[i] = 0 /\ rx_state[i] = "idle"
    /\ i \in given \union req => \E w \in Operands[i] : dataL[i] = <<w>>

(* What the buffers hold are words of their operation, and no more of them *)
(* than there is room for.                                                 *)
BuffersFit ==
  \A i \in Ops :
    /\ rx_queue[i] \in Seq(Operands[i]) /\ Len(rx_queue[i]) <= input_buffering[i]
    /\ ub_queue[i] \in Seq(Operands[i]) /\ Len(ub_queue[i]) <= ub_depth(i)
    /\ dataR[i] = <<>> \/ \E w \in Operands[i] : dataR[i] = <<w>>

OpInv ==
  /\ req \subseteq Ops
  /\ PulsesAreHeld
  /\ BuffersFit
  /\ fair_register \subseteq reqFromRx

LEMMA InitOpInv == OpInit => OpInv
BY OperationsAssumption, BufferingAssumption
   DEF OpInit, OpInv, PulsesAreHeld, BuffersFit, NoWords, reqFromRx, ub_depth, Ops

LEMMA StutterOpInv == OpInv /\ UNCHANGED op_vars => OpInv'
BY DEF OpInv, op_vars, PulsesAreHeld, BuffersFit, reqFromRx, ub_depth

(* The operator serves one operation that waits, and its result is taken.  *)
LEMMA ServedWait ==
  ASSUME OpInv
  PROVE  /\ ackToRx \subseteq reqFromRx /\ reqFromRx \subseteq Ops
         /\ \A i \in ackToRx : ub_write_ack(i)
BY DEF OpInv, ackToRx, reqP, PriorityEncode, reqOut, reqFromRx

(* Operands that are acknowledged are those of a pulse.                    *)
LEMMA PulsesStayHeld ==
  ASSUME OpInv, OpTick
  PROVE  /\ PulsesAreHeld'
         /\ \A i \in ackL : i \in given \union req
<1>1. ASSUME NEW i \in Ops
      PROVE  /\ i \in ackL => i \in given \union req
             /\ req_place'[i] \in {0, 1} /\ rx_state'[i] \in {"idle", "busy"}
             /\ i \in given' => /\ i \notin req'
                                /\ req_place'[i] = 1 <=> rx_state'[i] = "idle"
             /\ i \notin given' => req_place'[i] = 0 /\ rx_state'[i] = "idle"
  <2> DEFINE in == i \in req
             out == i \in reqL
             acked == i \in ackL
             token == req_place[i] = 1
             busy == rx_state[i] = "busy"
  <2>1. /\ req_place[i] \in {0, 1} /\ rx_state[i] \in {"idle", "busy"}
        /\ i \in given => ~in /\ (token <=> ~busy)
        /\ i \notin given => ~token /\ ~busy
    BY DEF OpInv, PulsesAreHeld
  <2>2. req_place'[i] = IF in /\ ~out THEN 1 ELSE IF out /\ ~in THEN 0 ELSE req_place[i]
    BY DEF OpTick, AccessRegulators, place_with_bypass, flag_with_bypass
  <2>3. out => in \/ token
    BY <2>1 DEF reqL, req_place_token, bypass_token
  <2>4. acked => out \/ busy
    BY DEF ackL, rx_push_req
  <2>5. rx_state'[i] = IF (out \/ busy) /\ ~acked THEN "busy" ELSE "idle"
    BY DEF OpTick, ReceiveBuffers, rx_push_req
  <2>6. /\ i \in given' <=> (i \in given \/ in) /\ ~acked
        /\ i \in req' => i \notin given'
    BY DEF OpTick, Operations
  <2> HIDE DEF in, out, acked
  <2>7. acked => i \in given \union req
    BY <2>1, <2>3, <2>4 DEF in
  <2> QED
    BY <2>1, <2>2, <2>3, <2>4, <2>5, <2>6, <2>7 DEF in, acked
<1>2. ASSUME NEW i \in Ops, i \in given' \union req'
      PROVE  \E w \in Operands[i] : dataL'[i] = <<w>>
  <2>1. IF i \in given' THEN dataL'[i] = dataL[i] ELSE dataL'[i] \in {<<w>> : w \in Operands[i]}
    BY <1>2 DEF OpTick, Operations
  <2>2. i \in given' => i \in given \union req
    BY DEF OpTick, Operations
  <2> QED
    BY <2>1, <2>2 DEF OpInv, PulsesAreHeld
<1>3. ackL \subseteq Ops
  BY DEF ackL
<1> QED
  BY <1>1, <1>2, <1>3 DEF PulsesAreHeld

(* The result that operation i gets from the operator, what stays in its   *)
(* ReceiveBuffer, and the operands it puts there.                          *)
Served(i) == IF i \in ackToRx THEN <<result(i)>> ELSE <<>>
Staying(i) == IF i \in ackToRx THEN Tail(rx_queue[i]) ELSE rx_queue[i]
Arriving(i) == IF i \in ackL THEN dataL[i] ELSE <<>>

LEMMA ReceiveBufferStep ==
  ASSUME OpInv, OpTick, NEW i \in Ops
  PROVE  /\ Served(i) \in Seq(Operands[i]) /\ Staying(i) \in Seq(Operands[i])
         /\ Arriving(i) \in Seq(Operands[i])
         /\ Arriving(i) = <<>> \/ \E w \in Operands[i] : Arriving(i) = <<w>>
         /\ rx_queue[i] = Served(i) \o Staying(i)
         /\ rx_queue'[i] = Staying(i) \o Arriving(i)
         /\ Len(rx_queue'[i]) <= input_buffering[i]
         /\ Served(i) # <<>> => ub_write_ack(i)
<1>1. rx_queue[i] \in Seq(Operands[i]) /\ Len(rx_queue[i]) <= input_buffering[i]
  BY DEF OpInv, BuffersFit
<1>2. i \in ackToRx => rx_queue[i] # <<>> /\ ub_write_ack(i)
  BY ServedWait DEF reqFromRx
<1>3. /\ Served(i) \in Seq(Operands[i]) /\ Staying(i) \in Seq(Operands[i])
      /\ rx_queue[i] = Served(i) \o Staying(i)
      /\ Len(Staying(i)) = IF i \in ackToRx THEN Len(rx_queue[i]) - 1 ELSE Len(rx_queue[i])
  <2> DEFINE W == Operands[i]
             q == rx_queue[i]
  <2>0. q \in Seq(W) /\ <<>> \in Seq(W)
    BY <1>1
  <2>1. CASE i \in ackToRx
    <3>1. Served(i) = <<Head(q)>> /\ Staying(i) = Tail(q) /\ q # <<>>
      BY <1>2, <2>1 DEF Served, Staying, result
    <3> HIDE DEF W, q
    <3>2. /\ Head(q) \in W /\ Tail(q) \in Seq(W) /\ Len(Tail(q)) = Len(q) - 1
          /\ <<Head(q)>> \o Tail(q) = q
      BY <2>0, <3>1, HeadAndTail
    <3>3. <<Head(q)>> \in Seq(W)
      BY <3>2
    <3> QED
      BY <2>1, <3>1, <3>2, <3>3 DEF W, q
  <2>2. CASE i \notin ackToRx
    <3>1. Served(i) = <<>> /\ Staying(i) = q
      BY <2>2 DEF Served, Staying
    <3> HIDE DEF W, q
    <3>2. <<>> \o q = q
      BY <2>0, Joined
    <3> QED
      BY <2>0, <2>2, <3>1, <3>2 DEF W, q
  <2> QED
    BY <2>1, <2>2
<1>4. /\ Arriving(i) = <<>> \/ \E w \in Operands[i] : Arriving(i) = <<w>>
      /\ i \notin ackL => Arriving(i) = <<>>
  BY PulsesStayHeld DEF Arriving, OpInv, PulsesAreHeld
<1>5. /\ Arriving(i) \in Seq(Operands[i])
      /\ Len(Arriving(i)) = IF Arriving(i) = <<>> THEN 0 ELSE 1
  BY <1>4, AtMostOne
<1>6. rx_queue'[i] = Staying(i) \o Arriving(i)
  BY DEF OpTick, ReceiveBuffers, Staying, Arriving
<1>7. i \in ackL => \/ Len(rx_queue[i]) < input_buffering[i]
                    \/ input_buffering[i] = 1 /\ i \in ackToRx
  BY DEF ackL, rx_push_ack
<1>8. Len(rx_queue'[i]) = Len(Staying(i)) + Len(Arriving(i))
  <2> DEFINE W == Operands[i]
  <2>1. Staying(i) \in Seq(W) /\ Arriving(i) \in Seq(W)
    BY <1>3, <1>5
  <2> HIDE DEF W
  <2> QED
    BY <1>6, <2>1, Joined
<1>9. input_buffering[i] \in Nat /\ Len(rx_queue[i]) \in Nat
  BY <1>1, BufferingAssumption
<1>10. Len(rx_queue'[i]) <= input_buffering[i]
  <2>1. CASE i \in ackL
    <3>1. Len(Staying(i)) + 1 <= input_buffering[i] /\ Len(Staying(i)) \in Nat
      BY <1>1, <1>2, <1>3, <1>7, <1>9, <2>1
    <3>2. Len(Arriving(i)) <= 1 /\ Len(Arriving(i)) \in Nat
      BY <1>5
    <3> QED
      BY <1>8, <1>9, <3>1, <3>2
  <2>2. CASE i \notin ackL
    <3>1. Len(Arriving(i)) = 0
      BY <1>4, <2>2
    <3> QED
      BY <1>1, <1>3, <1>8, <1>9, <3>1
  <2> QED
    BY <2>1, <2>2
<1>11. Served(i) # <<>> => ub_write_ack(i)
  BY <1>2 DEF Served
<1> QED
  BY <1>3, <1>4, <1>5, <1>6, <1>10, <1>11

LEMMA UnloadBufferStep ==
  ASSUME OpInv, OpTick, NEW i \in Ops
  PROVE  /\ ub_queue'[i] \in Seq(Operands[i]) /\ Len(ub_queue'[i]) <= ub_depth(i)
         /\ dataR'[i] = <<>> \/ \E w \in Operands[i] : dataR'[i] = <<w>>
         /\ dataR'[i] \o ub_queue'[i] = ub_queue[i] \o Served(i)
<1> DEFINE W == Operands[i]
           words == ub_queue[i] \o Served(i)
           load == ub_ready(i) /\ words # <<>>
<1>1. /\ ub_queue[i] \in Seq(W) /\ Served(i) \in Seq(W)
      /\ Len(ub_queue[i]) <= ub_depth(i)
      /\ Served(i) # <<>> => ub_write_ack(i)
  BY ReceiveBufferStep DEF OpInv, BuffersFit
<1>2. /\ ub_queue'[i] = IF load THEN Tail(words) ELSE words
      /\ dataR'[i] = IF load THEN <<Head(words)>> ELSE <<>>
  BY DEF OpTick, UnloadBuffers, Served
<1>3. /\ Len(Served(i)) = IF Served(i) = <<>> THEN 0 ELSE 1
      /\ Len(ub_queue[i]) \in Nat
  BY <1>1 DEF Served
<1> HIDE DEF W
<1>4. words \in Seq(W) /\ Len(words) = Len(ub_queue[i]) + Len(Served(i))
  BY <1>1, Joined
<1>5. ub_depth(i) \in Nat
  BY BufferingAssumption DEF ub_depth
<1> HIDE DEF words
<1>6. Len(words) <= ub_depth(i) \/ (Len(words) = ub_depth(i) + 1 /\ load)
  <2>1. CASE Served(i) = <<>>
    BY <1>1, <1>3, <1>4, <1>5, <2>1
  <2>2. CASE Served(i) # <<>> /\ ub_depth(i) = 0
    <3>1. ub_ready(i)
      BY <1>1, <2>2 DEF ub_write_ack
    <3>2. Len(words) = 1
      BY <1>1, <1>3, <1>4, <2>2
    <3>3. words # <<>>
      BY <3>2
    <3> QED
      BY <2>2, <3>1, <3>2, <3>3
  <2>3. CASE Served(i) # <<>> /\ ub_depth(i) # 0
    <3>1. Len(ub_queue[i]) < ub_depth(i)
      BY <1>1, <2>3 DEF ub_write_ack
    <3> QED
      BY <1>3, <1>4, <1>5, <2>3, <3>1
  <2> QED
    BY <2>1, <2>2, <2>3
<1>7. CASE load
  <2>1. /\ Head(words) \in W /\ Tail(words) \in Seq(W)
        /\ Len(Tail(words)) = Len(words) - 1
        /\ <<Head(words)>> \o Tail(words) = words
    BY <1>4, <1>7, HeadAndTail
  <2>2. ub_queue'[i] = Tail(words) /\ dataR'[i] = <<Head(words)>>
    BY <1>2, <1>7
  <2>3. Len(words) \in Nat
    BY <1>4
  <2>4. Len(Tail(words)) <= ub_depth(i)
    BY <1>5, <1>6, <2>1, <2>3
  <2> QED
    BY <2>1, <2>2, <2>4 DEF W, words
<1>8. CASE ~load
  <2>1. ub_queue'[i] = words /\ dataR'[i] = <<>>
    BY <1>2, <1>8
  <2>2. <<>> \o words = words
    BY <1>4
  <2> QED
    BY <1>4, <1>6, <1>8, <2>1, <2>2 DEF W, words
<1> QED
  BY <1>7, <1>8

LEMMA StepOpInv == OpInv /\ OpTick => OpInv'
<1> SUFFICES ASSUME OpInv, OpTick PROVE OpInv'
  OBVIOUS
<1>1. req' \subseteq Ops
  BY DEF OpTick, Operations
<1>2. BuffersFit'
  <2> SUFFICES ASSUME NEW i \in Ops
               PROVE  /\ rx_queue'[i] \in Seq(Operands[i])
                      /\ Len(rx_queue'[i]) <= input_buffering[i]
                      /\ ub_queue'[i] \in Seq(Operands[i])
                      /\ Len(ub_queue'[i]) <= ub_depth(i)
                      /\ dataR'[i] = <<>> \/ \E w \in Operands[i] : dataR'[i] = <<w>>
    BY DEF BuffersFit, ub_depth
  <2>1. rx_queue'[i] \in Seq(Operands[i])
    <3> DEFINE W == Operands[i]
    <3>1. /\ rx_queue'[i] = Staying(i) \o Arriving(i)
          /\ Staying(i) \in Seq(W) /\ Arriving(i) \in Seq(W)
      BY ReceiveBufferStep
    <3> HIDE DEF W
    <3>2. rx_queue'[i] \in Seq(W)
      BY <3>1, Joined
    <3> QED
      BY <3>2 DEF W
  <2> QED
    BY <2>1, ReceiveBufferStep, UnloadBufferStep
<1>3. fair_register' \subseteq reqFromRx'
  <2> SUFFICES ASSUME NEW i \in fair_register' PROVE i \in Ops /\ rx_queue'[i] # <<>>
    BY DEF reqFromRx
  <2>1. i \in reqOut(num_ops, reqFromRx, fair_register) /\ i \notin ackToRx
    BY OperationsAssumption DEF OpTick, next_reqIn_register
  <2>2. i \in reqFromRx
    BY <2>1 DEF OpInv, reqOut
  <2>3. i \in Ops /\ rx_queue[i] # <<>>
    BY <2>2 DEF reqFromRx
  <2>4. /\ rx_queue'[i] = rx_queue[i] \o Arriving(i)
        /\ rx_queue[i] \in Seq(Operands[i]) /\ Arriving(i) \in Seq(Operands[i])
    BY <2>1, <2>3, ReceiveBufferStep DEF Staying, OpInv, BuffersFit
  <2> QED
    BY <2>3, <2>4
<1> QED
  BY <1>1, <1>2, <1>3, PulsesStayHeld DEF OpInv

(* An edge of the clock is a step of the operator that operation i sees.   *)
LEMMA OperatorStep ==
  ASSUME OpInv, OpTick, NEW i \in Ops
  PROVE  Operator(i)!Next
<1> DEFINE W == Operands[i]
           s == ub_queue[i] \o rx_queue[i]
           c == UnderWay(i)
<1>1. /\ ub_queue[i] \in Seq(W) /\ rx_queue[i] \in Seq(W)
      /\ Len(ub_queue[i]) <= output_buffering[i] /\ Len(rx_queue[i]) <= input_buffering[i]
      /\ Len(ub_queue[i]) \in Nat /\ Len(rx_queue[i]) \in Nat
      /\ input_buffering[i] \in Nat /\ output_buffering[i] \in Nat
      /\ dataR[i] = <<>> \/ \E w \in W : dataR[i] = <<w>>
  BY BufferingAssumption DEF OpInv, BuffersFit, ub_depth
<1>2. /\ taken_in'[i] = Arriving(i) /\ handed_out'[i] = dataR[i]
      /\ Arriving(i) = <<>> \/ \E w \in W : Arriving(i) = <<w>>
  BY ReceiveBufferStep DEF OpTick, Arriving
<1>3. /\ Served(i) \in Seq(W) /\ Staying(i) \in Seq(W) /\ Arriving(i) \in Seq(W)
      /\ rx_queue[i] = Served(i) \o Staying(i)
      /\ rx_queue'[i] = Staying(i) \o Arriving(i)
  BY ReceiveBufferStep
<1>4. /\ ub_queue'[i] \in Seq(W)
      /\ dataR'[i] = <<>> \/ \E w \in W : dataR'[i] = <<w>>
      /\ dataR'[i] \o ub_queue'[i] = ub_queue[i] \o Served(i)
  BY UnloadBufferStep
<1> HIDE DEF W
<1>5. s \in Seq(W) /\ Len(s) = Len(ub_queue[i]) + Len(rx_queue[i])
  BY <1>1, Joined
<1>6. dataR[i] \in Seq(W) /\ dataR'[i] \in Seq(W)
  BY <1>1, <1>4, AtMostOne
<1>7. c = dataR[i] \o s
  <2> DEFINE d == dataR[i]
             u == ub_queue[i]
             r == rx_queue[i]
  <2>1. d \in Seq(W) /\ u \in Seq(W) /\ r \in Seq(W)
    BY <1>1, <1>6
  <2>2. c = (d \o u) \o r
    BY DEF UnderWay
  <2> HIDE DEF d, u, r, c
  <2>3. c = d \o (u \o r)
    BY <2>1, <2>2
  <2> QED
    BY <2>3 DEF d, u, r
<1>8. UnderWay(i)' = s \o Arriving(i)
  <2> DEFINE u == ub_queue[i]
             a == Served(i)
             r == Staying(i)
             p == Arriving(i)
             d == dataR'[i]
             v == ub_queue'[i]
  <2>1. /\ u \in Seq(W) /\ a \in Seq(W) /\ r \in Seq(W) /\ p \in Seq(W)
        /\ d \in Seq(W) /\ v \in Seq(W)
        /\ d \o v = u \o a
        /\ UnderWay(i)' = d \o v \o (r \o p) /\ s = u \o (a \o r)
    BY <1>1, <1>3, <1>4, <1>6 DEF UnderWay
  <2> HIDE DEF u, a, r, p, d, v
  <2>2. (u \o a) \o (r \o p) = (u \o (a \o r)) \o p
    <3>1. u \in Seq(W) /\ a \in Seq(W) /\ r \in Seq(W) /\ p \in Seq(W)
      BY <2>1
    <3>2. u \o a \in Seq(W) /\ a \o r \in Seq(W)
      BY <3>1
    <3>3. (u \o a) \o (r \o p) = ((u \o a) \o r) \o p
      BY <3>1, <3>2
    <3>4. (u \o a) \o r = u \o (a \o r)
      BY <3>1
    <3> QED
      BY <3>3, <3>4
  <2> QED
    BY <2>1, <2>2 DEF p
<1> HIDE DEF s, c
<1>9. Len(s) < input_buffering[i] + output_buffering[i] + 1
  <2> DEFINE m == Len(ub_queue[i])
             n == Len(rx_queue[i])
  <2>1. /\ m \in Nat /\ n \in Nat
        /\ input_buffering[i] \in Nat /\ output_buffering[i] \in Nat
        /\ m <= output_buffering[i] /\ n <= input_buffering[i]
        /\ Len(s) = m + n
    BY <1>1, <1>5
  <2> HIDE DEF m, n
  <2> QED
    BY <2>1
<1> DEFINE cn == UnderWay(i)'
           g == dataR[i]
           p == Arriving(i)
<1>10. OneStep(W, c, cn, g, p) /\ (g = <<>> => c = s)
  <2>1. /\ s \in Seq(W) /\ c = g \o s /\ cn = s \o p
        /\ g = <<>> \/ \E w \in W : g = <<w>>
        /\ p = <<>> \/ \E w \in W : p = <<w>>
    <3>1. g = <<>> \/ \E w \in W : g = <<w>>
      BY <1>1
    <3>2. p = <<>> \/ \E w \in W : p = <<w>>
      BY <1>2
    <3> QED BY <1>5, <1>7, <1>8, <3>1, <3>2, Zenon
  <2> HIDE DEF cn, g, p
  <2> QED
    <3>1. OneStep(W, g \o s, s \o p, g, p) /\ (g = <<>> => g \o s = s)
      BY <2>1, ByOne, Zenon
    <3> QED BY <2>1, <3>1, Zenon
<1>11. taken_in'[i] = p /\ handed_out'[i] = g
  BY <1>2
<1> HIDE DEF g, p
<1>12. CASE g = <<>> /\ p = <<>> /\ cn = c
  BY <1>11, <1>12 DEF Operator!Next, Operator!Idle, c
<1>13. CASE \E w \in W : g = <<>> /\ p = <<w>> /\ cn = Append(c, w)
  BY <1>9, <1>10, <1>11, <1>13 DEF Operator!Next, Operator!Put, c, W
<1>14. CASE /\ c # <<>> /\ g = SubSeq(c, 1, 1) /\ p = <<>>
            /\ cn = SubSeq(c, 2, Len(c))
  BY <1>11, <1>14 DEF Operator!Next, Operator!Get, Operator!Oldest, Operator!Rest, c
<1>15. CASE \E w \in W : /\ c # <<>> /\ g = SubSeq(c, 1, 1) /\ p = <<w>>
                         /\ cn = Append(SubSeq(c, 2, Len(c)), w)
  BY <1>11, <1>15
     DEF Operator!Next, Operator!PutAndGet, Operator!Oldest, Operator!Rest, c, W
<1> QED
  BY <1>10, <1>12, <1>13, <1>14, <1>15 DEF OneStep

THEOREM OperatorInvariance == OpSpec => []OpInv
BY InitOpInv, StepOpInv, StutterOpInv, PTL DEF OpSpec

(* For any number of operations and any buffering, the results of each one *)
(* come once each and in the order of its operands, whatever the others do *)
(* in between (SplitOperatorShared.vhd:112-186).                           *)
THEOREM EachHasItsOperator == OpSpec => OperationsAreSeparate
<1> DEFINE Starts == \A i \in Ops : Operator(i)!Init
           Goes   == \A i \in Ops : Operator(i)!Next
<1>1. OpInit => Starts
  BY DEF OpInit, NoWords, UnderWay, Operator!Init
<1>2. OpInv /\ [OpTick]_op_vars => [Goes]_op_vars
  BY OperatorStep
<1>3. OpSpec => Starts /\ [][Goes]_op_vars
  <2> HIDE DEF Starts, Goes
  <2> QED
    BY OperatorInvariance, <1>1, <1>2, PTL DEF OpSpec
<1> QED
  BY <1>3 DEF OperationsAreSeparate
----------------------------------------------------------------------------
(* The shared module, for any number of callers and any number of calls it *)
(* can have under way.  First the words of one caller among the calls.     *)
Calls == [word : Word, to : Callers]

(* What the recursive function is to be: i's words among the first n calls *)
(* of s, for every n up to m.                                              *)
AreWords(f, s, i, m) ==
  /\ f[0] = <<>>
  /\ \A n \in 1 .. m : f[n] = IF s[n].to = i THEN Append(f[n - 1], s[n].word)
                                             ELSE f[n - 1]

LEMMA WordsAreUnique ==
  ASSUME NEW s, NEW t, NEW i, NEW m \in Nat, NEW f, NEW g,
         AreWords(f, s, i, m), AreWords(g, t, i, m),
         \A k \in 1 .. m : s[k] = t[k]
  PROVE  f[m] = g[m]
<1> DEFINE Bad == {n \in 0 .. m : f[n] # g[n]}
<1> SUFFICES ASSUME Bad # {} PROVE FALSE
  OBVIOUS
<1>1. Bad \subseteq Nat
  OBVIOUS
<1>2. PICK n \in Bad : \A j \in Nat : j < n => j \notin Bad
  BY <1>1, LeastNumber
<1>3. n # 0
  BY DEF AreWords
<1>4. n \in 1 .. m /\ n - 1 \in 0 .. m /\ n - 1 \notin Bad
  BY <1>2, <1>3
<1>5. f[n - 1] = g[n - 1]
  BY <1>4
<1>6. f[n] = g[n]
  BY <1>4, <1>5 DEF AreWords
<1> QED
  BY <1>6

LEMMA WordsExist ==
  ASSUME NEW s \in Seq(Calls), NEW i
  PROVE  \E f \in [0 .. Len(s) -> Seq(Word)] : AreWords(f, s, i, Len(s))
<1> DEFINE Good(m) == \E f \in [0 .. m -> Seq(Word)] : AreWords(f, s, i, m)
           Bad == {m \in 0 .. Len(s) : ~Good(m)}
<1> SUFFICES ASSUME Bad # {} PROVE FALSE
  OBVIOUS
<1>1. PICK m \in Bad : \A j \in Nat : j < m => j \notin Bad
  <2>1. Bad \subseteq Nat
    OBVIOUS
  <2> QED BY <2>1, LeastNumber
<1>2. m # 0
  <2>1. Good(0)
    <3> DEFINE f == [n \in 0 .. 0 |-> <<>>]
    <3>1. f \in [0 .. 0 -> Seq(Word)] /\ f[0] = <<>>
      OBVIOUS
    <3>2. AreWords(f, s, i, 0)
      BY <3>1 DEF AreWords
    <3> QED BY <3>1, <3>2
  <2> QED BY <2>1
<1>3. m \in 1 .. Len(s) /\ m - 1 \in 0 .. Len(s) /\ m - 1 \notin Bad
  BY <1>1, <1>2
<1>4. PICK f \in [0 .. m - 1 -> Seq(Word)] : AreWords(f, s, i, m - 1)
  BY <1>3
<1>5. s[m].word \in Word
  <2>1. s[m] \in Calls
    BY <1>3, ElementOfSeq
  <2> QED BY <2>1 DEF Calls
<1> DEFINE last == IF s[m].to = i THEN Append(f[m - 1], s[m].word) ELSE f[m - 1]
           g == [n \in 0 .. m |-> IF n = m THEN last ELSE f[n]]
<1>6. last \in Seq(Word)
  BY <1>3, <1>5
<1>7. \A n \in 0 .. m - 1 : f[n] \in Seq(Word)
  OBVIOUS
<1>8. g \in [0 .. m -> Seq(Word)] /\ g[m] = last
      /\ \A n \in 0 .. m - 1 : g[n] = f[n]
  <2> HIDE DEF last
  <2> QED BY <1>3, <1>6, <1>7
<1>9. AreWords(g, s, i, m)
  <2> HIDE DEF g
  <2>1. g[0] = <<>>
    BY <1>3, <1>4, <1>8 DEF AreWords
  <2>2. ASSUME NEW n \in 1 .. m
        PROVE  g[n] = IF s[n].to = i THEN Append(g[n - 1], s[n].word) ELSE g[n - 1]
    <3>1. CASE n = m
      BY <1>3, <1>8, <3>1
    <3>2. CASE n # m
      <4>1. n \in 1 .. m - 1 /\ n \in 0 .. m - 1 /\ n - 1 \in 0 .. m - 1
        BY <1>3, <3>2
      <4> QED BY <1>4, <1>8, <4>1 DEF AreWords
    <3> QED BY <3>1, <3>2
  <2> QED BY <2>1, <2>2 DEF AreWords
<1> QED
  BY <1>8, <1>9

LEMMA WordsAre ==
  ASSUME NEW s \in Seq(Calls), NEW i
  PROVE  /\ AreWords(WordsUpTo(s, i), s, i, Len(s))
         /\ Words(s, i) \in Seq(Word)
<1>1. PICK f \in [0 .. Len(s) -> Seq(Word)] : AreWords(f, s, i, Len(s))
  BY WordsExist
<1> DEFINE Step(w, n) == IF n = 0 THEN <<>>
                         ELSE IF s[n].to = i THEN Append(w[n - 1], s[n].word)
                                             ELSE w[n - 1]
           Is(w) == w = [n \in 0 .. Len(s) |-> Step(w, n)]
<1>2. Is(f)
  <2>1. \A n \in 0 .. Len(s) : f[n] = Step(f, n)
    <3> SUFFICES ASSUME NEW n \in 0 .. Len(s) PROVE f[n] = Step(f, n)
      OBVIOUS
    <3>1. n = 0 \/ n \in 1 .. Len(s)
      BY LenProperties
    <3>2. CASE n = 0
      BY <1>1, <3>2 DEF AreWords
    <3>3. CASE n \in 1 .. Len(s)
      BY <1>1, <3>3, LenProperties DEF AreWords
    <3> QED BY <3>1, <3>2, <3>3
  <2> QED BY <1>1, <2>1
<1>3. WordsUpTo(s, i) = CHOOSE w : Is(w)
  BY DEF WordsUpTo
<1> DEFINE u == WordsUpTo(s, i)
<1>4. Is(u)
  <2> HIDE DEF Is
  <2> QED BY <1>2, <1>3
<1>5. AreWords(u, s, i, Len(s))
  <2> HIDE DEF u
  <2>1. \A n \in 0 .. Len(s) : u[n] = Step(u, n)
    BY <1>4
  <2> QED BY <2>1, LenProperties DEF AreWords
<1>6. u[Len(s)] = f[Len(s)]
  <2> HIDE DEF u
  <2> QED BY <1>1, <1>5, WordsAreUnique, LenProperties
<1> QED
  BY <1>1, <1>5, <1>6, LenProperties DEF Words

(* What is collected at any point is a sequence of words, and not longer   *)
(* than what was looked at.                                                *)
LEMMA WordsUpToType ==
  ASSUME NEW s \in Seq(Calls), NEW i
  PROVE  \A m \in 0 .. Len(s) : WordsUpTo(s, i)[m] \in Seq(Word)
                                /\ Len(WordsUpTo(s, i)[m]) <= m
<1> DEFINE u == WordsUpTo(s, i)
           Bad == {m \in 0 .. Len(s) : ~(u[m] \in Seq(Word) /\ Len(u[m]) <= m)}
<1>1. AreWords(u, s, i, Len(s))
  BY WordsAre
<1> HIDE DEF u
<1>2. Bad = {}
  <2> SUFFICES ASSUME Bad # {} PROVE FALSE
    OBVIOUS
  <2>1. PICK m \in Bad : \A k \in Nat : k < m => k \notin Bad
    <3>1. Bad \subseteq Nat
      OBVIOUS
    <3> QED BY <3>1, LeastNumber
  <2>2. m # 0
    <3>1. u[0] = <<>> /\ <<>> \in Seq(Word) /\ Len(<<>>) <= 0
      BY <1>1 DEF AreWords
    <3> QED BY <3>1
  <2>3. m \in 1 .. Len(s) /\ m - 1 \in 0 .. Len(s) /\ m - 1 \notin Bad
    BY <2>1, <2>2
  <2>4. u[m - 1] \in Seq(Word) /\ Len(u[m - 1]) <= m - 1
    BY <2>3
  <2>5. s[m].word \in Word
    <3>1. s[m] \in Calls
      BY <2>3, ElementOfSeq
    <3> QED BY <3>1 DEF Calls
  <2>6. u[m] = IF s[m].to = i THEN Append(u[m - 1], s[m].word) ELSE u[m - 1]
    BY <1>1, <2>3 DEF AreWords
  <2>7. /\ Append(u[m - 1], s[m].word) \in Seq(Word)
        /\ Len(Append(u[m - 1], s[m].word)) = Len(u[m - 1]) + 1
    BY <2>4, <2>5
  <2>8. u[m] \in Seq(Word) /\ Len(u[m]) <= m
    BY <2>3, <2>4, <2>6, <2>7, LenProperties
  <2> QED
    BY <2>8
<1> QED
  BY <1>2 DEF u

(* Every queue of calls has the words of i in the order of the queue, and  *)
(* no more of them than it has calls.                                      *)
LEMMA WordsOfNone ==
  ASSUME NEW i
  PROVE  Words(<<>>, i) = <<>>
<1>1. <<>> \in Seq(Calls) /\ Len(<<>>) = 0
  OBVIOUS
<1> QED
  BY <1>1, WordsAre DEF Words, AreWords

LEMMA WordsOfOne ==
  ASSUME NEW c \in Calls, NEW i
  PROVE  Words(<<c>>, i) = IF c.to = i THEN <<c.word>> ELSE <<>>
<1> DEFINE s == <<c>>
           u == WordsUpTo(s, i)
<1>1. s \in Seq(Calls) /\ Len(s) = 1 /\ s[1] = c /\ c.word \in Word
  BY DEF Calls
<1> HIDE DEF s
<1>2. AreWords(u, s, i, 1) /\ Words(s, i) = u[1]
  BY <1>1, WordsAre DEF Words
<1> HIDE DEF u
<1>3. u[0] = <<>> /\ u[1] = IF c.to = i THEN Append(u[0], c.word) ELSE u[0]
  <2>1. 1 \in 1 .. 1 /\ 1 - 1 = 0
    OBVIOUS
  <2>2. u[0] = <<>> /\ u[1] = IF s[1].to = i THEN Append(u[1 - 1], s[1].word) ELSE u[1 - 1]
    BY <1>2, <2>1 DEF AreWords
  <2> QED BY <1>1, <2>1, <2>2
<1>4. Append(<<>>, c.word) = <<c.word>>
  BY <1>1
<1>5. Words(s, i) = IF c.to = i THEN <<c.word>> ELSE <<>>
  BY <1>2, <1>3, <1>4
<1> QED
  BY <1>5 DEF s

LEMMA WordsOfJoin ==
  ASSUME NEW s \in Seq(Calls), NEW t \in Seq(Calls), NEW i
  PROVE  Words(s \o t, i) = Words(s, i) \o Words(t, i)
<1> DEFINE j == s \o t
           a == Len(s)
           b == Len(t)
           u == WordsUpTo(j, i)
           v == WordsUpTo(s, i)
           w == WordsUpTo(t, i)
           both(m) == v[a] \o w[m]
           Bad == {m \in 0 .. b : u[a + m] # both(m)}
<1>1. /\ j \in Seq(Calls) /\ Len(j) = a + b /\ a \in Nat /\ b \in Nat
      /\ \A k \in 1 .. a : j[k] = s[k]
      /\ \A k \in 1 .. b : j[a + k] = t[k]
  OBVIOUS
<1> HIDE DEF j
<1>2. /\ AreWords(u, j, i, a + b) /\ Words(j, i) = u[a + b]
      /\ AreWords(v, s, i, a) /\ Words(s, i) = v[a] /\ v[a] \in Seq(Word)
      /\ AreWords(w, t, i, b) /\ Words(t, i) = w[b]
  BY <1>1, WordsAre DEF Words
<1>3. \A k \in 1 .. b : t[k].word \in Word
  <2> SUFFICES ASSUME NEW k \in 1 .. b PROVE t[k].word \in Word
    OBVIOUS
  <2>1. t[k] \in Calls
    BY ElementOfSeq
  <2> QED BY <2>1 DEF Calls
<1>0. a \in Nat /\ b \in Nat
  BY <1>1
<1> HIDE DEF a, b, u, v, w, both
<1>4. u[a] = v[a]
  <2>1. AreWords(u, j, i, a)
    BY <1>1, <1>2 DEF AreWords
  <2> QED BY <1>1, <1>2, <2>1, WordsAreUnique
<1>5. Bad = {}
  <2> SUFFICES ASSUME Bad # {} PROVE FALSE
    OBVIOUS
  <2>1. PICK m \in Bad : \A k \in Nat : k < m => k \notin Bad
    <3>1. Bad \subseteq Nat
      BY <1>0
    <3> QED BY <3>1, LeastNumber
  <2>2. m # 0
    <3>1. a + 0 = a /\ w[0] = <<>> /\ v[a] \in Seq(Word)
      BY <1>0, <1>2 DEF AreWords
    <3>2. u[a + 0] = both(0)
      BY <1>4, <3>1 DEF both
    <3> QED BY <3>2
  <2>3. m \in 1 .. b /\ m - 1 \in 0 .. b /\ m - 1 \notin Bad
    BY <1>0, <2>1, <2>2
  <2>4. u[a + (m - 1)] = both(m - 1) /\ a + (m - 1) = (a + m) - 1
    BY <1>0, <2>3
  <2>5. a + m \in 1 .. a + b /\ j[a + m] = t[m] /\ t[m].word \in Word
    BY <1>1, <1>3, <2>3
  <2>6. u[a + m] = IF t[m].to = i THEN Append(both(m - 1), t[m].word) ELSE both(m - 1)
    <3>1. u[a + m] = IF j[a + m].to = i THEN Append(u[(a + m) - 1], j[a + m].word)
                                        ELSE u[(a + m) - 1]
      BY <1>2, <2>5 DEF AreWords
    <3> QED BY <2>4, <2>5, <3>1, Zenon
  <2>7. w[m] = IF t[m].to = i THEN Append(w[m - 1], t[m].word) ELSE w[m - 1]
    BY <1>2, <2>3 DEF AreWords
  <2>8. w[m - 1] \in Seq(Word)
    <3>1. \A k \in 0 .. b : w[k] \in Seq(Word)
      BY <1>1, WordsUpToType DEF w, b
    <3> QED BY <2>3, <3>1
  <2>9. Append(both(m - 1), t[m].word) = v[a] \o Append(w[m - 1], t[m].word)
    <3>1. v[a] \in Seq(Word) /\ w[m - 1] \in Seq(Word) /\ t[m].word \in Word
      BY <1>2, <2>5, <2>8
    <3> DEFINE q1 == v[a]
               q2 == w[m - 1]
               x == t[m].word
    <3>2. q1 \in Seq(Word) /\ q2 \in Seq(Word) /\ x \in Word
      BY <3>1
    <3>3. both(m - 1) = q1 \o q2
      BY DEF both
    <3> HIDE DEF q1, q2, x, both
    <3>4. Append(q1 \o q2, x) = q1 \o Append(q2, x)
      <4>1. q1 \in Seq(Word) /\ q2 \in Seq(Word) /\ q1 \o q2 \in Seq(Word)
            /\ <<x>> \in Seq(Word) /\ x \in Word
        BY <3>2
      <4>2. q2 \o <<x>> = Append(q2, x) /\ (q1 \o q2) \o <<x>> = Append(q1 \o q2, x)
        BY <4>1, Behind, Zenon
      <4>3. (q1 \o q2) \o <<x>> = q1 \o (q2 \o <<x>>)
        BY <4>1
      <4> QED
        BY <4>2, <4>3, Zenon
    <3>5. Append(both(m - 1), x) = q1 \o Append(q2, x)
      BY <3>3, <3>4, Zenon
    <3> QED BY <3>5 DEF q1, q2, x
  <2>10. u[a + m] = both(m)
    BY <2>6, <2>7, <2>9, Zenon DEF both
  <2> QED
    BY <2>10
<1>6. u[a + b] = both(b)
  BY <1>0, <1>5
<1> QED
  BY <1>2, <1>6, Zenon DEF j, both

LEMMA WordsType ==
  ASSUME NEW s \in Seq(Calls), NEW i
  PROVE  Words(s, i) \in Seq(Word) /\ Len(Words(s, i)) <= Len(s)
<1>1. Len(s) \in 0 .. Len(s)
  BY LenProperties
<1> QED
  BY <1>1, WordsUpToType DEF Words

----------------------------------------------------------------------------
(* What the module holds are calls, and no more than it has room for.      *)
CallInv ==
  /\ CallTypeOK
  /\ callee \in Seq(Calls) /\ call_reg \in Calls

(* The call whose return is handed over, the calls that stay behind it,    *)
(* the call on its way and the one that takes its place.                   *)
Returned == IF return_mreq THEN <<Head(callee)>> ELSE <<>>
Kept == IF return_mreq THEN Tail(callee) ELSE callee
OnTheWay == IF call_mreq THEN <<call_reg>> ELSE <<>>
Entering(call_mack) == IF latch_call_data(call_mack) THEN <<call_reg'>> ELSE <<>>

LEMMA InitCallInv == CallInit => CallInv
<1> SUFFICES ASSUME CallInit PROVE CallInv
  OBVIOUS
<1>1. 0 \in Callers
  BY ArbiterAssumption DEF Callers
<1>2. [word |-> Cleared, to |-> 0] \in Calls
  BY <1>1, ArbiterAssumption DEF Calls
<1>3. callee = <<>> /\ <<>> \in Seq(Calls) /\ Len(<<>>) = 0
  BY DEF CallInit
<1> QED
  BY <1>2, <1>3, ArbiterAssumption DEF CallInit, CallInv, CallTypeOK

LEMMA StutterCallInv == CallInv /\ UNCHANGED call_vars => CallInv'
BY DEF CallInv, CallTypeOK, call_vars, calls, returns

(* The priority encoder picks at most one caller, who asks for a call.     *)
LEMMA OneCallAtATime ==
  ASSUME CallInv
  PROVE  pe_call_reqs = {} \/ \E j \in call_reqs : pe_call_reqs = {j}
<1> DEFINE out == reqOut(num_reqs, call_reqs, fairify_register)
<1>1. out \subseteq call_reqs /\ call_reqs \subseteq Int
  BY ArbiterAssumption DEF CallInv, CallTypeOK, Callers, reqOut
<1>2. pe_call_reqs = {i \in out : \A j \in out : j <= i}
  BY DEF pe_call_reqs, PriorityEncode
<1> HIDE DEF out
<1>3. ASSUME NEW i \in pe_call_reqs, NEW j \in pe_call_reqs PROVE i = j
  BY <1>1, <1>2
<1>4. ASSUME NEW j \in pe_call_reqs PROVE pe_call_reqs = {j}
  BY <1>3
<1>5. pe_call_reqs \subseteq call_reqs
  BY <1>1, <1>2
<1> QED
  BY <1>4, <1>5

(* A call that is latched is one of a caller who asks for it.              *)
LEMMA Latched ==
  ASSUME CallInv, NEW call_mack \in BOOLEAN, CallTick(call_mack)
  PROVE  /\ call_reg' \in Calls
         /\ latch_call_data(call_mack) =>
              \E j \in call_reqs : /\ call_acks(call_mack) = {j}
                                   /\ call_reg' = [word |-> call_data[j], to |-> j]
<1>1. CASE latch_call_data(call_mack)
  <2>1. PICK j \in call_reqs : pe_call_reqs = {j}
    BY <1>1, OneCallAtATime DEF latch_call_data
  <2>2. call_acks(call_mack) = {j} /\ (CHOOSE r \in pe_call_reqs : TRUE) = j
    BY <1>1, <2>1 DEF call_acks
  <2>3. call_reg' = [word |-> call_data[j], to |-> j]
    BY <1>1, <2>2 DEF CallTick, CallSide
  <2>4. j \in Callers /\ call_data[j] \in Word
    BY DEF CallInv, CallTypeOK
  <2> QED
    BY <2>2, <2>3, <2>4 DEF Calls
<1>2. CASE ~latch_call_data(call_mack)
  BY <1>2 DEF CallTick, CallSide, CallInv
<1> QED
  BY <1>1, <1>2

(* The calls under way, from the one that returns to the one that enters.  *)
LEMMA CalleeStep ==
  ASSUME CallInv, NEW call_mack \in BOOLEAN, CallTick(call_mack)
  PROVE  /\ Returned \in Seq(Calls) /\ Kept \in Seq(Calls)
         /\ OnTheWay \in Seq(Calls) /\ Entering(call_mack) \in Seq(Calls)
         /\ callee = Returned \o Kept
         /\ return_mreq => callee # <<>>
         /\ callee' \in Seq(Calls) /\ OnTheWay' \in Seq(Calls)
         /\ callee' \o OnTheWay' = Kept \o (OnTheWay \o Entering(call_mack))
         /\ Len(callee') <= CalleeDepth
<1> DEFINE Accepted == IF call_mreq /\ call_mack THEN <<call_reg>> ELSE <<>>
<1>1. callee \in Seq(Calls) /\ call_reg \in Calls /\ call_reg' \in Calls
  BY Latched DEF CallInv
<1>2. return_mreq => callee # <<>>
  BY DEF return_mreq, latch_var, valid_flag, CallInv, CallTypeOK
<1>3. Returned \in Seq(Calls) /\ Kept \in Seq(Calls) /\ callee = Returned \o Kept
      /\ Len(Kept) <= Len(callee)
  <2>1. CASE return_mreq
    <3>1. callee # <<>>
      BY <1>2, <2>1
    <3>2. /\ Head(callee) \in Calls /\ Tail(callee) \in Seq(Calls)
          /\ Len(Tail(callee)) = Len(callee) - 1
          /\ <<Head(callee)>> \o Tail(callee) = callee
      BY <1>1, <3>1, HeadAndTail
    <3>3. Len(callee) \in Nat /\ <<Head(callee)>> \in Seq(Calls)
      BY <1>1, <3>2
    <3> QED BY <2>1, <3>2, <3>3 DEF Returned, Kept
  <2>2. CASE ~return_mreq
    <3>1. <<>> \o callee = callee /\ <<>> \in Seq(Calls) /\ Len(callee) \in Nat
      BY <1>1
    <3> QED BY <1>1, <2>2, <3>1 DEF Returned, Kept
  <2> QED BY <2>1, <2>2
<1>4. /\ OnTheWay \in Seq(Calls) /\ Entering(call_mack) \in Seq(Calls)
      /\ OnTheWay' \in Seq(Calls) /\ Accepted \in Seq(Calls)
  BY <1>1 DEF OnTheWay, Entering
<1>5. callee' = Kept \o Accepted
  BY DEF CallTick, Callee, Kept
<1>6. Accepted \o OnTheWay' = OnTheWay \o Entering(call_mack)
  <2>1. /\ latch_call_data(call_mack) => call_state = "idle" \/ call_mack
        /\ call_state' = IF latch_call_data(call_mack) THEN "busy"
                         ELSE IF call_mreq /\ call_mack THEN "idle" ELSE call_state
        /\ ~latch_call_data(call_mack) => call_reg' = call_reg
    BY DEF CallTick, CallSide, latch_call_data
  <2> DEFINE e == Entering(call_mack)
             o == OnTheWay
             p == OnTheWay'
             a == Accepted
  <2>2. \/ o = <<>> /\ a = <<>> /\ p = e
        \/ a = o /\ p = e
        \/ a = <<>> /\ e = <<>> /\ p = o
    BY <2>1 DEF OnTheWay, Entering, call_mreq, CallInv, CallTypeOK
  <2>3. \A t \in Seq(Calls) : <<>> \o t = t /\ t \o <<>> = t
    OBVIOUS
  <2>4. o \in Seq(Calls) /\ e \in Seq(Calls)
    BY <1>4
  <2> HIDE DEF e, o, p, a
  <2>5. a \o p = o \o e
    BY <2>2, <2>3, <2>4, Zenon
  <2> QED BY <2>5 DEF e, o, p, a
<1>7. callee' \in Seq(Calls) /\ Len(callee') = Len(Kept) + Len(Accepted)
  BY <1>3, <1>4, <1>5, Joined, Zenon
<1>8. (Kept \o Accepted) \o OnTheWay' = Kept \o (Accepted \o OnTheWay')
  <2> DEFINE k == Kept
             a == Accepted
             p == OnTheWay'
  <2>1. k \in Seq(Calls) /\ a \in Seq(Calls) /\ p \in Seq(Calls)
    BY <1>3, <1>4
  <2> HIDE DEF k, a, p
  <2>2. (k \o a) \o p = k \o (a \o p)
    BY <2>1
  <2> QED BY <2>2 DEF k, a, p
<1>9. Len(callee') <= CalleeDepth
  <2>1. Len(callee) \in Nat /\ Len(Kept) \in Nat /\ CalleeDepth \in Nat
    BY <1>1, <1>3, ArbiterAssumption
  <2>2. Len(Accepted) = IF call_mreq /\ call_mack THEN 1 ELSE 0
    BY <1>1
  <2>3. Len(callee) <= CalleeDepth /\ (call_mack => Len(callee) < CalleeDepth)
    BY DEF CallInv, CallTypeOK, CallTick, Callee
  <2> HIDE DEF Accepted
  <2> QED BY <1>3, <1>7, <2>1, <2>2, <2>3
<1> HIDE DEF Accepted
<1> QED
  BY <1>2, <1>3, <1>4, <1>5, <1>6, <1>7, <1>8, <1>9

LEMMA StepCallInv == CallInv /\ CallNext => CallInv'
<1> SUFFICES ASSUME CallInv, NEW call_mack \in BOOLEAN, CallTick(call_mack)
             PROVE  CallInv'
  BY DEF CallNext
<1>1. callee' \in Seq(Calls) /\ call_reg' \in Calls /\ Len(callee') <= CalleeDepth
  BY CalleeStep, Latched
<1>2. call_reqs' \subseteq Callers /\ return_reqs' \subseteq Callers
      /\ call_data' \in [Callers -> Word] /\ call_reqs \ call_acks(call_mack) \subseteq call_reqs'
  BY DEF CallTick, CallerPorts
<1>3. fairify_register' \subseteq call_reqs'
  BY <1>2, ArbiterAssumption
     DEF CallTick, CallSide, next_reqIn_register, reqOut, CallInv, CallTypeOK
<1>4. call_state' \in {"idle", "busy"}
  BY DEF CallTick, CallSide, CallInv, CallTypeOK
<1>5. return_state' \in [Callers -> {"Idle", "Busy"}]
  BY DEF CallTick, ReturnSide, CallInv, CallTypeOK
<1>6. return_reg' \in [Callers -> Word]
  <2>1. ASSUME NEW i \in Callers, latch_var(i) PROVE Head(callee).word \in Word
    <3>1. callee # <<>>
      BY <2>1 DEF latch_var, valid_flag, CallInv, CallTypeOK
    <3>2. Head(callee) \in Calls
      BY <3>1, HeadAndTail DEF CallInv
    <3> QED BY <3>2 DEF Calls
  <2>2. \A i \in Callers : return_reg[i] \in Word
    BY DEF CallInv, CallTypeOK
  <2>3. return_reg' = [i \in Callers |->
                         IF latch_var(i) THEN Head(callee).word ELSE return_reg[i]]
    BY DEF CallTick, ReturnSide
  <2> QED BY <2>1, <2>2, <2>3
<1>7. return_mack' => callee' # <<>>
  BY DEF CallTick, Callee
<1> QED
  BY <1>1, <1>2, <1>3, <1>4, <1>5, <1>6, <1>7 DEF CallInv, CallTypeOK

(* The return that waits for caller i.                                     *)
Waiting(i) == IF return_state[i] = "Busy" THEN <<return_reg[i]>> ELSE <<>>

(* A return takes its place there when the one before it is gone.          *)
LEMMA ReturnStep ==
  ASSUME CallInv, NEW call_mack \in BOOLEAN, CallTick(call_mack), NEW i \in Callers
  PROVE  /\ Waiting(i) \in Seq(Word) /\ Len(Waiting(i)) <= 1 /\ Waiting(i)' \in Seq(Word)
         /\ got'[i] = <<>> \/ \E w \in Word : got'[i] = <<w>>
         /\ got'[i] \o Waiting(i)' = Waiting(i) \o Words(Returned, i)
<1> DEFINE c == Head(callee)
           R == Words(Returned, i)
           r == return_reg[i]
           w == IF latch_var(i) THEN <<c.word>> ELSE <<>>
<1>1. return_mack => c \in Calls /\ c.word \in Word
  <2> SUFFICES ASSUME return_mack PROVE c \in Calls /\ c.word \in Word
    OBVIOUS
  <2>1. c \in Calls
    BY HeadAndTail DEF CallInv, CallTypeOK
  <2> QED BY <2>1 DEF Calls
<1>2. R = w
  <2>1. CASE return_mreq
    <3>1. return_mack /\ \A j \in Callers : valid_flag(j) <=> j = c.to
      BY <2>1 DEF return_mreq, latch_var, valid_flag
    <3>2. latch_var(i) <=> i = c.to
      BY <2>1, <3>1 DEF return_mreq, latch_var
    <3>3. R = IF c.to = i THEN <<c.word>> ELSE <<>>
      BY <1>1, <2>1, <3>1, WordsOfOne DEF Returned
    <3> QED BY <3>2, <3>3
  <2>2. CASE ~return_mreq
    BY <2>2, WordsOfNone DEF Returned, return_mreq
  <2> QED BY <2>1, <2>2
<1>3. r \in Word /\ return_state[i] \in {"Idle", "Busy"} /\ (latch_var(i) => c.word \in Word)
  BY <1>1 DEF CallInv, CallTypeOK, latch_var, valid_flag
<1>4. /\ return_state'[i] = IF latch_var(i) THEN "Busy"
                            ELSE IF i \in return_reqs THEN "Idle" ELSE return_state[i]
      /\ return_reg'[i] = IF latch_var(i) THEN c.word ELSE r
      /\ latch_var(i) => return_state[i] = "Idle" \/ i \in return_reqs
  BY DEF CallTick, ReturnSide, latch_var
<1>5. got'[i] = IF return_state[i] = "Busy" /\ i \in return_reqs THEN <<r>> ELSE <<>>
  BY DEF CallTick, return_acks
<1> DEFINE g == got'[i]
           b == Waiting(i)
           d == Waiting(i)'
<1>6. \/ g = <<>> /\ d = b /\ w = <<>>
      \/ g = b /\ d = w
  BY <1>3, <1>4, <1>5 DEF Waiting
<1>7. \A x \in Word : <<x>> \in Seq(Word) /\ Len(<<x>>) = 1
  OBVIOUS
<1>8. <<>> \in Seq(Word) /\ Len(<<>>) = 0
  OBVIOUS
<1>9. b \in Seq(Word) /\ Len(b) <= 1 /\ w \in Seq(Word)
  BY <1>3, <1>7, <1>8 DEF Waiting
<1>10. g = <<>> \/ \E x \in Word : g = <<x>>
  BY <1>3, <1>5
<1> HIDE DEF g, b, d, w, R
<1>11. d \in Seq(Word) /\ g \o d = b \o w
  <2>1. <<>> \o b = b /\ b \o <<>> = b
    BY <1>9
  <2> QED BY <1>6, <1>9, <2>1, Zenon
<1> QED
  BY <1>2, <1>9, <1>10, <1>11 DEF g, b, d, R

(* An edge of the clock is a step of the module that caller i sees.        *)
LEMMA CallerStep ==
  ASSUME CallInv, NEW call_mack \in BOOLEAN, CallTick(call_mack), NEW i \in Callers
  PROVE  Caller(i)!Next
<1> DEFINE B == Waiting(i)
           D == Waiting(i)'
           R == Words(Returned, i)
           K == Words(Kept, i)
           O == Words(OnTheWay, i)
           N == Words(Entering(call_mack), i)
           c == InTransit(i)
           cn == InTransit(i)'
           g == got'[i]
           s == D \o (K \o O)
<1>1. /\ B \in Seq(Word) /\ D \in Seq(Word) /\ R \in Seq(Word) /\ K \in Seq(Word)
      /\ O \in Seq(Word) /\ N \in Seq(Word) /\ g \in Seq(Word)
  <2>1. g \in Seq(Word)
    BY ReturnStep, AtMostOne
  <2> QED BY <2>1, ReturnStep, CalleeStep, WordsType
<1>2. g \o D = B \o R
  BY ReturnStep
<1>3. c = B \o ((R \o K) \o O)
  <2>1. Words(callee \o OnTheWay, i) = Words(callee, i) \o O
    BY CalleeStep, WordsOfJoin DEF CallInv
  <2>2. Words(callee, i) = R \o K
    <3>1. Returned \in Seq(Calls) /\ Kept \in Seq(Calls) /\ callee = Returned \o Kept
      BY CalleeStep
    <3>2. Words(Returned \o Kept, i) = R \o K
      BY <3>1, WordsOfJoin, Zenon
    <3> QED BY <3>1, <3>2, Zenon
  <2> QED BY <2>1, <2>2 DEF InTransit, Waiting, OnTheWay
<1>4. cn = D \o (K \o (O \o N))
  <2>1. cn = D \o Words(callee' \o OnTheWay', i)
    BY DEF InTransit, Waiting, OnTheWay
  <2>2. callee' \o OnTheWay' = Kept \o (OnTheWay \o Entering(call_mack))
    BY CalleeStep
  <2>3. Kept \in Seq(Calls) /\ OnTheWay \o Entering(call_mack) \in Seq(Calls)
    BY CalleeStep, Joined
  <2>4. Words(Kept \o (OnTheWay \o Entering(call_mack)), i)
          = K \o Words(OnTheWay \o Entering(call_mack), i)
    BY <2>3, WordsOfJoin, Zenon
  <2>5. Words(OnTheWay \o Entering(call_mack), i) = O \o N
    <3>1. OnTheWay \in Seq(Calls) /\ Entering(call_mack) \in Seq(Calls)
      BY CalleeStep
    <3> QED BY <3>1, WordsOfJoin, Zenon
  <2> QED BY <2>1, <2>2, <2>4, <2>5
<1>5. /\ g = <<>> \/ \E w \in Word : g = <<w>>
      /\ put'[i] = <<>> \/ \E w \in Word : put'[i] = <<w>>
      /\ put'[i] = N
  <2>1. CASE ~latch_call_data(call_mack)
    <3>1. N = <<>> /\ call_acks(call_mack) = {}
      BY <2>1, WordsOfNone DEF Entering, call_acks
    <3> QED BY <3>1, ReturnStep DEF CallTick
  <2>2. CASE latch_call_data(call_mack)
    <3>1. PICK j \in call_reqs : /\ call_acks(call_mack) = {j}
                                 /\ call_reg' = [word |-> call_data[j], to |-> j]
      BY <2>2, Latched
    <3>2. N = IF j = i THEN <<call_data[j]>> ELSE <<>>
      <4>1. N = IF call_reg'.to = i THEN <<call_reg'.word>> ELSE <<>>
        BY <2>2, Latched, WordsOfOne DEF Entering
      <4> QED BY <3>1, <4>1
    <3>3. put'[i] = N /\ call_data[i] \in Word
      BY <3>1, <3>2 DEF CallTick, CallInv, CallTypeOK
    <3> QED BY <3>2, <3>3, ReturnStep
  <2> QED BY <2>1, <2>2
<1>6. N # <<>> => Len(callee) + Len(OnTheWay) <= CalleeDepth
  <2> SUFFICES ASSUME N # <<>> PROVE Len(callee) + Len(OnTheWay) <= CalleeDepth
    OBVIOUS
  <2>1. latch_call_data(call_mack)
    BY WordsOfNone DEF Entering
  <2>2. call_mack \/ OnTheWay = <<>>
    BY <2>1 DEF latch_call_data, OnTheWay, call_mreq
  <2>3. /\ Len(OnTheWay) = IF OnTheWay = <<>> THEN 0 ELSE 1
        /\ Len(callee) \in Nat /\ CalleeDepth \in Nat
    BY ArbiterAssumption DEF OnTheWay, CallInv
  <2>4. Len(callee) <= CalleeDepth /\ (call_mack => Len(callee) < CalleeDepth)
    BY DEF CallInv, CallTypeOK, CallTick, Callee
  <2> QED BY <2>2, <2>3, <2>4
<1>7. Len(B) <= 1 /\ Len(R) + Len(K) + Len(O) <= Len(callee) + Len(OnTheWay)
  <2>1. /\ Len(R) <= Len(Returned) /\ Len(K) <= Len(Kept) /\ Len(O) <= Len(OnTheWay)
    BY CalleeStep, WordsType
  <2>2. Len(callee) = Len(Returned) + Len(Kept)
    <3>1. Returned \in Seq(Calls) /\ Kept \in Seq(Calls) /\ callee = Returned \o Kept
      BY CalleeStep
    <3>2. Len(Returned \o Kept) = Len(Returned) + Len(Kept)
      BY <3>1, Joined, Zenon
    <3> QED BY <3>1, <3>2, Zenon
  <2>3. /\ Len(Returned) \in Nat /\ Len(Kept) \in Nat /\ Len(OnTheWay) \in Nat
        /\ Len(R) \in Nat /\ Len(K) \in Nat /\ Len(O) \in Nat
    BY <1>1, CalleeStep
  <2> HIDE DEF R, K, O
  <2>4. Len(R) + Len(K) + Len(O) <= Len(callee) + Len(OnTheWay)
    BY <2>1, <2>2, <2>3
  <2> QED BY <2>4, ReturnStep
<1> DEFINE p == put'[i]
<1> HIDE DEF B, D, R, K, O, N, c, cn, g, p
<1>8. s \in Seq(Word) /\ c = g \o s /\ cn = s \o N
  <2> DEFINE X == K \o O
  <2>1. X \in Seq(Word)
    BY <1>1, Joined
  <2>2. (R \o K) \o O = R \o X
    <3>1. R \in Seq(Word) /\ K \in Seq(Word) /\ O \in Seq(Word)
      BY <1>1
    <3> QED BY <3>1
  <2>3. K \o (O \o N) = X \o N
    <3>1. K \in Seq(Word) /\ O \in Seq(Word) /\ N \in Seq(Word)
      BY <1>1
    <3> QED BY <3>1
  <2> HIDE DEF X, s
  <2>4. B \o (R \o X) = (B \o R) \o X
    <3>1. B \in Seq(Word) /\ R \in Seq(Word) /\ X \in Seq(Word)
      BY <1>1, <2>1
    <3> QED BY <3>1
  <2>5. (g \o D) \o X = g \o (D \o X)
    <3>1. g \in Seq(Word) /\ D \in Seq(Word) /\ X \in Seq(Word)
      BY <1>1, <2>1
    <3> QED BY <3>1
  <2>6. D \o (X \o N) = (D \o X) \o N
    <3>1. D \in Seq(Word) /\ X \in Seq(Word) /\ N \in Seq(Word)
      BY <1>1, <2>1
    <3> QED BY <3>1
  <2>7. s = D \o X /\ s \in Seq(Word)
    <3>1. D \o X \in Seq(Word)
      BY <1>1, <2>1, Joined
    <3> QED BY <3>1 DEF X, s
  <2>8. c = g \o s
    BY <1>2, <1>3, <2>2, <2>4, <2>5, <2>7, Zenon
  <2>9. cn = s \o N
    BY <1>4, <2>3, <2>6, <2>7, Zenon
  <2> QED BY <2>7, <2>8, <2>9
<1>9. Len(c) = Len(B) + (Len(R) + Len(K) + Len(O))
  BY <1>1, <1>3
<1>10. p # <<>> => Len(c) < CalleeDepth + 2
  <2>1. Len(c) \in Nat /\ Len(B) \in Nat /\ Len(R) + Len(K) + Len(O) \in Nat
        /\ Len(callee) + Len(OnTheWay) \in Nat /\ CalleeDepth \in Nat
    BY <1>1, <1>9, CalleeStep, ArbiterAssumption DEF CallInv
  <2> QED BY <1>5, <1>6, <1>7, <1>9, <2>1 DEF p
<1>11. OneStep(Word, c, cn, g, p)
  <2> HIDE DEF s
  <2>1. /\ g = <<>> \/ \E w \in Word : g = <<w>>
        /\ p = <<>> \/ \E w \in Word : p = <<w>>
        /\ cn = s \o p /\ c = g \o s /\ s \in Seq(Word)
    BY <1>5, <1>8 DEF p, g
  <2>2. OneStep(Word, g \o s, s \o p, g, p)
    BY <2>1, ByOne, Zenon
  <2> QED BY <2>1, <2>2, Zenon
<1>12. CASE g = <<>> /\ p = <<>> /\ cn = c
  BY <1>12 DEF Caller!Next, Caller!Idle, c, cn, g, p
<1>13. CASE \E w \in Word : g = <<>> /\ p = <<w>> /\ cn = Append(c, w)
  BY <1>10, <1>13 DEF Caller!Next, Caller!Put, c, cn, g, p
<1>14. CASE /\ c # <<>> /\ g = SubSeq(c, 1, 1) /\ p = <<>>
            /\ cn = SubSeq(c, 2, Len(c))
  BY <1>14 DEF Caller!Next, Caller!Get, Caller!Oldest, Caller!Rest, c, cn, g, p
<1>15. CASE \E w \in Word : /\ c # <<>> /\ g = SubSeq(c, 1, 1) /\ p = <<w>>
                            /\ cn = Append(SubSeq(c, 2, Len(c)), w)
  BY <1>15
     DEF Caller!Next, Caller!PutAndGet, Caller!Oldest, Caller!Rest, c, cn, g, p
<1> QED
  BY <1>11, <1>12, <1>13, <1>14, <1>15 DEF OneStep

THEOREM CallInvariance == CallSpec => []CallInv
BY InitCallInv, StepCallInv, StutterCallInv, PTL DEF CallSpec

(* For any number of callers and any number of calls under way, each       *)
(* caller gets the returns of its own calls, each once and in the order of *)
(* the calls (SplitCallArbiter.vhd:110-280).                               *)
THEOREM EachHasItsModule == CallSpec => CallersAreSeparate
<1> DEFINE Starts == \A i \in Callers : Caller(i)!Init
           Goes   == \A i \in Callers : Caller(i)!Next
<1>1. CallInit => Starts
  <2> SUFFICES ASSUME CallInit, NEW i \in Callers PROVE Caller(i)!Init
    OBVIOUS
  <2>1. InTransit(i) = <<>> \o Words(<<>> \o <<>>, i)
    BY DEF CallInit, InTransit, call_mreq
  <2>2. <<>> \o <<>> = <<>>
    OBVIOUS
  <2> QED BY <2>1, <2>2, WordsOfNone DEF CallInit, Nothing, Caller!Init
<1>2. CallInv /\ CallNext => Goes
  BY CallerStep DEF CallNext
<1>3. CallInv /\ [CallNext]_call_vars => [Goes]_call_vars
  BY <1>2
<1>4. CallSpec => Starts /\ [][Goes]_call_vars
  BY <1>1, <1>3, CallInvariance, PTL DEF CallSpec
<1> QED
  BY <1>4 DEF CallersAreSeparate
=============================================================================
