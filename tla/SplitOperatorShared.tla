------------------------ MODULE SplitOperatorShared ------------------------
(***************************************************************************)
(* SplitOperatorShared.vhd: several operations of a program share one      *)
(* combinational operator.  An operation hands over its operands with a    *)
(* pulse req and takes its result with a pulse reqR.  An access regulator  *)
(* lets the pulse through, as reqL, when the operation has a slot; the     *)
(* operands wait in a ReceiveBuffer; InputMuxWithBuffering lets the        *)
(* operations through to the operator one at a time and fairly, with a     *)
(* tag; and OutputDeMuxBaseWithBuffering puts the result, in the same      *)
(* cycle, into the UnloadBuffer of the operation the tag names.  When that *)
(* buffer does not take it, everybody waits.                               *)
(*                                                                         *)
(* What the operator computes is left out: a word stands for the operands  *)
(* and for the result.  A step is one rising edge of the clock.            *)
(***************************************************************************)
EXTENDS Arbitration, Places, Sequences

CONSTANTS num_ops,      \* generic num_reqs
          input_buffering, output_buffering,   \* detailed_buffering_per_...
          full_rate,
          num_slots,    \* of the access regulator of each operation
          Operands      \* the words each operation may hand over

Ops == 0 .. num_ops - 1

ASSUME OperationsAssumption == num_ops \in Nat \ {0, 1}
ASSUME BufferingAssumption ==
  input_buffering \in [Ops -> Nat] /\ output_buffering \in [Ops -> Nat]

VARIABLES
  req, dataL,         \* the pulses that hand over operands, and the operands
  given,              \* an earlier pulse is still to be acknowledged
  req_place, release_req_place,   \* of the access regulators
  rx_state, rx_queue, \* the ReceiveBuffers
  fair_register,      \* of the NobodyLeftBehind "fairify"
  ub_queue, ub_state, \* the UnloadBuffers: a queue and an UnloadRegister
  dataR,              \* the results they acknowledge: those of the last edge
  reqR, expected,     \* the pulses that ask for a result, and earlier ones
  taken_in, handed_out  \* what each operation exchanged at the last edge

op_vars == <<req, dataL, given, req_place, release_req_place, rx_state, rx_queue,
             fair_register, ub_queue, ub_state, dataR, reqR, expected, taken_in,
             handed_out>>

NoWords == [i \in Ops |-> <<>>]
ackR == {i \in Ops : dataR[i] # <<>>}

OpInit ==
  /\ req = {} /\ dataL = NoWords /\ given = {}
  /\ req_place = [i \in Ops |-> 0] /\ release_req_place = num_slots
  /\ rx_state = [i \in Ops |-> "idle"] /\ rx_queue = NoWords
  /\ fair_register = {}
  /\ ub_queue = NoWords /\ ub_state = [i \in Ops |-> "Idle"]
  /\ dataR = NoWords
  /\ reqR = {} /\ expected = {}
  /\ taken_in = NoWords /\ handed_out = NoWords

----------------------------------------------------------------------------
(* access_regulator_base.vhdl: the pulse goes on when there is a slot; each *)
(* pulse that asks for a result frees one, in the next cycle.              *)
req_place_token(i) == bypass_token(req_place[i], i \in req)
reqL_unregulated == {i \in Ops : req_place_token(i)}
reqL == {i \in Ops : release_req_place[i] > 0 /\ req_place_token(i)}

AccessRegulators ==
  /\ req_place' = [i \in Ops |-> place_with_bypass(req_place[i], 1, i \in req, i \in reqL)]
  /\ release_req_place' =
       [i \in Ops |-> place(release_req_place[i], num_slots[i] + 1, i \in reqR, i \in reqL)]

(* The mux: at most one operation is presented to the operator.            *)
reqFromRx == {i \in Ops : rx_queue[i] # <<>>}
reqP      == PriorityEncode(reqOut(num_ops, reqFromRx, fair_register))
result_of_last(i) == Head(rx_queue[CHOOSE j \in reqFromRx : \A k \in reqFromRx : k <= j])

result(i) == Head(rx_queue[i])

(* The demux: the UnloadBuffer of that operation takes the result, into    *)
(* its queue or straight into its register.  A buffer of one word has no   *)
(* queue.                                                                  *)
ub_depth(i)       == IF output_buffering[i] = 1 THEN 0 ELSE output_buffering[i]
ub_ready(i) == ub_state[i] = "Waiting" \/ i \in reqR
ub_write_ack(i)   == IF ub_depth(i) = 0 THEN ub_ready(i)
                     ELSE Len(ub_queue[i]) < ub_depth(i)
ackToRx == {i \in reqP : ub_write_ack(i)}

(* A FullRateRepeater takes a word in the cycle in which it gives one up.  *)
rx_push_ack(i) == \/ Len(rx_queue[i]) < input_buffering[i]
                  \/ full_rate /\ input_buffering[i] = 1 /\ i \in ackToRx
rx_push_req(i) == i \in reqL \/ rx_state[i] = "busy"
ackL == {i \in Ops : rx_push_req(i) /\ rx_push_ack(i)}

ReceiveBuffers ==
  /\ rx_state' = [i \in Ops |-> IF rx_push_req(i) /\ i \notin ackL THEN "busy" ELSE "idle"]
  /\ rx_queue' = [i \in Ops |-> (IF i \in ackToRx THEN Tail(rx_queue[i]) ELSE rx_queue[i])
                                \o (IF i \in ackL THEN dataL[i] ELSE <<>>)]

(* The register takes the oldest word: of the queue, if there is one.      *)
UnloadBuffers ==
  LET arriving(i) == IF i \in ackToRx THEN <<result(i)>> ELSE <<>>
      words(i) == ub_queue[i] \o arriving(i)
      load(i)  == ub_ready(i) /\ words(i) # <<>>
  IN /\ ub_queue' = [i \in Ops |-> IF load(i) THEN Tail(words(i)) ELSE words(i)]
     /\ ub_state' = [i \in Ops |-> IF ub_ready(i) /\ ~load(i) THEN "Waiting" ELSE "Idle"]
     /\ dataR' = [i \in Ops |-> IF load(i) THEN <<Head(words(i))>> ELSE <<>>]

(* The operations: a pulse follows the answer to the one before, at the    *)
(* earliest in the cycle of that answer; operands are held until they are  *)
(* acknowledged.                                                           *)
Operations ==
  /\ given' = (given \union req) \ ackL
  /\ req' \in SUBSET (Ops \ given')
  /\ dataL' \in {d \in [Ops -> {<<>>} \union {<<w>> : w \in UNION {Operands[i] : i \in Ops}}] :
                   \A i \in Ops : IF i \in given' THEN d[i] = dataL[i]
                                  ELSE IF i \in req' THEN d[i] \in {<<w>> : w \in Operands[i]}
                                  ELSE d[i] = <<>>}
  /\ expected' = (expected \ ackR) \union reqR
  /\ reqR' \in SUBSET (Ops \ (expected' \ ackR'))

OpTick ==
  /\ AccessRegulators
  /\ ReceiveBuffers
  /\ UnloadBuffers
  /\ fair_register' = next_reqIn_register(num_ops, reqFromRx, fair_register, ackToRx)
  /\ Operations
  /\ taken_in' = [i \in Ops |-> IF i \in ackL THEN dataL[i] ELSE <<>>]
  /\ handed_out' = dataR

OpSpec == OpInit /\ [][OpTick]_op_vars

----------------------------------------------------------------------------
(* The words of operation i that are under way, oldest first.              *)
UnderWay(i) == dataR[i] \o ub_queue[i] \o rx_queue[i]

(* To each of the operations the shared operator is one of its own: its    *)
(* results come once each and in the order of its operands, whatever the   *)
(* others do in between (SplitOperatorShared.vhd:112-186).                 *)
Operator(i) == INSTANCE AbstractPipe WITH
                 Depth    <- input_buffering[i] + output_buffering[i] + 1,
                 Word     <- Operands[i],
                 Lifo     <- FALSE,
                 contents <- UnderWay(i),
                 put      <- taken_in[i],
                 got      <- handed_out[i]
OperationsAreSeparate ==
  /\ \A i \in Ops : Operator(i)!Init
  /\ [][\A i \in Ops : Operator(i)!Next]_op_vars

(* An operation that asks for its results again and again has its operands *)
(* taken in and gets a result for them, whether or not another one asks    *)
(* for its own, if the other one has room in its queue for as many results *)
(* as it has slots: "limit the number of pending requests to at most       *)
(* num_slots" (access_regulator_base.vhdl:35-36) then keeps it from        *)
(* blocking the operator.                                                  *)
Asks(i) == i \in reqR \union expected
RoomForItsSlots(i) == num_slots[i] <= ub_depth(i)
EveryOperationCompletes ==
  \A i \in Ops :
    (\A j \in Ops : i = j \/ ~RoomForItsSlots(j) => []<>Asks(j)) =>
      /\ i \in given \union req ~> taken_in[i] # <<>>
      /\ UnderWay(i) # <<>> ~> handed_out[i] # <<>>
=============================================================================
