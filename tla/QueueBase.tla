----------------------------- MODULE QueueBase -----------------------------
(***************************************************************************)
(* The clocked FIFO under every pipe, arbiter and unload buffer of the     *)
(* generated hardware: QueueBase.vhd, its empty/full state machine         *)
(* QueueEmptyFullLogic.vhd, and QueueBaseWithEmptyFull.vhd, which is the   *)
(* same queue with an optional reverse bypass (a full queue accepts a word *)
(* in the cycle in which one leaves).                                      *)
(*                                                                         *)
(* A step is one rising edge of the clock.  push_req, data_in and pop_req  *)
(* are what the environment drives in the cycle before it; push_ack,       *)
(* pop_ack and data_out are the combinational outputs in that cycle.  The  *)
(* initial state is the state after a synchronous reset.                   *)
(***************************************************************************)
EXTENDS Integers, Sequences

CONSTANTS QueueDepth,     \* generic queue_depth
          ReverseBypass,  \* generic reverse_bypass_flag; FALSE in QueueBase
          Word,           \* the words that travel through it
          Zero            \* what a reset leaves in the registers

ASSUME QueueDepthAssumption == QueueDepth \in Nat
ASSUME ReverseBypassAssumption == ReverseBypass \in BOOLEAN
ASSUME ZeroIsAWord == Zero \in Word

VARIABLES
  fsm_state,      \* of QueueEmptyFullLogic; with depth 1, full_flag
  read_pointer,
  write_pointer,
  queue_array,    \* with depth 1 its only place is data_reg
  put, got        \* the words exchanged at the last edge

queue == <<fsm_state, read_pointer, write_pointer, queue_array>>
vars  == <<queue, put, got>>

Places == 0 .. QueueDepth - 1

Init ==
  /\ fsm_state = "EMPTY"
  /\ read_pointer = 0
  /\ write_pointer = 0
  /\ queue_array = [i \in 0 .. QueueDepth - 1 |-> Zero]
  /\ put = <<>>
  /\ got = <<>>

(* A queue of depth 0 is a set of wires, neither empty nor able to hold.   *)
full  == fsm_state = "FULL" \/ QueueDepth = 0
empty == fsm_state = "EMPTY"

push_ack_without_pop(pop_req) == IF QueueDepth = 0 THEN pop_req
                                 ELSE ~full \/ ReverseBypass

pop_ack_combinational(push_req) == push_req \/ ~empty

push_ack(pop_req)  == IF QueueDepth = 0 THEN pop_req
                      ELSE ~full \/ (ReverseBypass /\ pop_req)
pop_ack(push_req)  == IF QueueDepth = 0 THEN push_req ELSE ~empty
data_out(data_in)  == IF QueueDepth = 0 THEN data_in ELSE queue_array[read_pointer]

(* What is really pushed and popped: request and acknowledge together.     *)
push(push_req, pop_req) == push_req /\ push_ack(pop_req)
pop(push_req, pop_req)  == pop_req /\ pop_ack(push_req)

IncrWrap(x) == IF x = QueueDepth - 1 THEN 0 ELSE x + 1

next_fsm_state_hasty(write, read, eq_flag) ==
  CASE fsm_state = "EMPTY" /\ write /\ ~read                 -> "INBETWEEN"
    [] fsm_state = "INBETWEEN" /\ read /\ ~write /\ eq_flag  -> "EMPTY"
    [] fsm_state = "INBETWEEN" /\ write /\ ~read             -> "FULL"
    [] fsm_state = "FULL" /\ read                            -> "INBETWEEN"
    [] OTHER                                                 -> fsm_state

(* QueueEmptyFullLogic: eq_flag compares the pointers after the edge.      *)
next_fsm_state(write, read, eq_flag) ==
  CASE fsm_state = "EMPTY" /\ write /\ ~read                 -> "INBETWEEN"
    [] fsm_state = "INBETWEEN" /\ read /\ ~write /\ eq_flag  -> "EMPTY"
    [] fsm_state = "INBETWEEN" /\ write /\ ~read /\ eq_flag  -> "FULL"
    [] fsm_state = "FULL" /\ read /\ ~write                  -> "INBETWEEN"
    [] OTHER                                                 -> fsm_state

(* A queue of depth 1 is a register and its full_flag.                     *)
next_full_flag(write, read) ==
  IF write THEN "FULL" ELSE IF read THEN "EMPTY" ELSE fsm_state

Clock(write, read, data_in) ==
  /\ read_pointer' = IF read THEN IncrWrap(read_pointer) ELSE read_pointer
  /\ write_pointer' = IF write THEN IncrWrap(write_pointer) ELSE write_pointer
  /\ queue_array' = IF write THEN [queue_array EXCEPT ![write_pointer] = data_in]
                             ELSE queue_array
  /\ fsm_state' = IF QueueDepth = 1 THEN next_full_flag(write, read)
                  ELSE next_fsm_state(write, read, read_pointer' = write_pointer')

Tick(push_req, data_in, pop_req) ==
  /\ IF QueueDepth = 0 THEN UNCHANGED queue
     ELSE Clock(push(push_req, pop_req), pop(push_req, pop_req), data_in)
  /\ put' = IF push(push_req, pop_req) THEN <<data_in>> ELSE <<>>
  /\ got' = IF pop(push_req, pop_req) THEN <<data_out(data_in)>> ELSE <<>>

Next == \E push_req, pop_req \in BOOLEAN, data_in \in Word :
          Tick(push_req, data_in, pop_req)

Spec == Init /\ [][Next]_vars

----------------------------------------------------------------------------
TypeOK ==
  /\ fsm_state \in {"EMPTY", "INBETWEEN", "FULL"}
  /\ read_pointer \in Nat /\ write_pointer \in Nat
  /\ QueueDepth > 0 => read_pointer \in Places /\ write_pointer \in Places
  /\ queue_array \in [Places -> Word]
  /\ put \in {<<>>} \union {<<w>> : w \in Word}
  /\ got \in {<<>>} \union {<<w>> : w \in Word}

(* How far the write pointer is ahead of the read pointer, around the ring. *)
Distance == IF read_pointer <= write_pointer THEN write_pointer - read_pointer
            ELSE write_pointer + QueueDepth - read_pointer

(* The state machine never counts; it is right all the same.  The pointers *)
(* meet exactly when the queue is empty or full, and then the state says   *)
(* which of the two it is (QueueEmptyFullLogic.vhd:26-45).                 *)
FlagsMatchPointers ==
  QueueDepth > 1 => (fsm_state = "INBETWEEN" <=> read_pointer # write_pointer)

(* The words the queue holds, oldest first.                                *)
Held == CASE fsm_state = "EMPTY"     -> 0
          [] fsm_state = "INBETWEEN" -> Distance
          [] fsm_state = "FULL"      -> QueueDepth
Slot(k) == IF read_pointer + k < QueueDepth THEN read_pointer + k
           ELSE read_pointer + k - QueueDepth
contents == [k \in 1 .. Held |-> queue_array[Slot(k - 1)]]

(* The queue is a pipe of queue_depth words: what it hands out is what it  *)
(* took in, in that order, none lost and none twice, at every depth and    *)
(* with push and pop in the same cycle.                                    *)
Pipe == INSTANCE AbstractPipe WITH Depth <- QueueDepth, Lifo <- FALSE
IsAPipe == Pipe!Spec
=============================================================================
