---------------------------- MODULE UnloadBuffer ----------------------------
(***************************************************************************)
(* UnloadBuffer.vhd and what it generates: the buffer in front of an       *)
(* operator, a module or a requester of the generated hardware.  Words are *)
(* written with a level handshake; the reader asks with a pulse unload_req *)
(* and finds its word on read_data when unload_ack is true.  The generics  *)
(* choose one of five forms:                                               *)
(*   "register"  a queue, or none, and an UnloadRegister behind it;        *)
(*   "deep"      UnloadBufferDeep: the same with a SynchFifoWithDPRAM;     *)
(*   "revised"   UnloadBufferRevised: the queue's output, with UnloadFsm;  *)
(*   "safe"      UnloadBufferRevisedSafe, with UnloadFsmSafe;              *)
(*   "noblock"   UnloadBufferRevisedNonblocking, with UnloadFsmNoBlock.    *)
(*                                                                         *)
(* The shallow queue is a QueueBaseWithEmptyFull, an AbstractPipe          *)
(* (QueueBase_proof): it is the sequence of its words here.                *)
(***************************************************************************)
EXTENDS SynchFifoWithDPRAM

CONSTANTS Word,
          Shallowness,    \* global_pipe_shallowness_threshold
          Optimized,      \* global_use_optimized_unload_buffer
          MaxSize         \* bound on the generic buffer_size

ASSUME BufferAssumption ==
  /\ QueueDepth \in Nat \ {0}
  /\ Shallowness \in 0 .. QueueDepth /\ MaxSize \in 0 .. QueueDepth
  /\ Zero \in Word

VARIABLES
  entity,         \* what the generics make of it; it never changes
  pipe,           \* the queue: its words, or a SynchFifoWithDPRAM
  fsm_state,      \* of the UnloadRegister or the UnloadFsm
  read_reg,       \* the UnloadRegister's word
  unload_ack_d,   \* the acknowledge it delays by a cycle
  write_req, write_data,   \* the writer, which holds its request
  unload_req,     \* the reader's pulse
  awaited,        \* the reader waits for an answer to an earlier pulse
  seen,           \* it has had one
  put, got        \* the words exchanged at the last edge

form_vars == <<pipe, fsm_state, read_reg, unload_ack_d>>
uvars == <<entity, form_vars, write_req, write_data, unload_req, awaited, seen, put, got>>

(* The generate conditions.                                                *)
shallow(g) == g.buffer_size < Shallowness

revised_case_blocking(g) ==
  /\ g.buffer_size > 0 /\ ~(g.use_safe_mode /\ g.bypass_flag)
  /\ g.bypass_flag \/ g.buffer_size > 1
  /\ shallow(g) /\ ~g.use_unload_register /\ ~g.nonblocking_read_flag

revised_case_non_blocking(g) ==
  /\ Optimized /\ g.buffer_size > 1 /\ ~g.bypass_flag
  /\ shallow(g) /\ g.nonblocking_read_flag

Form(g) == CASE revised_case_blocking(g)     -> IF g.use_safe_mode THEN "safe" ELSE "revised"
             [] revised_case_non_blocking(g) -> "noblock"
             [] ~shallow(g)                  -> "deep"
             [] OTHER                        -> "register"

(* What the generics make of the entity.  A buffer of one word has no      *)
(* queue: the UnloadRegister is its place.                                 *)
Elaborated(g) ==
  [form        |-> Form(g),
   depth       |-> IF Form(g) = "register" /\ ~g.bypass_flag /\ g.buffer_size = 1
                   THEN 0 ELSE g.buffer_size,
   bypass      |-> CASE Form(g) = "register" -> g.bypass_flag \/ g.buffer_size = 0
                     [] Form(g) = "revised"  -> g.bypass_flag
                     [] OTHER                -> FALSE,
   nonblocking |-> g.nonblocking_read_flag]

Generics == [buffer_size : 0 .. MaxSize, bypass_flag : BOOLEAN,
             nonblocking_read_flag : BOOLEAN, use_safe_mode : BOOLEAN,
             use_unload_register : BOOLEAN]

(* The memory of the deep queues has QueueDepth places.                    *)
Entities == {e \in {Elaborated(g) : g \in Generics} : e.form = "deep" => e.depth = QueueDepth}

form        == entity.form
nonblocking == entity.nonblocking
HasRegister == form \in {"register", "deep"}
register_bypass == HasRegister /\ entity.bypass

----------------------------------------------------------------------------
(* The queue.                                                              *)
HasQueue == entity.depth > 0

pipe_words == IF form = "deep" THEN FifoHolds(pipe) ELSE pipe
pop_ack    == IF form = "deep" THEN fifo_pop_ack(pipe) ELSE pipe # <<>>
pipe_data_out == IF form = "deep" THEN fifo_data_out(pipe)
                 ELSE IF pipe # <<>> THEN Head(pipe) ELSE Zero
push_ack(pop_req) ==
  IF form = "deep" THEN fifo_push_ack(pipe)
  ELSE \/ Len(pipe) < entity.depth
       \/ entity.bypass /\ form = "revised" /\ pop_req      \* reverse bypass

pipe_has_data == pipe_words # <<>>

QueueEdge(push_req, pop_req) ==
  pipe' = IF form = "deep" THEN FifoEdge(pipe, push_req, write_data, pop_req)
          ELSE (IF pop_req /\ pop_ack THEN Tail(pipe) ELSE pipe)
               \o (IF push_req /\ push_ack(pop_req) THEN <<write_data>> ELSE <<>>)

----------------------------------------------------------------------------
(* UnloadRegister.  The two waiting states of its bypassed form behave     *)
(* alike and are one here.                                                 *)
register_ready ==
  fsm_state = "Waiting" \/ (~register_bypass /\ fsm_state = "Idle" /\ unload_req)

write_to_pipe_if_data == HasQueue /\ pipe_has_data

write_to_pipe == HasQueue /\ (pipe_has_data \/ ~register_ready)

register_write_req  == IF pipe_has_data THEN pop_ack ELSE write_req
register_write_data == IF pipe_has_data THEN pipe_data_out ELSE write_data

load == register_ready /\ (register_write_req \/ nonblocking)
load_data == IF register_write_req THEN register_write_data ELSE Zero

next_register_state_forgetful ==
  IF register_bypass /\ unload_req THEN "Waiting" ELSE "Idle"

next_register_state ==
  IF register_bypass
  THEN IF unload_req \/ (fsm_state = "Waiting" /\ ~load) THEN "Waiting" ELSE "Idle"
  ELSE IF register_ready /\ ~load THEN "Waiting" ELSE "Idle"

RegisterEdge ==
  /\ fsm_state' = next_register_state
  /\ read_reg' = IF load THEN load_data ELSE read_reg
  /\ unload_ack_d' = (load /\ ~register_bypass)
  /\ IF HasQueue THEN QueueEdge(write_req /\ write_to_pipe, register_ready)
     ELSE UNCHANGED pipe

----------------------------------------------------------------------------
(* The forms without a register: the word stays at the head of the queue   *)
(* until the reader has done with it.                                      *)

(* QueueBaseWithEmptyFullNext: after a pop there will be a word.           *)
next_valid == Len(pipe) > 1 \/ write_req

unload_pop_at_once == pipe # <<>> /\ (unload_req \/ fsm_state = "DataValid")

(* Does the state machine pop the word the reader has done with?           *)
unload_pop ==
  CASE form = "revised" -> \/ fsm_state = "DataValid" /\ unload_req
                           \/ fsm_state = "WaitOnData" /\ pipe # <<>> /\ unload_req
    [] form = "safe"    -> \/ fsm_state = "DataValid" /\ unload_req /\ next_valid
                           \/ fsm_state = "WaitOnNext" /\ next_valid
    [] form = "noblock" -> \/ fsm_state = "DataValid" /\ unload_req
                           \/ fsm_state = "UnloadAck" /\ pipe # <<>> /\ unload_req
    [] OTHER            -> FALSE

UnloadFsm ==
  CASE fsm_state = "Idle" /\ unload_req -> IF pipe # <<>> THEN "DataValid" ELSE "WaitOnData"
    [] fsm_state = "DataValid" /\ unload_req -> "WaitOnData"
    [] fsm_state = "WaitOnData" /\ pipe # <<>> /\ ~unload_req -> "DataValid"
    [] OTHER -> fsm_state

UnloadFsmSafe ==
  CASE fsm_state = "Idle" /\ unload_req -> IF pipe # <<>> THEN "DataValid" ELSE "WaitOnWrite"
    [] fsm_state = "WaitOnWrite" /\ pipe # <<>> -> "DataValid"
    [] fsm_state = "WaitOnNext" /\ next_valid -> "DataValid"
    [] fsm_state = "DataValid" /\ unload_req /\ ~next_valid -> "WaitOnNext"
    [] OTHER -> fsm_state

UnloadFsmNoBlock ==
  CASE fsm_state # "UnloadAck" /\ unload_req -> "UnloadAck"
    [] fsm_state = "UnloadAck" /\ ~unload_req -> IF pipe # <<>> THEN "DataValid" ELSE "ZeroData"
    [] OTHER -> fsm_state

(* The delayed acknowledges of UnloadFsm and UnloadFsmSafe.                *)
next_unload_ack_d ==
  CASE form = "revised" -> fsm_state = "Idle" /\ unload_req /\ pipe # <<>>
    [] form = "safe"    -> \/ fsm_state \in {"Idle", "WaitOnWrite"} /\ UnloadFsmSafe = "DataValid"
                           \/ unload_pop
    [] OTHER            -> FALSE

FsmEdge ==
  /\ fsm_state' = CASE form = "revised" -> UnloadFsm
                    [] form = "safe"    -> UnloadFsmSafe
                    [] form = "noblock" -> UnloadFsmNoBlock
  /\ unload_ack_d' = next_unload_ack_d
  /\ QueueEdge(write_req, unload_pop)
  /\ UNCHANGED read_reg

----------------------------------------------------------------------------
(* The outputs in a cycle.                                                 *)
write_ack == IF HasRegister THEN IF HasQueue THEN push_ack(register_ready) ELSE register_ready
             ELSE push_ack(unload_pop)

unload_ack ==
  CASE HasRegister      -> IF register_bypass THEN load ELSE unload_ack_d
    [] form = "revised" -> unload_ack_d \/ (fsm_state = "WaitOnData" /\ pipe # <<>>)
    [] form = "safe"    -> unload_ack_d
    [] form = "noblock" -> fsm_state = "UnloadAck"

read_data ==
  CASE HasRegister      -> IF register_bypass /\ load THEN load_data ELSE read_reg
    [] form = "noblock" -> IF fsm_state = "ZeroData" THEN Zero ELSE pipe_data_out
    [] OTHER            -> pipe_data_out

----------------------------------------------------------------------------
UInit ==
  /\ entity \in Entities
  /\ pipe = IF form = "deep" THEN InitFifo ELSE <<>>
  /\ fsm_state = "Idle"
  /\ read_reg = Zero
  /\ unload_ack_d = FALSE
  /\ write_req = FALSE /\ write_data = Zero
  /\ unload_req = FALSE /\ awaited = FALSE /\ seen = FALSE
  /\ put = <<>> /\ got = <<>>

(* The writer is an InterlockBuffer, or anybody else who holds its request *)
(* and its word until they are acknowledged.  Words are not zero, which is *)
(* what a reader that does not block finds when there is none.             *)
Writer ==
  /\ write_req' \in BOOLEAN
  /\ write_data' \in IF write_req' THEN Word \ {Zero} ELSE {Zero}
  /\ write_req /\ ~write_ack => write_req' /\ write_data' = write_data

(* The reader asks again when it has been answered, in that cycle already. *)
Reader ==
  /\ awaited' = ((awaited /\ ~unload_ack) \/ unload_req)
  /\ unload_req' \in BOOLEAN
  /\ unload_req' => ~awaited' \/ unload_ack'
  /\ seen' = (seen \/ unload_ack)

UTick ==
  /\ UNCHANGED entity
  /\ IF HasRegister THEN RegisterEdge ELSE FsmEdge
  /\ put' = IF write_req /\ write_ack THEN <<write_data>> ELSE <<>>
  /\ got' = IF unload_ack /\ ~(nonblocking /\ read_data = Zero) THEN <<read_data>> ELSE <<>>
  /\ Writer
  /\ Reader

USpec == UInit /\ [][UTick]_uvars

----------------------------------------------------------------------------
(* The words that were written and not yet read.                           *)
AtHead == CASE form = "revised" -> fsm_state = "DataValid" /\ ~unload_ack_d
            [] form = "safe"    -> fsm_state = "WaitOnNext" \/ (fsm_state = "DataValid" /\ ~unload_ack_d)
            [] form = "noblock" -> fsm_state = "DataValid"
            [] OTHER            -> FALSE
contents ==
  (IF HasRegister /\ unload_ack_d /\ read_reg # Zero THEN <<read_reg>> ELSE <<>>)
  \o (IF AtHead THEN Tail(pipe_words) ELSE pipe_words)

Buffer == INSTANCE AbstractPipe WITH Depth <- QueueDepth + 2, Lifo <- FALSE

(* Whatever its form, the buffer hands out the words it took in, in their  *)
(* order, none lost and none twice; a reader that does not block gets a    *)
(* zero when there is none, and then nothing is taken.                     *)
UnloadBuffersArePipes == Buffer!Init /\ [][[Buffer!Next]_<<contents, put, got>>]_uvars

(* What unload_ack has shown stays on read_data: "the read_data is         *)
(* maintained until the next unload_ack" (UnloadBufferRevisedSafe.vhd:56-  *)
(* 58), as behind a register, and in the other forms "until the next       *)
(* unload_req is asserted" (UnloadBufferRevised.vhd:53-55).                *)
Shown == seen \/ unload_ack
ReadDataIsHeld ==
  [][IF HasRegister \/ form = "safe"
     THEN Shown /\ ~unload_ack' => read_data' = read_data
     ELSE Shown /\ (awaited => unload_ack) /\ ~unload_req => read_data' = read_data]_uvars

(* A pulse is answered at last if words are written again and again, and   *)
(* in any case by a buffer that does not block.                            *)
EveryUnloadIsAnswered ==
  nonblocking \/ []<>write_req => (awaited ~> unload_ack)
=============================================================================
