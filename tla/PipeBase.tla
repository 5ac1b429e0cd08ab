------------------------------ MODULE PipeBase ------------------------------
(***************************************************************************)
(* PipeBase.vhd: a pipe of the generated hardware.  Several writers reach  *)
(* the queue through OutputPortLevel.vhd (fair), several readers through   *)
(* InputPortLevel.vhd (fixed priority).  A port raises its request and     *)
(* holds it, with its word, until it is acknowledged.                      *)
(*                                                                         *)
(* The queue inside is a QueueBase, with or without bypass, when the pipe  *)
(* is shallow, and a SynchFifoWithDPRAM or a ShiftRegisterQueue when it is *)
(* deep; a pipe declared $lifo is a SynchLifo.  A pipe of depth 0, which   *)
(* is what becomes of a $p2p one, is a set of wires, never bypassed.       *)
(***************************************************************************)
EXTENDS QueueWithBypass, Arbitration, SequencesExt

CONSTANTS NumWrites, NumReads,  \* generics num_writes and num_reads
          Bypass,               \* generic bypass
          LifoMode,             \* generic lifo_mode
          ShiftRegisterMode,    \* generic shift_register_mode
          Shallowness,          \* global_pipe_shallowness_threshold
          Alternating           \* nobody reads while somebody writes

ASSUME PortsAssumption == NumWrites \in Nat \ {0} /\ NumReads \in Nat \ {0}
ASSUME ThresholdAssumption == Shallowness \in Nat \ {0}
ASSUME StackAssumption == LifoMode => QueueDepth > 0

Writers == 0 .. NumWrites - 1
Readers == 0 .. NumReads - 1

VARIABLES
  write_req, write_data,  \* the writing ports: who requests, and its word
  reqIn_register,         \* of the writers' NobodyLeftBehind
  read_req,               \* the reading ports that request
  store                   \* the state of a deep queue or a stack

pvars == <<vars, write_req, write_data, reqIn_register, read_req, store>>

DeepQueue  == INSTANCE SynchFifoWithDPRAM
StackQueue == INSTANCE SynchLifo
ChainQueue == INSTANCE ShiftRegisterQueue WITH n_stages <- (QueueDepth + 1) \div 2

(* Which queue the generate statements choose.                             *)
Kind == CASE LifoMode                                    -> "stack"
          [] ~LifoMode /\ QueueDepth < Shallowness        -> "shallow"
          [] ~LifoMode /\ QueueDepth >= Shallowness       ->
               IF ShiftRegisterMode THEN "chain" ELSE "deep"

Bypassed == Bypass /\ QueueDepth > 0

PInit ==
  /\ Init
  /\ write_req = {}
  /\ write_data = [i \in Writers |-> Zero]
  /\ reqIn_register = {}
  /\ read_req = {}
  /\ store = CASE Kind = "stack"   -> StackQueue!InitLifo
               [] Kind = "deep"    -> DeepQueue!InitFifo
               [] Kind = "chain"   -> ChainQueue!InitStages
               [] Kind = "shallow" -> <<>>

(* The writer whose word is presented to the queue, at most one: with a    *)
(* single writer there is no OutputPortLevel.                              *)
wmux_active == PriorityEncode(reqOut(NumWrites, write_req, reqIn_register))
rmux_active == PriorityEncode(read_req)

pipe_req  == wmux_active # {}
pipe_data == IF pipe_req THEN write_data[CHOOSE i \in wmux_active : TRUE] ELSE Zero
pipe_req_repeated == rmux_active # {}

(* The queue's side of the two handshakes.                                 *)
pipe_ack ==
  CASE Kind = "stack"   -> StackQueue!lifo_push_ack(store)
    [] Kind = "deep"    -> DeepQueue!fifo_push_ack(store)
    [] Kind = "chain"   -> ChainQueue!stages_push_ack(store)
    [] Kind = "shallow" -> IF Bypassed THEN bypass_push_ack
                           ELSE push_ack(pipe_req_repeated)
pipe_ack_repeated ==
  CASE Kind = "stack"   -> StackQueue!lifo_pop_ack(store)
    [] Kind = "deep"    -> DeepQueue!fifo_pop_ack(store)
    [] Kind = "chain"   -> ChainQueue!stages_pop_ack(store)
    [] Kind = "shallow" -> IF Bypassed THEN bypass_pop_ack(pipe_req)
                           ELSE pop_ack(pipe_req)
pipe_data_repeated ==
  CASE Kind = "stack"   -> StackQueue!lifo_data_out(store)
    [] Kind = "deep"    -> DeepQueue!fifo_data_out(store)
    [] Kind = "chain"   -> ChainQueue!stages_data_out(store)
    [] Kind = "shallow" -> IF Bypassed THEN bypass_data_out(pipe_data)
                           ELSE data_out(pipe_data)

write_ack == IF pipe_ack THEN wmux_active ELSE {}
read_ack  == IF pipe_ack_repeated THEN rmux_active ELSE {}

ShallowEdge ==
  IF Bypassed THEN BypassClock(pipe_req, pipe_data, pipe_req_repeated)
  ELSE IF QueueDepth = 0 THEN UNCHANGED queue
  ELSE Clock(push(pipe_req, pipe_req_repeated),
             pop(pipe_req, pipe_req_repeated), pipe_data)

QueueEdge ==
  IF Kind = "shallow" THEN ShallowEdge /\ UNCHANGED store
  ELSE /\ store' =
            CASE Kind = "stack" -> StackQueue!LifoEdge(store, pipe_req, pipe_data,
                                                 pipe_req_repeated)
              [] Kind = "deep"  -> DeepQueue!FifoEdge(store, pipe_req, pipe_data,
                                                 pipe_req_repeated)
              [] Kind = "chain" -> ChainQueue!StagesEdge(store, pipe_req, pipe_data,
                                                    pipe_req_repeated)
       /\ UNCHANGED queue

(* After the edge a port that was acknowledged may request again at once,  *)
(* and one that did not request may begin to; the others hold on.          *)
Ports ==
  /\ write_req' \in {r \in SUBSET Writers : write_req \ write_ack \subseteq r}
  /\ write_data' \in {d \in [Writers -> Word] :
                        /\ \A i \in write_req \ write_ack : d[i] = write_data[i]
                        /\ \A i \in Writers \ write_req' : d[i] = Zero}
  /\ read_req' \in {r \in SUBSET Readers : read_req \ read_ack \subseteq r}
  /\ Alternating => write_req' = {} \/ read_req' = {}

(* One edge of the clock; put and got are the words the acknowledged ports   *)
(* saw exchanged.                                                          *)
PTick ==
  /\ QueueEdge
  /\ reqIn_register' = next_reqIn_register(NumWrites, write_req,
                                           reqIn_register, write_ack)
  /\ LET acked == SetToSeq(write_ack)
     IN  put' = [k \in DOMAIN acked |-> write_data[acked[k]]]
  /\ got' = [k \in 1 .. Cardinality(read_ack) |-> pipe_data_repeated]
  /\ Ports

PSpec == PInit /\ [][PTick]_pvars

----------------------------------------------------------------------------
PTypeOK ==
  /\ TypeOK
  /\ write_req \subseteq Writers /\ read_req \subseteq Readers
  /\ write_data \in [Writers -> Word]
  /\ reqIn_register \subseteq write_req

(* The words in the pipe, and how many there can be: a deep queue has a    *)
(* place at its output besides its memory.                                 *)
held == CASE Kind = "stack"   -> StackQueue!LifoHolds(store)
          [] Kind = "deep"    -> DeepQueue!FifoHolds(store)
          [] Kind = "chain"   -> ChainQueue!StagesHold(store)
          [] Kind = "shallow" -> contents
Capacity == CASE Kind = "deep"  -> QueueDepth + 1
              [] Kind = "chain" -> 2 * ((QueueDepth + 1) \div 2)
              [] OTHER          -> QueueDepth

Slots == INSTANCE AbstractPipe WITH
           Depth <- Capacity, Lifo <- LifoMode, contents <- held

(* To its ports the pipe is a FIFO, or a stack when it is declared $lifo:  *)
(* every acknowledged word is in it once, every word read leaves it,       *)
(* whichever writer and reader the arbiters choose ("pipes can be used to  *)
(* model queues as well as stacks", AaLRM.tex:171).                        *)
PipeStep == [Slots!Next]_<<held, put, got>>
PortsSeeAPipe == Slots!Init /\ [][PipeStep]_pvars

(* "Implementation guarantees registering of every in->out path"           *)
(* (PipeBase.vhd:45): a word is never handed out in the cycle in which it  *)
(* is taken in.  True of a pipe with places and without the generic bypass. *)
Registered == put' # <<>> /\ got' # <<>> => held # <<>>
=============================================================================
