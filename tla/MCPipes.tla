------------------------------ MODULE MCPipes ------------------------------
(***************************************************************************)
(* The pipes the hardware knows, small instances of each, side by side:    *)
(* every behaviour is that of one pipe.  The one this module extends has a *)
(* bypass; the others differ in the generics below.                        *)
(***************************************************************************)
EXTENDS PipeBase

VARIABLES clk, pipe

Register == INSTANCE PipeBase WITH
  QueueDepth <- 1, NumWrites <- 3, NumReads <- 1, Bypass <- FALSE
Wires == INSTANCE PipeBase WITH QueueDepth <- 0
DeepFifo == INSTANCE PipeBase WITH
  QueueDepth <- 3, NumReads <- 1, Bypass <- FALSE, Shallowness <- 3
ShiftFifo == INSTANCE PipeBase WITH
  QueueDepth <- 3, NumReads <- 1, Bypass <- FALSE, Shallowness <- 3,
  ShiftRegisterMode <- TRUE
StackInTurns == INSTANCE PipeBase WITH
  QueueDepth <- 3, NumReads <- 1, Bypass <- FALSE, LifoMode <- TRUE,
  Alternating <- TRUE

(* The clock runs: an edge at which nothing else changes is an edge too.   *)
RisingEdge == clk' = ~clk

MCInit ==
  /\ clk = FALSE
  /\ \/ pipe = "bypass" /\ PInit
     \/ pipe = "register" /\ Register!PInit
     \/ pipe = "wires" /\ Wires!PInit
     \/ pipe = "deep" /\ DeepFifo!PInit
     \/ pipe = "shift" /\ ShiftFifo!PInit
     \/ pipe = "stack" /\ StackInTurns!PInit

MCNext ==
  /\ RisingEdge /\ UNCHANGED pipe
  /\ \/ pipe = "bypass" /\ PTick
     \/ pipe = "register" /\ Register!PTick
     \/ pipe = "wires" /\ Wires!PTick
     \/ pipe = "deep" /\ DeepFifo!PTick
     \/ pipe = "shift" /\ ShiftFifo!PTick
     \/ pipe = "stack" /\ StackInTurns!PTick

MCvars == <<pvars, clk, pipe>>

MCSpec == MCInit /\ [][MCNext]_MCvars /\ WF_clk(RisingEdge)

(* Each of the pipes is a pipe to its ports (PipeBase!PortsSeeAPipe).      *)
AllArePipes ==
  /\ \/ pipe = "bypass" /\ Slots!Init
     \/ pipe = "register" /\ Register!Slots!Init
     \/ pipe = "wires" /\ Wires!Slots!Init
     \/ pipe = "deep" /\ DeepFifo!Slots!Init
     \/ pipe = "shift" /\ ShiftFifo!Slots!Init
     \/ pipe = "stack" /\ StackInTurns!Slots!Init
  /\ [][CASE pipe = "bypass"   -> PipeStep
          [] pipe = "register" -> Register!PipeStep
          [] pipe = "wires"    -> Wires!PipeStep
          [] pipe = "deep"     -> DeepFifo!PipeStep
          [] pipe = "shift"    -> ShiftFifo!PipeStep
          [] pipe = "stack"    -> StackInTurns!PipeStep]_MCvars

(* Each of them, but the one with a bypass and the wires, registers every  *)
(* path: a word is not handed out in the cycle in which it is taken in     *)
(* (PipeBase.vhd:45).                                                      *)
PathsAreRegistered ==
  [][CASE pipe \in {"bypass", "wires"} -> TRUE
       [] pipe = "register" -> Register!Registered
       [] pipe = "deep"     -> DeepFifo!Registered
       [] pipe = "shift"    -> ShiftFifo!Registered
       [] pipe = "stack"    -> StackInTurns!Registered]_MCvars

(* A writer that waits is acknowledged at last, whatever the other writers *)
(* do, if there are readers again and again (OutputPortLevel.vhd:66-81).   *)
Acked == CASE pipe = "bypass"   -> write_ack
           [] pipe = "register" -> Register!write_ack
           [] pipe = "wires"    -> Wires!write_ack
           [] pipe = "deep"     -> DeepFifo!write_ack
           [] pipe = "shift"    -> ShiftFifo!write_ack
           [] pipe = "stack"    -> StackInTurns!write_ack
AllWritersProgress ==
  ([]<>(read_req # {})) => \A i \in 0 .. 2 : i \in write_req ~> i \in Acked
=============================================================================
