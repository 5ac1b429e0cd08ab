------------------------------ MODULE MCMemory ------------------------------
(***************************************************************************)
(* Memories side by side: every behaviour is that of one.  The one this    *)
(* module extends is memory_subsystem.vhd with one load and one store port *)
(* and any number of requests.                                             *)
(***************************************************************************)
EXTENDS MemorySubsystem

VARIABLES clk, memory, lc_ack_flag, sc_ack_flag

(* ordered_memory_subsystem.vhd: repeaters where there are several ports.  *)
Ordered == INSTANCE MemorySubsystem WITH
  LoadPorts <- {0, 1}, LoadStages <- 1, Quarter <- 4, Word <- {1},
  MaxRequests <- 4, MaxStall <- 1

Registers == INSTANCE RegisterBank WITH
  StorePorts <- {0, 1}, MaxRequests <- 0, MaxStall <- 2, register_array <- mem_array

(* The clock runs: an edge at which nothing else changes is an edge too.   *)
RisingEdge == clk' = ~clk

MCInit ==
  /\ clk = FALSE
  /\ \/ memory = "plain" /\ Init /\ lc_ack_flag = <<>> /\ sc_ack_flag = {}
     \/ memory = "ordered" /\ Ordered!Init /\ lc_ack_flag = <<>> /\ sc_ack_flag = {}
     \/ /\ memory = "registers" /\ Registers!BInit
        /\ raw_time_stamp = 0 /\ load_repeater = <<>> /\ store_repeater = <<>>
        /\ lrr = <<>> /\ srr = <<>> /\ fsm_state = "IDLE" /\ result = <<>>

MCNext ==
  /\ RisingEdge /\ UNCHANGED memory
  /\ \/ memory = "plain" /\ Next /\ UNCHANGED <<lc_ack_flag, sc_ack_flag>>
     \/ memory = "ordered" /\ Ordered!Next /\ UNCHANGED <<lc_ack_flag, sc_ack_flag>>
     \/ /\ memory = "registers" /\ Registers!BNext
        /\ UNCHANGED <<raw_time_stamp, load_repeater, store_repeater, lrr, srr,
                       fsm_state, result>>

MCvars == <<mvars, clk, memory, lc_ack_flag, sc_ack_flag>>

MCSpec == MCInit /\ [][MCNext]_MCvars /\ WF_clk(RisingEdge)

(* Each of them is a memory to its ports (MemoryPorts!IsAMemory).          *)
AllAreMemories ==
  /\ \/ memory = "plain" /\ M!Init
     \/ memory = "ordered" /\ Ordered!M!Init
     \/ memory = "registers" /\ Registers!M!Init
  /\ [][CASE memory = "plain"     -> [M!Next]_(M!memory)
          [] memory = "ordered"   -> [Ordered!M!Next]_(M!memory)
          [] memory = "registers" -> [Registers!M!Next]_(M!memory)]_MCvars

(* None of them is so slow that its stamps mislead it.                     *)
StampsAreTold ==
  CASE memory = "plain"   -> StampsTellTheOrder
    [] memory = "ordered" -> Ordered!StampsTellTheOrder
    [] OTHER              -> TRUE

(* Whoever asks one of them is served (MemoryPorts!EveryAccessCompletes).  *)
EverybodyIsServed ==
  /\ \A p \in 0 .. 1 : (p \in DOMAIN lr_in /\ lr_in[p] # <<>>) ~> Completed("load", p)
  /\ \A p \in 0 .. 1 : (p \in DOMAIN sr_in /\ sr_in[p] # <<>>) ~> Completed("store", p)
=============================================================================
