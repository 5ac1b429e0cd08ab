----------------------------- MODULE MCBuffers -----------------------------
(***************************************************************************)
(* Unload buffers of every form, each on its own ("buffer"), and in a      *)
(* shared operator of two operations ("operator"): every behaviour is that *)
(* of one.  The operations have room for one word of operands; the first   *)
(* has one slot and no queue for its results, so that it can block the     *)
(* operator, the second has two slots and a queue of two.  The words of    *)
(* the second differ, so that their order can be seen, and so that an      *)
(* operator it keeps busy for ever is not taken for one that stands still. *)
(***************************************************************************)
EXTENDS UnloadBuffer, SplitOperatorShared

VARIABLES clk, part

OneEach    == [i \in Ops |-> 1]
OneAndTwo  == [i \in Ops |-> i + 1]
MCOperands == [i \in Ops |-> IF i = 0 THEN {1} ELSE {0, 1}]

MCvars == <<uvars, op_vars, clk, part>>

(* The clock runs: an edge at which nothing else changes is an edge too.   *)
RisingEdge == clk' = ~clk

MCInit ==
  /\ clk = FALSE
  /\ OpInit
  /\ UInit
  /\ \/ part = "buffer"
     \/ part = "operator" /\ entity = Elaborated([buffer_size |-> 0, bypass_flag |-> FALSE,
          nonblocking_read_flag |-> FALSE, use_safe_mode |-> FALSE, use_unload_register |-> TRUE])

ABuffer(step)   == part = "buffer" /\ step /\ UNCHANGED <<op_vars, part>>
AnOperator(step) == part = "operator" /\ step /\ UNCHANGED <<uvars, part>>

MCNext == RisingEdge /\ (ABuffer(UTick) \/ AnOperator(OpTick))

MCSpec == MCInit /\ [][MCNext]_MCvars /\ WF_clk(RisingEdge)
=============================================================================
