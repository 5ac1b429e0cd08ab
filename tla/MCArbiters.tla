----------------------------- MODULE MCArbiters -----------------------------
(***************************************************************************)
(* The arbiters side by side: every behaviour is that of one.  "nobody" is *)
(* the fair arbiter alone, "calls" a call arbiter of two callers.  The     *)
(* words of its first caller differ, so that their order can be seen;      *)
(* those of the second are told from the first's.                          *)
(***************************************************************************)
EXTENDS NobodyLeftBehind, SplitCallArbiter

VARIABLES turn, arbiter

TwoCallers == [i \in 0 .. 1 |-> IF i = 0 THEN {0, 1} ELSE {0}]

MCInit ==
  /\ turn = FALSE
  /\ CallInit
  /\ \/ arbiter = "nobody" /\ Init
     \/ /\ arbiter = "calls"
        /\ reqIn = {} /\ reqIn_register = {} /\ victim = 0 /\ overtaken = NobodyYet

Nobody(step) == arbiter = "nobody" /\ step /\ UNCHANGED <<call_vars, arbiter>>
Calls(step)  == arbiter = "calls" /\ step /\ UNCHANGED <<vars, arbiter>>

(* The edges at which the resource or the module does its part, one at     *)
(* which nothing else changes included: there are infinitely many.         *)
DoesItsPart == turn' = ~turn

MCNext == \/ DoesItsPart /\ (Nobody(Serve) \/ Calls(CallLively))
          \/ UNCHANGED turn /\ (Nobody(Next) \/ Calls(CallNext))

MCvars == <<vars, call_vars, turn, arbiter>>

MCSpec == MCInit /\ [][MCNext]_MCvars /\ WF_turn(DoesItsPart)
=============================================================================
