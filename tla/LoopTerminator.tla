--------------------------- MODULE LoopTerminator ---------------------------
(***************************************************************************)
(* The controller of a pipelined do-while loop (loop_terminator.vhdl) and  *)
(* the loop around it, as Aa2VC connects them (AaStatement.cpp:6150-6383). *)
(* An iteration begins with the entry to the loop or with loop_back.  Each *)
(* delivers, after at least a cycle and in either order, the answer of its *)
(* branch (loop_continue or loop_terminate) and the end of its body        *)
(* (loop_body_exit).  Bodies overlap: the next iteration begins as soon as *)
(* the last one answered, while fewer than max_iterations_in_flight bodies *)
(* are unfinished.                                                         *)
(*                                                                         *)
(* A step is one rising edge of the clock; the initial state is the one    *)
(* after a reset.                                                          *)
(***************************************************************************)
EXTENDS Places

CONSTANTS max_iterations_in_flight,
          CounterRange  \* 2 ** the width of available_iterations

ASSUME DepthAssumption == max_iterations_in_flight \in Nat \ {0}
ASSUME WidthAssumption ==
  CounterRange \in Nat /\ CounterRange > max_iterations_in_flight

VARIABLES
  available_iterations,
  lc_place, lt_place, lbe_place,
  inside,     \* the loop has been entered and not left
  running,    \* iterations whose body has not come to its end
  deciding    \* the last iteration has not delivered its answer

terminator == <<available_iterations, lc_place, lt_place, lbe_place>>
vars == <<terminator, inside, running, deciding>>

Init ==
  /\ available_iterations = max_iterations_in_flight - 1
  /\ lc_place = 0 /\ lt_place = 0 /\ lbe_place = 0
  /\ inside = FALSE
  /\ running = 0
  /\ deciding = FALSE

----------------------------------------------------------------------------
(* The combinational outputs in the cycle before the edge.                 *)
incr == lbe_place > 0
loop_back(loop_continue) ==
  bypass_token(lc_place, loop_continue) /\ available_iterations > 0
loop_exit_at_once(loop_continue) == lt_place > 0

loop_exit(loop_continue) ==
  /\ lt_place > 0
  /\ \/ available_iterations = max_iterations_in_flight
     \/ /\ incr /\ ~loop_back(loop_continue)
        /\ available_iterations = max_iterations_in_flight - 1

next_available_not_reset(loop_continue) ==
  IF loop_exit(loop_continue) THEN max_iterations_in_flight
  ELSE available_iterations + Pulse(incr) - Pulse(loop_back(loop_continue))
next_available_end_first(loop_continue) ==
  CASE loop_exit(loop_continue) -> max_iterations_in_flight - 1
    [] ~loop_exit(loop_continue) /\ incr -> available_iterations + 1
    [] ~loop_exit(loop_continue) /\ ~incr ->
         available_iterations - Pulse(loop_back(loop_continue))
next_available_begin_first(loop_continue) ==
  CASE loop_exit(loop_continue) -> max_iterations_in_flight - 1
    [] loop_back(loop_continue) -> available_iterations - 1
    [] OTHER -> available_iterations + Pulse(incr)

next_available_iterations(loop_continue) ==
  LET decr == loop_back(loop_continue) IN
    CASE loop_exit(loop_continue) -> max_iterations_in_flight - 1
      [] ~loop_exit(loop_continue) /\ incr /\ ~decr ->
           (available_iterations + 1) % CounterRange
      [] ~loop_exit(loop_continue) /\ decr /\ ~incr -> available_iterations - 1
      [] OTHER -> available_iterations

Terminate(loop_body_exit, loop_continue, loop_terminate) ==
  /\ available_iterations' = next_available_iterations(loop_continue)
  /\ lbe_place' = place(lbe_place, 1, loop_body_exit, incr)
  /\ lc_place' = flag_with_bypass(lc_place, loop_continue, loop_back(loop_continue))
  /\ lt_place' = place(lt_place, 1, loop_terminate, loop_exit(loop_continue))

(* The pulses the loop around the terminator can send in this cycle.       *)
CanSend(loop_body_exit, loop_continue, loop_terminate, enter) ==
  /\ loop_body_exit => running > 0
  /\ loop_continue \/ loop_terminate => deciding
  /\ ~(loop_continue /\ loop_terminate)
  /\ enter => ~inside \/ loop_exit(loop_continue)

Tick(loop_body_exit, loop_continue, loop_terminate, enter) ==
  /\ CanSend(loop_body_exit, loop_continue, loop_terminate, enter)
  /\ Terminate(loop_body_exit, loop_continue, loop_terminate)
  /\ LET begins == loop_back(loop_continue) \/ enter IN
       /\ inside' = (enter \/ (inside /\ ~loop_exit(loop_continue)))
       /\ running' = running + Pulse(begins) - Pulse(loop_body_exit)
       /\ deciding' = (begins \/ (deciding /\ ~loop_continue /\ ~loop_terminate))

Next == \E loop_body_exit, loop_continue, loop_terminate, enter \in BOOLEAN :
          Tick(loop_body_exit, loop_continue, loop_terminate, enter)

Spec == Init /\ [][Next]_vars

(* The clock runs, and a body that has begun comes to its end.             *)
Finish == \E loop_continue, loop_terminate, enter \in BOOLEAN :
            Tick(running > 0, loop_continue, loop_terminate, enter)
FairSpec == Spec /\ WF_vars(Finish)

----------------------------------------------------------------------------
TypeOK ==
  /\ available_iterations \in 0 .. max_iterations_in_flight
  /\ lc_place \in {0, 1} /\ lt_place \in {0, 1} /\ lbe_place \in {0, 1}
  /\ inside \in BOOLEAN /\ deciding \in BOOLEAN
  /\ running \in Nat

(* The counter is never told how many bodies run, yet it always knows: what *)
(* is not available is running, or has just ended (loop_terminator.vhdl:    *)
(* 162-206).  Outside, the slot of the first iteration is set aside, since  *)
(* the entry to the loop does not pass through the terminator.              *)
IterationsAreCounted ==
  available_iterations = IF inside
                         THEN max_iterations_in_flight - running - lbe_place
                         ELSE max_iterations_in_flight - 1

(* The pipeline is never filled beyond its depth: the places of the body   *)
(* have this capacity (loop_terminator.vhdl:63-75).                        *)
AtMostMaxInFlight == running <= max_iterations_in_flight

(* Every iteration leads to one decision, to go on or to leave: while the  *)
(* loop runs one answer is awaited or remembered, never two, so no pulse   *)
(* meets a full place and is lost (place.vhdl:96-100).                     *)
OneDecisionAtATime ==
  Pulse(deciding) + lc_place + lt_place = Pulse(inside)

(* The loop is left when the last body has ended, never before, and then   *)
(* nothing of this run can be mistaken for a part of the next one          *)
(* (loop_terminator.vhdl:185-195).                                         *)
NothingIsLeftRunning ==
  [][lt_place = 1 /\ lt_place' = 0
       => running' = Pulse(inside') /\ lbe_place' = 0]_vars

(* An answer is heeded at last: a full pipeline delays the next iteration, *)
(* and a body still running delays the exit, but never for ever.           *)
AnswersAreHeeded == /\ lc_place = 1 ~> lc_place = 0
                    /\ lt_place = 1 ~> lt_place = 0
=============================================================================
