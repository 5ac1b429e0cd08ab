---------------------------- MODULE PipelinedLoop ----------------------------
(***************************************************************************)
(* A pipelined do-while loop whole: its terminator and a phi statement at  *)
(* the head of its body, joined as Aa2VC joins them (AaStatement.cpp:      *)
(* 6150-6383).  The entry to the loop triggers source 0 of the phi and     *)
(* loop_back source 1; the branch of an iteration waits for the phi        *)
(* (condition_evaluated joins aggregated_phi_update_ack), and so does the  *)
(* end of its body.  What the phi needs of its triggers is not assumed:    *)
(* it has to follow from the way the two are joined.                       *)
(***************************************************************************)
EXTENDS LoopTerminator, PhiSequencer

ASSUME TriggersAssumption == {0, 1} \subseteq Sources

pvars == <<vars, phi>>

LoopInit == Init /\ PhiInit

phi_done == ~awaiting \/ phi_update_ack

(* The triggers of the phi: transitions of the loop body.                  *)
triggers(loop_continue, enter) ==
  (IF enter THEN {0} ELSE {}) \union (IF loop_back(loop_continue) THEN {1} ELSE {})

(* The join of condition_evaluated.                                        *)
CanAnswer(loop_continue, loop_terminate) ==
  loop_continue \/ loop_terminate => phi_done

(* A body has not ended while its phi is at work, the youngest's.          *)
unfinished == running - Pulse(~phi_done)

LoopTick(exit, continue, terminate, enter, sample, update, samples, completes) ==
  /\ exit => unfinished > 0
  /\ CanAnswer(continue, terminate)
  /\ Tick(exit, continue, terminate, enter)
  /\ PhiTick(triggers(continue, enter), sample, update, samples, completes)

LoopNext ==
  \E loop_body_exit, loop_continue, loop_terminate, enter,
     phi_sample_req, phi_update_req \in BOOLEAN,
     samples, completes \in SUBSET Sources :
    LoopTick(loop_body_exit, loop_continue, loop_terminate, enter,
             phi_sample_req, phi_update_req, samples, completes)

LoopSpec == LoopInit /\ [][LoopNext]_pvars

(* The clock runs; a body that can end ends, the control path sends the    *)
(* requests it can, and a source that has been started gives its answers.  *)
Lively ==
  \E loop_continue, loop_terminate, enter \in BOOLEAN :
    LET starts  == src_sample_starts(triggers(loop_continue, enter), CanRequestSample)
        samples == sampling \union starts
    IN LoopTick(unfinished > 0, loop_continue, loop_terminate, enter,
                CanRequestSample, CanRequestUpdate, samples,
                updating \intersect (sampled \union samples))
FairLoopSpec == LoopSpec /\ WF_pvars(Lively)

----------------------------------------------------------------------------
(* Every iteration gets its value at last, in whatever order its trigger   *)
(* and its two requests arrived (phi_sequencer_v2.vhdl:110-144).           *)
EveryIterationGetsItsValue == awaiting ~> phi_update_ack
=============================================================================
