-------------------------- MODULE ControlPath_proof --------------------------
(***************************************************************************)
(* Proofs about control paths.  A pipelined loop, for every depth of the   *)
(* pipeline, every width of the counter that can hold it and every         *)
(* capacity of the places: first its terminator, then the phi at the head  *)
(* of its body.  The clean-up of a fork block, for every block with any    *)
(* number of transitions, arcs and reenable arcs.  The reduction to        *)
(* groups, for every control path.                                         *)
(*                                                                         *)
(* The library theorems on induction and on recursive definitions cannot   *)
(* be used, so that each induction here looks for a least counterexample.  *)
(***************************************************************************)
EXTENDS PipelinedLoop, ForkBlock, GroupReduction, FiniteSetTheorems, WellFoundedInduction, TLAPS

----------------------------------------------------------------------------
(* The terminator.                                                         *)
M == max_iterations_in_flight

(* The counter alone does not say that nothing runs outside the loop: that *)
(* is what the exit's wait for the whole pipeline establishes.             *)
OutsideIsEmpty == ~inside => running = 0 /\ lbe_place = 0

IInv == /\ TypeOK
        /\ IterationsAreCounted
        /\ OneDecisionAtATime
        /\ OutsideIsEmpty

(* What comes in and out of a flip-flop with a bypass is a token or none.  *)
LEMMA PlaceType ==
  ASSUME NEW tokens \in {0, 1}, NEW incoming \in BOOLEAN, NEW outgoing \in BOOLEAN
  PROVE  /\ place(tokens, 1, incoming, outgoing) \in {0, 1}
         /\ flag_with_bypass(tokens, incoming, outgoing) \in {0, 1}
BY DEF place, flag_with_bypass

(* The counter does not reach the end of its range.                        *)
LEMMA NoWrap ==
  ASSUME NEW a \in 0 .. M
  PROVE  a % CounterRange = a
BY DepthAssumption, WidthAssumption DEF M

(* After a reset the first iteration's slot is set aside.                  *)
LEMMA InitIInv == Init => IInv
<1> SUFFICES ASSUME Init PROVE IInv
  OBVIOUS
<1>1. /\ available_iterations = M - 1
      /\ lc_place = 0 /\ lt_place = 0 /\ lbe_place = 0
      /\ running = 0 /\ ~inside /\ ~deciding
  BY DEF Init, M
<1>2. TypeOK
  <2>1. inside \in BOOLEAN /\ deciding \in BOOLEAN
    BY Zenon DEF Init
  <2> QED BY <1>1, <2>1, DepthAssumption DEF TypeOK, M
<1>3. IterationsAreCounted
  BY <1>1 DEF IterationsAreCounted, M
<1>4. Pulse(deciding) = 0 /\ Pulse(inside) = 0
  BY <1>1, Zenon DEF Pulse
<1>5. OneDecisionAtATime
  BY <1>1, <1>4 DEF OneDecisionAtATime
<1> QED BY <1>1, <1>2, <1>3, <1>5 DEF IInv, OutsideIsEmpty

(* While one answer is remembered no other one is awaited: where the one   *)
(* decision of the loop can be.                                            *)
LEMMA WhereTheDecisionIs ==
  ASSUME TypeOK, OneDecisionAtATime
  PROVE  /\ deciding => inside /\ lc_place = 0 /\ lt_place = 0
         /\ lc_place = 1 => inside /\ ~deciding /\ lt_place = 0
         /\ lt_place = 1 => inside /\ ~deciding /\ lc_place = 0
         /\ inside => deciding \/ lc_place = 1 \/ lt_place = 1
<1>1. /\ deciding => Pulse(deciding) = 1
      /\ ~deciding => Pulse(deciding) = 0
      /\ inside => Pulse(inside) = 1
      /\ ~inside => Pulse(inside) = 0
  BY Zenon DEF Pulse
<1>2. lc_place \in {0, 1} /\ lt_place \in {0, 1}
  BY DEF TypeOK
<1> QED BY <1>1, <1>2 DEF OneDecisionAtATime

(* Leaving the loop: the counter says that nothing is under way any more.  *)
LEMMA ExitMeansDone ==
  ASSUME IInv, NEW loop_body_exit \in BOOLEAN, NEW loop_continue \in BOOLEAN,
         NEW loop_terminate \in BOOLEAN, NEW enter \in BOOLEAN,
         CanSend(loop_body_exit, loop_continue, loop_terminate, enter),
         loop_exit(loop_continue)
  PROVE  /\ running = 0 /\ ~loop_body_exit
         /\ lt_place = 1 /\ inside /\ ~deciding /\ lc_place = 0
         /\ ~loop_continue /\ ~loop_terminate /\ ~loop_back(loop_continue)
<1>1. lt_place = 1
  BY DEF loop_exit, IInv, TypeOK
<1>2. inside /\ ~deciding /\ lc_place = 0
  BY <1>1, WhereTheDecisionIs DEF IInv
<1>3. ~loop_continue /\ ~loop_terminate
  BY <1>2 DEF CanSend
<1>4. ~loop_back(loop_continue)
  BY <1>2, <1>3 DEF loop_back, bypass_token
<1>5. available_iterations = M - running - lbe_place
  BY <1>2 DEF IInv, IterationsAreCounted, M
<1>6. \/ available_iterations = M
      \/ lbe_place > 0 /\ available_iterations = M - 1
  BY DEF loop_exit, incr, M
<1>7. running \in Nat /\ lbe_place \in {0, 1} /\ M \in Nat
  BY DepthAssumption DEF IInv, TypeOK, M
<1>8. running = 0
  BY <1>5, <1>6, <1>7
<1>9. ~loop_body_exit
  BY <1>8 DEF CanSend
<1> QED BY <1>1, <1>2, <1>3, <1>4, <1>8, <1>9

(* Every clock edge keeps the account.                                     *)
LEMMA TickIInv ==
  ASSUME IInv, NEW loop_body_exit \in BOOLEAN, NEW loop_continue \in BOOLEAN,
         NEW loop_terminate \in BOOLEAN, NEW enter \in BOOLEAN,
         Tick(loop_body_exit, loop_continue, loop_terminate, enter)
  PROVE  IInv'
<1> DEFINE back == loop_back(loop_continue)
           exit == loop_exit(loop_continue)
           begins == back \/ enter
<1>1. /\ available_iterations \in 0 .. M /\ M \in Nat /\ M > 0
      /\ lc_place \in {0, 1} /\ lt_place \in {0, 1} /\ lbe_place \in {0, 1}
      /\ running \in Nat
  BY DepthAssumption DEF IInv, TypeOK, M
<1>2. /\ inside => available_iterations = M - running - lbe_place
      /\ ~inside => /\ available_iterations = M - 1
                    /\ running = 0 /\ lbe_place = 0
  BY DEF IInv, IterationsAreCounted, OutsideIsEmpty, M
<1>3. /\ deciding => inside /\ lc_place = 0 /\ lt_place = 0
      /\ lc_place = 1 => inside /\ ~deciding /\ lt_place = 0
      /\ lt_place = 1 => inside /\ ~deciding /\ lc_place = 0
      /\ inside => deciding \/ lc_place = 1 \/ lt_place = 1
  BY WhereTheDecisionIs DEF IInv
<1>4. CanSend(loop_body_exit, loop_continue, loop_terminate, enter)
  BY DEF Tick
<1>5. /\ loop_body_exit => running > 0
      /\ loop_continue \/ loop_terminate => deciding
      /\ ~(loop_continue /\ loop_terminate)
      /\ enter => ~inside \/ exit
  BY <1>4 DEF CanSend
<1>6. exit => /\ running = 0 /\ ~loop_body_exit
              /\ lt_place = 1 /\ inside /\ ~deciding /\ lc_place = 0
              /\ ~loop_continue /\ ~loop_terminate /\ ~back
  BY <1>4, ExitMeansDone
<1>7. back => available_iterations > 0 /\ (loop_continue \/ lc_place = 1)
  BY <1>1 DEF loop_back, bypass_token
<1> HIDE DEF back, exit
<1>8. ~inside => ~back /\ ~loop_body_exit /\ ~exit
  BY <1>2, <1>3, <1>5, <1>6, <1>7
<1>9. /\ running' = running + Pulse(begins) - Pulse(loop_body_exit)
      /\ inside' = (enter \/ (inside /\ ~exit))
      /\ deciding' = (begins \/ (deciding /\ ~loop_continue /\ ~loop_terminate))
  BY DEF Tick, back, exit
<1>10. inside' \in BOOLEAN /\ deciding' \in BOOLEAN
  BY <1>9, Zenon
<1>11. /\ begins => Pulse(begins) = 1
       /\ ~begins => Pulse(begins) = 0
       /\ loop_body_exit => Pulse(loop_body_exit) = 1
       /\ ~loop_body_exit => Pulse(loop_body_exit) = 0
  BY Zenon DEF Pulse
<1>12. /\ inside' <=> enter \/ (inside /\ ~exit)
       /\ deciding' <=> begins \/ (deciding /\ ~loop_continue /\ ~loop_terminate)
  BY <1>9
<1>13. lbe_place' = Pulse(loop_body_exit)
  <2>1. lbe_place' = place(lbe_place, 1, loop_body_exit, lbe_place > 0)
    BY DEF Tick, Terminate, incr
  <2> QED BY <1>1, <1>11, <2>1 DEF place
<1>14. /\ lc_place' = IF back THEN IF loop_continue THEN lc_place ELSE 0
                      ELSE IF loop_continue THEN 1 ELSE lc_place
       /\ lt_place' = IF exit THEN 0 ELSE IF loop_terminate THEN 1 ELSE lt_place
  <2>1. /\ lc_place' = flag_with_bypass(lc_place, loop_continue, back)
        /\ lt_place' = place(lt_place, 1, loop_terminate, exit)
    BY DEF Tick, Terminate, back, exit
  <2>2. lc_place' = IF back THEN IF loop_continue THEN lc_place ELSE 0
                    ELSE IF loop_continue THEN 1 ELSE lc_place
    BY <2>1 DEF flag_with_bypass
  <2>3. lt_place' = IF exit THEN 0 ELSE IF loop_terminate THEN 1 ELSE lt_place
    BY <1>1, <1>3, <1>5, <1>6, <2>1 DEF place
  <2> QED BY <2>2, <2>3
<1>15. available_iterations' =
         IF exit THEN M - 1
         ELSE available_iterations + lbe_place - (IF back THEN 1 ELSE 0)
  <2>1. available_iterations' = next_available_iterations(loop_continue)
    BY DEF Tick, Terminate
  <2>2. CASE exit
    BY <2>1, <2>2 DEF next_available_iterations, exit, M
  <2>3. CASE ~exit /\ lbe_place > 0 /\ ~back
    <3>1. available_iterations' = (available_iterations + 1) % CounterRange
      BY <2>1, <2>3 DEF next_available_iterations, incr, exit, back
    <3>2. available_iterations + 1 \in 0 .. M
      BY <1>1, <1>2, <2>3
    <3> QED BY <1>1, <2>3, <3>1, <3>2, NoWrap
  <2>4. CASE ~exit /\ back /\ ~(lbe_place > 0)
    BY <1>1, <2>1, <2>4 DEF next_available_iterations, incr, exit, back
  <2>5. CASE ~exit /\ ((back /\ lbe_place > 0) \/ (~back /\ ~(lbe_place > 0)))
    BY <1>1, <2>1, <2>5 DEF next_available_iterations, incr, exit, back
  <2> QED BY <2>2, <2>3, <2>4, <2>5
<1> HIDE DEF begins
<1>16. begins <=> back \/ enter
  BY DEF begins
<1>17. /\ running' \in Nat
       /\ lc_place' \in {0, 1} /\ lt_place' \in {0, 1} /\ lbe_place' \in {0, 1}
  BY <1>1, <1>5, <1>9, <1>11, <1>13, <1>14
<1>18. /\ inside' => available_iterations' = M - running' - lbe_place'
       /\ ~inside' => /\ available_iterations' = M - 1
                      /\ running' = 0 /\ lbe_place' = 0
  BY <1>1, <1>2, <1>5, <1>6, <1>8, <1>9, <1>11, <1>12, <1>13, <1>15, <1>16
<1>19. available_iterations' \in 0 .. M
  BY <1>1, <1>2, <1>6, <1>7, <1>15
<1>20. TypeOK'
  BY <1>10, <1>17, <1>19, Zenon DEF TypeOK, M
<1>21. IterationsAreCounted' /\ OutsideIsEmpty'
  BY <1>18 DEF IterationsAreCounted, OutsideIsEmpty, M
<1>22. OneDecisionAtATime'
  <2>1. /\ deciding' => inside' /\ lc_place' = 0 /\ lt_place' = 0
        /\ inside' /\ ~deciding' => lc_place' + lt_place' = 1
        /\ ~inside' => lc_place' = 0 /\ lt_place' = 0
    BY <1>1, <1>3, <1>5, <1>6, <1>7, <1>8, <1>12, <1>14, <1>16
  <2>2. /\ deciding' => Pulse(deciding)' = 1
        /\ ~deciding' => Pulse(deciding)' = 0
        /\ inside' => Pulse(inside)' = 1
        /\ ~inside' => Pulse(inside)' = 0
    BY Zenon DEF Pulse
  <2>3. \/ Pulse(deciding)' = 1 /\ Pulse(inside)' = 1 /\ lc_place' = 0 /\ lt_place' = 0
        \/ Pulse(deciding)' = 0 /\ Pulse(inside)' = 1 /\ lc_place' + lt_place' = 1
        \/ Pulse(deciding)' = 0 /\ Pulse(inside)' = 0 /\ lc_place' = 0 /\ lt_place' = 0
    BY <2>1, <2>2, Zenon
  <2>4. ASSUME NEW awaited, NEW expected, NEW lc \in {0, 1}, NEW lt \in {0, 1},
               \/ awaited = 1 /\ expected = 1 /\ lc = 0 /\ lt = 0
               \/ awaited = 0 /\ expected = 1 /\ lc + lt = 1
               \/ awaited = 0 /\ expected = 0 /\ lc = 0 /\ lt = 0
        PROVE  awaited + lc + lt = expected
    BY <2>4
  <2>5. Pulse(deciding)' + lc_place' + lt_place' = Pulse(inside)'
    BY <1>17, <2>3, <2>4, Zenon
  <2> QED BY <2>5, Zenon DEF OneDecisionAtATime
<1> QED BY <1>20, <1>21, <1>22 DEF IInv

(* A cycle without a pulse and without a token changes nothing.            *)
LEMMA StutterIInv == IInv /\ UNCHANGED vars => IInv'
<1> SUFFICES ASSUME IInv, UNCHANGED vars PROVE IInv'
  OBVIOUS
<1>1. /\ available_iterations' = available_iterations
      /\ lc_place' = lc_place /\ lt_place' = lt_place /\ lbe_place' = lbe_place
      /\ inside' = inside /\ running' = running /\ deciding' = deciding
  BY DEF vars, terminator
<1> QED BY <1>1, Zenon DEF IInv, TypeOK, IterationsAreCounted,
           OneDecisionAtATime, OutsideIsEmpty, Pulse

THEOREM Invariance == Spec => []IInv
<1>1. ASSUME IInv, Next PROVE IInv'
  BY <1>1, TickIInv DEF Next
<1>2. IInv /\ [Next]_vars => IInv'
  BY <1>1, StutterIInv
<1> QED BY InitIInv, <1>2, PTL DEF Spec

(* The controller knows at every moment how many bodies are under way,     *)
(* though only their ends are reported to it (loop_terminator.vhdl:162-206). *)
THEOREM Counting == Spec => []IterationsAreCounted
<1>1. IInv => IterationsAreCounted
  BY DEF IInv
<1> QED BY Invariance, <1>1, PTL

(* No more bodies overlap than the pipeline has room for.                  *)
THEOREM Bound == Spec => []AtMostMaxInFlight
<1>1. IInv => AtMostMaxInFlight
  <2> SUFFICES ASSUME IInv PROVE running <= M
    BY DEF AtMostMaxInFlight, M
  <2>1. /\ available_iterations \in 0 .. M /\ M \in Nat /\ M > 0
        /\ lbe_place \in {0, 1} /\ running \in Nat
    BY DepthAssumption DEF IInv, TypeOK, M
  <2>2. CASE inside
    BY <2>1, <2>2 DEF IInv, IterationsAreCounted, M
  <2>3. CASE ~inside
    BY <2>1, <2>3 DEF IInv, OutsideIsEmpty
  <2> QED BY <2>2, <2>3
<1> QED BY Invariance, <1>1, PTL

(* The answer of an iteration is neither lost nor given twice.             *)
THEOREM Decisions == Spec => []OneDecisionAtATime
<1>1. IInv => OneDecisionAtATime
  BY DEF IInv
<1> QED BY Invariance, <1>1, PTL

(* The loop is left only when the last of its bodies has ended.            *)
THEOREM Leaving == Spec => NothingIsLeftRunning
<1> DEFINE leaves == lt_place = 1 /\ lt_place' = 0
           nothing == running' = Pulse(inside') /\ lbe_place' = 0
<1>1. ASSUME IInv, IInv', NEW loop_body_exit \in BOOLEAN,
             NEW loop_continue \in BOOLEAN, NEW loop_terminate \in BOOLEAN,
             NEW enter \in BOOLEAN,
             Tick(loop_body_exit, loop_continue, loop_terminate, enter),
             leaves
      PROVE  nothing
  <2>1. CanSend(loop_body_exit, loop_continue, loop_terminate, enter)
    BY <1>1 DEF Tick
  <2>2. ~loop_terminate
    <3>1. ~deciding
      BY <1>1, WhereTheDecisionIs DEF IInv
    <3> QED BY <2>1, <3>1 DEF CanSend
  <2>3. loop_exit(loop_continue)
    <3>1. lt_place' = place(lt_place, 1, loop_terminate, loop_exit(loop_continue))
      BY <1>1 DEF Tick, Terminate
    <3> QED BY <1>1, <2>2, <3>1 DEF place
  <2>4. running = 0 /\ ~loop_body_exit /\ ~loop_back(loop_continue)
    BY <1>1, <2>1, <2>3, ExitMeansDone
  <2>5. lbe_place' = 0
    <3>1. lbe_place' = place(lbe_place, 1, loop_body_exit, incr)
      BY <1>1 DEF Tick, Terminate
    <3> QED BY <1>1, <2>4, <3>1 DEF place, incr, IInv, TypeOK
  <2>6. inside' <=> enter
    BY <1>1, <2>3 DEF Tick
  <2>7. running' = running + Pulse(loop_back(loop_continue) \/ enter)
                     - Pulse(loop_body_exit)
    BY <1>1 DEF Tick
  <2>8. /\ Pulse(loop_body_exit) = 0
        /\ Pulse(loop_back(loop_continue) \/ enter) = Pulse(inside')
    BY <2>4, <2>6, Zenon DEF Pulse
  <2>9. Pulse(inside') \in {0, 1}
    BY Zenon DEF Pulse
  <2> HIDE DEF leaves
  <2>10. running' = Pulse(inside')
    BY <2>4, <2>7, <2>8, <2>9
  <2> QED BY <2>5, <2>10
<1>2. IInv /\ IInv' /\ [Next]_vars => [leaves => nothing]_vars
  BY <1>1 DEF Next
<1> QED BY Invariance, <1>2, PTL DEF Spec, NothingIsLeftRunning

----------------------------------------------------------------------------
(* The phi at the head of the body.                                        *)
(* The last iteration has begun and still waits for its value.             *)
owed == awaiting /\ ~ack

(* A wait for its value is part of every decision: what keeps the triggers *)
(* of two iterations apart.                                                *)
OwedWhileDeciding == owed => deciding

(* What waits or works belongs to the last iteration that began.           *)
AllOfOneTurn ==
  /\ \A i \in Sources \ {turn} : sample_trigs[i] = 0 /\ update_trigs[i] = 0
  /\ \A at \in {sampling, sampled, updating} : at \subseteq {turn}

(* Its trigger is a token, in the fork, at the source, or used up.         *)
TriggerIsOneToken ==
  /\ sample_trigs[turn] + Pulse(turn \in sampling) + Pulse(turn \in sampled) = Pulse(owed)
  /\ update_trigs[turn] + Pulse(turn \in updating) = Pulse(owed)

(* So are its requests, which come back as the acknowledgement that the    *)
(* next ones wait for.                                                     *)
RequestIsOneToken ==
  /\ uct_sample + sample_req + Pulse(turn \in sampling) + Pulse(turn \in sampled)
       + Pulse(ack) = 1
  /\ uct_update + update_req + Pulse(turn \in updating) + Pulse(ack) = 1
  /\ sct + sample_req + Pulse(turn \in sampling) = 1

SelectedIsTurn == ack => awaiting /\ req_registered = {turn}

PhiType ==
  /\ sample_trigs \in [Sources -> {0, 1}] /\ update_trigs \in [Sources -> {0, 1}]
  /\ {sample_req, update_req, sct, uct_sample, uct_update} \subseteq {0, 1}
  /\ ack \in BOOLEAN /\ awaiting \in BOOLEAN /\ turn \in Sources
  /\ req_registered \subseteq Sources

PhiInv == /\ PhiType
          /\ OwedWhileDeciding
          /\ AllOfOneTurn
          /\ TriggerIsOneToken
          /\ RequestIsOneToken
          /\ SelectedIsTurn

----------------------------------------------------------------------------
(* The loop runs its terminator as it was specified.                       *)
LEMMA LoopStepIsTick == [LoopNext]_pvars => [Next]_vars
<1>1. ASSUME NEW exit \in BOOLEAN, NEW continue \in BOOLEAN,
             NEW terminate \in BOOLEAN, NEW enter \in BOOLEAN,
             NEW sample \in BOOLEAN, NEW update \in BOOLEAN,
             NEW samples \in SUBSET Sources, NEW completes \in SUBSET Sources,
             LoopTick(exit, continue, terminate, enter, sample, update, samples, completes)
      PROVE  Next
  BY <1>1 DEF LoopTick, Next
<1>2. UNCHANGED pvars => UNCHANGED vars
  BY DEF pvars
<1> QED BY <1>1, <1>2 DEF LoopNext

THEOREM LoopTerminates == LoopSpec => Spec
<1>1. LoopInit => Init
  BY DEF LoopInit
<1> QED BY <1>1, LoopStepIsTick, PTL DEF LoopSpec, Spec

----------------------------------------------------------------------------
(* A place that is never filled twice nor emptied twice counts its pulses, *)
(* the flip-flop as well as the counter.                                   *)
LEMMA BypassCounts ==
  ASSUME NEW t \in {0, 1}, NEW in \in BOOLEAN, NEW out \in BOOLEAN,
         in /\ ~out => t = 0, out /\ ~in => t = 1
  PROVE  place_with_bypass(t, place_capacity, in, out) = t + Pulse(in) - Pulse(out)
<1> DEFINE range == TokenRange(place_capacity)
<1>1. range \in Nat /\ range > 1
  BY SequencerAssumption, CounterAssumption
<1>2. Pulse(in) = (IF in THEN 1 ELSE 0) /\ Pulse(out) = (IF out THEN 1 ELSE 0)
  BY Zenon DEF Pulse
<1>3. flag_with_bypass(t, in, out) = t + Pulse(in) - Pulse(out)
  BY <1>2 DEF flag_with_bypass
<1>4. count_with_bypass(t, range, in, out) = (t + range + Pulse(in) - Pulse(out)) % range
  BY DEF count_with_bypass
<1> HIDE DEF range
<1>5. \A x \in {0, 1} : (x + range) % range = x
  BY <1>1
<1>6. /\ t + Pulse(in) - Pulse(out) \in {0, 1}
      /\ t + range + Pulse(in) - Pulse(out) = t + Pulse(in) - Pulse(out) + range
  BY <1>1, <1>2
<1>7. count_with_bypass(t, range, in, out) = t + Pulse(in) - Pulse(out)
  BY <1>4, <1>5, <1>6
<1> QED BY <1>3, <1>7 DEF place_with_bypass, range

LEMMA PlaceCounts ==
  ASSUME NEW t \in {0, 1}, NEW in \in BOOLEAN, NEW out \in BOOLEAN,
         in /\ ~out => t = 0, out => t = 1
  PROVE  place(t, place_capacity, in, out) = t + Pulse(in) - Pulse(out)
BY SequencerAssumption DEF place, Pulse

(* After a reset the rings hold their tokens at the start.                 *)
LEMMA InitPhiInv == LoopInit => PhiInv
<1> SUFFICES ASSUME LoopInit PROVE PhiInv
  OBVIOUS
<1>1. /\ sample_trigs = [i \in Sources |-> 0] /\ sample_req = 0
      /\ update_trigs = [i \in Sources |-> 0] /\ update_req = 0
      /\ req_registered = {} /\ ack = FALSE
      /\ sampling = {} /\ sampled = {} /\ updating = {}
      /\ sct = 1 /\ uct_sample = 1 /\ uct_update = 1
      /\ awaiting = FALSE /\ turn = 0
  BY DEF LoopInit, PhiInit
<1>2. 0 \in Sources
  BY TriggersAssumption
<1>3. ~owed /\ turn \notin sampling /\ turn \notin sampled /\ turn \notin updating
  BY <1>1 DEF owed
<1>4. /\ Pulse(turn \in sampling) = 0 /\ Pulse(turn \in sampled) = 0
      /\ Pulse(turn \in updating) = 0 /\ Pulse(owed) = 0 /\ Pulse(ack) = 0
  BY <1>1, <1>3, Zenon DEF Pulse
<1>5. PhiType
  BY <1>1, <1>2 DEF PhiType
<1>6. TriggerIsOneToken
  BY <1>1, <1>2, <1>4 DEF TriggerIsOneToken
<1>7. RequestIsOneToken
  BY <1>1, <1>4 DEF RequestIsOneToken
<1>8. OwedWhileDeciding /\ AllOfOneTurn /\ SelectedIsTurn
  BY <1>1, <1>3 DEF OwedWhileDeciding, AllOfOneTurn, SelectedIsTurn
<1> QED BY <1>5, <1>6, <1>7, <1>8 DEF PhiInv

----------------------------------------------------------------------------
(* An iteration begins by the entry or by the back edge, not by both, and  *)
(* only when the last one has got its value.                               *)
LEMMA OneTrigger ==
  ASSUME IInv, PhiInv, NEW exit \in BOOLEAN, NEW continue \in BOOLEAN,
         NEW terminate \in BOOLEAN, NEW enter \in BOOLEAN,
         CanSend(exit, continue, terminate, enter), CanAnswer(continue, terminate)
  PROVE  /\ triggers(continue, enter) \in {{}, {0}, {1}}
         /\ triggers(continue, enter) # {} =>
              ~owed /\ (loop_back(continue) \/ enter)
<1>1. enter => ~inside \/ loop_exit(continue)
  BY DEF CanSend
<1>2. enter => ~deciding /\ ~loop_back(continue)
  <2>1. CASE ~inside
    <3>1. ~deciding /\ lc_place = 0
      BY <2>1, WhereTheDecisionIs DEF IInv, TypeOK
    <3> QED BY <3>1 DEF CanSend, loop_back, bypass_token
  <2>2. CASE loop_exit(continue)
    BY <2>2, ExitMeansDone
  <2> QED BY <1>1, <2>1, <2>2
<1>3. enter => ~owed
  BY <1>2 DEF PhiInv, OwedWhileDeciding
<1>4. loop_back(continue) => ~owed
  <2>1. CASE continue
    BY <2>1 DEF CanAnswer, phi_done, phi_update_ack, owed
  <2>2. CASE ~continue /\ loop_back(continue)
    <3>1. lc_place = 1
      BY <2>2 DEF loop_back, bypass_token, IInv, TypeOK
    <3>2. ~deciding
      BY <3>1, WhereTheDecisionIs DEF IInv
    <3> QED BY <3>2 DEF PhiInv, OwedWhileDeciding
  <2> QED BY <2>1, <2>2
<1> QED BY <1>2, <1>3, <1>4 DEF triggers

(* The value of an iteration is awaited no longer than its branch.         *)
LEMMA KeepsOwed ==
  ASSUME IInv, PhiInv, NEW exit \in BOOLEAN, NEW continue \in BOOLEAN,
         NEW terminate \in BOOLEAN, NEW enter \in BOOLEAN,
         NEW sample \in BOOLEAN, NEW update \in BOOLEAN,
         NEW samples \in SUBSET Sources, NEW completes \in SUBSET Sources,
         LoopTick(exit, continue, terminate, enter, sample, update, samples, completes)
  PROVE  OwedWhileDeciding'
<1> SUFFICES ASSUME awaiting', ~ack' PROVE deciding'
  BY DEF OwedWhileDeciding, owed
<1>1. /\ CanSend(exit, continue, terminate, enter)
      /\ CanAnswer(continue, terminate)
      /\ deciding' = ((loop_back(continue) \/ enter)
                        \/ (deciding /\ ~continue /\ ~terminate))
  BY DEF LoopTick, Tick
<1>2. awaiting' = (triggers(continue, enter) # {} \/ (awaiting /\ ~ack))
  BY DEF LoopTick, PhiTick, ControlPath, phi_update_ack
<1>3. CASE triggers(continue, enter) # {}
  BY <1>1, <1>3, OneTrigger
<1>4. CASE triggers(continue, enter) = {}
  <2>1. owed
    BY <1>2, <1>4 DEF owed
  <2>2. ~continue /\ ~terminate
    BY <1>1, <2>1 DEF CanAnswer, phi_done, phi_update_ack, owed
  <2> QED BY <1>1, <2>1, <2>2 DEF PhiInv, OwedWhileDeciding
<1> QED BY <1>3, <1>4

(* What the last turn left behind is nothing, when the next one begins.    *)
LEMMA NothingWaits ==
  ASSUME PhiInv, ~owed
  PROVE  /\ \A i \in Sources : sample_trigs[i] = 0 /\ update_trigs[i] = 0
         /\ sampling = {} /\ sampled = {} /\ updating = {}
<1>1. /\ sample_trigs[turn] \in {0, 1} /\ update_trigs[turn] \in {0, 1} /\ turn \in Sources
  BY DEF PhiInv, PhiType
<1>2. /\ Pulse(turn \in sampling) = IF turn \in sampling THEN 1 ELSE 0
      /\ Pulse(turn \in sampled) = IF turn \in sampled THEN 1 ELSE 0
      /\ Pulse(turn \in updating) = IF turn \in updating THEN 1 ELSE 0
      /\ Pulse(owed) = 0
  BY Zenon DEF Pulse
<1>3. /\ sample_trigs[turn] = 0 /\ update_trigs[turn] = 0
      /\ turn \notin sampling /\ turn \notin sampled /\ turn \notin updating
  BY <1>1, <1>2 DEF PhiInv, TriggerIsOneToken
<1> QED BY <1>3 DEF PhiInv, AllOfOneTurn

(* The account as the new turn t finds it, which is the last turn unless b *)
(* says that one begins.                                                   *)
Account(t, b) ==
  /\ t \in Sources
  /\ b => ~owed
  /\ \A i \in Sources \ {t} : sample_trigs[i] = 0 /\ update_trigs[i] = 0
  /\ \A at \in {sampling, sampled, updating} : at \subseteq {t}
  /\ sample_trigs[t] + Pulse(t \in sampling) + Pulse(t \in sampled) = Pulse(owed)
  /\ update_trigs[t] + Pulse(t \in updating) = Pulse(owed)
  /\ uct_sample + sample_req + Pulse(t \in sampling) + Pulse(t \in sampled) + Pulse(ack) = 1
  /\ uct_update + update_req + Pulse(t \in updating) + Pulse(ack) = 1
  /\ sct + sample_req + Pulse(t \in sampling) = 1

LEMMA TurnChanges ==
  ASSUME PhiInv, NEW T \in {{}, {0}, {1}}, T # {} => ~owed,
         turn' = IF T # {} THEN CHOOSE i \in T : TRUE ELSE turn
  PROVE  Account(turn', turn' \in T) /\ T \subseteq {turn'}
<1>1. CASE T = {}
  BY <1>1 DEF Account, PhiInv, PhiType, AllOfOneTurn, TriggerIsOneToken, RequestIsOneToken
<1>2. CASE T # {}
  <2>1. turn' \in T /\ turn' \in Sources /\ T = {turn'}
    BY <1>2, TriggersAssumption
  <2>2. /\ \A i \in Sources : sample_trigs[i] = 0 /\ update_trigs[i] = 0
        /\ sampling = {} /\ sampled = {} /\ updating = {}
    BY <1>2, NothingWaits
  <2>3. /\ Pulse(turn \in sampling) = 0 /\ Pulse(turn \in sampled) = 0
        /\ Pulse(turn \in updating) = 0
        /\ Pulse(turn' \in sampling) = 0 /\ Pulse(turn' \in sampled) = 0
        /\ Pulse(turn' \in updating) = 0 /\ Pulse(owed) = 0
    <3>1. /\ turn \notin sampling /\ turn \notin sampled /\ turn \notin updating
          /\ turn' \notin sampling /\ turn' \notin sampled /\ turn' \notin updating
          /\ ~owed
      BY <1>2, <2>2
    <3> QED BY <3>1, Zenon DEF Pulse
  <2>4. /\ uct_sample + sample_req + 0 + 0 + Pulse(ack) = 1
        /\ uct_update + update_req + 0 + Pulse(ack) = 1
        /\ sct + sample_req + 0 = 1
    BY <2>3 DEF PhiInv, RequestIsOneToken
  <2>5. /\ sample_trigs[turn'] + Pulse(turn' \in sampling) + Pulse(turn' \in sampled)
             = Pulse(owed)
        /\ update_trigs[turn'] + Pulse(turn' \in updating) = Pulse(owed)
    BY <2>1, <2>2, <2>3
  <2> QED BY <1>2, <2>1, <2>2, <2>3, <2>4, <2>5 DEF Account
<1> QED BY <1>1, <1>2

(* A fork: a trigger that waits or comes and a request that waits or comes *)
(* go out together, to the one source whose turn it is.                    *)
LEMMA ForkStep ==
  ASSUME NEW trigs \in [Sources -> {0, 1}], NEW req \in {0, 1},
         NEW t \in Sources, NEW T \in SUBSET {t}, NEW asked \in BOOLEAN,
         \A i \in Sources \ {t} : trigs[i] = 0,
         t \in T => trigs[t] = 0, asked => req = 0
  PROVE  LET starts == out_transitions(trigs, req, T, asked)
             b == t \in T
             s == t \in starts
             left == next_trig_places(trigs, T, starts)
         IN /\ starts \subseteq {t}
            /\ s <=> (b \/ trigs[t] = 1) /\ (asked \/ req = 1)
            /\ left \in [Sources -> {0, 1}]
            /\ \A i \in Sources \ {t} : left[i] = 0
            /\ left[t] = trigs[t] + Pulse(b) - Pulse(s)
            /\ next_in_place(req, asked, starts) = req + Pulse(asked) - Pulse(s)
            /\ next_in_place(req, asked, starts) \in {0, 1}
<1> DEFINE starts == out_transitions(trigs, req, T, asked)
           b == t \in T
           s == t \in starts
           left == next_trig_places(trigs, T, starts)
<1>1. \A i \in Sources : i \in starts <=>
           (i \in T \/ trigs[i] # 0) /\ (asked \/ req # 0)
  BY DEF out_transitions, bypass_token
<1>2. starts \subseteq {t}
  <2> SUFFICES ASSUME NEW i \in starts, i # t PROVE FALSE
    OBVIOUS
  <2>1. i \in Sources
    BY DEF out_transitions
  <2> QED BY <1>1, <2>1
<1>3. s <=> (b \/ trigs[t] = 1) /\ (asked \/ req = 1)
  BY <1>1
<1>4. \A i \in Sources :
        left[i] = place_with_bypass(trigs[i], place_capacity, i \in T, i \in starts)
  BY DEF next_trig_places
<1>5. next_in_place(req, asked, starts) =
        place_with_bypass(req, place_capacity, asked, s)
  <2>1. (starts # {}) = s
    BY <1>2
  <2> QED BY <2>1 DEF next_in_place
<1>6. left = [i \in Sources |-> left[i]]
  BY DEF next_trig_places
<1> HIDE DEF starts, left
<1>7. /\ Pulse(b) = (IF b THEN 1 ELSE 0)
      /\ Pulse(s) = (IF s THEN 1 ELSE 0)
      /\ Pulse(asked) = (IF asked THEN 1 ELSE 0)
      /\ Pulse(FALSE) = 0
  BY Zenon DEF Pulse
<1>8. \A i \in Sources \ {t} : left[i] = 0
  <2> SUFFICES ASSUME NEW i \in Sources \ {t} PROVE left[i] = 0
    OBVIOUS
  <2>1. (i \in T) = FALSE /\ (i \in starts) = FALSE /\ trigs[i] = 0
    BY <1>2
  <2>2. left[i] = place_with_bypass(0, place_capacity, FALSE, FALSE)
    BY <1>4, <2>1
  <2>3. left[i] = 0 + Pulse(FALSE) - Pulse(FALSE)
    BY <2>2, BypassCounts
  <2> QED BY <2>3 DEF Pulse
<1>9. left[t] = trigs[t] + Pulse(b) - Pulse(s)
  <2>1. left[t] = place_with_bypass(trigs[t], place_capacity, b, s)
    BY <1>4
  <2>2. trigs[t] \in {0, 1} /\ b \in BOOLEAN /\ s \in BOOLEAN
    OBVIOUS
  <2>3. (b /\ ~s => trigs[t] = 0) /\ (s /\ ~b => trigs[t] = 1)
    BY <1>3
  <2> HIDE DEF b, s
  <2> QED BY <2>1, <2>2, <2>3, BypassCounts
<1>10. next_in_place(req, asked, starts) = req + Pulse(asked) - Pulse(s)
  <2>1. s \in BOOLEAN
    OBVIOUS
  <2>2. (asked /\ ~s => req = 0) /\ (s /\ ~asked => req = 1)
    BY <1>3
  <2> HIDE DEF s
  <2> QED BY <1>5, <2>1, <2>2, BypassCounts
<1>11. left[t] \in {0, 1} /\ next_in_place(req, asked, starts) \in {0, 1}
  <2>1. trigs[t] \in {0, 1}
    OBVIOUS
  <2> QED BY <1>3, <1>7, <1>9, <1>10, <2>1
<1>12. left \in [Sources -> {0, 1}]
  BY <1>6, <1>8, <1>11
<1> QED BY <1>2, <1>3, <1>8, <1>9, <1>10, <1>11, <1>12 DEF starts, left

(* Every clock edge of the loop keeps the account of its phi.              *)
LEMMA TickPhiInv ==
  ASSUME IInv, PhiInv, NEW exit \in BOOLEAN, NEW continue \in BOOLEAN,
         NEW terminate \in BOOLEAN, NEW enter \in BOOLEAN,
         NEW sample \in BOOLEAN, NEW update \in BOOLEAN,
         NEW samples \in SUBSET Sources, NEW completes \in SUBSET Sources,
         LoopTick(exit, continue, terminate, enter, sample, update, samples, completes)
  PROVE  PhiInv'
<1> DEFINE T == triggers(continue, enter)
           t == turn'
           b == t \in T
           starts == out_transitions(sample_trigs, sample_req, T, sample)
           ustarts == out_transitions(update_trigs, update_req, T, update)
           s == t \in starts
           u == t \in ustarts
           m == t \in samples
           c == t \in completes
           working == Pulse(t \in sampling)
           done == Pulse(t \in sampled)
           asking == Pulse(t \in updating)
           owing == Pulse(owed)
           acked == Pulse(ack)
           sent == Pulse(sample)
           usent == Pulse(update)
<1>1. /\ CanSend(exit, continue, terminate, enter)
      /\ CanAnswer(continue, terminate)
      /\ PhiTick(T, sample, update, samples, completes)
  BY DEF LoopTick, Tick
<1>2. T \in {{}, {0}, {1}} /\ (T # {} => ~owed)
  BY <1>1, OneTrigger
<1>3. /\ Sequence(T, sample, update)
      /\ Select(completes)
      /\ Work(starts, samples, ustarts, completes)
      /\ ControlPath(T, sample, update, samples # {})
      /\ sample => CanRequestSample
      /\ update => CanRequestUpdate
      /\ samples \in CanSample(starts)
      /\ completes \in CanUpdate(samples)
  BY <1>1 DEF PhiTick, src_sample_starts, src_update_starts
<1>4. turn' = IF T # {} THEN CHOOSE i \in T : TRUE ELSE turn
  BY <1>3 DEF ControlPath
<1> HIDE DEF T
<1>5. Account(t, b) /\ T \subseteq {t}
  BY <1>2, <1>4, TurnChanges
<1>0. sample_trigs \in [Sources -> {0, 1}] /\ update_trigs \in [Sources -> {0, 1}]
  BY DEF PhiInv, PhiType
<1>6. /\ sample_req \in {0, 1} /\ update_req \in {0, 1}
      /\ sct \in {0, 1} /\ uct_sample \in {0, 1} /\ uct_update \in {0, 1}
      /\ ack \in BOOLEAN /\ awaiting \in BOOLEAN /\ t \in Sources
  BY <1>5 DEF PhiInv, PhiType, Account
<1>7. /\ sample_trigs[t] \in {0, 1} /\ update_trigs[t] \in {0, 1}
  BY <1>0, <1>6
<1>8. /\ working = IF t \in sampling THEN 1 ELSE 0
      /\ done = IF t \in sampled THEN 1 ELSE 0
      /\ asking = IF t \in updating THEN 1 ELSE 0
      /\ owing = IF owed THEN 1 ELSE 0
      /\ acked = IF ack THEN 1 ELSE 0
  BY Zenon DEF Pulse
<1>9. /\ sample_trigs[t] + working + done = owing
      /\ update_trigs[t] + asking = owing
      /\ uct_sample + sample_req + working + done
           + acked = 1
      /\ uct_update + update_req + asking + acked = 1
      /\ sct + sample_req + working = 1
      /\ b => ~owed
  BY <1>5 DEF Account
<1> HIDE DEF working, done, asking, owing, acked, sent, usent
<1>10. /\ sampling \subseteq {t} /\ sampled \subseteq {t} /\ updating \subseteq {t}
       /\ \A i \in Sources \ {t} : sample_trigs[i] = 0 /\ update_trigs[i] = 0
  BY <1>5 DEF Account
<1>11. /\ sample => sct = 1 /\ (uct_sample = 1 \/ ack)
       /\ update => uct_update = 1 \/ ack
  BY <1>3, <1>6 DEF CanRequestSample, CanRequestUpdate, bypass_token, phi_update_ack
<1>12. /\ sample => sample_req = 0
       /\ update => update_req = 0
       /\ b => sample_trigs[t] = 0 /\ update_trigs[t] = 0
  BY <1>6, <1>7, <1>8, <1>9, <1>11
<1>13. /\ starts \subseteq {t}
       /\ s <=> (b \/ sample_trigs[t] = 1) /\ (sample \/ sample_req = 1)
       /\ sample_trigs' \in [Sources -> {0, 1}]
       /\ \A i \in Sources \ {t} : sample_trigs'[i] = 0
       /\ sample_trigs'[t] = sample_trigs[t] + Pulse(b) - Pulse(s)
       /\ sample_req' = sample_req + sent - Pulse(s)
       /\ sample_req' \in {0, 1}
  <2>1. /\ sample_trigs' = next_trig_places(sample_trigs, T, starts)
        /\ sample_req' = next_in_place(sample_req, sample, starts)
    BY <1>3 DEF Sequence, src_sample_starts
  <2> HIDE DEF t
  <2> QED BY <1>0, <1>5, <1>6, <1>10, <1>12, <2>1, ForkStep DEF sent
<1>14. /\ ustarts \subseteq {t}
       /\ u <=> (b \/ update_trigs[t] = 1) /\ (update \/ update_req = 1)
       /\ update_trigs' \in [Sources -> {0, 1}]
       /\ \A i \in Sources \ {t} : update_trigs'[i] = 0
       /\ update_trigs'[t] = update_trigs[t] + Pulse(b) - Pulse(u)
       /\ update_req' = update_req + usent - Pulse(u)
       /\ update_req' \in {0, 1}
  <2>1. /\ update_trigs' = next_trig_places(update_trigs, T, ustarts)
        /\ update_req' = next_in_place(update_req, update, ustarts)
    BY <1>3 DEF Sequence, src_update_starts
  <2> HIDE DEF t
  <2> QED BY <1>0, <1>5, <1>6, <1>10, <1>12, <2>1, ForkStep DEF usent
<1> HIDE DEF starts, ustarts
<1>15. /\ samples \subseteq {t} /\ completes \subseteq {t}
       /\ m => t \in sampling \/ s
       /\ c => t \in updating /\ (t \in sampled \/ m)
  BY <1>3, <1>10, <1>13 DEF CanSample, CanUpdate
<1>16. /\ sampling' \subseteq {t} /\ sampled' \subseteq {t} /\ updating' \subseteq {t}
       /\ t \in sampling' <=> (t \in sampling \/ s) /\ ~m
       /\ t \in sampled' <=> (t \in sampled \/ m) /\ ~c
       /\ t \in updating' <=> (t \in updating \/ u) /\ ~c
  BY <1>3, <1>10, <1>13, <1>14, <1>15 DEF Work
<1>17. /\ ack' = c
       /\ c => req_registered' = completes /\ completes = {t}
       /\ req_registered' \subseteq Sources
  BY <1>3, <1>15 DEF Select, PhiInv, PhiType
<1>18. /\ awaiting' = (b \/ (awaiting /\ ~ack))
       /\ awaiting' \in BOOLEAN
  <2>1. awaiting' = (T # {} \/ (awaiting /\ ~ack))
    BY <1>3 DEF ControlPath, phi_update_ack
  <2>2. (T # {}) = b
    BY <1>5
  <2> QED BY <2>1, <2>2
<1> HIDE DEF b, s, u, m, c
<1>19. b \in BOOLEAN /\ s \in BOOLEAN /\ u \in BOOLEAN /\ m \in BOOLEAN /\ c \in BOOLEAN
  BY DEF b, s, u, m, c
<1>20. /\ Pulse(b) = (IF b THEN 1 ELSE 0) /\ Pulse(s) = (IF s THEN 1 ELSE 0)
       /\ Pulse(u) = (IF u THEN 1 ELSE 0) /\ Pulse(m) = (IF m THEN 1 ELSE 0)
       /\ Pulse(c) = (IF c THEN 1 ELSE 0)
       /\ sent = (IF sample THEN 1 ELSE 0)
       /\ usent = (IF update THEN 1 ELSE 0)
  BY Zenon DEF Pulse, sent, usent
<1>21. /\ s => t \notin sampling /\ t \notin sampled
       /\ t \in sampling => t \notin sampled /\ sct = 0
       /\ u => t \notin updating
  BY <1>6, <1>7, <1>8, <1>9, <1>13, <1>14, <1>19
<1>22. c => ~ack /\ awaiting /\ ~b
  <2> SUFFICES ASSUME c PROVE ~ack /\ awaiting /\ ~b
    OBVIOUS
  <2>1. owed
    BY <1>7, <1>8, <1>9, <1>15
  <2> QED BY <1>9, <2>1 DEF owed
<1>23. sct' = sct + Pulse(m) - sent
  <2>1. sct' = place(sct, place_capacity, samples # {}, sample)
    BY <1>3 DEF ControlPath
  <2>2. (samples # {}) = m
    BY <1>15 DEF m
  <2>3. m /\ ~sample => sct = 0
    <3>1. CASE t \in sampling
      BY <1>21, <3>1
    <3>2. CASE s
      BY <1>6, <1>8, <1>9, <1>13, <3>2
    <3> QED BY <1>15, <3>1, <3>2
  <2>4. place(sct, place_capacity, m, sample) = sct + Pulse(m) - Pulse(sample)
    BY <1>6, <1>11, <1>19, <2>3, PlaceCounts
  <2> QED BY <2>1, <2>2, <2>4 DEF sent
<1>24. /\ uct_sample' = uct_sample + acked - sent
       /\ uct_update' = uct_update + acked - usent
  <2>1. /\ uct_sample' = place_with_bypass(uct_sample, place_capacity, ack, sample)
        /\ uct_update' = place_with_bypass(uct_update, place_capacity, ack, update)
    BY <1>3 DEF ControlPath, phi_update_ack
  <2>2. /\ ack => uct_sample = 0 /\ uct_update = 0
        /\ sample /\ ~ack => uct_sample = 1
        /\ update /\ ~ack => uct_update = 1
    <3>1. ack => uct_sample = 0 /\ uct_update = 0
      <4>1. /\ working >= 0 /\ done >= 0 /\ asking >= 0
            /\ working \in Int /\ done \in Int /\ asking \in Int
        BY <1>8
      <4>2. ack => acked = 1
        BY <1>8
      <4>3. CASE ack
        BY <1>6, <1>9, <4>1, <4>2, <4>3
      <4> QED BY <4>3
    <3> QED BY <1>11, <3>1
  <2> QED BY <1>6, <2>1, <2>2, BypassCounts DEF acked, sent, usent
<1>25. /\ Pulse(turn \in sampling)' = IF t \in sampling' THEN 1 ELSE 0
       /\ Pulse(turn \in sampled)' = IF t \in sampled' THEN 1 ELSE 0
       /\ Pulse(turn \in updating)' = IF t \in updating' THEN 1 ELSE 0
       /\ Pulse(owed)' = IF owed' THEN 1 ELSE 0
       /\ Pulse(ack)' = IF ack' THEN 1 ELSE 0
  BY Zenon DEF Pulse
<1>26. owed' <=> b \/ (owed /\ ~c)
  BY <1>17, <1>18, <1>19, <1>22, Zenon DEF owed
<1>27. /\ Pulse(turn \in sampling)' = working + Pulse(s) - Pulse(m)
       /\ Pulse(turn \in sampled)' = done + Pulse(m) - Pulse(c)
       /\ Pulse(turn \in updating)' = asking + Pulse(u) - Pulse(c)
       /\ Pulse(ack)' = Pulse(c)
       /\ Pulse(owed)' = owing + Pulse(b) - Pulse(c)
  <2>1. Pulse(turn \in sampling)' = working + Pulse(s) - Pulse(m)
    BY <1>8, <1>15, <1>16, <1>19, <1>20, <1>21, <1>25
  <2>2. Pulse(turn \in sampled)' = done + Pulse(m) - Pulse(c)
    BY <1>8, <1>15, <1>16, <1>19, <1>20, <1>21, <1>25
  <2>3. Pulse(turn \in updating)' = asking + Pulse(u) - Pulse(c)
    BY <1>8, <1>15, <1>16, <1>19, <1>20, <1>21, <1>25
  <2>4. Pulse(ack)' = Pulse(c)
    BY <1>17, <1>20, <1>25
  <2>5. c => owed
    BY <1>22 DEF owed
  <2>6. Pulse(owed)' = owing + Pulse(b) - Pulse(c)
    BY <1>8, <1>9, <1>19, <1>20, <1>22, <1>25, <1>26, <2>5
  <2> QED BY <2>1, <2>2, <2>3, <2>4, <2>6
<1>28. /\ working \in {0, 1} /\ done \in {0, 1} /\ asking \in {0, 1}
       /\ owing \in {0, 1} /\ acked \in {0, 1} /\ sent \in {0, 1} /\ usent \in {0, 1}
       /\ Pulse(b) \in {0, 1} /\ Pulse(s) \in {0, 1} /\ Pulse(u) \in {0, 1}
       /\ Pulse(m) \in {0, 1} /\ Pulse(c) \in {0, 1}
  BY <1>8, <1>20
<1>29. TriggerIsOneToken'
  <2>1. sample_trigs'[t] + Pulse(turn \in sampling)' + Pulse(turn \in sampled)' = Pulse(owed)'
    BY <1>7, <1>9, <1>13, <1>27, <1>28
  <2>2. update_trigs'[t] + Pulse(turn \in updating)' = Pulse(owed)'
    BY <1>7, <1>9, <1>14, <1>27, <1>28
  <2> QED BY <2>1, <2>2 DEF TriggerIsOneToken
<1>30. RequestIsOneToken'
  <2>0. /\ sample_req' = sample_req + sent - Pulse(s)
        /\ update_req' = update_req + usent - Pulse(u)
    BY <1>13, <1>14
  <2>1. uct_sample' + sample_req' + Pulse(turn \in sampling)' + Pulse(turn \in sampled)'
          + Pulse(ack)' = 1
    <3> DEFINE a == uct_sample + acked - sent
               r == sample_req + sent - Pulse(s)
               w == working + Pulse(s) - Pulse(m)
               d == done + Pulse(m) - Pulse(c)
    <3>1. a + r + w + d + Pulse(c) = uct_sample + sample_req + working + done + acked
      BY <1>6, <1>28
    <3>2. uct_sample + sample_req + working + done + acked = 1
      BY <1>9
    <3>3. uct_sample' = a /\ sample_req' = r
      BY <1>24, <2>0
    <3>4. /\ Pulse(turn \in sampling)' = w /\ Pulse(turn \in sampled)' = d
          /\ Pulse(ack)' = Pulse(c)
      BY <1>27
    <3> HIDE DEF a, r, w, d
    <3> QED BY <3>1, <3>2, <3>3, <3>4
  <2>2. uct_update' + update_req' + Pulse(turn \in updating)' + Pulse(ack)' = 1
    BY <1>6, <1>9, <1>24, <1>27, <1>28, <2>0
  <2>3. sct' + sample_req' + Pulse(turn \in sampling)' = 1
    BY <1>6, <1>9, <1>23, <1>27, <1>28, <2>0
  <2> QED BY <2>1, <2>2, <2>3 DEF RequestIsOneToken
<1>31. PhiType'
  <2>1. uct_sample' \in {0, 1} /\ uct_update' \in {0, 1}
    BY <1>6, <1>8, <1>9, <1>11, <1>20, <1>24
  <2>2. sct' \in {0, 1}
    <3>1. m => sct = 0 \/ sample
      <4>1. CASE s
        BY <1>6, <1>8, <1>9, <1>13, <4>1
      <4> QED BY <1>15, <1>21, <4>1
    <3> QED BY <1>6, <1>11, <1>19, <1>20, <1>23, <3>1
  <2> QED BY <1>6, <1>13, <1>14, <1>17, <1>18, <1>19, <2>1, <2>2 DEF PhiType
<1>32. AllOfOneTurn'
  BY <1>13, <1>14, <1>16 DEF AllOfOneTurn
<1>33. SelectedIsTurn'
  BY <1>17, <1>18, <1>19, <1>22 DEF SelectedIsTurn
<1> QED BY <1>29, <1>30, <1>31, <1>32, <1>33, KeepsOwed DEF PhiInv

LEMMA StutterPhiInv == PhiInv /\ UNCHANGED pvars => PhiInv'
<1> SUFFICES ASSUME PhiInv, UNCHANGED pvars PROVE PhiInv'
  OBVIOUS
<1>1. /\ sample_trigs' = sample_trigs /\ update_trigs' = update_trigs
      /\ sample_req' = sample_req /\ update_req' = update_req
      /\ req_registered' = req_registered /\ ack' = ack
      /\ sampling' = sampling /\ sampled' = sampled /\ updating' = updating
      /\ sct' = sct /\ uct_sample' = uct_sample /\ uct_update' = uct_update
      /\ awaiting' = awaiting /\ turn' = turn /\ deciding' = deciding
  BY DEF pvars, vars, phi, forks, sources, control
<1> QED BY <1>1, Zenon DEF PhiInv, PhiType, OwedWhileDeciding, AllOfOneTurn,
           TriggerIsOneToken, RequestIsOneToken, SelectedIsTurn, owed, Pulse

THEOREM PhiInvariance == LoopSpec => []PhiInv
<1>1. ASSUME IInv, PhiInv, LoopNext PROVE PhiInv'
  BY <1>1, TickPhiInv DEF LoopNext
<1>2. IInv /\ PhiInv /\ [LoopNext]_pvars => PhiInv'
  BY <1>1, StutterPhiInv
<1> QED BY LoopTerminates, Invariance, InitPhiInv, <1>2, PTL DEF LoopSpec

(* A request starts one source, the one whose turn it is, though requests  *)
(* come before their triggers or after them, and triggers are remembered   *)
(* (conditional_fork.vhdl:86-93, phi_sequencer_v2.vhdl:87).                *)
THEOREM OneSource == LoopSpec => []OneSourceAtATime
<1>1. PhiInv => OneSourceAtATime
  <2> SUFFICES ASSUME PhiInv PROVE OneSourceAtATime
    OBVIOUS
  <2>1. /\ sampling \subseteq {turn} /\ sampled \subseteq {turn} /\ updating \subseteq {turn}
    BY DEF PhiInv, AllOfOneTurn
  <2>2. ~(turn \in sampling /\ turn \in sampled)
    <3>1. /\ Pulse(turn \in sampling) = IF turn \in sampling THEN 1 ELSE 0
          /\ Pulse(turn \in sampled) = IF turn \in sampled THEN 1 ELSE 0
          /\ Pulse(owed) = IF owed THEN 1 ELSE 0
      BY Zenon DEF Pulse
    <3>2. sample_trigs[turn] \in {0, 1}
      BY DEF PhiInv, PhiType
    <3> QED BY <3>1, <3>2 DEF PhiInv, TriggerIsOneToken
  <2> QED BY <2>1, <2>2 DEF OneSourceAtATime
<1> QED BY PhiInvariance, <1>1, PTL

(* The value handed on is the value of the iteration's own source, though  *)
(* PhiBase listens to whichever source completes                           *)
(* (phi_sequencer_v2.vhdl:137-144).                                        *)
THEOREM Selection == LoopSpec => []RightSource
<1>1. PhiInv => RightSource
  BY DEF PhiInv, SelectedIsTurn, RightSource
<1> QED BY PhiInvariance, <1>1, PTL

-----------------------------------------------------------------------------
(* The clean-up of a fork block.                                           *)

Last == Cardinality(Transitions)
Pairs == Transitions \X Transitions
Forward == {a \in Pairs : a[1] < a[2]}

LEMMA Numbers == Last \in Nat /\ Transitions = 1 .. Last
BY TransitionsAssumption, FS_CardinalityType DEF Last

(* What goes wrong somewhere goes wrong first at some number.              *)
LEMMA Least ==
  ASSUME NEW S, S \subseteq Nat, S # {}
  PROVE  \E i \in S : \A j \in Nat : j < i => j \notin S
<1>1. PICK i \in S : \A j \in S : ~ (<<j, i>> \in OpToRel(<, Nat))
  BY NatLessThanWellFounded, WFMin
<1> QED BY <1>1 DEF OpToRel

(* A bounded set of numbers has a maximum.                                 *)
LEMMA MaxIsGreatest ==
  ASSUME NEW S, S \subseteq Nat, S # {}, NEW b \in Nat, \A x \in S : x <= b
  PROVE  Max(S) \in S /\ \A x \in S : x <= Max(S)
<1> DEFINE Bounds == {c \in Nat : \A x \in S : x <= c}
<1>1. PICK c \in Bounds : \A j \in Nat : j < c => j \notin Bounds
  BY Least
<1>2. c \in S
  <2> SUFFICES ASSUME c \notin S PROVE FALSE
    OBVIOUS
  <2>1. PICK x \in S : TRUE
    OBVIOUS
  <2>2. c > 0
    BY <1>1, <2>1
  <2>3. c - 1 \in Bounds
    BY <1>1, <2>2
  <2> QED BY <1>1, <2>2, <2>3
<1>3. \E x \in S : \A y \in S : x >= y
  BY <1>1, <1>2
<1> QED BY <1>3 DEF Max

----------------------------------------------------------------------------
(* The function that Longest defines exists: it is found one transition    *)
(* after the other, the arcs agreeing with the numbers.                    *)
Ways(A, f, v, w) ==
  {f[<<v, u>>] + 1 : u \in {x \in Transitions : /\ <<x, w>> \in A
                                                /\ x = v \/ f[<<v, x>>] > 0}}
Farthest(A, f, v, w) == Max({0} \union Ways(A, f, v, w))

(* f is right for the paths to the transitions up to k.                    *)
RightUpTo(A, f, k) ==
  /\ f \in [Pairs -> Nat]
  /\ \A v, w \in Transitions : w <= k =>
       f[<<v, w>>] = Farthest(A, f, v, w) /\ f[<<v, w>>] <= w

(* The farthest way there, once the paths to what precedes w are right.    *)
LEMMA FarthestFacts ==
  ASSUME NEW A \in SUBSET Forward, NEW f \in [Pairs -> Nat],
         NEW v \in Transitions, NEW w \in Transitions,
         \A u \in Transitions : u < w => f[<<v, u>>] <= u
  PROVE  /\ Farthest(A, f, v, w) \in Nat
         /\ Farthest(A, f, v, w) <= w
         /\ Farthest(A, f, v, w) > 0 =>
              \E u \in Transitions : /\ <<u, w>> \in A
                                     /\ u = v \/ f[<<v, u>>] > 0
                                     /\ Farthest(A, f, v, w) = f[<<v, u>>] + 1
         /\ \A u \in Transitions :
              <<u, w>> \in A /\ (u = v \/ f[<<v, u>>] > 0) =>
                Farthest(A, f, v, w) >= f[<<v, u>>] + 1
<1> DEFINE S == {0} \union Ways(A, f, v, w)
           far == Farthest(A, f, v, w)
<1>1. /\ w \in Nat
      /\ \A u \in Transitions : u \in Nat /\ f[<<v, u>>] \in Nat
      /\ \A u \in Transitions : <<u, w>> \in A => u < w
  BY Numbers DEF Pairs, Forward
<1>2. \A x \in S : x \in Nat /\ x <= w
  <2> SUFFICES ASSUME NEW x \in Ways(A, f, v, w) PROVE x \in Nat /\ x <= w
    BY <1>1
  <2>1. PICK u \in Transitions : <<u, w>> \in A /\ x = f[<<v, u>>] + 1
    BY DEF Ways
  <2> QED BY <1>1, <2>1
<1>3. far \in S /\ \A x \in S : x <= far
  <2>1. S \subseteq Nat /\ S # {}
    BY <1>2
  <2>2. far = Max(S)
    BY DEF Farthest
  <2> HIDE DEF S, far
  <2> QED BY <1>1, <1>2, <2>1, <2>2, MaxIsGreatest
<1>4. \A u \in Transitions : <<u, w>> \in A /\ (u = v \/ f[<<v, u>>] > 0) =>
        f[<<v, u>>] + 1 \in S
  BY DEF Ways
<1>5. \A x \in S : x = 0 \/ x \in Ways(A, f, v, w)
  OBVIOUS
<1> HIDE DEF S, far
<1>6. far > 0 => far \in Ways(A, f, v, w)
  BY <1>3, <1>5
<1>7. far > 0 => \E u \in Transitions : /\ <<u, w>> \in A
                                        /\ u = v \/ f[<<v, u>>] > 0
                                        /\ far = f[<<v, u>>] + 1
  BY <1>6 DEF Ways
<1>8. \A u \in Transitions : <<u, w>> \in A /\ (u = v \/ f[<<v, u>>] > 0) =>
        far >= f[<<v, u>>] + 1
  BY <1>1, <1>2, <1>3, <1>4
<1>9. far \in Nat /\ far <= w
  BY <1>2, <1>3
<1> QED BY <1>7, <1>8, <1>9 DEF far

LEMMA OneFarther ==
  ASSUME NEW A \in SUBSET Forward, NEW k \in Nat, NEW f, RightUpTo(A, f, k)
  PROVE  \E g : RightUpTo(A, g, k + 1)
<1> DEFINE g == [p \in Pairs |-> IF p[2] <= k THEN f[p]
                                 ELSE IF p[2] = k + 1 THEN Farthest(A, f, p[1], p[2])
                                 ELSE 0]
<1>1. /\ f \in [Pairs -> Nat]
      /\ \A v, w \in Transitions : w <= k =>
           f[<<v, w>>] = Farthest(A, f, v, w) /\ f[<<v, w>>] <= w
  BY DEF RightUpTo
<1>2. \A w \in Transitions : w \in Nat
  BY Numbers
<1>3. \A v, w \in Transitions :
        /\ w <= k => g[<<v, w>>] = f[<<v, w>>]
        /\ w = k + 1 => g[<<v, w>>] = Farthest(A, f, v, w)
        /\ w > k + 1 => g[<<v, w>>] = 0
  BY <1>2 DEF Pairs
<1>4. \A v, w \in Transitions : w <= k + 1 =>
        Farthest(A, f, v, w) \in Nat /\ Farthest(A, f, v, w) <= w
  <2> SUFFICES ASSUME NEW v \in Transitions, NEW w \in Transitions, w <= k + 1
               PROVE  Farthest(A, f, v, w) \in Nat /\ Farthest(A, f, v, w) <= w
    OBVIOUS
  <2>1. \A u \in Transitions : u < w => f[<<v, u>>] <= u
    BY <1>1, <1>2
  <2> QED BY <1>1, <2>1, FarthestFacts
<1>5. g = [p \in Pairs |-> g[p]]
  OBVIOUS
<1> HIDE DEF g
<1>6. \A v, w \in Transitions : g[<<v, w>>] \in Nat
  <2> SUFFICES ASSUME NEW v \in Transitions, NEW w \in Transitions
               PROVE  g[<<v, w>>] \in Nat
    OBVIOUS
  <2>1. f[<<v, w>>] \in Nat
    BY <1>1 DEF Pairs
  <2>2. w <= k \/ w = k + 1 \/ w > k + 1
    BY <1>2
  <2> QED BY <1>2, <1>3, <1>4, <2>1, <2>2
<1>7. g \in [Pairs -> Nat]
  <2>1. \A p \in Pairs : g[p] \in Nat
    BY <1>6 DEF Pairs
  <2> QED BY <1>5, <2>1
<1>8. ASSUME NEW v \in Transitions, NEW w \in Transitions, w <= k + 1
      PROVE  Farthest(A, g, v, w) = Farthest(A, f, v, w)
  <2>1. \A x \in Transitions : <<x, w>> \in A => g[<<v, x>>] = f[<<v, x>>]
    <3> SUFFICES ASSUME NEW x \in Transitions, <<x, w>> \in A
                 PROVE  g[<<v, x>>] = f[<<v, x>>]
      OBVIOUS
    <3>1. x < w
      BY DEF Forward
    <3> QED BY <1>2, <1>3, <1>8, <3>1
  <2>2. {x \in Transitions : <<x, w>> \in A /\ (x = v \/ g[<<v, x>>] > 0)}
          = {x \in Transitions : <<x, w>> \in A /\ (x = v \/ f[<<v, x>>] > 0)}
    BY <2>1
  <2>3. Ways(A, g, v, w) = Ways(A, f, v, w)
    BY <2>1, <2>2 DEF Ways
  <2> QED BY <2>3 DEF Farthest
<1>9. ASSUME NEW v \in Transitions, NEW w \in Transitions, w <= k + 1
      PROVE  g[<<v, w>>] = Farthest(A, g, v, w) /\ g[<<v, w>>] <= w
  <2>1. g[<<v, w>>] = Farthest(A, f, v, w)
    BY <1>1, <1>2, <1>3, <1>9
  <2> QED BY <1>4, <1>8, <1>9, <2>1
<1> QED BY <1>7, <1>9 DEF RightUpTo

LEMMA DistancesExist ==
  ASSUME NEW A \in SUBSET Forward
  PROVE  \E f : RightUpTo(A, f, Last)
<1> DEFINE Bad == {k \in Nat : ~ \E f : RightUpTo(A, f, k)}
<1> SUFFICES ASSUME Bad # {} PROVE FALSE
  BY Numbers
<1>1. PICK k \in Bad : \A j \in Nat : j < k => j \notin Bad
  BY Least
<1>2. RightUpTo(A, [p \in Pairs |-> 0], 0)
  BY Numbers DEF RightUpTo, Pairs
<1>3. k # 0
  BY <1>2
<1>4. k - 1 \in Nat /\ k - 1 < k /\ (k - 1) + 1 = k
  BY <1>3
<1>5. PICK f : RightUpTo(A, f, k - 1)
  BY <1>1, <1>4
<1>6. \E g : RightUpTo(A, g, (k - 1) + 1)
  BY <1>4, <1>5, OneFarther
<1> QED BY <1>4, <1>6

(* What Longest is: the two facts that all the rest uses.                  *)
LEMMA LongestIsRight ==
  ASSUME NEW A \in SUBSET Forward
  PROVE  RightUpTo(A, Longest(A), Last)
<1> DEFINE Def(f) == [p \in Pairs |->
             Max({0} \union {f[<<p[1], u>>] + 1 :
               u \in {x \in Transitions : /\ <<x, p[2]>> \in A
                                          /\ x = p[1] \/ f[<<p[1], x>>] > 0}})]
<1>1. PICK f : RightUpTo(A, f, Last)
  BY DistancesExist
<1>2. f = Def(f)
  <2>1. \A p \in Pairs : f[p] = Def(f)[p]
    <3> SUFFICES ASSUME NEW p \in Pairs PROVE f[p] = Def(f)[p]
      OBVIOUS
    <3>1. PICK v \in Transitions, w \in Transitions : p = <<v, w>>
      BY DEF Pairs
    <3>2. f[p] = Farthest(A, f, v, w)
      BY <1>1, <3>1, Numbers DEF RightUpTo
    <3> QED BY <3>1, <3>2 DEF Farthest, Ways
  <2> QED BY <1>1, <2>1 DEF RightUpTo
<1>3. Longest(A) = CHOOSE d : d = Def(d)
  BY DEF Longest, Pairs
<1> DEFINE d == Longest(A)
<1>4. d = Def(d)
  <2> HIDE DEF Def
  <2> QED BY <1>2, <1>3
<1>5. \A v, w \in Transitions : d[<<v, w>>] = Farthest(A, d, v, w)
  <2> SUFFICES ASSUME NEW v \in Transitions, NEW w \in Transitions
               PROVE  d[<<v, w>>] = Farthest(A, d, v, w)
    OBVIOUS
  <2> HIDE DEF d
  <2>1. Def(d)[<<v, w>>] = Farthest(A, d, v, w)
    BY DEF Farthest, Ways, Pairs
  <2> HIDE DEF Def
  <2> QED BY <1>4, <2>1
<1> DEFINE Bad == {w \in Transitions : \E v \in Transitions : d[<<v, w>>] # f[<<v, w>>]}
<1> HIDE DEF d
<1>6. Bad = {}
  <2> SUFFICES ASSUME Bad # {} PROVE FALSE
    OBVIOUS
  <2>1. PICK w \in Bad : \A j \in Nat : j < w => j \notin Bad
    <3>1. Bad \subseteq Nat
      BY Numbers
    <3> HIDE DEF Bad
    <3> QED BY <3>1, Least
  <2>2. PICK v \in Transitions : d[<<v, w>>] # f[<<v, w>>]
    BY <2>1
  <2>3. \A x \in Transitions : <<x, w>> \in A => d[<<v, x>>] = f[<<v, x>>]
    <3> SUFFICES ASSUME NEW x \in Transitions, <<x, w>> \in A
                 PROVE  d[<<v, x>>] = f[<<v, x>>]
      OBVIOUS
    <3>1. x < w
      BY DEF Forward
    <3>2. x \in Nat /\ x \notin Bad
      BY <2>1, <3>1, Numbers
    <3> QED BY <3>2
  <2>4. {x \in Transitions : <<x, w>> \in A /\ (x = v \/ d[<<v, x>>] > 0)}
          = {x \in Transitions : <<x, w>> \in A /\ (x = v \/ f[<<v, x>>] > 0)}
    BY <2>3
  <2>5. Ways(A, d, v, w) = Ways(A, f, v, w)
    BY <2>3, <2>4 DEF Ways
  <2>6. f[<<v, w>>] = Farthest(A, f, v, w)
    <3>1. w \in Transitions /\ w <= Last
      BY Numbers
    <3> QED BY <1>1, <3>1 DEF RightUpTo
  <2> QED BY <1>5, <2>1, <2>2, <2>5, <2>6 DEF Farthest
<1>7. d = f
  <2>1. \A p \in Pairs : d[p] = f[p]
    BY <1>6 DEF Pairs
  <2>2. d = [p \in Pairs |-> d[p]]
    BY <1>4
  <2> QED BY <1>1, <2>1, <2>2 DEF RightUpTo
<1> QED BY <1>1, <1>7 DEF d

----------------------------------------------------------------------------
(* Paths.                                                                  *)

LEMMA Distances ==
  ASSUME NEW A \in SUBSET Forward, NEW v \in Transitions, NEW w \in Transitions
  PROVE  /\ Longest(A)[<<v, w>>] \in Nat
         /\ Longest(A)[<<v, w>>] > 0 =>
              \E u \in Transitions : /\ <<u, w>> \in A
                                     /\ u = v \/ Longest(A)[<<v, u>>] > 0
                                     /\ Longest(A)[<<v, w>>] = Longest(A)[<<v, u>>] + 1
         /\ \A u \in Transitions :
              <<u, w>> \in A /\ (u = v \/ Longest(A)[<<v, u>>] > 0) =>
                Longest(A)[<<v, w>>] >= Longest(A)[<<v, u>>] + 1
<1> DEFINE d == Longest(A)
<1>1. RightUpTo(A, d, Last)
  BY LongestIsRight
<1> HIDE DEF d
<1>2. \A u \in Transitions : u <= Last
  BY Numbers
<1>3. /\ d \in [Pairs -> Nat]
      /\ \A u \in Transitions : u < w => d[<<v, u>>] <= u
      /\ d[<<v, w>>] = Farthest(A, d, v, w)
  BY <1>1, <1>2 DEF RightUpTo
<1>4. /\ Farthest(A, d, v, w) \in Nat
      /\ Farthest(A, d, v, w) > 0 =>
           \E u \in Transitions : /\ <<u, w>> \in A
                                  /\ u = v \/ d[<<v, u>>] > 0
                                  /\ Farthest(A, d, v, w) = d[<<v, u>>] + 1
      /\ \A u \in Transitions :
           <<u, w>> \in A /\ (u = v \/ d[<<v, u>>] > 0) =>
             Farthest(A, d, v, w) >= d[<<v, u>>] + 1
  BY <1>3, FarthestFacts
<1> QED BY <1>3, <1>4 DEF d

(* Paths go forward.                                                       *)
LEMMA PathsGoForward ==
  ASSUME NEW A \in SUBSET Forward, NEW v \in Transitions, NEW w \in Transitions,
         Longest(A)[<<v, w>>] > 0
  PROVE  v < w
<1> DEFINE d == Longest(A)
           Bad == {x \in Transitions : d[<<v, x>>] > 0 /\ ~ (v < x)}
<1> SUFFICES ASSUME Bad # {} PROVE FALSE
  OBVIOUS
<1>1. PICK x \in Bad : \A j \in Nat : j < x => j \notin Bad
  <2>1. Bad \subseteq Nat
    BY Numbers
  <2> HIDE DEF Bad
  <2> QED BY <2>1, Least
<1>2. PICK u \in Transitions : <<u, x>> \in A /\ (u = v \/ d[<<v, u>>] > 0)
  BY <1>1, Distances
<1>3. u < x
  BY <1>2 DEF Forward
<1> QED BY <1>1, <1>2, <1>3, Numbers

(* Two paths make one, as long as the two of them or longer.               *)
LEMMA PathsCompose ==
  ASSUME NEW A \in SUBSET Forward, NEW v \in Transitions, NEW x \in Transitions,
         NEW w \in Transitions, Longest(A)[<<v, x>>] > 0, Longest(A)[<<x, w>>] > 0
  PROVE  Longest(A)[<<v, w>>] >= Longest(A)[<<v, x>>] + Longest(A)[<<x, w>>]
<1> DEFINE d == Longest(A)
           Bad == {y \in Transitions : /\ d[<<x, y>>] > 0
                                       /\ ~ (d[<<v, y>>] >= d[<<v, x>>] + d[<<x, y>>])}
<1> SUFFICES ASSUME Bad # {} PROVE FALSE
  OBVIOUS
<1>1. PICK y \in Bad : \A j \in Nat : j < y => j \notin Bad
  <2>1. Bad \subseteq Nat
    BY Numbers
  <2> HIDE DEF Bad
  <2> QED BY <2>1, Least
<1>2. PICK u \in Transitions : /\ <<u, y>> \in A
                               /\ u = x \/ d[<<x, u>>] > 0
                               /\ d[<<x, y>>] = d[<<x, u>>] + 1
  <2>1. y \in Transitions /\ d[<<x, y>>] > 0
    BY <1>1
  <2> HIDE DEF Bad
  <2> QED BY <2>1, Distances
<1>3. u < y
  BY <1>2 DEF Forward
<1>4. d[<<v, x>>] \in Nat /\ d[<<v, u>>] \in Nat /\ d[<<v, y>>] \in Nat /\ d[<<x, u>>] \in Nat
  BY <1>1, Distances
<1>5. CASE u = x
  <2>1. d[<<x, x>>] = 0
    BY <1>4, <1>5, PathsGoForward, Numbers
  <2>2. d[<<v, y>>] >= d[<<v, x>>] + 1
    BY <1>1, <1>2, <1>5, Distances
  <2> QED BY <1>1, <1>2, <1>4, <1>5, <2>1, <2>2
<1>6. CASE u # x
  <2>1. d[<<v, u>>] >= d[<<v, x>>] + d[<<x, u>>]
    BY <1>1, <1>2, <1>3, <1>6, Numbers
  <2>2. d[<<v, u>>] > 0
    BY <1>4, <2>1
  <2>3. d[<<v, y>>] >= d[<<v, u>>] + 1
    BY <1>1, <1>2, <2>2, Distances
  <2> QED BY <1>1, <1>2, <1>4, <2>1, <2>3
<1> QED BY <1>5, <1>6

(* Arcs beside a longer path can go, all of them at once or some of them:  *)
(* no longest path runs over one, so that what is left has a path wherever *)
(* there was one (vcControlPath.cpp:2490-2573).                            *)
LEMMA RedundantArcsCanGo ==
  ASSUME NEW A \in SUBSET Forward, NEW B \in SUBSET A, A \ Redundant(A) \subseteq B,
         NEW v \in Transitions, NEW w \in Transitions, Longest(A)[<<v, w>>] > 0
  PROVE  Longest(B)[<<v, w>>] > 0
<1> DEFINE d == Longest(A)
           e == Longest(B)
           Bad == {y \in Transitions : d[<<v, y>>] > 0 /\ ~ (e[<<v, y>>] > 0)}
<1> SUFFICES ASSUME Bad # {} PROVE FALSE
  OBVIOUS
<1>1. PICK y \in Bad : \A j \in Nat : j < y => j \notin Bad
  <2>1. Bad \subseteq Nat
    BY Numbers
  <2> HIDE DEF Bad
  <2> QED BY <2>1, Least
<1>2. PICK u \in Transitions : /\ <<u, y>> \in A
                               /\ u = v \/ d[<<v, u>>] > 0
                               /\ d[<<v, y>>] = d[<<v, u>>] + 1
  <2>1. y \in Transitions /\ d[<<v, y>>] > 0
    BY <1>1
  <2> HIDE DEF Bad
  <2> QED BY <2>1, Distances
<1>3. u < y
  BY <1>2 DEF Forward
<1>4. d[<<v, u>>] \in Nat /\ d[<<u, y>>] \in Nat /\ d[<<v, y>>] \in Nat
  BY <1>1, Distances
<1>5. ~ (d[<<u, y>>] > 1)
  <2>1. CASE u = v
    <3>1. d[<<v, v>>] = 0
      BY <1>4, <2>1, PathsGoForward, Numbers
    <3> QED BY <1>2, <2>1, <3>1
  <2>2. CASE u # v
    <3>1. d[<<u, y>>] > 1 => d[<<v, y>>] >= d[<<v, u>>] + d[<<u, y>>]
      BY <1>1, <1>2, <1>4, <2>2, PathsCompose
    <3> QED BY <1>2, <1>4, <3>1
  <2> QED BY <2>1, <2>2
<1>6. <<u, y>> \in B
  BY <1>2, <1>5 DEF Redundant
<1>7. u = v \/ e[<<v, u>>] > 0
  BY <1>1, <1>2, <1>3, Numbers
<1>8. e[<<v, u>>] \in Nat /\ e[<<v, y>>] \in Nat
  BY <1>1, Distances
<1>9. e[<<v, y>>] >= e[<<v, u>>] + 1
  BY <1>1, <1>6, <1>7, Distances
<1> QED BY <1>1, <1>8, <1>9

----------------------------------------------------------------------------
(* The block.                                                              *)

BeforeBy(A, v, w) == v = w \/ Longest(A)[<<v, w>>] > 0

(* What is left of a block stands for all of it: the arcs by their paths,  *)
(* a reenable arc by one that leads from later to earlier.                 *)
BlockInv ==
  /\ written \in Blocks
  /\ arcs \subseteq written.arcs
  /\ marked \subseteq written.marked
  /\ \A a \in written.arcs : Longest(arcs)[a] > 0
  /\ \A a \in written.marked :
       \E b \in marked : BeforeBy(arcs, a[1], b[1]) /\ BeforeBy(arcs, b[2], a[2])

LEMMA BlockTypes ==
  ASSUME BlockInv
  PROVE  /\ arcs \subseteq Forward
         /\ marked \subseteq Pairs
         /\ written.marked \subseteq Pairs
         /\ written.arcs \subseteq Forward
         /\ \A a \in marked : written.delay[a] \in {0, 1}
BY BlocksAssumption DEF BlockInv, Forward, Pairs

LEMMA BeforeIsTransitive ==
  ASSUME NEW A \in SUBSET Forward, NEW v \in Transitions, NEW x \in Transitions,
         NEW w \in Transitions, BeforeBy(A, v, x), BeforeBy(A, x, w)
  PROVE  BeforeBy(A, v, w)
<1>1. /\ Longest(A)[<<v, x>>] \in Nat /\ Longest(A)[<<x, w>>] \in Nat
      /\ Longest(A)[<<v, w>>] \in Nat
  BY Distances
<1>2. CASE v = x \/ x = w
  BY <1>2 DEF BeforeBy
<1>3. CASE v # x /\ x # w
  <2>1. Longest(A)[<<v, x>>] > 0 /\ Longest(A)[<<x, w>>] > 0
    BY <1>3 DEF BeforeBy
  <2>2. Longest(A)[<<v, w>>] >= Longest(A)[<<v, x>>] + Longest(A)[<<x, w>>]
    BY <2>1, PathsCompose
  <2> QED BY <1>1, <2>1, <2>2 DEF BeforeBy
<1> QED BY <1>2, <1>3

LEMMA InitBlockInv == FBInit => BlockInv
<1> SUFFICES ASSUME FBInit PROVE BlockInv
  OBVIOUS
<1>1. written \in Blocks /\ arcs = written.arcs /\ marked = written.marked
  BY DEF FBInit
<1>2. arcs \in SUBSET Forward
  BY <1>1, BlocksAssumption DEF Forward, Pairs
<1>3. ASSUME NEW a \in arcs PROVE Longest(arcs)[a] > 0
  <2>1. PICK v \in Transitions, w \in Transitions : a = <<v, w>>
    BY <1>2 DEF Forward, Pairs
  <2>2. Longest(arcs)[<<v, v>>] \in Nat /\ Longest(arcs)[<<v, w>>] \in Nat
    BY <1>2, Distances
  <2>3. Longest(arcs)[<<v, w>>] >= Longest(arcs)[<<v, v>>] + 1
    BY <1>2, <2>1, Distances
  <2> QED BY <2>1, <2>2, <2>3
<1> QED BY <1>1, <1>3 DEF BlockInv, BeforeBy

(* Whichever of the redundant arcs a pass takes away.                      *)
LEMMA FewerArcs ==
  ASSUME BlockInv, arcs \ arcs' \subseteq Redundant(arcs), arcs' \subseteq arcs,
         UNCHANGED <<written, marked>>
  PROVE  BlockInv'
<1>1. arcs \in SUBSET Forward /\ arcs' \in SUBSET arcs
  BY BlockTypes
<1>2. \A v, w \in Transitions : Longest(arcs)[<<v, w>>] > 0 => Longest(arcs')[<<v, w>>] > 0
  BY <1>1, RedundantArcsCanGo
<1>3. \A v, w \in Transitions : BeforeBy(arcs, v, w) => BeforeBy(arcs', v, w)
  BY <1>2 DEF BeforeBy
<1>4. \A a \in written.arcs : Longest(arcs')[a] > 0
  <2> SUFFICES ASSUME NEW a \in written.arcs PROVE Longest(arcs')[a] > 0
    OBVIOUS
  <2>1. PICK v \in Transitions, w \in Transitions : a = <<v, w>>
    BY BlockTypes DEF Forward, Pairs
  <2>2. Longest(arcs)[a] > 0
    BY DEF BlockInv
  <2> QED BY <1>2, <2>1, <2>2
<1>5. ASSUME NEW a \in written.marked
      PROVE  \E b \in marked : BeforeBy(arcs', a[1], b[1]) /\ BeforeBy(arcs', b[2], a[2])
  <2>1. PICK b \in marked : BeforeBy(arcs, a[1], b[1]) /\ BeforeBy(arcs, b[2], a[2])
    BY DEF BlockInv
  <2>2. /\ a[1] \in Transitions /\ a[2] \in Transitions
        /\ b[1] \in Transitions /\ b[2] \in Transitions
    BY BlockTypes DEF Pairs
  <2> QED BY <1>3, <2>1, <2>2
<1>6. /\ written' = written /\ marked' = marked
      /\ written \in Blocks /\ arcs' \subseteq written.arcs /\ marked \subseteq written.marked
  BY DEF BlockInv
<1>7. \A a \in written'.marked :
        \E b \in marked' : BeforeBy(arcs, a[1], b[1])' /\ BeforeBy(arcs, b[2], a[2])'
  BY <1>5, <1>6 DEF BeforeBy
<1>8. \A a \in written'.arcs : Longest(arcs)'[a] > 0
  BY <1>4, <1>6 DEF Longest
<1> QED BY <1>6, <1>7, <1>8 DEF BlockInv

(* Whichever reenable arcs are left, if one of them stands for each that   *)
(* is taken away.                                                          *)
LEMMA FewerReenables ==
  ASSUME BlockInv, marked' \subseteq marked, UNCHANGED <<written, arcs>>,
         \A b \in marked : \E c \in marked' :
           BeforeBy(arcs, b[1], c[1]) /\ BeforeBy(arcs, c[2], b[2])
  PROVE  BlockInv'
<1>1. ASSUME NEW a \in written.marked
      PROVE  \E c \in marked' : BeforeBy(arcs, a[1], c[1]) /\ BeforeBy(arcs, c[2], a[2])
  <2>1. PICK b \in marked : BeforeBy(arcs, a[1], b[1]) /\ BeforeBy(arcs, b[2], a[2])
    BY DEF BlockInv
  <2>2. PICK c \in marked' : BeforeBy(arcs, b[1], c[1]) /\ BeforeBy(arcs, c[2], b[2])
    BY <2>1
  <2>3. /\ a[1] \in Transitions /\ a[2] \in Transitions
        /\ b[1] \in Transitions /\ b[2] \in Transitions
        /\ c[1] \in Transitions /\ c[2] \in Transitions
    BY BlockTypes DEF Pairs
  <2>4. arcs \in SUBSET Forward
    BY BlockTypes
  <2>5. BeforeBy(arcs, a[1], c[1])
    BY <2>1, <2>2, <2>3, <2>4, BeforeIsTransitive
  <2>6. BeforeBy(arcs, c[2], a[2])
    BY <2>1, <2>2, <2>3, <2>4, BeforeIsTransitive
  <2> QED BY <2>5, <2>6
<1>2. /\ written' = written /\ arcs' = arcs
      /\ written \in Blocks /\ arcs \subseteq written.arcs /\ marked' \subseteq written.marked
      /\ \A a \in written.arcs : Longest(arcs)[a] > 0
  BY DEF BlockInv
<1>3. \A a \in written'.marked :
        \E b \in marked' : BeforeBy(arcs, a[1], b[1])' /\ BeforeBy(arcs, b[2], a[2])'
  BY <1>1, <1>2 DEF BeforeBy
<1>4. \A a \in written'.arcs : Longest(arcs)'[a] > 0
  <2>1. \A a \in written.arcs : Longest(arcs')[a] > 0
    BY <1>2
  <2> QED BY <1>2, <2>1 DEF Longest
<1> QED BY <1>2, <1>3, <1>4 DEF BlockInv

LEMMA PairsInv == BlockInv /\ RemovePairs => BlockInv'
<1> SUFFICES ASSUME BlockInv, RemovePairs PROVE BlockInv'
  OBVIOUS
<1>1. PICK found \in SUBSET Redundant(arcs) : arcs' = arcs \ found
  BY DEF RemovePairs
<1> QED BY <1>1, FewerArcs DEF RemovePairs

LEMMA ArcsInv == BlockInv /\ RemoveArcs => BlockInv'
<1> SUFFICES ASSUME BlockInv, RemoveArcs PROVE BlockInv'
  OBVIOUS
<1>1. PICK removed \in SUBSET Redundant(arcs) : arcs' = arcs \ removed
  BY DEF RemoveArcs
<1> QED BY <1>1, FewerArcs DEF RemoveArcs

(* Of the reenable arcs to one transition that are dominated, none is      *)
(* dominated by a removed one only: the latest of them stays.              *)
LEMMA ReenablesInv == BlockInv /\ RemoveReenables => BlockInv'
<1> SUFFICES ASSUME BlockInv, RemoveReenables PROVE BlockInv'
  OBVIOUS
<1> DEFINE d == Longest(arcs)
<1>1. marked' = {a \in marked : ~\E b \in marked : Dominated(a, b, d)}
  BY DEF RemoveReenables
<1> HIDE DEF d
<1>2. arcs \in SUBSET Forward
  BY BlockTypes
<1>3. \A a \in marked : /\ a \in Pairs /\ a[1] \in Transitions /\ a[2] \in Transitions
                        /\ a[1] \in 1 .. Last /\ written.delay[a] \in {0, 1}
  BY BlockTypes, Numbers DEF Pairs
<1>4. ASSUME NEW a \in marked, NEW b \in marked, NEW c \in marked,
             Dominated(a, b, d), Dominated(b, c, d)
      PROVE  Dominated(a, c, d)
  <2>1. d[<<a[1], b[1]>>] > 0 /\ d[<<b[1], c[1]>>] > 0
    BY <1>4 DEF Dominated
  <2>2. d[<<a[1], c[1]>>] >= d[<<a[1], b[1]>>] + d[<<b[1], c[1]>>]
    BY <1>2, <1>3, <2>1, PathsCompose DEF d
  <2>3. d[<<a[1], c[1]>>] \in Nat /\ d[<<a[1], b[1]>>] \in Nat /\ d[<<b[1], c[1]>>] \in Nat
    BY <1>2, <1>3, Distances DEF d
  <2>4. d[<<a[1], c[1]>>] > 0
    BY <2>1, <2>2, <2>3
  <2>5. written.delay[a] <= written.delay[c]
    <3>1. written.delay[a] <= written.delay[b] /\ written.delay[b] <= written.delay[c]
      BY <1>4 DEF Dominated
    <3>2. written.delay[a] \in {0, 1} /\ written.delay[b] \in {0, 1} /\ written.delay[c] \in {0, 1}
      BY <1>3
    <3> QED BY <3>1, <3>2
  <2> QED BY <1>4, <2>4, <2>5 DEF Dominated
<1>5. ASSUME NEW b \in marked
      PROVE  \E c \in marked' : BeforeBy(arcs, b[1], c[1]) /\ BeforeBy(arcs, c[2], b[2])
  <2>1. CASE b \in marked'
    BY <2>1 DEF BeforeBy
  <2>2. CASE b \notin marked'
    <3> DEFINE Above == {c \in marked : Dominated(b, c, d)}
               Firsts == {Last - c[1] : c \in Above}
    <3>1. Above # {}
      BY <1>1, <2>2
    <3>2. PICK i \in Firsts : \A j \in Nat : j < i => j \notin Firsts
      <4>1. Firsts # {}
        BY <3>1
      <4>2. Firsts \subseteq Nat
        BY <1>3, Numbers
      <4> HIDE DEF Firsts
      <4> QED BY <4>1, <4>2, Least
    <3>3. PICK c \in Above : i = Last - c[1]
      BY <3>2
    <3>4. c \in marked /\ Dominated(b, c, d)
      BY <3>3
    <3>5. ASSUME NEW e \in marked, Dominated(c, e, d) PROVE FALSE
      <4>1. e \in Above
        BY <1>4, <3>4, <3>5
      <4>2. c[1] < e[1]
        BY <1>2, <1>3, <3>4, <3>5, PathsGoForward DEF Dominated, d
      <4>3. Last - e[1] \in Firsts
        BY <4>1
      <4>4. Last - e[1] \in Nat /\ Last - e[1] < i
        BY <1>3, <3>3, <3>4, <4>2, Numbers
      <4> QED BY <3>2, <4>3, <4>4
    <3>6. c \in marked'
      BY <1>1, <3>4, <3>5
    <3>7. BeforeBy(arcs, b[1], c[1]) /\ c[2] = b[2]
      BY <3>4 DEF Dominated, BeforeBy, d
    <3> QED BY <3>6, <3>7 DEF BeforeBy
  <2> QED BY <2>1, <2>2
<1>6. UNCHANGED <<written, arcs>> /\ marked' \subseteq marked
  BY <1>1 DEF RemoveReenables
<1> QED BY <1>5, <1>6, FewerReenables

(* Of the reenable arcs from one transition one at most is dropped, and    *)
(* the one that implies it stays.                                          *)
LEMMA Pass2Inv == BlockInv /\ RemoveReenablesPass2 => BlockInv'
<1> SUFFICES ASSUME BlockInv, RemoveReenablesPass2 PROVE BlockInv'
  OBVIOUS
<1> DEFINE d == Longest(arcs)
           found(u) == {a \in marked : a[1] = u /\ Droppable(a, d)}
<1>1. PICK dropped \in SUBSET marked :
        /\ \A u \in Transitions :
             /\ {a \in dropped : a[1] = u} \subseteq found(u)
             /\ Cardinality({a \in dropped : a[1] = u}) = Min({1, Cardinality(found(u))})
        /\ marked' = marked \ dropped
  BY DEF RemoveReenablesPass2
<1>2. arcs \in SUBSET Forward
  BY BlockTypes
<1>3. IsFiniteSet(marked)
  <2>1. IsFiniteSet(Pairs)
    BY TransitionsAssumption, FS_Product DEF Pairs
  <2> QED BY <2>1, BlockTypes, FS_Subset
<1>4. ASSUME NEW b \in dropped
      PROVE  \E c \in marked' : c[1] = b[1] /\ d[<<c[2], b[2]>>] > 0
  <2> DEFINE here == {a \in dropped : a[1] = b[1]}
  <2>1. b \in Pairs /\ b[1] \in Transitions /\ b[2] \in Transitions
    BY BlockTypes DEF Pairs
  <2>2. b \in found(b[1])
    BY <1>1, <2>1
  <2>3. PICK c \in marked : c[1] = b[1] /\ d[<<c[2], b[2]>>] > 0
    BY <2>2 DEF Droppable
  <2>4. c[2] \in Transitions
    BY BlockTypes DEF Pairs
  <2>5. c # b
    <3>1. c[2] < b[2]
      BY <1>2, <2>1, <2>3, <2>4, PathsGoForward
    <3> QED BY <2>1, <3>1, Numbers
  <2>6. Cardinality(here) <= 1
    <3>1. IsFiniteSet(found(b[1]))
      BY <1>3, FS_Subset
    <3>2. Cardinality(found(b[1])) \in Nat
      BY <3>1, FS_CardinalityType
    <3>3. Cardinality(here) = Min({1, Cardinality(found(b[1]))})
      BY <1>1, <2>1
    <3> HIDE DEF here, found
    <3>4. \A k \in Nat : Min({1, k}) <= 1
      <4> SUFFICES ASSUME NEW k \in Nat PROVE Min({1, k}) <= 1
        OBVIOUS
      <4>1. \E x \in {1, k} : \A y \in {1, k} : x <= y
        OBVIOUS
      <4>2. Min({1, k}) \in {1, k} /\ \A y \in {1, k} : Min({1, k}) <= y
        BY <4>1 DEF Min
      <4> QED BY <4>2
    <3> QED BY <3>2, <3>3, <3>4
  <2>7. c \notin dropped
    <3> SUFFICES ASSUME c \in dropped PROVE FALSE
      OBVIOUS
    <3>1. b \in here /\ c \in here
      BY <2>3
    <3>2. IsFiniteSet(here)
      BY <1>3, FS_Subset
    <3> HIDE DEF here
    <3>3. Cardinality(here) \in Nat /\ Cardinality(here) # 0
      BY <3>1, <3>2, FS_CardinalityType, FS_EmptySet
    <3>4. Cardinality(here) = 1
      BY <2>6, <3>3
    <3>5. \E x : here = {x}
      BY <3>2, <3>4, FS_Singleton
    <3> QED BY <2>5, <3>1, <3>5
  <2> QED BY <1>1, <2>3, <2>7
<1>5. ASSUME NEW b \in marked
      PROVE  \E c \in marked' : BeforeBy(arcs, b[1], c[1]) /\ BeforeBy(arcs, c[2], b[2])
  <2>1. CASE b \in dropped
    BY <1>4, <2>1 DEF BeforeBy
  <2>2. CASE b \notin dropped
    BY <1>1, <2>2 DEF BeforeBy
  <2> QED BY <2>1, <2>2
<1>6. UNCHANGED <<written, arcs>> /\ marked' \subseteq marked
  BY <1>1 DEF RemoveReenablesPass2
<1> QED BY <1>5, <1>6, FewerReenables

THEOREM BlockInvariance == FBSpec => []BlockInv
<1>1. BlockInv /\ FBNext => BlockInv'
  BY PairsInv, ArcsInv, ReenablesInv, Pass2Inv DEF FBNext
<1>2. BlockInv /\ UNCHANGED bvars => BlockInv'
  BY FewerReenables DEF bvars, BeforeBy
<1> QED BY InitBlockInv, <1>1, <1>2, PTL DEF FBSpec

(* However many transitions a block has, and whichever redundant arcs the  *)
(* passes find and in whatever order, each transition still waits for all  *)
(* that it was written to wait for (vcControlPath.cpp:2490-2573,           *)
(* 3037-3175).                                                             *)
THEOREM Dependencies == FBSpec => []NoDependencyIsLost
<1>1. BlockInv => NoDependencyIsLost
  BY DEF BlockInv, NoDependencyIsLost, BeforeBy
<1> QED BY BlockInvariance, <1>1, PTL

----------------------------------------------------------------------------
(***************************************************************************)
(* The reduction of control paths to groups.  A path has any number of     *)
(* elements and may have loops; the searches and merges come in any order. *)
(***************************************************************************)

(* What is collected in so many stages, each made from the one before.     *)
Grower(U, K, from, F) == K \in Nat /\ from \in SUBSET U /\ F \in [SUBSET U -> SUBSET U]
IsStages(b, U, K, from, F) ==
  /\ DOMAIN b = 0 .. K /\ b[0] = from
  /\ \A i \in 1 .. K : b[i - 1] \in SUBSET U => b[i] = F[b[i - 1]]
EachStage(b, U, K, F) ==
  /\ \A i \in 0 .. K : b[i] \in SUBSET U
  /\ \A i \in 1 .. K : b[i] = F[b[i - 1]]

LEMMA StagesExist ==
  ASSUME NEW U, NEW K, NEW from, NEW F, Grower(U, K, from, F)
  PROVE  \E b \in [0 .. K -> SUBSET U] : IsStages(b, U, K, from, F)
<1> DEFINE UpTo(b, k) == /\ b \in [0 .. K -> SUBSET U] /\ b[0] = from
                         /\ \A i \in 1 .. k : b[i] = F[b[i - 1]]
           Bad == {k \in Nat : k <= K /\ ~ \E b : UpTo(b, k)}
<1>a. K \in Nat /\ from \in SUBSET U /\ F \in [SUBSET U -> SUBSET U]
  BY DEF Grower
<1>1. (\E b : UpTo(b, K)) => \E b \in [0 .. K -> SUBSET U] : IsStages(b, U, K, from, F)
  BY DEF IsStages
<1> SUFFICES ASSUME Bad # {} PROVE FALSE
  <2>1. Bad = {} => \E b : UpTo(b, K)
    <3> HIDE DEF UpTo
    <3> QED
      BY <1>a
  <2> QED
    BY <1>1, <2>1
<1>b. Bad \subseteq Nat
  OBVIOUS
<1> HIDE DEF Bad
<1>2. PICK k \in Bad : \A j \in Nat : j < k => j \notin Bad
  BY <1>b, Least
<1> USE DEF Bad
<1>3. UpTo([i \in 0 .. K |-> from], 0)
  BY <1>a
<1>4. k \in 1 .. K
  <2>1. k \in Nat /\ k <= K /\ ~ \E b : UpTo(b, k)
    BY <1>2
  <2>2. k # 0
    <3> HIDE DEF UpTo
    <3> QED
      BY <1>3, <2>1
  <2> QED
    BY <1>a, <2>1, <2>2
<1>5. PICK b : UpTo(b, k - 1)
  <2>1. k - 1 \in Nat /\ k - 1 < k /\ k - 1 <= K
    BY <1>a, <1>4
  <2> HIDE DEF UpTo
  <2> QED
    BY <1>2, <2>1
<1> DEFINE new == F[b[k - 1]]
           g == [i \in 0 .. K |-> IF i = k THEN new ELSE b[i]]
<1>6. new \in SUBSET U
  <2>1. b[k - 1] \in SUBSET U
    BY <1>a, <1>4, <1>5
  <2> QED
    BY <1>a, <2>1
<1> HIDE DEF new
<1>7. /\ g \in [0 .. K -> SUBSET U] /\ g[0] = from /\ g[k] = new
      /\ \A i \in 0 .. K : i < k => g[i] = b[i]
  BY <1>a, <1>4, <1>5, <1>6
<1> HIDE DEF g
<1>8. ASSUME NEW i \in 1 .. k PROVE g[i] = F[g[i - 1]]
  <2>1. g[i - 1] = b[i - 1]
    BY <1>a, <1>4, <1>7
  <2>2. CASE i = k
    BY <1>7, <2>1, <2>2 DEF new
  <2>3. CASE i < k
    <3>1. i \in 1 .. k - 1 /\ g[i] = b[i]
      BY <1>a, <1>4, <1>7, <2>3
    <3> QED
      BY <1>5, <2>1, <3>1
  <2> QED
    BY <1>4, <2>2, <2>3
<1>9. UpTo(g, k)
  BY <1>7, <1>8
<1> QED
  BY <1>2, <1>9

LEMMA StagesAreSets ==
  ASSUME NEW U, NEW K, NEW from, NEW F, Grower(U, K, from, F),
         NEW b, IsStages(b, U, K, from, F)
  PROVE  EachStage(b, U, K, F)
<1> DEFINE Bad == {i \in 0 .. K : b[i] \notin SUBSET U}
<1>a. K \in Nat /\ from \in SUBSET U /\ F \in [SUBSET U -> SUBSET U]
  BY DEF Grower
<1>b. Bad \subseteq Nat
  OBVIOUS
<1>1. Bad = {}
  <2> SUFFICES ASSUME Bad # {} PROVE FALSE
    OBVIOUS
  <2> HIDE DEF Bad
  <2>1. PICK i \in Bad : \A j \in Nat : j < i => j \notin Bad
    BY <1>b, Least
  <2> USE DEF Bad
  <2>2. i \in 1 .. K /\ i - 1 \in 0 .. K /\ i - 1 < i
    BY <1>a, <2>1 DEF IsStages
  <2>3. b[i - 1] \in SUBSET U
    BY <2>1, <2>2
  <2>4. b[i] = F[b[i - 1]]
    BY <2>2, <2>3 DEF IsStages
  <2> QED
    BY <1>a, <2>1, <2>3, <2>4
<1> QED
  BY <1>a, <1>1 DEF IsStages, EachStage

(* What no stage brings in never comes in.                                 *)
LEMMA StagesAvoid ==
  ASSUME NEW U, NEW K, NEW from, NEW F, Grower(U, K, from, F),
         NEW b, IsStages(b, U, K, from, F),
         NEW Z, from \cap Z = {},
         \A X \in SUBSET U : X \cap Z = {} => F[X] \cap Z = {}
  PROVE  b[K] \cap Z = {}
<1> DEFINE Bad == {i \in 0 .. K : b[i] \cap Z # {}}
<1>a. K \in Nat /\ EachStage(b, U, K, F) /\ b[0] = from
  BY StagesAreSets DEF Grower, IsStages
<1>b. Bad \subseteq Nat
  OBVIOUS
<1> SUFFICES ASSUME Bad # {} PROVE FALSE
  BY <1>a
<1> HIDE DEF Bad
<1>1. PICK i \in Bad : \A j \in Nat : j < i => j \notin Bad
  BY <1>b, Least
<1> USE DEF Bad
<1>2. i \in 1 .. K /\ i - 1 \in 0 .. K /\ i - 1 < i
  BY <1>a, <1>1
<1>3. b[i - 1] \in SUBSET U /\ b[i] = F[b[i - 1]]
  BY <1>a, <1>2 DEF EachStage
<1>4. b[i - 1] \cap Z = {}
  BY <1>1, <1>2
<1> QED
  BY <1>1, <1>3, <1>4

(* What came in came in at some stage, from what was there.                *)
Brought(B, U, from, F) ==
  /\ from \subseteq B /\ B \subseteq U
  /\ \A x \in B \ from : \E X \in SUBSET U : X \subseteq B /\ x \in F[X] \ X

LEMMA StagesBring ==
  ASSUME NEW U, NEW K, NEW from, NEW F, Grower(U, K, from, F),
         \A X \in SUBSET U : X \subseteq F[X],
         NEW b, IsStages(b, U, K, from, F)
  PROVE  Brought(b[K], U, from, F)
<1>1. K \in Nat /\ EachStage(b, U, K, F) /\ b[0] = from
  BY StagesAreSets DEF Grower, IsStages
<1>2. \A i \in 1 .. K : b[i - 1] \subseteq b[i]
  BY <1>1 DEF EachStage
<1>3. ASSUME NEW i \in 0 .. K PROVE b[i] \subseteq b[K]
  <2> DEFINE Bad == {k \in i .. K : ~ (b[i] \subseteq b[k])}
  <2>b. Bad \subseteq Nat
    OBVIOUS
  <2>1. Bad = {}
    <3> SUFFICES ASSUME Bad # {} PROVE FALSE
      OBVIOUS
    <3> HIDE DEF Bad
    <3>1. PICK k \in Bad : \A j \in Nat : j < k => j \notin Bad
      BY <2>b, Least
    <3> USE DEF Bad
    <3>2. k \in 1 .. K /\ k - 1 \in i .. K /\ k - 1 < k /\ k - 1 \in Nat
      BY <1>1, <3>1
    <3> QED
      BY <1>2, <3>1, <3>2
  <2> QED
    BY <1>1, <2>1
<1>4. ASSUME NEW x \in b[K], x \notin from
      PROVE  \E X \in SUBSET U : X \subseteq b[K] /\ x \in F[X] \ X
  <2> DEFINE In == {i \in 0 .. K : x \in b[i]}
  <2>b. In \subseteq Nat /\ In # {}
    BY <1>1, <1>4
  <2> HIDE DEF In
  <2>1. PICK i \in In : \A j \in Nat : j < i => j \notin In
    BY <2>b, Least
  <2> USE DEF In
  <2>2. i \in 1 .. K /\ i - 1 \in 0 .. K /\ i - 1 < i
    BY <1>1, <1>4, <2>1
  <2>3. x \in b[i] /\ x \notin b[i - 1]
    BY <2>1, <2>2
  <2>4. b[i - 1] \in SUBSET U /\ b[i] = F[b[i - 1]]
    BY <1>1, <2>2 DEF EachStage
  <2> QED
    BY <1>3, <2>2, <2>3, <2>4
<1>5. b[0] \subseteq b[K] /\ b[K] \subseteq U
  BY <1>1, <1>3 DEF EachStage
<1> QED
  BY <1>1, <1>4, <1>5 DEF Brought

----------------------------------------------------------------------------
(* The arcs of a path.                                                     *)
LEMMA PathFacts ==
  ASSUME path \in Paths
  PROVE  /\ Elements \subseteq Nat /\ 0 \notin Elements
         /\ Cardinality(Elements) \in Nat
         /\ IsFiniteSet(Elements)
         /\ path.arcs \subseteq Elements \X Elements
         /\ path.marked \subseteq Elements \X Elements
         /\ \A e \in Elements : /\ path.kind[e] \in TransitionKinds \cup {"place"}
                                /\ path.fn[e] # 0 => path.kind[e] \in {"to_fn", "from_fn"}
                                /\ e \in path.body => path.kind[e] # "place"
         /\ \E live \in SUBSET Elements : \A e \in Elements : Alive(path, live, e)
<1>1. IsControlPath(path)
  BY PathsAssumption
<1> DEFINE n == Cardinality(Elements)
<1>2. n \in Nat \ {0} /\ Elements = 1 .. n
  BY <1>1 DEF IsControlPath, Elements
<1>3. IsFiniteSet(1 .. n)
  BY <1>2, FS_Interval
<1>4. \A k \in 1 .. n : k \in Nat /\ k # 0
  BY <1>2
<1>5. /\ path.arcs \subseteq Elements \X Elements
      /\ path.marked \subseteq Elements \X Elements
      /\ \A e \in Elements : /\ path.kind[e] \in TransitionKinds \cup {"place"}
                             /\ path.fn[e] # 0 => path.kind[e] \in {"to_fn", "from_fn"}
                             /\ e \in path.body => path.kind[e] # "place"
      /\ \E live \in SUBSET Elements : \A e \in Elements : Alive(path, live, e)
  BY <1>1, <1>2 DEF IsControlPath, Elements
<1> QED
  BY <1>2, <1>3, <1>4, <1>5

Before(of, A, g) == {a[1] : a \in {b \in Arcs(of, A) : b[2] = g}}

LEMMA BeforeIs ==
  ASSUME NEW of, NEW A, NEW g, NEW x
  PROVE  x \in Before(of, A, g) <=>
           \E b \in A : of[b[1]] = x /\ of[b[2]] = g /\ x # Gone /\ g # Gone /\ x # g
<1> DEFINE pair(b) == <<of[b[1]], of[b[2]]>>
<1>1. x \in Before(of, A, g) <=>
        \E b \in A : x = pair(b)[1] /\ pair(b)[2] = g
                    /\ Gone \notin {pair(b)[1], pair(b)[2]} /\ pair(b)[1] # pair(b)[2]
  BY Zenon DEF Before, Arcs
<1> QED
  BY <1>1

LEMMA PredsAre ==
  ASSUME NEW of, NEW g
  PROVE  /\ Preds(of, g) = Before(of, path.arcs, g)
         /\ MarkedPreds(of, g) = Before(of, path.marked, g)
BY DEF Preds, MarkedPreds, Before

LEMMA PredsOf ==
  ASSUME NEW of
  PROVE  /\ \A e, q : q \in Preds(of, e) <=>
              \E b \in path.arcs : of[b[1]] = q /\ of[b[2]] = e /\ q # Gone /\ e # Gone /\ q # e
         /\ \A e, q : q \in MarkedPreds(of, e) <=>
              \E b \in path.marked : of[b[1]] = q /\ of[b[2]] = e /\ q # Gone /\ e # Gone /\ q # e
BY PredsAre, BeforeIs

GroupType(of) == of \in [Elements -> Elements \cup {Gone}]

LEMMA GroupsAre ==
  ASSUME path \in Paths, NEW of, GroupType(of)
  PROVE  /\ Groups(of) \subseteq Elements
         /\ \A g : g \in Groups(of) <=> g # Gone /\ \E e \in Elements : of[e] = g
         /\ \A g : Preds(of, g) \subseteq Groups(of) \ {g}
         /\ \A g : Succs(of, g) \subseteq Groups(of)
         /\ \A a \in Arcs(of, path.arcs) : a[1] \in Groups(of) /\ a[2] \in Groups(of)
<1>1. \A b \in path.arcs : b[1] \in Elements /\ b[2] \in Elements
  BY PathFacts
<1>2. /\ Groups(of) \subseteq Elements
      /\ \A g : g \in Groups(of) <=> g # Gone /\ \E e \in Elements : of[e] = g
  BY DEF Groups, GroupType
<1>3. \A a \in Arcs(of, path.arcs) : a[1] \in Groups(of) /\ a[2] \in Groups(of) /\ a[1] # a[2]
  BY <1>1, <1>2 DEF Arcs
<1> QED
  BY <1>2, <1>3 DEF Preds, Succs
----------------------------------------------------------------------------
(* The searches.                                                           *)
Follow(from, links, X) ==
  {g \in Groups(group) \ from : /\ Preds(group, g) # {} /\ Preds(group, g) \subseteq X
                                /\ \A p \in Preds(group, g) : <<p, g>> \in links}
Collecting(from, links) ==
  [X \in SUBSET Groups(group) |-> X \cup Follow(from, links, X)]

LEMMA CollectedIsStaged ==
  ASSUME path \in Paths, NEW from \in SUBSET Groups(group), NEW links
  PROVE  LET K == Cardinality(Elements)
             F == Collecting(from, links)
         IN /\ Grower(Groups(group), K, from, F)
            /\ \E b : /\ IsStages(b, Groups(group), K, from, F)
                      /\ Collected(from, links) = b[K]
<1> DEFINE U == Groups(group)
           K == Cardinality(Elements)
           F == Collecting(from, links)
           Def(b) == [n \in 0 .. K |->
             IF n = 0 THEN from
             ELSE LET before == b[n - 1]
                  IN before \cup {g \in Groups(group) \ from :
                       /\ Preds(group, g) # {} /\ Preds(group, g) \subseteq before
                       /\ \A p \in Preds(group, g) : <<p, g>> \in links}]
           after == CHOOSE b : b = Def(b)
<1>1. K \in Nat
  BY PathFacts
<1>2. Collected(from, links) = after[K]
  BY DEF Collected
<1>3. F \in [SUBSET U -> SUBSET U]
  BY DEF Collecting, Follow
<1>4. Grower(U, K, from, F)
  BY <1>1, <1>3 DEF Grower
<1>5. \A X \in SUBSET U : F[X] = X \cup Follow(from, links, X)
  BY DEF Collecting
<1>6. \A b : \A n \in 0 .. K : Def(b)[n] = IF n = 0 THEN from
                                           ELSE b[n - 1] \cup Follow(from, links, b[n - 1])
  BY Zenon DEF Follow
<1>7. \A b : DOMAIN Def(b) = 0 .. K /\ Def(b) = [n \in 0 .. K |-> Def(b)[n]]
  OBVIOUS
<1> HIDE DEF Def, F, U
<1>8. PICK f \in [0 .. K -> SUBSET U] : IsStages(f, U, K, from, F)
  BY <1>4, StagesExist
<1>9. f = Def(f)
  <2>1. ASSUME NEW n \in 0 .. K PROVE f[n] = Def(f)[n]
    <3>1. CASE n = 0
      BY <1>6, <1>8, <3>1 DEF IsStages
    <3>2. CASE n # 0
      <4>1. n \in 1 .. K /\ n - 1 \in 0 .. K
        BY <1>1, <3>2
      <4>2. f[n] = F[f[n - 1]] /\ f[n - 1] \in SUBSET U
        BY <1>8, <4>1 DEF IsStages
      <4>3. f[n] = f[n - 1] \cup Follow(from, links, f[n - 1])
        BY <1>5, <4>2
      <4>4. Def(f)[n] = f[n - 1] \cup Follow(from, links, f[n - 1])
        BY <1>6, <3>2
      <4> QED
        BY <4>3, <4>4
    <3> QED
      BY <3>1, <3>2
  <2> QED
    BY <1>7, <1>8, <2>1
<1>10. after = Def(after)
  BY <1>9
<1> HIDE DEF after
<1>11. IsStages(after, U, K, from, F)
  <2>1. DOMAIN after = 0 .. K
    BY <1>7, <1>10
  <2>2. \A n \in 0 .. K : after[n] = IF n = 0 THEN from
                                     ELSE after[n - 1] \cup Follow(from, links, after[n - 1])
    BY <1>6, <1>10
  <2>3. after[0] = from
    <3>1. 0 \in 0 .. K
      BY <1>1
    <3> QED
      BY <2>2, <3>1
  <2>4. ASSUME NEW i \in 1 .. K, after[i - 1] \in SUBSET U PROVE after[i] = F[after[i - 1]]
    <3>1. i \in 0 .. K /\ i # 0
      BY <1>1
    <3> QED
      BY <1>5, <2>2, <2>4, <3>1
  <2> QED
    BY <2>1, <2>3, <2>4 DEF IsStages
<1> QED
  BY <1>2, <1>4, <1>11 DEF U, F

Gathered(C, from, links) ==
  /\ from \subseteq C /\ C \subseteq Groups(group)
  /\ \A g \in C \ from : /\ Preds(group, g) # {} /\ Preds(group, g) \subseteq C
                         /\ \A p \in Preds(group, g) : <<p, g>> \in links

LEMMA CollectedFacts ==
  ASSUME path \in Paths, NEW from \in SUBSET Groups(group), NEW links
  PROVE  Gathered(Collected(from, links), from, links)
<1> DEFINE U == Groups(group)
           K == Cardinality(Elements)
           F == Collecting(from, links)
<1>1. Grower(U, K, from, F)
  BY CollectedIsStaged
<1>2. PICK b : IsStages(b, U, K, from, F) /\ Collected(from, links) = b[K]
  BY CollectedIsStaged
<1>3. \A X \in SUBSET U : F[X] = X \cup Follow(from, links, X)
  BY DEF Collecting
<1> HIDE DEF U, K, F
<1>4. Brought(b[K], U, from, F)
  BY <1>1, <1>2, <1>3, StagesBring
<1>5. ASSUME NEW g \in b[K] \ from
      PROVE  /\ Preds(group, g) # {} /\ Preds(group, g) \subseteq b[K]
             /\ \A p \in Preds(group, g) : <<p, g>> \in links
  <2>1. PICK X \in SUBSET U : X \subseteq b[K] /\ g \in F[X] \ X
    BY <1>4 DEF Brought
  <2>2. g \in Follow(from, links, X)
    BY <1>3, <2>1
  <2> QED
    BY <2>1, <2>2 DEF Follow
<1> QED
  BY <1>2, <1>4, <1>5 DEF Gathered, Brought, U

(* What is never followed is never collected.                              *)
LEMMA CollectedAvoids ==
  ASSUME path \in Paths, NEW from \in SUBSET Groups(group), NEW links,
         NEW Z, from \cap Z = {},
         \A g \in Z : /\ Preds(group, g) # {}
                      /\ \A p \in Preds(group, g) : <<p, g>> \in links
                      => Preds(group, g) \cap Z # {}
  PROVE  Collected(from, links) \cap Z = {}
<1> DEFINE U == Groups(group)
           K == Cardinality(Elements)
           F == Collecting(from, links)
<1>1. Grower(U, K, from, F)
  BY CollectedIsStaged
<1>2. PICK b : IsStages(b, U, K, from, F) /\ Collected(from, links) = b[K]
  BY CollectedIsStaged
<1>3. \A X \in SUBSET U : F[X] = X \cup Follow(from, links, X)
  BY DEF Collecting
<1>4. \A X \in SUBSET U : X \cap Z = {} => F[X] \cap Z = {}
  <2> HIDE DEF F
  <2> QED
    BY <1>3 DEF Follow
<1> HIDE DEF U, K, F
<1>5. b[K] \cap Z = {}
  BY <1>1, <1>2, <1>4, StagesAvoid
<1> QED
  BY <1>2, <1>5

Ends(L, X) == {a[1] : a \in {b \in L : b[2] \in X}} \cup {a[2] : a \in {b \in L : b[1] \in X}}
Linking(U, L) == [X \in SUBSET U |-> X \cup Ends(L, X)]

LEMMA EndsAre ==
  ASSUME NEW L, NEW X, NEW x
  PROVE  x \in Ends(L, X) <=> \E a \in L : (a[2] \in X /\ x = a[1]) \/ (a[1] \in X /\ x = a[2])
BY DEF Ends

LEMMA ComponentIsStaged ==
  ASSUME path \in Paths, NEW U, NEW g \in U, NEW L, \A a \in L : a[1] \in U /\ a[2] \in U
  PROVE  LET K == Cardinality(Elements)
             F == Linking(U, L)
         IN /\ Grower(U, K, {g}, F)
            /\ \E b : IsStages(b, U, K, {g}, F) /\ Component(g, L) = b[K]
<1> DEFINE K == Cardinality(Elements)
           F == Linking(U, L)
           Def(b) == [n \in 0 .. K |->
             IF n = 0 THEN {g}
             ELSE LET before == b[n - 1]
                  IN before \cup {a[1] : a \in {c \in L : c[2] \in before}}
                            \cup {a[2] : a \in {c \in L : c[1] \in before}}]
           after == CHOOSE b : b = Def(b)
<1>1. K \in Nat
  BY PathFacts
<1>2. Component(g, L) = after[K]
  BY DEF Component
<1>3. F \in [SUBSET U -> SUBSET U]
  <2>1. \A X \in SUBSET U : X \cup Ends(L, X) \in SUBSET U
    BY EndsAre
  <2> QED
    BY <2>1 DEF Linking
<1>4. Grower(U, K, {g}, F)
  BY <1>1, <1>3 DEF Grower
<1>5. \A X \in SUBSET U : F[X] = X \cup Ends(L, X)
  BY DEF Linking
<1>6. \A b : \A n \in 0 .. K : Def(b)[n] = IF n = 0 THEN {g}
                                           ELSE b[n - 1] \cup Ends(L, b[n - 1])
  <2> DEFINE W(X) == X \cup {a[1] : a \in {c \in L : c[2] \in X}}
                       \cup {a[2] : a \in {c \in L : c[1] \in X}}
  <2>1. \A X : W(X) = X \cup Ends(L, X)
    BY DEF Ends
  <2>2. \A b : \A n \in 0 .. K : Def(b)[n] = IF n = 0 THEN {g} ELSE W(b[n - 1])
    OBVIOUS
  <2> HIDE DEF Def, W
  <2> QED
    BY <2>1, <2>2
<1>7. \A b : DOMAIN Def(b) = 0 .. K /\ Def(b) = [n \in 0 .. K |-> Def(b)[n]]
  OBVIOUS
<1> HIDE DEF Def, F
<1>8. PICK f \in [0 .. K -> SUBSET U] : IsStages(f, U, K, {g}, F)
  BY <1>4, StagesExist
<1>9. f = Def(f)
  <2>1. ASSUME NEW n \in 0 .. K PROVE f[n] = Def(f)[n]
    <3>1. CASE n = 0
      BY <1>6, <1>8, <3>1 DEF IsStages
    <3>2. CASE n # 0
      <4>1. n \in 1 .. K /\ n - 1 \in 0 .. K
        BY <1>1, <3>2
      <4>2. f[n] = F[f[n - 1]] /\ f[n - 1] \in SUBSET U
        BY <1>8, <4>1 DEF IsStages
      <4>3. f[n] = f[n - 1] \cup Ends(L, f[n - 1])
        BY <1>5, <4>2
      <4>4. Def(f)[n] = f[n - 1] \cup Ends(L, f[n - 1])
        BY <1>6, <3>2
      <4> QED
        BY <4>3, <4>4
    <3> QED
      BY <3>1, <3>2
  <2> QED
    BY <1>7, <1>8, <2>1
<1>10. after = Def(after)
  BY <1>9
<1> HIDE DEF after
<1>11. IsStages(after, U, K, {g}, F)
  <2>1. DOMAIN after = 0 .. K
    BY <1>7, <1>10
  <2>2. \A n \in 0 .. K : after[n] = IF n = 0 THEN {g}
                                     ELSE after[n - 1] \cup Ends(L, after[n - 1])
    BY <1>6, <1>10
  <2>3. after[0] = {g}
    <3>1. 0 \in 0 .. K
      BY <1>1
    <3> QED
      BY <2>2, <3>1
  <2>4. ASSUME NEW i \in 1 .. K, after[i - 1] \in SUBSET U PROVE after[i] = F[after[i - 1]]
    <3>1. i \in 0 .. K /\ i # 0
      BY <1>1
    <3> QED
      BY <1>5, <2>2, <2>4, <3>1
  <2> QED
    BY <2>1, <2>3, <2>4 DEF IsStages
<1> QED
  BY <1>2, <1>4, <1>11 DEF F

(* A component holds the group it is of, and nothing outside a set that no *)
(* link leaves.                                                            *)
LEMMA ComponentFacts ==
  ASSUME path \in Paths, NEW U, NEW g \in U, NEW L, \A a \in L : a[1] \in U /\ a[2] \in U,
         NEW Y, g \in Y, \A a \in L : a[1] \in Y <=> a[2] \in Y
  PROVE  g \in Component(g, L) /\ Component(g, L) \subseteq U \cap Y
<1> DEFINE K == Cardinality(Elements)
           F == Linking(U, L)
<1>1. Grower(U, K, {g}, F)
  BY ComponentIsStaged
<1>2. PICK b : IsStages(b, U, K, {g}, F) /\ Component(g, L) = b[K]
  BY ComponentIsStaged
<1>3. \A X \in SUBSET U : F[X] = X \cup Ends(L, X)
  BY DEF Linking
<1> DEFINE Z == U \ Y
<1>4. \A X \in SUBSET U : X \cap Z = {} => F[X] \cap Z = {}
  <2> HIDE DEF F
  <2> QED
    BY <1>3, EndsAre
<1>5. {g} \cap Z = {}
  OBVIOUS
<1> HIDE DEF K, F, Z
<1>6. b[K] \cap Z = {}
  BY <1>1, <1>2, <1>4, <1>5, StagesAvoid
<1>7. Brought(b[K], U, {g}, F)
  BY <1>1, <1>2, <1>3, StagesBring
<1> QED
  BY <1>2, <1>6, <1>7 DEF Brought, Z
----------------------------------------------------------------------------
(* The groups of a map from elements.                                      *)
Agree(e, f) ==
  /\ path.fn[e] = 0 \/ path.fn[f] = 0 \/ path.fn[e] = path.fn[f]
  /\ e \in path.body <=> f \in path.body
Uniform(of) ==
  \A e, f \in Elements : of[e] = of[f] /\ of[e] # Gone => Agree(e, f)
Unmixed(of) ==
  \A e, f \in Elements :
    of[e] = of[f] /\ of[e] # Gone => (path.kind[e] = "place" <=> path.kind[f] = "place")
Descends(of) ==
  \A g \in Groups(of) : Preds(of, g) # {} => \E p \in Preds(of, g) : p < g
FollowsOne(of, g) ==
  \E p \in Groups(of) : Preds(of, g) = {p} /\ MarkedPreds(of, g) = {}
Delays(of) ==
  \A g \in Groups(of) : Has(of, g, {"delay"}) => FollowsOne(of, g)
Shape(of) == GroupType(of) /\ Uniform(of) /\ Delays(of)

LEMMA HasIs ==
  ASSUME NEW of, NEW g, NEW S
  PROVE  Has(of, g, S) <=> \E e \in Elements : of[e] = g /\ path.kind[e] \in S
BY DEF Has, Members

LEMMA InBodyIs ==
  ASSUME NEW of, NEW g
  PROVE  /\ in_body(of, g) <=> \E e \in Elements : of[e] = g /\ e \in path.body
         /\ in_body(of, g) \in BOOLEAN
BY DEF in_body, Members

LEMMA BodyOfMembers ==
  ASSUME NEW of, Uniform(of), NEW e \in Elements, of[e] # Gone
  PROVE  in_body(of, of[e]) <=> e \in path.body
BY InBodyIs DEF Uniform, Agree

LEMMA FunctionsAre ==
  ASSUME path \in Paths, NEW of, NEW g
  PROVE  /\ \A x : x \in Functions(of, g) <=> x # 0 /\ \E e \in Elements : of[e] = g /\ path.fn[e] = x
         /\ IsFiniteSet(Functions(of, g))
         /\ ~Has(of, g, {"to_fn", "from_fn"}) => Functions(of, g) = {}
<1>1. \A x : x \in Functions(of, g) <=> x # 0 /\ \E e \in Elements : of[e] = g /\ path.fn[e] = x
  BY DEF Functions, Members
<1>2. IsFiniteSet(Functions(of, g))
  <2> DEFINE S == {path.fn[e] : e \in Elements}
  <2>1. IsFiniteSet(S)
    <3> DEFINE values == [e \in Elements |-> path.fn[e]]
    <3>1. IsFiniteSet(Elements)
      BY PathFacts
    <3>2. values \in Surjection(Elements, S)
      BY DEF Surjection
    <3> QED
      BY <3>1, <3>2, FS_Surjection
  <2>2. Functions(of, g) \subseteq S
    BY <1>1
  <2> QED
    BY <2>1, <2>2, FS_Subset
<1>3. ~Has(of, g, {"to_fn", "from_fn"}) => Functions(of, g) = {}
  BY <1>1, HasIs, PathFacts
<1> QED
  BY <1>1, <1>2, <1>3

(* At most one.                                                            *)
LEMMA AtMostOne ==
  ASSUME NEW S, IsFiniteSet(S)
  PROVE  /\ Cardinality(S) <= 1 <=> \A x, y \in S : x = y
         /\ Cardinality(S) = 1 <=> \E x : S = {x}
<1>1. ASSUME NEW x \in S
      PROVE  /\ Cardinality(S) = Cardinality(S \ {x}) + 1
             /\ Cardinality(S \ {x}) \in Nat
             /\ Cardinality(S \ {x}) = 0 <=> S \ {x} = {}
  <2>1. IsFiniteSet(S \ {x}) /\ Cardinality(S \ {x}) = Cardinality(S) - 1
    BY FS_RemoveElement
  <2>2. Cardinality(S) \in Nat /\ Cardinality(S \ {x}) \in Nat
    BY <2>1, FS_CardinalityType
  <2>3. Cardinality(S \ {x}) = 0 <=> S \ {x} = {}
    BY <2>1, FS_EmptySet
  <2> QED
    BY <2>1, <2>2, <2>3
<1>2. S = {} => Cardinality(S) = 0
  BY FS_EmptySet
<1>3. ASSUME NEW x \in S
      PROVE  /\ Cardinality(S) <= 1 <=> S = {x}
             /\ Cardinality(S) = 1 <=> S = {x}
  <2> DEFINE rest == Cardinality(S \ {x})
             all == Cardinality(S)
             alone == S = {x}
  <2>1. S \ {x} = {} <=> alone
    OBVIOUS
  <2>2. all = rest + 1 /\ rest \in Nat /\ (rest = 0 <=> alone)
    BY <1>1, <2>1
  <2> HIDE DEF rest, all, alone
  <2>3. (all <= 1 <=> alone) /\ (all = 1 <=> alone)
    BY <2>2
  <2> QED
    BY <2>3 DEF all, alone
<1>4. CASE S = {}
  BY <1>2, <1>4
<1>5. CASE S # {}
  <2>1. PICK x \in S : TRUE
    BY <1>5
  <2>2. S = {x} <=> \A y, z \in S : y = z
    BY <2>1
  <2>3. S = {x} <=> \E y : S = {y}
    BY <2>1
  <2> QED
    BY <1>3, <2>2, <2>3
<1> QED
  BY <1>4, <1>5

LEMMA FewFunctions ==
  ASSUME path \in Paths, NEW of, Uniform(of), NEW g \in Groups(of)
  PROVE  Cardinality(Functions(of, g)) <= 1
<1>1. \A x, y \in Functions(of, g) : x = y
  BY FunctionsAre DEF Uniform, Agree, Groups
<1> QED
  BY <1>1, FunctionsAre, AtMostOne

----------------------------------------------------------------------------
(* What merging a group into its only predecessor makes of the arcs.       *)
LEMMA MergedBefore ==
  ASSUME path \in Paths, GroupType(group), NEW part, part # Gone,
         NEW whole \in Groups(group), part # whole,
         NEW A, A \subseteq Elements \X Elements, Before(group, A, part) \subseteq {whole},
         NEW h, h # part, h # Gone
  PROVE  \A x : x \in Before(Merged(part, whole), A, h) <=>
           /\ x # h /\ x # part
           /\ x \in Before(group, A, h) \/ (x = whole /\ part \in Before(group, A, h))
<1> DEFINE of == Merged(part, whole)
<1>1. \A e \in Elements : of[e] = IF group[e] = part THEN whole ELSE group[e]
  BY DEF Merged
<1>2. whole # Gone
  BY GroupsAre
<1>3. \A b \in A : b[1] \in Elements /\ b[2] \in Elements
  OBVIOUS
<1>4. ASSUME NEW b \in A, group[b[2]] = part
      PROVE  group[b[1]] \in {whole, Gone, part}
  <2>1. group[b[1]] \notin {Gone, part} => group[b[1]] \in Before(group, A, part)
    BY <1>4, BeforeIs
  <2> QED
    BY <2>1
<1> HIDE DEF of
<1>5. ASSUME NEW x, x \in Before(of, A, h)
      PROVE  /\ x # h /\ x # part
             /\ x \in Before(group, A, h) \/ (x = whole /\ part \in Before(group, A, h))
  <2>1. PICK b \in A : of[b[1]] = x /\ of[b[2]] = h /\ x # Gone /\ x # h
    BY <1>5, BeforeIs
  <2>2. x # part
    BY <1>1, <1>3, <2>1
  <2>3. CASE group[b[2]] = part
    <3>1. h = whole
      BY <1>1, <1>3, <2>1, <2>3
    <3>2. group[b[1]] \in {whole, Gone, part}
      BY <1>4, <2>3
    <3>3. of[b[1]] \in {whole, Gone}
      BY <1>1, <1>3, <3>2
    <3> QED
      BY <2>1, <3>1, <3>3
  <2>4. CASE group[b[2]] # part
    <3>1. group[b[2]] = h
      BY <1>1, <1>3, <2>1, <2>4
    <3>2. group[b[1]] = x \/ (group[b[1]] = part /\ x = whole)
      BY <1>1, <1>3, <2>1
    <3>3. group[b[1]] = x => x \in Before(group, A, h)
      BY <2>1, <3>1, BeforeIs
    <3>4. group[b[1]] = part => part \in Before(group, A, h)
      BY <3>1, BeforeIs
    <3> QED
      BY <2>1, <2>2, <3>2, <3>3, <3>4
  <2> QED
    BY <2>1, <2>2, <2>3, <2>4
<1>6. ASSUME NEW x, x # h, x # part, x \in Before(group, A, h)
      PROVE  x \in Before(of, A, h)
  <2>1. PICK b \in A : group[b[1]] = x /\ group[b[2]] = h /\ x # Gone
    BY <1>6, BeforeIs
  <2>2. of[b[1]] = x /\ of[b[2]] = h
    BY <1>1, <1>3, <1>6, <2>1
  <2> QED
    BY <1>6, <2>1, <2>2, BeforeIs
<1>7. ASSUME whole # h, part \in Before(group, A, h)
      PROVE  whole \in Before(of, A, h)
  <2>1. PICK b \in A : group[b[1]] = part /\ group[b[2]] = h
    BY <1>7, BeforeIs
  <2>2. of[b[1]] = whole /\ of[b[2]] = h
    BY <1>1, <1>3, <2>1
  <2> QED
    BY <1>2, <1>7, <2>1, <2>2, BeforeIs
<1> QED
  BY <1>5, <1>6, <1>7 DEF of

(* A group joins its only predecessor.                                     *)
Joining(part, whole) ==
  /\ part \in Groups(group) /\ whole \in Groups(group)
  /\ Preds(group, part) = {whole} /\ MarkedPreds(group, part) = {}

MergedPreds(of, part, whole, h) ==
  /\ \A x : x \in Preds(of, h) <=>
       /\ x # h /\ x # part
       /\ x \in Preds(group, h) \/ (x = whole /\ part \in Preds(group, h))
  /\ MarkedPreds(group, h) = {} => MarkedPreds(of, h) = {}

LEMMA MergedArcs ==
  ASSUME path \in Paths, GroupType(group), NEW part, NEW whole, Joining(part, whole),
         NEW h, h # part, h # Gone
  PROVE  MergedPreds(Merged(part, whole), part, whole, h)
<1>1. part # whole /\ part # Gone /\ whole \in Groups(group)
  BY GroupsAre DEF Joining
<1>2. Before(group, path.arcs, part) \subseteq {whole}
  BY PredsAre DEF Joining
<1>3. Before(group, path.marked, part) \subseteq {whole}
  BY PredsAre DEF Joining
<1>4. path.arcs \subseteq Elements \X Elements /\ path.marked \subseteq Elements \X Elements
  BY PathFacts
<1> DEFINE of == Merged(part, whole)
<1> HIDE DEF of
<1>5. \A x : x \in Before(of, path.arcs, h) <=>
        /\ x # h /\ x # part
        /\ x \in Before(group, path.arcs, h) \/ (x = whole /\ part \in Before(group, path.arcs, h))
  BY <1>1, <1>2, <1>4, MergedBefore DEF of
<1>6. \A x : x \in Before(of, path.marked, h) <=>
        /\ x # h /\ x # part
        /\ x \in Before(group, path.marked, h)
           \/ (x = whole /\ part \in Before(group, path.marked, h))
  BY <1>1, <1>3, <1>4, MergedBefore DEF of
<1> QED
  BY <1>5, <1>6, PredsAre DEF of, MergedPreds

LEMMA MergedGroups ==
  ASSUME path \in Paths, GroupType(group), NEW part, NEW whole, Joining(part, whole)
  PROVE  /\ GroupType(Merged(part, whole))
         /\ Groups(Merged(part, whole)) = Groups(group) \ {part}
         /\ \A e \in Elements :
              Merged(part, whole)[e] = IF group[e] = part THEN whole ELSE group[e]
<1> DEFINE of == Merged(part, whole)
<1>1. part # whole /\ part # Gone /\ whole # Gone /\ whole \in Elements
  BY GroupsAre DEF Joining
<1>2. \A e \in Elements : of[e] = IF group[e] = part THEN whole ELSE group[e]
  BY DEF Merged
<1>3. GroupType(of)
  BY <1>1 DEF Merged, GroupType
<1> HIDE DEF of
<1>4. PICK w \in Elements : group[w] = whole
  BY GroupsAre DEF Joining
<1>5. \A g : g \in Groups(of) <=> g \in Groups(group) \ {part}
  BY <1>1, <1>2, <1>3, <1>4, GroupsAre
<1> QED
  BY <1>2, <1>3, <1>5 DEF of

LEMMA MergedShape ==
  ASSUME path \in Paths, Shape(group), Descends(group),
         NEW part, NEW whole, Joining(part, whole), ~Has(group, part, {"delay"}),
         \A e, f \in Elements : group[e] = part /\ group[f] = whole => Agree(e, f) /\ Agree(f, e)
  PROVE  Shape(Merged(part, whole)) /\ Descends(Merged(part, whole))
<1> DEFINE of == Merged(part, whole)
<1>1. GroupType(group) /\ Uniform(group) /\ Delays(group)
  BY DEF Shape
<1>2. /\ GroupType(of) /\ Groups(of) = Groups(group) \ {part}
      /\ \A e \in Elements : of[e] = IF group[e] = part THEN whole ELSE group[e]
  BY <1>1, MergedGroups
<1>3. /\ part # whole /\ part # Gone /\ whole # Gone
      /\ part \in Groups(group) /\ whole \in Groups(group) \ {part}
      /\ Preds(group, part) = {whole} /\ MarkedPreds(group, part) = {}
  BY <1>1, GroupsAre DEF Joining
<1>4. \A h \in Groups(of) : MergedPreds(of, part, whole, h)
  BY <1>1, <1>2, MergedArcs, GroupsAre
<1>5. whole < part
  BY <1>3 DEF Descends
<1>6. \A g \in Groups(group) : g \in Nat /\ g # Gone /\ Preds(group, g) \subseteq Groups(group) \ {g}
  BY <1>1, GroupsAre, PathFacts
<1> HIDE DEF of
<1>7. Uniform(of)
  BY <1>1, <1>2, <1>3 DEF Uniform
<1>8. Descends(of)
  <2> SUFFICES ASSUME NEW g \in Groups(of), Preds(of, g) # {}
               PROVE  \E p \in Preds(of, g) : p < g
    BY DEF Descends
  <2>1. MergedPreds(of, part, whole, g) /\ g \in Groups(group) /\ g # part
    BY <1>2, <1>4
  <2>2. Preds(group, g) # {}
    BY <2>1 DEF MergedPreds
  <2>3. PICK p \in Preds(group, g) : p < g
    BY <2>1, <2>2 DEF Descends
  <2>4. CASE p # part
    BY <1>6, <2>1, <2>3, <2>4 DEF MergedPreds
  <2>5. CASE p = part
    <3>1. whole < g
      BY <1>3, <1>5, <1>6, <2>1, <2>3, <2>5
    <3>2. whole # g
      BY <1>3, <1>6, <3>1
    <3> QED
      BY <1>3, <2>1, <2>3, <2>5, <3>1, <3>2 DEF MergedPreds
  <2> QED
    BY <2>4, <2>5
<1>9. Delays(of)
  <2> SUFFICES ASSUME NEW g \in Groups(of), Has(of, g, {"delay"})
               PROVE  FollowsOne(of, g)
    BY DEF Delays
  <2>1. MergedPreds(of, part, whole, g) /\ g \in Groups(group) /\ g # part
    BY <1>2, <1>4
  <2>2. Has(group, g, {"delay"})
    BY <1>2, <2>1, HasIs
  <2>3. PICK p \in Groups(group) : Preds(group, g) = {p} /\ MarkedPreds(group, g) = {}
    BY <1>1, <2>1, <2>2 DEF Delays, FollowsOne
  <2>4. p < g /\ p # g
    BY <1>6, <2>1, <2>3 DEF Descends
  <2>5. MarkedPreds(of, g) = {}
    BY <2>1, <2>3 DEF MergedPreds
  <2>6. CASE p # part
    <3>1. Preds(of, g) = {p}
      BY <2>1, <2>3, <2>4, <2>6 DEF MergedPreds
    <3> QED
      BY <1>2, <2>5, <2>6, <3>1 DEF FollowsOne
  <2>7. CASE p = part
    <3>1. whole # g
      BY <1>3, <1>5, <1>6, <2>1, <2>4, <2>7
    <3>2. Preds(of, g) = {whole}
      BY <1>3, <2>1, <2>3, <2>7, <3>1 DEF MergedPreds
    <3> QED
      BY <1>2, <1>3, <2>5, <3>2 DEF FollowsOne
  <2> QED
    BY <2>6, <2>7
<1> QED
  BY <1>2, <1>7, <1>8, <1>9 DEF Shape, of
----------------------------------------------------------------------------
(* The reduction, at each of its steps.                                    *)
Stuck(of, n) == Has(of, n, {"to_fn", "delay"})
Follows(of, n, w, g) ==
  /\ Preds(of, g) # {} /\ MarkedPreds(of, g) = {}
  /\ ~Has(of, g, {"from_fn", "delay", "ack", "dead"})
  /\ in_body(of, g) <=> in_body(of, n)
  /\ Has(of, g, {"place"}) <=> Has(of, n, {"place"})
  /\ Stuck(of, n) \/ Preds(of, g) \subseteq {n} \cup w
  /\ \A p \in Preds(of, g) \cap w : ~Has(of, p, {"to_fn"})
Absorbing(of, n, w) ==
  \A g \in w : /\ n \in Groups(of) /\ g \in Groups(of) /\ g # n
               /\ Follows(of, n, w, g)
Gasping(of, w) ==
  \A g \in w : g \in Groups(of) /\ FollowsOne(of, g) /\ ~Has(of, g, {"delay"})
AtStep(st, of, nu, n, w) ==
  /\ st \in {"dead", "nuclei", "absorb", "gasp", "done"}
  /\ st = "dead" => of = Alone
  /\ st # "dead" => Shape(of)
  /\ st \in {"nuclei", "absorb", "gasp"} => Descends(of)
  /\ st \in {"nuclei", "absorb"} => Unmixed(of)
  /\ st \in {"dead", "nuclei"} => w = {}
  /\ st = "absorb" => nu \subseteq Groups(of) /\ Absorbing(of, n, w)
  /\ st = "gasp" => Gasping(of, w)
GInv == path \in Paths /\ AtStep(step, group, nuclei, nucleus, worklist)

LEMMA Carried ==
  ASSUME path' = path, NEW st, NEW of, NEW nu, NEW n, NEW w,
         step' = st, group' = of, nuclei' = nu, nucleus' = n, worklist' = w,
         path \in Paths, AtStep(st, of, nu, n, w)
  PROVE  GInv'
<1>1. Elements' = Elements /\ Alone' = Alone
  BY DEF Elements, Alone
<1>2. Groups(group)' = Groups(of)
  BY <1>1 DEF Groups
<1>3. \A g : Preds(group, g)' = Preds(of, g) /\ MarkedPreds(group, g)' = MarkedPreds(of, g)
  BY DEF Preds, MarkedPreds, Arcs
<1>4. \A g : Members(group, g)' = Members(of, g)
  BY <1>1 DEF Members
<1>5. \A g : in_body(group, g)' <=> in_body(of, g)
  BY <1>4 DEF in_body
<1>6. \A g, S : Has(group, g, S)' <=> Has(of, g, S)
  BY <1>4 DEF Has
<1>7. \A g : FollowsOne(group, g)' <=> FollowsOne(of, g)
  BY <1>2, <1>3 DEF FollowsOne
<1>8. GroupType(group)' <=> GroupType(of)
  BY <1>1 DEF GroupType
<1>9. /\ Uniform(group)' <=> Uniform(of)
      /\ Unmixed(group)' <=> Unmixed(of)
  BY <1>1 DEF Uniform, Agree, Unmixed
<1>10. Delays(group)' <=> Delays(of)
  BY <1>2, <1>6, <1>7 DEF Delays
<1>11. Descends(group)' <=> Descends(of)
  BY <1>2, <1>3 DEF Descends
<1>12. Shape(group)' <=> Shape(of)
  BY <1>8, <1>9, <1>10 DEF Shape
<1>13. \A g : Follows(group, nucleus, worklist, g)' <=> Follows(of, n, w, g)
  BY <1>3, <1>5, <1>6 DEF Follows, Stuck
<1>14. Absorbing(group, nucleus, worklist)' <=> Absorbing(of, n, w)
  BY <1>2, <1>13 DEF Absorbing
<1>15. Gasping(group, worklist)' <=> Gasping(of, w)
  BY <1>2, <1>6, <1>7 DEF Gasping
<1> QED
  BY <1>1, <1>2, <1>9, <1>11, <1>12, <1>14, <1>15 DEF GInv, AtStep

(* At first every element is alone.                                        *)
LEMMA AloneIs ==
  ASSUME path \in Paths
  PROVE  /\ GroupType(Alone) /\ Uniform(Alone) /\ Groups(Alone) = Elements
         /\ \A e \in Elements : Alone[e] = e
<1>1. \A e \in Elements : Alone[e] = e /\ e # Gone
  BY PathFacts DEF Alone, Gone
<1>2. GroupType(Alone)
  BY DEF Alone, GroupType
<1> HIDE DEF Alone
<1>3. Uniform(Alone)
  BY <1>1 DEF Uniform, Agree
<1>4. Groups(Alone) = Elements
  <2>1. \A g : g \in Groups(Alone) <=> g # Gone /\ \E e \in Elements : Alone[e] = g
    BY <1>2, GroupsAre
  <2>2. \A g : g \in Groups(Alone) <=> g \in Elements
    BY <1>1, <2>1
  <2> QED
    BY <2>2
<1> QED
  BY <1>1, <1>2, <1>3, <1>4

(* No dead group is followed to a live one.                                *)
DeadBy(links, dead) ==
  dead = Collected({g \in Groups(group) : Has(group, g, {"dead"})}, links)
Without(dead, of) ==
  /\ GroupType(of)
  /\ \A e \in Elements : of[e] = IF group[e] \in dead THEN Gone ELSE group[e]

LEMMA DeadStep ==
  ASSUME path \in Paths, group = Alone, NEW links,
         NEW dead, DeadBy(links, dead), NEW of, Without(dead, of)
  PROVE  Shape(of) /\ Unmixed(of) /\ Descends(of)
<1> DEFINE from == {g \in Groups(group) : Has(group, g, {"dead"})}
           Into(e) == {a[1] : a \in {b \in path.arcs : b[2] = e}}
<1>1. PICK live \in SUBSET Elements : \A e \in Elements : Alive(path, live, e)
  BY PathFacts
<1>2. \A e \in Elements :
        /\ e \in live => /\ path.kind[e] # "dead"
                         /\ Into(e) # {} => \E q \in Into(e) \cap live : q < e
        /\ e \notin live => path.kind[e] # "delay" /\ \A q \in Into(e) : q < e
        /\ path.kind[e] = "delay" => /\ Cardinality(Into(e)) = 1
                                     /\ \A a \in path.marked : a[2] # e
  BY <1>1 DEF Alive
<1>3. /\ \A e \in Elements : group[e] = e /\ e # Gone /\ e \in Nat
      /\ Groups(group) = Elements
      /\ \A b \in path.arcs : b[1] \in Elements /\ b[2] \in Elements
      /\ \A b \in path.marked : b[1] \in Elements /\ b[2] \in Elements
  BY AloneIs, PathFacts DEF Gone
<1>4. \A e, q : q \in Into(e) <=> \E b \in path.arcs : b[1] = q /\ b[2] = e
  OBVIOUS
<1> HIDE DEF Into
<1>5. \A e, q : q \in Into(e) => q \in Elements /\ e \in Elements
  BY <1>3, <1>4
<1>6. \A e, q : q \in Preds(group, e) <=> q \in Into(e) /\ q # e
  <2>1. \A e, q : q \in Preds(group, e) <=>
          \E b \in path.arcs : group[b[1]] = q /\ group[b[2]] = e /\ q # Gone /\ e # Gone /\ q # e
    BY PredsOf
  <2> QED
    BY <1>3, <1>4, <2>1
<1>7. dead \cap live = {}
  <2>1. from \in SUBSET Groups(group)
    OBVIOUS
  <2>2. from \cap live = {}
    BY <1>2, <1>3, HasIs
  <2>3. ASSUME NEW g \in live, Preds(group, g) # {} PROVE Preds(group, g) \cap live # {}
    <3>1. Into(g) # {}
      BY <1>6, <2>3
    <3>2. PICK q \in Into(g) \cap live : q < g
      BY <1>2, <3>1
    <3>3. q # g
      BY <1>3, <3>2
    <3> QED
      BY <1>6, <3>2, <3>3
  <2> HIDE DEF from
  <2>4. Collected(from, links) \cap live = {}
    BY <2>1, <2>2, <2>3, CollectedAvoids
  <2> QED
    BY <2>4 DEF from, DeadBy
<1>8. /\ \A e \in Elements : of[e] = IF e \in dead THEN Gone ELSE e
      /\ GroupType(of)
  BY <1>3 DEF Without
<1>9. \A e, f \in Elements : of[e] = of[f] /\ of[e] # Gone => e = f
  BY <1>8
<1>10. Uniform(of) /\ Unmixed(of)
  BY <1>9 DEF Uniform, Unmixed, Agree
<1>11. \A g : g \in Groups(of) <=> g \in Elements /\ g \notin dead
  BY <1>3, <1>8, GroupsAre
<1>12. \A g \in Groups(of) : \A q : q \in Preds(of, g) <=> q \in Into(g) /\ q \notin dead /\ q # g
  <2>1. \A e, q : q \in Preds(of, e) <=>
          \E b \in path.arcs : of[b[1]] = q /\ of[b[2]] = e /\ q # Gone /\ e # Gone /\ q # e
    BY PredsOf
  <2>2. ASSUME NEW g \in Elements, g \notin dead, NEW b \in path.arcs, of[b[2]] = g
        PROVE  b[2] = g
    BY <1>3, <1>8, <2>2
  <2>3. ASSUME NEW q, NEW b \in path.arcs, of[b[1]] = q, q # Gone
        PROVE  b[1] = q /\ q \notin dead
    BY <1>3, <1>8, <2>3
  <2>4. \A g \in Elements : g \notin dead => of[g] = g /\ g # Gone
    BY <1>3, <1>8
  <2>5. ASSUME NEW g \in Groups(of), NEW q, q \in Preds(of, g)
        PROVE  q \in Into(g) /\ q \notin dead /\ q # g
    BY <1>4, <1>11, <2>1, <2>2, <2>3, <2>5
  <2>6. ASSUME NEW g \in Groups(of), NEW q, q \in Into(g), q \notin dead, q # g
        PROVE  q \in Preds(of, g)
    <3>1. PICK b \in path.arcs : b[1] = q /\ b[2] = g
      BY <1>4, <2>6
    <3> QED
      BY <1>5, <1>11, <2>1, <2>4, <2>6, <3>1
  <2> QED
    BY <2>5, <2>6
<1>13. Descends(of)
  <2> SUFFICES ASSUME NEW g \in Groups(of), Preds(of, g) # {}
               PROVE  \E p \in Preds(of, g) : p < g
    BY DEF Descends
  <2>1. PICK q \in Preds(of, g) : q \in Into(g) /\ g \in Elements
    BY <1>11, <1>12
  <2>2. CASE g \in live
    <3>1. PICK p \in Into(g) \cap live : p < g
      BY <1>2, <2>1, <2>2
    <3>2. p \notin dead /\ p # g
      BY <1>3, <1>5, <1>7, <3>1
    <3> QED
      BY <1>12, <3>1, <3>2
  <2>3. CASE g \notin live
    BY <1>2, <2>1, <2>3
  <2> QED
    BY <2>2, <2>3
<1>14. Delays(of)
  <2> SUFFICES ASSUME NEW g \in Groups(of), Has(of, g, {"delay"})
               PROVE  FollowsOne(of, g)
    BY DEF Delays
  <2>1. g \in Elements /\ path.kind[g] = "delay" /\ g # Gone
    BY <1>3, <1>8, <1>11, HasIs
  <2>2. g \in live /\ Cardinality(Into(g)) = 1
    BY <1>2, <2>1
  <2>3. PICK q : Into(g) = {q}
    <3>1. Into(g) \subseteq Elements
      BY <1>5
    <3>2. IsFiniteSet(Into(g))
      BY <3>1, PathFacts, FS_Subset
    <3> QED
      BY <2>2, <3>2, AtMostOne
  <2>4. q \in live /\ q < g
    BY <1>2, <2>1, <2>2, <2>3
  <2>5. q \notin dead /\ q # g /\ q \in Groups(of)
    BY <1>3, <1>7, <1>11, <2>1, <2>4
  <2>6. Preds(of, g) = {q}
    BY <1>12, <2>3, <2>5
  <2>7. MarkedPreds(of, g) = {}
    <3>1. \A p : p \in MarkedPreds(of, g) => \E b \in path.marked : of[b[2]] = g
      BY PredsOf
    <3> QED
      BY <1>2, <1>3, <1>8, <2>1, <3>1
  <2> QED
    BY <2>5, <2>6, <2>7 DEF FollowsOne
<1> QED
  BY <1>8, <1>10, <1>13, <1>14 DEF Shape

(* A search collects what follows its nucleus alone, of its kind.          *)
LEMMA SearchStep ==
  ASSUME path \in Paths, GroupType(group), NEW n \in Groups(group), NEW taken, n \in taken,
         NEW links, links = {a \in Arcs(group, path.arcs) :
                               a[2] \notin taken /\ Can_Potentially_Absorb(a[1], a[2])},
         NEW collected, collected = Collected({n}, links)
  PROVE  /\ Absorbing(group, n, collected \ {n})
         /\ UNION {Succs(group, g) : g \in collected} \subseteq Groups(group)
<1> DEFINE P(g) == Preds(group, g)
<1>1. Gathered(collected, {n}, links)
  BY CollectedFacts
<1>2. /\ n \in collected /\ collected \subseteq Groups(group)
      /\ \A g \in collected \ {n} : /\ P(g) # {} /\ P(g) \subseteq collected
                                    /\ \A p \in P(g) : <<p, g>> \in links
  BY <1>1 DEF Gathered
<1>3. \A p, g : <<p, g>> \in links => Can_Potentially_Absorb(p, g)
  OBVIOUS
<1>4. \A g \in Groups(group) : Has(group, g, {"place"}) \/ Has(group, g, TransitionKinds)
  <2> SUFFICES ASSUME NEW g \in Groups(group)
               PROVE  Has(group, g, {"place"}) \/ Has(group, g, TransitionKinds)
    OBVIOUS
  <2>1. PICK e \in Elements : group[e] = g
    BY GroupsAre
  <2>2. path.kind[e] \in TransitionKinds \cup {"place"}
    BY PathFacts
  <2> QED
    BY <2>1, <2>2, HasIs
<1>5. ASSUME NEW p, NEW g \in Groups(group), Can_Potentially_Absorb(p, g)
      PROVE  /\ in_body(group, p) <=> in_body(group, g)
             /\ Has(group, p, {"place"}) <=> Has(group, g, {"place"})
             /\ ~Has(group, p, {"to_fn"})
             /\ ~Has(group, g, {"from_fn", "delay", "ack", "dead"})
             /\ MarkedPreds(group, g) = {}
  <2>1. ~Has(group, p, {"to_fn", "delay"}) => ~Has(group, p, {"to_fn"})
    BY HasIs
  <2> QED
    BY <1>4, <1>5, <2>1 DEF Can_Potentially_Absorb, Reenabled
<1> DEFINE Z == {g \in Groups(group) :
                  ~ (/\ in_body(group, g) <=> in_body(group, n)
                     /\ Has(group, g, {"place"}) <=> Has(group, n, {"place"}))}
<1>6. collected \cap Z = {}
  <2>1. {n} \cap Z = {} /\ {n} \in SUBSET Groups(group)
    OBVIOUS
  <2>2. ASSUME NEW g \in Z, P(g) # {}, \A p \in P(g) : <<p, g>> \in links
        PROVE  P(g) \cap Z # {}
    <3>1. PICK p \in P(g) : Can_Potentially_Absorb(p, g)
      BY <1>3, <2>2
    <3>2. g \in Groups(group) /\ p \in Groups(group)
      BY <2>2, GroupsAre
    <3>3. /\ in_body(group, p) <=> in_body(group, g)
          /\ Has(group, p, {"place"}) <=> Has(group, g, {"place"})
      BY <1>5, <3>1, <3>2
    <3>4. p \in Z
      BY <2>2, <3>2, <3>3
    <3> QED
      BY <3>4
  <2> HIDE DEF Z
  <2> QED
    BY <2>1, <2>2, CollectedAvoids
<1>7. ASSUME NEW g \in collected \ {n}
      PROVE  /\ g \in Groups(group)
             /\ Follows(group, n, collected \ {n}, g)
  <2>1. /\ P(g) # {} /\ P(g) \subseteq collected /\ g \in Groups(group)
        /\ \A p \in P(g) : Can_Potentially_Absorb(p, g)
    BY <1>2, <1>3
  <2>2. PICK q \in P(g) : Can_Potentially_Absorb(q, g)
    BY <2>1
  <2>3. /\ ~Has(group, g, {"from_fn", "delay", "ack", "dead"})
        /\ MarkedPreds(group, g) = {}
    BY <1>5, <2>1, <2>2
  <2>4. \A p \in P(g) : ~Has(group, p, {"to_fn"})
    BY <1>5, <2>1
  <2>5. /\ in_body(group, g) <=> in_body(group, n)
        /\ Has(group, g, {"place"}) <=> Has(group, n, {"place"})
    BY <1>6, <2>1
  <2>6. P(g) \subseteq {n} \cup (collected \ {n})
    BY <2>1
  <2> QED
    BY <2>1, <2>3, <2>4, <2>5, <2>6 DEF Follows
<1>8. UNION {Succs(group, g) : g \in collected} \subseteq Groups(group)
  BY GroupsAre
<1> QED
  BY <1>7, <1>8 DEF Absorbing
(* What the nucleus can absorb follows nothing else.                       *)
LEMMA AbsorbedAlone ==
  ASSUME path \in Paths, Shape(group), Unmixed(group), Absorbing(group, nucleus, worklist),
         NEW g \in NextOf, Can_Potentially_Absorb(nucleus, g)
  PROVE  /\ Joining(g, nucleus) /\ ~Has(group, g, {"delay"})
         /\ ~Confused(g, nucleus) /\ ~Confused(nucleus, g)
         /\ \A e, f \in Elements : group[e] = g /\ group[f] = nucleus =>
              /\ Agree(e, f) /\ Agree(f, e)
              /\ path.kind[e] = "place" <=> path.kind[f] = "place"
<1>1. GroupType(group) /\ Uniform(group)
  BY DEF Shape
<1>2. /\ g \in worklist /\ Preds(group, g) \cap worklist = {}
      /\ nucleus \in Groups(group) /\ g \in Groups(group) /\ g # nucleus
      /\ Follows(group, nucleus, worklist, g)
  BY DEF NextOf, Absorbing
<1>3. ~Stuck(group, nucleus)
  BY DEF Can_Potentially_Absorb, Stuck
<1>4. Preds(group, g) = {nucleus} /\ MarkedPreds(group, g) = {}
  BY <1>2, <1>3 DEF Follows
<1>5. ~Has(group, g, {"delay"})
  BY <1>2, HasIs DEF Follows
<1>6. nucleus # Gone /\ g # Gone
  BY <1>1, <1>2, GroupsAre
<1>7. ASSUME NEW e \in Elements, NEW f \in Elements, group[e] = g, group[f] = nucleus
      PROVE  /\ path.fn[e] = 0 \/ path.fn[f] = 0 \/ path.fn[e] = path.fn[f]
             /\ e \in path.body <=> f \in path.body
             /\ path.kind[e] = "place" <=> path.kind[f] = "place"
  <2>1. path.fn[e] = 0 \/ path.fn[f] = 0 \/ path.fn[e] = path.fn[f]
    <3> DEFINE S == Functions(group, nucleus) \cup Functions(group, g)
    <3>1. IsFiniteSet(S) /\ Cardinality(S) <= 1
      BY FunctionsAre, FS_Union DEF Can_Potentially_Absorb
    <3>2. path.fn[e] # 0 => path.fn[e] \in S
      BY <1>7, FunctionsAre
    <3>3. path.fn[f] # 0 => path.fn[f] \in S
      BY <1>7, FunctionsAre
    <3> HIDE DEF S
    <3>4. \A x, y \in S : x = y
      BY <3>1, AtMostOne
    <3> QED
      BY <3>2, <3>3, <3>4
  <2>2. e \in path.body <=> f \in path.body
    <3>1. in_body(group, g) <=> e \in path.body
      BY <1>1, <1>6, <1>7, BodyOfMembers
    <3>2. in_body(group, nucleus) <=> f \in path.body
      BY <1>1, <1>6, <1>7, BodyOfMembers
    <3> QED
      BY <1>2, <3>1, <3>2 DEF Follows
  <2>3. path.kind[e] = "place" <=> path.kind[f] = "place"
    <3>1. Has(group, g, {"place"}) <=> path.kind[e] = "place"
      BY <1>6, <1>7, HasIs DEF Unmixed
    <3>2. Has(group, nucleus, {"place"}) <=> path.kind[f] = "place"
      BY <1>6, <1>7, HasIs DEF Unmixed
    <3> QED
      BY <1>2, <3>1, <3>2 DEF Follows
  <2> QED
    BY <2>1, <2>2, <2>3
<1>8. /\ \A x : is_join(group, x) \/ is_fork(group, x) =>
                  \E e \in Elements : group[e] = x /\ path.kind[e] # "place"
      /\ \A x : is_merge(group, x) \/ is_branch(group, x) =>
                  \E e \in Elements : group[e] = x /\ path.kind[e] = "place"
  BY DEF is_join, is_fork, is_merge, is_branch, Members
<1>9. ~Confused(g, nucleus) /\ ~Confused(nucleus, g)
  BY <1>7, <1>8 DEF Confused
<1> QED
  BY <1>2, <1>4, <1>5, <1>7, <1>9 DEF Joining, Agree

(* One turn of the last loop of Reduce_From_Nucleus.                       *)
LEMMA AbsorbStep ==
  ASSUME path \in Paths, Shape(group), Unmixed(group), Descends(group),
         Absorbing(group, nucleus, worklist),
         NEW g \in NextOf, Can_Potentially_Absorb(nucleus, g)
  PROVE  /\ Shape(Merged(g, nucleus)) /\ Unmixed(Merged(g, nucleus))
         /\ Descends(Merged(g, nucleus))
         /\ Groups(Merged(g, nucleus)) = Groups(group) \ {g}
         /\ Absorbing(Merged(g, nucleus), nucleus, worklist \ {g})
<1> DEFINE of == Merged(g, nucleus)
           w == worklist \ {g}
<1>1. /\ Joining(g, nucleus) /\ ~Has(group, g, {"delay"})
      /\ \A e, f \in Elements : group[e] = g /\ group[f] = nucleus =>
           /\ Agree(e, f) /\ Agree(f, e)
           /\ path.kind[e] = "place" <=> path.kind[f] = "place"
  BY AbsorbedAlone
<1>2. Shape(of) /\ Descends(of)
  BY <1>1, MergedShape
<1>3. /\ GroupType(group) /\ GroupType(of) /\ Groups(of) = Groups(group) \ {g}
      /\ \A e \in Elements : of[e] = IF group[e] = g THEN nucleus ELSE group[e]
  BY <1>1, MergedGroups DEF Shape
<1>4. /\ g \in worklist /\ nucleus \in Groups(group) /\ g # nucleus /\ g \in Groups(group)
      /\ Follows(group, nucleus, worklist, g)
  BY DEF NextOf, Absorbing
<1>5. nucleus # Gone /\ g # Gone
  BY <1>3, <1>4, GroupsAre
<1>6. \A h \in Groups(of) : MergedPreds(of, g, nucleus, h)
  BY <1>1, <1>3, MergedArcs, GroupsAre
<1> HIDE DEF of
<1>7. Unmixed(of)
  BY <1>1, <1>3, <1>5 DEF Unmixed
<1>8. ASSUME NEW h, h # g, h # nucleus
      PROVE  /\ \A S : Has(of, h, S) <=> Has(group, h, S)
             /\ in_body(of, h) <=> in_body(group, h)
  <2>1. Members(of, h) = Members(group, h)
    BY <1>3, <1>8 DEF Members
  <2> QED
    BY <2>1 DEF Has, in_body
<1>9. /\ \A S : Has(of, nucleus, S) <=> Has(group, nucleus, S) \/ Has(group, g, S)
      /\ in_body(of, nucleus) <=> in_body(group, nucleus)
  <2>1. Members(of, nucleus) = Members(group, nucleus) \cup Members(group, g)
    BY <1>3 DEF Members
  <2>2. in_body(of, nucleus) <=> in_body(group, nucleus) \/ in_body(group, g)
    BY <2>1 DEF in_body
  <2>3. in_body(group, g) <=> in_body(group, nucleus)
    BY <1>4 DEF Follows
  <2>4. \A S : Has(of, nucleus, S) <=> Has(group, nucleus, S) \/ Has(group, g, S)
    BY <2>1 DEF Has
  <2> QED
    BY <2>2, <2>3, <2>4
<1>10. ASSUME NEW h \in w
       PROVE  /\ nucleus \in Groups(of) /\ h \in Groups(of) /\ h # nucleus
              /\ Follows(of, nucleus, w, h)
  <2>1. /\ h \in worklist /\ h # g /\ h # nucleus /\ h \in Groups(group)
        /\ Follows(group, nucleus, worklist, h)
    BY <1>10 DEF Absorbing
  <2>2. h \in Groups(of) /\ nucleus \in Groups(of)
    BY <1>3, <1>4, <2>1
  <2>3. MergedPreds(of, g, nucleus, h)
    BY <1>6, <2>2
  <2>4. Preds(of, h) # {}
    <3>1. PICK p \in Preds(group, h) : TRUE
      BY <2>1 DEF Follows
    <3>2. p # h
      BY <1>3, <3>1, GroupsAre
    <3>3. p = g => nucleus \in Preds(of, h)
      BY <1>4, <2>1, <2>3, <3>1 DEF MergedPreds
    <3>4. p # g => p \in Preds(of, h)
      BY <2>3, <3>1, <3>2 DEF MergedPreds
    <3> QED
      BY <3>3, <3>4
  <2>5. MarkedPreds(of, h) = {}
    BY <2>1, <2>3 DEF Follows, MergedPreds
  <2>6. /\ ~Has(of, h, {"from_fn", "delay", "ack", "dead"})
        /\ in_body(of, h) <=> in_body(of, nucleus)
    BY <1>8, <1>9, <2>1 DEF Follows
  <2>7. Has(of, h, {"place"}) <=> Has(of, nucleus, {"place"})
    BY <1>4, <1>8, <1>9, <2>1 DEF Follows
  <2>8. Stuck(of, nucleus) \/ Preds(of, h) \subseteq {nucleus} \cup w
    <3>1. CASE Stuck(group, nucleus)
      BY <1>9, <3>1 DEF Stuck
    <3>2. CASE ~Stuck(group, nucleus)
      <4>1. Preds(group, h) \subseteq {nucleus} \cup worklist
        BY <2>1, <3>2 DEF Follows
      <4> QED
        BY <2>3, <4>1 DEF MergedPreds
    <3> QED
      BY <3>1, <3>2
  <2>9. ASSUME NEW p \in Preds(of, h) \cap w PROVE ~Has(of, p, {"to_fn"})
    <3>1. p # nucleus /\ p # g /\ p \in worklist
      BY <2>9 DEF Absorbing
    <3>2. p \in Preds(group, h)
      BY <2>3, <3>1 DEF MergedPreds
    <3> QED
      BY <1>8, <2>1, <3>1, <3>2 DEF Follows
  <2> QED
    BY <2>1, <2>2, <2>4, <2>5, <2>6, <2>7, <2>8, <2>9 DEF Follows
<1> QED
  BY <1>2, <1>3, <1>7, <1>10 DEF of, Absorbing

(* What is left behind is either not needed by the others, or the nucleus  *)
(* can take no more.                                                       *)
LEMMA LeaveStep ==
  ASSUME path \in Paths, Shape(group), Unmixed(group), Absorbing(group, nucleus, worklist),
         NEW g \in NextOf, ~Can_Potentially_Absorb(nucleus, g)
  PROVE  Absorbing(group, nucleus, worklist \ {g})
<1>1. GroupType(group) /\ Uniform(group)
  BY DEF Shape
<1>2. /\ g \in worklist /\ nucleus \in Groups(group) /\ g \in Groups(group)
      /\ Follows(group, nucleus, worklist, g)
  BY DEF NextOf, Absorbing
<1>3. ASSUME ~Has(group, g, {"to_fn"}) PROVE Stuck(group, nucleus)
  <2>1. /\ in_body(group, g) <=> in_body(group, nucleus)
        /\ Has(group, g, {"place"}) <=> Has(group, nucleus, {"place"})
        /\ ~Has(group, g, {"from_fn", "delay", "ack", "dead"})
        /\ MarkedPreds(group, g) = {}
    BY <1>2 DEF Follows
  <2>2. Functions(group, g) = {}
    <3>1. ~Has(group, g, {"to_fn", "from_fn"})
      BY <1>3, <2>1, HasIs
    <3> QED
      BY <3>1, FunctionsAre
  <2>3. Cardinality(Functions(group, nucleus) \cup Functions(group, g)) <= 1
    <3>1. Functions(group, nucleus) \cup Functions(group, g) = Functions(group, nucleus)
      BY <2>2
    <3>2. Cardinality(Functions(group, nucleus)) <= 1
      BY <1>1, <1>2, FewFunctions
    <3> QED
      BY <3>1, <3>2
  <2>4. Has(group, g, {"place"}) => ~Has(group, g, TransitionKinds)
    BY <1>1, <1>2, HasIs, GroupsAre DEF Unmixed, TransitionKinds
  <2>5. in_body(group, nucleus) = in_body(group, g)
    <3>1. in_body(group, nucleus) \in BOOLEAN /\ in_body(group, g) \in BOOLEAN
      BY InBodyIs
    <3> QED
      BY <2>1, <3>1
  <2> QED
    BY <2>1, <2>3, <2>4, <2>5 DEF Can_Potentially_Absorb, Stuck, Reenabled
<1>4. ASSUME NEW h \in worklist \ {g}
      PROVE  /\ nucleus \in Groups(group) /\ h \in Groups(group) /\ h # nucleus
             /\ Follows(group, nucleus, worklist \ {g}, h)
  <2>1. /\ h \in Groups(group) /\ h # nucleus
        /\ Follows(group, nucleus, worklist, h)
    BY DEF Absorbing
  <2>2. Stuck(group, nucleus) \/ Preds(group, h) \subseteq {nucleus} \cup (worklist \ {g})
    BY <1>2, <1>3, <2>1 DEF Follows
  <2> QED
    BY <1>2, <2>1, <2>2 DEF Follows
<1> QED
  BY <1>4 DEF Absorbing

(* The last gasp.                                                          *)
LEMMA CandidatesFollowOne ==
  ASSUME path \in Paths, GroupType(group)
  PROVE  Gasping(group, Candidates)
<1> SUFFICES ASSUME NEW g \in Candidates
             PROVE  g \in Groups(group) /\ FollowsOne(group, g) /\ ~Has(group, g, {"delay"})
  BY DEF Gasping
<1>1. /\ g \in Groups(group) /\ Cardinality(Preds(group, g)) = 1
      /\ MarkedPreds(group, g) = {} /\ ~Has(group, g, {"from_fn", "ack", "delay"})
  BY DEF Candidates, Reenabled
<1>2. Preds(group, g) \subseteq Groups(group) /\ Groups(group) \subseteq Elements
  BY GroupsAre
<1>3. IsFiniteSet(Preds(group, g))
  BY <1>2, PathFacts, FS_Subset
<1>4. PICK p : Preds(group, g) = {p}
  BY <1>1, <1>3, AtMostOne
<1> QED
  BY <1>1, <1>2, <1>4, HasIs DEF FollowsOne

LEMMA JoinedAlone ==
  ASSUME path \in Paths, Shape(group), Gasping(group, worklist),
         NEW g \in worklist, NEW p \in Preds(group, g), Joins_Its_Predecessor(g, p)
  PROVE  /\ Joining(g, p) /\ ~Has(group, g, {"delay"})
         /\ ~Confused(g, p) /\ ~Confused(p, g)
         /\ \A e, f \in Elements : group[e] = g /\ group[f] = p => Agree(e, f) /\ Agree(f, e)
<1>1. GroupType(group) /\ Uniform(group)
  BY DEF Shape
<1>2. /\ g \in Groups(group) /\ p \in Groups(group) /\ Preds(group, g) = {p}
      /\ MarkedPreds(group, g) = {} /\ ~Has(group, g, {"delay"})
  BY DEF Gasping, FollowsOne
<1>3. p # Gone /\ g # Gone
  BY <1>1, <1>2, GroupsAre
<1>4. ASSUME NEW e \in Elements, NEW f \in Elements, group[e] = g, group[f] = p
      PROVE  /\ path.fn[e] = 0 \/ path.fn[f] = 0 \/ path.fn[e] = path.fn[f]
             /\ e \in path.body <=> f \in path.body
  <2>1. ASSUME path.fn[e] # 0 PROVE path.fn[f] = 0 \/ path.fn[e] = path.fn[f]
    <3>1. path.fn[e] \in Functions(group, p)
      BY <1>4, <2>1, FunctionsAre DEF Joins_Its_Predecessor
    <3>2. PICK d \in Elements : group[d] = p /\ path.fn[d] = path.fn[e]
      BY <3>1, FunctionsAre
    <3> QED
      BY <1>1, <1>3, <1>4, <2>1, <3>2 DEF Uniform, Agree
  <2>2. in_body(group, g) <=> e \in path.body
    BY <1>1, <1>3, <1>4, BodyOfMembers
  <2>3. in_body(group, p) <=> f \in path.body
    BY <1>1, <1>3, <1>4, BodyOfMembers
  <2> QED
    BY <2>1, <2>2, <2>3 DEF Joins_Its_Predecessor
<1>5. ASSUME NEW x \in Groups(group), in_body(group, x)
      PROVE  ~is_merge(group, x) /\ ~is_branch(group, x)
  <2>1. \A e \in Elements : group[e] = x => path.kind[e] # "place"
    <3> SUFFICES ASSUME NEW e \in Elements, group[e] = x PROVE path.kind[e] # "place"
      OBVIOUS
    <3>1. e \in path.body
      BY <1>1, <1>5, BodyOfMembers, GroupsAre
    <3> QED
      BY <3>1, PathFacts
  <2> QED
    BY <2>1 DEF is_merge, is_branch, Members
<1>6. in_body(group, g) => in_body(group, p)
  BY DEF Joins_Its_Predecessor
<1>7. ~Confused(g, p) /\ ~Confused(p, g)
  <2>1. CASE in_body(group, g)
    BY <1>2, <1>5, <1>6, <2>1 DEF Confused
  <2>2. CASE ~in_body(group, g)
    BY <2>2 DEF Joins_Its_Predecessor, Aliased
  <2> QED
    BY <2>1, <2>2
<1> QED
  BY <1>2, <1>4, <1>7 DEF Joining, Agree

LEMMA GaspStep ==
  ASSUME path \in Paths, Shape(group), Descends(group), Gasping(group, worklist),
         NEW g \in worklist, NEW p \in Preds(group, g), Joins_Its_Predecessor(g, p)
  PROVE  /\ Shape(Merged(g, p)) /\ Descends(Merged(g, p))
         /\ Gasping(Merged(g, p), worklist \ {g})
<1> DEFINE of == Merged(g, p)
           w == worklist \ {g}
<1>1. /\ Joining(g, p) /\ ~Has(group, g, {"delay"})
      /\ \A e, f \in Elements : group[e] = g /\ group[f] = p => Agree(e, f) /\ Agree(f, e)
  BY JoinedAlone
<1>2. Shape(of) /\ Descends(of)
  BY <1>1, MergedShape
<1>3. /\ GroupType(group) /\ GroupType(of) /\ Groups(of) = Groups(group) \ {g}
      /\ \A e \in Elements : of[e] = IF group[e] = g THEN p ELSE group[e]
  BY <1>1, MergedGroups DEF Shape
<1>4. \A h \in Groups(of) : MergedPreds(of, g, p, h)
  BY <1>1, <1>3, MergedArcs, GroupsAre
<1>5. /\ g \in Groups(group) /\ p \in Groups(group) /\ p # g
      /\ Preds(group, g) = {p} /\ MarkedPreds(group, g) = {}
  BY <1>1, <1>3, GroupsAre DEF Joining
<1>6. \A h \in Groups(group) : h \in Nat
  BY <1>3, GroupsAre, PathFacts
<1>7. p < g
  BY <1>5 DEF Descends
<1> HIDE DEF of
<1>8. ASSUME NEW h \in w
      PROVE  h \in Groups(of) /\ FollowsOne(of, h) /\ ~Has(of, h, {"delay"})
  <2>1. h \in Groups(of) /\ h # g /\ h \in Groups(group)
    BY <1>3 DEF Gasping
  <2>2. PICK q \in Groups(group) : Preds(group, h) = {q} /\ MarkedPreds(group, h) = {}
    BY DEF Gasping, FollowsOne
  <2>3. MergedPreds(of, g, p, h)
    BY <1>4, <2>1
  <2>4. q < h /\ q # h
    BY <1>6, <2>1, <2>2 DEF Descends
  <2>5. FollowsOne(of, h)
    <3>1. MarkedPreds(of, h) = {}
      BY <2>2, <2>3 DEF MergedPreds
    <3>2. CASE q # g
      <4>1. Preds(of, h) = {q}
        BY <2>2, <2>3, <2>4, <3>2 DEF MergedPreds
      <4> QED
        BY <1>3, <3>1, <3>2, <4>1 DEF FollowsOne
    <3>3. CASE q = g
      <4>1. p # h
        BY <1>5, <1>6, <1>7, <2>1, <2>4, <3>3
      <4>2. Preds(of, h) = {p}
        BY <1>5, <2>2, <2>3, <3>3, <4>1 DEF MergedPreds
      <4> QED
        BY <1>3, <1>5, <3>1, <4>2 DEF FollowsOne
    <3> QED
      BY <3>2, <3>3
  <2>6. ~Has(of, h, {"delay"})
    <3>1. ~Has(group, h, {"delay"})
      BY DEF Gasping
    <3> QED
      BY <1>1, <1>3, <3>1, HasIs
  <2> QED
    BY <2>1, <2>5, <2>6
<1> QED
  BY <1>2, <1>8 DEF of, Gasping
LEMMA MinIsLeast ==
  ASSUME NEW S, S \subseteq Nat, S # {}
  PROVE  Min(S) \in S
<1>1. PICK k \in S : \A j \in Nat : j < k => j \notin S
  BY Least
<1>2. \A y \in S : k <= y
  BY <1>1
<1> QED
  BY <1>1, <1>2 DEF Min

(* Trees of pure transitions collapse: nothing else does.                  *)
Pure(g) == Is_Pure_Transition_Group(g)
PureLinks == {a \in Arcs(group, path.arcs) :
                /\ Is_Pure_Transition_Group(a[1]) /\ Is_Pure_Transition_Group(a[2])
                /\ in_body(group, a[1]) = in_body(group, a[2])}

LEMMA Components ==
  ASSUME path \in Paths, GroupType(group), NEW g \in Groups(group), NEW m,
         m = Min(Component(g, PureLinks))
  PROVE  /\ m \in Groups(group)
         /\ Pure(g) => Pure(m) /\ (in_body(group, m) <=> in_body(group, g))
         /\ ~Pure(g) => m = g
<1> DEFINE U == Groups(group)
           C == Component(g, PureLinks)
           Y == {h \in U : Pure(h) /\ (in_body(group, h) <=> in_body(group, g))}
<1>1. \A a \in PureLinks : /\ a[1] \in U /\ a[2] \in U
                           /\ Pure(a[1]) /\ Pure(a[2])
                           /\ in_body(group, a[1]) <=> in_body(group, a[2])
  BY GroupsAre DEF PureLinks, Pure
<1>2. Pure(g) => g \in C /\ C \subseteq U \cap Y
  <2> SUFFICES ASSUME Pure(g) PROVE g \in C /\ C \subseteq U \cap Y
    OBVIOUS
  <2>1. g \in Y
    OBVIOUS
  <2>2. \A a \in PureLinks : a[1] \in Y <=> a[2] \in Y
    BY <1>1
  <2>3. \A a \in PureLinks : a[1] \in U /\ a[2] \in U
    BY <1>1
  <2> HIDE DEF Y, U
  <2>4. g \in U
    BY DEF U
  <2> QED
    BY <2>1, <2>2, <2>3, <2>4, ComponentFacts
<1>3. ~Pure(g) => g \in C /\ C \subseteq U \cap {g}
  <2> SUFFICES ASSUME ~Pure(g) PROVE g \in C /\ C \subseteq U \cap {g}
    OBVIOUS
  <2>1. g \in {g}
    OBVIOUS
  <2>2. \A a \in PureLinks : a[1] \in {g} <=> a[2] \in {g}
    BY <1>1
  <2>3. \A a \in PureLinks : a[1] \in U /\ a[2] \in U
    BY <1>1
  <2> HIDE DEF U
  <2>4. g \in U
    BY DEF U
  <2> QED
    BY <2>1, <2>2, <2>3, <2>4, ComponentFacts
<1>4. m \in C
  <2>1. U \subseteq Nat
    BY GroupsAre, PathFacts
  <2>2. C \subseteq Nat /\ C # {}
    BY <1>2, <1>3, <2>1
  <2> HIDE DEF C
  <2> QED
    BY <2>2, MinIsLeast DEF C
<1> HIDE DEF C
<1> QED
  BY <1>2, <1>3, <1>4

Collapsed(of) ==
  /\ DOMAIN of = Elements
  /\ \A e \in Elements : of[e] = IF group[e] = Gone THEN Gone
                                 ELSE Min(Component(group[e], PureLinks))

LEMMA CollapseStep ==
  ASSUME path \in Paths, Shape(group), NEW of, Collapsed(of),
         of = [e \in Elements |-> of[e]]
  PROVE  Shape(of)
<1> DEFINE m(g) == Min(Component(g, PureLinks))
<1>1. GroupType(group) /\ Uniform(group) /\ Delays(group)
  BY DEF Shape
<1>2. \A g \in Groups(group) :
        /\ m(g) \in Groups(group)
        /\ Pure(g) => Pure(m(g)) /\ (in_body(group, m(g)) <=> in_body(group, g))
        /\ ~Pure(g) => m(g) = g
  BY <1>1, Components
<1>3. \A e \in Elements : of[e] = IF group[e] = Gone THEN Gone ELSE m(group[e])
  BY DEF Collapsed
<1> HIDE DEF m
<1>4. \A e \in Elements : group[e] # Gone => group[e] \in Groups(group)
  BY <1>1, GroupsAre
<1>5. \A g \in Groups(group) : g # Gone /\ g \in Elements
  BY <1>1, GroupsAre
<1>6. \A e \in Elements : of[e] \in Elements \cup {Gone}
  BY <1>2, <1>3, <1>4, <1>5
<1>7. GroupType(of)
  BY <1>6 DEF GroupType
<1>8. \A e \in Elements : of[e] # Gone => group[e] # Gone /\ group[e] \in Groups(group)
  BY <1>3, <1>4
(* Elements whose groups become one had one group, or pure ones.           *)
<1>9. ASSUME NEW e \in Elements, NEW f \in Elements, of[e] = of[f], of[e] # Gone
      PROVE  \/ group[e] = group[f]
             \/ /\ Pure(group[e]) /\ Pure(group[f])
                /\ in_body(group, group[e]) <=> in_body(group, group[f])
  <2>1. /\ group[e] \in Groups(group) /\ of[e] = m(group[e])
        /\ group[f] \in Groups(group) /\ of[f] = m(group[f])
    BY <1>3, <1>8, <1>9
  <2>2. CASE Pure(group[e]) /\ Pure(group[f])
    BY <1>2, <1>9, <2>1, <2>2
  <2>3. CASE ~Pure(group[e]) /\ ~Pure(group[f])
    BY <1>2, <1>9, <2>1, <2>3
  <2>4. CASE Pure(group[e]) /\ ~Pure(group[f])
    BY <1>2, <1>9, <2>1, <2>4
  <2>5. CASE ~Pure(group[e]) /\ Pure(group[f])
    BY <1>2, <1>9, <2>1, <2>5
  <2> QED
    BY <2>2, <2>3, <2>4, <2>5
<1>10. \A g : Pure(g) => ~Has(group, g, {"delay"}) /\ Functions(group, g) = {}
  <2> SUFFICES ASSUME NEW g, Pure(g)
               PROVE  ~Has(group, g, {"delay"}) /\ Functions(group, g) = {}
    OBVIOUS
  <2>1. ~Has(group, g, {"place", "req", "ack", "delay", "dead", "to_fn", "from_fn"})
    BY DEF Pure, Is_Pure_Transition_Group
  <2>2. ~Has(group, g, {"delay"}) /\ ~Has(group, g, {"to_fn", "from_fn"})
    BY <2>1, HasIs
  <2> QED
    BY <2>2, FunctionsAre
<1>11. Uniform(of)
  <2> SUFFICES ASSUME NEW e \in Elements, NEW f \in Elements, of[e] = of[f], of[e] # Gone
               PROVE  Agree(e, f)
    BY DEF Uniform
  <2>1. group[e] # Gone /\ group[f] # Gone
    BY <1>8
  <2>2. CASE group[e] = group[f]
    BY <1>1, <2>1, <2>2 DEF Uniform
  <2>3. CASE /\ Pure(group[e]) /\ Pure(group[f])
             /\ in_body(group, group[e]) <=> in_body(group, group[f])
    <3>1. path.fn[e] = 0
      <4>1. Functions(group, group[e]) = {}
        BY <1>10, <2>3
      <4> QED
        BY <4>1, FunctionsAre
    <3>2. e \in path.body <=> f \in path.body
      BY <1>1, <2>1, <2>3, BodyOfMembers
    <3> QED
      BY <3>1, <3>2 DEF Agree
  <2> QED
    BY <1>9, <2>2, <2>3
<1>12. Delays(of)
  <2> SUFFICES ASSUME NEW g \in Groups(of), Has(of, g, {"delay"})
               PROVE  FollowsOne(of, g)
    BY DEF Delays
  <2>1. g # Gone
    BY <1>7, GroupsAre
  <2>2. PICK d \in Elements : of[d] = g /\ path.kind[d] = "delay"
    BY HasIs
  <2>3. Has(group, group[d], {"delay"}) /\ ~Pure(group[d])
    BY <1>10, <2>2, HasIs
  <2>4. group[d] = g /\ g \in Groups(group) /\ ~Pure(g) /\ m(g) = g
    BY <1>2, <1>3, <1>8, <2>1, <2>2, <2>3
  <2>5. PICK p \in Groups(group) : Preds(group, g) = {p} /\ MarkedPreds(group, g) = {}
    BY <1>1, <2>3, <2>4 DEF Delays, FollowsOne
  <2>6. \A e \in Elements : of[e] = g => group[e] = g
    BY <1>9, <2>1, <2>2, <2>4
  <2>7. p # g /\ m(p) # g /\ m(p) # Gone /\ m(p) \in Groups(group)
    <3>1. p # g
      BY <1>1, <2>5, GroupsAre
    <3>2. Pure(p) => m(p) # g
      BY <1>2, <2>4, <2>5
    <3>3. ~Pure(p) => m(p) # g
      BY <1>2, <2>5, <3>1
    <3> QED
      BY <1>2, <1>5, <2>5, <3>1, <3>2, <3>3
  <2>8. /\ \A b \in path.arcs : b[1] \in Elements /\ b[2] \in Elements
        /\ \A b \in path.marked : b[1] \in Elements /\ b[2] \in Elements
    BY PathFacts
  <2>9. \A e \in Elements : of[e] # Gone /\ of[e] # g =>
          group[e] # Gone /\ group[e] # g /\ of[e] = m(group[e])
    BY <1>3, <2>4
  <2>10. ASSUME NEW x, x \in Preds(of, g) PROVE x = m(p)
    <3>1. PICK b \in path.arcs : of[b[1]] = x /\ of[b[2]] = g /\ x # Gone /\ x # g
      BY <2>10, PredsOf
    <3>2. group[b[2]] = g /\ group[b[1]] # Gone /\ group[b[1]] # g /\ x = m(group[b[1]])
      BY <2>6, <2>8, <2>9, <3>1
    <3>3. group[b[1]] \in Preds(group, g)
      BY <2>1, <3>2, PredsOf
    <3> QED
      BY <2>5, <3>2, <3>3
  <2>11. m(p) \in Preds(of, g) /\ m(p) \in Groups(of)
    <3>1. p \in Preds(group, g)
      BY <2>5
    <3>2. PICK b \in path.arcs : group[b[1]] = p /\ group[b[2]] = g /\ p # Gone
      BY <3>1, PredsOf
    <3>3. of[b[1]] = m(p) /\ of[b[2]] = g
      BY <1>3, <2>1, <2>4, <2>8, <3>2
    <3>4. m(p) \in Preds(of, g)
      BY <2>1, <2>7, <3>3, PredsOf
    <3> QED
      BY <1>7, <3>4, GroupsAre
  <2>12. MarkedPreds(of, g) = {}
    <3> SUFFICES ASSUME NEW x, x \in MarkedPreds(of, g) PROVE FALSE
      OBVIOUS
    <3>1. PICK b \in path.marked : of[b[1]] = x /\ of[b[2]] = g /\ x # Gone /\ x # g
      BY PredsOf
    <3>2. group[b[2]] = g /\ group[b[1]] # Gone /\ group[b[1]] # g
      BY <2>6, <2>8, <2>9, <3>1
    <3>3. group[b[1]] \in MarkedPreds(group, g)
      BY <2>1, <3>2, PredsOf
    <3> QED
      BY <2>5, <3>3
  <2>13. Preds(of, g) = {m(p)}
    BY <2>10, <2>11
  <2> QED
    BY <2>11, <2>12, <2>13 DEF FollowsOne
<1> QED
  BY <1>7, <1>11, <1>12 DEF Shape

----------------------------------------------------------------------------
LEMMA GInitGInv == GInit => GInv
<1> SUFFICES ASSUME GInit PROVE GInv
  OBVIOUS
<1> QED
  BY DEF GInit, GInv, AtStep

LEMMA StepGInv ==
  ASSUME GInv, [GNext]_gvars
  PROVE  GInv'
<1>1. path \in Paths /\ AtStep(step, group, nuclei, nucleus, worklist)
  BY DEF GInv
<1>2. CASE Eliminate_Dead_Groups
  <2> DEFINE links == {a \in Arcs(group, path.arcs) : ~Has(group, a[2], {"ack"})}
             dead == Collected({g \in Groups(group) : Has(group, g, {"dead"})}, links)
             of == [e \in Elements |-> IF group[e] \in dead THEN Gone ELSE group[e]]
  <2>1. /\ step = "dead" /\ step' = "nuclei" /\ group' = of /\ path' = path
        /\ nuclei' = nuclei /\ nucleus' = nucleus /\ worklist' = worklist
    BY <1>2 DEF Eliminate_Dead_Groups
  <2>2. group = Alone /\ worklist = {}
    BY <1>1, <2>1 DEF AtStep
  <2>3. DeadBy(links, dead)
    BY DEF DeadBy
  <2> HIDE DEF links, dead
  <2>4. Without(dead, of)
    <3>1. GroupType(group)
      BY <1>1, <2>2, AloneIs
    <3> QED
      BY <3>1 DEF Without, GroupType
  <2> HIDE DEF of
  <2>5. Shape(of) /\ Unmixed(of) /\ Descends(of)
    BY <1>1, <2>2, <2>3, <2>4, DeadStep
  <2>6. AtStep("nuclei", of, nuclei, nucleus, worklist)
    BY <2>2, <2>5 DEF AtStep
  <2> QED
    BY <1>1, <2>1, <2>6, Carried
<1>3. CASE Identify_Nucleii
  <2>1. /\ step = "nuclei" /\ step' = "absorb" /\ nuclei' \subseteq Groups(group)
        /\ path' = path /\ group' = group /\ nucleus' = nucleus /\ worklist' = worklist
    BY <1>3 DEF Identify_Nucleii
  <2>2. AtStep("absorb", group, nuclei', nucleus, worklist)
    BY <1>1, <2>1 DEF AtStep, Absorbing
  <2> QED
    BY <1>1, <2>1, <2>2, Carried
<1>4. CASE Search_From_Nucleus
  <2>1. /\ step = "absorb" /\ path' = path /\ group' = group /\ step' = step
    BY <1>4 DEF Search_From_Nucleus
  <2>2. Shape(group) /\ Descends(group) /\ Unmixed(group) /\ nuclei \subseteq Groups(group)
    BY <1>1, <2>1 DEF AtStep
  <2> DEFINE Taken(n) == absorbed \cup {n}
             Links(n) == {a \in Arcs(group, path.arcs) :
                            a[2] \notin Taken(n) /\ Can_Potentially_Absorb(a[1], a[2])}
             Gets(n) == Collected({n}, Links(n))
             Sees(n) == UNION {Succs(group, g) : g \in Gets(n)}
  <2>3. PICK n \in nuclei : /\ nucleus' = n /\ worklist' = Gets(n) \ {n}
                            /\ nuclei' = (nuclei \cup (Sees(n) \ Taken(n))) \ {n}
    BY <1>4, Zenon DEF Search_From_Nucleus
  <2> DEFINE taken == Taken(n)
             links == Links(n)
             collected == Gets(n)
             all == Sees(n)
  <2>4. /\ nucleus' = n /\ worklist' = collected \ {n}
        /\ nuclei' = (nuclei \cup (all \ taken)) \ {n}
    BY <2>3
  <2>5. Absorbing(group, n, collected \ {n}) /\ all \subseteq Groups(group)
    <3>1. n \in Groups(group) /\ n \in taken /\ GroupType(group)
      BY <2>2 DEF Shape
    <3> HIDE DEF taken
    <3> QED
      BY <1>1, <3>1, SearchStep
  <2> HIDE DEF taken, collected, all
  <2>6. nuclei' \subseteq Groups(group)
    BY <2>2, <2>4, <2>5
  <2>7. AtStep("absorb", group, nuclei', n, collected \ {n})
    BY <2>2, <2>5, <2>6 DEF AtStep
  <2> QED
    BY <1>1, <2>1, <2>4, <2>7, Carried
<1>5. CASE Reduce_From_Nucleus
  <2>1. step = "absorb" /\ path' = path /\ step' = step /\ nucleus' = nucleus
    BY <1>5 DEF Reduce_From_Nucleus
  <2>2. PICK g \in NextOf :
          /\ worklist' = worklist \ {g}
          /\ \/ /\ Can_Potentially_Absorb(nucleus, g)
                /\ group' = Merged(g, nucleus) /\ nuclei' = nuclei \ {g}
             \/ /\ ~Can_Potentially_Absorb(nucleus, g)
                /\ UNCHANGED <<group, nuclei>>
    BY <1>5 DEF Reduce_From_Nucleus
  <2>3. /\ Shape(group) /\ Descends(group) /\ Unmixed(group)
        /\ Absorbing(group, nucleus, worklist) /\ nuclei \subseteq Groups(group)
    BY <1>1, <2>1 DEF AtStep
  <2>4. CASE Can_Potentially_Absorb(nucleus, g)
    <3> DEFINE of == Merged(g, nucleus)
    <3>1. group' = of /\ nuclei' = nuclei \ {g}
      BY <2>2, <2>4
    <3>2. /\ Shape(of) /\ Unmixed(of) /\ Descends(of) /\ Groups(of) = Groups(group) \ {g}
          /\ Absorbing(of, nucleus, worklist \ {g})
      BY <1>1, <2>3, <2>4, AbsorbStep
    <3> HIDE DEF of
    <3>3. AtStep("absorb", of, nuclei \ {g}, nucleus, worklist \ {g})
      BY <2>3, <3>2 DEF AtStep
    <3> QED
      BY <1>1, <2>1, <2>2, <3>1, <3>3, Carried
  <2>5. CASE ~Can_Potentially_Absorb(nucleus, g)
    <3>1. group' = group /\ nuclei' = nuclei
      BY <2>2, <2>5
    <3>2. Absorbing(group, nucleus, worklist \ {g})
      BY <1>1, <2>3, <2>5, LeaveStep
    <3>3. AtStep("absorb", group, nuclei, nucleus, worklist \ {g})
      BY <2>3, <3>2 DEF AtStep
    <3> QED
      BY <1>1, <2>1, <2>2, <3>1, <3>3, Carried
  <2> QED
    BY <2>4, <2>5
<1>6. CASE Last_Gasp_Candidates
  <2>1. /\ step = "absorb" /\ step' = "gasp" /\ worklist' = Candidates /\ path' = path
        /\ group' = group /\ nuclei' = nuclei /\ nucleus' = nucleus
    BY <1>6 DEF Last_Gasp_Candidates
  <2>2. Shape(group) /\ Descends(group)
    BY <1>1, <2>1 DEF AtStep
  <2>3. Gasping(group, Candidates)
    BY <1>1, <2>2, CandidatesFollowOne DEF Shape
  <2>4. AtStep("gasp", group, nuclei, nucleus, Candidates)
    BY <2>2, <2>3 DEF AtStep
  <2> QED
    BY <1>1, <2>1, <2>4, Carried
<1>7. CASE Last_Gasp_Reduce
  <2>1. /\ step = "gasp" /\ path' = path /\ step' = step
        /\ nuclei' = nuclei /\ nucleus' = nucleus
    BY <1>7 DEF Last_Gasp_Reduce
  <2>2. PICK g \in worklist : \E p \in Preds(group, g) :
          /\ worklist' = worklist \ {g}
          /\ group' = IF Joins_Its_Predecessor(g, p) THEN Merged(g, p) ELSE group
    BY <1>7 DEF Last_Gasp_Reduce
  <2>3. PICK p \in Preds(group, g) :
          /\ worklist' = worklist \ {g}
          /\ group' = IF Joins_Its_Predecessor(g, p) THEN Merged(g, p) ELSE group
    BY <2>2
  <2>4. Shape(group) /\ Descends(group) /\ Gasping(group, worklist)
    BY <1>1, <2>1 DEF AtStep
  <2>5. CASE Joins_Its_Predecessor(g, p)
    <3> DEFINE of == Merged(g, p)
    <3>1. group' = of
      BY <2>3, <2>5
    <3>2. Shape(of) /\ Descends(of) /\ Gasping(of, worklist \ {g})
      BY <1>1, <2>4, <2>5, GaspStep
    <3> HIDE DEF of
    <3>3. AtStep("gasp", of, nuclei, nucleus, worklist \ {g})
      BY <3>2 DEF AtStep
    <3> QED
      BY <1>1, <2>1, <2>3, <3>1, <3>3, Carried
  <2>6. CASE ~Joins_Its_Predecessor(g, p)
    <3>1. group' = group
      BY <2>3, <2>6
    <3>2. Gasping(group, worklist \ {g})
      BY <2>4 DEF Gasping
    <3>3. AtStep("gasp", group, nuclei, nucleus, worklist \ {g})
      BY <2>4, <3>2 DEF AtStep
    <3> QED
      BY <1>1, <2>1, <2>3, <3>1, <3>3, Carried
  <2> QED
    BY <2>5, <2>6
<1>8. CASE Collapse_Pure_Transition_Components
  <2> DEFINE of == [e \in Elements |-> IF group[e] = Gone THEN Gone
                                       ELSE Min(Component(group[e], PureLinks))]
  <2>1. /\ step = "gasp" /\ step' = "done" /\ path' = path /\ group' = of
        /\ nuclei' = nuclei /\ nucleus' = nucleus /\ worklist' = worklist
    BY <1>8 DEF Collapse_Pure_Transition_Components, PureLinks
  <2>2. Shape(group)
    BY <1>1, <2>1 DEF AtStep
  <2>3. Collapsed(of) /\ of = [e \in Elements |-> of[e]]
    BY DEF Collapsed
  <2> HIDE DEF of
  <2>4. Shape(of)
    BY <1>1, <2>2, <2>3, CollapseStep
  <2>5. AtStep("done", of, nuclei, nucleus, worklist)
    BY <2>4 DEF AtStep
  <2> QED
    BY <1>1, <2>1, <2>5, Carried
<1>9. CASE UNCHANGED gvars
  BY <1>1, <1>9, Carried DEF gvars
<1> QED
  BY <1>2, <1>3, <1>4, <1>5, <1>6, <1>7, <1>8, <1>9 DEF GNext

LEMMA GInvMerges == GInv => MergesAreAllowed
<1> SUFFICES ASSUME GInv PROVE MergesAreAllowed
  OBVIOUS
<1>1. path \in Paths /\ AtStep(step, group, nuclei, nucleus, worklist)
  BY DEF GInv
<1>2. ASSUME step = "absorb", NEW g \in NextOf, Can_Potentially_Absorb(nucleus, g)
      PROVE  MergeAllowed(g, nucleus)
  <2>1. Shape(group) /\ Unmixed(group) /\ Absorbing(group, nucleus, worklist)
    BY <1>1, <1>2 DEF AtStep
  <2>2. Joining(g, nucleus) /\ ~Has(group, g, {"delay"})
        /\ ~Confused(g, nucleus) /\ ~Confused(nucleus, g)
    BY <1>1, <1>2, <2>1, AbsorbedAlone
  <2> QED
    BY <2>2 DEF MergeAllowed, Joining
<1>3. ASSUME step = "gasp", NEW g \in worklist
      PROVE  /\ Cardinality(Preds(group, g)) = 1
             /\ \A p \in Preds(group, g) : Joins_Its_Predecessor(g, p) => MergeAllowed(g, p)
  <2>1. Shape(group) /\ Gasping(group, worklist)
    BY <1>1, <1>3 DEF AtStep
  <2>2. PICK q : Preds(group, g) = {q}
    BY <1>3, <2>1 DEF Gasping, FollowsOne
  <2>3. Cardinality(Preds(group, g)) = 1
    BY <2>2, FS_Singleton
  <2>4. ASSUME NEW p \in Preds(group, g), Joins_Its_Predecessor(g, p)
        PROVE  MergeAllowed(g, p)
    <3>1. Joining(g, p) /\ ~Has(group, g, {"delay"})
          /\ ~Confused(g, p) /\ ~Confused(p, g)
      BY <1>1, <1>3, <2>1, <2>4, JoinedAlone
    <3> QED
      BY <3>1 DEF MergeAllowed, Joining
  <2> QED
    BY <2>3, <2>4
<1>4. Uniform(group) /\ GroupType(group)
  BY <1>1, AloneIs DEF AtStep, Shape
<1>5. ASSUME NEW g \in Groups(group)
      PROVE  /\ Cardinality(Functions(group, g)) <= 1
             /\ Members(group, g) \subseteq path.body \/ Members(group, g) \cap path.body = {}
             /\ step = "done" /\ Has(group, g, {"delay"}) =>
                  Cardinality(Preds(group, g)) = 1 /\ MarkedPreds(group, g) = {}
  <2>1. Cardinality(Functions(group, g)) <= 1
    BY <1>1, <1>4, FewFunctions
  <2>2. g # Gone
    BY <1>1, <1>4, GroupsAre
  <2>3. Members(group, g) \subseteq path.body \/ Members(group, g) \cap path.body = {}
    BY <1>4, <2>2 DEF Members, Uniform, Agree
  <2>4. ASSUME step = "done", Has(group, g, {"delay"})
        PROVE  Cardinality(Preds(group, g)) = 1 /\ MarkedPreds(group, g) = {}
    <3>1. Delays(group)
      BY <1>1, <2>4 DEF AtStep, Shape
    <3>2. PICK p : Preds(group, g) = {p} /\ MarkedPreds(group, g) = {}
      BY <2>4, <3>1 DEF Delays, FollowsOne
    <3> QED
      BY <3>2, FS_Singleton
  <2> QED
    BY <2>1, <2>3, <2>4
<1> QED
  BY <1>2, <1>3, <1>5 DEF MergesAreAllowed

(* Whatever the control path, and in whatever order its groups are walked, *)
(* a merge never meets what Merge_Groups and Add_Element assert not to:    *)
(* a group joins its only predecessor, joins and merges stay apart, no     *)
(* group has two functions or two parents, and a delay is left with one    *)
(* predecessor (vcControlPathReduce.cpp:350-364, 1417-1431).               *)
THEOREM Merging == GSpec => []MergesAreAllowed
<1>1. GInit => GInv
  BY GInitGInv
<1>2. GInv /\ [GNext]_gvars => GInv'
  BY StepGInv
<1>3. GInv => MergesAreAllowed
  BY GInvMerges
<1> QED
  BY <1>1, <1>2, <1>3, PTL DEF GSpec
=============================================================================
