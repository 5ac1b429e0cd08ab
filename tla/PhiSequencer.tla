---------------------------- MODULE PhiSequencer ----------------------------
(***************************************************************************)
(* A phi statement of a pipelined loop: the variable takes its value from  *)
(* one of several sources, according to how the iteration was triggered    *)
(* (source 0 on entry, the others on the back edge).  phi_sequencer_v2.vhdl *)
(* sends each iteration's sample and update requests to the triggered      *)
(* source through two conditional forks, and PhiBase.vhd selects the value *)
(* of the source that has completed its update.                            *)
(*                                                                         *)
(* The control path around it is the one Aa2VC generates                   *)
(* (AaStatementWriteVCOptimized.cpp:1741-1823, AaStatement.cpp:6200-6250): *)
(* a sample request waits for the last sample and the last update to be    *)
(* complete, an update request for the last update.  A request may come    *)
(* before or after its trigger, and the triggers come from the loop        *)
(* (PipelinedLoop).  A step is one rising edge of the clock.               *)
(***************************************************************************)
EXTENDS Places, FiniteSets

CONSTANTS place_capacity, ntriggers

ASSUME SequencerAssumption ==
  place_capacity \in Nat \ {0} /\ ntriggers \in Nat \ {0}
ASSUME CounterAssumption ==
  TokenRange(place_capacity) \in Nat /\ TokenRange(place_capacity) > place_capacity

Sources == 0 .. ntriggers - 1

VARIABLES
  sample_trigs, sample_req,  \* the places of trigForkSample
  update_trigs, update_req,  \* the places of trigForkUpdate
  req_registered, ack,       \* the registers of PhiBase
  sampling, sampled,         \* sources at work on their inputs, or done
  updating,                  \* sources asked for their result
  sct, uct_sample, uct_update,  \* the marked places of the control path
  awaiting,                  \* the iteration has not got its value
  turn                       \* the source its trigger stands for

forks   == <<sample_trigs, sample_req, update_trigs, update_req>>
sources == <<sampling, sampled, updating>>
control == <<sct, uct_sample, uct_update, awaiting, turn>>
phi     == <<forks, req_registered, ack, sources, control>>

PhiInit ==
  /\ sample_trigs = [i \in Sources |-> 0] /\ sample_req = 0
  /\ update_trigs = [i \in Sources |-> 0] /\ update_req = 0
  /\ req_registered = {} /\ ack = FALSE
  /\ sampling = {} /\ sampled = {} /\ updating = {}
  /\ sct = 1 /\ uct_sample = 1 /\ uct_update = 1
  /\ awaiting = FALSE /\ turn = 0

----------------------------------------------------------------------------
(* conditional_fork: a request goes to every source whose trigger waits.   *)
out_transitions(trig_places, in_place, triggers, in_transition) ==
  {i \in Sources : /\ bypass_token(trig_places[i], i \in triggers)
                   /\ bypass_token(in_place, in_transition)}

next_trig_places_kept(trig_places, triggers, starts) ==
  [i \in Sources |-> IF i \in triggers THEN 1 ELSE trig_places[i]]

next_trig_places(trig_places, triggers, starts) ==
  [i \in Sources |-> place_with_bypass(trig_places[i], place_capacity,
                                       i \in triggers, i \in starts)]

next_in_place_forgotten(in_place, in_transition, starts) == 0

next_in_place(in_place, in_transition, starts) ==
  place_with_bypass(in_place, place_capacity, in_transition, starts # {})

src_sample_starts(triggers, phi_sample_req) ==
  out_transitions(sample_trigs, sample_req, triggers, phi_sample_req)
src_update_starts(triggers, phi_update_req) ==
  out_transitions(update_trigs, update_req, triggers, phi_update_req)

Sequence(triggers, phi_sample_req, phi_update_req) ==
  LET samples == src_sample_starts(triggers, phi_sample_req)
      updates == src_update_starts(triggers, phi_update_req) IN
    /\ sample_trigs' = next_trig_places(sample_trigs, triggers, samples)
    /\ sample_req' = next_in_place(sample_req, phi_sample_req, samples)
    /\ update_trigs' = next_trig_places(update_trigs, triggers, updates)
    /\ update_req' = next_in_place(update_req, phi_update_req, updates)

Select_both(completes) ==
  /\ req_registered' = req_registered \union completes
  /\ ack' = (completes # {})

(* PhiBase, without its bypass: the mux is set by the completed update and *)
(* acknowledges in the next cycle.                                         *)
Select(completes) ==
  /\ req_registered' = IF completes # {} THEN completes ELSE req_registered
  /\ ack' = (completes # {})

----------------------------------------------------------------------------
(* The sources, and the control path around the phi.                       *)

phi_update_ack == ack

(* A source may sample in the cycle in which it is started; its result     *)
(* takes at least a cycle, and comes after its sample.                     *)
CanSample(starts) == SUBSET (sampling \union starts)
CanUpdate(samples) == SUBSET (updating \intersect (sampled \union samples))

Work(starts, samples, update_starts, completes) ==
  /\ sampling' = (sampling \union starts) \ samples
  /\ sampled' = (sampled \union samples) \ completes
  /\ updating' = (updating \union update_starts) \ completes

CanRequestSample == sct > 0 /\ bypass_token(uct_sample, phi_update_ack)
CanRequestUpdate == bypass_token(uct_update, phi_update_ack)

ControlPath(triggers, phi_sample_req, phi_update_req, phi_sample_ack) ==
  /\ sct' = place(sct, place_capacity, phi_sample_ack, phi_sample_req)
  /\ uct_sample' = place_with_bypass(uct_sample, place_capacity,
                                     phi_update_ack, phi_sample_req)
  /\ uct_update' = place_with_bypass(uct_update, place_capacity,
                                     phi_update_ack, phi_update_req)
  /\ awaiting' = (triggers # {} \/ (awaiting /\ ~phi_update_ack))
  /\ turn' = IF triggers # {} THEN CHOOSE i \in triggers : TRUE ELSE turn

PhiTick(triggers, phi_sample_req, phi_update_req, samples, completes) ==
  LET starts == src_sample_starts(triggers, phi_sample_req) IN
    /\ phi_sample_req => CanRequestSample
    /\ phi_update_req => CanRequestUpdate
    /\ samples \in CanSample(starts)
    /\ completes \in CanUpdate(samples)
    /\ Sequence(triggers, phi_sample_req, phi_update_req)
    /\ Select(completes)
    /\ Work(starts, samples, src_update_starts(triggers, phi_update_req), completes)
    /\ ControlPath(triggers, phi_sample_req, phi_update_req, samples # {})

----------------------------------------------------------------------------
PhiTypeOK ==
  /\ \A i \in Sources : /\ sample_trigs[i] \in 0 .. place_capacity
                        /\ update_trigs[i] \in 0 .. place_capacity
  /\ sample_req \in 0 .. place_capacity /\ update_req \in 0 .. place_capacity
  /\ UNION {req_registered, sampling, sampled, updating} \subseteq Sources
  /\ {ack, awaiting} \subseteq BOOLEAN
  /\ {sct, uct_sample, uct_update} \subseteq 0 .. place_capacity
  /\ turn \in Sources

(* A request starts one source, the one whose turn it is: two triggers     *)
(* that wait together would both be taken by it, and the second iteration  *)
(* would find nothing (conditional_fork.vhdl:86-93; "multiple triggers     *)
(* should never be active", phi_sequencer_v2.vhdl:87).                     *)
OneSourceAtATime ==
  /\ sampling \union sampled \union updating \subseteq {turn}
  /\ sampling \intersect sampled = {}

(* The value the phi hands on is the one of the iteration's own source,    *)
(* though the select comes from whichever source completes                 *)
(* (phi_sequencer_v2.vhdl:137-144).                                        *)
RightSource == ack => req_registered = {turn}
=============================================================================
