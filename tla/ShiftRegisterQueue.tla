------------------------- MODULE ShiftRegisterQueue -------------------------
(***************************************************************************)
(* ShiftRegisterQueue.vhd: a deep pipe spread over a chain of queues of    *)
(* two places, each of which hands its oldest word on to the next one.     *)
(* A QueueBase of two places is an AbstractPipe (QueueBase_proof), so that *)
(* a stage is the sequence of the words it holds.  mem_shift_repeater.vhd, *)
(* in front of each port of a memory, is the same chain of g_number_of_-   *)
(* stages queues.                                                          *)
(***************************************************************************)
EXTENDS Integers, Sequences

CONSTANT n_stages

StageDepth == 2

InitStages == [i \in 1 .. n_stages |-> <<>>]

(* Does stage i acknowledge a push, and does it have a word to pop?        *)
stage_push_ack(s, i) == Len(s[i]) < StageDepth
stage_pop_ack(s, i)  == s[i] # <<>>

(* Who takes a word of stage i: the next stage, or the popper.             *)
taken(s, i, pop_req) ==
  stage_pop_ack(s, i) /\ IF i = n_stages THEN pop_req ELSE stage_push_ack(s, i + 1)

next_stage(s, i, push_req, data_in, pop_req) ==
  LET out == IF taken(s, i, pop_req) THEN Tail(s[i]) ELSE s[i] IN
  CASE i = 1 /\ push_req /\ stage_push_ack(s, 1) -> Append(out, data_in)
    [] i > 1 /\ taken(s, i - 1, pop_req)         -> Append(out, Head(s[i - 1]))
    [] OTHER                                     -> out

StagesEdge(s, push_req, data_in, pop_req) ==
  [i \in 1 .. n_stages |-> next_stage(s, i, push_req, data_in, pop_req)]

stages_push_ack(s) == stage_push_ack(s, 1)
stages_pop_ack(s)  == stage_pop_ack(s, n_stages)
stages_data_out(s) == s[n_stages][1]

(* The words of the chain, oldest first: those of the first i stages come  *)
(* after those of the next one.                                            *)
FirstStagesHold(s) ==
  LET words[i \in 0 .. n_stages] == IF i = 0 THEN <<>> ELSE s[i] \o words[i - 1]
  IN  words
StagesHold(s) == FirstStagesHold(s)[n_stages]
=============================================================================
