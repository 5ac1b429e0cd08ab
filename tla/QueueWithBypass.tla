--------------------------- MODULE QueueWithBypass ---------------------------
(***************************************************************************)
(* QueueWithBypass.vhd: a QueueBaseWithEmptyFull (without reverse bypass)  *)
(* around which a word may go straight from data_in to data_out while the  *)
(* queue is empty and somebody pops.                                       *)
(***************************************************************************)
EXTENDS QueueBase

ASSUME NotReversed == ~ReverseBypass

bypass_active(pop_req) == empty /\ pop_req

bypass_push_ack           == ~full
bypass_pop_ack(push_req)  == IF empty THEN push_req ELSE pop_ack(push_req)
bypass_data_out(data_in)  == IF empty THEN data_in ELSE data_out(data_in)

qpush_req_always(push_req, pop_req) == push_req

(* What reaches the queue inside.                                          *)
qpush_req(push_req, pop_req) == push_req /\ ~bypass_active(pop_req)
qpop_req(pop_req)            == pop_req /\ ~empty

BypassClock(push_req, data_in, pop_req) ==
  LET qpush == qpush_req(push_req, pop_req)
      qpop  == qpop_req(pop_req)
  IN Clock(push(qpush, qpop), pop(qpush, qpop), data_in)
=============================================================================
