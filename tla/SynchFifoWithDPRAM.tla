------------------------- MODULE SynchFifoWithDPRAM -------------------------
(***************************************************************************)
(* SynchFifoWithDPRAM.vhd: the queue of a deep pipe or unload buffer.      *)
(* The words are in a dual-port memory, whose output comes a cycle after   *)
(* its address.  A read FSM keeps one word at the output: Idle when there  *)
(* is none, Valid while the memory shows it, WaitPop when it is in         *)
(* read_data_reg, where a word can also go straight from data_in.          *)
(*                                                                         *)
(* The state is a record, and an edge of the clock a function of it, so    *)
(* that a module that contains the queue says when it is clocked.          *)
(***************************************************************************)
EXTENDS Integers, Sequences

CONSTANTS QueueDepth, Zero

Ring == 0 .. QueueDepth - 1

InitFifo == [read_pointer |-> 0, write_pointer |-> 0, queue_size |-> 0,
             read_state |-> "Idle", read_data |-> Zero, read_data_reg |-> Zero,
             dpram |-> [i \in Ring |-> Zero]]

Incr(x) == IF x < QueueDepth - 1 THEN x + 1 ELSE 0

fifo_push_ack(q) == q.queue_size < QueueDepth
fifo_pop_ack(q)  == q.read_state # "Idle"
fifo_data_out(q) == IF q.read_state = "Valid" THEN q.read_data ELSE q.read_data_reg

(* The output is free: there is no word there, or it is being popped.      *)
OutputFree(q, pop_req) == q.read_state = "Idle" \/ pop_req

read_from_dpram(q, pop_req) == OutputFree(q, pop_req) /\ q.queue_size > 0

(* A word goes straight to read_data_reg when there is none before it.     *)
ready_for_bypass(q, push_req, pop_req) ==
  OutputFree(q, pop_req) /\ q.queue_size = 0 /\ push_req

write_to_dpram(q, push_req, pop_req) ==
  push_req /\ fifo_push_ack(q) /\ ~ready_for_bypass(q, push_req, pop_req)

next_read_state(q, push_req, pop_req) ==
  CASE read_from_dpram(q, pop_req)            -> "Valid"
    [] ready_for_bypass(q, push_req, pop_req) -> "WaitPop"
    [] ~OutputFree(q, pop_req)                -> "WaitPop"
    [] OTHER                                  -> "Idle"

(* read_data_reg takes the bypassed word, or what the memory shows when    *)
(* nobody pops it.                                                         *)
next_read_data_reg(q, push_req, data_in, pop_req) ==
  CASE ready_for_bypass(q, push_req, pop_req)  -> data_in
    [] q.read_state = "Valid" /\ ~pop_req      -> q.read_data
    [] OTHER                                   -> q.read_data_reg

FifoEdge(q, push_req, data_in, pop_req) ==
  LET write == write_to_dpram(q, push_req, pop_req)
      read  == read_from_dpram(q, pop_req)
      Count(b) == IF b THEN 1 ELSE 0
  IN [read_pointer  |-> IF read THEN Incr(q.read_pointer) ELSE q.read_pointer,
      write_pointer |-> IF write THEN Incr(q.write_pointer) ELSE q.write_pointer,
      queue_size    |-> q.queue_size + Count(write) - Count(read),
      read_state    |-> next_read_state(q, push_req, pop_req),
      read_data     |-> IF read THEN q.dpram[q.read_pointer] ELSE q.read_data,
      read_data_reg |-> next_read_data_reg(q, push_req, data_in, pop_req),
      dpram         |-> IF write THEN [q.dpram EXCEPT ![q.write_pointer] = data_in]
                        ELSE q.dpram]

(* The words it holds: the one at the output, then those in the memory.    *)
Around(x) == IF x < QueueDepth THEN x ELSE x - QueueDepth
AtOutput(q) == IF q.read_state = "Idle" THEN <<>> ELSE <<fifo_data_out(q)>>
InMemory(q) == [k \in 1 .. q.queue_size |-> q.dpram[Around(q.read_pointer + k - 1)]]
FifoHolds(q) == AtOutput(q) \o InMemory(q)
=============================================================================
