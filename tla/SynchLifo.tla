------------------------------ MODULE SynchLifo ------------------------------
(***************************************************************************)
(* SynchLifo.vhd: the stack behind a pipe declared $lifo.  Its top is in   *)
(* bypass_reg after a push and in mem_out_reg after a pop; the array has   *)
(* every word that was pushed, its top included, except for a word that    *)
(* was pushed in the cycle in which another one was popped.                *)
(***************************************************************************)
EXTENDS Integers, Sequences

CONSTANTS QueueDepth, Zero

Stack == 0 .. QueueDepth - 1

InitLifo == [queue_size |-> 0, tos_pointer |-> 0, write_pointer |-> 0,
             select_bypass |-> FALSE, bypass_reg |-> Zero, mem_out_reg |-> Zero,
             queue_array |-> [i \in Stack |-> Zero]]

lifo_push_ack(q) == q.queue_size < QueueDepth
lifo_pop_ack(q)  == q.queue_size > 0
lifo_data_out(q) == IF q.select_bypass THEN q.bypass_reg ELSE q.mem_out_reg

Incr(x) == IF x < QueueDepth - 1 THEN x + 1 ELSE 0

Push(q, data_in) ==
  [q EXCEPT !.write_pointer = Incr(q.write_pointer),
            !.tos_pointer   = IF q.queue_size > 0 THEN Incr(q.tos_pointer) ELSE 0,
            !.queue_size    = q.queue_size + 1,
            !.queue_array[q.write_pointer] = data_in,
            !.select_bypass = TRUE,
            !.bypass_reg    = data_in]

(* The word below the top, which the pop uncovers.                         *)
Below(q) == IF q.tos_pointer > 0 THEN q.queue_array[q.tos_pointer - 1]
            ELSE q.mem_out_reg

Pop(q) ==
  [q EXCEPT !.write_pointer = IF q.write_pointer > 0 THEN q.write_pointer - 1
                              ELSE QueueDepth - 1,
            !.tos_pointer   = IF q.tos_pointer > 0 THEN q.tos_pointer - 1 ELSE 0,
            !.queue_size    = q.queue_size - 1,
            !.select_bypass = FALSE,
            !.mem_out_reg   = Below(q)]

(* The top is replaced in bypass_reg; the array keeps the old one.         *)
Replace(q, data_in) == [q EXCEPT !.select_bypass = TRUE, !.bypass_reg = data_in]

LifoEdge(q, push_req, data_in, pop_req) ==
  LET push == push_req /\ lifo_push_ack(q)
      pop  == pop_req /\ lifo_pop_ack(q)
  IN CASE push /\ pop  -> Replace(q, data_in)
       [] push /\ ~pop -> Push(q, data_in)
       [] pop /\ ~push -> Pop(q)
       [] OTHER        -> q

(* The words the stack stands for, the top last.                           *)
LifoHolds(q) ==
  [k \in 1 .. q.queue_size |->
     IF k = q.queue_size THEN lifo_data_out(q) ELSE q.queue_array[k - 1]]
=============================================================================
