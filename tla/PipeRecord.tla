----------------------------- MODULE PipeRecord -----------------------------
(***************************************************************************)
(* The record the pipe handler keeps for each pipe (pipeHandler.h:49-80)   *)
(* and the macros that move one word through it (pipeHandler.h:125-207).   *)
(* A pipe's buffer is a ring of pipe_depth words; a signal is a record     *)
(* whose buffer is simply overwritten and re-read.                         *)
(***************************************************************************)
EXTENDS Naturals, Sequences

CONSTANTS Word,   \* the words that travel through the pipes
          Zero,   \* the word a calloc-ed buffer holds
          Name    \* the names pipes may have

ASSUME ZeroIsAWord == Zero \in Word
ASSUME NameAssumption == Name # {}

PIPE_FIFO_MODE           == 0
PIPE_LIFO_MODE           == 1
PIPE_FIFO_NON_BLOCK_READ == 2

(* What register_pipe and register_signal allocate (calloc: all zero). *)
NewPipe(name, width, depth, mode, is_signal) ==
  [ pipe_name         |-> name,
    pipe_width        |-> width,
    pipe_depth        |-> depth,
    pipe_mode         |-> mode,
    is_signal         |-> is_signal,
    read_pointer      |-> 0,
    write_pointer     |-> 0,
    number_of_entries |-> 0,
    buffer            |-> [i \in 0 .. depth - 1 |-> Zero] ]

(* Every field has its type; the buffer has pipe_depth places.             *)
WellFormed(p) ==
  p \in [ pipe_name : Name, pipe_width : Nat, pipe_depth : Nat \ {0},
          pipe_mode : Nat, is_signal : BOOLEAN,
          read_pointer : 0 .. p.pipe_depth - 1, write_pointer : 0 .. p.pipe_depth - 1,
          number_of_entries : 0 .. p.pipe_depth,
          buffer : [0 .. p.pipe_depth - 1 -> Word] ]

is_lifo_mode(p) == p.pipe_mode = PIPE_LIFO_MODE

INCR_past_the_end(x, p) == x + 1

INCR(x, p) == IF x = p.pipe_depth - 1 THEN 0 ELSE x + 1
DECR(x, p) == IF x = 0 THEN p.pipe_depth - 1 ELSE x - 1

(* Room for words to be written; a signal is never full.                   *)
AVAILABLE(p) ==
  IF p.is_signal THEN p.pipe_depth ELSE p.pipe_depth - p.number_of_entries

Readable_one_word(p) == IF p.is_signal THEN 1 ELSE p.number_of_entries

(* Words that a read of n words can have at once (read_from_pipe_base).    *)
Readable(p) == IF p.is_signal THEN p.pipe_depth ELSE p.number_of_entries

PopWord_at_write_pointer(p) ==
  IF p.is_signal THEN p.buffer[0] ELSE p.buffer[p.write_pointer]

(* The word the next POP copies out. *)
PopWord(p) == IF p.is_signal THEN p.buffer[0] ELSE p.buffer[p.read_pointer]

POP_moves_one_pointer(p) ==
  IF p.is_signal \/ p.number_of_entries = 0 THEN p
  ELSE [p EXCEPT !.read_pointer = IF is_lifo_mode(p) THEN DECR(p.read_pointer, p)
                                  ELSE INCR(p.read_pointer, p)]

POP(p) ==
  IF p.is_signal \/ p.number_of_entries = 0 THEN p
  ELSE IF is_lifo_mode(p)
       THEN [p EXCEPT !.write_pointer = p.read_pointer,
                      !.read_pointer = DECR(p.read_pointer, p),
                      !.number_of_entries = p.number_of_entries - 1]
       ELSE [p EXCEPT !.read_pointer = INCR(p.read_pointer, p),
                      !.number_of_entries = p.number_of_entries - 1]

(* The peek of pipe_value_to_string: it pops, then puts the pointers back; *)
(* the write pointer is given the old READ pointer (pipeHandler.h:166).    *)
POPANDRESTORE(p) == [p EXCEPT !.write_pointer = p.read_pointer]

PUSH(p, w) ==
  IF p.is_signal THEN [p EXCEPT !.buffer[0] = w]
  ELSE IF p.number_of_entries >= p.pipe_depth THEN p
  ELSE [p EXCEPT !.number_of_entries = p.number_of_entries + 1,
                 !.buffer[p.write_pointer] = w,
                 !.read_pointer = IF is_lifo_mode(p) THEN p.write_pointer
                                                     ELSE p.read_pointer,
                 !.write_pointer = INCR(p.write_pointer, p)]

(* The words a pipe holds, oldest first: from the read pointer around the  *)
(* ring, or from the bottom of the stack.                                  *)
Slot(p, k) == IF is_lifo_mode(p) THEN k
              ELSE IF p.read_pointer + k < p.pipe_depth
                   THEN p.read_pointer + k
                   ELSE p.read_pointer + k - p.pipe_depth
Contents(p) == [k \in 1 .. p.number_of_entries |-> p.buffer[Slot(p, k - 1)]]
=============================================================================
