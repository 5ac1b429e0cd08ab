------------------------------- MODULE Places -------------------------------
(***************************************************************************)
(* The places of the control path: a counter of tokens that an incoming    *)
(* pulse increments and an outgoing one decrements, both at once leaving   *)
(* it alone.                                                               *)
(***************************************************************************)
EXTENDS Integers

Pulse(b) == IF b THEN 1 ELSE 0

(* place.vhdl: a pulse too many, or one too few, has no effect.            *)
place(tokens, capacity, incoming, outgoing) ==
  CASE outgoing /\ ~incoming /\ tokens > 0        -> tokens - 1
    [] incoming /\ ~outgoing /\ tokens < capacity -> tokens + 1
    [] OTHER                                      -> tokens

flag_kept(tokens, incoming, outgoing) ==
  IF incoming THEN 1 ELSE IF outgoing THEN 0 ELSE tokens

(* place_with_bypass.vhdl: with capacity 1 a flip-flop; otherwise a counter *)
(* that is not limited and wraps at 2 ** its width.  Its token is visible  *)
(* in the cycle of the pulse.                                              *)
flag_with_bypass(tokens, incoming, outgoing) ==
  CASE incoming /\ ~outgoing -> 1
    [] outgoing /\ ~incoming -> 0
    [] OTHER                 -> tokens
count_with_bypass(tokens, range, incoming, outgoing) ==
  (tokens + range + Pulse(incoming) - Pulse(outgoing)) % range
bypass_token(tokens, incoming) == incoming \/ tokens # 0

(* LogWidth (Utilities.vhd:259-281) makes the counter of a place wide enough *)
(* for its capacity: the next power of two above it.                       *)
TokenRange(capacity) ==
  LET wide == {r \in 1 .. 2 * capacity : \E w \in 1 .. capacity : r = 2 ^ w /\ r > capacity}
  IN CHOOSE r \in wide : \A q \in wide : r <= q

place_with_bypass(tokens, capacity, incoming, outgoing) ==
  IF capacity = 1 THEN flag_with_bypass(tokens, incoming, outgoing)
  ELSE count_with_bypass(tokens, TokenRange(capacity), incoming, outgoing)
=============================================================================
