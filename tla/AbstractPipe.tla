---------------------------- MODULE AbstractPipe ----------------------------
(***************************************************************************)
(* What a pipe promises, whoever implements it: the software pipe handler  *)
(* (PipeHandler) or the clocked queues of the generated hardware           *)
(* (QueueBase).  A pipe holds at most Depth words.  In one step it may     *)
(* take one word in (put), hand one word out (got), or both at once; the   *)
(* word handed out is the oldest one held, or the newest one when the pipe *)
(* is a LIFO.  Nothing is lost, duplicated or invented.                    *)
(***************************************************************************)
EXTENDS Naturals, Sequences

CONSTANTS Depth,   \* the number of words the pipe can hold
          Word,    \* the words that travel through it
          Lifo     \* TRUE: last in, first out

VARIABLES contents,  \* the words held, oldest first
          put,       \* the word taken in by the last step, or <<>>
          got        \* the word handed out by the last step, or <<>>

vars == <<contents, put, got>>

Init == contents = <<>> /\ put = <<>> /\ got = <<>>

Oldest(s) == SubSeq(s, 1, 1)
Newest(s) == SubSeq(s, Len(s), Len(s))
Rest(s)   == IF Lifo THEN SubSeq(s, 1, Len(s) - 1) ELSE SubSeq(s, 2, Len(s))

Idle == put' = <<>> /\ got' = <<>> /\ UNCHANGED contents

Put(w) ==
  /\ Len(contents) < Depth
  /\ contents' = Append(contents, w)
  /\ put' = <<w>>
  /\ got' = <<>>

Get ==
  /\ contents # <<>>
  /\ got' = IF Lifo THEN Newest(contents) ELSE Oldest(contents)
  /\ contents' = Rest(contents)
  /\ put' = <<>>

(* A clocked queue takes a word and hands another one out in one cycle. *)
PutAndGet(w) ==
  /\ contents # <<>>
  /\ got' = IF Lifo THEN Newest(contents) ELSE Oldest(contents)
  /\ contents' = Append(Rest(contents), w)
  /\ put' = <<w>>

(* A queue of depth 0, or one with a bypass, lets a word straight through. *)
PassThrough(w) ==
  /\ contents = <<>>
  /\ put' = <<w>>
  /\ got' = <<w>>
  /\ UNCHANGED contents

Next ==
  \/ Idle
  \/ Get
  \/ \E w \in Word : Put(w) \/ PutAndGet(w) \/ PassThrough(w)

Spec == Init /\ [][Next]_vars
=============================================================================
