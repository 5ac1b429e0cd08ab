--------------------------- MODULE MCPipeHandler ---------------------------
(***************************************************************************)
(* Small programs over the pipe handler: what main registers, what each    *)
(* thread then calls, and whether reads and writes balance.  A word is a   *)
(* number; 0 is what calloc leaves.                                        *)
(***************************************************************************)
EXTENDS PipeHandler, TLC

CONSTANTS w1, w2, r1, r2

Fifo(name, depth) == NewPipe(name, 8, depth, PIPE_FIFO_MODE, FALSE)
Lifo(name, depth) == NewPipe(name, 8, depth, PIPE_LIFO_MODE, FALSE)

Idle == << >>
ProgramOf(records, calls, isBalanced) ==
  [registered |-> records, balanced |-> isBalanced,
   script |-> [t \in Threads |-> IF t \in DOMAIN calls THEN calls[t] ELSE Idle]]

(* Two writers and two readers on a FIFO of two places.  The bursts are    *)
(* longer than the pipe, so every one of them is split, and the readers    *)
(* ask for more words than there can be at once.                           *)
SharedFifo == ProgramOf(<< Fifo("a", 2) >>,
  (w1 :> << {WriteBurst("a", 8, <<1, 2, 3>>)} >>) @@
  (w2 :> << {WriteBurst("a", 8, <<4, 5>>)} >>) @@
  (r1 :> << {ReadBurst("a", 8, 3)} >>) @@
  (r2 :> << {ReadBurst("a", 8, 1)}, {ReadBurst("a", 8, 1)} >>), TRUE)

(* A stack of two places, a non-blocking FIFO, and a 12-bit signal, which  *)
(* is an array of two bytes and is registered again by a thread that uses  *)
(* it.                                                                     *)
MixedModes == ProgramOf(
  << Lifo("s", 2),
     NewPipe("n", 8, 2, PIPE_FIFO_NON_BLOCK_READ, FALSE),
     NewPipe("g", 8, 2, PIPE_FIFO_MODE, TRUE) >>,
  (w1 :> << {WriteBurst("g", 8, <<1, 2>>), WriteBurst("s", 8, <<1, 2>>)},
            {WriteBurst("n", 8, <<1, 2, 3>>), ReadBurst("s", 8, 1)} >>) @@
  (w2 :> << {RegisterSignal("g", 12), WriteBurst("s", 8, <<4, 5, 6>>)},
            {WriteBurst("g", 8, <<4, 5>>)},
            {WriteBurst("n", 8, <<4>>)} >>) @@
  (r1 :> << {ReadBurst("g", 8, 2), ReadBurst("s", 8, 3), ReadBurst("s", 8, 1)},
            {ReadBurst("n", 8, 2), ReadBurst("n", 8, 1)},
            {ReadBurst("n", 8, 2), ReadBurst("s", 8, 1)} >>), FALSE)

(* Threads register pipes main knows, with the same shape or another one,  *)
(* a pipe and a signal of their own, and use a pipe nobody registered.     *)
Registrations == ProgramOf(<< Fifo("a", 2), Lifo("s", 3) >>,
  (w1 :> << {RegisterPipe("a", 2, 8, 0), RegisterPipe("a", 3, 8, 0),
             RegisterPipe("a", 2, 16, 0), RegisterPipe("s", 3, 8, 0)},
            {WriteBurst("a", 8, <<1, 2>>)} >>) @@
  (w2 :> << {RegisterPipe("b", 0, 8, 0), RegisterSignal("b", 12),
             WriteBurst("c", 8, <<4>>)},
            {RegisterSignal("b", 12), RegisterPipe("c", 1, 8, 0)},
            {RegisterSignal("b", 16), RegisterPipe("s", 3, 8, 1)} >>) @@
  (r1 :> << {ReadBurst("a", 8, 1), ReadBurst("u", 8, 1), ReadBurst("s", 16, 1),
              ShowPipe("s"), ShowPipe("nothing")},
            {RegisterSignal("a", 8), RegisterPipe("u", 1, 8, 0)} >>), FALSE)

(* Nobody registered "u": the writer and the reader both find it missing.  *)
Unregistered == ProgramOf(<< >>,
  (w1 :> << {WriteBurst("u", 8, <<1>>)} >>) @@
  (r1 :> << {ReadBurst("u", 8, 1)} >>), TRUE)

(* A thread prints the value of a FIFO that others use.                    *)
Printing == ProgramOf(<< Fifo("a", 2) >>,
  (w1 :> << {WriteBurst("a", 8, <<1>>)}, {WriteBurst("a", 8, <<2>>)} >>) @@
  (w2 :> << {ReadBurst("a", 8, 2)} >>) @@
  (r1 :> << {ShowPipe("a")} >>), TRUE)

WellUsed    == {SharedFifo, MixedModes, Registrations}
JustStrand  == {Unregistered}
JustPrinted == {Printing}

(* What the theorems ask of a program holds of the well-used ones, and not *)
(* of the one that strands its word or the one that prints a pipe in use.  *)
ASSUME WellUsedAssumption ==
  /\ \A p \in WellUsed : /\ NamesHaveOneOwner(p) /\ BurstsFit(p)
                         /\ WritesNoZero(p) /\ PrintsNothingWritten(p)
  /\ \A p \in JustStrand : ~NamesHaveOneOwner(p)
  /\ \A p \in JustPrinted : ~PrintsNothingWritten(p)
=============================================================================
