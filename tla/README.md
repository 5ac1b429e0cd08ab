# A verification development for AHIR

AHIR compiles C programs to hardware: C → LLVM → Aa (a language of concurrent
modules and pipes) → vC (control path + data path) → VHDL. What a compiled
program *does* rests on three run-time libraries, and these are what this
directory models, model-checks and proves about:

* the **software runtime** `v2/pipeHandler`, on which the program runs as
  threads that exchange words through pipes and signals;
* the **hardware library** `vhdl/ahir`, from which the generated VHDL is built:
  queues, pipes, arbiters, buffers, shared operators, memories, and the places
  and controllers of the control path;
* the **bridge** `v2/CtestBench`, through which the threads of a C test-bench
  drive the hardware in a simulator.

The compilers themselves are sequential translators. They appear here as the
source of the control paths, the generics and the test benches that surround
the libraries' components. Two of their algorithms are modelled for their own
sake: what the **vC library** does to control paths before it prints them, where
the result depends on the order of searches and of sets of pointers.

## 1. Inventory

| Component | State it keeps | Operations | Interacts through | What is hard about it | What makes it correct |
|---|---|---|---|---|---|
| Pipe handler (`pipeHandler.c/.h`, `Pipes.c`) | list of records: ring, two pointers, count, mode; a mutex for the list and one per record | register pipe / signal, burst read, burst write, print a value | calls from the program's threads | look-ups, registration and moving words are separate critical sections; bursts are split and retried | a pipe is a FIFO (LIFO); requests do not mix; a signal is one value; registration is honoured; bursts end |
| Queues (`QueueBase*.vhd`, `QueueEmptyFullLogic.vhd`, `QueueWithBypass.vhd`) | array, two pointers, a three-state machine without a counter | push and pop, possibly in the same cycle | request/acknowledge levels | telling empty from full; reverse bypass; bypass; depths 0, 1 and non-powers of two | refinement of an abstract pipe |
| Deep FIFO, stack, chain (`SynchFifoWithDPRAM.vhd`, `SynchLifo.vhd`, `ShiftRegisterQueue.vhd`) | dual-port memory, pointers, count, output register and its FSM; memory with a bypass register; small queues in a row | push and pop | as queues | the memory answers a cycle late; bypass of the memory; push and pop at once on a stack | refinement of an abstract pipe |
| Pipes and ports (`PipeBase.vhd`, `OutputPortLevel.vhd`, `InputPortLevel.vhd`) | one of the above, the writers' arbiter | write, read | many writers and readers | arbitration while the queue refuses | to its ports a pipe is a FIFO or stack; writers make progress |
| `NobodyLeftBehind.vhd` | the requests left over from a round | arbitrate | the requesters above, a shared resource below | fixed priority must not starve | bounded overtaking; no starvation |
| Places (`place.vhdl`, `place_with_bypass.vhdl`), joins, access regulators | token counts | a pulse in, a pulse out; regulate | control path | saturation, wrap, same-cycle in and out | no pulse is lost; no more requests than slots |
| `loop_terminator.vhdl` | free-iteration counter, three places | loop back, exit | branch, loop body | overlapping iterations, early exit, reset of the counter | the counter is right; bounded overlap; clean exit; answers are heeded |
| `phi_sequencer_v2.vhdl`, `conditional_fork.vhdl`, `PhiBase.vhd` | places of triggers and requests, mux register | trigger, sample, update | control path, source operators | any order of trigger and requests | right source, once per iteration, and at last |
| `SplitCallArbiter.vhd` | call register, one return register per caller | call, return | callers, one shared pipelined module | tags, back-pressure, several calls per caller | each caller sees a FIFO of its own; calls return |
| Unload buffers (`UnloadBuffer*.vhd`, `UnloadRegister.vhd`, `UnloadFsm*.vhd`) | a queue, a register or state machine behind it | write (level), unload (pulse) | every operator's output and input | protocol conversion; the word and the pulse in any order; non-blocking reads | words once and in order; data held still; every pulse answered |
| Shared operators (`SplitOperatorShared.vhd`, `InputMuxWithBuffering`, `OutputDemuxBaseWithBuffering`, `ReceiveBuffer`, `access_regulator_base`) | receive buffers, arbiter, unload buffers, regulators | hand over operands, take a result | operations of the control path | tags, head-of-line blocking | each operation sees an operator of its own; every operation completes |
| Memory subsystem (`memory_subsystem/`) | array, request queues, repeaters, time-stamp counter; or registers | load, store | load/store ports of the modules | loads and stores wait in different queues, ordered only by stamps | an access takes effect when it is accepted; every access completes |
| Test-bench bridge (`SocketLib.c`, `SockPipes.c`, `Vhpi.c`, the processes that `vcSystem.cpp` prints) | sockets, lists of new, active and finished jobs, signals of each pipe and module | connect, send, accept, promote, acknowledge, answer | test-bench threads ↔ simulator | many threads, one simulator thread, several requests for one name, bursts over many cycles | requests for one name are served whole and in order; everybody gets its answer |
| vC library (`vcControlPath.cpp`, `vcControlPathReduce.cpp`) | elements, arcs and marked (reenable) arcs of a control path; a partition of its elements into groups | remove redundant arcs; delete dead groups, absorb, merge, collapse | files; what it prints instantiates the components above | each removal and merge is justified by what is still there, and they come in no fixed order | no dependency is lost; the reduced control path fires what the written one does |
| Aa compiler, rest of the vC library, LLVM front end, HierSysBuild, BitVectors | syntax trees, data path | translate | files | size, not concurrency | not modelled (see section 8) |

## 2. The modules

```
AbstractPipe ◄── refined by: PipeHandler (per pipe), QueueBase, PipeBase, UnloadBuffer,
                 SplitOperatorShared (per operation), SplitCallArbiter (per caller)
AbstractMemory ◄── refined by: MemorySubsystem, RegisterBank (through MemoryPorts)
AbstractBridge ◄── refined by: VhpiBridge

PipeRecord ──► PipeHandler ──► MCPipeHandler
                  └──► PipeHandler_proof
QueueBase ──► QueueWithBypass ──► PipeBase ──► MCPipes
   │             SynchFifoWithDPRAM, SynchLifo, ShiftRegisterQueue ──┘ │
   └──► QueueBase_proof  (with PipeBase, PipeSteps ──► PipeBase_proof) │
Arbitration ───────────────────────────────────────────────────────────┘
   ├──► NobodyLeftBehind, SplitCallArbiter (──► MCArbiters)
   └──► SplitOperatorShared
        (these three with PipeSteps ──► SharedModules_proof)
PipeSteps: lemmas about sequences and about the steps of an AbstractPipe
SynchFifoWithDPRAM ──► UnloadBuffer      (with SplitOperatorShared ──► MCBuffers)
                           └──► (with PipeSteps) UnloadBuffer_proof
Places ──► LoopTerminator
   ├─────► PhiSequencer      (with LoopTerminator ──► PipelinedLoop)
   └─────► SplitOperatorShared
PipelinedLoop, ForkBlock, GroupReduction ──► MCControlPath
   └─────► ControlPath_proof
MemoryPorts ──► MemorySubsystem, RegisterBank ──► MCMemory, Memory_proof
VhpiBridge ──► MCVhpiBridge
```

### The promises

**AbstractPipe** is what every pipe promises: at most `Depth` words; a step takes
one word in, hands one out, or both; the word handed out is the oldest (LIFO:
the newest). A refinement shows that nothing is lost, duplicated, reordered or
invented. **AbstractMemory** is an account: an access takes effect in the cycle
in which its request is accepted; an open load keeps the set of words it may
return (one word, or two or more when stores to that address were accepted in
the same cycle); completions of a port come in order. **AbstractBridge** keeps a
line of requests per pipe and module and serves it word by word at its head.

### The software runtime

**PipeRecord** is `PipeRec` and the macros of `pipeHandler.h`: one operator per
macro. A word is a number; its width appears only where the code compares it.
**PipeHandler** has one action per critical section: `Call` (a thread makes the
next call of its script), `Register`/`Insert` (the look-up and the addition,
between which the code holds no lock), `Find`/`Refind` (the look-ups of a
request, with the registration of an unregistered pipe in between), `Look`
(`pipe_value_to_string`), `Lock` (decides how many words are granted),
`MoveWord` (one iteration of the loop that pops or pushes), `Unlock`. One step
per word, rather than one per request, keeps the mutex part of what is checked.
`READ_BURST__`/`WRITE_BURST__` is the way back from `Unlock` to `Find`. The list
grows at its head in the code and at the end of the sequence `pipes` here;
`FindPipe` takes the last match.

### Queues and pipes

Every clocked module is one step per rising edge; the combinational outputs
(`push_ack`, `pop_ack`, `data_out`, ...) are operators of the requests, as in the
VHDL. **QueueBase**: `ReverseBypass = FALSE` is `QueueBase.vhd`, either value is
`QueueBaseWithEmptyFull.vhd`; the depth-1 register is the ring of one place, its
`full_flag` the state `EMPTY`/`FULL`. **QueueWithBypass** adds the wires around
it. **SynchFifoWithDPRAM**, **SynchLifo** and **ShiftRegisterQueue** are records
and functions from a state to the next, so that the module that contains such a
queue says when it is clocked. **PipeBase** chooses one of them by its generics,
as the generate statements do, and connects it with **Arbitration** (the logic
of `NobodyLeftBehind.vhd` and of `PriorityEncode`) to ports that hold a request
and its word until acknowledged. **NobodyLeftBehind** is the arbiter alone, over
a resource that may refuse for any number of cycles, with a history of how often
a chosen victim is overtaken.

### Control path

**Places** has the two kinds of place as next-state operators (`place.vhdl`
saturates; `place_with_bypass.vhdl` is a flip-flop for capacity 1 and an
unprotected counter otherwise). **LoopTerminator** is the terminator, and the
loop as far as the terminator can see it: bodies that end (`loop_body_exit`), a
branch that answers (`loop_continue`, `loop_terminate`) at least a cycle after
the iteration began (`loop_body_delay_to_condition_start` in
`AaStatement.cpp:6328`), an outer control path that enters the loop again when it
has been left. **PhiSequencer** is the sequencer with its two forks and the mux,
under the control path that Aa2VC generates. **PipelinedLoop** composes the two
as `AaStatement.cpp:6150-6383` does: the entry of the loop triggers the first
source of the phi, `loop_back` the second; the branch is evaluated after the
phi (`condition_evaluated`), and a body ends after its phi. What PhiSequencer
alone would have to assume of its triggers (one iteration at a time) is here a
consequence of the composition.

**ForkBlock** is the clean-up of a fork block (`vcControlPath.cpp:2380-2573`,
`3037-3182`), one action per pass: the arcs a depth-first search found redundant
(any subset: what it finds depends on the order of successors), the reenable arcs
that another one to the same transition implies, one reenable arc per transition
that another one from it implies, and the arcs a longer path implies. The last
loop goes on to the next index while the vector shrinks under it, so the
successor after each removed one is not looked at (`Overlooks`).

**GroupReduction** is `Reduce_CPElement_Group_Graph`. A partition of the elements
is a map from elements to the name of their group; the arcs between groups are
those between their elements (which is what `Connect_Groups` and `Merge_Groups`
maintain). The actions are the steps of the code: dead groups go; each nucleus
searches what follows it alone and absorbs it, predecessors first; groups that
are left over join their only predecessor; trees of pure transitions collapse.
`Fired` is the meaning of a control path, read off `Print_VHDL`: how often each
group fires, given how often each acknowledgement, and each transition a phi
sequencer or loop terminator drives, came.

### Operators

**SplitCallArbiter** is the arbiter with several requesters; the called module
is external: it takes calls when it has room, keeps the tags in order and offers
its returns when it likes. **UnloadBuffer** has one variable `entity`, which the
generics decide at the start: `Elaborated` is the generate statements, and the
operators by case on `form` are the five architectures. **SplitOperatorShared**
is an operator behind access regulators, receive buffers, the fair mux and the
demux with its unload buffers; the operations hold their protocol (a pulse
follows the answer to the one before). Shallow queues inside these two, which
are `QueueBaseWithEmptyFull`, are sequences: `QueueBase_proof` shows that such a
queue is an `AbstractPipe`.

### Memory

**MemoryPorts** is the requesters (a request is held until accepted) and the
account of AbstractMemory. **MemorySubsystem** is the core (selection of the
load and the store with the smallest stamp, the queues `lrr` and `srr`), the
bank that performs the older of their heads and holds the result until it is
taken, and the ports of either subsystem: with repeaters
(`ordered_memory_subsystem.vhd`, stages 1) or without (`memory_subsystem.vhd`,
stages 0). **RegisterBank** is what small memory spaces become: every load in
one cycle, and of the stores to one register the lowest index.

### The bridge

**VhpiBridge**: `Connect` and `Send` are the threads
(`send_packet_and_wait_for_response`); `Accept`, `Receive`, `Vhpi_Send`,
`ReadPorts` (all processes' `Vhpi_Get_Port_Value`) and `Clock`
(`Vhpi_Set_Port_Value`) are the single thread of the simulator, in the order of
its clock. A socket may refuse an answer in any cycle (`can_write_to_socket`).
The simulated hardware is external: pipes acknowledge when they like, a module
returns its argument when it likes.

## 3. The runs

| Run | Module | States | What it shows |
|---|---|---|---|
| `ph_programs` | MCPipeHandler | 156 138 | three programs: two writers and two readers with bursts longer than the FIFO; a stack, a non-blocking FIFO and a two-word signal; registrations that agree or conflict, and unregistered pipes |
| `ph_strand`, `ph_show` | MCPipeHandler | – | two disagreements (section 6) |
| `queue` | QueueBase | 1 215 | ring of depth 3 with reverse bypass |
| `pipes` | MCPipes | 85 748 | six pipes: wires (depth 0), bypass (2 writers, 2 readers), one register (3 writers), deep memory, chain of queues, stack used in turns |
| `stack` | PipeBase | – | a disagreement (section 6) |
| `arbiters` | MCArbiters | 85 440 | three requesters behind the fair arbiter; a call arbiter with two callers |
| `control_path` | MCControlPath | 144 699 | the loop with a phi; every fork block of four transitions; the reduction of small control paths |
| `buffers` | MCBuffers | 161 842 | unload buffers of every form; a shared operator with two operations |
| `memory` | MCMemory | 234 968 | `memory_subsystem` with one load and one store port, `ordered_memory_subsystem` with two load ports, `register_bank` with two store ports; stamps that are compared tell the order |
| `bridge` | MCVhpiBridge | 63 131 | two threads, a pipe each way, a module |
| `bridge_long` | MCVhpiBridge | – | a disagreement (section 6) |

A run over several instances ("side by side") picks one of them at the start, so
each behaviour is that of one component; the properties select by the same
variable.

Every property is also tried against a wrong variant of the code: the operators
whose names extend the name of another one (`POP_moves_one_pointer`,
`reqOut_unfair`, ...) are such variants, each a plausible slip, and each makes
the property it was written for fail. They are used by no specification.

The type invariant of a module is one conjunct of the inductive invariant in its
proofs; a run checks it only where it says more than that a variable has its type.

The constants' assumptions are evaluated in each run. Two assumptions are there
to tie the proofs to the runs: `WellUsedAssumption` (MCPipeHandler) says that the
programs of `ph_programs` satisfy the hypotheses of the theorems about programs
and that those of `ph_strand` and `ph_show` do not; `CountersAreWide`
(MCControlPath) that a counter of `Ceil_Log2` bits holds its capacity.

### Bounds, and why they are enough

* *Threads and scripts (PipeHandler).* The calls of each thread are a finite
  script with choices; this is the only bound. FIFOs have two places and bursts
  have three words, so every burst is split, both pointers wrap, and a reader
  meets an empty and a partly filled pipe. The stack has two places too. Threads
  are not symmetric (their scripts differ). The programs of `ph_programs` have no
  two threads that add the same name at the same time: `ph_strand` is that case,
  with no bound but one word.
* *Queues.* Depth 3 is the smallest ring with a state strictly between empty and
  full in which pointers differ by more than one, and is not a power of two.
  The theorems hold for every depth, with and without reverse bypass. The deep
  FIFO, the chain and the stack have three places too (the threshold between
  shallow and deep, `global_pipe_shallowness_threshold`, is lowered to 3): the
  memory wraps, and is empty with a word at its output.
* *The stack in `pipes`* is used in turns: nobody writes while somebody reads
  (`Alternating`). `stack` drops that condition.
* *NobodyLeftBehind.* Three requesters are needed for a middle priority. The
  theorems hold for every number.
* *PipelinedLoop.* `max_iterations_in_flight = 24` so that the pipeline fills
  and drains at length; the theorems hold for every depth and counter width. The
  phi's places have capacity 2, so that a place can hold a second token if the
  control allows it.
* *ForkBlock.* Every acyclic graph of four transitions in which all but the entry
  wait for something, with up to two reenable arcs of either delay: two are
  needed for one to be the reason for removing the other, four transitions for
  an arc to be redundant because of another redundant one.
* *GroupReduction.* Every control path of four elements that Aa2VC could have
  written: inside a pipelined body (requests, acknowledgements, delays, one or
  two sequencers, at most one reenable arc) and outside (places, dead links); and
  the larger shapes the compiler writes for a switch (12 elements) and for two
  operands evaluated at once (11 elements), each with its dead link. What may be
  written is stated by `WellWritten` and `InBody`, from `AaStatement.cpp:4216`,
  `5277`, `5764`. Two firings of each source tell a join from an OR and a
  reenable from a plain wait.
* *SplitCallArbiter.* Two callers and one call in the module already give two
  calls of one caller under way (register and module), a full return register
  with a second return behind it, and both callers waiting. No guard reads the
  data, so two words are enough to see an order.
* *UnloadBuffer.* Generic sizes 0 to 3, threshold 3, every combination of the
  boolean generics. Words are not zero: zero is what a non-blocking read of an
  empty buffer returns.
* *SplitOperatorShared.* Two operations; the first has one slot and no queue for
  its results, so that it can block the operator, the second two slots and a
  queue of two, so that it cannot.
* *Memory.* Stamps have the four quarters the comparison distinguishes, of two
  stamps each (four for the ordered one); the counter starts anywhere in a
  quarter and wraps. The ordered memory is bounded to four requests and to one
  cycle in which a completion is refused; the register bank to two such cycles.
  **The stamp window.** Two stamps compare rightly only while they are no more than
  a quarter of their range apart, and none may wait for a whole turn
  (`StampsTellTheOrder`). The hardware does not enforce that: a
  completion that nobody takes makes the requests behind it age without limit.
  The bounds keep ages inside the window at this width, which `StampsAreTold` checks; the
  code's answer is width (`vcMemorySpace.cpp:494-496` adds 16 bits, "large enough
  window"). `TheSubsystemIsAMemory` shows that the window is all that is needed;
  beyond it the order of a load and a store is not promised, and no run claims it.
* *Bridge.* Two threads, so that two requests meet on one name or on two; bursts
  of up to three words in a buffer of four, header included, so that every
  message fits. `bridge_long` is the message that does not.

`CHECK_DEADLOCK` is never switched off. A program over the pipe handler ends by
the step `Ended`, which only an ended or aborted program can take; the clocked
modules always tick.

## 4. Fairness

* *PipeHandler*: weak fairness of every thread's steps (the scheduler runs each
  thread; the polling loops call `sched_yield`), and strong fairness of `Lock`
  (a thread that keeps asking for a mutex that is free again and again gets it
  at last). POSIX mutexes do not promise the latter; without it a
  burst can starve, which is what the assumption is for.
* *Clocked modules*: the clock runs. An edge at which no register changes is
  still an edge, but weak fairness of a step "that changes something" would be
  satisfied by standing still in a state whose fair step changes nothing.
  The MC modules therefore have a clock bit, `clk` (or `turn` in `arbiters`),
  which every edge flips, and the fairness is that of the bit. Each module adds
  only what its environment owes: the shared resource does not refuse for ever
  and the called module and the callers do their part (`arbiters`: infinitely
  many edges at which they do, others in between); a body that can end ends, a
  source that was started answers and the control path sends what it can
  (the loop in `control_path`; the library's algorithms have no liveness property); a completion is taken within the bound (`memory`).
  `AllWritersProgress`, `EveryUnloadIsAnswered` and `EveryOperationCompletes`
  carry their condition themselves: *if* there are readers, words, or pulses
  asking for results again and again. `EveryOperationCompletes` asks it only of
  those other operations whose queue has less room than they have slots: one that
  has (`RoomForItsSlots`) may stop taking its results and blocks nobody.
* *VhpiBridge*: the simulator runs on, a connected thread sends its message
  (weak); a socket that is tried again and again takes its answer at last, and
  the hardware serves who keeps asking (strong).

## 5. What is proved

`tlapm` checks all of it, for every value of the constants that the named
assumptions allow.

**QueueBase_proof** (depth any natural number, `ReverseBypass` either).
`Invariance`: type correctness and the agreement of the state machine with the
pointers are inductive *together*: the machine moves to `EMPTY` or `FULL` when
the pointers have just met, and only the previous agreement (and that one of
push and pop happened alone) says which of the two it must be. `FlagsAreRight` is
its consequence. `Implements`: `Spec => IsAPipe`. The abstract contents are the
words from the read pointer around the ring; the proof needs arithmetic of one
turn of the ring (how `Distance` and `Slot` move with either pointer) as lemmas,
and a case for each of push, pop, both and none, with depth 0 (wires) apart.

**PipeBase_proof** (every depth, 0 included, any numbers of writers and readers, any
threshold between shallow and deep, every queue that the generics choose).
`PipesArePipes`: `PSpec => PortsSeeAPipe`; `EveryPathIsRegistered`: with places and without
`bypass`, `PSpec => [][Registered]_pvars`; `PipeTyping`: `PSpec => []PTypeOK`. A stack
needs `Alternating`, an environment that does not write while it reads: without it
the statement is false (`stack`, section 6). The argument has two halves.

* *The ports* (`PortsInv`, `PTickPorts`): whatever the queue answers, at an edge at most
  one writer and one reader are let through, and what those exchange is what the
  queue takes in and hands out, since the round that the arbiter remembers
  is part of the requests that are held (`OneWriter`, `Exchange`).
* *The queue.* For each kind of FIFO there is an inductive invariant and a lemma of
  one form: for some `r`, the words held before the edge are `out \o r` and those
  after it `r \o in`, where `in` and `out` are at most one word; `FifoIsAPipe` makes
  of it a step of AbstractPipe. The *shallow* queue is `QueueBase_proof`'s refinement,
  except that with a bypass a word may pass the empty queue. The *deep FIFO* holds the word at its
  output, of which its read state says in which register it is, and then those in its
  memory, where the pointers are as far apart on the ring as it counts words
  (`MemoryInv`, `MemoryStep`); `FifoStep` follows a word into the memory, around it,
  and to the output. The *chain* is put together stage by stage: `StageStep` for one
  stage of two places, `ChainMoves` for the first `i` stages, by a least stage at which it
  fails. The *stack* shows the top word of its array (`LifoInv`), wherever it takes it
  from: true only because no edge both pushes and pops.

**SharedModules_proof**, first the arbiter alone (any number of requesters). `Fairness`:
`BoundedOvertaking` is not inductive. The strengthening says in which stage the
waiting victim is: while it waits for the round under way (not in the register,
which is not empty) another requester has been served at most once if it has
left the register and not at all if it is still in it; once the victim is in the register the
bound is one more. `OnlyRequestsAreServed`: the register is part of the requests.

**ControlPath_proof**, the loop (any depth, any wide enough counter, any capacity of the
places). First the terminator alone: the invariant adds
to the counting equation that outside the loop nothing is left
(`OutsideIsEmpty`: no running body, no place marked), that at most
one answer is awaited or remembered, and that the numbers are in range. `NoWrap`
shows that the modulus of the counter never acts, since the counter is below its
maximum whenever it is incremented alone; `ExitMeansDone` that the early exit is
exact. `Counting`, `Bound`, `Decisions` and the action property `Leaving` follow.
Then the phi. Every step of the composition is a step of the terminator or none
(`LoopTerminates`), so that the terminator's invariant holds of it.
`PhiInvariance` says where the tokens are: the trigger of the last iteration is one
token, in its place, in the fork, at the source or used up (`TriggerIsOneToken`);
the requests circulate as one token each (`RequestIsOneToken`); everything that
waits belongs to one source (`AllOfOneTurn`); and, the link between the two
components, an iteration that waits for its value is one whose decision is not
made (`OwedWhileDeciding`), so that no second trigger can come. `OneSource` and
`Selection` follow. `TokenRange` is 2 to the width of a counter, and the
provers know nothing of powers: `CounterAssumption` says that it exceeds the
capacity, and TLC evaluates it.

**PipeHandler_proof** (any number of threads and pipes, any depths, scripts and
bursts).
`Invariance` is type correctness together with `GrantHolds`: neither holds alone.
What a request was granted is still there word after word because the pipe is
locked by one thread, the words that are left are no more than the ring
has or has room for (`BurstInBounds`), and the pointer to the record stays
good while the list grows (`RegisteredStays`). `Typing` and `GrantsHold` follow.
The others need a hypothesis about the *program*, and each says which:

* `NothingStranded`, `RegistrationsHonoured` (no two threads add the same name,
  `NamesHaveOneOwner`): there is one record to a name, a thread between
  its look-up and its addition is the only one that can add that name, and what
  a registration returned stays what its name finds.
* `SignalsWhole`, `NoneAborts` (in addition, signals of several words are asked
  for whole, `BurstsFit`): a signal that nobody has locked holds the words
  of one write; under the lock its words are in step with the burst that moves them.
* `RingsStayInStep`, `RegisteredPipesArePipes` (`[]ShowsNoRing`: the value of a
  ring is never printed) and their consequences for a property of the text of
  the program, `RingsAlwaysAgree`, `PipesAlwaysArePipes` (no program prints a pipe
  that it writes, `PrintsNothingWritten`): pointers and count agree, and every pipe
  that main registers is an AbstractPipe, each word moved being a step of it.
* `NonBlockingReads` (no zeros are written, `WritesNoZero`, since zeros are how a
  refused read looks): a non-blocking read gets all its words or all zeros.

`NamesHaveOneOwner` and `PrintsNothingWritten` exclude what the disagreements `ph_strand`
and `ph_show` of section 6 are about, `BurstsFit` what the code asserts, and
`WritesNoZero` only makes a refused read visible.

**ControlPath_proof**, fork blocks (of any size). `BlockInvariance`: whatever the passes
have removed so far, what was written to come before still does, by a path
or by a reenable arc between transitions at least as strict. That a longer
path exists whenever an arc is removed, and that a reenable arc is removed only
because of one that stays, are inductions over the numbers of the transitions
(arcs lead from smaller to larger ones); since the library's induction theorems cannot be
used, each looks for a least counterexample (`Least`). `Dependencies`:
`NoDependencyIsLost`.

**ControlPath_proof**, the reduction to groups (any control path, any order of the
walks). `Merging`: `GSpec => []MergesAreAllowed`. What the nucleus asks of a group is asked
again as the nucleus grows, but that the group follows the nucleus *alone* was found
by a search before anything was merged, and the code only asserts it later. The invariant `GInv` carries it
across the merges (`Follows`): a group of the worklist has no predecessor outside the
nucleus and the worklist, or the nucleus cannot absorb anything any more (`Stuck`). A
predecessor in the worklist drives no function, so it is refused only if the nucleus is
stuck, and then what follows it is refused too. The other parts: while nuclei
absorb, places and transitions never share a group (`Unmixed`), so no join is a merge;
a group has one function and one body at most (`Uniform`); a group with a predecessor
has one of a lower number (`Descends`), so that a merge never leaves a group without;
what has a delay follows one group and no reenable arc (`Delays`). The last gasp may put
a place and a transition together; there `Aliased` is what keeps joins from merges outside a body.
`PathsAssumption` says what a control path is: its entry reaches every element without dead links, but for
what only dead links lead to, a delay has one predecessor, and a pipelined body
has transitions only. TLC evaluates it over all paths of `control_path`.

**SharedModules_proof**, the rest of it: two components share something, and to each user it
is a FIFO of its own. For the shared operator (any number of operations, any
buffering) the invariant `OpInv` says that a pulse is in the place of its
regulator or in its receive buffer, that its operands are held until they are taken,
and that no queue exceeds its size. What is under way for an operation is its
unload buffer followed by its receive buffer; serving moves a word from one to the
other. `EachHasItsOperator`: `OpSpec => OperationsAreSeparate`. For the call arbiter
(any number of callers, any depth of the module) what is under way for a caller is
its return register followed by *its* calls among those in the module and in the
call register. `Words` selects them by recursion on the sequence; that it is
defined at all, unique, and turns `\o` into `\o` (`WordsExist`, `WordsAreUnique`,
`WordsOfJoin`) is proved by least counterexample. `EachHasItsModule`:
`CallSpec => CallersAreSeparate`. `ByOne` of PipeSteps is the common core here too.

**UnloadBuffer_proof** (every size and form that the generics allow, any writer that
holds its request, any reader). What the queue is does not matter to the rest:
`QueueStep` and `QueueOffers` say of the deep FIFO (by `FifoStep`, as in PipeBase_proof)
and of the shallow queue what a push and a pop do to the words in it. The forms
differ in what stands behind the queue, and so does the invariant `UInv`
(`Consistency`): a register (`RegisterInv`: what it acknowledges is a word, or zero
if it does not block), or a state machine that pops a word before or while it shows it
(`FsmInv`: while it shows a word the queue is not empty). The words that were written and not
yet read (`contents`) are one in the register, if it holds one, and those of the queue, less
the one at its head if that has been shown; `RegisterStep` and `FsmStep` show for each form that
an edge appends what is written and takes away what is read
(`EveryUnloadBufferIsAPipe`). `EveryUnloadBufferHolds`: what was acknowledged stays
on `read_data`, in every state of each machine (`ShownInv` says which states can follow it).

**Memory_proof** (any numbers of ports, any addresses and words, any time stamps).
`RegistersAreAMemory`: `BSpec => IsAMemory`. A port of a register bank has one open access at
most; its word is fixed when it is accepted, and each register holds a word that the
account allows; of the stores to one register the account sees the winner only.
`TheSubsystemIsAMemory`: `Spec /\ []StampsTellTheOrder => IsAMemory`. The hypothesis is on
the stamps alone, and no such theorem is true without it (see "the stamp window" above).
The invariant `MInv` speaks of *ages*, the cycles since a stamp was given, since stamps wrap:

* *Lines* (`LineInv`; loads and stores are two instances of one argument). A queue is in
  the order of ages, what waits in a repeater is no older than what is in the queue,
  and if the queue is empty all that waits has just come. The selection, a recursive function over
  the ports, ends with the oldest head (`SelectedIsOldest`, by `LeastAbove`); hence the
  head of a queue is the oldest request of its kind (`HeadIsOldest`), and what the bank
  performs is no younger than anything in flight of the other kind (`PerformedInOrder`).
* *What a load finds* (`Sees`). A load of age `t` may return a set of words; that set holds
  the stores to its address of the same age, the nearest older ones, and if there is
  none, what the array has. This is kept when a request ages, when a store older than the
  load is performed and when a younger one comes (`SeesStep`); when the load is
  performed, no older store is left, and what it reads is in the set.
  `possible` of the account is the same at age 0.
* *Ports* (`LoadsInv`, `StoresInv`). The open loads of a port are the one the bank
  answers, and its requests in the queue and in its repeater, in that order
  (`Pending`); so completions go out in the order of acceptance.

Only model-checked:

* all liveness properties (`AllBurstsEnd`, `AllWritersProgress`, `NoStarvation`,
  `EveryCallReturns`, `AnswersAreHeeded`, `EveryIterationGetsItsValue`,
  `EveryUnloadIsAnswered`, `EveryOperationCompletes`, `EverybodyIsServed`,
  `EveryRequestIsAnswered`): liveness under fairness is outside these proofs;
* `ReductionIsFaithful` of GroupReduction: it compares recursive functions over two
  graphs, an induction over data;
* `ServesInOrder` of the bridge (section 8);
* `StampsAreTold`: that no stamp grows too old is a matter of how long results wait, which
  the hardware does not bound; the run bounds it, and the theorem assumes its conclusion.

`AllArePipes` and `PathsAreRegistered` of `pipes` are the conjunctions, over six
instances of PipeBase, of what `PipesArePipes` and `EveryPathIsRegistered` say
of every instance; so is `AllAreMemories` of `memory`, over three memories, of what
`TheSubsystemIsAMemory` and `RegistersAreAMemory` say. What PipeBase assumes of its generics: a depth that is a natural
number, at least one port of each kind, a threshold above zero
(`global_pipe_shallowness_threshold` is 10), and a place in a stack (`StackAssumption`:
a stack of depth 0 would never accept a word).

## 6. Where the code and its documentation disagree

* `ph_strand`: two threads that use an unregistered pipe at the same time both
  register it; what was written into the older record is lost, although the
  write reported it as written (`pipeHandler.c:511-520`, `pipeHandler.h:249`).
* `ph_show`: `POPANDRESTORE` restores the write pointer from the read pointer
  (`pipeHandler.h:166`), so printing a pipe's value damages a FIFO that holds words.
* `stack`: a stack that is pushed and popped in one cycle puts the new word into
  its bypass register only (`SynchLifo.vhd:166-168`). The word that was popped
  remains in the array under it; when the stack is popped down to it, it comes
  out again, and the new word never does.
* `bridge_long`: a burst write is checked against the size of the buffer without
  its header (`SockPipes.c:166`). A burst that just fits is received short
  (`Vhpi.c:762`), found malformed and forgotten (`Vhpi.c:420-430`), and the thread
  waits for ever for the answer that `SocketLib.c:470-474` describes.

Also seen, and not runs: printing the value of a signal of several words asks for
one word and fails the assertion at `pipeHandler.c:383` (`Misfit` in the model);
with the generic `bypass`, and with depth 0 (which `vcDataPath.cpp:200-206` gives to
point-to-point pipes), a pipe has a combinational path from `write_req` to
`read_ack`, which `PipeBase.vhd:45-47` says only `save_slot` has
(`PathsAreRegistered` and `EveryPathIsRegistered` therefore except those pipes); the pipe handler's README says
"if lifo_mode=0 FIFO, else it is a LIFO", while mode 2 is a FIFO with non-blocking
reads; `register_port` has no return statement; the string that
`pipe_value_to_string` returns is a static buffer, not one "allocated inside the
function" (`pipeHandler.h:263`); a shared operator in a pipelined section whose
output buffering is one lets an operation that does not take its results hold up
the others, of which `vcDataPath.cpp:3924-3938` warns; in a register bank with
three or more stores to one register the highest index can wait for ever; a burst
with the wrong width is refused with a message and the burst macros ask again for
ever (`pipeHandler.c:348`).

In the vC library: `Remove_Redundant_Arcs` promises that every redundant arc "is to
be deleted" (`vcControlPath.cpp:2497-2498`), but its index skips the successor
after each deleted one, so that some stay; they cost hardware and change nothing
(`NoDependencyIsLost` holds all the same). A join of which one predecessor is dead
would fire without it once the dead group is deleted (`Delete_Group` removes it
from the predecessors); the compiler writes no such join, which is why
`ReductionIsFaithful` holds.

## 7. Abstractions to keep in mind

* PipeHandler: the watermark and the dangling-pipe flags are left out (they lead
  only to messages), so are the log and the print lock. A read of a record
  outside its mutex (the width, fixed at registration) is atomic here.
* A clocked module's initial state is the one after a reset. Signals are
  two-valued. A memory may have been idle for any time: its counter starts
  anywhere.
* PipeBase: signal mode, a register that every write overwrites and every read
  copies, and `save_slot`, which no generator sets, are left out. Readers have
  fixed priority in the code, so no progress property is stated for them.
* PhiSequencer assumes that a source completes its update after its sample; the
  sequencer itself does not enforce it, and its comment
  (`phi_sequencer_v2.vhdl:110-117`) says so. Other statements of the loop body
  take any number of cycles.
* SplitCallArbiter: with one requester the arbiter is a set of wires. The tag the
  caller supplies travels with the data and is part of the word.
* UnloadBuffer: the two waiting states of the bypassed register behave alike and
  are one state.
* SplitOperatorShared: a word stands for the operands and for the result. Left
  out: `no_arbitration`, a registered operator, full-rate buffers deeper than one.
* Memory: tags travel unchanged and are left out; the pipelined tree of
  comparisons is the selection it computes.
* ForkBlock: blocks are transitions only (regions nested in a block are single
  vertices for the algorithm as well). Distances are between transitions; the
  order of the maps is any order.
* GroupReduction: a body is a pipelined body or fork block. The loop block around a
  body is a parent of its own in the code, with places (`vc.g:495`), and paths of such a
  block are not among those modelled, nor covered by `PathsAssumption`.
  The order of sets of pointers, and of the search, is any order
  in which predecessors come first. `$tied_high` and `$left_open`, bindings of
  regions, the delays of merged reenable arcs, bypass flags and the capacities
  chosen by strongly connected components are left out, as is time: a control
  path is told from another by how often it fires what, not when.
* Bridge: a header is one word of the buffer. TCP is an ordered channel that
  delivers a message at once, up to the size of the buffer; a message split by
  the network, a client that dies, and malformed names are left out.

## 8. Plan

Modelled so far: the hardware components of the inventory, the software runtime,
the bridge, and the two graph algorithms of the vC library. What is left, in order:

1. *Proofs*: the bridge's `ServesInOrder` for any number of threads.
2. *Remaining variants*: `level_to_pulse`, `pipeline_interlock`, the unordered
   memory subsystem, the single-caller arbiters.
3. *More of the vC library*: strongly connected components and the capacities and
   bypass flags that follow from them, which need a model of time in `Fired`.

Not planned: the compilers' other translations (C++ over syntax trees: sequential, and
about the size of the language rather than about its behaviour), the LLVM front
end, the vendored libraries, pre-built releases, documents and examples. They
make up nearly all of the repository's lines, which is why the share of lines
modelled is small.
