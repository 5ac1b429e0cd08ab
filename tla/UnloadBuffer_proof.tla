------------------------- MODULE UnloadBuffer_proof -------------------------
(***************************************************************************)
(* Proofs about the unload buffers, of every form and every size, for any  *)
(* writer that holds its request and any reader.                           *)
(***************************************************************************)
EXTENDS UnloadBuffer, PipeSteps

(* The words that are written: zero stands for none.                       *)
Something == Word \ {Zero}

-----------------------------------------------------------------------------
(* The inductive invariant.                                                *)

QueueInv ==
  /\ pipe_words \in Seq(Something)
  /\ IF form = "deep" THEN FifoInv(Word, pipe) ELSE Len(pipe) <= entity.depth

UsersInv ==
  /\ write_req \in BOOLEAN /\ unload_req \in BOOLEAN
  /\ write_data \in IF write_req THEN Something ELSE {Zero}
  /\ unload_ack_d \in BOOLEAN

(* A bypassed UnloadRegister acknowledges at once; another one has a word  *)
(* when it acknowledges, or zero if it does not block.                     *)
RegisterInv ==
  HasRegister =>
    /\ fsm_state \in {"Idle", "Waiting"} /\ read_reg \in Word
    /\ register_bypass => ~unload_ack_d
    /\ unload_ack_d /\ ~nonblocking => read_reg # Zero

(* The word that is shown is still in the queue.                           *)
FsmInv ==
  ~HasRegister =>
    /\ fsm_state \in CASE form = "revised" -> {"Idle", "DataValid", "WaitOnData"}
                       [] form = "safe"    -> {"Idle", "DataValid", "WaitOnWrite", "WaitOnNext"}
                       [] form = "noblock" -> {"Idle", "DataValid", "UnloadAck", "ZeroData"}
    /\ fsm_state \in {"DataValid", "WaitOnNext"} => pipe # <<>>
    /\ unload_ack_d => fsm_state = "DataValid" /\ form # "noblock"

(* Once something was shown there is something to show, or somebody waits. *)
ShownInv ==
  /\ form = "safe" /\ seen => fsm_state \in {"DataValid", "WaitOnNext"}
  /\ form \in {"revised", "noblock"} /\ seen => fsm_state # "Idle"
  /\ form = "revised" /\ fsm_state = "WaitOnData" => awaited

UInv ==
  /\ entity \in Entities
  /\ QueueInv /\ UsersInv /\ RegisterInv /\ FsmInv /\ ShownInv

(* What the generics can make of the entity.                               *)
EntityFacts ==
  /\ form \in {"register", "deep", "revised", "safe", "noblock"}
  /\ entity.depth \in 0 .. QueueDepth
  /\ entity.bypass \in BOOLEAN /\ nonblocking \in BOOLEAN
  /\ form = "deep" => entity.depth = QueueDepth /\ ~entity.bypass
  /\ form = "revised" => entity.depth > 0 /\ ~nonblocking
  /\ form = "safe" => entity.depth > 1 /\ ~entity.bypass /\ ~nonblocking
  /\ form = "noblock" => entity.depth > 1 /\ ~entity.bypass /\ nonblocking

LEMMA Entity ==
  ASSUME entity \in Entities
  PROVE  EntityFacts
<1>1. PICK g \in Generics : entity = Elaborated(g)
  BY DEF Entities
<1>2. /\ g.buffer_size \in 0 .. MaxSize /\ g.bypass_flag \in BOOLEAN
      /\ g.nonblocking_read_flag \in BOOLEAN /\ g.use_safe_mode \in BOOLEAN
      /\ g.use_unload_register \in BOOLEAN
  BY DEF Generics
<1> DEFINE f == Form(g)
<1>3. /\ form = f
      /\ entity.depth = IF f = "register" /\ ~g.bypass_flag /\ g.buffer_size = 1
                        THEN 0 ELSE g.buffer_size
      /\ entity.bypass = CASE f = "register" -> g.bypass_flag \/ g.buffer_size = 0
                           [] f = "revised"  -> g.bypass_flag
                           [] OTHER          -> FALSE
      /\ nonblocking = g.nonblocking_read_flag
  BY <1>1 DEF Elaborated, form, nonblocking
<1>4. /\ f \in {"register", "deep", "revised", "safe", "noblock"}
      /\ f \in {"revised", "safe"} => revised_case_blocking(g)
      /\ f = "safe" => g.use_safe_mode
      /\ f = "noblock" => revised_case_non_blocking(g)
  BY DEF Form, revised_case_blocking, revised_case_non_blocking
<1>5. f = "deep" => entity.depth = QueueDepth
  BY <1>3 DEF Entities, form
<1>6. MaxSize \in 0 .. QueueDepth /\ QueueDepth \in Nat
  BY BufferAssumption
<1> DEFINE depth == entity.depth
           bypass == entity.bypass
<1> HIDE DEF f
<1>7. /\ bypass \in BOOLEAN
      /\ f = "revised" => bypass = g.bypass_flag
      /\ f \in {"deep", "safe", "noblock"} => bypass = FALSE
  BY <1>2, <1>3
<1>8. depth \in 0 .. QueueDepth /\ (f # "register" => depth = g.buffer_size)
  BY <1>2, <1>3, <1>6
<1>9. /\ f \in {"revised", "safe"} => /\ g.buffer_size > 0 /\ ~g.nonblocking_read_flag
                                      /\ ~g.bypass_flag => g.buffer_size > 1
      /\ f = "safe" => ~g.bypass_flag
      /\ f = "noblock" => /\ g.buffer_size > 1 /\ ~g.bypass_flag
                          /\ g.nonblocking_read_flag
  BY <1>2, <1>4 DEF revised_case_blocking, revised_case_non_blocking
<1> QED
  BY <1>2, <1>3, <1>4, <1>5, <1>7, <1>8, <1>9 DEF EntityFacts

-----------------------------------------------------------------------------
(* The queue.                                                              *)

(* The end of a sequence of words is one of words.                         *)
LEMMA EndOf ==
  ASSUME NEW W, NEW V, V \subseteq W, NEW a \in Seq(W), NEW b \in Seq(W),
         a \o b \in Seq(V)
  PROVE  b \in Seq(V)
<1> DEFINE c == a \o b
<1>1. /\ Len(c) = Len(a) + Len(b) /\ Len(a) \in Nat /\ Len(b) \in Nat
      /\ \A k \in 1 .. Len(b) : c[Len(a) + k] = b[k]
  OBVIOUS
<1>2. c \in Seq(V)
  OBVIOUS
<1> HIDE DEF c
<1>3. \A k \in 1 .. Len(b) : b[k] \in V
  <2> SUFFICES ASSUME NEW k \in 1 .. Len(b) PROVE b[k] \in V
    OBVIOUS
  <2>1. Len(a) + k \in 1 .. Len(c)
    BY <1>1
  <2> QED
    BY <1>1, <1>2, <2>1, ElementOfSeq
<1>4. b \in [1 .. Len(b) -> V]
  BY <1>3
<1> QED
  BY <1>1, <1>4

QueueOut(pop_req) == IF pop_req /\ pop_ack THEN <<pipe_data_out>> ELSE <<>>
QueueIn(push_req, pop_req) == IF push_req /\ push_ack(pop_req) THEN <<write_data>> ELSE <<>>

(* The words that stay are between the one that leaves and the one that    *)
(* comes.                                                                  *)
QueueMoved(push_req, pop_req) ==
  \E s \in Seq(Something) :
    /\ pipe_words = QueueOut(pop_req) \o s
    /\ pipe_words' = s \o QueueIn(push_req, pop_req)

LEMMA QueueStep ==
  ASSUME UInv, entity' = entity, NEW push_req \in BOOLEAN, NEW pop_req \in BOOLEAN,
         QueueEdge(push_req, pop_req), push_req => write_req
  PROVE  QueueInv' /\ QueueMoved(push_req, pop_req)
<1>1. EntityFacts /\ form' = form
  BY Entity DEF UInv, form
<1>2. push_req => write_data \in Something
  BY DEF UInv, UsersInv
<1> DEFINE out == QueueOut(pop_req)
           in == QueueIn(push_req, pop_req)
<1>3. in = <<>> \/ \E w \in Something : in = <<w>>
  BY <1>2 DEF QueueIn
<1>4. in \in Seq(Something) /\ Len(in) = IF in = <<>> THEN 0 ELSE 1
  BY <1>3, AtMostOne, Zenon
<1>5. QueueDepth \in Nat \ {0}
  BY BufferAssumption
<1>6. CASE form = "deep"
  <2>1. /\ FifoInv(Word, pipe) /\ FifoHolds(pipe) \in Seq(Something)
        /\ pipe' = FifoEdge(pipe, push_req, write_data, pop_req)
        /\ pipe_words = FifoHolds(pipe) /\ pipe_words' = FifoHolds(pipe')
    BY <1>1, <1>6 DEF UInv, QueueInv, QueueEdge, pipe_words, form
  <2>2. write_data \in Word
    BY <1>2, BufferAssumption DEF UInv, UsersInv, Something
  <2>3. /\ FifoInv(Word, pipe')
        /\ FifoMoved(Word, pipe, pipe', push_req, write_data, pop_req)
    BY <1>5, <2>1, <2>2, FifoStep, Zenon
  <2>4. /\ out = FifoOut(pipe, pop_req) /\ in = FifoIn(pipe, push_req, write_data)
    BY <1>6 DEF QueueOut, QueueIn, FifoOut, FifoIn, pop_ack, push_ack, pipe_data_out
  <2>5. PICK s \in Seq(Word) : pipe_words = out \o s /\ pipe_words' = s \o in
    BY <2>1, <2>3, <2>4, Zenon DEF FifoMoved
  <2>6. out \in Seq(Word)
    <3>1. fifo_data_out(pipe) \in Word
      BY <2>1 DEF FifoInv, fifo_data_out
    <3>2. out = <<>> \/ \E w \in Word : out = <<w>>
      BY <2>4, <3>1 DEF FifoOut
    <3> QED
      BY <3>2, AtMostOne, Zenon
  <2> HIDE DEF in, out
  <2>7. s \in Seq(Something)
    <3>1. out \o s \in Seq(Something)
      BY <2>1, <2>5, Zenon
    <3> QED
      BY <2>6, <3>1, EndOf DEF Something
  <2>8. pipe_words' \in Seq(Something)
    BY <1>4, <2>5, <2>7, Joined, Zenon
  <2> QED
    BY <1>1, <1>6, <2>3, <2>5, <2>7, <2>8 DEF QueueInv, QueueMoved, in, out
<1>7. CASE form # "deep"
  <2>1. /\ pipe \in Seq(Something) /\ Len(pipe) <= entity.depth
        /\ pipe_words = pipe /\ pipe_words' = pipe'
        /\ pop_ack <=> pipe # <<>>
        /\ pop_ack => pipe_data_out = Head(pipe)
        /\ push_ack(pop_req) <=> \/ Len(pipe) < entity.depth
                                 \/ entity.bypass /\ form = "revised" /\ pop_req
    BY <1>1, <1>7 DEF UInv, QueueInv, pipe_words, pop_ack, pipe_data_out, push_ack, form
  <2> DEFINE s == IF pop_req /\ pop_ack THEN Tail(pipe) ELSE pipe
  <2>2. pipe' = s \o in
    BY <1>7 DEF QueueEdge, QueueIn
  <2>3. /\ s \in Seq(Something) /\ pipe = out \o s
        /\ Len(s) = IF pop_req /\ pop_ack THEN Len(pipe) - 1 ELSE Len(pipe)
    <3>1. CASE pop_req /\ pop_ack
      BY <2>1, <3>1, HeadAndTail DEF QueueOut
    <3>2. CASE ~(pop_req /\ pop_ack)
      BY <2>1, <3>2, Joined DEF QueueOut
    <3> QED
      BY <3>1, <3>2
  <2>4. in # <<>> => push_ack(pop_req)
    BY DEF QueueIn
  <2>5. Len(pipe) \in Nat /\ (Len(pipe) > 0 => pipe # <<>>)
    BY <2>1
  <2> HIDE DEF in, out, s
  <2>6. pipe' \in Seq(Something) /\ Len(pipe') = Len(s) + Len(in)
    <3>1. s \o in \in Seq(Something) /\ Len(s \o in) = Len(s) + Len(in)
      <4>1. in \in Seq(Something)
        BY <1>4
      <4>2. s \in Seq(Something)
        BY <2>3
      <4> QED
        BY <4>1, <4>2, Joined
    <3> QED
      BY <2>2, <3>1
  <2>7. Len(pipe') <= entity.depth
    <3>1. entity.depth \in Int /\ (form = "revised" => entity.depth > 0)
      BY <1>1, <1>5 DEF EntityFacts
    <3>2. Len(in) \in {0, 1} /\ (in = <<>> => Len(in) = 0)
      BY <1>4
    <3>3. Len(s) <= Len(pipe) /\ Len(s) \in Nat /\ Len(pipe) <= entity.depth
      BY <2>1, <2>3, <2>5
    <3>4. in # <<>> => Len(s) < entity.depth
      <4>1. CASE Len(pipe) < entity.depth
        BY <2>5, <3>1, <3>3, <4>1
      <4>2. CASE ~(Len(pipe) < entity.depth)
        <5>1. Len(pipe) > 0 /\ pop_req => Len(s) = Len(pipe) - 1
          BY <2>1, <2>3, <2>5
        <5> QED
          BY <2>1, <2>4, <2>5, <3>1, <3>3, <4>2, <5>1
      <4> QED
        BY <4>1, <4>2
    <3> DEFINE a == Len(pipe')
               b == Len(s)
               c == Len(in)
    <3>5. /\ a = b + c /\ b \in Nat /\ c \in {0, 1} /\ b <= entity.depth
          /\ c # 0 => b < entity.depth
      BY <2>6, <3>1, <3>2, <3>3, <3>4
    <3> HIDE DEF a, b, c
    <3>6. a <= entity.depth
      BY <3>1, <3>5
    <3> QED
      BY <3>6 DEF a
  <2> QED
    BY <1>1, <1>7, <2>1, <2>2, <2>3, <2>6, <2>7 DEF QueueInv, QueueMoved, in, out
<1> QED
  BY <1>6, <1>7

(* An empty queue has room for a word, and a word that is offered is one.  *)
LEMMA QueueOffers ==
  ASSUME UInv, HasQueue
  PROVE  /\ pop_ack => pipe_words # <<>> /\ pipe_data_out \in Something
         /\ pipe_words = <<>> => \A pop_req \in BOOLEAN : push_ack(pop_req)
<1>1. pipe_words \in Seq(Something) /\ entity.depth > 0
  BY DEF UInv, QueueInv, HasQueue
<1>2. CASE form = "deep"
  <2>1. QueueDepth \in Nat \ {0} /\ FifoInv(Word, pipe)
    BY <1>2, BufferAssumption DEF UInv, QueueInv
  <2>2. InMemory(pipe) \in Seq(Word) /\ Len(InMemory(pipe)) = pipe.queue_size
    BY <2>1, InMemoryType
  <2> DEFINE m == InMemory(pipe)
             x == fifo_data_out(pipe)
  <2>3. x \in Word
    BY <2>1 DEF FifoInv, fifo_data_out
  <2>4. pipe_words = (IF pop_ack THEN <<x>> ELSE <<>>) \o m
    BY <1>2 DEF pipe_words, FifoHolds, AtOutput, pop_ack, fifo_pop_ack
  <2>5. /\ push_ack(TRUE) <=> pipe.queue_size < QueueDepth
        /\ push_ack(FALSE) <=> pipe.queue_size < QueueDepth
        /\ pop_ack => pipe_data_out = x
    BY <1>2 DEF push_ack, fifo_push_ack, pipe_data_out
  <2> HIDE DEF m, x
  <2>6. /\ m \in Seq(Word) /\ Len(m) = pipe.queue_size
        /\ Len(<<x>> \o m) = 1 + Len(m) /\ (<<x>> \o m)[1] = x
    BY <2>2, <2>3 DEF m
  <2>7. ASSUME pop_ack PROVE pipe_words # <<>> /\ pipe_data_out \in Something
    <3>1. pipe_words = <<x>> \o m
      BY <2>4, <2>7
    <3>2. Len(pipe_words) > 0 /\ pipe_words[1] = x
      BY <2>6, <3>1
    <3> QED
      BY <1>1, <2>5, <2>7, <3>2
  <2>8. ASSUME pipe_words = <<>> PROVE push_ack(TRUE) /\ push_ack(FALSE)
    <3>1. ~pop_ack
      BY <2>7, <2>8
    <3>2. Len(m) = 0
      BY <2>4, <2>6, <2>8, <3>1
    <3>3. pipe.queue_size < QueueDepth
      BY <2>1, <2>6, <3>2
    <3> QED
      BY <2>5, <3>3, Zenon
  <2> QED
    BY <2>7, <2>8
<1>3. CASE form # "deep"
  <2>1. /\ pipe_words = pipe /\ (pop_ack <=> pipe # <<>>)
        /\ pop_ack => pipe_data_out = Head(pipe)
        /\ \A pop_req \in BOOLEAN : Len(pipe) < entity.depth => push_ack(pop_req)
    BY <1>3 DEF pipe_words, pop_ack, pipe_data_out, push_ack
  <2>2. pipe # <<>> => Head(pipe) \in Something
    BY <1>1, <2>1
  <2> QED
    BY <1>1, <2>1, <2>2
<1> QED
  BY <1>2, <1>3

-----------------------------------------------------------------------------
(* An edge of the clock hands on what a pipe would.                        *)

AtMostSomething == {<<>>} \union {<<w>> : w \in Something}

PassedOn ==
  /\ put' \in AtMostSomething /\ got' \in AtMostSomething
  /\ \/ \E s \in Seq(Something) : contents = got' \o s /\ contents' = s \o put'
     \/ contents = <<>> /\ contents' = <<>> /\ put' = got'

(* The word that goes into the UnloadRegister.                             *)
Loaded == IF load /\ load_data # Zero THEN <<load_data>> ELSE <<>>

LEMMA RegisterMoves ==
  ASSUME UInv, HasRegister, UTick
  PROVE  /\ QueueInv' /\ put' \in AtMostSomething /\ Loaded \in AtMostSomething
         /\ load /\ ~nonblocking => load_data # Zero
         /\ \/ \E s \in Seq(Something) : pipe_words = Loaded \o s /\ pipe_words' = s \o put'
            \/ pipe_words = <<>> /\ pipe_words' = <<>> /\ Loaded = put'
<1>1. EntityFacts /\ entity' = entity /\ form' = form
  BY Entity DEF UInv, UTick, form
<1>2. /\ write_req \in BOOLEAN /\ (write_req => write_data \in Something)
      /\ pipe_words \in Seq(Something)
  BY DEF UInv, UsersInv, QueueInv
<1>3. put' = IF write_req /\ write_ack THEN <<write_data>> ELSE <<>>
  BY DEF UTick
<1>4. put' \in AtMostSomething
  BY <1>2, <1>3 DEF AtMostSomething
<1>5. /\ load <=> register_ready /\ (register_write_req \/ nonblocking)
      /\ load_data = IF register_write_req THEN register_write_data ELSE Zero
      /\ register_write_req <=> IF pipe_words # <<>> THEN pop_ack ELSE write_req
      /\ register_write_data = IF pipe_words # <<>> THEN pipe_data_out ELSE write_data
      /\ register_ready \in BOOLEAN
  BY <1>2 DEF load, load_data, register_write_req, register_write_data, pipe_has_data,
              register_ready
<1>6. CASE HasQueue
  <2> DEFINE push_req == write_req /\ write_to_pipe
  <2>1. /\ QueueEdge(push_req, register_ready)
        /\ write_ack <=> push_ack(register_ready)
        /\ write_to_pipe <=> pipe_words # <<>> \/ ~register_ready
    BY <1>6 DEF UTick, RegisterEdge, write_ack, write_to_pipe, pipe_has_data
  <2>2. QueueInv' /\ QueueMoved(push_req, register_ready)
    <3>1. push_req \in BOOLEAN /\ (push_req => write_req)
      OBVIOUS
    <3> HIDE DEF push_req
    <3> QED
      BY <1>1, <1>5, <2>1, <3>1, QueueStep
  <2>3. PICK s \in Seq(Something) :
          /\ pipe_words = QueueOut(register_ready) \o s
          /\ pipe_words' = s \o QueueIn(push_req, register_ready)
    BY <2>2 DEF QueueMoved
  <2>4. /\ pop_ack => pipe_words # <<>> /\ pipe_data_out \in Something
        /\ pipe_words = <<>> => push_ack(register_ready)
    BY <1>5, <1>6, QueueOffers
  <2>5. /\ load /\ ~nonblocking => load_data # Zero
        /\ Loaded \in AtMostSomething
    BY <1>2, <1>5, <2>4 DEF Loaded, AtMostSomething, Something
  <2>6. CASE pipe_words # <<>> \/ ~register_ready
    <3>1. QueueIn(push_req, register_ready) = put'
      BY <1>3, <2>1, <2>6 DEF QueueIn
    <3>2. QueueOut(register_ready) = Loaded
      BY <1>5, <2>4, <2>6 DEF QueueOut, Loaded, Something
    <3> QED
      BY <1>4, <2>2, <2>3, <2>5, <3>1, <3>2
  <2>7. CASE pipe_words = <<>> /\ register_ready
    <3>1. QueueIn(push_req, register_ready) = <<>> /\ QueueOut(register_ready) = <<>>
      BY <2>1, <2>4, <2>7 DEF QueueIn, QueueOut
    <3>2. s = <<>> /\ pipe_words' = <<>>
      <4>1. <<>> \o s = s /\ s \o <<>> = s
        BY Joined
      <4> QED
        BY <2>3, <2>7, <3>1, <4>1, Zenon
    <3>3. Loaded = put'
      BY <1>2, <1>3, <1>5, <2>1, <2>4, <2>7 DEF Loaded, Something
    <3> QED
      BY <1>4, <2>2, <2>5, <2>7, <3>2, <3>3
  <2> QED
    BY <2>6, <2>7
<1>7. CASE ~HasQueue
  <2>1. form = "register" /\ entity.depth = 0
    BY <1>1, <1>7, BufferAssumption DEF EntityFacts, HasQueue, HasRegister
  <2>2. /\ pipe' = pipe /\ pipe_words = pipe /\ pipe_words' = pipe'
        /\ Len(pipe) <= 0
    BY <1>1, <1>7, <2>1 DEF UTick, RegisterEdge, pipe_words, UInv, QueueInv, form
  <2>3. pipe_words = <<>>
    BY <1>2, <2>2
  <2>4. write_ack <=> register_ready
    BY <1>7 DEF write_ack
  <2>5. Loaded = put' /\ (load /\ ~nonblocking => load_data # Zero)
    BY <1>2, <1>3, <1>5, <2>3, <2>4 DEF Loaded, Something
  <2>6. QueueInv'
    BY <1>1, <2>1, <2>2 DEF UInv, QueueInv, form
  <2> QED
    BY <1>4, <2>2, <2>3, <2>5, <2>6
<1> QED
  BY <1>6, <1>7

LEMMA Regrouped ==
  ASSUME NEW W, NEW s \in Seq(W), NEW t \in Seq(W), NEW u \in Seq(W)
  PROVE  s \o (t \o u) = (s \o t) \o u
OBVIOUS

LEMMA OneOrNone ==
  ASSUME NEW s \in AtMostSomething
  PROVE  s \in Seq(Something)
<1>1. s = <<>> \/ \E w \in Something : s = <<w>>
  BY DEF AtMostSomething
<1> QED
  BY <1>1, AtMostOne, Zenon

(* What is loaded goes before what stays in the queue.                     *)
LEMMA LoadedBefore ==
  ASSUME UInv, HasRegister, UTick
  PROVE  Loaded \o pipe_words' = pipe_words \o put'
<1>1. /\ put' \in Seq(Something) /\ Loaded \in Seq(Something)
      /\ \/ \E s \in Seq(Something) : pipe_words = Loaded \o s /\ pipe_words' = s \o put'
         \/ pipe_words = <<>> /\ pipe_words' = <<>> /\ Loaded = put'
  BY RegisterMoves, OneOrNone
<1>2. ASSUME NEW s \in Seq(Something), pipe_words = Loaded \o s, pipe_words' = s \o put'
      PROVE  Loaded \o pipe_words' = pipe_words \o put'
  <2>1. Loaded \o (s \o put') = (Loaded \o s) \o put'
    <3>1. Loaded \in Seq(Something) /\ s \in Seq(Something) /\ put' \in Seq(Something)
      BY <1>1
    <3> QED
      BY <3>1, Regrouped
  <2> QED
    BY <1>2, <2>1, Zenon
<1>3. CASE pipe_words = <<>> /\ pipe_words' = <<>> /\ Loaded = put'
  <2>1. Loaded \o <<>> = Loaded /\ <<>> \o put' = put'
    BY <1>1, Joined
  <2> QED
    BY <1>3, <2>1, Zenon
<1> QED
  BY <1>1, <1>2, <1>3, Zenon

LEMMA RegisterStep ==
  ASSUME UInv, HasRegister, UTick
  PROVE  PassedOn /\ QueueInv' /\ RegisterInv'
<1> DEFINE held == IF unload_ack_d /\ read_reg # Zero THEN <<read_reg>> ELSE <<>>
<1>1. EntityFacts /\ entity' = entity /\ form' = form /\ nonblocking' = nonblocking
      /\ HasRegister' /\ register_bypass' = register_bypass
  BY Entity DEF UInv, UTick, form, nonblocking, HasRegister, register_bypass
<1>2. /\ QueueInv' /\ put' \in AtMostSomething /\ Loaded \in AtMostSomething
      /\ load /\ ~nonblocking => load_data # Zero
      /\ \/ \E s \in Seq(Something) : pipe_words = Loaded \o s /\ pipe_words' = s \o put'
         \/ pipe_words = <<>> /\ pipe_words' = <<>> /\ Loaded = put'
  BY RegisterMoves
<1>3. /\ fsm_state \in {"Idle", "Waiting"} /\ read_reg \in Word
      /\ register_bypass => ~unload_ack_d
      /\ unload_ack_d /\ ~nonblocking => read_reg # Zero
      /\ unload_ack_d \in BOOLEAN
  BY DEF UInv, RegisterInv, UsersInv
<1>4. /\ fsm_state' = next_register_state
      /\ read_reg' = IF load THEN load_data ELSE read_reg
      /\ unload_ack_d' <=> load /\ ~register_bypass
  BY DEF UTick, RegisterEdge
<1>5. read_reg' \in Word
  <2>1. CASE load /\ load_data # Zero
    <3>1. Loaded = <<load_data>> /\ \A w : Loaded = <<w>> => load_data = w
      BY <2>1 DEF Loaded
    <3>2. Loaded # <<>>
      BY <3>1
    <3>3. load_data \in Something
      BY <1>2, <3>1, <3>2 DEF AtMostSomething
    <3> QED
      BY <1>4, <2>1, <3>3 DEF Something
  <2> QED
    BY <1>3, <1>4, <2>1, BufferAssumption
<1>6. RegisterInv'
  <2>1. fsm_state' \in {"Idle", "Waiting"}
    BY <1>4 DEF next_register_state
  <2> QED
    BY <1>1, <1>2, <1>4, <1>5, <2>1 DEF RegisterInv
<1>7. contents = held \o pipe_words /\ contents' = held' \o pipe_words'
  BY <1>1 DEF contents, AtHead, HasRegister, form
<1>8. CASE ~register_bypass
  <2>1. got' = held
    <3>1. (unload_ack <=> unload_ack_d) /\ read_data = read_reg
      BY <1>8 DEF unload_ack, read_data, HasRegister
    <3> QED
      BY <1>3, <3>1 DEF UTick
  <2>2. held' = Loaded
    BY <1>2, <1>4, <1>8 DEF Loaded
  <2>3. held \in AtMostSomething
    BY <1>3 DEF AtMostSomething, Something
  <2> HIDE DEF held
  <2>4. contents' = pipe_words \o put'
    BY <1>7, <2>2, LoadedBefore, Zenon
  <2>5. pipe_words \in Seq(Something)
    BY DEF UInv, QueueInv
  <2> QED
    BY <1>2, <1>6, <1>7, <2>1, <2>3, <2>4, <2>5, Zenon DEF PassedOn
<1>9. CASE register_bypass
  <2>1. held = <<>> /\ held' = <<>>
    BY <1>1, <1>3, <1>4, <1>9
  <2>2. got' = Loaded
    <3>1. (unload_ack <=> load) /\ (load => read_data = load_data)
      BY <1>9 DEF unload_ack, read_data, HasRegister
    <3> QED
      BY <1>2, <3>1 DEF UTick, Loaded
  <2> HIDE DEF held
  <2>3. pipe_words \in Seq(Something) /\ pipe_words' \in Seq(Something)
    BY <1>2 DEF UInv, QueueInv
  <2>4. contents = pipe_words /\ contents' = pipe_words'
    <3>1. \A t \in Seq(Something) : <<>> \o t = t
      OBVIOUS
    <3> QED
      BY <1>7, <2>1, <2>3, <3>1, Zenon
  <2> QED
    BY <1>2, <1>6, <2>2, <2>4, Zenon DEF PassedOn
<1> QED
  BY <1>8, <1>9

-----------------------------------------------------------------------------
(* The forms without a register.  The word that was shown stays at the     *)
(* head of the queue until it is popped.                                   *)

Shows == unload_ack /\ pipe # <<>>

HeadIsTracked ==
  /\ AtHead => pipe # <<>> /\ ~Shows
  /\ unload_pop => AtHead \/ Shows
  /\ AtHead' <=> (AtHead \/ Shows) /\ ~unload_pop

(* What stays in the queue at an edge.                                     *)
Staying == IF unload_pop THEN Tail(pipe) ELSE pipe

LEMMA FsmQueue ==
  ASSUME UInv, ~HasRegister, UTick
  PROVE  /\ EntityFacts /\ entity' = entity /\ form' = form /\ ~HasRegister'
         /\ form \in {"revised", "safe", "noblock"}
         /\ pipe \in Seq(Something) /\ pipe_words = pipe /\ pipe_words' = pipe'
         /\ put' \in AtMostSomething
         /\ unload_pop => pipe # <<>>
         /\ Staying \in Seq(Something) /\ pipe' = Staying \o put' /\ QueueInv'
<1>1. /\ EntityFacts /\ entity' = entity /\ form' = form /\ ~HasRegister'
      /\ form \in {"revised", "safe", "noblock"}
  BY Entity DEF UInv, UTick, form, HasRegister, EntityFacts
<1>2. pipe \in Seq(Something) /\ pipe_words = pipe /\ pipe_words' = pipe'
  BY <1>1 DEF UInv, QueueInv, pipe_words
<1>3. /\ write_req \in BOOLEAN /\ (write_req => write_data \in Something)
      /\ fsm_state \in {"DataValid", "WaitOnNext"} => pipe # <<>>
  BY DEF UInv, UsersInv, FsmInv
<1>4. unload_pop \in BOOLEAN /\ (unload_pop => pipe # <<>>)
  BY <1>1, <1>3 DEF unload_pop
<1>5. QueueEdge(write_req, unload_pop) /\ (write_ack <=> push_ack(unload_pop))
  BY <1>1 DEF UTick, FsmEdge, write_ack
<1>6. QueueInv'
  BY <1>1, <1>3, <1>4, <1>5, QueueStep
<1>7. put' = IF write_req /\ push_ack(unload_pop) THEN <<write_data>> ELSE <<>>
  BY <1>5 DEF UTick
<1>8. pipe' = Staying \o put'
  BY <1>1, <1>4, <1>5, <1>7 DEF QueueEdge, Staying, pop_ack
<1>9. Staying \in Seq(Something)
  BY <1>2, <1>4 DEF Staying
<1>10. put' \in AtMostSomething
  BY <1>3, <1>7 DEF AtMostSomething
<1> QED
  BY <1>1, <1>2, <1>4, <1>6, <1>8, <1>9, <1>10

(* A queue that keeps a word, or gets one, is not empty.                   *)
LEMMA FsmFilled ==
  ASSUME UInv, ~HasRegister, UTick
  PROVE  /\ pipe # <<>> /\ ~unload_pop => pipe' # <<>>
         /\ unload_pop /\ next_valid /\ form = "safe" => pipe' # <<>>
<1>1. /\ pipe \in Seq(Something) /\ put' \in Seq(Something)
      /\ Staying \in Seq(Something) /\ pipe' = Staying \o put' /\ EntityFacts
      /\ unload_pop => pipe # <<>>
  BY FsmQueue, OneOrNone
<1>2. pipe' = <<>> => Staying = <<>> /\ put' = <<>>
  <2> DEFINE both == Staying \o put'
  <2>1. Len(both) = Len(Staying) + Len(put') /\ both \in Seq(Something)
    BY <1>1, Joined
  <2>2. pipe' = both
    BY <1>1
  <2> HIDE DEF both
  <2> QED
    BY <1>1, <2>1, <2>2, EmptySeq
<1>3. ASSUME pipe # <<>>, ~unload_pop PROVE pipe' # <<>>
  BY <1>2, <1>3 DEF Staying
<1>4. ASSUME unload_pop, next_valid, form = "safe" PROVE pipe' # <<>>
  <2>1. CASE Len(pipe) > 1
    <3>1. Staying = Tail(pipe) /\ Len(Tail(pipe)) = Len(pipe) - 1
      BY <1>1, <1>4 DEF Staying
    <3>2. Len(pipe) \in Nat /\ Len(<<>>) = 0
      BY <1>1
    <3>3. Staying # <<>>
      BY <2>1, <3>1, <3>2
    <3> QED
      BY <1>2, <3>3
  <2>2. CASE ~(Len(pipe) > 1)
    <3>1. write_req
      BY <1>4, <2>2 DEF next_valid
    <3>2. Len(pipe) < entity.depth
      BY <1>1, <1>4, <2>2, BufferAssumption DEF EntityFacts
    <3>3. write_ack
      BY <1>4, <3>2 DEF write_ack, HasRegister, push_ack
    <3>4. put' = <<write_data>>
      BY <3>1, <3>3 DEF UTick
    <3> QED
      BY <1>2, <3>4
  <2> QED
    BY <2>1, <2>2
<1> QED
  BY <1>3, <1>4

LEMMA RevisedTracks ==
  ASSUME UInv, form = "revised", UTick
  PROVE  HeadIsTracked /\ FsmInv' /\ ShownInv'
<1>1. ~HasRegister /\ ~HasRegister' /\ form' = "revised"
  BY DEF HasRegister, UTick, form
<1>2. /\ fsm_state \in {"Idle", "DataValid", "WaitOnData"}
      /\ fsm_state = "DataValid" => pipe # <<>>
      /\ unload_ack_d => fsm_state = "DataValid"
      /\ unload_ack_d \in BOOLEAN /\ unload_req \in BOOLEAN
      /\ seen => fsm_state # "Idle"
      /\ fsm_state = "WaitOnData" => awaited
  BY <1>1 DEF UInv, FsmInv, UsersInv, ShownInv
<1>3. /\ fsm_state' = UnloadFsm
      /\ unload_ack_d' <=> fsm_state = "Idle" /\ unload_req /\ pipe # <<>>
      /\ seen' <=> seen \/ unload_ack
      /\ awaited' <=> (awaited /\ ~unload_ack) \/ unload_req
  BY <1>1 DEF UTick, FsmEdge, Reader, next_unload_ack_d
<1>4. /\ unload_pop <=> \/ fsm_state = "DataValid" /\ unload_req
                        \/ fsm_state = "WaitOnData" /\ pipe # <<>> /\ unload_req
      /\ unload_ack <=> unload_ack_d \/ (fsm_state = "WaitOnData" /\ pipe # <<>>)
      /\ AtHead <=> fsm_state = "DataValid" /\ ~unload_ack_d
      /\ AtHead' <=> fsm_state' = "DataValid" /\ ~unload_ack_d'
  BY <1>1 DEF unload_pop, unload_ack, AtHead, HasRegister
<1>5. fsm_state' =
        CASE fsm_state = "Idle" /\ unload_req -> IF pipe # <<>> THEN "DataValid" ELSE "WaitOnData"
          [] fsm_state = "DataValid" /\ unload_req -> "WaitOnData"
          [] fsm_state = "WaitOnData" /\ pipe # <<>> /\ ~unload_req -> "DataValid"
          [] OTHER -> fsm_state
  BY <1>3 DEF UnloadFsm
<1>6. pipe # <<>> /\ ~unload_pop => pipe' # <<>>
  BY <1>1, FsmFilled
<1>7. HeadIsTracked
  BY <1>2, <1>3, <1>4, <1>5 DEF HeadIsTracked, Shows
<1>8. /\ fsm_state' \in {"Idle", "DataValid", "WaitOnData"}
      /\ fsm_state' = "DataValid" => pipe' # <<>>
      /\ unload_ack_d' => fsm_state' = "DataValid"
      /\ seen' => fsm_state' # "Idle"
      /\ fsm_state' = "WaitOnData" => awaited'
  BY <1>2, <1>3, <1>4, <1>5, <1>6
<1> QED
  BY <1>1, <1>7, <1>8 DEF FsmInv, ShownInv

LEMMA SafeTracks ==
  ASSUME UInv, form = "safe", UTick
  PROVE  HeadIsTracked /\ FsmInv' /\ ShownInv'
<1>1. ~HasRegister /\ ~HasRegister' /\ form' = "safe"
  BY DEF HasRegister, UTick, form
<1>2. /\ fsm_state \in {"Idle", "DataValid", "WaitOnWrite", "WaitOnNext"}
      /\ fsm_state \in {"DataValid", "WaitOnNext"} => pipe # <<>>
      /\ unload_ack_d => fsm_state = "DataValid"
      /\ unload_ack_d \in BOOLEAN /\ unload_req \in BOOLEAN
      /\ seen => fsm_state \in {"DataValid", "WaitOnNext"}
  BY <1>1 DEF UInv, FsmInv, UsersInv, ShownInv
<1>3. /\ fsm_state' = UnloadFsmSafe
      /\ unload_ack_d' <=> \/ fsm_state \in {"Idle", "WaitOnWrite"} /\ UnloadFsmSafe = "DataValid"
                           \/ unload_pop
      /\ seen' <=> seen \/ unload_ack
  BY <1>1 DEF UTick, FsmEdge, Reader, next_unload_ack_d
<1>4. /\ unload_pop <=> \/ fsm_state = "DataValid" /\ unload_req /\ next_valid
                        \/ fsm_state = "WaitOnNext" /\ next_valid
      /\ unload_ack <=> unload_ack_d
      /\ AtHead <=> fsm_state = "WaitOnNext" \/ (fsm_state = "DataValid" /\ ~unload_ack_d)
      /\ AtHead' <=> fsm_state' = "WaitOnNext" \/ (fsm_state' = "DataValid" /\ ~unload_ack_d')
  BY <1>1 DEF unload_pop, unload_ack, AtHead, HasRegister
<1>5. fsm_state' =
        CASE fsm_state = "Idle" /\ unload_req -> IF pipe # <<>> THEN "DataValid" ELSE "WaitOnWrite"
          [] fsm_state = "WaitOnWrite" /\ pipe # <<>> -> "DataValid"
          [] fsm_state = "WaitOnNext" /\ next_valid -> "DataValid"
          [] fsm_state = "DataValid" /\ unload_req /\ ~next_valid -> "WaitOnNext"
          [] OTHER -> fsm_state
  BY <1>3 DEF UnloadFsmSafe
<1>6. /\ pipe # <<>> /\ ~unload_pop => pipe' # <<>>
      /\ unload_pop /\ next_valid => pipe' # <<>>
  BY <1>1, FsmFilled
<1>7. HeadIsTracked
  BY <1>2, <1>3, <1>4, <1>5 DEF HeadIsTracked, Shows
<1>8. /\ fsm_state' \in {"Idle", "DataValid", "WaitOnWrite", "WaitOnNext"}
      /\ fsm_state' \in {"DataValid", "WaitOnNext"} => pipe' # <<>>
      /\ unload_ack_d' => fsm_state' = "DataValid"
      /\ seen' => fsm_state' \in {"DataValid", "WaitOnNext"}
  BY <1>2, <1>3, <1>4, <1>5, <1>6
<1> QED
  BY <1>1, <1>7, <1>8 DEF FsmInv, ShownInv

LEMMA NoBlockTracks ==
  ASSUME UInv, form = "noblock", UTick
  PROVE  HeadIsTracked /\ FsmInv' /\ ShownInv'
<1>1. ~HasRegister /\ ~HasRegister' /\ form' = "noblock"
  BY DEF HasRegister, UTick, form
<1>2. /\ fsm_state \in {"Idle", "DataValid", "UnloadAck", "ZeroData"}
      /\ fsm_state = "DataValid" => pipe # <<>>
      /\ unload_req \in BOOLEAN
      /\ seen => fsm_state # "Idle"
  BY <1>1 DEF UInv, FsmInv, UsersInv, ShownInv
<1>3. /\ fsm_state' = UnloadFsmNoBlock /\ ~unload_ack_d'
      /\ seen' <=> seen \/ unload_ack
  BY <1>1 DEF UTick, FsmEdge, Reader, next_unload_ack_d
<1>4. /\ unload_pop <=> \/ fsm_state = "DataValid" /\ unload_req
                        \/ fsm_state = "UnloadAck" /\ pipe # <<>> /\ unload_req
      /\ unload_ack <=> fsm_state = "UnloadAck"
      /\ AtHead <=> fsm_state = "DataValid"
      /\ AtHead' <=> fsm_state' = "DataValid"
  BY <1>1 DEF unload_pop, unload_ack, AtHead, HasRegister
<1>5. fsm_state' =
        CASE fsm_state # "UnloadAck" /\ unload_req -> "UnloadAck"
          [] fsm_state = "UnloadAck" /\ ~unload_req -> IF pipe # <<>> THEN "DataValid" ELSE "ZeroData"
          [] OTHER -> fsm_state
  BY <1>3 DEF UnloadFsmNoBlock
<1>6. pipe # <<>> /\ ~unload_pop => pipe' # <<>>
  BY <1>1, FsmFilled
<1>7. HeadIsTracked
  BY <1>2, <1>3, <1>4, <1>5 DEF HeadIsTracked, Shows
<1>8. /\ fsm_state' \in {"Idle", "DataValid", "UnloadAck", "ZeroData"}
      /\ fsm_state' = "DataValid" => pipe' # <<>>
      /\ seen' => fsm_state' # "Idle"
  BY <1>2, <1>3, <1>4, <1>5, <1>6
<1> QED
  BY <1>1, <1>3, <1>7, <1>8 DEF FsmInv, ShownInv

(* Taking the first word of two sequences of which the first has one.      *)
LEMMA TailOfBoth ==
  ASSUME NEW W, NEW s \in Seq(W), NEW t \in Seq(W), s # <<>>
  PROVE  Tail(s \o t) = Tail(s) \o t
<1> DEFINE u == Tail(s)
           x == Head(s)
<1>1. x \in W /\ u \in Seq(W) /\ <<x>> \o u = s
  BY HeadAndTail
<1> HIDE DEF u, x
<1>2. u \o t \in Seq(W) /\ <<x>> \in Seq(W) /\ <<x>> \o (u \o t) = (<<x>> \o u) \o t
  BY <1>1
<1>3. s \o t = <<x>> \o (u \o t)
  BY <1>1, <1>2, Zenon
<1> DEFINE v == u \o t
<1>4. v \in Seq(W)
  BY <1>2
<1> HIDE DEF v
<1>5. Tail(<<x>> \o v) = v
  <2> DEFINE c == <<x>> \o v
  <2>1. /\ c \in Seq(W) /\ Len(c) = 1 + Len(v) /\ Len(v) \in Nat
        /\ \A k \in 1 .. Len(v) : c[1 + k] = v[k]
    BY <1>1, <1>4
  <2> HIDE DEF c
  <2>2. c # <<>>
    BY <2>1
  <2>3. /\ Tail(c) \in Seq(W) /\ Len(Tail(c)) = Len(v)
        /\ \A k \in 1 .. Len(v) : Tail(c)[k] = v[k]
    BY <2>1, <2>2
  <2>4. Tail(c) = v
    BY <1>4, <2>3, SeqEqual
  <2> QED
    BY <2>4 DEF c
<1> QED
  BY <1>3, <1>5 DEF u, v

LEMMA FsmStep ==
  ASSUME UInv, ~HasRegister, UTick
  PROVE  PassedOn /\ QueueInv' /\ FsmInv' /\ ShownInv'
<1>1. /\ EntityFacts /\ form' = form /\ ~HasRegister'
      /\ form \in {"revised", "safe", "noblock"}
      /\ pipe \in Seq(Something) /\ pipe_words = pipe /\ pipe_words' = pipe'
      /\ put' \in AtMostSomething
      /\ unload_pop => pipe # <<>>
      /\ Staying \in Seq(Something) /\ pipe' = Staying \o put' /\ QueueInv'
  BY FsmQueue
<1>2. HeadIsTracked /\ FsmInv' /\ ShownInv'
  BY <1>1, RevisedTracks, SafeTracks, NoBlockTracks
<1>3. got' = IF Shows THEN <<Head(pipe)>> ELSE <<>>
  <2>1. unload_ack /\ form # "noblock" => pipe # <<>>
    BY <1>1 DEF UInv, FsmInv, unload_ack, HasRegister
  <2>2. Shows => read_data = Head(pipe) /\ Head(pipe) # Zero
    <3>1. pipe # <<>> => Head(pipe) # Zero
      BY <1>1 DEF Something
    <3>2. Shows /\ form = "noblock" => fsm_state # "ZeroData"
      BY <1>1 DEF Shows, unload_ack
    <3> QED
      BY <1>1, <3>1, <3>2 DEF Shows, read_data, HasRegister, pipe_data_out
  <2>3. unload_ack /\ ~Shows => nonblocking /\ read_data = Zero
    BY <1>1, <2>1 DEF Shows, read_data, HasRegister, pipe_data_out, EntityFacts
  <2> QED
    BY <2>2, <2>3 DEF UTick, Shows
<1>4. got' \in AtMostSomething
  BY <1>1, <1>3 DEF Shows, AtMostSomething
<1>5. contents = IF AtHead THEN Tail(pipe) ELSE pipe
  <2>1. contents = <<>> \o (IF AtHead THEN Tail(pipe) ELSE pipe)
    BY <1>1 DEF contents
  <2>2. AtHead => pipe # <<>>
    BY <1>2 DEF HeadIsTracked
  <2> DEFINE r == IF AtHead THEN Tail(pipe) ELSE pipe
  <2>3. r \in Seq(Something)
    BY <1>1, <2>2
  <2> HIDE DEF r
  <2>4. <<>> \o r = r
    BY <2>3
  <2> QED
    BY <2>1, <2>4 DEF r
<1>6. put' \in Seq(Something)
  BY <1>1, OneOrNone
<1>7. contents' = IF AtHead' THEN Tail(pipe') ELSE pipe'
  <2>1. contents' = <<>> \o (IF AtHead' THEN Tail(pipe') ELSE pipe')
    BY <1>1 DEF contents
  <2>2. AtHead' => pipe' # <<>>
    BY <1>1, <1>2 DEF FsmInv, AtHead, HasRegister
  <2> DEFINE r == IF AtHead' THEN Tail(pipe') ELSE pipe'
  <2>3. r \in Seq(Something)
    <3>1. pipe' \in Seq(Something)
      BY <1>1, <1>6, Joined
    <3> QED
      BY <2>2, <3>1
  <2> HIDE DEF r
  <2>4. <<>> \o r = r
    BY <2>3
  <2> QED
    BY <2>1, <2>4 DEF r
<1> DEFINE s == IF AtHead \/ Shows THEN Tail(pipe) ELSE pipe
<1>8. AtHead \/ Shows => pipe # <<>>
  BY <1>2 DEF HeadIsTracked, Shows
<1>9. s \in Seq(Something)
  BY <1>1, <1>8
<1>10. contents = got' \o s
  <2>1. CASE Shows
    <3>1. <<Head(pipe)>> \o Tail(pipe) = pipe
      BY <1>1, <1>8, <2>1, HeadAndTail
    <3> QED
      BY <1>2, <1>3, <1>5, <2>1, <3>1 DEF HeadIsTracked
  <2>2. CASE ~Shows
    <3>1. got' = <<>> /\ contents = s
      BY <1>3, <1>5, <2>2
    <3> HIDE DEF s
    <3> QED
      BY <1>9, <3>1
  <2> QED
    BY <2>1, <2>2
<1>11. contents' = s \o put'
  <2>1. CASE unload_pop
    BY <1>1, <1>2, <1>7, <2>1 DEF HeadIsTracked, Staying
  <2>2. CASE ~unload_pop /\ (AtHead \/ Shows)
    <3>1. Tail(pipe \o put') = Tail(pipe) \o put'
      BY <1>1, <1>6, <1>8, <2>2, TailOfBoth
    <3> QED
      BY <1>1, <1>2, <1>7, <2>2, <3>1 DEF HeadIsTracked, Staying
  <2>3. CASE ~unload_pop /\ ~(AtHead \/ Shows)
    BY <1>1, <1>2, <1>7, <2>3 DEF HeadIsTracked, Staying
  <2> QED
    BY <2>1, <2>2, <2>3
<1> HIDE DEF s
<1> QED
  BY <1>1, <1>2, <1>4, <1>9, <1>10, <1>11 DEF PassedOn

-----------------------------------------------------------------------------
(* The invariant.                                                          *)

LEMMA InitUInv ==
  ASSUME UInit
  PROVE  UInv /\ contents = <<>>
<1>1. EntityFacts
  BY Entity DEF UInit
<1>2. /\ fsm_state = "Idle" /\ read_reg = Zero /\ unload_ack_d = FALSE
      /\ write_req = FALSE /\ write_data = Zero /\ unload_req = FALSE /\ seen = FALSE
      /\ entity \in Entities
      /\ pipe = IF form = "deep" THEN InitFifo ELSE <<>>
  BY DEF UInit
<1>3. QueueInv /\ pipe_words = <<>>
  <2>1. CASE form = "deep"
    <3>1. FifoInv(Word, pipe) /\ FifoHolds(pipe) = <<>>
      BY <1>2, <2>1, BufferAssumption, InitFifoInv
    <3> QED
      BY <2>1, <3>1 DEF QueueInv, pipe_words
  <2>2. CASE form # "deep"
    BY <1>1, <1>2, <2>2, BufferAssumption DEF EntityFacts, QueueInv, pipe_words
  <2> QED
    BY <2>1, <2>2
<1>4. UsersInv /\ RegisterInv /\ FsmInv /\ ShownInv
  BY <1>1, <1>2, BufferAssumption
     DEF UsersInv, RegisterInv, FsmInv, ShownInv, EntityFacts, HasRegister
<1>5. contents = <<>>
  <2>1. ~AtHead
    BY <1>1, <1>2 DEF AtHead, EntityFacts
  <2>2. contents = <<>> \o <<>>
    BY <1>2, <1>3, <2>1 DEF contents
  <2> QED
    BY <2>2
<1> QED
  BY <1>2, <1>3, <1>4, <1>5 DEF UInv

LEMMA StepUInv ==
  ASSUME UInv, UTick
  PROVE  UInv' /\ PassedOn
<1>1. entity' = entity /\ entity' \in Entities /\ EntityFacts
      /\ form' = form /\ (HasRegister' <=> HasRegister)
  BY Entity DEF UTick, UInv, form, HasRegister
<1>2. UsersInv'
  <2>1. /\ write_req' \in BOOLEAN /\ unload_req' \in BOOLEAN
        /\ write_data' \in IF write_req' THEN Something ELSE {Zero}
    BY DEF UTick, Writer, Reader, Something
  <2>2. unload_ack_d' \in BOOLEAN
    <3>1. CASE HasRegister
      BY <3>1 DEF UTick, RegisterEdge
    <3>2. CASE ~HasRegister
      <4>1. unload_ack_d' = next_unload_ack_d
        BY <3>2 DEF UTick, FsmEdge
      <4>2. next_unload_ack_d \in BOOLEAN
        BY <1>1 DEF next_unload_ack_d, EntityFacts, unload_pop
      <4> QED
        BY <4>1, <4>2
    <3> QED
      BY <3>1, <3>2
  <2> QED
    BY <2>1, <2>2 DEF UsersInv
<1>3. CASE HasRegister
  <2>1. PassedOn /\ QueueInv' /\ RegisterInv'
    BY <1>3, RegisterStep
  <2>2. FsmInv' /\ ShownInv'
    BY <1>1, <1>3 DEF FsmInv, ShownInv, HasRegister
  <2> QED
    BY <1>1, <1>2, <2>1, <2>2 DEF UInv
<1>4. CASE ~HasRegister
  <2>1. PassedOn /\ QueueInv' /\ FsmInv' /\ ShownInv'
    BY <1>4, FsmStep
  <2>2. RegisterInv'
    BY <1>1, <1>4 DEF RegisterInv
  <2> QED
    BY <1>1, <1>2, <2>1, <2>2 DEF UInv
<1> QED
  BY <1>3, <1>4

LEMMA StutterUInv == UInv /\ UNCHANGED uvars => UInv'
<1> SUFFICES ASSUME UInv, UNCHANGED uvars PROVE UInv'
  OBVIOUS
<1>1. /\ entity' = entity /\ pipe' = pipe /\ fsm_state' = fsm_state
      /\ read_reg' = read_reg /\ unload_ack_d' = unload_ack_d
      /\ write_req' = write_req /\ write_data' = write_data
      /\ unload_req' = unload_req /\ awaited' = awaited /\ seen' = seen
  BY DEF uvars, form_vars
<1>2. /\ form' = form /\ nonblocking' = nonblocking
      /\ (HasRegister' <=> HasRegister) /\ (register_bypass' <=> register_bypass)
  BY <1>1 DEF form, nonblocking, HasRegister, register_bypass
<1>3. pipe_words' = pipe_words
  BY <1>1, <1>2 DEF pipe_words
<1>4. QueueInv'
  BY <1>1, <1>2, <1>3 DEF UInv, QueueInv
<1>5. UsersInv'
  BY <1>1 DEF UInv, UsersInv
<1>6. RegisterInv'
  BY <1>1, <1>2 DEF UInv, RegisterInv
<1>7. FsmInv'
  BY <1>1, <1>2 DEF UInv, FsmInv
<1>8. ShownInv'
  BY <1>1, <1>2 DEF UInv, ShownInv
<1> QED
  BY <1>1, <1>4, <1>5, <1>6, <1>7, <1>8 DEF UInv

(* What the queue, the state machine and the register know of each other   *)
(* in the unload buffer, in each of its forms.                             *)
THEOREM Consistency == USpec => []UInv
<1>1. UInit => UInv
  BY InitUInv
<1>2. UInv /\ [UTick]_uvars => UInv'
  BY StepUInv, StutterUInv
<1> QED
  BY <1>1, <1>2, PTL DEF USpec

-----------------------------------------------------------------------------
(* The buffer is a pipe.                                                   *)

Fits == contents \in Seq(Word) /\ Len(contents) <= QueueDepth + 2

LEMMA ContentsFit == UInv => Fits
<1> SUFFICES ASSUME UInv PROVE Fits
  OBVIOUS
<1> DEFINE held == IF HasRegister /\ unload_ack_d /\ read_reg # Zero THEN <<read_reg>> ELSE <<>>
           rest == IF AtHead THEN Tail(pipe_words) ELSE pipe_words
<1>1. EntityFacts /\ QueueDepth \in Nat \ {0}
  BY Entity, BufferAssumption DEF UInv
<1>2. pipe_words \in Seq(Something)
  BY DEF UInv, QueueInv
<1>3. pipe_words \in Seq(Word)
  <2>1. Something \subseteq Word
    BY DEF Something
  <2> QED
    BY <1>2, <2>1
<1>4. Len(pipe_words) <= QueueDepth + 1
  <2>1. CASE form = "deep"
    <3>1. FifoInv(Word, pipe) /\ pipe_words = FifoHolds(pipe)
      BY <2>1 DEF UInv, QueueInv, pipe_words
    <3> QED
      BY <1>1, <3>1, FifoHoldsType
  <2>2. CASE form # "deep"
    BY <1>1, <1>2, <2>2 DEF UInv, QueueInv, pipe_words, EntityFacts
  <2> QED
    BY <2>1, <2>2
<1>5. AtHead => pipe_words # <<>>
  BY <1>1 DEF AtHead, UInv, FsmInv, HasRegister, pipe_words, EntityFacts
<1>6. rest \in Seq(Word) /\ Len(rest) <= QueueDepth + 1
  <2>1. CASE AtHead
    BY <1>1, <1>3, <1>4, <1>5, <2>1, HeadAndTail
  <2>2. CASE ~AtHead
    BY <1>3, <1>4, <2>2
  <2> QED
    BY <2>1, <2>2
<1>7. held = <<>> \/ \E w \in Word : held = <<w>>
  BY DEF UInv, RegisterInv
<1>8. contents = held \o rest
  BY DEF contents
<1> HIDE DEF held, rest
<1>9. held \in Seq(Word) /\ Len(held) <= 1
  <2>1. held \in Seq(Word) /\ Len(held) = IF held = <<>> THEN 0 ELSE 1
    BY <1>7, AtMostOne, Zenon
  <2> QED
    BY <2>1
<1>10. held \o rest \in Seq(Word) /\ Len(held \o rest) = Len(held) + Len(rest)
  BY <1>6, <1>9, Joined
<1> QED
  BY <1>1, <1>6, <1>8, <1>9, <1>10 DEF Fits

LEMMA ContentsFitNext == UInv' => Fits'
BY ContentsFit, PTL

LEMMA BufferStep ==
  ASSUME UInv, UInv', PassedOn
  PROVE  Buffer!Next
<1>1. Fits /\ Fits' /\ QueueDepth \in Nat
  BY ContentsFit, ContentsFitNext, BufferAssumption
<1>2. /\ got' = <<>> \/ \E w \in Word : got' = <<w>>
      /\ put' = <<>> \/ \E w \in Word : put' = <<w>>
  BY DEF PassedOn, AtMostSomething, Something
<1>3. ASSUME NEW s \in Seq(Something), contents = got' \o s, contents' = s \o put'
      PROVE  Buffer!Next
  <2>1. s \in Seq(Word)
    <3>1. Something \subseteq Word
      BY DEF Something
    <3> QED
      BY <3>1
  <2>2. OneStep(Word, got' \o s, s \o put', got', put')
    BY <1>2, <2>1, ByOne
  <2>3. OneStep(Word, contents, contents', got', put')
    BY <1>3, <2>2, Zenon
  <2>4. CASE got' = <<>> /\ put' = <<>> /\ contents' = contents
    BY <2>4 DEF Buffer!Next, Buffer!Idle
  <2>5. ASSUME NEW w \in Word, got' = <<>>, put' = <<w>>, contents' = Append(contents, w)
        PROVE  Buffer!Next
    <3>1. Len(Append(contents, w)) = Len(contents) + 1 /\ Len(contents) \in Nat
      BY <1>1 DEF Fits
    <3>2. Len(Append(contents, w)) <= QueueDepth + 2
      BY <1>1, <2>5, Zenon DEF Fits
    <3>3. Len(contents) < QueueDepth + 2
      BY <1>1, <3>1, <3>2
    <3>4. Buffer!Put(w)
      BY <2>5, <3>3, Zenon DEF Buffer!Put
    <3> QED
      BY <3>4, Zenon DEF Buffer!Next
  <2>6. ASSUME contents # <<>>, got' = SubSeq(contents, 1, 1), put' = <<>>,
               contents' = SubSeq(contents, 2, Len(contents))
        PROVE  Buffer!Next
    <3>1. Buffer!Get
      BY <2>6 DEF Buffer!Get, Buffer!Oldest, Buffer!Rest
    <3> QED
      BY <3>1, Zenon DEF Buffer!Next
  <2>7. ASSUME NEW w \in Word, contents # <<>>, got' = SubSeq(contents, 1, 1), put' = <<w>>,
               contents' = Append(SubSeq(contents, 2, Len(contents)), w)
        PROVE  Buffer!Next
    <3>1. Buffer!PutAndGet(w)
      BY <2>7 DEF Buffer!PutAndGet, Buffer!Oldest, Buffer!Rest
    <3> QED
      BY <3>1, Zenon DEF Buffer!Next
  <2> QED
    BY <2>3, <2>4, <2>5, <2>6, <2>7, Zenon DEF OneStep
<1>4. CASE contents = <<>> /\ contents' = <<>> /\ put' = got'
  <2>1. CASE put' = <<>>
    BY <1>4, <2>1 DEF Buffer!Next, Buffer!Idle
  <2>2. ASSUME NEW w \in Word, put' = <<w>>
        PROVE  Buffer!Next
    <3>1. Buffer!PassThrough(w)
      BY <1>4, <2>2 DEF Buffer!PassThrough
    <3> QED
      BY <3>1, Zenon DEF Buffer!Next
  <2> QED
    BY <1>2, <2>1, <2>2
<1> QED
  BY <1>3, <1>4, Zenon DEF PassedOn

(* An unload buffer of any size and any form, with its words in a queue,   *)
(* a deep FIFO, a register or on their way to the reader, hands out the    *)
(* words that were written, in their order, none lost and none twice.      *)
THEOREM EveryUnloadBufferIsAPipe == USpec => UnloadBuffersArePipes
<1>1. UInit => Buffer!Init
  BY InitUInv DEF UInit, Buffer!Init
<1>2. UInv /\ UInv' /\ [UTick]_uvars => [[Buffer!Next]_<<contents, put, got>>]_uvars
  BY StepUInv, BufferStep
<1> QED
  BY <1>1, <1>2, Consistency, PTL DEF USpec, UnloadBuffersArePipes

-----------------------------------------------------------------------------
(* What the reader sees stays.                                             *)

Held ==
  IF HasRegister \/ form = "safe"
  THEN Shown /\ ~unload_ack' => read_data' = read_data
  ELSE Shown /\ (awaited => unload_ack) /\ ~unload_req => read_data' = read_data

LEMMA RegisterHolds ==
  ASSUME UInv, HasRegister, UTick, ~unload_ack'
  PROVE  read_data' = read_data
<1>1. HasRegister' /\ (register_bypass' <=> register_bypass)
  BY DEF UTick, form, HasRegister, register_bypass
<1>2. /\ read_reg' = IF load THEN load_data ELSE read_reg
      /\ unload_ack_d' <=> load /\ ~register_bypass
  BY DEF UTick, RegisterEdge
<1>3. CASE register_bypass
  <2>1. read_data = read_reg'
    BY <1>2, <1>3 DEF read_data, HasRegister
  <2>2. read_data' = read_reg'
    BY <1>1, <1>3 DEF read_data, unload_ack, HasRegister
  <2> QED
    BY <2>1, <2>2
<1>4. CASE ~register_bypass
  <2>1. ~load
    BY <1>1, <1>2, <1>4 DEF unload_ack, HasRegister
  <2> QED
    BY <1>1, <1>2, <1>4, <2>1 DEF read_data, HasRegister
<1> QED
  BY <1>3, <1>4

(* Without a pop the head of the queue stays.                              *)
LEMMA HeadHolds ==
  ASSUME UInv, ~HasRegister, UTick, ~unload_pop, pipe # <<>>
  PROVE  pipe' # <<>> /\ pipe_data_out' = pipe_data_out
<1>1. /\ pipe \in Seq(Something) /\ put' \in Seq(Something) /\ pipe' = pipe \o put'
      /\ form # "deep" /\ form' # "deep"
  BY FsmQueue, OneOrNone DEF Staying, HasRegister
<1> DEFINE both == pipe \o put'
<1>2. /\ both \in Seq(Something) /\ Len(both) = Len(pipe) + Len(put')
      /\ Len(pipe) \in Nat \ {0} /\ Len(put') \in Nat /\ both[1] = pipe[1]
  BY <1>1
<1> HIDE DEF both
<1>3. both # <<>> /\ Head(both) = Head(pipe)
  BY <1>1, <1>2
<1> QED
  BY <1>1, <1>3 DEF both, pipe_data_out

LEMMA FsmHolds ==
  ASSUME UInv, ~HasRegister, UTick
  PROVE  Held
<1>1. /\ form' = form /\ ~HasRegister' /\ form \in {"revised", "safe", "noblock"}
  BY FsmQueue
<1>2. CASE form = "safe"
  <2> SUFFICES ASSUME Shown, ~unload_ack'
               PROVE  read_data' = read_data
    BY <1>2 DEF Held
  <2>1. pipe # <<>>
    BY <1>1, <1>2 DEF Shown, unload_ack, UInv, FsmInv, ShownInv
  <2>2. ~unload_pop
    <3>1. unload_ack_d' <=> next_unload_ack_d
      BY <1>1 DEF UTick, FsmEdge
    <3>2. ~unload_ack_d'
      BY <1>1, <1>2 DEF unload_ack
    <3> QED
      BY <1>2, <3>1, <3>2 DEF next_unload_ack_d
  <2> QED
    BY <1>1, <1>2, <2>1, <2>2, HeadHolds DEF read_data, HasRegister
<1>3. CASE form = "revised"
  <2> SUFFICES ASSUME Shown, awaited => unload_ack, ~unload_req
               PROVE  read_data' = read_data
    BY <1>1, <1>3 DEF Held
  <2>1. pipe # <<>>
    BY <1>1, <1>3 DEF Shown, unload_ack, UInv, FsmInv, ShownInv
  <2>2. ~unload_pop
    BY <1>3 DEF unload_pop
  <2> QED
    BY <1>1, <1>3, <2>1, <2>2, HeadHolds DEF read_data, HasRegister
<1>4. CASE form = "noblock"
  <2> SUFFICES ASSUME Shown, ~unload_req
               PROVE  read_data' = read_data
    BY <1>1, <1>4 DEF Held
  <2>1. fsm_state \in {"DataValid", "UnloadAck", "ZeroData"}
        /\ (fsm_state = "DataValid" => pipe # <<>>)
    BY <1>1, <1>4 DEF Shown, unload_ack, UInv, FsmInv, ShownInv
  <2>2. ~unload_pop /\ fsm_state' = UnloadFsmNoBlock
    BY <1>1, <1>4 DEF unload_pop, UTick, FsmEdge
  <2>3. fsm_state' = IF fsm_state # "UnloadAck" THEN fsm_state
                     ELSE IF pipe # <<>> THEN "DataValid" ELSE "ZeroData"
    BY <2>2 DEF UnloadFsmNoBlock
  <2>4. /\ read_data = IF fsm_state = "ZeroData" THEN Zero ELSE pipe_data_out
        /\ read_data' = IF fsm_state' = "ZeroData" THEN Zero ELSE pipe_data_out'
    BY <1>1, <1>4 DEF read_data, HasRegister
  <2>5. pipe = <<>> => pipe_data_out = Zero
    BY <1>4 DEF pipe_data_out
  <2> QED
    BY <1>1, <2>1, <2>2, <2>3, <2>4, <2>5, HeadHolds
<1> QED
  BY <1>1, <1>2, <1>3, <1>4

(* Whatever the form, read_data shows the word that was acknowledged until *)
(* the next acknowledge, or at least until the next request.               *)
THEOREM EveryUnloadBufferHolds == USpec => ReadDataIsHeld
<1>1. UInv /\ [UTick]_uvars => [Held]_uvars
  <2>1. ASSUME UInv, UTick PROVE Held
    <3>1. CASE HasRegister
      BY <2>1, <3>1, RegisterHolds DEF Held
    <3>2. CASE ~HasRegister
      BY <2>1, <3>2, FsmHolds
    <3> QED
      BY <3>1, <3>2
  <2> QED
    BY <2>1
<1> QED
  BY <1>1, Consistency, PTL DEF USpec, ReadDataIsHeld, Held
=============================================================================
