-------------------------- MODULE QueueBase_proof --------------------------
(***************************************************************************)
(* Proofs about QueueBase, for every queue_depth, with and without the     *)
(* reverse bypass, and for every set of words.                             *)
(***************************************************************************)
EXTENDS QueueBase, SequenceTheorems, TLAPS

(* The inductive invariant: a queue of depth 1 has no state in between,    *)
(* and a queue of depth 0 no state at all.                                 *)
IInv ==
  /\ TypeOK
  /\ FlagsMatchPointers
  /\ QueueDepth = 1 => fsm_state # "INBETWEEN"
  /\ QueueDepth = 0 => fsm_state = "EMPTY" /\ read_pointer = 0 /\ write_pointer = 0

(* Pointers stay within the ring (QueueBase.vhd:110-133).                  *)
LEMMA IncrWrapType ==
  ASSUME QueueDepth > 0, NEW x \in Places
  PROVE  IncrWrap(x) \in Places
BY QueueDepthAssumption DEF IncrWrap, Places

LEMMA InitIInv == Init => IInv
BY QueueDepthAssumption, ZeroIsAWord
   DEF Init, IInv, TypeOK, FlagsMatchPointers, Places

(* One edge of the clock keeps the invariant, whatever the environment     *)
(* requests.                                                               *)
LEMMA TickIInv ==
  ASSUME IInv, NEW push_req \in BOOLEAN, NEW pop_req \in BOOLEAN,
         NEW data_in \in Word, Tick(push_req, data_in, pop_req)
  PROVE  IInv'
<1> DEFINE w == push(push_req, pop_req)
           r == pop(push_req, pop_req)
<1> USE QueueDepthAssumption
<1>1. put' \in {<<>>} \union {<<x>> : x \in Word}
  BY DEF Tick
<1>2. CASE QueueDepth = 0
  <2>1. got' \in {<<>>} \union {<<x>> : x \in Word}
    BY <1>2 DEF Tick, data_out
  <2> QED
    BY <1>1, <1>2, <2>1 DEF Tick, IInv, TypeOK, FlagsMatchPointers, queue
<1>3. CASE QueueDepth > 0
  <2>1. Clock(w, r, data_in)
    BY <1>3 DEF Tick
  <2>2. read_pointer \in Places /\ write_pointer \in Places
    BY <1>3 DEF IInv, TypeOK
  <2>3. read_pointer' \in Places /\ write_pointer' \in Places
    BY <1>3, <2>1, <2>2, IncrWrapType DEF Clock
  <2>4. queue_array' \in [Places -> Word]
    BY <2>1, <2>2 DEF Clock, IInv, TypeOK
  <2>5. got' \in {<<>>} \union {<<x>> : x \in Word}
    BY <1>3, <2>2 DEF Tick, data_out, IInv, TypeOK
  <2>6. fsm_state' \in {"EMPTY", "INBETWEEN", "FULL"}
    BY <2>1 DEF Clock, next_fsm_state, next_full_flag, IInv, TypeOK
  <2>7. QueueDepth = 1 => fsm_state' # "INBETWEEN"
    BY <2>1 DEF Clock, next_full_flag, IInv
  <2>8. FlagsMatchPointers'
    <3> SUFFICES ASSUME QueueDepth > 1
                 PROVE  fsm_state' = "INBETWEEN" <=> read_pointer' # write_pointer'
      BY DEF FlagsMatchPointers
    <3>1. fsm_state' = next_fsm_state(w, r, read_pointer' = write_pointer')
      BY <2>1 DEF Clock
    <3>2. /\ r => fsm_state # "EMPTY"
          /\ w => fsm_state # "FULL" \/ r
      BY <1>3 DEF push, pop, push_ack, pop_ack, full, empty
    <3>3. /\ read_pointer' = IF r THEN IncrWrap(read_pointer) ELSE read_pointer
          /\ write_pointer' = IF w THEN IncrWrap(write_pointer) ELSE write_pointer
      BY <2>1 DEF Clock
    <3>4. fsm_state = "INBETWEEN" <=> read_pointer # write_pointer
      BY DEF IInv, FlagsMatchPointers
    <3>5. fsm_state \in {"EMPTY", "INBETWEEN", "FULL"}
      BY DEF IInv, TypeOK
    <3> HIDE DEF w, r
    <3> QED
      BY <2>2, <3>1, <3>2, <3>3, <3>4, <3>5 DEF next_fsm_state, IncrWrap, Places
  <2> QED
    BY <1>1, <1>3, <2>3, <2>4, <2>5, <2>6, <2>7, <2>8 DEF IInv, TypeOK, Places
<1> QED
  BY <1>2, <1>3

LEMMA StutterIInv == IInv /\ UNCHANGED vars => IInv'
BY DEF IInv, TypeOK, FlagsMatchPointers, vars, queue

THEOREM Invariance == Spec => []IInv
<1>1. IInv /\ [Next]_vars => IInv'
  BY TickIInv, StutterIInv DEF Next
<1> QED
  BY InitIInv, <1>1, PTL DEF Spec

(* The pointers stay in the ring, and the words in the array are words, at *)
(* every depth (QueueBase.vhd:110-133).                                    *)
THEOREM Typing == Spec => []TypeOK
<1>1. IInv => TypeOK
  BY DEF IInv
<1> QED
  BY Invariance, <1>1, PTL

(* The empty/full state machine, which never counts, agrees with the       *)
(* pointers at every depth (QueueEmptyFullLogic.vhd:26-45).                *)
THEOREM FlagsAreRight == Spec => [](TypeOK /\ FlagsMatchPointers)
<1>1. IInv => TypeOK /\ FlagsMatchPointers
  BY DEF IInv
<1> QED
  BY Invariance, <1>1, PTL

-----------------------------------------------------------------------------
(* The queue implements the pipe.                                          *)

(* The words held are a sequence of at most queue_depth words.             *)
ContentsFacts ==
  /\ Held \in 0 .. QueueDepth
  /\ \A k \in 0 .. QueueDepth - 1 : Slot(k) \in Places
  /\ contents \in Seq(Word)
  /\ Len(contents) = Held
  /\ \A k \in 1 .. Held : contents[k] = queue_array[Slot(k - 1)]

LEMMA ContentsType == IInv => ContentsFacts
<1> USE QueueDepthAssumption
<1> HAVE IInv
<1>1. Held \in 0 .. QueueDepth
  <2>1. CASE QueueDepth <= 1
    BY <2>1 DEF IInv, TypeOK, Held, Distance
  <2>2. CASE QueueDepth > 1
    BY <2>2 DEF IInv, TypeOK, Held, Distance, Places
  <2> QED
    BY <2>1, <2>2
<1>2. ASSUME NEW k \in 0 .. QueueDepth - 1
      PROVE  Slot(k) \in Places
  BY DEF IInv, TypeOK, Slot, Places
<1>3. \A k \in 1 .. Held : queue_array[Slot(k - 1)] \in Word
  <2> SUFFICES ASSUME NEW k \in 1 .. Held
               PROVE  queue_array[Slot(k - 1)] \in Word
    OBVIOUS
  <2>1. k - 1 \in 0 .. QueueDepth - 1
    BY <1>1
  <2> QED
    BY <1>2, <2>1 DEF IInv, TypeOK
<1>4. contents \in [1 .. Held -> Word]
  BY <1>3 DEF contents
<1>5. contents \in Seq(Word) /\ Len(contents) = Held
  BY <1>1, <1>4
<1> QED
  BY <1>1, <1>2, <1>5 DEF contents, ContentsFacts

LEMMA ContentsTypeNext == IInv' => ContentsFacts'
BY ContentsType, PTL

(* What an edge of the clock does to the number of words held and to the   *)
(* places they are in.                                                     *)
LEMMA TickHeld ==
  ASSUME QueueDepth > 0, IInv, NEW push_req \in BOOLEAN, NEW pop_req \in BOOLEAN,
         NEW data_in \in Word, Tick(push_req, data_in, pop_req),
         NEW w \in BOOLEAN, w <=> push(push_req, pop_req),
         NEW r \in BOOLEAN, r <=> pop(push_req, pop_req)
  PROVE  /\ Held' = Held + (IF w THEN 1 ELSE 0) - (IF r THEN 1 ELSE 0)
         /\ w => Held < QueueDepth \/ r
         /\ r => Held > 0
         /\ Held < QueueDepth => write_pointer = Slot(Held)
         /\ Held = QueueDepth => write_pointer = read_pointer
         /\ r => got' = <<queue_array[read_pointer]>>
         /\ ~r => got' = <<>>
         /\ w => put' = <<data_in>>
         /\ ~w => put' = <<>>
         /\ w => queue_array' = [queue_array EXCEPT ![write_pointer] = data_in]
         /\ ~w => queue_array' = queue_array
         /\ read_pointer' = IF r THEN IncrWrap(read_pointer) ELSE read_pointer
<1> USE QueueDepthAssumption
<1>0. w = push(push_req, pop_req) /\ r = pop(push_req, pop_req)
  BY DEF push, pop
<1>1. Clock(w, r, data_in)
  BY <1>0 DEF Tick
<1>2. /\ r => fsm_state # "EMPTY"
      /\ w => fsm_state # "FULL" \/ r
  BY DEF push, pop, push_ack, pop_ack, full, empty
<1>3. /\ read_pointer' = IF r THEN IncrWrap(read_pointer) ELSE read_pointer
      /\ write_pointer' = IF w THEN IncrWrap(write_pointer) ELSE write_pointer
      /\ w => queue_array' = [queue_array EXCEPT ![write_pointer] = data_in]
      /\ ~w => queue_array' = queue_array
  BY <1>1, <1>2 DEF Clock
<1>4. /\ r => got' = <<queue_array[read_pointer]>>
      /\ ~r => got' = <<>>
      /\ w => put' = <<data_in>>
      /\ ~w => put' = <<>>
  BY <1>2 DEF Tick, data_out
<1>5. /\ read_pointer \in Places /\ write_pointer \in Places
      /\ fsm_state \in {"EMPTY", "INBETWEEN", "FULL"}
      /\ QueueDepth = 1 => fsm_state # "INBETWEEN"
      /\ QueueDepth > 1 => (fsm_state = "INBETWEEN" <=> read_pointer # write_pointer)
  BY DEF IInv, TypeOK, FlagsMatchPointers
<1>6. CASE QueueDepth = 1
  <2>1. fsm_state' = next_full_flag(w, r)
    BY <1>1, <1>6 DEF Clock
  <2>2. read_pointer = 0 /\ write_pointer = 0
    BY <1>5, <1>6 DEF Places
  <2> QED
    BY <1>2, <1>3, <1>4, <1>5, <1>6, <2>1, <2>2
       DEF next_full_flag, Held, Slot, Distance
<1>7. CASE QueueDepth > 1
  <2>1. fsm_state' = next_fsm_state(w, r, read_pointer' = write_pointer')
    BY <1>1, <1>7 DEF Clock
  <2>2. Held' = Held + (IF w THEN 1 ELSE 0) - (IF r THEN 1 ELSE 0)
    BY <1>2, <1>3, <1>5, <1>7, <2>1
       DEF next_fsm_state, Held, Distance, IncrWrap, Places
  <2>3. /\ w => Held < QueueDepth \/ r
        /\ r => Held > 0
        /\ Held < QueueDepth => write_pointer = Slot(Held)
        /\ Held = QueueDepth => write_pointer = read_pointer
    BY <1>2, <1>5, <1>7 DEF Held, Distance, Slot, Places
  <2> QED
    BY <1>3, <1>4, <2>2, <2>3
<1> QED
  BY <1>6, <1>7

(* A word that stays keeps its value and moves up when one has left.       *)
LEMMA TickSlots ==
  ASSUME QueueDepth > 0, IInv,
         read_pointer' \in Places,
         NEW r \in BOOLEAN,
         read_pointer' = IF r THEN IncrWrap(read_pointer) ELSE read_pointer,
         Held < QueueDepth => write_pointer = Slot(Held),
         Held = QueueDepth => write_pointer = read_pointer
  PROVE  /\ ~r => \A k \in 0 .. QueueDepth - 1 : Slot(k)' = Slot(k)
         /\ r => \A k \in 0 .. QueueDepth - 2 : Slot(k)' = Slot(k + 1)
         /\ r => Slot(QueueDepth - 1)' = read_pointer
         /\ \A k \in 0 .. QueueDepth - 1 :
              (k < Held /\ (Held < QueueDepth \/ k > 0)) => Slot(k) # write_pointer
<1> USE QueueDepthAssumption
<1>1. read_pointer \in Places /\ write_pointer \in Places
  BY DEF IInv, TypeOK
<1>2. Held \in 0 .. QueueDepth
  BY ContentsType DEF ContentsFacts
<1> QED
  BY <1>1, <1>2 DEF Slot, IncrWrap, Places

(* Every edge of the clock is a step of the abstract pipe, or none.        *)
LEMMA TickRefines ==
  ASSUME IInv, IInv', NEW push_req \in BOOLEAN, NEW pop_req \in BOOLEAN,
         NEW data_in \in Word, Tick(push_req, data_in, pop_req)
  PROVE  Pipe!Next
<1> USE QueueDepthAssumption
<1>1. CASE QueueDepth = 0
  <2>1. contents = <<>> /\ contents' = <<>>
    BY <1>1, ContentsType, QueueDepth' = QueueDepth DEF IInv, Held, contents
  <2>2. push(push_req, pop_req) = pop(push_req, pop_req)
    BY <1>1 DEF push, pop, push_ack, pop_ack
  <2>3. CASE push(push_req, pop_req)
    <3>1. put' = <<data_in>> /\ got' = <<data_in>>
      BY <1>1, <2>2, <2>3 DEF Tick, data_out
    <3>2. Pipe!PassThrough(data_in)
      BY <2>1, <3>1 DEF Pipe!PassThrough
    <3> QED
      BY <3>2 DEF Pipe!Next
  <2>4. CASE ~push(push_req, pop_req)
    <3>1. put' = <<>> /\ got' = <<>>
      BY <1>1, <2>2, <2>4 DEF Tick
    <3> QED
      BY <2>1, <3>1 DEF Pipe!Idle, Pipe!Next
  <2> QED
    BY <2>3, <2>4
<1>2. CASE QueueDepth > 0
  <2> DEFINE w == push(push_req, pop_req)
             r == pop(push_req, pop_req)
  <2>1. w \in BOOLEAN /\ r \in BOOLEAN
    BY DEF push, pop
  <2>2. /\ Held' = Held + (IF w THEN 1 ELSE 0) - (IF r THEN 1 ELSE 0)
        /\ w => Held < QueueDepth \/ r
        /\ r => Held > 0
        /\ Held < QueueDepth => write_pointer = Slot(Held)
        /\ Held = QueueDepth => write_pointer = read_pointer
        /\ r => got' = <<queue_array[read_pointer]>>
        /\ ~r => got' = <<>>
        /\ w => put' = <<data_in>>
        /\ ~w => put' = <<>>
        /\ w => queue_array' = [queue_array EXCEPT ![write_pointer] = data_in]
        /\ ~w => queue_array' = queue_array
        /\ read_pointer' = IF r THEN IncrWrap(read_pointer) ELSE read_pointer
    BY <1>2, <2>1, TickHeld
  <2>3. /\ Held \in 0 .. QueueDepth
        /\ \A k \in 0 .. QueueDepth - 1 : Slot(k) \in Places
        /\ contents \in Seq(Word)
        /\ Len(contents) = Held
        /\ \A k \in 1 .. Held : contents[k] = queue_array[Slot(k - 1)]
    BY ContentsType DEF ContentsFacts
  <2>4. /\ Held' \in 0 .. QueueDepth
        /\ \A k \in 0 .. QueueDepth - 1 : Slot(k)' \in Places
        /\ contents' \in Seq(Word)
        /\ Len(contents') = Held'
        /\ \A k \in 1 .. Held' : contents'[k] = queue_array'[Slot(k - 1)']
    BY ContentsTypeNext DEF ContentsFacts, Places
  <2>5. /\ ~r => \A k \in 0 .. QueueDepth - 1 : Slot(k)' = Slot(k)
        /\ r => \A k \in 0 .. QueueDepth - 2 : Slot(k)' = Slot(k + 1)
        /\ r => Slot(QueueDepth - 1)' = read_pointer
        /\ \A k \in 0 .. QueueDepth - 1 :
             (k < Held /\ (Held < QueueDepth \/ k > 0)) => Slot(k) # write_pointer
    <3>1. read_pointer' \in Places
      BY <1>2 DEF IInv, TypeOK, Places
    <3> QED
      BY <1>2, <2>1, <2>2, <3>1, TickSlots
  <2>6. queue_array \in [Places -> Word] /\ write_pointer \in Places
        /\ read_pointer \in Places
    BY <1>2 DEF IInv, TypeOK
  <2> HIDE DEF w, r
  <2>7. CASE ~w /\ ~r
    <3>1. contents' = contents
      BY <2>2, <2>3, <2>4, <2>5, <2>7, SeqEqual
    <3> QED
      BY <2>2, <2>7, <3>1 DEF Pipe!Idle, Pipe!Next
  <2>8. CASE w /\ ~r
    <3>1. ASSUME NEW k \in 1 .. Held
          PROVE  contents'[k] = contents[k]
      <4>1. /\ k - 1 \in 0 .. QueueDepth - 1 /\ k - 1 < Held /\ Held < QueueDepth
            /\ k \in 1 .. Held'
        BY <2>2, <2>3, <2>8
      <4>2. Slot(k - 1)' = Slot(k - 1) /\ Slot(k - 1) # write_pointer
            /\ Slot(k - 1) \in Places
        BY <2>3, <2>5, <2>8, <4>1
      <4>3. contents'[k] = queue_array'[Slot(k - 1)]
        BY <2>4, <4>1, <4>2
      <4> QED
        BY <2>2, <2>3, <2>6, <2>8, <4>2, <4>3
    <3>2. contents'[Held + 1] = data_in
      BY <2>2, <2>3, <2>4, <2>5, <2>6, <2>8
    <3>3. contents' = Append(contents, data_in)
      BY <2>2, <2>3, <2>4, <2>8, <3>1, <3>2, SeqEqual
    <3> QED
      BY <2>2, <2>3, <2>8, <3>3 DEF Pipe!Put, Pipe!Next
  <2>9. CASE ~w /\ r
    <3>1. ASSUME NEW k \in 1 .. Held - 1
          PROVE  contents'[k] = contents[k + 1]
      <4>1. /\ k - 1 \in 0 .. QueueDepth - 2 /\ k \in 0 .. QueueDepth - 1
            /\ k < Held /\ k > 0 /\ k \in 1 .. Held' /\ k + 1 \in 1 .. Held
            /\ (k - 1) + 1 = k /\ (k + 1) - 1 = k
        BY <2>2, <2>3, <2>9
      <4>2. Slot(k - 1)' = Slot(k) /\ Slot(k) # write_pointer
            /\ Slot(k) \in Places
        BY <2>3, <2>5, <2>9, <4>1
      <4>3. contents'[k] = queue_array'[Slot(k)]
        BY <2>4, <4>1, <4>2
      <4>4. contents[k + 1] = queue_array[Slot(k)]
        BY <2>3, <4>1
      <4> QED
        BY <2>2, <2>6, <2>9, <4>2, <4>3, <4>4
    <3>2. contents' = SubSeq(contents, 2, Len(contents))
      BY <2>2, <2>3, <2>4, <2>9, <3>1, SeqEqual
    <3>3. got' = SubSeq(contents, 1, 1)
      <4>1. contents[1] = queue_array[read_pointer]
        BY <2>2, <2>3, <2>6, <2>9 DEF Slot, Places
      <4> QED
        BY <2>2, <2>3, <2>9, <4>1
    <3> QED
      BY <2>2, <2>3, <2>9, <3>2, <3>3
         DEF Pipe!Get, Pipe!Oldest, Pipe!Rest, Pipe!Next
  <2>10. CASE w /\ r
    <3>1. ASSUME NEW k \in 1 .. Held - 1
          PROVE  contents'[k] = contents[k + 1]
      <4>1. /\ k - 1 \in 0 .. QueueDepth - 2 /\ k \in 0 .. QueueDepth - 1
            /\ k < Held /\ k > 0 /\ k \in 1 .. Held' /\ k + 1 \in 1 .. Held
            /\ (k - 1) + 1 = k /\ (k + 1) - 1 = k
        BY <2>2, <2>3, <2>10
      <4>2. Slot(k - 1)' = Slot(k) /\ Slot(k) # write_pointer
            /\ Slot(k) \in Places
        BY <2>3, <2>5, <2>10, <4>1
      <4>3. contents'[k] = queue_array'[Slot(k)]
        BY <2>4, <4>1, <4>2
      <4>4. contents[k + 1] = queue_array[Slot(k)]
        BY <2>3, <4>1
      <4> QED
        BY <2>2, <2>6, <2>10, <4>2, <4>3, <4>4
    <3>2. contents'[Held] = data_in
      BY <2>2, <2>3, <2>4, <2>5, <2>6, <2>10
    <3>3. contents' = Append(SubSeq(contents, 2, Len(contents)), data_in)
      BY <2>2, <2>3, <2>4, <2>10, <3>1, <3>2, SeqEqual
    <3>4. got' = SubSeq(contents, 1, 1)
      <4>1. contents[1] = queue_array[read_pointer]
        BY <2>2, <2>3, <2>6, <2>10 DEF Slot, Places
      <4> QED
        BY <2>2, <2>3, <2>10, <4>1
    <3> QED
      BY <2>2, <2>3, <2>10, <3>3, <3>4
         DEF Pipe!PutAndGet, Pipe!Oldest, Pipe!Rest, Pipe!Next
  <2> QED
    BY <2>1, <2>7, <2>8, <2>9, <2>10
<1> QED
  BY <1>1, <1>2

(* The queue is a pipe of queue_depth words, at every depth, with and      *)
(* without the reverse bypass: it loses, repeats and reorders nothing,     *)
(* and never holds more words than it has places.                          *)
THEOREM Implements == Spec => IsAPipe
<1>1. Init => Pipe!Init
  BY QueueDepthAssumption DEF Init, Pipe!Init, contents, Held
<1>2. IInv /\ IInv' /\ [Next]_vars => [Pipe!Next]_(Pipe!vars)
  <2>1. IInv /\ IInv' /\ Next => Pipe!Next
    BY TickRefines DEF Next
  <2>2. UNCHANGED vars => UNCHANGED Pipe!vars
    BY DEF vars, queue, Pipe!vars, contents, Held, Distance, Slot
  <2> QED
    BY <2>1, <2>2
<1> QED
  BY <1>1, <1>2, Invariance, PTL DEF Spec, IsAPipe, Pipe!Spec
=============================================================================
