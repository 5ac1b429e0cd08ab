-------------------------- MODULE MemorySubsystem --------------------------
(***************************************************************************)
(* The memory of a memory space: memory_subsystem_core.vhd around          *)
(* memory_bank_revised.vhd, with the ports of ordered_memory_subsystem.vhd *)
(* or of memory_subsystem.vhd.  A request gets a time stamp, the value of  *)
(* a counter of cycles, when it is accepted.  A repeater per port holds    *)
(* it, the core moves the load and the store with the smallest stamps into *)
(* two queues, lrr and srr, and the bank performs the older of their heads *)
(* and holds its result until the requester takes it.                      *)
(*                                                                         *)
(* A mem_repeater, lrr and srr are QueueBases of two places, which are     *)
(* AbstractPipes (QueueBase_proof): they are sequences here.  Tags travel  *)
(* unchanged beside the requests and are left out.                         *)
(***************************************************************************)
EXTENDS MemoryPorts

CONSTANTS Quarter,               \* a quarter of the time stamps: 2^(width-2)
          LoadStages,            \* repeaters in front of a load port: 0 or 1
          StoreStages            \* and in front of a store port

ASSUME SubsystemAssumption == Quarter \in Nat \ {0}

VARIABLES
  raw_time_stamp,
  load_repeater, store_repeater,
  lrr, srr,
  fsm_state, result, \* the bank: what it has done, and for whom
  mem_array

bank == <<fsm_state, result, mem_array>>
mvars == <<raw_time_stamp, load_repeater, store_repeater, lrr, srr, bank,
           stall, ports>>

Init ==
  /\ raw_time_stamp \in 0 .. Quarter - 1   \* an idle memory, at any time: all
                                          \* quarters are compared alike
  /\ load_repeater = [p \in LoadPorts |-> <<>>]
  /\ store_repeater = [p \in StorePorts |-> <<>>]
  /\ lrr = <<>> /\ srr = <<>>
  /\ fsm_state = "IDLE" /\ result = <<>>
  /\ mem_array = [a \in Addr |-> Zero]
  /\ stall = 0
  /\ PortsInit

----------------------------------------------------------------------------
(* Comparing time stamps.                                                  *)

IsGreaterThan_unsigned(x, y) == x > y

(* The two high bits tell a stamp from one of the quarter before it; a     *)
(* difference of two quarters is not greater either way.                   *)
IsGreaterThan(x, y) ==
  LET qx == x \div Quarter
      qy == y \div Quarter
  IN qx = (qy + 1) % 4 \/ (qx = qy /\ x > y)

IncrementSLV(x) == (x + 1) % (4 * Quarter)

Selected_first(heads) ==
  IF \E i \in DOMAIN heads : heads[i] # <<>>
  THEN CHOOSE i \in DOMAIN heads :
         heads[i] # <<>> /\ \A j \in 0 .. i - 1 : heads[j] = <<>>
  ELSE -1

(* The port the selection loop ends with: it keeps a port until a later    *)
(* one has a smaller stamp; -1 when there is no request.                   *)
Selected(heads) ==
  LET n == Cardinality(DOMAIN heads)
      best[i \in 0 .. n] ==
        IF i = 0 THEN -1
        ELSE IF heads[i - 1] # <<>>
                /\ (best[i - 1] = -1
                    \/ IsGreaterThan(heads[best[i - 1]][1].stamp, heads[i - 1][1].stamp))
             THEN i - 1 ELSE best[i - 1]
  IN best[n]

----------------------------------------------------------------------------
(* The ports.                                                              *)

QueueDepth == 2
Room(queue) == Len(queue) < QueueDepth

Stamped(op, p, in) ==
  IF in[p] = Nobody THEN <<>>
  ELSE <<[req |-> The(op, p, in), stamp |-> raw_time_stamp]>>

(* What the core sees of each port.                                        *)
load_heads  == IF LoadStages = 0 THEN [p \in LoadPorts |-> Stamped("load", p, lr_in)]
               ELSE load_repeater
store_heads == IF StoreStages = 0 THEN [p \in StorePorts |-> Stamped("store", p, sr_in)]
               ELSE store_repeater

load_request_id  == Selected(load_heads)
store_request_id == Selected(store_heads)

Accepted(id, queue) == id # -1 /\ Room(queue)

Acked(stages, in, repeater, id, accepted) ==
  {p \in DOMAIN in : in[p] # Nobody /\
     IF stages = 0 THEN accepted /\ p = id ELSE Room(repeater[p])}

(* A queue after an edge: what it takes in, and whether its head leaves.   *)
Shifted(queue, leaves, arriving) ==
  (IF leaves THEN Tail(queue) ELSE queue) \o arriving

Repeat(stages, op, repeater, in, ack, id, accepted) ==
  [p \in DOMAIN repeater |->
     IF stages = 0 THEN <<>>
     ELSE Shifted(repeater[p], accepted /\ p = id,
                  IF p \in ack THEN Stamped(op, p, in) ELSE <<>>)]

Arriving(heads, id, accepted) == IF accepted THEN <<heads[id][1]>> ELSE <<>>

----------------------------------------------------------------------------
(* The bank.                                                               *)

(* The head of srr goes before that of lrr unless its stamp is greater.    *)
write_has_priority == ~IsGreaterThan(srr[1].stamp, lrr[1].stamp)

write_active == srr # <<>> /\ (lrr = <<>> \/ write_has_priority)
read_active  == lrr # <<>> /\ ~write_active

(* A result occupies the bank until it is taken.                           *)
bank_free(accept) == fsm_state = "IDLE" \/ accept

Performed(r, data) == <<[op |-> r.op, port |-> r.port, data |-> data]>>

Bank(accept) ==
  IF bank_free(accept) /\ write_active
  THEN /\ fsm_state' = "WDONE"
       /\ result' = Performed(srr[1].req, Zero)
       /\ mem_array' = [mem_array EXCEPT ![srr[1].req.addr] = srr[1].req.data]
  ELSE IF bank_free(accept) /\ read_active
  THEN /\ fsm_state' = "RDONE"
       /\ result' = Performed(lrr[1].req, mem_array[lrr[1].req.addr])
       /\ UNCHANGED mem_array
  ELSE IF bank_free(accept)
  THEN fsm_state' = "IDLE" /\ result' = <<>> /\ UNCHANGED mem_array
  ELSE UNCHANGED bank

----------------------------------------------------------------------------
(* One edge; the requester of the result takes it (lc_req, sc_req) or not. *)
Tick(accept) ==
  LET load_id        == load_request_id
      store_id       == store_request_id
      load_accepted  == Accepted(load_id, lrr)
      store_accepted == Accepted(store_id, srr)
      lr_ack == Acked(LoadStages, lr_in, load_repeater, load_id, load_accepted)
      sr_ack == Acked(StoreStages, sr_in, store_repeater, store_id, store_accepted)
  IN /\ accept \/ stall < MaxStall
     /\ stall' = IF accept \/ result = <<>> THEN 0 ELSE stall + 1
     /\ raw_time_stamp' = IncrementSLV(raw_time_stamp)
     /\ lrr' = Shifted(lrr, bank_free(accept) /\ read_active,
                       Arriving(load_heads, load_id, load_accepted))
     /\ srr' = Shifted(srr, bank_free(accept) /\ write_active,
                       Arriving(store_heads, store_id, store_accepted))
     /\ load_repeater' = Repeat(LoadStages, "load", load_repeater, lr_in, lr_ack,
                                load_id, load_accepted)
     /\ store_repeater' = Repeat(StoreStages, "store", store_repeater, sr_in, sr_ack,
                                 store_id, store_accepted)
     /\ Bank(accept)
     /\ Cycle(lr_ack, sr_ack, IF accept THEN {result[k] : k \in DOMAIN result} ELSE {})

Next == \E accept \in BOOLEAN : Tick(accept)

Spec == Init /\ [][Next]_mvars

----------------------------------------------------------------------------
(* The cycles since a stamp was given.                                     *)
Age(stamp) ==
  IF stamp <= raw_time_stamp THEN raw_time_stamp - stamp
  ELSE raw_time_stamp - stamp + 4 * Quarter

InFlight(queue, repeater) ==
  {queue[k] : k \in DOMAIN queue}
    \union UNION {{repeater[p][k] : k \in DOMAIN repeater[p]} : p \in DOMAIN repeater}
FirstOf(queues) == {queues[i][1] : i \in {j \in DOMAIN queues : queues[j] # <<>>}}

(* A counter of cycles tells the order of two stamps if there is no more   *)
(* than a quarter of its range between them, and no request waits for a    *)
(* whole turn of it ("should never roll over", vcMemorySpace.cpp:493).     *)
StampsTellTheOrder ==
  /\ \A e \in InFlight(lrr, load_repeater) \union InFlight(srr, store_repeater) :
       Age(e.stamp) < 4 * Quarter - 1
  /\ \A heads \in {FirstOf(load_heads), FirstOf(store_heads), FirstOf(<<lrr, srr>>)} :
       \A e, f \in heads : Age(e.stamp) - Age(f.stamp) <= Quarter
=============================================================================
