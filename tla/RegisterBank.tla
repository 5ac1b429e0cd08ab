---------------------------- MODULE RegisterBank ----------------------------
(***************************************************************************)
(* register_bank.vhd: the memory of a memory space that is small enough.   *)
(* A port has one place for a result, which it must leave before the next  *)
(* request of the port is looked at.  Loads are all served at once, from   *)
(* the registers as they were; of the stores to one register, the one with *)
(* the lowest index.                                                       *)
(***************************************************************************)
EXTENDS MemoryPorts

VARIABLES
  register_array,
  lc_ack_flag,   \* per load port: the word it offers, or <<>>
  sc_ack_flag    \* the store ports that offer an acknowledgement

bvars == <<register_array, lc_ack_flag, sc_ack_flag, stall, ports>>

BInit ==
  /\ register_array = [a \in Addr |-> Zero]
  /\ lc_ack_flag = [p \in LoadPorts |-> <<>>]
  /\ sc_ack_flag = {}
  /\ stall = 0
  /\ PortsInit

lr_ack == {p \in LoadPorts : lr_in[p] # <<>> /\ lc_ack_flag[p] = <<>>}

Writers(a) == {p \in StorePorts : /\ sr_in[p] # <<>> /\ p \notin sc_ack_flag
                                  /\ sr_in[p][1].addr = a}
Winner_stale(a) ==
  CHOOSE p \in {q \in StorePorts : sr_in[q] # <<>> /\ sr_in[q][1].addr = a} :
    \A q \in StorePorts : sr_in[q] # <<>> /\ sr_in[q][1].addr = a => p <= q
Winner(a) == CHOOSE p \in Writers(a) : \A q \in Writers(a) : p <= q

sr_ack == {Winner(a) : a \in {b \in Addr : Writers(b) # {}}}

Offered ==
  {[op |-> "load", port |-> p, data |-> lc_ack_flag[p][1]] :
     p \in {q \in LoadPorts : lc_ack_flag[q] # <<>>}} \union
  {[op |-> "store", port |-> p, data |-> Zero] : p \in sc_ack_flag}

Takes(op, p, accepted) == \E c \in accepted : c.op = op /\ c.port = p

(* One edge; accepted are the results whose requesters take them.          *)
BTick(accepted) ==
  /\ accepted = Offered \/ stall < MaxStall
  /\ stall' = IF accepted = Offered THEN 0 ELSE stall + 1
  /\ register_array' = [a \in Addr |-> IF Writers(a) = {} THEN register_array[a]
                                       ELSE sr_in[Winner(a)][1].data]
  /\ lc_ack_flag' = [p \in LoadPorts |->
       IF p \in lr_ack THEN <<register_array[lr_in[p][1].addr]>>
       ELSE IF Takes("load", p, accepted) THEN <<>> ELSE lc_ack_flag[p]]
  /\ sc_ack_flag' = (sc_ack_flag \ {p \in StorePorts : Takes("store", p, accepted)})
                    \union sr_ack
  /\ Cycle(lr_ack, sr_ack, accepted)

BNext == \E accepted \in SUBSET Offered : BTick(accepted)

BSpec == BInit /\ [][BNext]_bvars
=============================================================================
