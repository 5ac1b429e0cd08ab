-------------------------- MODULE SplitCallArbiter --------------------------
(***************************************************************************)
(* SplitCallArbiter.vhd: several callers share one module.  Calls go       *)
(* through a fair arbiter into one register and on to the module, with a   *)
(* tag that says who called; returns are led back by that tag into a       *)
(* register per caller.  A caller may have several calls under way.        *)
(*                                                                         *)
(* The module is pipelined: it takes a call when it likes, if it has room, *)
(* keeps the tags in a queue and returns its results in order.  What it    *)
(* computes is left out: a word stands for the arguments with the caller's *)
(* own tag, and for the results.  A step is one rising edge of the clock.  *)
(***************************************************************************)
EXTENDS Arbitration, Sequences

CONSTANTS num_reqs,      \* generic num_reqs; with one there is no arbiter
          CalleeDepth,   \* calls the module can have under way
          Word, Cleared,
          Says           \* the words each caller may send

ASSUME ArbiterAssumption ==
  /\ num_reqs \in Nat \ {0, 1}
  /\ CalleeDepth \in Nat \ {0}
  /\ Cleared \in Word
  /\ \A i \in 0 .. num_reqs - 1 : Says[i] \subseteq Word

Callers == 0 .. num_reqs - 1

VARIABLES
  call_reqs, call_data,       \* the callers' call ports
  fairify_register,           \* of the NobodyLeftBehind "fairify"
  call_state, call_reg,       \* the call on its way to the module, and its tag
  callee, return_mack,        \* the calls in the module; it offers a return
  return_state, return_reg,   \* the return waiting for each caller
  return_reqs,                \* the callers' return ports
  put, got                    \* what each caller exchanged at the last edge

calls     == <<call_reqs, call_data, fairify_register, call_state, call_reg>>
returns   == <<return_mack, return_state, return_reg, return_reqs>>
call_vars == <<calls, callee, returns, put, got>>

Nothing == [i \in Callers |-> <<>>]

CallInit ==
  /\ call_reqs = {} /\ call_data = [i \in Callers |-> Cleared]
  /\ fairify_register = {}
  /\ call_state = "idle" /\ call_reg = [word |-> Cleared, to |-> 0]
  /\ callee = <<>> /\ return_mack = FALSE
  /\ return_state = [i \in Callers |-> "Idle"]
  /\ return_reg = [i \in Callers |-> Cleared]
  /\ return_reqs = {}
  /\ put = Nothing /\ got = Nothing

----------------------------------------------------------------------------
(* The way there.                                                          *)
pe_call_reqs == PriorityEncode(reqOut(num_reqs, call_reqs, fairify_register))
call_mreq == call_state = "busy"

latch_call_data(call_mack) ==
  pe_call_reqs # {} /\ (call_state = "idle" \/ call_mack)
call_acks(call_mack) == IF latch_call_data(call_mack) THEN pe_call_reqs ELSE {}

CallSide(call_mack) ==
  LET latch == latch_call_data(call_mack) IN
    /\ call_state' = CASE latch                              -> "busy"
                       [] ~latch /\ call_mreq /\ call_mack   -> "idle"
                       [] OTHER                              -> call_state
    /\ call_reg' = IF latch
                   THEN LET i == CHOOSE r \in pe_call_reqs : TRUE
                        IN  [word |-> call_data[i], to |-> i]
                   ELSE call_reg
    /\ fairify_register' = next_reqIn_register(num_reqs, call_reqs, fairify_register,
                                             call_acks(call_mack))

----------------------------------------------------------------------------
(* The way back.                                                           *)
return_acks == {i \in Callers : return_state[i] = "Busy"}

valid_flag(i) == return_mack /\ Head(callee).to = i
latch_var_always_ready(i) == valid_flag(i)

latch_var(i)  == valid_flag(i) /\ (return_state[i] = "Idle" \/ i \in return_reqs)
return_mreq   == \E i \in Callers : latch_var(i)

ReturnSide ==
  /\ return_state' = [i \in Callers |->
                        CASE latch_var(i)                        -> "Busy"
                          [] ~latch_var(i) /\ i \in return_reqs  -> "Idle"
                          [] OTHER                               -> return_state[i]]
  /\ return_reg' = [i \in Callers |->
                      IF latch_var(i) THEN Head(callee).word ELSE return_reg[i]]

----------------------------------------------------------------------------
(* The module, and the callers, who hold what they request.                *)
Callee(call_mack) ==
  /\ call_mack => Len(callee) < CalleeDepth
  /\ callee' = (IF return_mreq THEN Tail(callee) ELSE callee)
               \o (IF call_mreq /\ call_mack THEN <<call_reg>> ELSE <<>>)
  /\ return_mack' \in BOOLEAN
  /\ return_mack' => callee' # <<>>
  /\ return_mack /\ ~return_mreq => return_mack'

CallerPorts(acks) ==
  /\ call_reqs' \in {r \in SUBSET Callers : call_reqs \ acks \subseteq r}
  /\ call_data' \in {d \in [Callers -> Word] :
                       /\ \A i \in call_reqs \ acks : d[i] = call_data[i]
                       /\ \A i \in call_reqs' \ (call_reqs \ acks) : d[i] \in Says[i]
                       /\ \A i \in Callers \ call_reqs' : d[i] = Cleared}
  /\ return_reqs' \in {r \in SUBSET Callers : return_reqs \ return_acks \subseteq r}

CallTick(call_mack) ==
  /\ CallSide(call_mack)
  /\ ReturnSide
  /\ Callee(call_mack)
  /\ CallerPorts(call_acks(call_mack))
  /\ put' = [i \in Callers |->
               IF i \in call_acks(call_mack) THEN <<call_data[i]>> ELSE <<>>]
  /\ got' = [i \in Callers |->
               IF i \in return_acks \intersect return_reqs THEN <<return_reg[i]>>
                                                           ELSE <<>>]

CallNext == \E call_mack \in BOOLEAN : CallTick(call_mack)

CallSpec == CallInit /\ [][CallNext]_call_vars

(* The module takes a call if it has room and offers its return, and the   *)
(* callers are ready to take theirs: what is assumed to happen again and   *)
(* again.                                                                  *)
CallLively == /\ return_reqs' = Callers
              /\ CallTick(Len(callee) < CalleeDepth)
              /\ return_mack' = (callee' # <<>>)

----------------------------------------------------------------------------
CallTypeOK ==
  /\ call_reqs \subseteq Callers /\ return_reqs \subseteq Callers
  /\ fairify_register \subseteq call_reqs
  /\ call_data \in [Callers -> Word] /\ return_reg \in [Callers -> Word]
  /\ call_state \in {"idle", "busy"}
  /\ return_state \in [Callers -> {"Idle", "Busy"}]
  /\ Len(callee) <= CalleeDepth
  /\ return_mack => callee # <<>>

(* The words of caller i that are under way, oldest first.                 *)
WordsUpTo(s, i) ==
  LET words[n \in 0 .. Len(s)] ==
        IF n = 0             THEN <<>>
        ELSE IF s[n].to = i  THEN Append(words[n - 1], s[n].word)
                             ELSE words[n - 1]
  IN  words
Words(s, i) == WordsUpTo(s, i)[Len(s)]
InTransit(i) ==
  (IF return_state[i] = "Busy" THEN <<return_reg[i]>> ELSE <<>>)
  \o Words(callee \o (IF call_mreq THEN <<call_reg>> ELSE <<>>), i)

(* Whatever the others do, each caller gets the returns of its own calls,  *)
(* each once and in the order of the calls: to it the shared module is a   *)
(* module of its own.  Two returns in a row to the same caller do not      *)
(* overwrite each other, and the second one waits ("back-pressure is       *)
(* needed!", SplitCallArbiter.vhd:267-271).                                *)
Caller(i) == INSTANCE AbstractPipe WITH
               Depth    <- CalleeDepth + 2,
               Lifo     <- FALSE,
               contents <- InTransit(i),
               put      <- put[i],
               got      <- got[i]
CallersAreSeparate ==
  /\ \A i \in Callers : Caller(i)!Init
  /\ [][\A i \in Callers : Caller(i)!Next]_call_vars

(* Every call is taken and returns at last, though one caller's register   *)
(* can keep everybody's returns waiting behind it.                         *)
EveryCallReturns ==
  \A i \in Callers :
    /\ i \in call_reqs ~> put[i] # <<>>
    /\ InTransit(i) # <<>> ~> got[i] # <<>>
=============================================================================
