------------------------- MODULE Port100Config_proofs ------------------------
(***************************************************************************)
(* Proofs about module Port100Config, for any keys, values and plans.  The *)
(* record is true and every exchange configured as long as no answer of    *)
(* the reader is lost.                                                     *)
(***************************************************************************)
EXTENDS Port100Config, TLAPS

\* An operation in progress is at one of its exchanges; past a stage, the record
\* shows what the operation has asked for.
Progress ==
    call # Idle =>
        /\ call.at \in 1..Len(call.plan.params)
        /\ call.stage # "rf" => initiator_bitrate = call.plan.rate
        /\ call.stage \in {"params", "exchange"} => initiator_protocol = call.want

\* The inductive invariant.
IInv == TypeOK /\ RecordIsTrue /\ Progress

\* What the entries of a plan are.
LEMMA Entries ==
    ASSUME NEW p \in Plans, NEW n \in 1..Len(p.params)
    PROVE  /\ p.rate \in Rates
           /\ DOMAIN p.params[n] \subseteq Keys
           /\ \A k \in DOMAIN p.params[n] : p.params[n][k] \in Values
<1>1. p.rate \in Rates /\ p.params \in Seq(UNION {[K -> Values] : K \in SUBSET Keys})
  BY ConfigAssumption DEF Plan
<1>2. p.params[n] \in UNION {[K -> Values] : K \in SUBSET Keys}
  BY <1>1
<1>3. PICK K \in SUBSET Keys : p.params[n] \in [K -> Values]
  BY <1>2
<1> QED
  BY <1>1, <1>3

\* Writing entries into a record that is true, for what the reader then holds.
LEMMA Written ==
    ASSUME IInv, NEW entries, DOMAIN entries \subseteq Keys,
           \A k \in DOMAIN entries : entries[k] \in Values
    PROVE  /\ Overlay(initiator_protocol, entries) \in [Keys -> Values \cup {None}]
           /\ \A f \in Registers : Overlay(f, entries) \in Registers
           /\ [k \in Keys |-> IF k \in Missing(entries) THEN entries[k] ELSE registers[k]] \in Registers
           /\ \A k \in Keys : Overlay(initiator_protocol, entries)[k] # None =>
                 (IF k \in Missing(entries) THEN entries[k] ELSE registers[k])
                     = Overlay(initiator_protocol, entries)[k]
           /\ Missing(entries) = {} => Overlay(initiator_protocol, entries) = initiator_protocol
  BY ConfigAssumption DEF IInv, TypeOK, RecordIsTrue, Overlay, Missing, Registers

\* One write keeps the invariant, when the next stage may start.
LEMMA WriteKeeps ==
    ASSUME ~Lossy, IInv, NEW entries, NEW next \in {"params", "exchange"},
           call # Idle, call.stage \in {"defaults", "params"},
           DOMAIN entries \subseteq Keys, \A k \in DOMAIN entries : entries[k] \in Values,
           \/ DOMAIN entries = Keys
           \/ initiator_protocol = call.want,
           WriteInitiatorProtocol(entries, next)
    PROVE  IInv'
<1> USE DEF IInv
<1>1. call \in Call
  BY DEF TypeOK
<1>2. CASE /\ call' = [call EXCEPT !.stage = next, !.want = Overlay(call.want, entries)]
           /\ UNCHANGED initiator_bitrate /\ UNCHANGED rf
           /\ initiator_protocol' = Overlay(initiator_protocol, entries)
           /\ registers' = [k \in Keys |-> IF k \in Missing(entries) THEN entries[k] ELSE registers[k]]
  <2>1. call' \in Call /\ call'.plan = call.plan /\ call'.at = call.at /\ call'.stage = next
        /\ call'.want = Overlay(call.want, entries)
    BY <1>1, <1>2, Written DEF Call, Stages
  <2>2. TypeOK'
    BY <1>2, <2>1, Written DEF TypeOK
  <2>3. RecordIsTrue'
    BY <1>2, Written DEF RecordIsTrue
  <2>4. Overlay(call.want, entries) = Overlay(initiator_protocol, entries)
    BY DEF Overlay
  <2>5. Progress'
    BY <1>2, <2>1, <2>4 DEF Progress
  <2> QED
    BY <2>2, <2>3, <2>5
<1>3. CASE Missing(entries) = {} /\ UNCHANGED <<config, reader>>
           /\ call' = [call EXCEPT !.stage = next, !.want = Overlay(call.want, entries)]
  <2>1. registers = [k \in Keys |-> IF k \in Missing(entries) THEN entries[k] ELSE registers[k]]
    BY <1>3 DEF TypeOK, Registers
  <2> QED
    BY <1>2, <1>3, <2>1, Written DEF config, reader
<1>4. CASE Abort(/\ registers' = [k \in Keys |-> IF k \in Missing(entries) THEN entries[k] ELSE registers[k]]
                 /\ UNCHANGED rf)
  BY <1>4 DEF Abort, TypeOK, RecordIsTrue, Progress, config, reader
<1> QED
  BY <1>2, <1>3, <1>4 DEF WriteInitiatorProtocol

\* Without loss, every step keeps the invariant.
LEMMA StepKeeps == ASSUME ~Lossy PROVE IInv /\ [Next]_vars => IInv'
<1> SUFFICES ASSUME ~Lossy, IInv, [Next]_vars PROVE IInv'
  OBVIOUS
<1> USE DEF IInv
<1>1. CASE Reinitialise
  BY <1>1, ConfigAssumption DEF Reinitialise, ForgetInitiatorSettings, Unknown, TypeOK, RecordIsTrue, Progress, config, reader
<1>2. ASSUME NEW p \in Plans, Begin(p) PROVE IInv'
  <2>1. call' \in Call /\ call'.plan = p /\ call'.at = 1 /\ call'.stage = "rf"
    BY <1>2, ConfigAssumption DEF Begin, Call, Stages
  <2>2. p.params # <<>> /\ p.params \in Seq(UNION {[K -> Values] : K \in SUBSET Keys})
    BY ConfigAssumption DEF Plan
  <2>3. 1 \in 1..Len(p.params)
    BY <2>2
  <2> QED
    BY <1>2, <2>1, <2>3 DEF Begin, TypeOK, RecordIsTrue, Progress, config, reader
<1>3. CASE SetInitiatorRf
  <2>1. call \in Call /\ call.plan \in Plans /\ call.plan.rate \in Rates
    <3>1. call \in Call
      BY <1>3 DEF SetInitiatorRf, TypeOK
    <3> QED
      BY <1>3, <3>1, ConfigAssumption DEF Call, Plan
  <2>2. CASE Proceed("defaults") /\ initiator_bitrate' = call.plan.rate
             /\ (UNCHANGED <<config, reader>> \/ (rf' = call.plan.rate /\ registers' \in Registers /\ initiator_protocol' = Unknown))
    <3>1. call' \in Call /\ call'.plan = call.plan /\ call'.at = call.at /\ call'.stage = "defaults"
      BY <2>1, <2>2 DEF Proceed, Call, Stages
    <3>2. TypeOK' /\ RecordIsTrue'
      BY <2>1, <2>2, <3>1 DEF TypeOK, RecordIsTrue, Unknown, config, reader
    <3>3. Progress'
      BY <1>3, <2>2, <3>1 DEF Progress, SetInitiatorRf
    <3> QED
      BY <3>2, <3>3
  <2>3. CASE Abort(rf' = call.plan.rate /\ registers' \in Registers)
    BY <2>3 DEF Abort, TypeOK, RecordIsTrue, Progress, config, reader
  <2> QED
    BY <1>3, <2>2, <2>3 DEF SetInitiatorRf, RecordBitrate, config
<1>4. CASE ApplyInitiatorDefaults
  <2>1. DOMAIN Defaults \subseteq Keys /\ DOMAIN Defaults = Keys /\ \A k \in DOMAIN Defaults : Defaults[k] \in Values
    BY ConfigAssumption DEF Keys, Registers
  <2> QED
    BY <1>4, <2>1, WriteKeeps DEF ApplyInitiatorDefaults
<1>5. CASE ConfigureInitiator
  <2>1. call # Idle /\ call.stage = "params" /\ call \in Call
    BY <1>5 DEF ConfigureInitiator, TypeOK
  <2>2. call.plan \in Plans /\ call.at \in 1..Len(call.plan.params)
    BY <2>1 DEF Call, Progress
  <2>3. initiator_protocol = call.want
    BY <2>1 DEF Progress
  <2> QED
    BY <1>5, <2>1, <2>2, <2>3, Entries, WriteKeeps DEF ConfigureInitiator
<1>6. CASE InitiatorExchangeRf
  <2>1. call # Idle /\ call.stage = "exchange" /\ call \in Call
    BY <1>6 DEF InitiatorExchangeRf, TypeOK
  <2>2. CASE call' = Idle
    BY <1>6, <2>2 DEF InitiatorExchangeRf, TypeOK, RecordIsTrue, Progress, config, reader
  <2>3. CASE call.at < Len(call.plan.params) /\ call' = [stage |-> "params", plan |-> call.plan, at |-> call.at + 1, want |-> call.want]
    <3>1. /\ call' \in Call /\ call'.plan = call.plan /\ call'.at = call.at + 1 /\ call'.stage = "params"
          /\ call'.want = call.want
      BY <2>1, <2>3 DEF Call, Stages
    <3>2. call.plan.params \in Seq(UNION {[K -> Values] : K \in SUBSET Keys}) /\ call.at \in Nat
      BY <2>1, ConfigAssumption DEF Call, Plan
    <3>3. call'.at \in 1..Len(call'.plan.params)
      BY <2>3, <3>1, <3>2
    <3>4. UNCHANGED <<initiator_bitrate, initiator_protocol, rf, registers>>
      BY <1>6 DEF InitiatorExchangeRf, config, reader
    <3>5. TypeOK' /\ RecordIsTrue'
      BY <3>1, <3>4 DEF TypeOK, RecordIsTrue
    <3>6. Progress'
      BY <2>1, <3>1, <3>3, <3>4 DEF Progress
    <3> QED
      BY <3>5, <3>6
  <2> QED
    BY <1>6, <2>2, <2>3 DEF InitiatorExchangeRf
<1>7. CASE UNCHANGED vars
  BY <1>7 DEF vars, config, reader, TypeOK, RecordIsTrue, Progress
<1> QED
  BY <1>1, <1>2, <1>3, <1>4, <1>5, <1>6, <1>7 DEF Next

\* The invariant holds initially, and hence always.
LEMMA InvariantHolds == ASSUME ~Lossy PROVE Spec => []IInv
<1>1. Init => IInv
  BY ConfigAssumption DEF Init, IInv, TypeOK, RecordIsTrue, Progress, Unknown
<1>2. IInv /\ [Next]_vars => IInv'
  BY StepKeeps
<1> QED
  BY <1>1, <1>2, PTL DEF Spec

\* The settings the driver believes the reader to hold, and therefore does not
\* send again, are the reader's settings (initiator_bitrate, initiator_protocol).
THEOREM RecordStaysTrue == ASSUME ~Lossy PROVE Spec => []RecordIsTrue
<1>1. IInv => RecordIsTrue
  BY DEF IInv
<1> QED
  BY <1>1, InvariantHolds, PTL

\* Every exchange of every operation runs under the settings it asked for, for
\* any number of keys, bitrates, operations and exchanges.
THEOREM ExchangesConfigured == ASSUME ~Lossy PROVE Spec => []ExchangeIsConfigured
<1>1. IInv => ExchangeIsConfigured
  <2> SUFFICES ASSUME IInv, call # Idle, call.stage = "exchange"
               PROVE  rf = call.plan.rate /\ registers = call.want
    BY DEF ExchangeIsConfigured
  <2>1. call \in Call /\ call.plan.rate \in Rates /\ call.want \in Registers
    <3>1. call \in Call
      BY DEF IInv, TypeOK
    <3> QED
      BY <3>1, ConfigAssumption DEF Call, Plan
  <2>2. initiator_bitrate = call.plan.rate /\ initiator_protocol = call.want
    BY DEF IInv, Progress
  <2> QED
    BY <2>1, <2>2, ConfigAssumption DEF IInv, RecordIsTrue, TypeOK, Registers
<1> QED
  BY <1>1, InvariantHolds, PTL
=============================================================================
