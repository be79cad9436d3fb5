---------------------------- MODULE Port100Config ----------------------------
(***************************************************************************)
(* The Port-100 driver's record of what the reader's initiator registers   *)
(* hold (driver/port100/chipset.rs), against the registers themselves.     *)
(*                                                                         *)
(* Every Device operation configures the RF, then the protocol keys, and   *)
(* then exchanges frames with a card; a setting the record says is in      *)
(* place is not sent.  A command whose answer is lost (timeout, USB error) *)
(* may have been carried out by the reader all the same.                   *)
(***************************************************************************)
EXTENDS Naturals, Sequences

CONSTANTS
    Rates,      \* initiator RF settings, <<send, receive>>
    Values,     \* values of a protocol key
    Defaults,   \* IN_SET_PROTOCOL_DEFAULTS, as a function of the key
    Plans,      \* Device operations: [rate, params], see Plan
    Lossy,      \* whether an answer of the reader can be lost
    None

Keys == DOMAIN Defaults
Registers == [Keys -> Values]

\* transceive and the detect_* functions: the RF setting, and for each exchange
\* the keys configure_initiator sets before it.
Plan == [rate : Rates, params : Seq(UNION {[K -> Values] : K \in SUBSET Keys})]

ASSUME ConfigAssumption ==
    /\ Defaults \in Registers
    /\ Plans \subseteq Plan /\ \A p \in Plans : p.params # <<>>
    /\ Lossy \in BOOLEAN
    /\ None \notin Values /\ None \notin Rates

VARIABLES
    initiator_bitrate,  \* the RF setting the driver believes in, or None
    initiator_protocol, \* the key values it believes in, None where unknown
    rf,                 \* the reader's RF setting
    registers,          \* the reader's protocol keys
    call                \* the operation in progress

config == <<initiator_bitrate, initiator_protocol>>
reader == <<rf, registers>>
vars == <<config, reader, call>>

\* `want' is what the operation has asked for so far.
Idle == [stage |-> "idle"]
Stages == {"rf", "defaults", "params", "exchange"}
Call == [stage : Stages, plan : Plans, at : Nat, want : Registers]

Unknown == [k \in Keys |-> None]

\* f with the entries written into it.
Overlay(f, entries) == [k \in Keys |-> IF k \in DOMAIN entries THEN entries[k] ELSE f[k]]

\* Chipset::new ends with switch_rf(false), which leaves nothing known.
Init ==
    /\ initiator_bitrate = None
    /\ initiator_protocol = Unknown
    /\ rf \in Rates \cup {None}
    /\ registers \in Registers
    /\ call = Idle

-----------------------------------------------------------------------------
\* forget_initiator_settings
ForgetInitiatorSettings == initiator_bitrate' = None /\ initiator_protocol' = Unknown

\* switch_rf, set_command_type, set_target_rf and reset_device: the reader drops
\* its initiator set-up, and the driver forgets it once the answer is there.
Reinitialise ==
    /\ call = Idle
    /\ \/ /\ rf' \in Rates \cup {None}
          /\ registers' \in Registers
          /\ ForgetInitiatorSettings \/ (Lossy /\ UNCHANGED config)
       \/ UNCHANGED <<reader, config>>      \* refused, or never arrived
    /\ UNCHANGED call

\* An operation starts: prepare_initiator_exchange or configure_initiator_for_poll.
Begin(p) ==
    /\ call = Idle
    /\ call' = [stage |-> "rf", plan |-> p, at |-> 1, want |-> Defaults]
    /\ UNCHANGED <<config, reader>>

Proceed(stage) == call' = [call EXCEPT !.stage = stage]

\* The error of a command ends the operation; the reader may have acted on it.
Abort(effect) ==
    /\ call' = Idle
    /\ UNCHANGED config
    /\ (Lossy /\ effect) \/ UNCHANGED reader

\* Mutant: the new bitrate is recorded and the protocol keys are kept.
RecordBitrateOnly(rate) == initiator_bitrate' = rate /\ UNCHANGED initiator_protocol

\* What set_initiator_rf records after the answer: changing the RF
\* re-initialises the protocol settings that go with it.
RecordBitrate(rate) == initiator_bitrate' = rate /\ initiator_protocol' = Unknown

\* set_initiator_rf
SetInitiatorRf ==
    LET effect == rf' = call.plan.rate /\ registers' \in Registers IN
    /\ call # Idle /\ call.stage = "rf"
    /\ \/ /\ initiator_bitrate = call.plan.rate
          /\ Proceed("defaults")
          /\ UNCHANGED <<config, reader>>
       \/ /\ initiator_bitrate # call.plan.rate
          /\ \/ effect /\ RecordBitrate(call.plan.rate) /\ Proceed("defaults")
             \/ Abort(effect)

\* The entries write_initiator_protocol sends: those not known to be in place.
Missing(entries) == {k \in DOMAIN entries : initiator_protocol[k] # entries[k]}

\* write_initiator_protocol, followed by the stage `next' on success.
WriteInitiatorProtocol(entries, next) ==
    LET effect == /\ registers' = [k \in Keys |-> IF k \in Missing(entries) THEN entries[k] ELSE registers[k]]
                  /\ UNCHANGED rf IN
    \/ /\ Missing(entries) = {}
       /\ UNCHANGED <<config, reader>>
       /\ call' = [call EXCEPT !.stage = next, !.want = Overlay(call.want, entries)]
    \/ /\ Missing(entries) # {}
       /\ \/ /\ effect
             /\ initiator_protocol' = Overlay(initiator_protocol, entries)
             /\ UNCHANGED initiator_bitrate
             /\ call' = [call EXCEPT !.stage = next, !.want = Overlay(call.want, entries)]
          \/ Abort(effect)

\* Mutant: the defaults are written only when nothing is known yet.
ApplyDefaultsOnce ==
    /\ call # Idle /\ call.stage = "defaults"
    /\ IF initiator_protocol = Unknown THEN WriteInitiatorProtocol(Defaults, "params")
       ELSE Proceed("params") /\ UNCHANGED <<config, reader>>

\* apply_initiator_defaults
ApplyInitiatorDefaults ==
    /\ call # Idle /\ call.stage = "defaults"
    /\ WriteInitiatorProtocol(Defaults, "params")

\* configure_initiator
ConfigureInitiator ==
    /\ call # Idle /\ call.stage = "params"
    /\ WriteInitiatorProtocol(call.plan.params[call.at], "exchange")

\* initiator_exchange_rf: whatever the card answers, the operation goes on with
\* its next exchange or ends.
InitiatorExchangeRf ==
    /\ call # Idle /\ call.stage = "exchange"
    /\ \/ /\ call.at < Len(call.plan.params)
          /\ call' = [stage |-> "params", plan |-> call.plan, at |-> call.at + 1, want |-> call.want]
       \/ call' = Idle
    /\ UNCHANGED <<config, reader>>

Next ==
    \/ Reinitialise
    \/ \E p \in Plans : Begin(p)
    \/ SetInitiatorRf
    \/ ApplyInitiatorDefaults
    \/ ConfigureInitiator
    \/ InitiatorExchangeRf

Spec == Init /\ [][Next]_vars

-----------------------------------------------------------------------------
(* Properties                                                               *)

\* Types of the driver's record, of the registers and of the operation.
TypeOK ==
    /\ initiator_bitrate \in Rates \cup {None}
    /\ initiator_protocol \in [Keys -> Values \cup {None}]
    /\ rf \in Rates \cup {None}
    /\ registers \in Registers
    /\ call \in Call \cup {Idle}

\* The record is true: what the driver believes the reader holds, it holds.
RecordIsTrue ==
    /\ initiator_bitrate # None => rf = initiator_bitrate
    /\ \A k \in Keys : initiator_protocol[k] # None => registers[k] = initiator_protocol[k]

\* Every exchange with a card runs at the bitrate and under the protocol
\* settings its operation asked for, although settings believed to be in place
\* are skipped and operations of several card types follow each other.
ExchangeIsConfigured ==
    call # Idle /\ call.stage = "exchange" => rf = call.plan.rate /\ registers = call.want
=============================================================================
