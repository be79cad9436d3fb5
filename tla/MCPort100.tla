------------------------------ MODULE MCPort100 ------------------------------
(***************************************************************************)
(* The Port-100 as an initiator and as a target, the frames it shares with *)
(* the RC-S956 and the RC-S320, and the TLV fields of the Port-400's       *)
(* responses; a behaviour is of one of them (part).                        *)
(*                                                                         *)
(* Initiator: two bitrates and two protocol keys (a CRC and a parity       *)
(* setting), with the operations detect_type_a (several exchanges under    *)
(* changing keys), transceive to a Type 2 card and transceive to a FeliCa  *)
(* card.  Target: every kind of LocalTarget, complete and not.             *)
(***************************************************************************)
EXTENDS Port100Config

CONSTANT Parts

VARIABLES
    part,
    target, pc, left, targetRf, rf_off_error, session, pending, frame, sent, peer, found,
    disturbed, framesDep,
    format, payload, packet, change,
    kind, fields, data

MCDefaults == [k \in {"check_crc", "add_parity"} |-> IF k = "check_crc" THEN 1 ELSE 0]
Crc(v) == [k \in {"check_crc"} |-> v]
Parity(v) == [k \in {"add_parity"} |-> v]
Nothing == [k \in {} |-> 0]

MCPlans ==
    {[rate |-> "106A", params |-> <<Crc(0), Parity(1), Crc(1)>>],
     [rate |-> "106A", params |-> <<[k \in {"check_crc", "add_parity"} |-> IF k = "check_crc" THEN 0 ELSE 1]>>],
     [rate |-> "212F", params |-> <<Nothing>>]}

T(tech, sel, did, rate) == [tech |-> tech, complete |-> TRUE, sel |-> sel, did |-> did, rate |-> rate]
MCTargets ==
    {T("A", sel, TRUE, "106A") : sel \in {0, 32, 64, 96}}
    \cup {T("A", 32, FALSE, "106A"), T("B", 0, TRUE, "106A"), [T("A", 32, TRUE, "106A") EXCEPT !.complete = FALSE]}
    \cup {T("F", 0, TRUE, r) : r \in {"106A", "212F", "424F"}}
    \cup {T("dep", 0, TRUE, "106A")}
MCIdmOf == [c \in {1, 2, 3} |-> IF c = 3 THEN None ELSE 10 + c]

Listen == INSTANCE Listen WITH
    Targets <- MCTargets, Dids <- {0, 1}, IdmOf <- MCIdmOf, MaxTime <- 5, MaxDisturb <- 2, MaxDep <- 5,
    rf <- targetRf

ASSUME Listen!ListenAssumption

\* Short payloads of telling bytes, and long ones around the extended length and where
\* one form of the length can be taken for the other.
MCPayloads ==
    UNION {[1..n -> {0, 1, 127, 255}] : n \in 1..3}
    \cup {[i \in 1..n |-> b] : n \in 251..257, b \in {0, 1, 255}}
    \cup {<<213, 75>>, [i \in 1..511 |-> 7], [i \in 1..255 |-> IF i <= 3 THEN <<0, 252, 4>>[i] ELSE 9]}

Framing == INSTANCE Framing WITH
    Payloads <- MCPayloads, Bytes <- {0, 1, 2, 3, 127, 254, 255}, Tails <- {<<0>>, <<0, 0, 255>>, <<255, 1, 0>>}

\* Fields of every tag: statuses, device state, protocol metadata, ATR, bit framing,
\* RF status, data with a short and with a long length, vendor, and an unknown one.
Field(tag, value) == [tag |-> tag, value |-> value, long |-> FALSE]
MCFields ==
    {Field(192, <<0, 144, 0>>), Field(192, <<0, 100, 1>>), Field(128, <<0, 192, 3>>), Field(143, <<3>>),
     Field(95, <<59, 151>>), Field(146, <<0>>), Field(146, <<7>>), Field(150, <<90, 0>>), Field(151, <<>>),
     Field(151, <<192, 3, 0>>), [Field(151, <<151, 2>>) EXCEPT !.long = TRUE], Field(255, <<1, 2, 3>>),
     Field(1, <<0>>)}

Tlv == INSTANCE Tlv WITH Fields <- MCFields, MaxFields <- 3

targetVars ==
    <<target, pc, left, targetRf, rf_off_error, session, pending, frame, sent, peer, found, disturbed, framesDep>>
frameVars == <<format, payload, packet, change>>
tlvVars == <<kind, fields, data>>

-----------------------------------------------------------------------------
NoFrames == format = None /\ payload = None /\ packet = None /\ change = None
NoFields == kind = None /\ fields = None /\ data = None
NoTarget ==
    /\ target = None /\ pc = None /\ left = None /\ targetRf = None /\ rf_off_error = None /\ session = None
    /\ pending = None /\ frame = None /\ sent = None /\ peer = None /\ found = None
    /\ disturbed = None /\ framesDep = None

RunInit ==
    /\ part \in Parts
    /\ Init /\ (part # "initiator" => rf = None /\ registers = Defaults)
    /\ IF part = "target" THEN Listen!Init ELSE NoTarget
    /\ IF part = "frames" THEN Framing!Init ELSE NoFrames
    /\ IF part = "fields" THEN Tlv!Init ELSE NoFields
RunNext ==
    /\ UNCHANGED part
    /\ \/ part = "initiator" /\ Next /\ UNCHANGED <<targetVars, frameVars, tlvVars>>
       \/ part = "target" /\ Listen!Next /\ UNCHANGED <<vars, frameVars, tlvVars>>
       \/ part = "frames" /\ Framing!Next /\ UNCHANGED <<vars, targetVars, tlvVars>>
       \/ part = "fields" /\ Tlv!Next /\ UNCHANGED <<vars, targetVars, frameVars>>
RunSpec == RunInit /\ [][RunNext]_<<part, vars, targetVars, frameVars, tlvVars>>

-----------------------------------------------------------------------------
\* The properties of modules Listen, Framing and Tlv, each for its behaviours.

\* A listening target answers the frame it has just received, at that frame's rate,
\* and hands its caller a command of the link the initiator set up, with the poll
\* whose IDm the initiator uses (Tt4Session, listen_type_f_loop, dep_handle_psl).
RightPeerIsAnswered ==
    part = "target" => Listen!TypeOK /\ Listen!AnswersAreFresh /\ Listen!CommandIsOfTheLink /\ Listen!PollIsTheLastOne

\* An undisturbed initiator is found unless it leaves or time runs out, and then the
\* caller is told when the field goes (the listen loops, configure_target).
InitiatorIsFound == part = "target" => Listen!InitiatorIsFound /\ Listen!FieldLossIsWatched

\* A frame is read back as the payload it was built for, one with a damaged byte as
\* another payload only where its length marker is lost, the length byte of a FeliCa packet is taken off and put back, and
\* a TLV response means to the parser what its fields mean, whole or cut short
\* (framing.rs, frame.rs, rcs320/device.rs, tlv.rs).
FormatsAreFaithful ==
    /\ part = "frames" => Framing!RoundTrip /\ Framing!DamageIsNoticed /\ Framing!LengthByteIsRestored
    /\ part = "fields" => Tlv!ParserReadsFields /\ Tlv!CutIsWholeFields
==============================================================================
