----------------------------- MODULE Activation ------------------------------
(***************************************************************************)
(* The activation of a Type A or Type B card that the Port-400 driver      *)
(* makes frame by frame (detect_type_a_low_level, detect_type_b_low_level):*)
(* sense, anticollision and select per cascade level, the parameters, the  *)
(* rates.  An exchange is one step; the card may stay silent or a byte of  *)
(* its anticollision answer may arrive changed.                            *)
(***************************************************************************)
EXTENDS Iso14443, Bitwise

CONSTANTS
    Uids,        \* UIDs of Type A cards: sequences of 4, 7 or 10 bytes
    ParamsA,     \* ATS of Type A cards
    ParamsB,     \* Protocol Info of Type B cards
    MaxFaults    \* bound: answers lost or damaged

ActivationAssumption ==
    /\ \A uid \in Uids : Len(uid) \in {4, 7, 10} /\ \A i \in DOMAIN uid : uid[i] \in 0..255
    /\ MaxFaults \in Nat

VARIABLES
    type,      \* "A" or "B": what the caller looks for
    phase,     \* the frame to be sent next, or how the detection ended
    sel_code,  \* cascade level of the next anticollision
    block,     \* the anticollision answer: four bytes and the BCC
    uid,       \* UID collected so far
    config,    \* IsoDepConfig
    card,      \* the card: UID, parameters, levels selected, state and rates
    reader,    \* rates the reader exchanges at
    faults

vars == <<type, phase, sel_code, block, uid, config, card, reader, faults>>

CASCADE_TAG == 136                  \* 88h
SelCodes == <<147, 149, 151>>       \* 93h, 95h, 97h
Base == [dr |-> 0, ds |-> 0]
Rates == [dr : 0..3, ds : 0..3]
Frames == {"sense", "anticollision", "select", "params", "rates"}

(***************************************************************************)
(* Type correctness.                                                       *)
(***************************************************************************)
TypeOK ==
    /\ type \in {"A", "B"} /\ phase \in Frames \cup {"speed", "ok", "error"}
    /\ sel_code \in {SelCodes[i] : i \in 1..3}
    /\ block \in Seq(0..255) /\ Len(block) \in {0, 5}
    /\ uid \in Seq(0..255) /\ Len(uid) \in {0, 3, 4}
    /\ card.level \in 0..3 /\ card.rate \in Rates /\ reader \in Rates
    /\ faults \in 0..MaxFaults

---------------------------------------------------------------------------
(***************************************************************************)
(* The card (external).                                                    *)
(***************************************************************************)
Levels(u) == CASE Len(u) = 4 -> 1 [] Len(u) = 7 -> 2 [] OTHER -> 3

\* Every block but the last is a cascade tag and three bytes of the UID.
CardBlock(u, level) ==
    LET from == 3 * (level - 1) + 1 IN
    IF level < Levels(u) THEN <<CASCADE_TAG>> \o SubSeq(u, from, from + 2)
                         ELSE SubSeq(u, from, from + 3)

Bcc(b) == ((b[1] ^^ b[2]) ^^ b[3]) ^^ b[4]

CardAnswer == LET b == CardBlock(card.uid, AtMost(card.level + 1, 3)) IN Append(b, Bcc(b))

\* Other bytes arrive in place of some.
Damage(answer, at) == [i \in 1..5 |-> IF i \in at THEN (answer[i] + 1) % 256 ELSE answer[i]]

\* Whether the frame to be sent next is one the card answers in its state.
Meant ==
    CASE phase = "anticollision" -> sel_code = SelCodes[AtMost(card.level + 1, 3)]
      [] phase = "select" -> block = CardAnswer
      [] phase = "params" -> card.level = Levels(card.uid)
      [] OTHER -> TRUE

---------------------------------------------------------------------------
validate_bcc(b) == b[5] = Bcc(b)

next_cascade_code(code) == CASE code = 147 -> 149 [] code = 149 -> 151 [] OTHER -> 0

append_uid_block(u, b) ==
    IF b[1] = CASCADE_TAG THEN u \o SubSeq(b, 2, 4) ELSE u \o SubSeq(b, 1, 4)

data_rate_symbols == [dr |-> AtMost(config.dr, 3), ds |-> AtMost(config.ds, 3)]

---------------------------------------------------------------------------
Init ==
    /\ type \in {"A", "B"}
    /\ phase = "sense" /\ sel_code = SelCodes[1] /\ block = <<>> /\ uid = <<>>
    /\ config = IF type = "A" THEN type_a_defaults ELSE type_b_defaults
    /\ \E u \in Uids, p \in IF type = "A" THEN ParamsA ELSE ParamsB :
          card = [uid |-> u, params |-> p, level |-> 0, rate |-> Base]
    /\ reader = Base /\ faults = 0

Fails == phase' = "error"

\* REQA, or REQB whose answer carries the Protocol Info (request_type_b_info).
Sense ==
    /\ phase = "sense"
    /\ IF type = "A"
       THEN phase' = "anticollision" /\ UNCHANGED config
       ELSE phase' = "rates" /\ config' = apply_type_b_protocol_info(config, card.params)
    /\ UNCHANGED <<type, sel_code, block, uid, card, reader, faults>>

\* The card answers the anticollision of the level it is at; the BCC is checked
\* before the select is sent.
Anticollision(answer, lost) ==
    /\ phase = "anticollision" /\ Meant
    /\ faults' = faults + lost
    /\ block' = answer
    /\ IF validate_bcc(answer) THEN phase' = "select" ELSE Fails
    /\ UNCHANGED <<type, sel_code, uid, config, card, reader>>

ReadBlock == Anticollision(CardAnswer, 0)

ReadDamaged ==
    /\ faults < MaxFaults
    /\ \E i, j \in 1..5 : Anticollision(Damage(CardAnswer, {i, j}), 1)

\* SELECT: the card answers if it is meant.  The cascade bit of its SAK asks
\* for the next level, and what was collected is dropped.
Select ==
    /\ phase = "select" /\ Meant
    /\ card' = [card EXCEPT !.level = @ + 1]
    /\ IF card'.level = Levels(card.uid)
       THEN /\ phase' = "params"
            /\ uid' = append_uid_block(uid, block)
            /\ UNCHANGED sel_code
       ELSE /\ uid' = <<>>
            /\ IF next_cascade_code(sel_code) = 0
               THEN Fails /\ UNCHANGED sel_code
               ELSE phase' = "anticollision" /\ sel_code' = next_cascade_code(sel_code)
    /\ UNCHANGED <<type, block, config, reader, faults>>

\* RATS, answered by a card that is fully selected.
Rats ==
    /\ phase = "params" /\ Meant
    /\ config' = apply_ats(config, card.params)
    /\ phase' = "rates"
    /\ UNCHANGED <<type, sel_code, block, uid, card, reader, faults>>

\* Mutant: the reader is not told of the rates.
NegotiateAlways ==
    /\ phase = "rates"
    /\ card' = [card EXCEPT !.rate = data_rate_symbols]
    /\ phase' = "ok"
    /\ UNCHANGED <<type, sel_code, block, uid, config, reader, faults>>

\* PPS is left out at the base rates; ATTRIB always goes out.  The card changes
\* its rates once it has answered.
Negotiate ==
    /\ phase = "rates"
    /\ IF type = "A" /\ data_rate_symbols = Base
       THEN phase' = "ok" /\ UNCHANGED card
       ELSE phase' = "speed" /\ card' = [card EXCEPT !.rate = data_rate_symbols]
    /\ UNCHANGED <<type, sel_code, block, uid, config, reader, faults>>

\* apply_comm_speed: nothing to tell the reader at the base rates.
ApplyCommSpeed ==
    /\ phase = "speed"
    /\ reader' = IF data_rate_symbols = Base THEN reader ELSE data_rate_symbols
    /\ phase' = "ok"
    /\ UNCHANGED <<type, sel_code, block, uid, config, card, faults>>

\* No answer to a frame: the error ends the detection, after whatever the card
\* has made of the frame.
Unanswered ==
    /\ phase \in Frames \cup {"speed"} /\ faults < MaxFaults
    /\ faults' = faults + 1
    /\ Fails
    /\ \/ UNCHANGED card
       \/ phase = "rates" /\ card' = [card EXCEPT !.rate = data_rate_symbols]
    /\ UNCHANGED <<type, sel_code, block, uid, config, reader>>

\* A frame the card is not meant by.
Ignored ==
    /\ ~Meant
    /\ Fails
    /\ UNCHANGED <<type, sel_code, block, uid, config, card, reader, faults>>

Done == phase \in {"ok", "error"} /\ UNCHANGED vars

Next ==
    \/ Sense \/ ReadBlock \/ ReadDamaged \/ Select \/ Rats \/ Negotiate \/ ApplyCommSpeed
    \/ Unanswered \/ Ignored \/ Done

Spec == Init /\ [][Next]_vars

---------------------------------------------------------------------------
(***************************************************************************)
(* A card that answers every frame is found, however many cascade levels   *)
(* its UID takes and whatever parameters it announces.                     *)
(***************************************************************************)
HealthyCardIsFound == phase = "error" => faults > 0

(***************************************************************************)
(* A detection that succeeds leaves card and reader at the same rates.     *)
(***************************************************************************)
LinkAgrees == phase = "ok" => reader = card.rate

(***************************************************************************)
(* A card is only reported once all its levels are selected, under bytes   *)
(* that end its own UID, damaged answers or not.                           *)
(***************************************************************************)
ReportedIsSelected ==
    (phase = "ok" /\ type = "A") =>
        /\ card.level = Levels(card.uid)
        /\ uid = SubSeq(card.uid, Len(card.uid) - Len(uid) + 1, Len(card.uid))

(***************************************************************************)
(* "Doing it a frame at a time is what makes the card's ATQA, SAK, UID and *)
(* ATS visible to the caller": the UID reported is the card's.             *)
(***************************************************************************)
UidIsWhole == (phase = "ok" /\ type = "A") => uid = card.uid
==============================================================================
