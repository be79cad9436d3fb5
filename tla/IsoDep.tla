------------------------------- MODULE IsoDep --------------------------------
(***************************************************************************)
(* An ISO-DEP exchange of the Port-400 device with a card: the block loop, *)
(* its budgets, the session it keeps between exchanges, and a radio link   *)
(* that loses, repeats and garbles.  The driver is single-threaded: a      *)
(* block goes out, the card's reply or a timeout comes back, and the       *)
(* driver takes one step.                                                  *)
(* The card is external.  R-blocks are numbered either by the block the    *)
(* card expects next, which is what the driver compares with ("next"), or  *)
(* by the card's own block number, as ISO/IEC 14443-4 has it ("own").      *)
(***************************************************************************)
EXTENDS Iso14443, Functions

CONSTANTS
    Configs,        \* link parameters activation may leave behind
    Lengths,        \* lengths of a payload
    AnswerLengths,  \* lengths of the card's answers
    CardChunks,     \* how many bytes the card puts in a block
    Wtxms,          \* waiting time multipliers the card asks for
    IfsValues,      \* frame sizes the card asks for
    Numbering,      \* how the card numbers: "next" or "own"
    MaxExchanges,   \* bound: exchanges in a behaviour
    MaxLosses       \* bound: lost, stale or garbled replies, S(IFS) and S(DESELECT)

IsoDepAssumption ==
    /\ Configs \subseteq Config
    /\ Lengths \subseteq Nat /\ AnswerLengths \subseteq Nat
    /\ CardChunks \subseteq Nat \ {0} /\ Wtxms \subseteq 0..255 /\ IfsValues \subseteq 0..255
    /\ Numbering \in {"next", "own"}
    /\ MaxExchanges \in Nat /\ MaxLosses \in Nat

VARIABLES
    session,    \* IsoDepSession: tx, picc, config, negotiated
    held,       \* who holds it: "none", "device", or "exchange" while one runs
    protocol,   \* whether iso_dep_protocol is set
    exchange,   \* IsoDepExchangeState
    phase,      \* what the block on the air is for
    air, reply, \* the block sent to the card, and what came back
    card,       \* the card's side (external)
    outcome,    \* how the last exchange ended
    count, faults, clean \* bounds; clean: no exchange failed since activation
isoDepVars == <<session, held, protocol, exchange, phase, air, reply, card, outcome, count, faults, clean>>

MAX_THROUGH_PAYLOAD == 290
Timeout == [type |-> "timeout"]
Garbled == [type |-> "garbled"]
None == [ok |-> FALSE, id |-> 0, length |-> 0, chaining |-> FALSE, got |-> <<>>]

NoExchange ==
    [id |-> 0, length |-> 0, chaining |-> FALSE, offset |-> 0, sent_empty |-> FALSE,
     frame |-> NoBlock, wtx |-> 0, multiplier |-> 1, naks |-> 0, max_picc |-> 0, got |-> <<>>]

FreshCard ==
    [expect |-> 0, ns |-> 0, own |-> 1, last |-> NoBlock, open |-> FALSE,
     taken |-> <<>>, id |-> 0, length |-> 0]

Idle == phase = "idle"

IsoDepInit ==
    /\ session \in {[tx |-> 0, picc |-> 0, config |-> c, negotiated |-> FALSE] : c \in Configs}
    /\ held = "none" /\ protocol = FALSE
    /\ exchange = NoExchange
    /\ phase = "idle" /\ air = NoBlock /\ reply = NoBlock
    /\ card = FreshCard
    /\ outcome = None
    /\ count = 0 /\ faults = 0 /\ clean = FALSE

(***************************************************************************)
(* The session                                                             *)
(***************************************************************************)
\* start_iso_dep_session, after the card was activated anew.
start_iso_dep_session ==
    /\ Idle
    /\ \E c \in Configs : session' = [tx |-> 0, picc |-> 0, config |-> c, negotiated |-> FALSE]
    /\ held' = "device" /\ protocol' = TRUE
    /\ card' = FreshCard
    /\ outcome' = None /\ clean' = TRUE
    /\ UNCHANGED <<exchange, phase, air, reply, count, faults>>

\* The application resets the driver's half alone.
reset_iso_dep_session ==
    /\ Idle /\ held = "device"
    /\ session' = [session EXCEPT !.tx = 0, !.picc = 0, !.negotiated = FALSE]
    /\ clean' = FALSE
    /\ UNCHANGED <<held, protocol, exchange, phase, air, reply, card, outcome, count, faults>>

end_iso_dep_session ==
    /\ Idle /\ held = "device"
    /\ held' = "none" /\ protocol' = FALSE
    /\ UNCHANGED <<session, exchange, phase, air, reply, card, outcome, count, faults, clean>>

Send(block, purpose) == air' = block /\ phase' = purpose /\ reply' = NoBlock

\* An error ends the exchange.  The session goes back to the device unless
\* the link parameters were still being settled or the card was deselected.
Fail(kept) ==
    /\ held' = IF kept THEN "device" ELSE "none"
    /\ phase' = "idle" /\ air' = NoBlock /\ reply' = NoBlock
    /\ outcome' = None /\ clean' = FALSE

Finish(x, got) ==
    /\ held' = "device"
    /\ phase' = "idle" /\ air' = NoBlock /\ reply' = NoBlock
    /\ outcome' = [ok |-> TRUE, id |-> x.id, length |-> x.length, chaining |-> x.chaining, got |-> got]

needs_ifs_request(s) == max_inf_len_pcd(s.config) > 32 /\ ~s.negotiated

\* IsoDepExchangeState::new; the first frame is cut with the session's size.
NewExchange(s, id, length, chaining) ==
    LET frame == next_iso_dep_i_frame(s.tx, id, 0, length, max_inf_len_pcd(s.config), chaining) IN
    [id |-> id, length |-> length, chaining |-> chaining, offset |-> frame.inf.to, sent_empty |-> length = 0,
     frame |-> frame, wtx |-> 0, multiplier |-> 1, naks |-> AtLeast(s.config.max_retry_r_nak, 1),
     max_picc |-> max_inf_len_picc(s.config), got |-> <<>>]

\* iso_dep_exchange, to its first block on the air.
iso_dep_exchange ==
    /\ Idle /\ held = "device" /\ count < MaxExchanges
    /\ count' = count + 1
    /\ held' = "exchange"
    /\ \E length \in Lengths, chaining \in BOOLEAN :
         LET x == NewExchange(session, count + 1, length, chaining) IN
         /\ exchange' = x
         /\ IF needs_ifs_request(session)
            THEN Send(SBlock("IFS", AtMost(max_inf_len_pcd(session.config), 254)), "ifs")
            ELSE Send(x.frame, "loop")
    /\ outcome' = None
    /\ UNCHANGED <<session, protocol, card, faults, clean>>

(***************************************************************************)
(* The driver's step on a reply                                            *)
(***************************************************************************)
ensure_iso_dep_link_parameters ==
    /\ phase = "ifs" /\ reply # NoBlock
    /\ IF reply.type = "R" /\ reply.ack
       THEN /\ session' = [session EXCEPT !.negotiated = TRUE]
            /\ Send(exchange.frame, "loop")
            /\ UNCHANGED <<held, outcome, clean>>
       ELSE Fail(FALSE) /\ UNCHANGED session
    /\ UNCHANGED <<protocol, exchange, card, count, faults>>

reset_progress(x) == [x EXCEPT !.wtx = 0, !.multiplier = 1]

ExceedsBounds(inf) ==
    \/ Size(inf) > exchange.max_picc
    \/ FoldFunction(+, 0, [i \in DOMAIN exchange.got |-> Size(exchange.got[i])]) + Size(inf) > MAX_THROUGH_PAYLOAD

send_iso_dep_ack(s) == Send(RBlock(s.picc, TRUE), "loop")

\* handle_iso_dep_i_block, the block that was expected.
AcceptIBlock ==
    /\ phase = "loop" /\ reply.type = "I" /\ reply.number = session.picc
    /\ ~ExceedsBounds(reply.inf)
    /\ LET s == [session EXCEPT !.picc = 1 - @]
           x == reset_progress([exchange EXCEPT !.got = Append(@, reply.inf)]) IN
       /\ exchange' = x
       /\ IF reply.chaining
          THEN session' = s /\ send_iso_dep_ack(s) /\ UNCHANGED <<held, outcome>>
          ELSE session' = [s EXCEPT !.tx = 1 - @] /\ Finish(x, x.got)
    /\ UNCHANGED <<protocol, card, count, faults, clean>>

\* The previous block again: acknowledged, nothing else changes.
RepeatedIBlock ==
    /\ phase = "loop" /\ reply.type = "I" /\ reply.number # session.picc
    /\ send_iso_dep_ack(session)
    /\ UNCHANGED <<session, held, protocol, exchange, card, outcome, count, faults, clean>>

RejectIBlock ==
    /\ phase = "loop" /\ reply.type = "I" /\ reply.number = session.picc
    /\ ExceedsBounds(reply.inf)
    /\ Fail(protocol)
    /\ UNCHANGED <<session, protocol, exchange, card, count, faults>>

\* Mutant: the next frame goes out with the number of the last one.
AcknowledgedInPlace ==
    /\ phase = "loop" /\ reply.type = "R" /\ reply.ack
    /\ IF HasFrame(exchange.offset, exchange.length, exchange.sent_empty)
       THEN LET f == next_iso_dep_i_frame(session.tx, exchange.id, exchange.offset, exchange.length,
                                          max_inf_len_pcd(session.config), exchange.chaining) IN
            /\ exchange' = [exchange EXCEPT !.frame = f, !.offset = f.inf.to]
            /\ Send(f, "loop") /\ UNCHANGED <<held, outcome>>
       ELSE Finish(exchange, <<>>) /\ UNCHANGED exchange
    /\ UNCHANGED <<session, protocol, card, count, faults, clean>>

\* handle_iso_dep_r_block, R(ACK): the next frame, or the end of a payload the
\* caller continues in another exchange.
Acknowledged ==
    /\ phase = "loop" /\ reply.type = "R" /\ reply.ack /\ reply.number = 1 - session.tx
    /\ LET s == [session EXCEPT !.tx = 1 - @]
           x == reset_progress(exchange) IN
       /\ session' = s
       /\ IF HasFrame(x.offset, x.length, x.sent_empty)
          THEN LET f == next_iso_dep_i_frame(s.tx, x.id, x.offset, x.length,
                                             max_inf_len_pcd(s.config), x.chaining) IN
               /\ exchange' = [x EXCEPT !.frame = f, !.offset = f.inf.to]
               /\ Send(f, "loop")
               /\ UNCHANGED <<held, outcome, clean>>
          ELSE /\ exchange' = x
               /\ IF x.frame.chaining THEN Finish(x, <<>>) /\ UNCHANGED clean ELSE Fail(protocol)
    /\ UNCHANGED <<protocol, card, count, faults>>

\* R(NAK): the frame again, while the budget of the exchange lasts.
NotAcknowledged ==
    /\ phase = "loop" /\ reply.type = "R" /\ ~reply.ack /\ reply.number = 1 - session.tx
    /\ IF exchange.naks = 0
       THEN Fail(protocol) /\ exchange' = reset_progress(exchange)
       ELSE /\ exchange' = [reset_progress(exchange) EXCEPT !.naks = @ - 1]
            /\ Send(exchange.frame, "loop")
            /\ UNCHANGED <<held, outcome, clean>>
    /\ UNCHANGED <<session, protocol, card, count, faults>>

RejectRBlock ==
    /\ phase = "loop" /\ reply.type = "R" /\ reply.number = session.tx
    /\ Fail(protocol)
    /\ exchange' = reset_progress(exchange)
    /\ UNCHANGED <<session, protocol, card, count, faults>>

\* Mutant: every extension is granted.
WaitingTimeUnlimited ==
    /\ phase = "loop" /\ reply.type = "S" /\ reply.code = "WTX"
    /\ exchange' = [exchange EXCEPT !.wtx = AtMost(@ + 1, 6), !.multiplier = wtx_multiplier(reply.value)]
    /\ Send(SBlock("WTX", reply.value), "loop")
    /\ UNCHANGED <<session, held, protocol, card, outcome, count, faults, clean>>

\* handle_iso_dep_s_block, S(WTX).
WaitingTime ==
    /\ phase = "loop" /\ reply.type = "S" /\ reply.code = "WTX"
    /\ LET x == [exchange EXCEPT !.wtx = @ + 1] IN
       IF x.wtx > session.config.max_try_s_wtx
       THEN Fail(protocol) /\ exchange' = x
       ELSE /\ exchange' = [x EXCEPT !.multiplier = wtx_multiplier(reply.value)]
            /\ Send(SBlock("WTX", reply.value), "loop")
            /\ UNCHANGED <<held, outcome, clean>>
    /\ UNCHANGED <<session, protocol, card, count, faults>>

\* S(IFS): the reply to it is thrown away and the current frame goes out again.
FrameSize ==
    /\ phase = "loop" /\ reply.type = "S" /\ reply.code = "IFS"
    /\ session' = [session EXCEPT !.config = update_pcd_ifs(@, reply.value), !.negotiated = TRUE]
    /\ Send(SBlock("IFS", reply.value), "ifs reply")
    /\ UNCHANGED <<held, protocol, exchange, card, outcome, count, faults, clean>>

AfterFrameSize ==
    /\ phase = "ifs reply" /\ reply \notin {NoBlock, Timeout}
    /\ Send(exchange.frame, "loop")
    /\ UNCHANGED <<session, held, protocol, exchange, card, outcome, count, faults, clean>>

Deselected ==
    /\ phase = "loop" /\ reply.type = "S" /\ reply.code = "DESELECT"
    /\ Send(SBlock("DESELECT", 0), "deselect")
    /\ UNCHANGED <<session, held, protocol, exchange, card, outcome, count, faults, clean>>

AfterDeselected ==
    /\ phase = "deselect" /\ reply \notin {NoBlock, Timeout}
    /\ protocol' = FALSE
    /\ Fail(FALSE)
    /\ UNCHANGED <<session, exchange, card, count, faults>>

\* The transport reports an error, or the reply does not parse.
Broken ==
    /\ phase # "ifs"
    /\ \/ reply = Timeout
       \/ phase = "loop" /\ reply = Garbled
    /\ UNCHANGED protocol
    /\ Fail(protocol)
    /\ UNCHANGED <<session, exchange, card, count, faults>>

Driver ==
    \/ ensure_iso_dep_link_parameters \/ AcceptIBlock \/ RepeatedIBlock \/ RejectIBlock
    \/ Acknowledged \/ NotAcknowledged \/ RejectRBlock \/ WaitingTime
    \/ FrameSize \/ AfterFrameSize \/ Deselected \/ AfterDeselected \/ Broken

(***************************************************************************)
(* The card and the link (external)                                        *)
(***************************************************************************)
OnAir == air # NoBlock /\ reply = NoBlock

\* The card's next block of its answer; c has the number to use.
Answering(c, number, from, chunk) ==
    LET inf == Chunk(c.id, from, c.length, chunk) IN
    [c EXCEPT !.last = IBlock(number, inf.to < c.length, inf), !.ns = 1 - @]

\* A block of the command is taken; the last one makes the card answer.
Take(c, b, length, chunk) ==
    LET t == [c EXCEPT !.expect = 1 - b.number, !.own = 1 - @, !.open = b.chaining,
                       !.taken = IF c.open THEN Append(@, b.inf) ELSE <<b.inf>>] IN
    IF b.chaining
    THEN [t EXCEPT !.last = RBlock(IF Numbering = "own" THEN t.own ELSE t.expect, TRUE)]
    ELSE Answering([t EXCEPT !.id = b.inf.id, !.length = length],
                   IF Numbering = "own" THEN t.own ELSE t.ns, 0, chunk)

\* R(ACK) for the last block asks for the next one.
AsksForNext(c, b) ==
    /\ c.last.type = "I" /\ c.last.chaining
    /\ b.number # c.last.number

\* What the card makes of a block: its new state, whose last is the reply.
Processed(c, b, length, chunk) ==
    CASE b.type = "I" /\ (Numbering = "own" \/ b.number = c.expect) -> Take(c, b, length, chunk)
      [] b.type = "R" /\ AsksForNext(c, b) ->
           Answering([c EXCEPT !.own = 1 - @], 1 - c.last.number, c.last.inf.to, chunk)
      [] OTHER -> c

\* The reply of a card that has nothing to answer with is a timeout.
Mute(c) ==
    \/ c.last = NoBlock
    \/ air.type = "R" /\ c = card /\ (c.last.type # "I" \/ c.last.number # air.number)
ReplyOf(c) ==
    IF air.type = "S" /\ air.code # "WTX" THEN RBlock(0, TRUE) ELSE IF Mute(c) THEN Timeout ELSE c.last

CardUnchanged == UNCHANGED <<session, held, protocol, exchange, phase, air, outcome, count, clean>>

\* The card takes the block and its reply arrives; or it asks for time first;
\* or the reply is lost, or an older one arrives in its place.
CardTakes ==
    /\ OnAir
    /\ \E length \in AnswerLengths, chunk \in CardChunks :
         LET c == Processed(card, air, length, chunk) IN
         /\ card' = c
         /\ \/ reply' = ReplyOf(c) /\ UNCHANGED faults
            \/ /\ phase = "loop"
               /\ reply' \in {SBlock("WTX", w) : w \in Wtxms}
               /\ UNCHANGED faults
            \/ /\ faults < MaxLosses /\ faults' = faults + 1
               /\ reply' \in {Timeout, Garbled} \cup (IF card.last.type = "I" THEN {card.last} ELSE {})
    /\ CardUnchanged

\* The card does not take the block: it got nothing, or nothing it can use, or
\* it has a request of its own first.
CardRefuses ==
    /\ OnAir /\ UNCHANGED card
    /\ \/ phase = "loop" /\ reply' \in {RBlock(n, FALSE) : n \in 0..1} /\ UNCHANGED faults
       \/ /\ faults < MaxLosses /\ faults' = faults + 1
          /\ reply' \in {Timeout, SBlock("DESELECT", 0)} \cup {SBlock("IFS", v) : v \in IfsValues}
    /\ CardUnchanged

Card == CardTakes \/ CardRefuses
Application == start_iso_dep_session \/ reset_iso_dep_session \/ end_iso_dep_session \/ iso_dep_exchange
IsoDepNext == Application \/ Driver \/ Card

\* The driver never waits on anything but the radio, and the reader reports a
\* timeout when no reply comes: an exchange that can go on does.
IsoDepSpec == IsoDepInit /\ [][IsoDepNext]_isoDepVars /\ WF_isoDepVars(Driver \/ Card)

(***************************************************************************)
(* Properties                                                              *)
(***************************************************************************)
Slices == [id : Nat, from : Nat, to : Nat]
Blocks == [type : {"I"}, number : 0..1, chaining : BOOLEAN, inf : Slices]
            \cup [type : {"R"}, number : 0..1, ack : BOOLEAN]
            \cup [type : {"S"}, code : {"WTX", "IFS", "DESELECT"}, value : Int]
            \cup {NoBlock}

IsoDepTypeOK ==
    /\ session \in [tx : 0..1, picc : 0..1, config : Config, negotiated : BOOLEAN]
    /\ held \in {"none", "device", "exchange"} /\ protocol \in BOOLEAN
    /\ exchange \in [id : Nat, length : Nat, chaining : BOOLEAN, offset : Nat, sent_empty : BOOLEAN,
                     frame : Blocks, wtx : Nat, multiplier : 1..ISO_DEP_WTXM_MAX, naks : 0..255,
                     max_picc : Int, got : Seq(Slices)]
    /\ exchange.offset <= exchange.length
    /\ phase \in {"idle", "ifs", "loop", "ifs reply", "deselect"}
    /\ air \in Blocks /\ reply \in Blocks \cup {Timeout, Garbled}
    /\ card \in [expect : 0..1, ns : 0..1, own : 0..1, last : Blocks, open : BOOLEAN,
                 taken : Seq(Slices), id : Nat, length : Nat]
    /\ outcome \in [ok : BOOLEAN, id : Nat, length : Nat, chaining : BOOLEAN, got : Seq(Slices)]
    /\ count \in 0..MaxExchanges /\ faults \in 0..MaxLosses /\ clean \in BOOLEAN

\* The last blocks the card took are the whole payload of an exchange, and no earlier
\* one was of it.
Delivered(id, length) ==
    \E k \in DOMAIN card.taken :
        /\ Whole(SubSeq(card.taken, k, Len(card.taken)), id, length)
        /\ \A i \in 1..(k - 1) : card.taken[i].id # id

\* An exchange that reports success delivered its payload to the card once, in
\* order and without a gap, whatever was lost, repeated, renegotiated or
\* delayed on the way: run_iso_dep_loop keeps the block numbers of both sides
\* in step.
PayloadDelivered == clean /\ outcome.ok => Delivered(outcome.id, outcome.length)

\* The data it returns is the card's whole answer to that payload, with no
\* block of it missing or repeated.
AnswerDelivered ==
    clean /\ outcome.ok /\ ~outcome.chaining => Whole(outcome.got, outcome.id, card.length)

\* A session is in the device between exchanges and nowhere else; a session
\* that ended leaves no protocol behind to return it to.
SessionIsKept ==
    /\ (held = "exchange") = (phase # "idle")
    /\ held = "device" => protocol
    /\ clean /\ phase = "idle" /\ protocol => held = "device"

\* A successful exchange delivered its payload once and in order and returns the whole
\* answer to it, and the session is in the device between exchanges and nowhere else
\* (run_iso_dep_loop, iso_dep_exchange).
ExchangeDelivers == IsoDepTypeOK /\ PayloadDelivered /\ AnswerDelivered /\ SessionIsKept

\* An exchange ends, however often the card refuses a frame or asks for time:
\* the R(NAK) budget is never refilled and between two refusals the extensions
\* are counted.
ExchangeEnds == phase # "idle" ~> phase = "idle"

\* The same agreement without the condition that no exchange failed before:
\* "sends one payload and returns the card's answer" (iso_dep.rs, module doc).
AnswerIsForThisPayload == outcome.ok /\ ~outcome.chaining => Whole(outcome.got, outcome.id, card.length)

\* The acknowledgement of a frame the card took lets a chained payload go on:
\* "application data travels in I-blocks that both sides acknowledge, retry and
\* chain" (iso_dep.rs, module doc of the ISO/IEC 14443-4 protocol).
ChainingGoesOn ==
    [][clean /\ phase = "loop" /\ reply = card.last /\ reply.type = "R" => phase' # "idle" \/ outcome'.ok]_isoDepVars
==============================================================================
