------------------------------ MODULE HostLink ------------------------------
(***************************************************************************)
(* The exchange of one command between the host and a reader, as the four  *)
(* drivers run it:                                                         *)
(*   "port100", "rcs956", "rcs320"  SOF frames, an ACK and then an answer; *)
(*   "ccid"                         the Port-400's escape frames, which    *)
(*                                  carry a sequence number.               *)
(* A packet is a whole frame, as a USB read hands it over.  The identity   *)
(* of a command (its position among the commands written) is known to the  *)
(* model only; the drivers see the command code and, for CCID, the         *)
(* sequence number.                                                        *)
(***************************************************************************)
EXTENDS Integers, Sequences, FiniteSets

CONSTANTS
    Readers,       \* the readers explored: a driver, and whether the reader is orderly
    Codes,         \* command codes
    SeqMod,        \* sequence numbers wrap at this value (256 in the code)
    MaxSends,      \* bound: commands written
    MaxBacklog,    \* bound: commands the reader holds unanswered
    MaxPipe,       \* bound: packets waiting to be read
    MaxFaults      \* bound: packets that are no frame, and writes that fail

HostLinkAssumption ==
    /\ Readers \subseteq {"port100", "rcs956", "rcs320", "ccid"} \X BOOLEAN
    /\ {SeqMod, MaxSends, MaxBacklog, MaxPipe} \subseteq Nat \ {0}
    /\ MaxFaults \in Nat

SEQUENCE_ERROR_RETRY_COUNT == 2
SlotBusyRetries == 1       \* slot_busy_retries of an ordinary command
AnyCode == "init"          \* RC-S320 start-up commands, whose answer nobody checks

VARIABLES
    chip,      \* which driver this is
    orderly,   \* does the reader acknowledge in time, stop when told to, and send frames only?
    reader,    \* commands the reader holds, oldest first
    pipe,      \* packets waiting on the reader's IN endpoint
    held,      \* what the driver has buffered ahead of the pipe
    host,      \* the exchange under way
    result,    \* how the last exchange ended
    sent,      \* commands written so far
    failed,    \* exchanges that ended in an error
    faults     \* packets of noise and failed writes so far

vars == <<chip, orderly, reader, pipe, held, host, result, sent, failed, faults>>
env == <<chip, orderly, faults>>

Phases == {"idle", "ack", "rsp", "more", "broken", "recover", "drain"}
AnswerKinds == {"rsp", "err", "busy", "ext"}
Packet == [kind : AnswerKinds \cup {"ack", "noise"}, owner : 0..MaxSends,
           code : Codes \cup {"none"}, seq : 0..(SeqMod - 1)]
Command == [id : 1..MaxSends, code : Codes, seq : 0..(SeqMod - 1), acked : BOOLEAN]

Idle == [phase |-> "idle", id |-> 0, code |-> "none", late |-> FALSE, read |-> FALSE,
         drain |-> FALSE, tries |-> 0, mismatches |-> 0]
NoResult == [end |-> "none", id |-> 0, owner |-> 0, cancelled |-> FALSE]

(***************************************************************************)
(* Type correctness.                                                       *)
(***************************************************************************)
TypeOK ==
    /\ <<chip, orderly>> \in Readers
    /\ reader \in Seq(Command) /\ Len(reader) <= MaxBacklog
    /\ pipe \in Seq(Packet) /\ Len(pipe) <= MaxPipe
    /\ held \in Seq(Packet)
    /\ host \in [phase : Phases, id : 0..MaxSends, code : Codes \cup {"none"},
                 late : BOOLEAN, read : BOOLEAN, drain : BOOLEAN, tries : 0..(SlotBusyRetries + 1),
                 mismatches : 0..SEQUENCE_ERROR_RETRY_COUNT]
    /\ result \in [end : {"none", "ok", "err", "noack", "timeout"}, id : 0..MaxSends,
                   owner : 0..MaxSends, cancelled : BOOLEAN]
    /\ sent \in 0..MaxSends /\ failed \in 0..MaxSends /\ faults \in 0..MaxFaults

Init ==
    /\ \E r \in Readers : chip = r[1] /\ orderly = r[2]
    /\ reader = <<>> /\ pipe = <<>> /\ held = <<>>
    /\ host = Idle /\ result = NoResult
    /\ sent = 0 /\ failed = 0 /\ faults = 0

---------------------------------------------------------------------------
(***************************************************************************)
(* The reader (external): it acknowledges a command, answers it, or never  *)
(* does.                                                                   *)
(***************************************************************************)
Emit(kind, c) ==
    /\ Len(pipe) < MaxPipe
    /\ pipe' = Append(pipe, [kind |-> kind, owner |-> c.id, code |-> c.code, seq |-> c.seq])

ReaderAcks ==
    /\ chip # "ccid" /\ reader # <<>> /\ ~Head(reader).acked
    /\ Emit("ack", Head(reader))
    /\ reader' = <<[Head(reader) EXCEPT !.acked = TRUE]>> \o Tail(reader)
    /\ UNCHANGED <<held, host, result, sent, failed, env>>

\* A command is answered once it has been acknowledged; an RC-S320 or an
\* RC-S956 may leave the ACK out.  A busy CCID slot has dropped the command, a
\* time extension keeps it.
ReaderAnswers(kind) ==
    /\ reader # <<>>
    /\ kind \in {"busy", "ext"} => chip = "ccid"
    /\ Head(reader).acked \/ chip # "port100"
    /\ Emit(kind, Head(reader))
    /\ reader' = IF kind = "ext" THEN reader ELSE Tail(reader)
    /\ UNCHANGED <<held, host, result, sent, failed, env>>

ReaderDrops ==
    /\ reader # <<>>
    /\ reader' = Tail(reader)
    /\ UNCHANGED <<pipe, held, host, result, sent, failed, env>>

Noise ==
    /\ ~orderly /\ faults < MaxFaults /\ Len(pipe) < MaxPipe
    /\ faults' = faults + 1
    /\ pipe' = Append(pipe, [kind |-> "noise", owner |-> 0, code |-> "none", seq |-> 0])
    /\ UNCHANGED <<chip, orderly, reader, held, host, result, sent, failed>>

\* An ACK from the host makes the reader give up what it is doing, unless its
\* answer is already on its way.
Cancelled(commands) == IF orderly THEN {<<>>} ELSE {<<>>, commands}

---------------------------------------------------------------------------
(***************************************************************************)
(* The host: how an exchange ends, and how the driver reads a packet.      *)
(***************************************************************************)
Finish(end, owner, cancelled) ==
    /\ result' = [end |-> end, id |-> host.id, owner |-> owner, cancelled |-> cancelled]
    /\ failed' = IF end = "ok" THEN failed ELSE failed + 1
    /\ host' = Idle

Enter(phase) == /\ host' = [host EXCEPT !.phase = phase, !.late = FALSE, !.read = FALSE]
                /\ UNCHANGED <<result, failed>>

\* recover_on_error: the ACK goes out, the input is drained if asked for.
Recover(drain) == /\ host' = [host EXCEPT !.phase = "recover", !.drain = drain,
                                          !.late = FALSE, !.read = FALSE]
                  /\ UNCHANGED <<result, failed>>

\* next_sequence: a u8 that wraps.
Sequence(id) == id % SeqMod

Received(id, code) == Append(reader, [id |-> id, code |-> code, seq |-> Sequence(id), acked |-> FALSE])

\* command / escape: the frame is written.  CCID forgets what it had buffered.
Send(code) ==
    /\ host.phase = "idle" /\ sent < MaxSends
    /\ Len(reader) < MaxBacklog
    /\ sent' = sent + 1
    /\ reader' = Received(sent', code)
    /\ host' = [Idle EXCEPT !.phase = IF chip = "ccid" THEN "rsp" ELSE "ack",
                            !.id = sent', !.code = code,
                            !.tries = SlotBusyRetries + 1,
                            !.mismatches = SEQUENCE_ERROR_RETRY_COUNT]
    /\ held' = IF chip = "ccid" THEN <<>> ELSE held
    /\ result' = NoResult
    /\ UNCHANGED <<pipe, failed, env>>

\* The write itself fails: the Port-100 and the RC-S956 recover, without
\* draining; the other two report it and nothing else.
SendFails(code) ==
    /\ host.phase = "idle" /\ sent < MaxSends
    /\ Len(reader) = MaxBacklog /\ ~orderly /\ faults < MaxFaults
    /\ faults' = faults + 1
    /\ sent' = sent + 1
    /\ IF chip \in {"port100", "rcs956"}
       THEN /\ host' = [Idle EXCEPT !.phase = "recover", !.id = sent', !.code = code]
            /\ result' = NoResult /\ failed' = failed
       ELSE /\ host' = Idle /\ failed' = failed + 1
            /\ result' = [NoResult EXCEPT !.end = "err", !.id = sent']
    /\ UNCHANGED <<chip, orderly, reader, pipe, held>>

\* The next packet: what is buffered first, then one from the transport, which
\* is asked only while time is left.
Available == IF held # <<>> THEN held ELSE IF host.late THEN <<>> ELSE pipe
Next_(packet) ==
    /\ Available # <<>> /\ packet = Head(Available)
    /\ IF held # <<>> THEN held' = Tail(held) /\ UNCHANGED pipe
                      ELSE pipe' = Tail(pipe) /\ UNCHANGED held
Take(packet) == Next_(packet) /\ UNCHANGED <<reader, sent, env>>

\* The deadline of the phase passes: while the driver waits for a packet, or
\* after it has read one that did not end the phase.  An orderly reader has acknowledged long
\* before, so the ACK is only missed when the command itself is gone.
Deadline ==
    /\ host.phase \in {"ack", "rsp", "more", "broken", "drain"} /\ ~host.late
    /\ pipe = <<>> \/ host.read
    /\ (orderly /\ host.phase = "ack") =>
          pipe = <<>> /\ \A i \in DOMAIN reader : reader[i].id # host.id
    /\ host' = [host EXCEPT !.late = TRUE]
    /\ UNCHANGED <<reader, pipe, held, result, sent, failed, env>>

---------------------------------------------------------------------------
(* Port-100 *)

Port100Ack(p) ==
    /\ chip = "port100" /\ host.phase = "ack" /\ Take(p)
    /\ IF p.kind = "ack" THEN Enter("rsp") ELSE Recover(FALSE)

\* An answer that is not for this code is an error without recovery.  An ACK or
\* an error frame is shorter than read_frame_bytes expects a frame to be.
Port100Rsp(p) ==
    /\ chip = "port100" /\ host.phase = "rsp" /\ Take(p)
    /\ CASE p.kind = "rsp" -> IF p.code = host.code THEN Finish("ok", p.owner, FALSE)
                                                    ELSE Finish("err", 0, FALSE)
         [] p.kind \in {"ack", "err"} -> Enter("broken")
         [] OTHER -> Recover(TRUE)

\* The missing bytes are taken from the next packet and the frame is refused.
Port100Broken(p) ==
    /\ chip = "port100" /\ host.phase = "broken" /\ Take(p)
    /\ Recover(TRUE)

\* Mutant: recovery never drains the input.
Port100TimeoutNoDrain ==
    /\ chip = "port100" /\ host.phase \in {"ack", "rsp", "broken"}
    /\ host.late /\ held = <<>>
    /\ Recover(FALSE)
    /\ UNCHANGED <<reader, pipe, held, sent, env>>

Port100Timeout ==
    /\ chip = "port100" /\ host.phase \in {"ack", "rsp", "broken"}
    /\ host.late /\ held = <<>>
    /\ Recover(host.phase # "ack")
    /\ UNCHANGED <<reader, pipe, held, sent, env>>

(* recover_after_error: Port-100 and RC-S956 *)

RecoverySendsAck ==
    /\ host.phase = "recover"
    /\ reader' \in Cancelled(reader)
    /\ held' = <<>>
    /\ IF host.drain THEN Enter("drain") ELSE Finish("err", 0, TRUE)
    /\ UNCHANGED <<pipe, sent, env>>

DrainInput(p) ==
    /\ host.phase = "drain" /\ pipe # <<>> /\ p = Head(pipe)
    /\ pipe' = Tail(pipe)
    /\ UNCHANGED <<reader, held, host, result, sent, failed, env>>

\* The 50 ms are over: what had arrived has been read long before.
DrainEnds ==
    /\ host.phase = "drain" /\ host.late /\ pipe = <<>>
    /\ Finish("err", 0, TRUE)
    /\ UNCHANGED <<reader, pipe, held, sent, env>>

(* RC-S956 *)

\* parse_response_frame and extract_response_payload.
Rcs956Answer(p) ==
    IF p.kind = "rsp" /\ p.code = host.code THEN Finish("ok", p.owner, FALSE)
                                            ELSE Finish("err", 0, FALSE)

\* A first frame that is no ACK is taken for the answer.
Rcs956First(p) ==
    /\ chip = "rcs956" /\ host.phase = "ack" /\ Take(p)
    /\ CASE p.kind = "ack" -> Enter("rsp")
         [] p.kind = "noise" -> Recover(TRUE)
         [] OTHER -> Rcs956Answer(p)

\* Further ACKs are skipped; before each read the deadline is looked at.
Rcs956Loop(p) ==
    /\ chip = "rcs956" /\ host.phase \in {"rsp", "more"} /\ Take(p)
    /\ IF p.kind = "ack"
       THEN host' = [host EXCEPT !.phase = "more", !.read = TRUE] /\ UNCHANGED <<result, failed>>
       ELSE Rcs956Answer(p)

\* The read itself times out: the error is passed on and nothing is sent.
Rcs956ReadTimeout ==
    /\ chip = "rcs956" /\ host.phase \in {"ack", "rsp", "more"}
    /\ host.late
    /\ Finish(IF host.phase = "ack" THEN "noack" ELSE "timeout", 0, FALSE)
    /\ UNCHANGED <<reader, pipe, held, sent, env>>

\* The deadline is found passed on the way from an ACK to the next read.
Rcs956DeadlineSeen ==
    /\ chip = "rcs956" /\ host.phase = "more" /\ host.late
    /\ reader' \in Cancelled(reader)
    /\ Finish("timeout", 0, TRUE)
    /\ UNCHANGED <<pipe, held, sent, env>>

(* RC-S320 *)

\* What is left of a packet of noise once five or six bytes of it were read.
Rest(p) == {<<>>, <<p>>}

\* wait_for_ack: a frame in place of the ACK is put back, to be read as the
\* answer; bytes that start no frame are an error, and their rest stays
\* buffered.
Rcs320Ack(p) ==
    /\ chip = "rcs320" /\ host.phase = "ack"
    /\ Available # <<>> /\ p = Head(Available)
    /\ pipe' = IF held = <<>> THEN Tail(pipe) ELSE pipe
    /\ CASE p.kind = "ack" -> held' = <<>> /\ Enter("rsp")
         [] p.kind = "noise" -> held' \in Rest(p) /\ Finish("err", 0, FALSE)
         [] OTHER -> held' = <<p>> /\ Enter("rsp")
    /\ UNCHANGED <<reader, sent, env>>

\* recv_response and the check its caller makes: a start-up command checks
\* nothing.  One ACK may come first.
Rcs320Rsp(p) ==
    /\ chip = "rcs320" /\ host.phase \in {"rsp", "more"}
    /\ Available # <<>> /\ p = Head(Available)
    /\ pipe' = IF held = <<>> THEN Tail(pipe) ELSE pipe
    /\ held' \in IF p.kind = "noise" THEN Rest(p) ELSE {<<>>}
    /\ CASE p.kind = "ack" /\ host.phase = "rsp" ->
              /\ host' = [host EXCEPT !.phase = "more", !.read = TRUE]
              /\ UNCHANGED <<result, failed>>
         [] p.kind = "rsp" /\ host.code \in {p.code, AnyCode} -> Finish("ok", p.owner, FALSE)
         [] OTHER -> Finish("err", 0, FALSE)
    /\ UNCHANGED <<reader, sent, env>>

\* Nothing is sent and nothing is drained.
Rcs320Timeout ==
    /\ chip = "rcs320" /\ host.phase \in {"ack", "rsp", "more"}
    /\ host.late /\ held = <<>>
    /\ Finish("timeout", 0, FALSE)
    /\ UNCHANGED <<reader, pipe, held, sent, env>>

(* CCID *)

\* A packet of this exchange, told by its sequence number: success, a slot that
\* is busy once too often, a failure.
CcidAnswer(p) ==
    /\ chip = "ccid" /\ host.phase = "rsp" /\ Take(p)
    /\ p.kind # "noise" /\ p.seq = Sequence(host.id)
    /\ \/ p.kind = "rsp" /\ Finish("ok", p.owner, FALSE)
       \/ p.kind = "err" /\ Finish("err", 0, FALSE)
       \/ p.kind = "busy" /\ host.tries = 1 /\ Finish("err", 0, FALSE)

\* A busy slot: the command is written again under a new number, with a new
\* deadline.
CcidResend(p) ==
    /\ chip = "ccid" /\ host.phase = "rsp"
    /\ Next_(p)
    /\ p.kind = "busy" /\ p.seq = Sequence(host.id) /\ host.tries > 1
    /\ sent < MaxSends /\ Len(reader) < MaxBacklog
    /\ sent' = sent + 1
    /\ reader' = Received(sent', host.code)
    /\ host' = [host EXCEPT !.id = sent', !.tries = @ - 1, !.late = FALSE, !.read = FALSE,
                            !.mismatches = SEQUENCE_ERROR_RETRY_COUNT]
    /\ UNCHANGED <<result, failed, env>>

\* The bound on commands, or a full reader, ends the resending.
CcidResendFails(p) ==
    /\ chip = "ccid" /\ host.phase = "rsp" /\ Take(p)
    /\ p.kind = "busy" /\ p.seq = Sequence(host.id) /\ host.tries > 1
    /\ sent = MaxSends \/ Len(reader) = MaxBacklog
    /\ Finish("err", 0, FALSE)

CcidTimeExtension(p) ==
    /\ chip = "ccid" /\ host.phase = "rsp" /\ Take(p)
    /\ p.kind = "ext" /\ p.seq = Sequence(host.id)
    /\ host' = [host EXCEPT !.read = TRUE]
    /\ UNCHANGED <<result, failed>>

\* A stale packet is skipped twice and the third one is an error.
CcidMismatch(p) ==
    /\ chip = "ccid" /\ host.phase = "rsp" /\ Take(p)
    /\ p.kind # "noise" /\ p.seq # Sequence(host.id)
    /\ IF host.mismatches = 0
       THEN Finish("err", 0, FALSE)
       ELSE /\ host' = [host EXCEPT !.mismatches = @ - 1, !.read = TRUE]
            /\ UNCHANGED <<result, failed>>

CcidNoise(p) ==
    /\ chip = "ccid" /\ host.phase = "rsp" /\ Take(p)
    /\ p.kind = "noise"
    /\ Finish("err", 0, FALSE)

\* Mutant: a reader that owes an answer is waited for.
CcidTimeoutWaits ==
    /\ chip = "ccid" /\ host.phase = "rsp" /\ host.late
    /\ reader = <<>>
    /\ Finish("timeout", 0, FALSE)
    /\ UNCHANGED <<reader, pipe, held, sent, env>>

CcidTimeout ==
    /\ chip = "ccid" /\ host.phase = "rsp" /\ host.late
    /\ Finish("timeout", 0, FALSE)
    /\ UNCHANGED <<reader, pipe, held, sent, env>>

---------------------------------------------------------------------------
Reader ==
    \/ ReaderAcks \/ ReaderDrops \/ Noise
    \/ \E kind \in AnswerKinds : ReaderAnswers(kind)

Reads(p) ==
    \/ Port100Ack(p) \/ Port100Rsp(p) \/ Port100Broken(p) \/ DrainInput(p)
    \/ Rcs956First(p) \/ Rcs956Loop(p)
    \/ Rcs320Ack(p) \/ Rcs320Rsp(p)
    \/ CcidAnswer(p) \/ CcidResend(p) \/ CcidResendFails(p)
    \/ CcidTimeExtension(p) \/ CcidMismatch(p) \/ CcidNoise(p)

\* The packets a read may come across.
AtHand == {q[1] : q \in {held, pipe} \ {<<>>}}

Driver ==
    \/ \E p \in AtHand : Reads(p)
    \/ Port100Timeout \/ RecoverySendsAck \/ DrainEnds
    \/ Rcs956ReadTimeout \/ Rcs956DeadlineSeen
    \/ Rcs320Timeout \/ CcidTimeout

Caller == \E code \in Codes : Send(code) \/ SendFails(code)

\* The bound on commands or on failing writes is used up.
Done == host.phase = "idle" /\ (sent = MaxSends \/ faults = MaxFaults) /\ UNCHANGED vars

Next == Reader \/ Driver \/ Deadline \/ Caller \/ Done

\* Time passes, and the driver's thread is not blocked beyond the timeouts it
\* gives to its reads.
Spec == Init /\ [][Next]_vars /\ WF_vars(Driver) /\ WF_vars(Deadline)

---------------------------------------------------------------------------
(***************************************************************************)
(* The answer of a CCID escape is the answer to the frame just written,    *)
(* whatever late answers of earlier frames are still to be read, also when *)
(* the sequence number wraps and when the frame was sent again.            *)
(***************************************************************************)
OwnAnswer == (chip = "ccid" /\ result.end = "ok") => result.owner = result.id

(***************************************************************************)
(* A Port-100 command that succeeds has its own answer, if the reader      *)
(* acknowledges in time, stops when told to and sends nothing but frames:  *)
(* the recovery after a failed command leaves nothing of it behind for the *)
(* next one.                                                               *)
(***************************************************************************)
RecoveryKeepsOrder ==
    (chip = "port100" /\ result.end = "ok") => result.owner = result.id

(***************************************************************************)
(* Without sequence numbers an answer can be that of an earlier command,   *)
(* but only of one of the last few: every command behind costs an exchange *)
(* that failed.  In particular nothing is out of step before the first     *)
(* failure.                                                                *)
(***************************************************************************)
AnswerLag == result.end = "ok" => result.id - result.owner \in 0..failed

(***************************************************************************)
(* All of it, with what each part rests on: CCID tells answers apart while *)
(* fewer than SeqMod frames can be under way or unread, and the Port-100   *)
(* recovery works for a reader that keeps its times.                       *)
(***************************************************************************)
AnswersStayInStep ==
    /\ TypeOK
    /\ AnswerLag
    /\ MaxBacklog + MaxPipe + MaxFaults <= SeqMod => OwnAnswer
    /\ orderly => RecoveryKeepsOrder

(***************************************************************************)
(* Every command ends, with an answer or an error, whatever the reader     *)
(* sends or fails to send: stale packets, ACKs and time extensions do not  *)
(* keep the driver reading.  (What an orderly reader has promised to send  *)
(* would take the reader's own fairness; it is a special case.)            *)
(***************************************************************************)
ReaderCommandEnds == (~orderly /\ host.phase # "idle") ~> host.phase = "idle"

(***************************************************************************)
(* rcs956/chipset.rs: "Timeout - send ACK to cancel command".  A command   *)
(* that was acknowledged and is given up for want of an answer has been    *)
(* cancelled in the reader.                                                *)
(***************************************************************************)
TimeoutCancels == (chip = "rcs956" /\ result.end = "timeout") => result.cancelled

(***************************************************************************)
(* io.rs: after recovery "the chipset is left able to accept the next      *)
(* command rather than holding a half-finished exchange".  Neither the     *)
(* reader nor the pipe holds anything of the command recovered from.       *)
(***************************************************************************)
RecoveredClean ==
    (chip = "port100" /\ host.phase = "idle" /\ result.cancelled) =>
        /\ \A i \in DOMAIN pipe : pipe[i].owner # result.id
        /\ \A i \in DOMAIN reader : reader[i].id # result.id
=============================================================================
