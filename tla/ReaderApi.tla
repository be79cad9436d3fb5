------------------------------ MODULE ReaderApi ------------------------------
(***************************************************************************)
(* FelicaStandard, the client of one polled card (felica_standard/api and  *)
(* type3.rs): polling over several bitrates, the checks of each operation, *)
(* its timeout from the card's PMm, and the judgement of the answer.       *)
(*                                                                         *)
(* Time is counted in cycles of the 13.56 MHz carrier.  An answer has the  *)
(* number of the call it answers, which is history: the packet has none,   *)
(* and the client does not compare its IDm either.  What a secure session  *)
(* adds is SecureMessaging's; here it only refuses answers to older calls. *)
(***************************************************************************)
EXTENDS Integers, Sequences, FiniteSets

CONSTANTS
    Cards,       \* cards that come and go
    Slow,        \* cards that take longer than their PMm says
    Pmm,         \* per card the PMm bytes 2 to 7
    CardRates,   \* per card the bitrates it answers at
    Polls,       \* [rates, request_code, time_slots] of the polling_multi calls
    Requests,    \* [op, n, s, e, bad] of the calls: n entries, s Services, e bytes per element,
                 \* an argument of a wrong form or not
    WarnsFF,     \* operations for which a card pairs the warning 71h with SF1 = FFh
    MaxCalls,    \* bound: calls of one handle
    MaxFaults,   \* bound: lost packets and cards that leave
    None

CYCLES_PER_MS == 13560
U16_MAX == 65535
MAX_PACKET_LEN == 255

VARIABLES
    field,      \* the cards in front of the reader
    phase,      \* idle, polling or calling
    poll, todo, \* the polling call, until another call is made, and the bitrates it has left
    handle,     \* the card found and its bitrate
    context,    \* the scheme of the retained secure session
    call,       \* the request being made, or made last, and its number
    air,        \* the card's answer to it, and when it comes
    late,       \* an answer nobody waited for, and when it comes
    result,     \* what the last call returned
    performed,  \* history: has the card performed the call?
    heard,      \* history: did the card hear the call, or the polls, and nothing was lost?
    calls, faults

vars == <<field, phase, poll, todo, handle, context, call, air, late, result, performed, heard, calls, faults>>
unpolled == <<poll, todo, handle>>

-----------------------------------------------------------------------------
\* PmmSlot: the PMm byte of each operation.
Slot(op) ==
    CASE op \in {"RequestService", "RequestServiceV2", "RequestCodeList", "GetNodeProperty",
                 "RequestBlockInformation", "RequestBlockInformationEx"} -> 2
      [] op \in {"RequestResponse", "SearchServiceCode", "RequestSystemCode", "GetSystemStatus",
                 "RequestSpecificationVersion", "ResetMode", "GetAreaInformation"} -> 3
      [] op \in {"Authentication1", "Authentication1V2", "Authentication2", "Authentication2V2"} -> 4
      [] op \in {"ReadWithoutEncryption", "Read", "ReadV2"} -> 5
      [] op \in {"WriteWithoutEncryption", "Write", "WriteV2", "ChangeKeys"} -> 6
      [] OTHER -> 7

\* The operations whose time grows with their entries.
Scaled(op) ==
    op \in {"RequestService", "RequestServiceV2", "GetNodeProperty", "RequestBlockInformation",
            "RequestBlockInformationEx", "Authentication1", "Authentication1V2", "ReadWithoutEncryption",
            "Read", "ReadV2", "WriteWithoutEncryption", "Write", "WriteV2", "ChangeKeys"}

\* TimingParameters::from.
Timing(byte) == [a |-> byte % 8, b |-> (byte \div 8) % 8, e |-> byte \div 64]
Pow4(e) == CASE e = 0 -> 1 [] e = 1 -> 4 [] e = 2 -> 16 [] OTHER -> 64

\* UnitClamp::clamp.
Least(a, b) == IF a < b THEN a ELSE b
Most(a, b) == IF a > b THEN a ELSE b
Units(op, n) ==
    CASE op \in {"RequestService", "RequestServiceV2"} -> Least(Most(n, 1), 32)
      [] op = "GetNodeProperty" -> Least(Most(n, 1), 16)
      [] op \in {"RequestBlockInformation", "RequestBlockInformationEx"} -> n
      [] OTHER -> Most(n, 1)

\* compute_timeout: base_timeout and scaled_timeout, in units of 256 * 16 cycles.
Term(p, op, n) == (IF Scaled(op) THEN (p.b + 1) * Units(op, n) ELSE 0) + p.a + 1

\* Mutant: the time is rounded down to whole milliseconds.
MsFloor(cycles) == Least(cycles \div CYCLES_PER_MS, U16_MAX)

seconds_to_timeout_ms(cycles) == Least((cycles + CYCLES_PER_MS - 1) \div CYCLES_PER_MS, U16_MAX)

TimeoutMs(pmm, op, n) ==
    LET p == Timing(pmm[Slot(op)]) IN seconds_to_timeout_ms(4096 * Term(p, op, n) * Pow4(p.e))

\* Mutant: the further time slots are forgotten.
polling_timeout_first(time_slots) == ((512 + 256) * 64 + CYCLES_PER_MS - 1) \div CYCLES_PER_MS

polling_timeout_ms(time_slots) ==
    Least(((512 + 256) * 64 + time_slots * 256 * 64 + CYCLES_PER_MS - 1) \div CYCLES_PER_MS, U16_MAX)

\* What the card promises (section 2.3.4 of the card manual).
Promise(c, op, n) ==
    LET byte == Pmm[c][Slot(op)]
        times == IF Scaled(op) THEN ((byte \div 8) % 8) + 1 ELSE 0
    IN (times * n + (byte % 8) + 1) * Pow4(byte \div 64) * 4096
SlotEnd(slot) == (512 + 256 * (slot + 1)) * 64

-----------------------------------------------------------------------------
\* An operation: the bounds of its list, how it judges the status flags (not at all,
\* with check_status_flags, with require_result, or SF1 alone), and whether it
\* compares the number of entries of the answer.
Op(min, max, check, counts) == [min |-> min, max |-> max, check |-> check, counts |-> counts]

ServiceOps ==
    [RequestService |-> Op(1, 32, "none", TRUE), RequestResponse |-> Op(0, 0, "none", FALSE)]

BlockOps ==
    [ReadWithoutEncryption |-> Op(1, 15, "result", TRUE), WriteWithoutEncryption |-> Op(1, 255, "status", FALSE)]

ListOps ==
    [SearchServiceCode |-> Op(0, 0, "none", FALSE), RequestSystemCode |-> Op(0, 0, "none", FALSE),
     RequestBlockInformation |-> Op(1, 32, "none", TRUE), RequestBlockInformationEx |-> Op(1, 32, "result", TRUE),
     RequestCodeList |-> Op(0, 0, "result", FALSE)]

ContainerOps ==
    [SetParameter |-> Op(0, 0, "status", FALSE), GetContainerIssueInformation |-> Op(0, 0, "none", FALSE),
     GetContainerProperty |-> Op(0, 0, "none", FALSE), GetContainerId |-> Op(0, 0, "none", FALSE)]

SystemOps ==
    [GetSystemStatus |-> Op(0, 0, "status", FALSE), RequestProductInformation |-> Op(0, 0, "result", FALSE),
     RequestSpecificationVersion |-> Op(0, 0, "status", FALSE), ResetMode |-> Op(0, 0, "status", FALSE)]

NodeOps == [GetAreaInformation |-> Op(0, 0, "result", FALSE), GetNodeProperty |-> Op(1, 16, "result", TRUE)]

AuthOps == [Authentication1 |-> Op(0, 64, "none", FALSE), Authentication2 |-> Op(0, 0, "none", FALSE)]

AuthV2Ops == [Authentication1V2 |-> Op(0, 32, "none", FALSE), Authentication2V2 |-> Op(0, 0, "none", FALSE)]

ReadOps == [Read |-> Op(1, 14, "strict", TRUE), ReadV2 |-> Op(1, 15, "strict", TRUE)]

WriteOps ==
    [Write |-> Op(1, 255, "status", FALSE), WriteV2 |-> Op(1, 255, "status", FALSE),
     ChangeKeys |-> Op(1, 255, "status", FALSE)]

ServiceV2Ops == [RequestServiceV2 |-> Op(1, 32, "result", TRUE)]

RegisterOps ==
    [RegisterIssueId |-> Op(0, 0, "result", FALSE), RegisterArea |-> Op(0, 0, "status", FALSE),
     RegisterService |-> Op(0, 0, "result", FALSE), ChangeSystemBlock |-> Op(0, 0, "status", FALSE)]

OpNames ==
    UNION {DOMAIN ServiceOps, DOMAIN BlockOps, DOMAIN ListOps, DOMAIN ContainerOps, DOMAIN SystemOps, DOMAIN NodeOps,
           DOMAIN AuthOps, DOMAIN AuthV2Ops, DOMAIN ReadOps, DOMAIN WriteOps, DOMAIN ServiceV2Ops, DOMAIN RegisterOps}

Operation(op) ==
    CASE op \in DOMAIN ServiceOps -> ServiceOps[op]
      [] op \in DOMAIN BlockOps -> BlockOps[op]
      [] op \in DOMAIN ListOps -> ListOps[op]
      [] op \in DOMAIN ContainerOps -> ContainerOps[op]
      [] op \in DOMAIN SystemOps -> SystemOps[op]
      [] op \in DOMAIN NodeOps -> NodeOps[op]
      [] op \in DOMAIN AuthOps -> AuthOps[op]
      [] op \in DOMAIN AuthV2Ops -> AuthV2Ops[op]
      [] op \in DOMAIN ReadOps -> ReadOps[op]
      [] op \in DOMAIN WriteOps -> WriteOps[op]
      [] op \in DOMAIN ServiceV2Ops -> ServiceV2Ops[op]
      [] op \in DOMAIN RegisterOps -> RegisterOps[op]

\* What the client keeps of the card it found, and what a card sends back.
Handle == [card : Cards, rate : STRING]
Answer == [id : 1..MaxCalls, card : Cards, op : OpNames, n : 0..256, sf1 : {0, 1, 255}, sf2 : {0, 113, 161}]
Packet == [answer : Answer, due : Nat]

\* FeliCa has two bitrates, and a list is no longer than the byte that counts it.
ReaderAssumption ==
    /\ Slow \subseteq Cards
    /\ Pmm \in [Cards -> [2..7 -> 0..255]]
    /\ CardRates \in [Cards -> SUBSET {"212F", "424F"}]
    /\ Polls \subseteq [rates : Seq(STRING), request_code : Nat, time_slots : Nat]
    /\ Requests \subseteq [op : OpNames, n : 0..255, s : Nat, e : Nat, bad : BOOLEAN]
    /\ MaxCalls \in Nat /\ MaxFaults \in Nat
    /\ None \notin Handle \cup Packet \cup {"Des", "Aes128"}

\* The command a call sends: keys are changed with Write.
Command(op) == IF op = "ChangeKeys" THEN "Write" ELSE op

\* The scheme of the secure commands; None for the plain ones.
Scheme(op) ==
    CASE op \in {"ReadV2", "WriteV2"} -> "Aes128"
      [] op \in {"Read", "Write", "ChangeKeys"} \cup DOMAIN RegisterOps -> "Des"
      [] OTHER -> None
Secure(op) == Scheme(op) # None

\* The packet around a secure payload: for DES with its header, padded, and the MAC.
SecureLen(scheme, len) == IF scheme = "Aes128" THEN len + 12 ELSE (((len + 8) \div 8) + 1) * 8 + 10

\* The length of the command packet, where it depends on the request; it is built for
\* the session there is.
CommandLen(r) ==
    CASE r.op = "ReadWithoutEncryption" -> 12 + 2 * r.s + r.n * r.e
      [] r.op = "WriteWithoutEncryption" -> 12 + 2 * r.s + r.n * (r.e + 16)
      [] r.op \in DOMAIN WriteOps -> SecureLen(context, 1 + r.n * (r.e + 16))
      [] OTHER -> 64

\* The length of the answer packet, where it depends on the request.
AnswerLen(r) ==
    CASE r.op \in {"RequestService", "RequestBlockInformation"} -> 11 + 2 * r.n
      [] r.op = "RequestServiceV2" -> 14 + 4 * r.n
      [] r.op = "RequestBlockInformationEx" -> 13 + 4 * r.n
      [] r.op = "GetNodeProperty" -> 13 + 10 * r.n
      [] r.op = "ReadWithoutEncryption" -> 13 + 16 * r.n
      [] r.op \in {"Read", "ReadV2"} -> SecureLen(Scheme(r.op), 3 + 16 * r.n)
      [] OTHER -> 64

\* What an operation refuses before anything is sent: "Ok" if nothing.
Refusal(r) ==
    LET astray == \/ r.n \notin Operation(r.op).min..Operation(r.op).max
                  \/ r.op \in DOMAIN BlockOps /\ r.s \notin 1..16
                  \/ r.op = "Authentication1" /\ (r.s > 32 \/ r.n - r.s > 32)
                  \/ r.op = "ChangeKeys" /\ context = "Aes128"
                  \/ r.bad /\ r.op # "ChangeKeys"
    IN  IF astray THEN "InvalidParameter"
        ELSE IF Secure(r.op) /\ context = None THEN "AuthenticationRequired"
        ELSE IF r.bad THEN "InvalidParameter"
        ELSE IF CommandLen(r) > MAX_PACKET_LEN THEN "Protocol"
        ELSE "Ok"

-----------------------------------------------------------------------------
Check(op) == Operation(op).check
Counts(op) == Operation(op).counts

\* Mutant: every SF1 other than 00h is an error.
check_status_flags_sf1(sf1, sf2) == sf1 = 0

check_status_flags(sf1, sf2) == (sf2 = 113 /\ sf1 \in {0, 255}) \/ sf1 = 0

\* What an operation makes of an answer; the parser has a result only where SF1 is 00h.
Judge(r, a) ==
    IF a.op # Command(r.op) THEN "Protocol"
    ELSE IF Secure(r.op) /\ a.id # r.id THEN "SecureSession"
    ELSE IF \/ Check(r.op) = "strict" /\ a.sf1 # 0
            \/ Check(r.op) \in {"status", "result"} /\ ~check_status_flags(a.sf1, a.sf2) THEN "Status"
    ELSE IF (Check(r.op) = "result" /\ a.sf1 # 0) \/ (Counts(r.op) /\ a.n # r.n) THEN "Protocol"
    ELSE "Ok"

-----------------------------------------------------------------------------
\* felica_bitrate_preference and order_felica_bitrates.
Preference(rate) == CASE rate = "424F" -> 0 [] rate = "212F" -> 1 [] OTHER -> 2

\* The bitrates that are not a repetition of an earlier one, by their positions.
Kept(rates) == {i \in DOMAIN rates : \A j \in 1..(i - 1) : rates[j] # rates[i]}

\* Those that sort_by_key, which is stable, puts ahead of the one at position i.
Ahead(rates, i) ==
    {j \in Kept(rates) : \/ Preference(rates[j]) < Preference(rates[i])
                         \/ Preference(rates[j]) = Preference(rates[i]) /\ j < i}

order_felica_bitrates(rates) ==
    [k \in 1..Cardinality(Kept(rates)) |->
        rates[CHOOSE i \in Kept(rates) : Cardinality(Ahead(rates, i)) = k - 1]]

\* RemoteTarget::new refuses anything that is not digits and a letter.
Malformed(rate) == rate = "bad"

Requested(p) == {p.rates[i] : i \in DOMAIN p.rates}

validate_polling_parameters(p) == p.request_code \in 0..2 /\ p.time_slots \in {0, 1, 3, 7, 15}

NoResult == [kind |-> "none", id |-> 0, op |-> "none", card |-> None, n |-> 0]
Error(kind) == [NoResult EXCEPT !.kind = kind]
NoCall == [op |-> "none", n |-> 0, s |-> 0, e |-> 0, bad |-> FALSE, id |-> 0]

Init ==
    /\ field = {} /\ phase = "idle"
    /\ poll = None /\ todo = <<>> /\ handle = None /\ context = None
    /\ call = NoCall /\ air = None /\ late = None
    /\ result = NoResult /\ performed = FALSE /\ heard = TRUE
    /\ calls = 0 /\ faults = 0

Enter(c) ==
    /\ field = {} /\ field' = {c}
    /\ heard' = (heard /\ call # NoCall)
    /\ UNCHANGED <<phase, unpolled, context, call, air, late, result, performed, calls, faults>>

\* The card is taken away, with the answer it has not given.
Leave ==
    /\ field # {} /\ faults < MaxFaults
    /\ field' = {} /\ faults' = faults + 1
    /\ air' = None /\ late' = None
    /\ heard' = IF phase = "idle" THEN heard ELSE FALSE
    /\ UNCHANGED <<phase, unpolled, context, call, result, performed, calls>>

-----------------------------------------------------------------------------
Pollable(p) == validate_polling_parameters(p) /\ order_felica_bitrates(p.rates) # <<>>

\* polling_multi up to its first attempt.  The handle there was is gone.
StartPolling(p) ==
    /\ phase = "idle" /\ calls < MaxCalls
    /\ phase' = IF Pollable(p) THEN "polling" ELSE "idle"
    /\ poll' = p
    /\ todo' = IF Pollable(p) THEN order_felica_bitrates(p.rates) ELSE <<>>
    /\ result' = IF Pollable(p) THEN NoResult ELSE Error("InvalidParameter")
    /\ handle' = None /\ context' = None /\ late' = None
    /\ call' = NoCall /\ performed' = FALSE /\ heard' = TRUE
    /\ UNCHANGED <<field, air, calls, faults>>

EndPolling(found, res) == phase' = "idle" /\ todo' = <<>> /\ handle' = found /\ result' = res

\* The cards whose answer in the slot they choose comes before the time is up.
InTime(slot) ==
    {c \in field : Head(todo) \in CardRates[c]
                     /\ SlotEnd(slot) <= polling_timeout_ms(poll.time_slots) * CYCLES_PER_MS}

\* One attempt finds a card.
Found ==
    /\ phase = "polling" /\ ~Malformed(Head(todo))
    /\ \E slot \in 0..poll.time_slots : \E c \in InTime(slot) :
         EndPolling([card |-> c, rate |-> Head(todo)], [NoResult EXCEPT !.kind = "Ok", !.card = c])
    /\ UNCHANGED <<field, poll, context, call, air, late, performed, heard, calls, faults>>

\* An attempt without an answer: the next bitrate, or the error of this one.
Missed ==
    /\ phase = "polling" /\ ~Malformed(Head(todo))
    /\ \/ (\E slot \in 0..poll.time_slots : InTime(slot) = {}) /\ UNCHANGED <<heard, faults>>
       \/ faults < MaxFaults /\ faults' = faults + 1 /\ heard' = FALSE
    /\ IF Len(todo) = 1 THEN EndPolling(None, Error("Driver"))
       ELSE todo' = Tail(todo) /\ UNCHANGED <<phase, handle, result>>
    /\ UNCHANGED <<field, poll, context, call, air, late, performed, calls>>

\* A malformed bitrate ends the polling when it is reached.
Unsupported ==
    /\ phase = "polling" /\ Malformed(Head(todo))
    /\ EndPolling(None, Error("UnsupportedTarget"))
    /\ UNCHANGED <<field, poll, context, call, air, late, performed, heard, calls, faults>>

\* set_authenticated_context and clear_authenticated_context; what puts a context
\* there is SecureMessaging's.
SetContext(scheme) ==
    /\ phase = "idle" /\ handle # None /\ scheme # context
    /\ context' = scheme
    /\ UNCHANGED <<field, phase, unpolled, call, air, late, result, performed, heard, calls, faults>>

-----------------------------------------------------------------------------
\* The status flags of the answers: done, refused, done with the warning 71h.
Changes(op) == op \in {"WriteWithoutEncryption"} \cup DOMAIN WriteOps \cup DOMAIN RegisterOps
Flags(op) ==
    {<<0, 0>>} \cup (IF Check(op) = "none" THEN {} ELSE {<<1, 161>>})
    \cup (IF Changes(op) THEN {<<0, 113>>} ELSE {})
    \cup (IF op \in WarnsFF THEN {<<255, 113>>} ELSE {})

Due(c, r) == IF c \in Slow THEN {Promise(c, r.op, r.n) + CYCLES_PER_MS} ELSE {0, Promise(c, r.op, r.n)}

\* A card answers a secure command of its session only.
Understands(r) == handle.card \in field /\ (Secure(r.op) => context = Scheme(r.op))

\* The card that was addressed hears the command, performs it or not, and answers;
\* now and then with another number of entries.
Hears(r) ==
    /\ Understands(r)
    /\ \E f \in Flags(r.op), n \in {r.n} \cup (IF Counts(r.op) THEN {r.n + 1} ELSE {}), due \in Due(handle.card, r) :
         /\ air' = [answer |-> [id |-> r.id, card |-> handle.card, op |-> Command(r.op), n |-> n,
                                sf1 |-> f[1], sf2 |-> f[2]], due |-> due]
         /\ performed' = (Changes(r.op) /\ f # <<1, 161>>)
    /\ heard' = TRUE
    /\ UNCHANGED faults

\* The command or its answer is lost, or the card is not there or does not understand.
Unheard(r) ==
    /\ \/ ~Understands(r) /\ performed' = FALSE /\ UNCHANGED faults
       \/ /\ Understands(r) /\ faults < MaxFaults /\ faults' = faults + 1
          /\ performed' \in {FALSE, Changes(r.op)}
    /\ air' = None /\ heard' = FALSE

\* An operation of FelicaStandard up to transceive.
Call(req) ==
    /\ phase = "idle" /\ handle # None /\ calls < MaxCalls
    /\ calls' = calls + 1
    /\ LET r == [op |-> req.op, n |-> req.n, s |-> req.s, e |-> req.e, bad |-> req.bad, id |-> calls + 1]
       IN /\ call' = r
          /\ \/ /\ Refusal(r) # "Ok"
                /\ result' = Error(Refusal(r))
                /\ performed' = FALSE /\ heard' = FALSE
                /\ UNCHANGED <<phase, air, faults>>
             \/ /\ Refusal(r) = "Ok"
                /\ phase' = "calling" /\ result' = NoResult
                /\ Hears(r) \/ Unheard(r)
    /\ poll' = None
    /\ UNCHANGED <<field, todo, handle, context, late>>

Deadline == TimeoutMs(Pmm[handle.card], call.op, call.n) * CYCLES_PER_MS

Return(res) == phase' = "idle" /\ result' = res /\ air' = None
Answered(a) == [kind |-> Judge(call, a), id |-> a.id, op |-> a.op, card |-> a.card, n |-> a.n]
Later(answer, due) == [answer |-> answer, due |-> due]

AirIsFirst == air # None /\ air.due <= Deadline /\ (late # None => air.due <= late.due)
LateIsFirst == late # None /\ late.due <= Deadline /\ (air # None => late.due < air.due)

\* The first packet that comes is the answer.
Receive ==
    /\ phase = "calling"
    /\ \/ /\ AirIsFirst
          /\ Return(Answered(air.answer))
          /\ late' = IF late = None THEN None ELSE Later(late.answer, late.due - air.due)
       \/ /\ LateIsFirst
          /\ Return(Answered(late.answer))
          /\ late' = IF air = None THEN None ELSE Later(air.answer, air.due - late.due)
    /\ UNCHANGED <<field, unpolled, context, call, performed, heard, calls, faults>>

\* The time is up; what comes afterwards meets the next call.
TimeOut ==
    /\ phase = "calling" /\ ~AirIsFirst /\ ~LateIsFirst
    /\ Return(Error("Timeout"))
    /\ late' = IF air = None THEN None ELSE Later(air.answer, air.due - Deadline)
    /\ UNCHANGED <<field, unpolled, context, call, performed, heard, calls, faults>>

\* Between two calls nobody listens.
Passes ==
    /\ phase = "idle" /\ late # None
    /\ late' = None
    /\ UNCHANGED <<field, phase, unpolled, context, call, air, result, performed, heard, calls, faults>>

Next ==
    \/ \E c \in Cards : Enter(c)
    \/ Leave
    \/ \E p \in Polls : StartPolling(p)
    \/ Found \/ Missed \/ Unsupported
    \/ \E scheme \in {None, "Des", "Aes128"} : SetContext(scheme)
    \/ \E req \in Requests : Call(req)
    \/ Receive \/ TimeOut \/ Passes

Spec == Init /\ [][Next]_vars

-----------------------------------------------------------------------------
\* The states; a call or a handle is there where the phase needs one (FelicaStandard).
TypeOK ==
    /\ field \subseteq Cards
    /\ phase \in {"idle", "polling", "calling"}
    /\ handle \in Handle \cup {None} /\ context \in {None, "Des", "Aes128"}
    /\ {air, late} \subseteq Packet \cup {None}
    /\ phase = "calling" => handle # None /\ Refusal(call) = "Ok"
    /\ phase = "polling" => handle = None /\ todo # <<>>
    /\ phase # "calling" => air = None
    /\ calls \in 0..MaxCalls /\ faults \in 0..MaxFaults

\* What a call returns as its result is the answer of the polled card to that call,
\* with one entry for each one asked for, although neither the IDm nor a number is
\* compared: a card that keeps to its PMm is never given up too early, so that no
\* answer is left for the next call.  From a card that is slower than its PMm the
\* result is still one of the operation called (execute_command, compute_timeout).
OwnResult ==
    phase = "idle" /\ result.kind = "Ok" /\ call # NoCall =>
        /\ result.op = Command(call.op)
        /\ (Secure(call.op) \/ handle.card \notin Slow) => result.id = call.id
        /\ (result.id = call.id /\ Counts(call.op)) => result.n = call.n
        /\ result.card = handle.card

\* A call that reached a card which keeps to its PMm is not timed out: for every PMm
\* byte, operation and number of entries the timeout covers the card's own maximum
\* (compute_timeout, seconds_to_timeout_ms).
AnswerIsAwaited ==
    phase = "idle" /\ call # NoCall /\ heard /\ handle.card \notin Slow => result.kind # "Timeout"

\* The call asked for a change, and the card's answer to it has been judged.
ChangeIsJudged == phase = "idle" /\ call # NoCall /\ heard /\ Changes(call.op) /\ result.id = call.id

\* The card's refusal is reported as a Status error and nothing else is: a change that is
\* reported done was done, one reported refused was not, whichever operations a card
\* answers with SF1 = FFh and the warning.  Between the two is only the answer without
\* the result its operation takes out of it (check_status_flags, require_result).
ChangeIsReported ==
    ChangeIsJudged =>
        \/ performed /\ result.kind = "Ok"
        \/ performed /\ result.kind = "Protocol" /\ Check(call.op) = "result"
        \/ ~performed /\ result.kind = "Status"

\* What api/mod.rs:109 says of every operation: a change that the card has completed, with
\* or without the warning, is accepted, so that the caller is not invited to repeat it.
CompletedIsNotRefused == ChangeIsJudged /\ performed => result.kind = "Ok"

\* A request that goes on the air fits into one packet, and so does its answer
\* (ensure_len_in_range, MAX_READ_WITHOUT_ENCRYPTION_BLOCK_COUNT).
RequestIsAnswerable ==
    phase = "calling" => CommandLen(call) <= MAX_PACKET_LEN /\ AnswerLen(call) <= MAX_PACKET_LEN

\* A call returns the result of its own command, is not timed out while a card that
\* keeps to its PMm is still to answer, and asks for no more than a packet holds
\* (execute_command, compute_timeout, ensure_len_in_range).
ResultIsOwn == TypeOK /\ OwnResult /\ AnswerIsAwaited /\ RequestIsAnswerable

\* Polling finds a card that is there, in whatever slot it answers, at the highest
\* of the requested bitrates that it has (polling_multi, polling_timeout_ms).
PollingFindsTheBest ==
    phase = "idle" /\ poll # None /\ call = NoCall /\ heard /\ validate_polling_parameters(poll) =>
        \A c \in field : \A rate \in Requested(poll) \cap CardRates[c] :
            handle # None /\ handle.card = c /\ Preference(handle.rate) <= Preference(rate)
==============================================================================
