-------------------------------- MODULE Codec --------------------------------
(***************************************************************************)
(* A reader and a card exchange packets: one side serialises a message,    *)
(* the other parses what arrives.  A packet may come from a peer that is   *)
(* not this crate and differs from what the crate would send in one place. *)
(* Secure messages travel as the plaintext a session wraps, padded as the  *)
(* DES scheme pads it; encryption and MAC are those of SecureMessaging.    *)
(***************************************************************************)
EXTENDS Responses

CONSTANTS
    Messages,    \* what is sent: [role, kind, values]
    AlterLimit,  \* the longest packet that is altered
    AlterBytes   \* the bytes an altered packet may hold in one place

CodecAssumption == AlterLimit \in 0..MAX_PACKET_LEN /\ AlterBytes \subseteq 0..255

VARIABLES phase, sent, packet, altered, got
vars == <<phase, sent, packet, altered, got>>

Roles == {"command", "answer", "inner command", "inner answer"}

DES_SECURE_HEADER_SIZE == 8
Aes(m) == m.kind \in {"ReadV2", "WriteV2"}
Inner(m) == m.role \in {"inner command", "inner answer"}

\* Bytes of the frame around a secure payload: LEN, code and MAC, and for AES
\* the transaction counter, which travels in the clear.
SecureOverhead(m) == IF Aes(m) THEN 12 ELSE 10

\* build_payload_des / build_secure_response_frame_des, and their AES forms.
SecurePacket(m, payload) ==
    LET p == IF Aes(m) THEN payload ELSE Pad(Zeros(DES_SECURE_HEADER_SIZE) \o payload) IN
    IF Len(p) + SecureOverhead(m) > MAX_PACKET_LEN THEN <<>> ELSE p

Serialised(m) ==
    CASE m.role = "command" -> CommandFrame(m)
      [] m.role = "answer" -> AnswerFrame(m)
      [] m.role = "inner command" -> SecurePacket(m, CommandInner(m))
      [] m.role = "inner answer" -> IF Encodable(m) THEN SecurePacket(m, AnswerInner(m)) ELSE <<>>

\* What is left of a secure payload once the session has removed its header.
Unwrapped(m, bytes) ==
    IF Aes(m) THEN bytes ELSE SubSeq(bytes, DES_SECURE_HEADER_SIZE + 1, Len(bytes))

ParsedAs(m, bytes) ==
    CASE m.role = "command" -> ParseCommand(bytes)
      [] m.role = "answer" -> ParseAnswer(bytes)
      [] m.role = "inner command" -> ParseInner(InnerWriters[m.kind].code, Unwrapped(m, bytes))
      [] m.role = "inner answer" -> ParseInnerAnswer(InnerWriters[m.kind].code, Unwrapped(m, bytes))

Init ==
    /\ phase = "idle"
    /\ sent = [role |-> "command", kind |-> "none", values |-> <<>>]
    /\ packet = <<>>
    /\ altered = FALSE
    /\ got = Rejected

Send ==
    /\ phase = "idle"
    /\ \E m \in Messages :
         /\ sent' = m
         /\ packet' = Serialised(m)
    /\ phase' = IF packet' = <<>> THEN "refused" ELSE "air"
    /\ UNCHANGED <<altered, got>>

\* LEN agrees with the packet again: a disagreement is refused in any case.
Relength(p) == IF Inner(sent) THEN p ELSE [p EXCEPT ![1] = Len(p)]

\* The packet of another implementation: one byte differs, is missing at the
\* end or is one too many.
Alter ==
    /\ phase = "air" /\ ~altered
    /\ Len(packet) <= AlterLimit
    /\ altered' = TRUE
    /\ \/ \E i \in 2..Len(packet), b \in AlterBytes : packet' = [packet EXCEPT ![i] = b]
       \/ Len(packet) > 2 /\ packet' = Relength(Front(packet))
       \/ \E b \in AlterBytes : packet' = Relength(Append(packet, b))
    /\ UNCHANGED <<phase, sent, got>>

Receive ==
    /\ phase = "air"
    /\ got' = ParsedAs(sent, packet)
    /\ phase' = "received"
    /\ UNCHANGED <<sent, packet, altered>>

\* The connection takes the next message.
Done ==
    /\ phase \in {"received", "refused"}
    /\ phase' = "idle"
    /\ sent' = [role |-> "command", kind |-> "none", values |-> <<>>]
    /\ packet' = <<>>
    /\ altered' = FALSE
    /\ got' = Rejected

Next == Send \/ Alter \/ Receive \/ Done
Spec == Init /\ [][Next]_vars

TypeOK ==
    /\ phase \in {"idle", "air", "refused", "received"}
    /\ sent.role \in Roles
    /\ \A i \in DOMAIN packet : packet[i] \in 0..255
    /\ altered \in BOOLEAN
    /\ Len(packet) <= MAX_PACKET_LEN

Same(a, b) == a.kind = b.kind /\ a.values = b.values
Accepted == phase = "received" /\ got.kind \notin {"rejected", "unknown"}

\* The package of a DES register command reaches the card with the padding of
\* the session behind it; everything else arrives as it was sent.
Delivered(m) ==
    IF m.role = "inner command" /\ m.kind \in {"RegisterArea", "RegisterService"}
    THEN LET padded == Unwrapped(m, Serialised(m)) IN
         [m EXCEPT !.values = <<m.values[1], SubSeq(padded, 3, Len(padded))>>]
    ELSE m

\* A message that was serialised is parsed to the same variant with the same
\* fields: parse.rs takes exactly what serialize.rs writes, for every command
\* and response, and the secure parsers stop at the padding.
RoundTrip == phase = "received" /\ ~altered => Same(got, Delivered(sent))

\* Fields with two encodings: a three-byte block list element for a number
\* below 256, and flag bytes other than 00h and 01h.
Loose(m) ==
    \/ m.role = "command" /\ m.kind \in {"ReadWithoutEncryption", "WriteWithoutEncryption"}
    \/ m.role = "answer" /\ m.kind \in {"RequestCodeList", "GetNodeProperty"}

Again == [role |-> sent.role, kind |-> got.kind, values |-> got.values]

\* A plain packet the parser accepts is the packet the serialiser writes for
\* the parsed message: no length, count, reserved byte or status-dependent
\* field of an unusual packet passes unnoticed.
Canonical == Accepted /\ ~Inner(sent) /\ ~Loose(Again) => Serialised(Again) = packet

\* Where two encodings exist the packet may change, the message does not: what
\* was parsed can be forwarded and is understood the same way.
Forwardable ==
    Accepted /\ ~Inner(sent) => Serialised(Again) # <<>> /\ Same(ParsedAs(sent, Serialised(Again)), got)

\* The bounds the client puts on reads (constants.rs and secure/mod.rs).
MAX_READ_WITHOUT_ENCRYPTION_BLOCK_COUNT == (MAX_PACKET_LEN - 13) \div BLOCK_SIZE
MAX_SECURE_READ_V2_BLOCK_COUNT == (MAX_PACKET_LEN - 15) \div BLOCK_SIZE
PaddedToDesBlockSize(n) == (n \div DES_BLOCK_SIZE + 1) * DES_BLOCK_SIZE
DesReadFits(blocks) == 2 + PaddedToDesBlockSize(8 + 3 + blocks * BLOCK_SIZE) + 8 <= MAX_PACKET_LEN
MAX_SECURE_READ_BLOCK_COUNT == CHOOSE n \in 0..MAX_BLOCK_COUNT : DesReadFits(n) /\ ~DesReadFits(n + 1)

ReadBound(kind) ==
    CASE kind = "ReadWithoutEncryption" -> MAX_READ_WITHOUT_ENCRYPTION_BLOCK_COUNT
      [] kind = "Read" -> MAX_SECURE_READ_BLOCK_COUNT
      [] kind = "ReadV2" -> MAX_SECURE_READ_V2_BLOCK_COUNT

HoldsBlocks(m) ==
    /\ m.role \in {"answer", "inner answer"}
    /\ m.kind \in {"ReadWithoutEncryption", "Read", "ReadV2"}
    /\ Encodable(m)
    /\ m.values[Len(m.values) - 1] = 0 /\ Len(m.values) > 2

\* The client's bounds on reads are exact: an answer with that many blocks has
\* a packet and one with one more block has none.
ReadBoundIsExact ==
    HoldsBlocks(sent) /\ phase # "idle" =>
        ((phase = "refused") <=> (Len(Last(sent.values)) > ReadBound(sent.kind)))

\* padded_to_des_block_size claims that an aligned payload grows by a block.
PaddingGrows ==
    phase = "air" /\ ~altered /\ Inner(sent) /\ ~Aes(sent) =>
        Len(packet) = PaddedToDesBlockSize(DES_SECURE_HEADER_SIZE
            + Len(IF sent.role = "inner command" THEN CommandInner(sent) ELSE AnswerInner(sent)))
==============================================================================
