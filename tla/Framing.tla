------------------------------ MODULE Framing ------------------------------
(***************************************************************************)
(* The SOF frame of the Port-100, the RC-S320 and the RC-S956, byte for    *)
(* byte: built, received by each driver's read, parsed.  One packet is     *)
(* looked at, as built, with one byte changed, or with bytes behind it.    *)
(***************************************************************************)
EXTENDS Integers, Sequences, FiniteSetsExt

CONSTANTS
    Payloads,      \* payloads framed
    Bytes,         \* values a damaged byte may take
    Tails          \* what may follow a frame in its packet

Formats == {"port100", "rcs320", "rcs956"}

VARIABLES
    format,        \* the chipset's dialect
    payload,       \* what is framed
    packet,        \* the bytes the reader hands over
    change         \* what happened to them

vars == <<format, payload, packet, change>>

SOF == <<0, 0, 255>>
ACK_BYTES == <<0, 0, 255, 0, 255, 0>>
ERROR_BYTES == <<0, 0, 255, 255, 255, 0>>
POSTAMBLE == 0
STATUS_ERROR_BYTE == 127
NORMAL_LENGTH_LIMIT == 256

\* The sum of bytes i..j, halved so that a long payload stays shallow.
RECURSIVE SumOf(_, _, _)
SumOf(bytes, i, j) ==
    IF i > j THEN 0
    ELSE IF i = j THEN bytes[i]
    ELSE LET mid == (i + j) \div 2 IN SumOf(bytes, i, mid) + SumOf(bytes, mid + 1, j)
Sum256(bytes) == SumOf(bytes, 1, Len(bytes)) % 256
checksum(bytes) == (256 - Sum256(bytes)) % 256
checksum_matches(bytes, check) == (Sum256(bytes) + check) % 256 = 0

---------------------------------------------------------------------------
(***************************************************************************)
(* Building a frame.  The Port-100 always writes the extended length,      *)
(* little endian; the RC-S956 from 256 bytes on, big endian; the RC-S320   *)
(* has no extended form and refuses longer payloads.                       *)
(***************************************************************************)
LengthMod(n) == n % 65536
Lengths(f, n) ==
    IF f = "port100" THEN <<LengthMod(n) % 256, LengthMod(n) \div 256>>
                     ELSE <<LengthMod(n) \div 256, LengthMod(n) % 256>>
Extended(f, n) == f = "port100" \/ (f = "rcs956" /\ n >= NORMAL_LENGTH_LIMIT)

push_length(f, n) ==
    IF Extended(f, n) THEN <<255, 255>> \o Lengths(f, n) \o <<checksum(Lengths(f, n))>>
                      ELSE <<n, checksum(<<n>>)>>

Buildable(f, p) == f = "rcs320" => Len(p) < NORMAL_LENGTH_LIMIT
Build(f, p) == SOF \o push_length(f, Len(p)) \o p \o <<checksum(p), POSTAMBLE>>

---------------------------------------------------------------------------
(***************************************************************************)
(* Parsing.  A frame's type, its payload and how many bytes it takes up.   *)
(***************************************************************************)
NoFrame == [type |-> "none", payload |-> <<>>, length |-> 0]

At(data, i) == IF i \in DOMAIN data THEN data[i] ELSE -1

\* FrameLayout::parse: where the payload starts, how long it is, its LCS.
FrameLayout(f, data) ==
    IF f # "rcs320" /\ SubSeq(data, 4, 5) = <<255, 255>>
    THEN LET lo == IF f = "port100" THEN At(data, 6) ELSE At(data, 7)
             hi == IF f = "port100" THEN At(data, 7) ELSE At(data, 6)
         IN  [start |-> 9, length |-> hi * 256 + lo,
              bytes |-> SubSeq(data, 6, 7), lcs |-> At(data, 8), whole |-> Len(data) >= 8]
    ELSE [start |-> 6, length |-> At(data, 4),
          bytes |-> SubSeq(data, 4, 4), lcs |-> At(data, 5), whole |-> Len(data) >= 5]

\* Mutant: the checksum of the data is not compared.
ValidatedPostambleOnly(layout, data) ==
    LET end == layout.start + layout.length
    IN  /\ layout.whole
        /\ checksum_matches(layout.bytes, layout.lcs)
        /\ Len(data) >= end + 1
        /\ data[end + 1] = POSTAMBLE

\* validated_payload: both checksums and the postamble.
Validated(layout, data) ==
    LET end == layout.start + layout.length
        body == SubSeq(data, layout.start, end - 1)
    IN  /\ layout.whole
        /\ checksum_matches(layout.bytes, layout.lcs)
        /\ Len(data) >= end + 1
        /\ checksum_matches(body, data[end])
        /\ data[end + 1] = POSTAMBLE

classify(f, data) ==
    LET layout == FrameLayout(f, data)
        end == layout.start + layout.length
    IN  CASE data = ACK_BYTES -> [type |-> "ack", payload |-> <<>>, length |-> 6]
          [] f # "rcs320" /\ data = ERROR_BYTES -> [type |-> "error", payload |-> <<>>, length |-> 6]
          [] f = "rcs320" /\ At(data, 6) = STATUS_ERROR_BYTE ->
                 [type |-> "error", payload |-> <<>>, length |-> Len(data)]
          [] OTHER ->
                 IF Validated(layout, data)
                 THEN [type |-> "data", payload |-> SubSeq(data, layout.start, end - 1),
                       length |-> end + 1]
                 ELSE NoFrame

Parse(f, data) == IF SubSeq(data, 1, 3) = SOF THEN classify(f, data) ELSE NoFrame

---------------------------------------------------------------------------
(***************************************************************************)
(* What each driver makes of the bytes at the front of its input.          *)
(***************************************************************************)
\* read_frame_bytes: the header says how many bytes to take; too few of them is
\* a time-out.
port100_bytes(data) ==
    IF SubSeq(data, 4, 5) = <<255, 255>>
    THEN 8 + At(data, 6) + 256 * At(data, 7) + 2
    ELSE 5 + At(data, 4) + 2
rcs320_bytes(data) == IF SubSeq(data, 4, 5) = <<0, 255>> THEN 6 ELSE 5 + At(data, 4) + 2

Prefix(f, data, n) ==
    IF Len(data) >= n /\ SubSeq(data, 1, 3) = SOF THEN Parse(f, SubSeq(data, 1, n)) ELSE NoFrame

\* parse_response_frame: the frame fills the packet.
rcs956_frame(data) ==
    LET frame == Parse("rcs956", data) IN IF frame.length = Len(data) THEN frame ELSE NoFrame

Receive(f, data) ==
    CASE Len(data) < 5 -> NoFrame
      [] f = "port100" -> Prefix(f, data, port100_bytes(data))
      [] f = "rcs320" -> Prefix(f, data, rcs320_bytes(data))
      [] f = "rcs956" -> rcs956_frame(data)

---------------------------------------------------------------------------
(***************************************************************************)
(* RC-S320: the hardware adds and takes away the length byte of a FeliCa   *)
(* packet, so the driver does the opposite.                                *)
(***************************************************************************)
WithoutLength(data) == IF Head(data) = Len(data) THEN Tail(data) ELSE data
WithLength(data) == <<(Len(data) + 1) % 256>> \o data
send_to_card(data) == <<92, (Len(data) + 1) % 256>> \o data
recv_from_card(response) ==
    LET n == Min({response[2], Len(response) - 2}) IN SubSeq(response, 3, 2 + n)

---------------------------------------------------------------------------
Init ==
    /\ format \in Formats
    /\ payload \in Payloads /\ Buildable(format, payload)
    /\ packet = Build(format, payload)
    /\ change = "none"

Damage(i, b) ==
    /\ change = "none"
    /\ i \in DOMAIN packet /\ b # packet[i]
    /\ packet' = [packet EXCEPT ![i] = b]
    /\ change' = "damage"
    /\ UNCHANGED <<format, payload>>

Follow(tail) ==
    /\ change = "none"
    /\ packet' = packet \o tail
    /\ change' = "tail"
    /\ UNCHANGED <<format, payload>>

Looked == change # "none" /\ UNCHANGED vars

Next ==
    \/ \E i \in DOMAIN packet, b \in Bytes : Damage(i, b)
    \/ \E tail \in Tails : Follow(tail)
    \/ Looked

Spec == Init /\ [][Next]_vars

---------------------------------------------------------------------------
(***************************************************************************)
(* Every driver reads a frame it could have built back as its payload; on  *)
(* the RC-S320 a payload that starts with 7F is an error report instead.   *)
(* Bytes behind the frame are left alone by the drivers that read a        *)
(* stream, and refused by the RC-S956.                                     *)
(***************************************************************************)
IsStatus == format = "rcs320" /\ At(payload, 1) = STATUS_ERROR_BYTE
RoundTrip ==
    change \in {"none", "tail"} =>
        LET got == Receive(format, packet) IN
        CASE IsStatus -> got.type = "error"
          [] format = "rcs956" /\ change = "tail" -> got = NoFrame
          [] OTHER -> got.type = "data" /\ got.payload = payload

(***************************************************************************)
(* A damaged byte that turns one form of the length into the other.  A     *)
(* Port-100 frame reads as one of 255 bytes or of one byte, the length     *)
(* pair and its checksum, which sum to zero, being the first of them; an   *)
(* RC-S956 frame of 255 bytes reads as an extended one of 252, its first   *)
(* bytes being the length.                                                 *)
(***************************************************************************)
MarkerIsLost ==
    LET behind == payload \o <<checksum(payload), POSTAMBLE>>
        pair   == Lengths(format, Len(payload))
    IN  \/ /\ format = "port100" /\ packet[5] = 1 /\ Len(payload) >= 252
           /\ checksum_matches(SubSeq(behind, 1, 252), behind[253]) /\ behind[254] = POSTAMBLE
        \/ format = "port100" /\ packet[4] = 1 /\ (pair[1] + pair[2]) % 256 = 0
        \/ /\ format = "rcs956" /\ packet[5] = 255 /\ Len(payload) = 255
           /\ SubSeq(payload, 1, 3) = <<0, 252, 4>>

(***************************************************************************)
(* A frame with one damaged byte is read as another payload exactly if its *)
(* length marker is lost that way: every other damage is caught by the     *)
(* checksums, the postamble or the count of bytes (FrameLayout::parse,     *)
(* validated_payload, and the reads of the three drivers).                 *)
(***************************************************************************)
DamageIsNoticed ==
    change = "damage" =>
        LET got == Receive(format, packet)
        IN  (got.type = "data" /\ got.payload # payload) <=> MarkerIsLost

(***************************************************************************)
(* RC-S320: a FeliCa packet reaches the card without its length byte, and  *)
(* the answer comes back with one, for every packet that carries its own   *)
(* length.                                                                 *)
(***************************************************************************)
LengthByteIsRestored ==
    (change = "none" /\ Len(payload) < 254) =>
        /\ WithoutLength(WithLength(payload)) = payload
        /\ SubSeq(send_to_card(payload), 3, Len(payload) + 2) = payload
        /\ recv_from_card(<<93, Len(payload)>> \o payload) = payload
=============================================================================
