------------------------------ MODULE Iso14443 -------------------------------
(***************************************************************************)
(* The link parameters of an ISO-DEP session and its blocks: what a card   *)
(* announces in its ATS (Type A) or Protocol Info (Type B), the frame      *)
(* sizes that follow, and how a payload is cut into I-blocks.              *)
(* A byte string is a slice [id, from, to]: the bytes from..to-1 of the    *)
(* payload with that id.                                                   *)
(***************************************************************************)
EXTENDS Integers, Sequences, FiniteSets

ISO_DEP_FRAME_SIZE_TABLE == <<16, 24, 32, 40, 48, 64, 96, 128, 256>>
ISO_DEP_MAX_FSDI == 8
ISO_DEP_MAX_FSCI == 8
ISO_DEP_MAX_FWI == 14
ISO_DEP_MAX_SFGI == 14

AtMost(n, bound) == IF n < bound THEN n ELSE bound
AtLeast(n, bound) == IF n > bound THEN n ELSE bound
Bit(byte, i) == (byte \div 2^i) % 2 = 1
Low(byte) == byte % 16
High(byte) == byte \div 16

\* IsoDepConfig: bytes, flags and one of four rates.
Config ==
    [fsdi : 0..255, fsci : 0..255, use_cid : BOOLEAN, use_nad : BOOLEAN, sfgi : 0..255, fwi : 0..255,
     dr : 0..3, ds : 0..3, max_retry_r_nak : 0..255, max_try_s_wtx : 0..255]

type_a_defaults ==
    [fsdi |-> 8, fsci |-> 2, use_cid |-> TRUE, use_nad |-> FALSE, sfgi |-> 0, fwi |-> 4,
     dr |-> 0, ds |-> 0, max_retry_r_nak |-> 2, max_try_s_wtx |-> 5]
type_b_defaults == type_a_defaults

block_header_len(config) ==
    1 + (IF config.use_cid THEN 1 ELSE 0) + (IF config.use_nad THEN 1 ELSE 0)

MaxInf(index, config) == ISO_DEP_FRAME_SIZE_TABLE[AtMost(index, 8) + 1] - block_header_len(config)
max_inf_len_pcd(config) == MaxInf(config.fsdi, config)
max_inf_len_picc(config) == MaxInf(config.fsci, config)

bytes_to_fdsi(bytes) ==
    LET fits == {i \in 0..ISO_DEP_MAX_FSDI : ISO_DEP_FRAME_SIZE_TABLE[i + 1] >= bytes} IN
    IF fits = {} THEN ISO_DEP_MAX_FSDI ELSE CHOOSE i \in fits : \A j \in fits : i <= j

update_pcd_ifs(config, ifs) == [config EXCEPT !.fsdi = bytes_to_fdsi(AtLeast(ifs, 16))]

\* The rates of a byte TA or of a Protocol Info byte; bit 3 set leaves them.
WithRates(config, byte) ==
    IF Bit(byte, 3) THEN config ELSE [config EXCEPT !.dr = byte % 4, !.ds = High(byte) % 4]

\* Byte of the ATS that the flag of T0 announces, counted from 1; optional
\* bytes come in the order TA, TB, TC behind TL and T0.
AtsPosition(t0, flag) == 3 + Cardinality({i \in 4..(flag - 1) : Bit(t0, i)})

\* A byte that T0 announces and the ATS lacks ends the parsing with an error
\* that is only logged: what was read before it stays applied.
apply_ats(config, ats) ==
    IF Len(ats) < 2 \/ ats[1] < 2 \/ ats[1] > Len(ats)
    THEN config
    ELSE LET t0 == ats[2]
             Has(flag) == Bit(t0, flag)
             At(flag) == ats[AtsPosition(t0, flag)]
             Missing(flag) == Has(flag) /\ AtsPosition(t0, flag) > Len(ats)
             sized == [config EXCEPT !.fsci = AtMost(Low(t0), ISO_DEP_MAX_FSCI)]
             rated == IF Has(4) THEN WithRates(sized, At(4)) ELSE sized
             timed == IF Has(5)
                      THEN [rated EXCEPT !.sfgi = AtMost(Low(At(5)), ISO_DEP_MAX_SFGI),
                                         !.fwi = AtMost(High(At(5)), ISO_DEP_MAX_FWI)]
                      ELSE rated
             named == IF Has(6)
                      THEN [timed EXCEPT !.use_cid = @ /\ Bit(At(6), 1), !.use_nad = @ /\ Bit(At(6), 0)]
                      ELSE timed
         IN CASE Missing(4) -> sized
              [] ~Missing(4) /\ Missing(5) -> rated
              [] ~Missing(4) /\ ~Missing(5) /\ Missing(6) -> timed
              [] OTHER -> named

apply_type_b_protocol_info(config, info) ==
    IF Len(info) < 3
    THEN config
    ELSE LET rated == WithRates([config EXCEPT !.fsci = AtMost(High(info[2]), ISO_DEP_MAX_FSCI)], info[1])
             named == [rated EXCEPT !.use_cid = @ /\ Bit(info[3], 0), !.use_nad = @ /\ Bit(info[3], 1),
                                    !.fwi = AtMost(High(info[3]), ISO_DEP_MAX_FWI)]
         IN IF Len(info) > 3 THEN [named EXCEPT !.sfgi = AtMost(High(info[4]), ISO_DEP_MAX_SFGI)] ELSE named

\* Blocks.  NoBlock stands for nothing on the air.
NoBlock == [type |-> "none"]
IBlock(number, chaining, inf) == [type |-> "I", number |-> number, chaining |-> chaining, inf |-> inf]
RBlock(number, ack) == [type |-> "R", number |-> number, ack |-> ack]
SBlock(code, value) == [type |-> "S", code |-> code, value |-> value]

Slice(id, from, to) == [id |-> id, from |-> from, to |-> to]
Size(slice) == slice.to - slice.from

\* The part of a payload a block carries from offset on.
Chunk(id, offset, length, max_inf) == Slice(id, offset, offset + AtMost(length - offset, AtLeast(max_inf, 1)))

\* Whether next_iso_dep_i_frame has a frame left, and that frame.
HasFrame(offset, length, sent_empty) == offset < length \/ (length = 0 /\ ~sent_empty)
next_iso_dep_i_frame(tx, id, offset, length, max_inf, chaining) ==
    LET chunk == Chunk(id, offset, length, max_inf) IN
    IBlock(tx, chunk.to < length \/ chaining, chunk)

ISO_DEP_WTXM_MIN == 1
ISO_DEP_WTXM_MAX == 59

wtx_multiplier(value) == AtMost(AtLeast(value % 64, ISO_DEP_WTXM_MIN), ISO_DEP_WTXM_MAX)

\* A list of slices is the whole payload with that id, once and in order.
Whole(slices, id, length) ==
    /\ slices # <<>>
    /\ slices[1].from = 0 /\ slices[Len(slices)].to = length
    /\ \A i \in DOMAIN slices : slices[i].id = id
    /\ \A i \in 1..(Len(slices) - 1) : slices[i].to = slices[i + 1].from
==============================================================================
