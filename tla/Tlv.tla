-------------------------------- MODULE Tlv ----------------------------------
(***************************************************************************)
(* The TLV fields of the Port-400's PC/SC responses, byte for byte: the    *)
(* three parsers of tlv.rs against the list of fields a response was made  *)
(* of, whole or cut short.                                                 *)
(***************************************************************************)
EXTENDS Integers, Sequences, FiniteSets, SequencesExt

CONSTANTS
    Fields,      \* fields a reader may put into a response: [tag, ...] records
    MaxFields    \* bound: fields of a response

VARIABLES kind, fields, data
vars == <<kind, fields, data>>

STATUS_TLV_TAG == 192
DEVICE_STATE_TLV_TAG == 128
SWITCH_PROTOCOL_METADATA_TAG == 143
EXTENDED_TAG_PREFIX == 95
ATR_TLV_TAG == 81
RESPONSE_BIT_FRAMING_TAG == 146
RESPONSE_STATUS_TAG == 150
RESPONSE_DATA_TAG == 151
VENDOR_SPECIFIC_TAG == 255
VENDOR_TAG_RESPONSE == 109

Empty == [payload |-> <<>>, rf_status |-> -1, valid_bits |-> -1, error |-> FALSE]
Failed == [Empty EXCEPT !.error = TRUE]

---------------------------------------------------------------------------
Slice(d, from, n) == SubSeq(d, from, IF from + n - 1 < Len(d) THEN from + n - 1 ELSE Len(d))

\* take_tlv_value: the length byte is at i; `next` is behind the value.
take_tlv_value(d, i) ==
    IF i > Len(d) \/ i + d[i] > Len(d) THEN [ok |-> FALSE]
    ELSE [ok |-> TRUE, value |-> Slice(d, i + 1, d[i]), next |-> i + 1 + d[i]]

\* parse_length: the short form, or 81h..84h and as many bytes, the highest first.
parse_length(d, i) ==
    IF i > Len(d) THEN [ok |-> FALSE]
    ELSE IF d[i] < 128 THEN [ok |-> TRUE, len |-> d[i], consumed |-> 1]
    ELSE LET n == d[i] - 128 IN
         IF n \notin 1..4 \/ i + n > Len(d) THEN [ok |-> FALSE]
         ELSE [ok |-> TRUE, consumed |-> 1 + n,
               len |-> FoldLeft(LAMBDA acc, byte : acc * 256 + byte, 0, Slice(d, i + 1, n))]

\* The payload field of a transparent exchange.
take_data(d, i) ==
    LET l == parse_length(d, i) IN
    IF ~l.ok \/ i + l.consumed + l.len - 1 > Len(d) THEN [ok |-> FALSE]
    ELSE [ok |-> TRUE, value |-> Slice(d, i + l.consumed, l.len), next |-> i + l.consumed + l.len]

\* What one field leads to: go on behind it with a new result, stop with the
\* result so far, or fail.
GoOn(next, result) == [step |-> "go", next |-> next, result |-> result]
Stop(result) == [step |-> "stop", result |-> result]
Fail == [step |-> "stop", result |-> Failed]

take_status_tlv(d, i, result) ==
    LET v == take_tlv_value(d, i) IN
    IF v.ok /\ v.value = <<0, 144, 0>> THEN GoOn(v.next, result) ELSE Fail

skip_vendor_tlv(d, i, result) ==
    IF i > Len(d) \/ d[i] # VENDOR_TAG_RESPONSE THEN Stop(result)
    ELSE LET v == take_tlv_value(d, i + 1) IN
         IF v.ok /\ Len(v.value) \in {3, 6} THEN GoOn(v.next, result) ELSE Fail

\* A field of which only the length matters.
Checked(d, i, lengths, result) ==
    LET v == take_tlv_value(d, i) IN
    IF v.ok /\ Len(v.value) \in lengths THEN GoOn(v.next, result) ELSE Fail

parse_switch_field(d, i, result) ==
    CASE d[i] = SWITCH_PROTOCOL_METADATA_TAG -> Checked(d, i + 1, {1, 3}, result)
      [] d[i] = EXTENDED_TAG_PREFIX ->
            IF d[i + 1] # ATR_TLV_TAG THEN Fail ELSE Checked(d, i + 2, 0..255, result)
      [] OTHER -> Stop(result)

parse_session_field(d, i, result) ==
    IF d[i] = DEVICE_STATE_TLV_TAG THEN Checked(d, i + 1, {3}, result) ELSE Stop(result)

parse_transparent_field(d, i, result) ==
    CASE d[i] = RESPONSE_BIT_FRAMING_TAG ->
            LET v == take_tlv_value(d, i + 1) IN
            IF ~v.ok \/ Len(v.value) # 1 THEN Fail
            ELSE GoOn(v.next, [result EXCEPT !.valid_bits = IF v.value[1] = 0 THEN 8 ELSE v.value[1]])
      [] d[i] = RESPONSE_STATUS_TAG ->
            LET v == take_tlv_value(d, i + 1) IN
            IF ~v.ok \/ Len(v.value) # 2 THEN Fail
            ELSE GoOn(v.next, [result EXCEPT !.rf_status = v.value[1]])
      [] d[i] = RESPONSE_DATA_TAG ->
            LET v == take_data(d, i + 1) IN
            IF ~v.ok THEN Fail ELSE GoOn(v.next, [result EXCEPT !.payload = @ \o v.value])
      [] OTHER -> Stop(result)

ParseField(k, d, i, result) ==
    CASE d[i] = STATUS_TLV_TAG -> take_status_tlv(d, i + 1, result)
      [] d[i] = VENDOR_SPECIFIC_TAG -> skip_vendor_tlv(d, i + 1, result)
      [] OTHER -> CASE k = "session" -> parse_session_field(d, i, result)
                    [] k = "switch" -> parse_switch_field(d, i, result)
                    [] OTHER -> parse_transparent_field(d, i, result)

\* parse_manage_session_response, parse_switch_protocol_response and
\* parse_transparent_response: a single byte at the end is not looked at.
RECURSIVE ParseFrom(_, _, _, _)
ParseFrom(k, d, i, result) ==
    IF i >= Len(d) THEN result
    ELSE LET f == ParseField(k, d, i, result) IN
         IF f.step = "stop" THEN f.result ELSE ParseFrom(k, d, f.next, f.result)
Parse(k, d) == ParseFrom(k, d, 1, Empty)

\* push_extended_tlv: the long form of two bytes.
push_extended_tlv(tag, value) == <<tag, 130, Len(value) \div 256, Len(value) % 256>> \o value

---------------------------------------------------------------------------
(***************************************************************************)
(* The reader (external): how a field is written, and what a response of   *)
(* whole fields means.                                                     *)
(***************************************************************************)
Write(f) ==
    CASE f.tag = RESPONSE_DATA_TAG /\ f.long -> push_extended_tlv(f.tag, f.value)
      [] f.tag = EXTENDED_TAG_PREFIX -> <<f.tag, ATR_TLV_TAG, Len(f.value)>> \o f.value
      [] f.tag = VENDOR_SPECIFIC_TAG -> <<f.tag, VENDOR_TAG_RESPONSE, Len(f.value)>> \o f.value
      [] OTHER -> <<f.tag, Len(f.value)>> \o f.value

Known(k, f) ==
    f.tag \in {STATUS_TLV_TAG, VENDOR_SPECIFIC_TAG} \cup
        (CASE k = "session" -> {DEVICE_STATE_TLV_TAG}
           [] k = "switch" -> {SWITCH_PROTOCOL_METADATA_TAG, EXTENDED_TAG_PREFIX}
           [] OTHER -> {RESPONSE_BIT_FRAMING_TAG, RESPONSE_STATUS_TAG, RESPONSE_DATA_TAG})

\* The fields in front of the first one that the parser does not know.
Read(k, fs) ==
    LET unknown == {i \in DOMAIN fs : ~Known(k, fs[i])} IN
    IF unknown = {} THEN fs
    ELSE SubSeq(fs, 1, (CHOOSE i \in unknown : \A j \in unknown : i <= j) - 1)

LastOf(fs, tag) ==
    LET at == {i \in DOMAIN fs : fs[i].tag = tag} IN
    IF at = {} THEN -1 ELSE fs[CHOOSE i \in at : \A j \in at : i >= j].value[1]
DataOf(fs) == FlattenSeq([i \in DOMAIN fs |->
                          IF fs[i].tag = RESPONSE_DATA_TAG THEN fs[i].value ELSE <<>>])

Meaning(k, all) ==
    LET fs == Read(k, all)
        bits == LastOf(fs, RESPONSE_BIT_FRAMING_TAG) IN
    IF \E i \in DOMAIN fs : fs[i].tag = STATUS_TLV_TAG /\ fs[i].value # <<0, 144, 0>>
    THEN Failed
    ELSE [payload |-> DataOf(fs), rf_status |-> LastOf(fs, RESPONSE_STATUS_TAG),
          valid_bits |-> IF bits = 0 THEN 8 ELSE bits, error |-> FALSE]

---------------------------------------------------------------------------
Init == kind \in {"session", "switch", "transparent"} /\ fields = <<>> /\ data = <<>>

Whole == data = FlattenSeq([i \in DOMAIN fields |-> Write(fields[i])])

Add(f) ==
    /\ Whole /\ Len(fields) < MaxFields
    /\ fields' = Append(fields, f) /\ data' = data \o Write(f)
    /\ UNCHANGED kind

Truncate(n) ==
    /\ Whole /\ n < Len(data)
    /\ data' = SubSeq(data, 1, n)
    /\ UNCHANGED <<kind, fields>>

Parsed == UNCHANGED vars

Next == (\E f \in Fields : Add(f)) \/ (\E n \in 0..Len(data) : Truncate(n)) \/ Parsed

Spec == Init /\ [][Next]_vars

---------------------------------------------------------------------------
(***************************************************************************)
(* A whole response means to the parser what its fields mean: an error     *)
(* status anywhere in front of an unknown field is reported, the parts of  *)
(* a payload are joined, the last framing and RF status count.             *)
(***************************************************************************)
ParserReadsFields == Whole => Parse(kind, data) = Meaning(kind, fields)

(***************************************************************************)
(* A response cut short at any byte is never read as part of a payload     *)
(* field: what is returned are whole fields, and an error that was read is *)
(* not lost.                                                               *)
(***************************************************************************)
CutIsWholeFields ==
    LET got == Parse(kind, data) IN
    ~got.error => \E n \in 0..Len(fields) : got = Meaning(kind, SubSeq(fields, 1, n))
==============================================================================
