------------------------------ MODULE Responses ------------------------------
(***************************************************************************)
(* FelicaStandardResponse: how each response is serialised and parsed.     *)
(* A response is [kind, values]; the values of a response whose result is  *)
(* an Option end before the result when it is None.                        *)
(***************************************************************************)
EXTENDS Commands

\* How a response reports its outcome: not at all, with two plain bytes, or
\* with status flags that decide whether a result follows (for_success).
Row(code, gated, layout) == [code |-> code, gated |-> gated, layout |-> layout]
Flags == <<Idm, <<"u8">>, <<"u8">>>>
CryptoIds == {79, 65, 67}

\* ---- serialize.rs: to_payload --------------------------------------------
AccessAnswerWriters ==
    "Polling" :> Row(1, FALSE, <<Idm, <<"bytes">>, <<"bytes">>>>)
    @@ "RequestService" :> Row(3, FALSE, <<Idm, U16List>>)
    @@ "RequestResponse" :> Row(5, FALSE, <<Idm, <<"u8">>>>)
    @@ "ReadWithoutEncryption" :> Row(7, TRUE, Flags \o <<<<"list", "block">>>>)
    @@ "WriteWithoutEncryption" :> Row(9, FALSE, Flags)
    @@ "SearchServiceCode" :> Row(11, FALSE, <<Idm, <<"node">>>>)
    @@ "RequestSystemCode" :> Row(13, FALSE, <<Idm, <<"list", "be">>>>)
    @@ "RequestBlockInformation" :> Row(15, FALSE, <<Idm, U16List>>)
    @@ "Authentication1" :> Row(17, FALSE, <<Idm, <<"bytes">>, <<"bytes">>>>)

\* continue_flag is written as 00h or 01h.
ListAnswerWriters ==
    "Authentication2" :> Row(19, FALSE, <<<<"bytes">>>>)
    @@ "RequestCodeList" :> Row(27, TRUE, Flags \o <<<<"u8">>, <<"list", "range">>, <<"list", "le">>>>)
    @@ "RequestBlockInformationEx" :> Row(31, TRUE, Flags \o <<<<"list", "range">>>>)
    @@ "SetParameter" :> Row(33, FALSE, Flags)
    @@ "GetContainerIssueInformation" :> Row(35, FALSE, <<Idm, <<"bytes">>, <<"bytes">>>>)
    @@ "GetAreaInformation" :> Row(37, TRUE, Flags \o <<<<"le">>, <<"bytes">>>>)
    @@ "GetNodeProperty" :> Row(41, TRUE, Flags \o <<<<"properties">>>>)

OptionAnswerWriters ==
    "GetContainerProperty" :> Row(47, FALSE, <<<<"bytes">>>>)
    @@ "RequestServiceV2" :> Row(51, TRUE, Flags \o <<<<"u8">>, <<"versions">>>>)
    @@ "GetSystemStatus" :> Row(57, FALSE, Flags \o <<<<"u8">>, <<"list", "byte">>>>)
    @@ "RequestProductInformation" :> Row(59, TRUE, Flags \o <<<<"list", "byte">>>>)
    @@ "RequestSpecificationVersion" :> Row(61, TRUE, Flags \o <<<<"u8">>, <<"version">>, <<"list", "version">>>>)
    @@ "ResetMode" :> Row(63, FALSE, Flags)
    @@ "Authentication1V2" :> Row(65, FALSE, <<Idm, <<"bytes">>, <<"bytes">>, <<"bytes">>>>)
    @@ "Authentication2V2" :> Row(67, FALSE, <<<<"bytes">>>>)
    @@ "GetContainerId" :> Row(113, FALSE, <<Idm>>)

SecureFlags == <<<<"u8">>, <<"u8">>>>
InnerAnswerWriters ==
    [k \in {"Read", "ReadV2"} |-> Row(0, TRUE, SecureFlags \o <<<<"list", "block">>>>)]
    @@ [k \in {"RegisterIssueId", "RegisterService"} |-> Row(0, TRUE, SecureFlags \o <<<<"le">>>>)]
    @@ [k \in {"Write", "WriteV2", "RegisterArea", "ChangeSystemBlock"} |-> Row(0, FALSE, SecureFlags)]

PlainAnswerWriters == AccessAnswerWriters @@ ListAnswerWriters @@ OptionAnswerWriters

\* write_service_v2_key_versions: every AES version, then every DES version.
KeyVersions(versions) ==
    LET column(k) == Flat("le", [i \in DOMAIN versions |-> versions[i][k]]) IN
    <<Len(versions)>> \o column(1) \o (IF Len(versions[1]) = 2 THEN column(2) ELSE <<>>)

\* The fields only a response has: the entry of a node search (<<>> is the
\* end of the list), node properties, key versions and a version number.
WrittenAnswer(field, v) ==
    CASE field[1] = "node" -> IF v = <<>> THEN <<255, 255>> ELSE Flat("le", v)
      [] field[1] = "properties" -> <<Len(v)>> \o FlattenSeq(v)
      [] field[1] = "versions" -> KeyVersions(v)
      [] field[1] = "version" -> VersionBytes(v)
      [] OTHER -> Written(field, v)

\* The checks of the encoder on lengths and values; a violated one is an error.
Encodable(r) ==
    LET v(i) == r.values[i]
        gate == IF r.kind \in DOMAIN InnerAnswerWriters THEN 1 ELSE 2
        row == IF r.kind \in DOMAIN InnerAnswerWriters THEN InnerAnswerWriters[r.kind] ELSE PlainAnswerWriters[r.kind]
        result == Len(r.values) > gate + 1
        Count(i, lo, hi) == Len(v(i)) \in lo..hi
    IN /\ row.gated => (v(gate) = 0 <=> result)
       /\ CASE r.kind = "Polling" -> Len(v(3)) \in {0, 2}
            [] r.kind = "RequestService" -> Count(2, 1, MAX_SERVICE_CODES)
            [] r.kind = "RequestSystemCode" -> v(2) # <<>>
            [] r.kind = "RequestBlockInformation" -> Count(2, 1, MAX_NODE_CODES)
            [] r.kind = "ReadWithoutEncryption" -> result => Count(4, 1, MAX_BLOCK_COUNT)
            [] r.kind \in {"Read", "ReadV2"} -> result => Count(3, 1, MAX_BLOCK_COUNT)
            [] r.kind = "RequestBlockInformationEx" -> result => Count(4, 1, MAX_NODE_CODES)
            [] r.kind = "GetNodeProperty" ->
                 result => Count(4, 1, MAX_NODE_PROPERTY_CODES) /\ \A i \in DOMAIN v(4) : Len(v(4)[i]) = Len(v(4)[1])
            [] r.kind = "RequestServiceV2" ->
                 result => /\ Count(5, 1, MAX_SERVICE_CODES)
                           /\ v(4) \in CryptoIds
                           /\ \A i \in DOMAIN v(5) : Len(v(5)[i]) = IF v(4) = 79 THEN 1 ELSE 2
            [] r.kind = "RequestSpecificationVersion" ->
                 result => v(4) = 0 /\ ValidBcd(v(5)) /\ \A i \in DOMAIN v(6) : ValidBcd(v(6)[i])
            [] r.kind = "GetContainerProperty" -> v(1) # <<>>
            [] OTHER -> TRUE

\* The bytes behind the opcode; a response without a result stops at the flags.
AnswerBytes(row, r) ==
    LET layout == SubSeq(row.layout, 1, Len(r.values)) IN
    FlattenSeq([i \in DOMAIN layout |-> WrittenAnswer(layout[i], r.values[i])])

AnswerFrame(r) ==
    LET w == PlainAnswerWriters[r.kind] IN
    IF Encodable(r) THEN Prefixed(<<w.code>> \o AnswerBytes(w, r)) ELSE <<>>

AnswerInner(r) == AnswerBytes(InnerAnswerWriters[r.kind], r)

\* ---- parse.rs: from_bytes ------------------------------------------------
\* status_flags: an error response ends behind the flags, anything else is a
\* malformed packet; "tail" is the same for the secure payloads, which may be
\* followed by padding.
Gate == <<"gate">>
ReadFlags == <<ReadIdm, Gate>>

TakeGate(p, done) ==
    IF Len(p.rest) < 2 \/ (p.rest[1] # 0 /\ done /\ Len(p.rest) # 2) THEN Fail
    ELSE [ok |-> TRUE, rest |-> SubSeq(p.rest, 3, Len(p.rest)), values |-> p.values \o SubSeq(p.rest, 1, 2)]

\* parse_get_node_property: the payload length tells the two formats apart.
TakeProperties(p) ==
    IF p.rest = <<>> THEN Fail
    ELSE LET n == p.rest[1]
             left == Len(p.rest) - 1
             e == IF left = 10 * n THEN "purse" ELSE "byte"
             Enabled(b) == <<IF b[1] = 1 THEN 1 ELSE 0>> \o Tail(b)
         IN IF n \notin 1..MAX_NODE_PROPERTY_CODES \/ left \notin {10 * n, n} THEN Fail
            ELSE Took(p, 1 + left, [i \in 1..n |-> Enabled(Cut(Tail(p.rest), (i - 1) * Width(e), Width(e)))])

\* parse_request_service_v2: the two runs are read back into pairs.
TakeVersions(p) ==
    IF p.rest = <<>> THEN Fail
    ELSE LET n == p.rest[1]
             runs == IF Last(p.values) = 79 THEN 1 ELSE 2
             At(k, i) == FromLe(Cut(p.rest, 1 + 2 * ((k - 1) * n + i - 1), 2))
         IN IF n \notin 1..MAX_SERVICE_CODES \/ Len(p.rest) # 1 + 2 * n * runs THEN Fail
            ELSE Took(p, Len(p.rest), [i \in 1..n |-> [k \in 1..runs |-> At(k, i)]])

\* parse_search_service_code.
TakeNode(p) ==
    IF p.rest = <<255, 255>> THEN Took(p, 2, <<>>)
    ELSE IF Len(p.rest) \in {2, 4} THEN Took(p, Len(p.rest), Elements("le", p.rest, Len(p.rest) \div 2))
    ELSE Fail

\* parse_specification_version_data.
TakeOptions(p) ==
    IF Len(p.rest) < 3 \/ ~ValidVersion(p.rest) \/ Len(p.rest) # 3 + 2 * p.rest[3] THEN Fail
    ELSE IF \E i \in 1..p.rest[3] : ~ValidVersion(Cut(p.rest, 1 + 2 * i, 2)) THEN Fail
    ELSE [ok |-> TRUE, rest |-> <<>>,
          values |-> p.values \o <<VersionOf(p.rest), Elements("version", SubSeq(p.rest, 4, Len(p.rest)), p.rest[3])>>]

TakeAnswer(p, field) ==
    CASE field[1] = "gate" -> TakeGate(p, TRUE)
      [] field[1] = "tail" -> TakeGate(p, FALSE)
      [] field[1] = "flag" -> TakeFixed(p, 1, IF p.rest[1] = 0 THEN 0 ELSE 1)
      [] field[1] = "optional" -> IF Len(p.rest) \in {0, 2} THEN Took(p, Len(p.rest), p.rest) ELSE Fail
      [] field[1] = "properties" -> TakeProperties(p)
      [] field[1] = "versions" -> TakeVersions(p)
      [] field[1] = "node" -> TakeNode(p)
      [] field[1] = "options" -> TakeOptions(p)
      [] OTHER -> TakeField(p, field)

Counted(e, lo, hi) == <<"list", e, lo, hi>>
AccessAnswerReaders ==
    1 :> Reader("Polling", <<ReadIdm, <<"fixed", 8>>, <<"optional">>, End>>)
    @@ 3 :> Reader("RequestService", <<ReadIdm, Counted("le", 1, MAX_SERVICE_CODES), End>>)
    @@ 51 :> Reader("RequestServiceV2", ReadFlags \o <<<<"u8in", CryptoIds>>, <<"versions">>, End>>)

BlockAnswerReaders ==
    5 :> Reader("RequestResponse", <<ReadIdm, <<"u8">>, End>>)
    @@ 7 :> Reader("ReadWithoutEncryption", ReadFlags \o <<Counted("block", 1, MAX_BLOCK_COUNT), End>>)
    @@ 9 :> Reader("WriteWithoutEncryption", <<ReadIdm, <<"u8">>, <<"u8">>, End>>)
    @@ 11 :> Reader("SearchServiceCode", <<ReadIdm, <<"node">>>>)
    @@ 13 :> Reader("RequestSystemCode", <<ReadIdm, Counted("be", 1, 255), End>>)
    @@ 15 :> Reader("RequestBlockInformation", <<ReadIdm, Counted("le", 1, 255), End>>)

ListAnswerReaders ==
    31 :> Reader("RequestBlockInformationEx", ReadFlags \o <<Counted("range", 1, MAX_NODE_CODES), End>>)
    @@ 27 :> Reader("RequestCodeList",
                    ReadFlags \o <<<<"flag">>, Counted("range", 0, 255), Counted("le", 0, 255), End>>)

ContainerAnswerReaders ==
    33 :> Reader("SetParameter", <<ReadIdm, <<"u8">>, <<"u8">>, End>>)
    @@ 35 :> Reader("GetContainerIssueInformation", <<ReadIdm, <<"fixed", 5>>, <<"fixed", 11>>, End>>)
    @@ 47 :> Reader("GetContainerProperty", <<<<"rest", 1>>>>)
    @@ 113 :> Reader("GetContainerId", <<ReadIdm, End>>)
    @@ 37 :> Reader("GetAreaInformation", ReadFlags \o <<<<"le">>, <<"fixed", 2>>, End>>)

OptionAnswerReaders ==
    41 :> Reader("GetNodeProperty", ReadFlags \o <<<<"properties">>, End>>)
    @@ 57 :> Reader("GetSystemStatus", <<ReadIdm, <<"u8">>, <<"u8">>, <<"u8">>, Counted("byte", 0, 255), End>>)
    @@ 59 :> Reader("RequestProductInformation", ReadFlags \o <<Counted("byte", 0, 255), End>>)
    @@ 61 :> Reader("RequestSpecificationVersion", ReadFlags \o <<<<"u8in", {0}>>, <<"options">>>>)
    @@ 63 :> Reader("ResetMode", <<ReadIdm, <<"u8">>, <<"u8">>, End>>)

Authentication1Reader ==
    17 :> Reader("Authentication1", <<ReadIdm, <<"fixed", 8>>, <<"fixed", 8>>, End>>)
Authentication1V2Reader ==
    65 :> Reader("Authentication1V2", <<ReadIdm, <<"fixed", 16>>, <<"fixed", 16>>, <<"fixed", 4>>, End>>)
Authentication2Readers ==
    19 :> Reader("Authentication2", <<<<"fixed", 32>>, End>>)
    @@ 67 :> Reader("Authentication2V2", <<<<"fixed", 26>>, End>>)

Tailed(kind, body) == Reader(kind, <<<<"tail">>>> \o body \o <<<<"padding">>>>)
InnerAnswerReaders ==
    20 :> Tailed("Read", <<Counted("block", 1, MAX_BLOCK_COUNT)>>)
    @@ 68 :> Tailed("ReadV2", <<Counted("block", 1, MAX_BLOCK_COUNT)>>)
    @@ 22 :> Reader("Write", SecureFlags \o <<<<"padding">>>>)
    @@ 70 :> Reader("WriteV2", SecureFlags \o <<<<"padding">>>>)
    @@ 128 :> Tailed("RegisterIssueId", <<<<"le">>>>)
    @@ 130 :> Reader("RegisterArea", SecureFlags \o <<<<"padding">>>>)
    @@ 132 :> Tailed("RegisterService", <<<<"le">>>>)
    @@ 142 :> Reader("ChangeSystemBlock", SecureFlags \o <<<<"padding">>>>)

PlainAnswerReaders ==
    AccessAnswerReaders @@ BlockAnswerReaders @@ ListAnswerReaders @@ ContainerAnswerReaders
        @@ OptionAnswerReaders @@ Authentication1Reader @@ Authentication1V2Reader @@ Authentication2Readers

\* A gate whose first flag reports an error ends the layout.
Gates(field) == field[1] \in {"gate", "tail"}
ParsedAnswer(reader, bytes) ==
    LET g == {i \in DOMAIN reader.layout : Gates(reader.layout[i])}
        head == IF g = {} THEN Len(reader.layout) ELSE CHOOSE i \in g : TRUE
        first == ReadLayout(SubSeq(reader.layout, 1, head), bytes, TakeAnswer)
        error == g # {} /\ first.ok /\ first.values[Len(first.values) - 1] # 0
        p == IF error \/ ~first.ok THEN first
             ELSE FoldLeft(LAMBDA q, f : IF q.ok THEN TakeAnswer(q, f) ELSE q, first,
                           SubSeq(reader.layout, head + 1, Len(reader.layout)))
    IN IF p.ok THEN [kind |-> reader.kind, values |-> p.values] ELSE Rejected

\* An unknown response code is no error: FelicaStandardResponse::Unknown.
UnknownResponse == [kind |-> "unknown", values |-> <<>>]
Unaddressed == {19, 47, 67}
ParseAnswer(frame) ==
    IF Len(frame) < 2 THEN Rejected
    ELSE IF frame[1] # Len(frame) \/ (frame[2] \notin Unaddressed /\ Len(frame) < 2 + IDM_LEN) THEN Rejected
    ELSE IF frame[2] \notin DOMAIN PlainAnswerReaders THEN UnknownResponse
    ELSE ParsedAnswer(PlainAnswerReaders[frame[2]], SubSeq(frame, 3, Len(frame)))

ParseInnerAnswer(code, payload) ==
    IF code \in DOMAIN InnerAnswerReaders THEN ParsedAnswer(InnerAnswerReaders[code], payload) ELSE Rejected
==============================================================================
