------------------------------ MODULE Commands -------------------------------
(***************************************************************************)
(* FelicaStandardCommand: how each command is serialised and how it is     *)
(* parsed.  A command is [kind, values]; the values are the fields of the  *)
(* variant in packet order.  The two directions are translated apart, one  *)
(* row per match arm (serialize.rs) and per parse_* function (parse.rs).   *)
(***************************************************************************)
EXTENDS Wire, TLC

POLLING_REQUEST_CODES == 0..2
POLLING_TIME_SLOTS == {0, 1, 3, 7, 15}

\* The bytes of the enums NodePropertyType, SetParameterEncryptionType and
\* SetParameterPacketType; any other byte is refused.
NodePropertyType == {0, 1}
EncryptionType == {0, 1}
PacketType == {0, 1}

Code(hex, layout) == [code |-> hex, layout |-> layout]
Idm == <<"bytes">>
U16List == <<"list", "le">>

\* ---- serialize.rs: FelicaStandardCommand::encoding ----------------------
DataWriters ==
    "Polling" :> Code(0, <<<<"be">>, <<"u8">>, <<"u8">>>>)
    @@ "RequestService" :> Code(2, <<Idm, U16List>>)
    @@ "RequestResponse" :> Code(4, <<Idm>>)
    @@ "ReadWithoutEncryption" :> Code(6, <<Idm, U16List, <<"block_list">>>>)
    @@ "WriteWithoutEncryption" :> Code(8, <<Idm, U16List, <<"block_list">>, <<"bytes">>>>)
    @@ "SearchServiceCode" :> Code(10, <<Idm, <<"le">>>>)
    @@ "RequestSystemCode" :> Code(12, <<Idm>>)
    @@ "RequestBlockInformation" :> Code(14, <<Idm, U16List>>)
    @@ "Authentication1" :> Code(16, <<Idm, U16List, U16List, <<"bytes">>>>)
    @@ "Authentication2" :> Code(18, <<Idm, <<"bytes">>>>)

SecureWriters ==
    "Read" :> Code(20, <<<<"block_list">>>>)
    @@ "Write" :> Code(22, <<<<"block_list">>, <<"bytes">>>>)
    @@ "ReadV2" :> Code(68, <<<<"block_list">>>>)
    @@ "WriteV2" :> Code(70, <<<<"block_list">>, <<"bytes">>>>)

OptionWriters ==
    "RequestCodeList" :> Code(26, <<Idm, <<"le">>, <<"le">>>>)
    @@ "RequestBlockInformationEx" :> Code(30, <<Idm, U16List>>)
    @@ "SetParameter" :> Code(32, <<Idm, <<"zeros", 4>>, <<"u8">>, <<"u8">>, <<"zeros", 2>>>>)
    @@ "GetContainerIssueInformation" :> Code(34, <<Idm, <<"zeros", 2>>>>)
    @@ "GetAreaInformation" :> Code(36, <<Idm, <<"le">>>>)
    @@ "GetNodeProperty" :> Code(40, <<Idm, <<"u8">>, U16List>>)
    @@ "GetContainerProperty" :> Code(46, <<<<"le">>>>)
    @@ "RequestServiceV2" :> Code(50, <<Idm, U16List>>)
    @@ "GetSystemStatus" :> Code(56, <<Idm, <<"zeros", 2>>>>)
    @@ "RequestProductInformation" :> Code(58, <<Idm>>)
    @@ "RequestSpecificationVersion" :> Code(60, <<Idm, <<"zeros", 2>>>>)
    @@ "ResetMode" :> Code(62, <<Idm, <<"zeros", 2>>>>)
    @@ "Authentication1V2" :> Code(64, <<Idm, <<"u8">>, U16List, <<"bytes">>>>)
    @@ "Authentication2V2" :> Code(66, <<Idm, <<"bytes">>>>)
    @@ "GetContainerId" :> Code(112, <<<<"zeros", 2>>>>)

RegisterWriters ==
    "RegisterIssueId" :> Code(128, <<<<"bytes">>, <<"bytes">>, <<"bytes">>>>)
    @@ "RegisterArea" :> Code(130, <<<<"le">>, <<"bytes">>>>)
    @@ "RegisterService" :> Code(132, <<<<"le">>, <<"bytes">>>>)
    @@ "ChangeSystemBlock" :> Code(142, <<>>)

PlainWriters == DataWriters @@ OptionWriters
InnerWriters == SecureWriters @@ RegisterWriters

\* Polling is refused at the choke point; the list bounds of the other
\* commands are debug assertions, kept by the callers.
PollingDefined(c) ==
    c.kind = "Polling" => c.values[2] \in POLLING_REQUEST_CODES /\ c.values[3] \in POLLING_TIME_SLOTS

\* to_frame: <<>> when the command is refused.
CommandFrame(c) ==
    LET w == PlainWriters[c.kind] IN
    IF PollingDefined(c) THEN Prefixed(<<w.code>> \o WriteLayout(w.layout, c.values)) ELSE <<>>

\* The plaintext a secure session wraps.
CommandInner(c) == WriteLayout(InnerWriters[c.kind].layout, c.values)

\* ---- parse.rs ------------------------------------------------------------
\* Readers are indexed by the command code the match dispatches on.
Reader(kind, layout) == [kind |-> kind, layout |-> layout]
ReadIdm == <<"fixed", IDM_LEN>>
Services(max) == <<"list", "le", 1, max>>
Reserved2 == <<"zeros", 2>>
End == <<"end">>

AccessReaders ==
    0 :> Reader("Polling", <<<<"be">>, <<"u8in", POLLING_REQUEST_CODES>>, <<"u8in", POLLING_TIME_SLOTS>>, End>>)
    @@ 2 :> Reader("RequestService", <<ReadIdm, Services(MAX_SERVICE_CODES), End>>)
    @@ 4 :> Reader("RequestResponse", <<ReadIdm, End>>)
    @@ 6 :> Reader("ReadWithoutEncryption", <<ReadIdm, Services(MAX_RW_SERVICE_CODES), <<"block_list">>, End>>)
    @@ 8 :> Reader("WriteWithoutEncryption",
                   <<ReadIdm, Services(MAX_RW_SERVICE_CODES), <<"block_list">>, <<"data">>, End>>)

DirectoryReaders ==
    10 :> Reader("SearchServiceCode", <<ReadIdm, <<"le">>, End>>)
    @@ 12 :> Reader("RequestSystemCode", <<ReadIdm, End>>)
    @@ 14 :> Reader("RequestBlockInformation", <<ReadIdm, Services(MAX_NODE_CODES), End>>)
    @@ 16 :> Reader("Authentication1", <<ReadIdm, <<"list", "le", 0, MAX_SERVICE_CODES>>,
                                         <<"list", "le", 0, MAX_SERVICE_CODES>>, <<"fixed", 8>>, End>>)
    @@ 18 :> Reader("Authentication2", <<ReadIdm, <<"fixed", 8>>, End>>)
    @@ 26 :> Reader("RequestCodeList", <<ReadIdm, <<"le">>, <<"le">>, End>>)

ParameterReaders ==
    30 :> Reader("RequestBlockInformationEx", <<ReadIdm, Services(MAX_NODE_CODES), End>>)
    @@ 32 :> Reader("SetParameter",
                    <<ReadIdm, <<"zeros", 4>>, <<"u8in", EncryptionType>>, <<"u8in", PacketType>>, Reserved2, End>>)
    @@ 34 :> Reader("GetContainerIssueInformation", <<ReadIdm, Reserved2, End>>)
    @@ 36 :> Reader("GetAreaInformation", <<ReadIdm, <<"le">>, End>>)
    @@ 40 :> Reader("GetNodeProperty",
                    <<ReadIdm, <<"u8in", NodePropertyType>>, Services(MAX_NODE_PROPERTY_CODES), End>>)
    @@ 46 :> Reader("GetContainerProperty", <<<<"le">>, End>>)

OptionReaders ==
    50 :> Reader("RequestServiceV2", <<ReadIdm, Services(MAX_SERVICE_CODES), End>>)
    @@ 64 :> Reader("Authentication1V2",
                    <<ReadIdm, <<"u8">>, Services(MAX_SERVICE_CODES), <<"fixed", 16>>, End>>)
    @@ 66 :> Reader("Authentication2V2", <<ReadIdm, <<"fixed", 16>>, End>>)
    @@ 56 :> Reader("GetSystemStatus", <<ReadIdm, Reserved2, End>>)
    @@ 58 :> Reader("RequestProductInformation", <<ReadIdm, End>>)
    @@ 60 :> Reader("RequestSpecificationVersion", <<ReadIdm, Reserved2, End>>)
    @@ 62 :> Reader("ResetMode", <<ReadIdm, Reserved2, End>>)
    @@ 112 :> Reader("GetContainerId", <<Reserved2, End>>)

\* parse_secure_payload: the block commands ignore what is behind them, a
\* register command takes everything behind its fixed fields as the package.
InnerReaders ==
    20 :> Reader("Read", <<<<"block_list">>, <<"padding">>>>)
    @@ 22 :> Reader("Write", <<<<"block_list">>, <<"data">>, <<"padding">>>>)
    @@ 68 :> Reader("ReadV2", <<<<"block_list">>, <<"padding">>>>)
    @@ 70 :> Reader("WriteV2", <<<<"block_list">>, <<"data">>, <<"padding">>>>)
    @@ 128 :> Reader("RegisterIssueId", <<<<"fixed", 8>>, <<"fixed", 8>>, <<"rest", 0>>>>)
    @@ 130 :> Reader("RegisterArea", <<<<"le">>, <<"rest", 0>>>>)
    @@ 132 :> Reader("RegisterService", <<<<"le">>, <<"rest", 0>>>>)
    @@ 142 :> Reader("ChangeSystemBlock", <<End>>)

PlainReaders == AccessReaders @@ DirectoryReaders @@ ParameterReaders @@ OptionReaders

Rejected == [kind |-> "rejected", values |-> <<>>]
Parsed(reader, bytes) ==
    LET p == ReadLayout(reader.layout, bytes, TakeField) IN
    IF p.ok THEN [kind |-> reader.kind, values |-> p.values] ELSE Rejected

\* parse_frame and parse_payload.
ParseCommand(frame) ==
    IF frame = <<>> \/ frame[1] # Len(frame) \/ Len(frame) < 2 THEN Rejected
    ELSE IF frame[2] \notin DOMAIN PlainReaders THEN Rejected
    ELSE Parsed(PlainReaders[frame[2]], SubSeq(frame, 3, Len(frame)))

ParseInner(code, payload) ==
    IF code \in DOMAIN InnerReaders THEN Parsed(InnerReaders[code], payload) ELSE Rejected
==============================================================================
