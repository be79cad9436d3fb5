------------------------------ MODULE MCClient ------------------------------
(***************************************************************************)
(* The client side of the crate: the calls of one polled card (ReaderApi), *)
(* the keys from their file to an authentication (KeyStore) and the packet *)
(* formats (Codec).  A behaviour is of one part, the others rest.          *)
(***************************************************************************)
EXTENDS ReaderApi, TLC

CONSTANTS c1, c2

VARIABLES
    part,
    file, pos, index, loaded, store, warned, subject, keys, request, derived, outcome,
    codec, sent, packet, altered, got

keyVars == <<file, pos, index, loaded, store, warned, subject, keys, request, derived, outcome>>
codecVars == <<codec, sent, packet, altered, got>>
runVars == <<part, vars, keyVars, codecVars>>

-----------------------------------------------------------------------------
\* The client: a prompt card with the PMm of a real one, and a slow one.
ApiPmm ==
    [c \in {c1, c2} |->
        IF c = c2 THEN [i \in 2..7 |-> 0] ELSE 2 :> 255 @@ 3 :> 81 @@ 4 :> 74 @@ 5 :> 131 @@ 6 :> 67 @@ 7 :> 0]
ApiCardRates == [c \in {c1, c2} |-> IF c = c2 THEN {"212F"} ELSE {"212F", "424F"}]

P(rates, request_code, time_slots) == [rates |-> rates, request_code |-> request_code, time_slots |-> time_slots]
ApiPolls ==
    {P(<<"212F", "424F", "212F">>, 0, 0), P(<<"212F">>, 1, 15), P(<<"424F", "bad">>, 2, 3), P(<<"106A">>, 0, 0),
     P(<<>>, 0, 0), P(<<"212F">>, 3, 0), P(<<"212F">>, 0, 2)}

\* The operations with no list, and those with one and its bounds.
Listless ==
    {"RequestResponse", "SearchServiceCode", "RequestSystemCode", "RequestCodeList", "SetParameter",
     "GetContainerIssueInformation", "GetContainerProperty", "GetContainerId", "GetSystemStatus",
     "RequestProductInformation", "RequestSpecificationVersion", "ResetMode", "GetAreaInformation",
     "Authentication2", "Authentication2V2", "RegisterIssueId", "RegisterArea", "RegisterService", "ChangeSystemBlock"}
Lists ==
    [RequestService |-> <<1, 32>>, ReadWithoutEncryption |-> <<1, 15>>, RequestBlockInformation |-> <<1, 32>>,
     RequestBlockInformationEx |-> <<1, 32>>, GetNodeProperty |-> <<1, 16>>, Authentication1 |-> <<0, 64>>,
     Authentication1V2 |-> <<0, 32>>, Read |-> <<1, 14>>, ReadV2 |-> <<1, 15>>, RequestServiceV2 |-> <<1, 32>>]

\* Every operation at its lower bound, and the ones with a list at and past the upper one.
R(op, n, s, e) == [op |-> op, n |-> n, s |-> s, e |-> e, bad |-> FALSE]
ApiRequests ==
    {R(op, 0, 1, 2) : op \in Listless}
    \cup {R(op, Lists[op][1], 1, 2) : op \in DOMAIN Lists}
    \cup {R(op, Lists[op][2], 16, 3) : op \in DOMAIN Lists}
    \cup {R(op, Lists[op][2] + 1, 1, 2) : op \in DOMAIN Lists}
    \cup {R("WriteWithoutEncryption", n, 1, 2) : n \in {1, 13}} \cup {R("Write", n, 1, 2) : n \in {1, 12, 13}}
    \cup {R("WriteV2", n, 1, 2) : n \in {1, 13}} \cup {R("ChangeKeys", 1, 1, 2), R("ChangeKeys", 11, 1, 3)}
    \cup {R("ReadWithoutEncryption", 1, 0, 2), R("ReadWithoutEncryption", 16, 1, 2), R("ReadWithoutEncryption", 1, 17, 2),
          R("WriteWithoutEncryption", 12, 1, 3), R("Authentication1", 40, 33, 2), R("Authentication1", 40, 7, 2)}
    \cup {[R(op, 1, 1, 2) EXCEPT !.bad = TRUE] : op \in {"ReadWithoutEncryption", "ChangeKeys"}}
    \cup {[R("RegisterArea", 0, 1, 2) EXCEPT !.bad = TRUE]}

\* Every operation that changes the card may come back with SF1 = FFh and the warning.
ApiWarnsFF ==
    {"WriteWithoutEncryption", "Write", "ChangeKeys", "WriteV2", "RegisterIssueId", "RegisterArea", "RegisterService",
     "ChangeSystemBlock"}

-----------------------------------------------------------------------------
\* The keys: the System and two Areas, then up to three of the lines.
KeyAreas == {4096, 4097}
KeyServices == {4104, 4105}
SystemNode == 65535
CardKeys ==
    [c \in {"c1", "c2"} |-> [n \in KeyAreas \cup KeyServices \cup {SystemNode} |->
        <<"Des", IF n = 4104 THEN c ELSE IF n = 4097 THEN "k2" ELSE "k">>]]

L(system, idm, node, algo, key) ==
    [form |-> "json", system |-> system, idm |-> idm, node |-> node, algo |-> algo, key |-> key,
     len |-> IF algo \in {"DES", "des"} THEN 8 ELSE 16]
Base == <<L(3, None, SystemNode, "DES", "k"), L(3, None, 4096, "des", "k"), L(3, None, 4097, "DES", "k2")>>
Lines ==
    {L(3, None, 4104, "DES", "k"), L(3, "c1", 4104, "DES", "c1"), L(3, "c2", 4104, "DES", "c2"),
     L(3, None, 4104, "AES", "a"), L(3, None, 4096, "aes", "a"), L(3, None, 4105, "DES", "x"),
     L(5, None, 4104, "DES", "y"), [L(3, None, 4104, "DES", "z") EXCEPT !.len = 4], L(3, None, 4104, "RSA", "z"),
     [L(3, None, 4104, "DES", "z") EXCEPT !.form = "other"], [L(3, None, 4104, "DES", "z") EXCEPT !.form = "blank"]}
KeyFiles == {Base \o s : s \in UNION {[1..n -> Lines] : n \in 0..3}}

Q(scheme, areas, services, individual) ==
    [scheme |-> scheme, areas |-> areas, services |-> services, individual |-> individual]
KeyRequests ==
    {Q(None, <<4096>>, <<4104>>, FALSE), Q(None, <<4096, 4097>>, <<4104, 4105>>, FALSE),
     Q(None, <<4096>>, <<4105, 4104>>, FALSE), Q(None, <<4096>>, <<4105>>, FALSE), Q(None, <<4096>>, <<4097>>, FALSE),
     Q(None, <<4097, SystemNode>>, <<SystemNode, 4104>>, FALSE), Q(None, <<>>, <<4104>>, FALSE),
     Q(None, <<4096>>, <<>>, FALSE), Q(None, <<>>, <<>>, FALSE), Q(None, <<4096>>, <<4104>>, TRUE),
     Q("Des", <<4096>>, <<4104>>, FALSE), Q("Aes128", <<>>, <<4104>>, TRUE), Q("Aes128", <<4096>>, <<4104>>, FALSE),
     Q("Aes128", <<>>, <<>>, FALSE)}

Keys == INSTANCE KeyStore WITH
    Files <- KeyFiles, Cards <- {"c1", "c2"}, Systems <- {3, 5}, Areas <- KeyAreas, Services <- KeyServices,
    CardKey <- CardKeys, Requests <- KeyRequests, IndexRange <- 8

Samples == INSTANCE MCMessages
Packets == INSTANCE Codec WITH
    Messages <- Samples!CodecMessages, AlterLimit <- 48, AlterBytes <- {0, 1, 2, 3, 127, 128, 255}, phase <- codec

ASSUME ReaderAssumption /\ Keys!KeyAssumption /\ Packets!CodecAssumption

-----------------------------------------------------------------------------
\* No file is read.
KeysRest ==
    /\ file = <<>> /\ pos = 0 /\ index = 0 /\ loaded = TRUE /\ store = <<>> /\ warned = {}
    /\ subject = None /\ keys = None /\ request = None /\ derived = None /\ outcome = None

RunInit ==
    /\ part \in {"api", "keys", "packets"}
    /\ Init /\ Packets!Init
    /\ IF part = "keys" THEN Keys!Init ELSE KeysRest

RunNext ==
    /\ UNCHANGED part
    /\ \/ part = "api" /\ Next /\ UNCHANGED <<keyVars, codecVars>>
       \/ part = "keys" /\ Keys!Next /\ UNCHANGED <<vars, codecVars>>
       \/ part = "packets" /\ Packets!Next /\ UNCHANGED <<vars, keyVars>>

RunSpec == RunInit /\ [][RunNext]_runVars

-----------------------------------------------------------------------------
\* The properties of the other two modules.

\* Of several keys the last one for the card counts, and from the keys held the reader
\* derives what the card derives: one wrong or missing key that counts fails, one that
\* does not count is never missed, and algorithms are not mixed (KeyStore::resolve,
\* chain_algorithm, derive_des, require_des).
KeysAgree ==
    Keys!TypeOK /\ Keys!ResolvedIsLatest /\ Keys!ReaderAndCardAgree /\ Keys!EnoughKeysServe /\ Keys!OneAlgorithm

\* Parsers and serialisers agree: what was serialised is parsed to the same message,
\* what was parsed can be forwarded, a plain packet that is accepted is the one the
\* serialiser writes, and the client's bounds on reads are exact (parse.rs, serialize.rs).
PacketsAgree ==
    Packets!TypeOK /\ Packets!RoundTrip /\ Packets!Forwardable /\ Packets!Canonical /\ Packets!ReadBoundIsExact
==============================================================================
