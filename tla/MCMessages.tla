----------------------------- MODULE MCMessages -----------------------------
(***************************************************************************)
(* The messages the codec is checked with: at least one per variant; the   *)
(* u16 values tell the byte orders apart, the block numbers lie on both    *)
(* sides of 256, and the longest lists are at and one beyond what a packet *)
(* holds.                                                                  *)
(***************************************************************************)
EXTENDS Wire

Bytes(n, b) == [i \in 1..n |-> b]
Of(n, v) == [i \in 1..n |-> v]
I == Bytes(8, 7)
M(role, kind, values) == [role |-> role, kind |-> kind, values |-> values]
Cmd(kind, values) == M("command", kind, values)
Ans(kind, values) == M("answer", kind, values)

Codes == {<<258>>, <<1, 770>>}
BlockLists == {<<<<5, 0, 0>>>>, <<<<256, 1, 1>>, <<255, 15, 4>>>>}
Data(l) == Bytes(BLOCK_SIZE * Len(l), 9)

Commands1 ==
    {Cmd("Polling", <<65282, r, t>>) : r \in 0..3, t \in {0, 2, 15}}
    \cup {Cmd(k, <<I>>) : k \in {"RequestResponse", "RequestSystemCode", "RequestProductInformation",
            "GetContainerIssueInformation", "GetSystemStatus", "RequestSpecificationVersion", "ResetMode"}}
    \cup {Cmd(k, <<I, l>>) : l \in Codes \cup {Of(32, 258)}, k \in {"RequestService", "RequestServiceV2",
            "RequestBlockInformation", "RequestBlockInformationEx"}}
    \cup {Cmd(k, <<I, 258>>) : k \in {"SearchServiceCode", "GetAreaInformation"}}
    \cup {Cmd("ReadWithoutEncryption", <<I, c, l>>) : c \in Codes, l \in BlockLists}
    \cup {Cmd("WriteWithoutEncryption", <<I, c, l, Data(l)>>) :
            c \in {<<258>>}, l \in BlockLists \cup {Of(13, <<1, 0, 0>>), Of(14, <<1, 0, 0>>)}}
    \cup {Cmd("RequestCodeList", <<I, 258, 3>>), Cmd("GetContainerProperty", <<258>>), Cmd("GetContainerId", <<>>)}

Commands2 ==
    {Cmd("Authentication1", <<I, a, s, Bytes(8, 4)>>) : a \in Codes \cup {<<>>}, s \in Codes \cup {<<>>}}
    \cup {Cmd("Authentication1V2", <<I, 2, c, Bytes(16, 4)>>) : c \in Codes}
    \cup {Cmd("Authentication2", <<I, Bytes(8, 6)>>), Cmd("Authentication2V2", <<I, Bytes(16, 6)>>)}
    \cup {Cmd("SetParameter", <<I, e, p>>) : e \in 0..1, p \in 0..1}
    \cup {Cmd("GetNodeProperty", <<I, t, c>>) : t \in 0..1, c \in Codes}

\* The client's packages are 24 bytes: two blocks of fields and a MAC.
InnerCommands ==
    {M("inner command", k, <<l>>) : k \in {"Read", "ReadV2"}, l \in BlockLists}
    \cup {M("inner command", k, <<l, Data(l)>>) : k \in {"Write", "WriteV2"}, l \in BlockLists}
    \cup {M("inner command", k, <<258, Bytes(24, 5)>>) : k \in {"RegisterArea", "RegisterService"}}
    \cup {M("inner command", "RegisterIssueId", <<Bytes(8, 1), Bytes(8, 2), Bytes(24, 5)>>),
          M("inner command", "ChangeSystemBlock", <<>>)}

Block == Bytes(BLOCK_SIZE, 9)
Purse == <<1, 2, 0, 0, 0, 255, 255, 255, 255, 3>>
Gated(kind, results) ==
    {Ans(kind, <<I, 0, 0>> \o r) : r \in results} \cup {Ans(kind, <<I, 1, 161>>), Ans(kind, <<I, 0, 0>>)}

Answers1 ==
    {Ans("Polling", <<I, Bytes(8, 3), o>>) : o \in {<<>>, <<1>>, <<1, 2>>}}
    \cup {Ans(k, <<I, l>>) : l \in Codes \cup {<<>>, Of(33, 258)}, k \in {"RequestService", "RequestBlockInformation"}}
    \cup {Ans("RequestSystemCode", <<I, l>>) : l \in Codes \cup {<<>>, Of(128, 3)}}
    \cup {Ans("RequestResponse", <<I, 1>>), Ans("GetContainerId", <<I>>), Ans("GetContainerProperty", <<<<5, 6>>>>)}
    \cup {Ans(k, <<I, s, 161>>) : s \in 0..1, k \in {"WriteWithoutEncryption", "SetParameter", "ResetMode"}}
    \cup {Ans("SearchServiceCode", <<I, n>>) : n \in {<<>>, <<258>>, <<258, 65279>>}}
    \cup {Ans("Authentication1", <<I, Bytes(8, 1), Bytes(8, 2)>>),
          Ans("Authentication1V2", <<I, Bytes(16, 1), Bytes(16, 2), Bytes(4, 3)>>),
          Ans("Authentication2", <<Bytes(32, 1)>>), Ans("Authentication2V2", <<Bytes(26, 1)>>),
          Ans("GetContainerIssueInformation", <<I, Bytes(5, 1), Bytes(11, 2)>>),
          Ans("GetSystemStatus", <<I, 0, 0, 1, <<4, 5>>>>), Ans("GetSystemStatus", <<I, 1, 2, 3, <<>>>>)}

Answers2 ==
    Gated("ReadWithoutEncryption", {<<Of(n, Block)>> : n \in {1, 2, 15, 16}})
    \cup Gated("RequestCodeList", {<<f, a, s>> : f \in 0..1, a \in {<<>>, <<<<258, 3>>>>}, s \in Codes \cup {<<>>}})
    \cup Gated("RequestBlockInformationEx", {<<l>> : l \in {<<>>, <<<<258, 3>>>>, <<<<1, 2>>, <<3, 4>>>>}})
    \cup Gated("GetAreaInformation", {<<258, <<1, 2>>>>})
    \cup Gated("GetNodeProperty", {<<l>> : l \in {<<<<1>>>>, <<<<0>>, <<1>>>>, <<Purse>>, <<Purse, <<1>>>>}})
    \cup Gated("RequestServiceV2", {<<c, l>> : c \in {79, 65, 67, 1},
                                               l \in {<<<<258>>>>, <<<<258, 3>>, <<5, 6>>>>, <<<<258>>, <<5, 6>>>>}})
    \cup Gated("RequestProductInformation", {<<l>> : l \in {<<>>, <<1, 2>>}})
    \cup Gated("RequestSpecificationVersion",
               {<<f, <<4, 1, 0>>, l>> : f \in 0..1, l \in {<<>>, <<<<1, 2, 3>>, <<0, 9, 9>>>>, <<<<10, 0, 0>>>>}})

InnerAnswers ==
    {M("inner answer", k, v) : k \in {"Read", "ReadV2"},
        v \in {<<1, 161>>, <<0, 0>>} \cup {<<0, 0, Of(n, Block)>> : n \in {1, 14, 15, 16}}}
    \cup {M("inner answer", k, v) : k \in {"RegisterIssueId", "RegisterService"}, v \in {<<1, 161>>, <<0, 0, 258>>}}
    \cup {M("inner answer", k, <<0, 0>>) : k \in {"Write", "WriteV2", "RegisterArea", "ChangeSystemBlock"}}

CodecMessages == Commands1 \cup Commands2 \cup InnerCommands \cup Answers1 \cup Answers2 \cup InnerAnswers
==============================================================================
