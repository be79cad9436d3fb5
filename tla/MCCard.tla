------------------------------- MODULE MCCard --------------------------------
(***************************************************************************)
(* The emulated card.  A behaviour is of one part and the others rest:     *)
(* part "card", a card with two Systems that share the high byte of their  *)
(* codes, each with one area, one keyed and one authentication-free        *)
(* Service, by itself (host = "off"), under any sequence of calls, and     *)
(* under the emulation loop of the example; part "tree", the building of   *)
(* the Area/Service tree of one System.                                    *)
(***************************************************************************)
EXTENDS EmulatorHost, AreaTree

CONSTANTS root, keyed, free, sysnode

VARIABLE part

MCSystemCode == <<<<1, 1>>, <<1, 2>>>>
MCRequestCodes == {<<1, 1>>, <<1, 2>>, <<255, 2>>, <<255, 255>>, <<3, 3>>}
MCAreas == [i \in 1..2 |-> {root}]
MCKeyed == [i \in 1..2 |-> {keyed}]
MCFree == [i \in 1..2 |-> {free}]
MCAreaLists == {<<root>>, <<sysnode, root>>}
MCServiceLists == {<<keyed, free>>, <<root>>, <<free, keyed>>}
MCElements == {<<0, TRUE>>, <<1, FALSE>>, <<2, TRUE>>}
MCRandom1 == {<<1, 1>>, <<2, 2>>}

-----------------------------------------------------------------------------
\* 1000h..1FFFh with and without child Areas, an inner one that ends where they
\* do, Area 0 again, and one range for each reason to refuse.
MCRanges == {<<4096, 8191>>, <<4097, 8191>>, <<4160, 8191>>, <<0, 65534>>,
             <<0, 8191>>, <<4098, 8191>>, <<8192, 4096>>, <<4096, 65535>>}
\* Number 41h as Random read/write and read-only and as Purse, another number,
\* an undefined attribute and the reserved code.
MCServices == {<<4168, 2>>, <<4171, 1>>, <<4176, 1>>, <<8200, 1>>, <<4184, 1>>, <<65535, 1>>}

-----------------------------------------------------------------------------
RunInit ==
    /\ part \in {"card", "tree"}
    /\ (part = "card" /\ HostInit) \/ (Init /\ host = "off")
    /\ TreeInit
RunNext ==
    /\ UNCHANGED part
    /\ \/ part = "card" /\ host = "off" /\ Next /\ UNCHANGED <<host, treeVars>>
       \/ part = "card" /\ host # "off" /\ HostNext /\ UNCHANGED treeVars
       \/ part = "tree" /\ TreeNext /\ UNCHANGED hostVars
RunSpec == RunInit /\ [][RunNext]_<<part, hostVars, treeVars>>
==============================================================================
