-------------------------- MODULE MCSecureMessaging --------------------------
(***************************************************************************)
(* A reader and a card with two Systems; the reader talks to the first.    *)
(* The two values of random_1 share their last six bytes, so the           *)
(* transaction ID alone does not tell the two authentications apart.       *)
(***************************************************************************)
EXTENDS SecureMessaging

CONSTANTS root, keyed, free, sysnode

MCSystemCode == SubSeq(<<<<1, 1>>, <<1, 2>>>>, 1, NSys)
MCRequestCodes == {<<1, 1>>, <<1, 2>>}
MCAreas == [i \in 1..NSys |-> {root}]
MCKeyed == [i \in 1..NSys |-> {keyed}]
MCFree == [i \in 1..NSys |-> {free}]
MCAreaLists == {<<root>>}
MCServiceLists == {<<keyed, free>>}
MCElements == {<<0, TRUE>>}
MCRandom1 == {<<1, 1>>, <<2, 1>>}
MCReaderAreas == <<root>>
MCReaderCommands == {"write"}
MCReaderServices == <<keyed, free>>
=============================================================================
