----------------------------- MODULE BlockStore ------------------------------
(***************************************************************************)
(* The block stores of one emulated System under Write commands with block *)
(* lists (felica_standard/emulator/system.rs, apply_block_writes).         *)
(*                                                                         *)
(* Services with one Service Number overlap: they share one store under    *)
(* different attributes.  A list is checked element by element, applied to *)
(* staged copies of the stores and committed as a whole.                   *)
(***************************************************************************)
EXTENDS Blocks, FiniteSets

CONSTANTS
    Codes,      \* node codes a service code list can hold
    Node,       \* what the System knows of each code: see NodeRecord
    Count,      \* the number of blocks of each store, by Service Number
    Lists,      \* block lists with their data: sequences of Element
    Initial     \* the first content of every block

\* A list order beyond the end of the service code list.
Unlisted == "unlisted"

ServiceAttribute ==
    {"RandomReadWrite", "RandomReadOnly", "CyclicReadWrite", "CyclicReadOnly",
     "PurseDirect", "PurseCashback", "PurseDecrement", "PurseReadOnly"}

\* attribute = "none": an Area or the System itself.
NodeRecord ==
    [attribute : ServiceAttribute \cup {"none"}, registered : BOOLEAN, keyed : BOOLEAN,
     number : DOMAIN Count, limit : Limits \cup {NoLimit}]
Element ==
    [code : Codes \cup {Unlisted}, mode : 0..7, block : Nat, data : PurseBlock]

\* ServiceAttribute::kind.
Kind(attribute) ==
    CASE attribute \in {"RandomReadWrite", "RandomReadOnly"} -> "Random"
      [] attribute \in {"CyclicReadWrite", "CyclicReadOnly"} -> "Cyclic"
      [] OTHER -> "Purse"

ASSUME StoreAssumption ==
    /\ Count \in [DOMAIN Count -> Nat \ {0}]
    /\ Node \in [Codes -> NodeRecord]
    /\ Initial \in PurseBlock
    /\ Lists \subseteq Seq(Element)

\* The overlap rule sync_overlapping_services enforces: one kind per store.
ASSUME OverlapAssumption ==
    \A c, d \in {e \in Codes : Node[e].registered} :
        Node[c].number = Node[d].number => Kind(Node[c].attribute) = Kind(Node[d].attribute)

VARIABLE blocks     \* the blocks of each store; a ring has its newest first

-----------------------------------------------------------------------------
OK == <<0, 0>>
Number(e) == Node[e.code].number
KindOf(e) == Kind(Node[e.code].attribute)

AllowsWrite(attribute) == attribute \notin {"RandomReadOnly", "CyclicReadOnly", "PurseReadOnly"}
AllowsCashback(attribute) == attribute = "PurseCashback"

\* Mutant: a Service that needs authentication is reached without it.
PermittedAnyone(node, mode, access, authFree) ==
    access = "write" => AllowsWrite(node.attribute) /\ (mode = 1 => AllowsCashback(node.attribute))

\* The attribute's demands: A5h when one fails.
Permitted(node, mode, access, authFree) ==
    /\ authFree => ~node.keyed
    /\ access = "write" => AllowsWrite(node.attribute) /\ (mode = 1 => AllowsCashback(node.attribute))

\* validate_block_element: status flag 2, or 0 when the element passes.
ValidateBlockElement(e, access, authFree) ==
    LET node == Node[e.code] IN
    CASE e.code = Unlisted -> 163
      [] e.code # Unlisted /\ e.mode \notin (IF access = "read" THEN {0} ELSE {0, 1}) -> 167
      [] OTHER ->
           IF node.attribute = "none" THEN 164
           ELSE IF ~node.registered THEN 166
           ELSE IF ~Permitted(node, e.mode, access, authFree) THEN 165
           ELSE IF e.block >= Count[node.number] THEN 168
           ELSE 0

\* list_error_index; lists are shorter than u8::MAX.
ListErrorIndex(i) == i

\* The first element that does not pass, as a pair of status flags.
Validation(list, access, authFree) ==
    LET bad == {i \in DOMAIN list : ValidateBlockElement(list[i], access, authFree) # 0} IN
    IF bad = {} THEN OK
    ELSE LET i == CHOOSE j \in bad : \A k \in bad : j <= k IN
         <<ListErrorIndex(i), ValidateBlockElement(list[i], access, authFree)>>

\* PurseOperation::resolve; the element has passed Permitted.
Resolve(e) ==
    CASE Node[e.code].attribute = "PurseDirect" -> "Direct"
      [] e.mode = 1 -> "Cashback"
      [] OTHER -> "Decrement"

\* The first element of the run of one store that element i belongs to.
RunStart(list, i) ==
    CHOOSE s \in 1..i :
        /\ \A j \in s..i : Number(list[j]) = Number(list[i])
        /\ s = 1 \/ Number(list[s - 1]) # Number(list[i])

EndsRun(list, i) == i = Len(list) \/ Number(list[i + 1]) # Number(list[i])

Failed(staged, position, sf2) == [status |-> <<position, sf2>>, blocks |-> staged]
Went(staged) == [status |-> OK, blocks |-> staged]

\* Random: the supplied block is stored.
WriteRandom(staged, e) == Went([staged EXCEPT ![Number(e)][e.block + 1] = e.data])

\* Purse: the staged block goes through apply_purse_write.
WritePurse(staged, e, i) ==
    LET result == ApplyPurseWrite(staged[Number(e)][e.block + 1], e.data, Resolve(e), Node[e.code].limit)
    IN  IF result.status # 0 THEN Failed(staged, ListErrorIndex(i), result.status)
        ELSE Went([staged EXCEPT ![Number(e)][e.block + 1] = result.block])

\* Cyclic: the run is pushed as one unit; every block number must be 0.
WriteCyclic(staged, list, s, i) ==
    LET astray == {j \in s..i : list[j].block # 0}
        n == Number(list[i])
        result == ApplyCyclicWrite(staged[n], [j \in 1..(i - s + 1) |-> list[s + j - 1].data])
    IN  IF astray # {}
        THEN Failed(staged, ListErrorIndex(CHOOSE j \in astray : \A k \in astray : j <= k), 165)
        ELSE IF result.status # 0 THEN Failed(staged, ListErrorIndex(s), result.status)
        ELSE Went([staged EXCEPT ![n] = result.ring])

\* What the staged stores are after element i; a cyclic run acts at its end.
Apply(staged, list, i) ==
    CASE KindOf(list[i]) = "Random" -> WriteRandom(staged, list[i])
      [] KindOf(list[i]) = "Purse" -> WritePurse(staged, list[i], i)
      [] OTHER -> IF EndsRun(list, i) THEN WriteCyclic(staged, list, RunStart(list, i), i)
                  ELSE Went(staged)

\* The elements follow one another until one fails.
ApplyNext(prior, list, i) == IF prior.status # OK THEN prior ELSE Apply(prior.blocks, list, i)

\* The stores are copied once per command, and every run works on the copies.
Staged(store, list) ==
    LET after[i \in 0..Len(list)] ==
            IF i = 0 THEN Went(store) ELSE ApplyNext(after[i - 1], list, i)
    IN  after[Len(list)]

\* Mutant: the staged stores are kept whatever the status.
CommitAlways(store, result) == result

\* Nothing is stored when an element failed.
Commit(store, result) == IF result.status = OK THEN result ELSE [result EXCEPT !.blocks = store]

\* apply_block_writes on a store: the status flags and the store afterwards.
ApplyBlockWrites(store, list, authFree) ==
    LET checked == Validation(list, "write", authFree) IN
    IF checked # OK THEN [status |-> checked, blocks |-> store]
    ELSE Commit(store, Staged(store, list))

\* handle_read and handle_secure_read: the blocks of a valid list.
ReadBlocks(store, list, authFree) ==
    LET checked == Validation(list, "read", authFree) IN
    IF checked # OK THEN [status |-> checked, data |-> <<>>]
    ELSE [status |-> OK,
          data |-> [i \in DOMAIN list |-> store[Number(list[i])][list[i].block + 1]]]

-----------------------------------------------------------------------------
StoreInit == blocks = [n \in DOMAIN Count |-> [i \in 1..Count[n] |-> Initial]]

\* handle_write reaches only Services without a key; handle_secure_write, inside
\* a session, both kinds.  A command with too little data (FFh, ACh) stores nothing.
HandleWrite(list) == blocks' = ApplyBlockWrites(blocks, list, TRUE).blocks
HandleSecureWrite(list) == blocks' = ApplyBlockWrites(blocks, list, FALSE).blocks

StoreNext == \E list \in Lists : HandleWrite(list) \/ HandleSecureWrite(list)

StoreSpec == StoreInit /\ [][StoreNext]_blocks

-----------------------------------------------------------------------------
(* Properties                                                               *)

\* Every store keeps its number of blocks and the layout of each block.
StoreTypeOK ==
    /\ blocks \in [DOMAIN Count -> Seq(PurseBlock)]
    /\ \A n \in DOMAIN Count : Len(blocks[n]) = Count[n]

\* A store changes only through a writable Service of its own that the command
\* names, and without encryption only through one without a key, although a
\* read-only or a keyed Service may share the store.
ChangeIsAuthorised ==
    \A list \in Lists, authFree \in BOOLEAN :
        LET result == ApplyBlockWrites(blocks, list, authFree) IN
        \A n \in DOMAIN Count :
            result.blocks[n] # blocks[n] =>
                \E i \in DOMAIN list :
                    /\ Number(list[i]) = n
                    /\ AllowsWrite(Node[list[i].code].attribute)
                    /\ authFree => ~Node[list[i].code].keyed

\* Each purse block once, and each ring in one run.
Resendable(list) ==
    \A i, j \in DOMAIN list :
        i < j /\ list[i].code # Unlisted /\ list[j].code # Unlisted /\ Number(list[i]) = Number(list[j])
        => /\ KindOf(list[i]) = "Purse" => list[i].block # list[j].block
           /\ KindOf(list[i]) = "Cyclic" => \A k \in i..j : Number(list[k]) = Number(list[i])

\* A command whose answer was lost can be sent again when it names each purse
\* block once and each ring in one run: it succeeds and changes nothing more.
ResendIsHarmless ==
    \A list \in Lists :
        LET once == ApplyBlockWrites(blocks, list, FALSE) IN
        Resendable(list) /\ once.status = OK => ApplyBlockWrites(once.blocks, list, FALSE) = once

\* A ring loses only its oldest generations and never reorders the others: after
\* any command it is some of the command's data in front of its former head.
RingKeepsOrder ==
    \A list \in Lists :
        LET result == ApplyBlockWrites(blocks, list, FALSE) IN
        \A n \in {Number(list[i]) : i \in {j \in DOMAIN list : result.status = OK /\ KindOf(list[j]) = "Cyclic"}} :
            \E k \in 0..Count[n] :
                /\ SubSeq(result.blocks[n], k + 1, Count[n]) = SubSeq(blocks[n], 1, Count[n] - k)
                /\ \A i \in 1..k : \E j \in DOMAIN list :
                      Number(list[j]) = n /\ result.blocks[n][i] = list[j].data

\* What a successful command wrote last to a random block, and its last run on a
\* ring in list order, is what a Read returns.
WrittenIsRead ==
    \A list \in Lists :
        LET result == ApplyBlockWrites(blocks, list, FALSE)
            Later(i) == {j \in i + 1..Len(list) : Number(list[j]) = Number(list[i])} IN
        result.status = OK =>
            \A i \in DOMAIN list :
                /\ KindOf(list[i]) = "Random" /\ (\A j \in Later(i) : list[j].block # list[i].block)
                   => ReadBlocks(result.blocks, <<list[i]>>, FALSE).data = <<list[i].data>>
                /\ KindOf(list[i]) = "Cyclic" /\ Later(i) = {}
                   => LET s == CHOOSE s \in 1..i :
                                 /\ \A j \in s..i : Number(list[j]) = Number(list[i])
                                 /\ s = 1 \/ Number(list[s - 1]) # Number(list[i])
                          run == [j \in 1..(i - s + 1) |-> [list[s + j - 1] EXCEPT !.block = j - 1]] IN
                      ReadBlocks(result.blocks, run, FALSE).data = [j \in DOMAIN run |-> run[j].data]

\* Whatever element fails, and at whatever stage, no store has changed.
NothingOnFailure ==
    \A list \in Lists, authFree \in BOOLEAN :
        LET result == ApplyBlockWrites(blocks, list, authFree) IN
        result.status # OK => result.blocks = blocks

\* The whole of a command is what its parts are: cut anywhere outside a cyclic
\* run, it succeeds exactly when its parts, sent one after the other, both do,
\* and leaves the same stores.
CommandIsSequential ==
    \A list \in Lists :
        \A cut \in 1..(Len(list) - 1) :
            LET first == SubSeq(list, 1, cut)
                second == SubSeq(list, cut + 1, Len(list))
                whole == ApplyBlockWrites(blocks, list, FALSE)
                one == ApplyBlockWrites(blocks, first, FALSE)
                two == ApplyBlockWrites(one.blocks, second, FALSE)
                outside == \/ Unlisted \in {list[cut].code, list[cut + 1].code}
                           \/ Number(list[cut]) # Number(list[cut + 1])
                           \/ KindOf(list[cut]) # "Cyclic"
            IN  outside =>
                  /\ whole.status = OK <=> one.status = OK /\ two.status = OK
                  /\ whole.status = OK => whole.blocks = two.blocks

\* A command is applied completely or not at all (3.6.1 in apply_block_writes): it
\* changes nothing when it fails, does what its parts do one after the other,
\* is what a Read returns afterwards, and leaves every store its layout.
AllOrNothing == StoreTypeOK /\ NothingOnFailure /\ CommandIsSequential /\ WrittenIsRead

\* The documentation of AFh: a command that writes more blocks to one cyclic
\* Service than the Service owns is refused, so it changes nothing.
CyclicOverflowRefused ==
    [][\A list \in Lists, n \in DOMAIN Count :
         LET writes == {i \in DOMAIN list : list[i].code # Unlisted
                                             /\ Number(list[i]) = n /\ KindOf(list[i]) = "Cyclic"}
         IN  Cardinality(writes) > Count[n] => ~HandleSecureWrite(list)]_blocks
=============================================================================
