------------------------------ MODULE AreaTree -------------------------------
(***************************************************************************)
(* How the Area/Service tree of an emulated System is built                *)
(* (felica_standard/emulator/structure.rs, and add_service, add_area and   *)
(* root_area_mut of system.rs): Areas are made and filled on their own,    *)
(* moved below another Area or below Area 0, and overlap Services, those   *)
(* with one Service Number, are linked to one block store.                 *)
(*                                                                         *)
(* A tree is the sequence of its nodes in depth-first order, the order in  *)
(* which every function of the source visits it, each with its depth.      *)
(***************************************************************************)
EXTENDS Integers, Sequences, FiniteSetsExt

CONSTANTS
    Ranges,       \* <<area_code, end_service_code>> of the Areas a caller asks for
    Services,     \* <<service_code, block_count>> of the Services
    Direct,       \* TRUE: the caller also inserts through root_area_mut
    MaxMade,      \* bound: Areas and Services made and taken
    MaxDrafts     \* bound: Areas under construction at one time

MAX_CODE == 65535    \* of a u16

ASSUME AreaTreeAssumption ==
    /\ Ranges \subseteq (0..MAX_CODE) \X (0..MAX_CODE)
    /\ Services \subseteq (0..MAX_CODE) \X Nat
    /\ Direct \in BOOLEAN /\ MaxMade \in Nat /\ MaxDrafts \in Nat

VARIABLES
    tree,      \* the System's tree; node 1 is Area 0
    drafts,    \* Areas the caller has built and not yet inserted, newest last
    made,      \* how many Areas and Services were made and taken
    last       \* <<on what, Ok or the error>> of the last call

treeVars == <<tree, drafts, made, last>>

-----------------------------------------------------------------------------
MAX_NODE_CODE == 65534
ROOT_AREA_CODE == 0

ServiceNumber(code) == code \div 64
Attribute(code) == code % 64

\* ServiceCode::kind: "None" where table 3-2 defines no attribute.
Kind(code) ==
    CASE Attribute(code) \in 8..11 -> "Random"
      [] Attribute(code) \in 12..15 -> "Cyclic"
      [] Attribute(code) \in 16..23 -> "Purse"
      [] OTHER -> "None"

validate_area_range(code, end) ==
    CASE code > MAX_NODE_CODE \/ end > MAX_NODE_CODE -> "NodeCodeOutOfRange"
      [] code = ROOT_AREA_CODE /\ end # MAX_NODE_CODE -> "InvalidRootAreaRange"
      [] Attribute(code) \notin {0, 1} -> "InvalidAreaAttribute"
      [] code > end -> "InvalidAreaRange"
      [] OTHER -> "Ok"

\* Mutant: the end of the parent is not looked at.
validate_child_service_start(area, code) ==
    IF code > MAX_NODE_CODE \/ Kind(code) = "None" \/ code < area.code THEN "ServiceOutOfRange" ELSE "Ok"

validate_child_service(area, code) ==
    CASE code > MAX_NODE_CODE -> "NodeCodeOutOfRange"
      [] Kind(code) = "None" -> "UndefinedServiceAttribute"
      [] code < area.code \/ code > area.end -> "ServiceOutOfRange"
      [] OTHER -> "Ok"

validate_child_area(area, child) ==
    CASE Attribute(area.code) # 0 -> "ChildAreaForbidden"
      [] child.code < area.code \/ child.end > area.end -> "AreaOutOfRange"
      [] OTHER -> "Ok"

-----------------------------------------------------------------------------
\* A node; the store of a Service is told apart by which Service was made with it.
Node == [area : BOOLEAN, code : 0..MAX_NODE_CODE, end : 0..MAX_NODE_CODE, depth : Nat,
         store : [made : Nat, len : Nat]]
NoStore == [made |-> 0, len |-> 0]
AreaNode(code, end) == [area |-> TRUE, code |-> code, end |-> end, depth |-> 0, store |-> NoStore]
ServiceNode(code, len) ==
    [area |-> FALSE, code |-> code, end |-> code, depth |-> 0, store |-> [made |-> made + 1, len |-> len]]

\* children.push: the nodes of a moved Area keep their order, one level down.
Push(t, nodes) == t \o [i \in DOMAIN nodes |-> [nodes[i] EXCEPT !.depth = @ + 1]]

ServicesOf(t) == {i \in DOMAIN t : ~t[i].area}
Overlap(t, i, j) == ServiceNumber(t[i].code) = ServiceNumber(t[j].code)
\* The Service that is registered for the number of Service i.
Registered(t, i) == Min({j \in ServicesOf(t) : Overlap(t, i, j)})

\* Mutant: a registered Service takes the store of the one that follows it.
sync_overlapping_services_last(t) ==
    [result |-> "Ok",
     tree   |-> [i \in DOMAIN t |->
                  IF t[i].area THEN t[i]
                  ELSE [t[i] EXCEPT !.store = t[Max({j \in ServicesOf(t) : Overlap(t, i, j)})].store]]]

\* Mutant: the registry starts anew in every Area.
sync_overlapping_services_level(t) ==
    [result |-> "Ok",
     tree   |-> [i \in DOMAIN t |->
                  IF t[i].area THEN t[i]
                  ELSE [t[i] EXCEPT !.store =
                          t[Min({j \in ServicesOf(t) : Overlap(t, i, j) /\ t[j].depth = t[i].depth})].store]]]

\* Services are visited in order; the first one of another kind than the one
\* registered for its number ends the visit, with the earlier ones linked.
sync_overlapping_services(t) ==
    LET mixed == {i \in ServicesOf(t) : Kind(t[i].code) # Kind(t[Registered(t, i)].code)}
        visited == {i \in ServicesOf(t) : \A m \in mixed : i < m}
    IN [result |-> IF mixed = {} THEN "Ok" ELSE "OverlapKindMismatch",
        tree   |-> [i \in DOMAIN t |->
                     IF i \in visited THEN [t[i] EXCEPT !.store = t[Registered(t, i)].store] ELSE t[i]]]

-----------------------------------------------------------------------------
\* EmulatedSystem::new.
TreeInit ==
    /\ tree = <<AreaNode(ROOT_AREA_CODE, MAX_NODE_CODE)>>
    /\ drafts = <<>>
    /\ made = 0
    /\ last = <<"new", "Ok">>

\* EmulatedArea::new.
NewArea(range) ==
    LET result == validate_area_range(range[1], range[2])
    IN /\ made < MaxMade /\ Len(drafts) < MaxDrafts
       /\ made' = IF result = "Ok" THEN made + 1 ELSE made
       /\ drafts' = IF result = "Ok" THEN Append(drafts, <<AreaNode(range[1], range[2])>>) ELSE drafts
       /\ last' = <<"area", result>>
       /\ UNCHANGED tree

\* EmulatedArea::add_service, on the newest Area under construction.
AreaAddService(service) ==
    LET n == Len(drafts)
        result == validate_child_service(drafts[n][1], service[1])
    IN /\ n > 0 /\ made < MaxMade
       /\ made' = IF result = "Ok" THEN made + 1 ELSE made
       /\ drafts' = IF result = "Ok"
                    THEN [drafts EXCEPT ![n] = Push(@, <<ServiceNode(service[1], service[2])>>)]
                    ELSE drafts
       /\ last' = <<"area", result>>
       /\ UNCHANGED tree

\* EmulatedArea::add_area takes the child by value: a refused one is gone.
AreaAddArea ==
    LET n == Len(drafts)
        result == validate_child_area(drafts[n - 1][1], drafts[n][1])
    IN /\ n > 1
       /\ drafts' = IF result = "Ok"
                    THEN Append(SubSeq(drafts, 1, n - 2), Push(drafts[n - 1], drafts[n]))
                    ELSE SubSeq(drafts, 1, n - 1)
       /\ last' = <<"area", result>>
       /\ UNCHANGED <<tree, made>>

\* Insertion below Area 0; through the System it is followed by the linking.
Insert(nodes, result, sync) ==
    IF result # "Ok"
    THEN /\ last' = <<"system", result>>
         /\ UNCHANGED tree
    ELSE LET synced == sync_overlapping_services(Push(tree, nodes))
         IN IF sync
            THEN tree' = synced.tree /\ last' = <<"system", synced.result>>
            ELSE tree' = Push(tree, nodes) /\ last' = <<"root", "Ok">>

\* EmulatedSystem::add_service, or add_service on root_area_mut.
AddService(service, sync) ==
    LET result == validate_child_service(tree[1], service[1])
    IN /\ made < MaxMade
       /\ made' = IF result = "Ok" THEN made + 1 ELSE made
       /\ Insert(<<ServiceNode(service[1], service[2])>>, result, sync)
       /\ UNCHANGED drafts

\* EmulatedSystem::add_area, or add_area on root_area_mut.
AddArea(sync) ==
    LET n == Len(drafts)
    IN /\ n > 0
       /\ drafts' = SubSeq(drafts, 1, n - 1)
       /\ Insert(drafts[n], validate_child_area(tree[1], drafts[n][1]), sync)
       /\ UNCHANGED made

TreeNext ==
    \/ \E range \in Ranges : NewArea(range)
    \/ \E service \in Services : AreaAddService(service)
    \/ AreaAddArea
    \/ \E service \in Services, sync \in {TRUE, ~Direct} : AddService(service, sync)
    \/ \E sync \in {TRUE, ~Direct} : AddArea(sync)

TreeSpec == TreeInit /\ [][TreeNext]_treeVars

-----------------------------------------------------------------------------
\* One Area with everything below it, all nodes being ones the file system can address.
GoodTree(t) ==
    /\ t \in Seq(Node) /\ Len(t) > 0 /\ t[1].area
    /\ \A i \in DOMAIN t : (t[i].depth = 0 <=> i = 1) /\ (~t[i].area => Kind(t[i].code) # "None")

TreeTypeOK ==
    /\ GoodTree(tree)
    /\ drafts \in Seq(Seq(Node)) /\ \A n \in DOMAIN drafts : GoodTree(drafts[n])
    /\ made \in 0..MaxMade

\* Node j encloses node i: no node between them comes back to the depth of j.
Encloses(t, j, i) == j < i /\ \A k \in (j + 1)..i : t[k].depth > t[j].depth

Nested(t) ==
    \A i, j \in DOMAIN t :
        Encloses(t, j, i)
        => /\ t[j].area
           /\ t[j].code <= t[i].code /\ t[i].end <= t[j].end
           /\ t[i].area => Attribute(t[j].code) = 0

\* Whatever was inserted where, and in whichever order, every node lies in the
\* range of each Area above it and no Area lies below one that forbids it
\* (validate_child_service, validate_child_area).
RangesNest == Nested(tree)

\* After the System accepted an insertion all Services of one number have one kind
\* and one store, duplicates of one code included, however deep and on whatever way
\* they came into the tree (sync_overlapping_services).
AcceptedOverlapsShare ==
    last = <<"system", "Ok">>
    => \A i, j \in ServicesOf(tree) :
          Overlap(tree, i, j)
          => tree[i].store = tree[j].store /\ Kind(tree[i].code) = Kind(tree[j].code)

\* No insertion takes the blocks away from the Service its number was registered
\* with, not one that is refused half way either (sync_overlapping_services).
RegisteredKeepsItsBlocks ==
    [][\A i \in ServicesOf(tree) : Registered(tree, i) = i => tree'[i] = tree[i]]_treeVars

\* The tree never mixes Random, Cyclic and Purse Services on one number: "that is
\* rejected here" (sync_overlapping_services).
NoMixedOverlap ==
    \A i, j \in ServicesOf(tree) : Overlap(tree, i, j) => Kind(tree[i].code) = Kind(tree[j].code)

\* A node code names one node of the tree, so that no command is ambiguous
\* (EmulatorConfigError).
CodesAreUnique ==
    \A i, j \in DOMAIN tree :
        tree[i].code = tree[j].code /\ tree[i].area = tree[j].area => i = j

\* A Service is below every Area whose range contains its code: it belongs to the
\* Area whose range contains it (validate_child_service).
ServiceInItsArea ==
    \A i \in ServicesOf(tree), j \in DOMAIN tree :
        tree[j].area /\ tree[j].code <= tree[i].code /\ tree[i].code <= tree[j].end => Encloses(tree, j, i)
==============================================================================
