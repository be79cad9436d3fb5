------------------------------ MODULE KeyStore ------------------------------
(***************************************************************************)
(* Keys from the JSONL file to the card (felica_standard/keys.rs): the     *)
(* file is read line by line, the keys of one card are resolved, the keys  *)
(* of an authentication are derived from them, and authenticate_node       *)
(* proves them to an emulated card, which derives its own from the lists   *)
(* it is sent (handle_authentication1).                                    *)
(*                                                                         *)
(* A key is <<algorithm, name>>; a derived key is the sequence of keys     *)
(* that were chained, so that two are equal only if they were derived from *)
(* the same keys in the same order.                                        *)
(***************************************************************************)
EXTENDS Integers, SequencesExt, FiniteSetsExt, TLC

CONSTANTS
    Files,       \* key files: sequences of lines
    Cards, Systems,
    Areas,       \* codes of the card's Areas
    Services,    \* codes of the card's Services
    CardKey,     \* per card and Node its DES key
    Requests,    \* [scheme, areas, services, individual]: a scheme, or None to choose
    IndexRange,  \* the line counter runs modulo IndexRange (usize)
    None

SYSTEM_SERVICE_CODE == 65535
SHARED == "shared"

KeyAssumption ==
    /\ Areas \cap Services = {} /\ SYSTEM_SERVICE_CODE \notin Areas \cup Services
    /\ \A c \in Cards : CardKey[c] \in [Areas \cup Services \cup {SYSTEM_SERVICE_CODE} -> {"Des"} \X STRING]
    /\ SHARED \notin Cards /\ None \notin Cards

VARIABLES
    file,      \* the file
    pos,       \* the lines taken from the reader
    index,     \* the rounds of the loop, its line number
    loaded,    \* has from_jsonl_reader returned?
    store,     \* by_system: the key under <<system, scope, node, algorithm>>
    warned,    \* the lines warned about
    subject,   \* the card and System resolved for
    keys,      \* ResolvedNodeKeys: the key under <<node, algorithm>>
    request, derived, outcome

vars == <<file, pos, index, loaded, store, warned, subject, keys, request, derived, outcome>>

-----------------------------------------------------------------------------
\* parse_record and parse_node_key: a line has a form and, if that is json, the
\* fields; the algorithm's case is ignored, the key's length is not.
Algorithm(algo) == CASE algo \in {"DES", "des"} -> "Des" [] algo \in {"AES", "aes"} -> "Aes128" [] OTHER -> None

parse_record(line) ==
    /\ line.form = "json"
    /\ line.system \in Systems /\ line.node \in 0..65535
    /\ line.idm \in Cards \cup {None}
    /\ Algorithm(line.algo) # None
    /\ line.len = IF Algorithm(line.algo) = "Des" THEN 8 ELSE 16

Scope(line) == IF line.idm = None THEN SHARED ELSE line.idm

KeyId(line) == <<line.system, Scope(line), line.node, Algorithm(line.algo)>>
KeyOf(line) == <<Algorithm(line.algo), line.key>>

Init ==
    /\ file \in Files /\ pos = 0 /\ index = 0 /\ loaded = FALSE
    /\ store = <<>> /\ warned = {}
    /\ subject = None /\ keys = None
    /\ request = None /\ derived = None /\ outcome = None

\* lines(): a line is taken from the reader unless the reader fails.
Takes(line) == line.form # "unreadable"

\* One round of from_jsonl_reader: a line that cannot be read or parsed is skipped
\* with a warning, a blank one without.
ReadLine ==
    /\ ~loaded /\ pos < Len(file)
    /\ LET line == file[pos + 1]
           good == parse_record(line)
       IN /\ pos' = IF Takes(line) THEN pos + 1 ELSE pos
          /\ store' = IF good THEN KeyId(line) :> KeyOf(line) @@ store ELSE store
          /\ warned' = IF good \/ line.form = "blank" THEN warned ELSE warned \cup {index}
    /\ index' = (index + 1) % IndexRange
    /\ UNCHANGED <<file, loaded, subject, keys, request, derived, outcome>>

ReadEnd ==
    /\ ~loaded /\ pos = Len(file)
    /\ loaded' = TRUE
    /\ UNCHANGED <<file, pos, index, store, warned, subject, keys, request, derived, outcome>>

-----------------------------------------------------------------------------
\* The keys of one scope of a System, under <<node, algorithm>>.
Scoped(system, scope) ==
    LET ids == {id \in DOMAIN store : id[1] = system /\ id[2] = scope}
    IN [n \in {<<id[3], id[4]>> : id \in ids} |-> store[<<system, scope>> \o n]]

Merged(system, card) == Scoped(system, card) @@ Scoped(system, SHARED)

\* KeyStore::resolve.
Resolve(system, card) ==
    /\ loaded
    /\ subject' = [system |-> system, card |-> card]
    /\ keys' = IF DOMAIN Merged(system, card) = {} THEN None ELSE Merged(system, card)
    /\ request' = None /\ derived' = None /\ outcome' = None
    /\ UNCHANGED <<file, pos, index, loaded, store, warned>>

\* get_by_algorithm and get, which prefers AES.
Get(node, algorithm) == IF <<node, algorithm>> \in DOMAIN keys THEN keys[<<node, algorithm>>] ELSE None
Preferred(node) == IF Get(node, "Aes128") # None THEN "Aes128" ELSE IF Get(node, "Des") # None THEN "Des" ELSE None

\* is_key_free_service: an attribute of table 3-2, with the low bit set.
IsKeyFree(code) == code % 64 \in 8..23 /\ code % 2 = 1
Contributing(services) == SelectSeq(services, LAMBDA s : ~IsKeyFree(s))

Refused(kind) == [kind |-> kind, group |-> <<>>, user |-> <<>>]

\* require_des and require_aes in turn: the error is that of the first Node that fails.
Failure(nodes, algorithm) ==
    LET missing == {i \in DOMAIN nodes : Get(nodes[i], algorithm) = None}
    IN IF missing = {} THEN None
       ELSE IF Preferred(nodes[Min(missing)]) # None THEN "MixedAlgorithm" ELSE "MissingKey"
Chain(nodes, algorithm) == [i \in DOMAIN nodes |-> Get(nodes[i], algorithm)]

GroupNodes(areas) == <<SYSTEM_SERVICE_CODE>> \o areas

derive_des(areas, services) ==
    LET group == GroupNodes(areas)
        user == group \o Contributing(services)
    IN IF areas = <<>> THEN Refused("DesRequiresArea")
       ELSE IF Contributing(services) = <<>> THEN Refused("DesRequiresService")
       ELSE IF Failure(user, "Des") # None THEN Refused(Failure(user, "Des"))
       ELSE [kind |-> "Des", group |-> Chain(group, "Des"), user |-> Chain(user, "Des")]

derive_aes128(areas, services) ==
    LET nodes == areas \o services
    IN IF Failure(nodes, "Aes128") # None THEN Refused(Failure(nodes, "Aes128"))
       ELSE IF nodes = <<>> THEN Refused("EmptyChain")
       ELSE [kind |-> "Aes128", group |-> Chain(nodes, "Aes128"), user |-> <<>>]

\* Mutant: the last Service names the scheme, key-free or not.
Target_last(areas, services) ==
    IF services # <<>> THEN Last(services) ELSE IF areas # <<>> THEN Last(areas) ELSE None

\* chain_algorithm: the Node that names the scheme.
Target(areas, services) ==
    CASE Contributing(services) # <<>> -> Last(Contributing(services))
      [] services # <<>> -> Last(services)
      [] areas # <<>> -> Last(areas)
      [] OTHER -> None

SchemeOf(r) ==
    LET target == Target(r.areas, r.services)
    IN CASE r.scheme # None -> r.scheme
         [] target = None -> "EmptyChain"
         [] OTHER -> IF Preferred(target) = None THEN "MissingKey" ELSE Preferred(target)

\* derive_auth_keys, and derive_auth_keys_with_scheme where r names one.
derive_auth_keys(r) ==
    CASE SchemeOf(r) = "Des" /\ r.individual -> Refused("IndividualKeyNotApplicable")
      [] SchemeOf(r) = "Des" -> derive_des(r.areas, r.services)
      [] SchemeOf(r) = "Aes128" -> derive_aes128(r.areas, r.services)
      [] OTHER -> Refused(SchemeOf(r))

-----------------------------------------------------------------------------
\* The card: resolve_service_list_node and the two list checks.
CardFree == {s \in Services : s % 2 = 1}
CardKeyed == {SYSTEM_SERVICE_CODE} \cup Areas \cup (Services \ CardFree)

CardAccepts(areas, services) ==
    /\ areas # <<>> /\ areas[1] \in Areas
    /\ ToSet(areas) \subseteq Areas \cup {SYSTEM_SERVICE_CODE}
    /\ ToSet(services) \subseteq CardKeyed \cup CardFree
    /\ \E i \in DOMAIN services : services[i] \in CardKeyed
    /\ \A i, j \in DOMAIN services : i < j /\ services[j] \in CardKeyed => services[i] \in CardKeyed

\* handle_authentication1: the keys the card derives.
CardChain(card, nodes) == [i \in DOMAIN nodes |-> CardKey[card][nodes[i]]]
CardGroup(card, r) == CardChain(card, <<SYSTEM_SERVICE_CODE>> \o r.areas)
CardUser(card, r) == CardGroup(card, r) \o CardChain(card, SelectSeq(r.services, LAMBDA s : s \in CardKeyed))

\* authenticate_node to the emulated card of the subject; it has no AES.
Outcome(r, d) ==
    CASE d.kind \notin {"Des", "Aes128"} -> "InvalidParameter"
      [] d.kind = "Aes128" \/ ~CardAccepts(r.areas, r.services) -> "Silent"
      [] d.group = CardGroup(subject.card, r) /\ d.user = CardUser(subject.card, r) -> "Authenticated"
      [] OTHER -> "AuthenticationFailed"

Authenticate(r) ==
    /\ keys # None
    /\ request' = r
    /\ derived' = derive_auth_keys(r)
    /\ outcome' = Outcome(r, derive_auth_keys(r))
    /\ UNCHANGED <<file, pos, index, loaded, store, warned, subject, keys>>

Next ==
    \/ ReadLine
    \/ ReadEnd
    \/ \E system \in Systems, card \in Cards : Resolve(system, card)
    \/ \E r \in Requests : Authenticate(r)

\* The loop of from_jsonl_reader goes on until the reader has no more lines.
Spec == Init /\ [][Next]_vars /\ WF_vars(ReadLine) /\ WF_vars(ReadEnd)

-----------------------------------------------------------------------------
\* The states: what is stored has the algorithm it is stored under, and every line
\* gone by has left a key or a warning (from_jsonl_reader).
TypeOK ==
    /\ pos \in 0..Len(file) /\ index \in 0..(IndexRange - 1)
    /\ \A id \in DOMAIN store : id[1] \in Systems /\ id[2] \in Cards \cup {SHARED} /\ store[id][1] = id[4]
    /\ \A i \in 1..pos : file[i].form = "blank" \/ (i - 1) \in warned \/ KeyId(file[i]) \in DOMAIN store
    /\ keys # None => loaded /\ subject # None

\* The lines of the file that give a key for a Node to one scope.
Giving(scope, id) ==
    {i \in DOMAIN file : parse_record(file[i]) /\ KeyId(file[i]) = <<subject.system, scope>> \o id}

\* Of several keys for a Node and an algorithm the last one for the card counts, and
\* the last shared one if the card has none; another card's or System's never does
\* (KeyStore::resolve, from_jsonl_reader).
ResolvedIsLatest ==
    subject # None =>
        \A node \in Areas \cup Services \cup {SYSTEM_SERVICE_CODE}, algorithm \in {"Des", "Aes128"} :
            LET id == <<node, algorithm>>
                own == Giving(subject.card, id)
                shared == Giving(SHARED, id)
                key == IF keys = None \/ id \notin DOMAIN keys THEN None ELSE keys[id]
            IN key = IF own # {} THEN KeyOf(file[Max(own)])
                     ELSE IF shared # {} THEN KeyOf(file[Max(shared)]) ELSE None

\* The reader derives from a request what the card derives from it: where the card
\* accepts the lists and the keys held for the Nodes that count are the card's, the
\* authentication succeeds, and with one wrong key it does not (derive_des,
\* handle_authentication1).
ReaderAndCardAgree ==
    derived # None /\ derived.kind = "Des" /\ CardAccepts(request.areas, request.services) =>
        LET counting == {SYSTEM_SERVICE_CODE} \cup ToSet(request.areas) \cup (ToSet(request.services) \cap CardKeyed)
        IN outcome = "Authenticated" <=> \A n \in counting : Get(n, "Des") = CardKey[subject.card][n]

\* A request the keys suffice for is served: the key of a key-free Service is never
\* missed, in whatever place it is listed (chain_algorithm).
EnoughKeysServe ==
    derived # None /\ request.scheme = None /\ ~request.individual /\ CardAccepts(request.areas, request.services) =>
        LET counting == {SYSTEM_SERVICE_CODE} \cup ToSet(request.areas) \cup (ToSet(request.services) \cap CardKeyed)
        IN (\A n \in counting : Preferred(n) = "Des") => derived.kind = "Des"

\* A chain has a key for every Node that counts and all of one algorithm
\* (require_des, require_aes).
OneAlgorithm ==
    derived # None => \A k \in ToSet(derived.group \o derived.user) : k # None /\ k[1] = derived.kind

\* Loading ends, whatever the lines hold (from_jsonl_reader).
LoadEnds == <>loaded
=============================================================================
