---------------------------- MODULE EmulatedCard ----------------------------
(***************************************************************************)
(* The in-memory FeliCa Standard card of felica_standard/emulator: several *)
(* Systems, the Mode machine of table 4-1, DES mutual authentication and   *)
(* the replay counter of secure messaging.                                 *)
(*                                                                         *)
(* Block contents are left to module BlockStore; here a read or a write is *)
(* the set of Services it reaches.  Cryptography is symbolic: random_2 is  *)
(* a number the card never draws twice and a frame opens under exactly the *)
(* key it was closed with.                                                 *)
(***************************************************************************)
EXTENDS Naturals, Sequences, FiniteSets

CONSTANTS
    NSys,           \* number of EmulatedSystem values the host can add
    SystemCode,     \* SystemCode[i] = <<high byte, low byte>> of System i
    RequestCodes,   \* the system codes that commands and host calls name
    Wild,           \* the byte FFh, a wildcard in a Polling request
    SystemNode,     \* the node code FFFFh
    Areas,          \* Areas[i]: the area codes in the tree of System i
    KeyedServices,  \* KeyedServices[i]: its services that require a key
    FreeServices,   \* FreeServices[i]: its authentication-free services
    AreaLists,      \* area lists an Authentication1 can carry
    ServiceLists,   \* service lists an Authentication1 can carry
    Elements,       \* block elements of a secure frame: <<list index, fits>>
    Random1,        \* values of random_1: <<bytes 0-1, bytes 2-7>>
    MaxTransaction, \* the largest transaction number, u16::MAX in the code
    MaxAuth,        \* bound: how many times the card draws random_2
    None            \* the Option::None of pending_auth and secure_session

System == 1..NSys
Key == 1..MaxAuth
Number == 0..MaxTransaction

\* The six bytes of random_1 that become the transaction ID.
TransactionId(random1) == random1[2]
Id == {TransactionId(r) : r \in Random1}

Pending == [random1 : Random1, random2 : Key, services : ServiceLists]
Entry == [key : Key, number : Number]
Session == [number : Number, id : Id, key : Key, services : ServiceLists]

ASSUME SystemAssumption == NSys \in Nat \ {0} /\ DOMAIN SystemCode = System
ASSUME BoundAssumption == MaxTransaction \in Nat /\ MaxAuth \in Nat
ASSUME TreeAssumption ==
    \A i \in System : SystemNode \notin Areas[i] \cup KeyedServices[i] \cup FreeServices[i]
ASSUME NoneAssumption ==
    None \notin Pending /\ None \notin Session /\ \A i \in System : None # SystemCode[i]

VARIABLES
    count,      \* how many Systems the host has added (systems.len())
    active,     \* active_system: the code of the selected System, or None
    mode,       \* mode[i]: SystemMode of System i
    pending,    \* pending[i]: PendingAuthentication of System i, or None
    session,    \* session[i]: SecureSession of System i, or None
    reply,      \* what the last step returned
    drawn,      \* how many values of random_2 have been drawn
    executed    \* history: the secure commands that ran, in order

cardVars == <<count, active, mode, pending, session, reply, drawn, executed>>

-----------------------------------------------------------------------------
(* Replies.  `system' is the System that answered, `touched' the Services   *)
(* whose blocks the command reached.                                        *)

Kinds == {"host", "silent", "polling", "info", "plain", "reset",
          "challenge", "session", "secure"}
Service(i) == KeyedServices[i] \cup FreeServices[i]
Reply(kind, i, touched) == [kind |-> kind, system |-> i, touched |-> touched]
Silent == Reply("silent", 0, {})

Init ==
    /\ count = 0
    /\ active = None
    /\ mode = [i \in System |-> 0]
    /\ pending = [i \in System |-> None]
    /\ session = [i \in System |-> None]
    /\ reply = Reply("host", 0, {})
    /\ drawn = 0
    /\ executed = <<>>

-----------------------------------------------------------------------------
(* Operations of the host that owns the emulator                            *)

\* add_system: the first System added becomes active.
AddSystem ==
    /\ count < NSys
    /\ count' = count + 1
    /\ active' = IF active = None THEN SystemCode[count + 1] ELSE active
    /\ reply' = Reply("host", 0, {})
    /\ UNCHANGED <<mode, pending, session, drawn, executed>>

\* The Mode, the pending authentication and the session of the Systems in S
\* are dropped (reset_mode).
ResetModes(S) ==
    /\ mode' = [i \in System |-> IF i \in S THEN 0 ELSE mode[i]]
    /\ pending' = [i \in System |-> IF i \in S THEN None ELSE pending[i]]
    /\ session' = [i \in System |-> IF i \in S THEN None ELSE session[i]]

\* i is the first System of S in insertion order (Iterator::position).
First(i, S) == i \in S /\ \A j \in S : i <= j

\* The Systems with this code; nothing keeps the host from adding two.
WithCode(code) == {i \in 1..count : SystemCode[i] = code}

\* Mutant: the host's selection does not reset the System.
SetActiveSystemKeeps(code) ==
    /\ reply' = Reply("host", 0, {})
    /\ active' = IF WithCode(code) = {} THEN active ELSE code
    /\ UNCHANGED <<count, mode, pending, session, drawn, executed>>

\* set_active_system: an unknown code changes nothing.
SetActiveSystem(code) ==
    /\ reply' = Reply("host", 0, {})
    /\ \/ \E i \in System : First(i, WithCode(code)) /\ ResetModes({i}) /\ active' = code
       \/ /\ WithCode(code) = {}
          /\ UNCHANGED <<mode, pending, session, active>>
    /\ UNCHANGED <<count, drawn, executed>>

\* Mutant: only the System that becomes active is reset.
PowerOffFirst ==
    /\ ResetModes({1})
    /\ active' = IF count = 0 THEN None ELSE SystemCode[1]
    /\ reply' = Reply("host", 0, {})
    /\ UNCHANGED <<count, drawn, executed>>

\* power_off
PowerOff ==
    /\ ResetModes(1..count)
    /\ active' = IF count = 0 THEN None ELSE SystemCode[1]
    /\ reply' = Reply("host", 0, {})
    /\ UNCHANGED <<count, drawn, executed>>

-----------------------------------------------------------------------------
(* Polling                                                                  *)

\* Mutant: plain commands are served in every Mode.
ModePermitsPlain(m, requirement) ==
    CASE requirement \in {"AnyMode", "Unauthenticated"} -> TRUE
      [] requirement = "AuthenticationStarted" -> m \in {1, 2}
      [] requirement = "Authenticated" -> m = 2
      [] requirement = "Issuing" -> m \in {2, 3}

\* mode_permits, for the requirements of table 4-1.
ModePermits(m, requirement) ==
    CASE requirement = "AnyMode" -> TRUE
      [] requirement = "Unauthenticated" -> m = 0
      [] requirement = "AuthenticationStarted" -> m \in {1, 2}
      [] requirement = "Authenticated" -> m = 2
      [] requirement = "Issuing" -> m \in {2, 3}

MatchesByte(request, byte) == request = Wild \/ request = byte

\* matches_system_code
MatchesSystemCode(request, code) ==
    MatchesByte(request[1], code[1]) /\ MatchesByte(request[2], code[2])

\* The candidates of polling_target_index.
PollingTargets(request) == {i \in 1..count : MatchesSystemCode(request, SystemCode[i])}

\* system_index_for_polling and the Polling arm of handle_command (also
\* polling_response): the lowest matching System answers; the current one only
\* in Mode 0, another one after it has been reset and made active.
Polling(request) ==
    /\ \/ \E i \in System :
            /\ First(i, PollingTargets(request))
            /\ \/ /\ active = SystemCode[i]
                  /\ ModePermits(mode[i], "Unauthenticated")
                  /\ UNCHANGED <<active, mode, pending, session>>
               \/ /\ active # SystemCode[i]
                  /\ ResetModes({i})
                  /\ active' = SystemCode[i]
            /\ reply' = Reply("polling", i, {})
       \/ /\ \A i \in System : First(i, PollingTargets(request)) =>
               active = SystemCode[i] /\ ~ModePermits(mode[i], "Unauthenticated")
          /\ reply' = Silent
          /\ UNCHANGED <<active, mode, pending, session>>
    /\ UNCHANGED <<count, drawn, executed>>

-----------------------------------------------------------------------------
(* Commands that carry the IDm of System i                                  *)

\* Mutant: a System selected by IDm is not reset.
KeptAlways(i, value, reset) == value

\* system_index_for_idm selects System i before the command looks at it: a
\* System that was not active is reset, whether or not the command then runs.
Kept(i, value, reset) == IF active = SystemCode[i] THEN value ELSE reset
ModeOf(i) == Kept(i, mode[i], 0)
PendingOf(i) == Kept(i, pending[i], None)
SessionOf(i) == Kept(i, session[i], None)

\* The state after a command addressed to System i that leaves it with Mode m,
\* pending authentication p and session s.
Settle(i, m, p, s) ==
    /\ i <= count
    /\ active' = SystemCode[i]
    /\ mode' = [mode EXCEPT ![i] = m]
    /\ pending' = [pending EXCEPT ![i] = p]
    /\ session' = [session EXCEPT ![i] = s]
    /\ UNCHANGED <<count, executed>>

\* A command that selects System i and does nothing more to it.
SelectOnly(i) == Settle(i, ModeOf(i), PendingOf(i), SessionOf(i)) /\ UNCHANGED drawn

\* Request Response, Request System Code, Search Service Code, Request Service
\* and Request Block Information: answered in every Mode, and read only.
Inquiry(i) == SelectOnly(i) /\ reply' = Reply("info", i, {})

\* Read and Write Without Encryption name a node of their own list; `fits' says
\* that the checks below the Service's attribute (module BlockStore) succeed.
PlainAccess(i, node, fits) ==
    /\ SelectOnly(i)
    /\ reply' = IF ~ModePermits(ModeOf(i), "Unauthenticated")
                THEN Silent
                ELSE Reply("plain", i, IF node \in FreeServices[i] /\ fits THEN {node} ELSE {})

\* Reset Mode
ResetMode(i) ==
    /\ Settle(i, 0, None, None)
    /\ reply' = Reply("reset", i, {})
    /\ UNCHANGED drawn

\* area_list_well_formed
AreaListWellFormed(i, areas) ==
    /\ areas # <<>>
    /\ areas[1] \in Areas[i]
    /\ \A n \in DOMAIN areas : areas[n] \in Areas[i] \cup {SystemNode}

\* resolve_service_list_node: the entries that take part in key derivation.
KeyedNodes(i) == {SystemNode} \cup KeyedServices[i] \cup Areas[i]

\* service_list_well_formed: every entry exists, one of them is keyed, and no
\* keyed entry comes after a key-free one.
ServiceListWellFormed(i, services) ==
    /\ \A n \in DOMAIN services : services[n] \in KeyedNodes(i) \cup FreeServices[i]
    /\ \E n \in DOMAIN services : services[n] \in KeyedNodes(i)
    /\ \A m, n \in DOMAIN services :
         m < n /\ services[n] \in KeyedNodes(i) => services[m] \in KeyedNodes(i)

\* handle_authentication1: a malformed list is ignored; otherwise a fresh
\* random_2 replaces any pending authentication and ends any session.
Authentication1(i, areas, services, random1) ==
    IF AreaListWellFormed(i, areas) /\ ServiceListWellFormed(i, services)
    THEN /\ drawn < MaxAuth
         /\ drawn' = drawn + 1
         /\ Settle(i, 1, [random1 |-> random1, random2 |-> drawn + 1, services |-> services], None)
         /\ reply' = Reply("challenge", i, {})
    ELSE SelectOnly(i) /\ reply' = Silent

\* Mutant: a repeated Authentication2 restarts the counter.
RestartedNumber(s, id) == 0

\* The transaction number Authentication2 starts from: a repeat re-establishes
\* the same session, so its counter carries over.
CarriedNumber(s, id) == IF s # None /\ s.id = id THEN s.number ELSE 0

\* Mutant: a wrong proof aborts the authentication.
Authentication2Aborts(i, proof) ==
    LET p == PendingOf(i) IN
    IF ModePermits(ModeOf(i), "AuthenticationStarted") /\ p # None
    THEN /\ Settle(i, 0, None, None)
         /\ reply' = Silent
         /\ UNCHANGED drawn
    ELSE SelectOnly(i) /\ reply' = Silent

\* handle_authentication2: `proof' is the random_2 the reader's challenge 2b
\* was computed from.
Authentication2(i, proof) ==
    LET p == PendingOf(i) IN
    IF ModePermits(ModeOf(i), "AuthenticationStarted") /\ p # None /\ p.random2 = proof
    THEN LET id == TransactionId(p.random1) IN
         /\ Settle(i, 2, p, [number |-> CarriedNumber(SessionOf(i), id), id |-> id,
                             key |-> p.random2, services |-> p.services])
         /\ reply' = Reply("session", i, {})
         /\ UNCHANGED drawn
    ELSE SelectOnly(i) /\ reply' = Silent

-----------------------------------------------------------------------------
(* Secure frames: routed to the active System, whatever IDm is in the field *)

\* A frame closed under `key'.  Its block element is <<index, fits>>: a 0-based
\* position in the authenticated list, and `fits' as in PlainAccess.
Commands == {"read", "write", "register", "undecodable"}
Frame == [key : Key, id : Id, number : Number, command : Commands,
          element : Elements]

Requirement(f) == IF f.command = "register" THEN "Issuing" ELSE "Authenticated"

\* Mutant: the number of the answer may overflow.
AcceptsOverflow(i, f) ==
    /\ ModePermits(mode[i], Requirement(f))
    /\ session[i] # None
    /\ f.key = session[i].key
    /\ f.id = session[i].id
    /\ f.number > session[i].number
    /\ f.command # "undecodable"

\* Every early return of EmulatedSystem::handle_secure_frame, negated: Mode,
\* session, MAC, transaction ID, replay counter, u16 overflow, parsing.
AcceptsFrame(i, f) ==
    /\ ModePermits(mode[i], Requirement(f))
    /\ session[i] # None
    /\ f.key = session[i].key
    /\ f.id = session[i].id
    /\ f.number > session[i].number
    /\ f.number + 1 <= MaxTransaction
    /\ f.command # "undecodable"

\* validate_block_element for one element of a secure read or write, as far as
\* the session decides it: the index must lie in the authenticated list and
\* name a Service (A3h, A4h, A6h).
Reached(i, f) ==
    {node \in Service(i) :
        /\ f.command \in {"read", "write"}
        /\ f.element[1] + 1 \in DOMAIN session[i].services
        /\ node = session[i].services[f.element[1] + 1]
        /\ f.element[2]}

\* Mutant: register commands succeed.
RegisterSucceeds == 0

\* Status flag 1 of every register command: issuing is disabled (FFh/C2h).
RegisterStatus == 255

\* handle_secure_frame of the card and of the System it routes to.
SecureFrame(f) ==
    /\ \/ \E i \in System :
            /\ First(i, WithCode(active))
            /\ AcceptsFrame(i, f)
            /\ reply' = Reply("secure", i, Reached(i, f))
            /\ mode' = IF f.command = "register" /\ RegisterStatus = 0
                       THEN [mode EXCEPT ![i] = 3] ELSE mode
            /\ session' = [session EXCEPT ![i] = [@ EXCEPT !.number = f.number + 1]]
            /\ executed' = Append(executed, [key |-> f.key, number |-> f.number])
       \/ /\ \A i \in System : First(i, WithCode(active)) => ~AcceptsFrame(i, f)
          /\ reply' = Silent
          /\ UNCHANGED <<mode, session, executed>>
    /\ UNCHANGED <<count, active, pending, drawn>>

-----------------------------------------------------------------------------
HostOperation ==
    AddSystem \/ PowerOff \/ \E code \in RequestCodes : SetActiveSystem(code)

Addressed(i) ==
    \/ Inquiry(i)
    \/ \E node \in Service(i), fits \in BOOLEAN : PlainAccess(i, node, fits)
    \/ ResetMode(i)
    \/ \E areas \in AreaLists, services \in ServiceLists, random1 \in Random1 :
         Authentication1(i, areas, services, random1)
    \/ \E proof \in Key : Authentication2(i, proof)

Next ==
    \/ HostOperation
    \/ \E request \in RequestCodes : Polling(request)
    \/ \E i \in System : Addressed(i)
    \/ \E f \in Frame : SecureFrame(f)

Spec == Init /\ [][Next]_cardVars
-----------------------------------------------------------------------------
(* Properties                                                               *)

\* Type correctness of the emulator's fields and of the history.
TypeOK ==
    /\ count \in 0..NSys
    /\ active \in IF count = 0 THEN {None} ELSE {SystemCode[i] : i \in 1..count}
    /\ mode \in [System -> 0..3]
    /\ pending \in [System -> Pending \cup {None}]
    /\ session \in [System -> Session \cup {None}]
    /\ reply \in [kind : Kinds, system : 0..NSys, touched : SUBSET UNION {Service(i) : i \in System}]
    /\ drawn \in 0..MaxAuth
    /\ executed \in Seq(Entry)

\* The Mode a System reports and its secrets never disagree: Mode 0 holds
\* neither a pending authentication nor a session, Mode 1 holds only the former,
\* Mode 2 holds a session that is exactly the one the pending authentication
\* would establish.  The issuing Mode 3 is never entered, since every register
\* command is answered FFh/C2h.
ModeConsistent ==
    \A i \in System :
        /\ mode[i] # 3
        /\ mode[i] = 0 <=> pending[i] = None
        /\ mode[i] = 2 <=> session[i] # None
        /\ mode[i] = 2 =>
             /\ session[i].key = pending[i].random2
             /\ session[i].id = TransactionId(pending[i].random1)
             /\ session[i].services = pending[i].services

\* No secure command runs twice.  Under one session key the numbers of the
\* commands that ran increase, and skip the number of each answer, however
\* Authentication2 is repeated, Systems are switched and frames are replayed.
NoReplay ==
    \A m, n \in DOMAIN executed :
        m < n /\ executed[m].key = executed[n].key =>
            executed[m].number + 1 < executed[n].number

\* A block of a keyed Service is reached only by a secure command on the active
\* System, in Mode 2, through the list its Authentication1 named; a plain
\* command reaches authentication-free Services and leaves the System in Mode 0.
AccessAuthorised ==
    reply.touched # {} =>
        LET i == reply.system IN
        /\ active = SystemCode[i]
        /\ \/ reply.kind = "plain" /\ mode[i] = 0 /\ reply.touched \subseteq FreeServices[i]
           \/ /\ reply.kind = "secure" /\ mode[i] = 2
              /\ \A node \in reply.touched :
                    \E n \in DOMAIN pending[i].services : pending[i].services[n] = node

\* Selecting another System never revives a session: the System that becomes
\* active, by IDm, Polling, host call or loss of power, has none in that step.
SwitchDropsSession ==
    [][active' # active =>
         \A i \in System : SystemCode[i] = active' => session'[i] = None]_cardVars

\* A command the card ignores is as if it had never been sent, unless it
\* selected another System: the pending authentication, the session and its
\* counter survive bad proofs, malformed lists, forged and replayed frames.
IgnoredIsHarmless ==
    [][reply' = Silent /\ active' = active =>
         UNCHANGED <<count, mode, pending, session, drawn, executed>>]_cardVars

\* The codes of the card's Systems identify them (needed where the code finds a
\* System by its code and means the one that was selected).
DistinctCodes == \A i, j \in System : SystemCode[i] = SystemCode[j] => i = j

\* The card implements table 4-1.
Current == IF active = None THEN 0 ELSE CHOOSE i \in System : First(i, WithCode(active))
Served == IF reply.kind \in {"plain", "secure"} THEN reply.kind ELSE "other"
Table41 == INSTANCE CardModes WITH current <- Current, served <- Served
ImplementsTable41 == Table41!Spec
=============================================================================
