----------------------- MODULE SecureMessaging_proofs -----------------------
(***************************************************************************)
(* Proofs about modules EmulatedCard, EmulatorHost and SecureMessaging.    *)
(* First the card and its host, for every number of Systems, every         *)
(* file-system tree, every width of the transaction number and any number  *)
(* of authentications and sessions; then every reader and every card on a  *)
(* link that loses, delays, duplicates and reorders frames.                *)
(***************************************************************************)
EXTENDS SecureMessaging, EmulatorHost, SequenceTheorems, TLAPS

-----------------------------------------------------------------------------
(* The card and its host                                                    *)

\* The state part of TypeOK: what commands addressed to a System change.
TypeState ==
    /\ count \in 0..NSys
    /\ active \in IF count = 0 THEN {None} ELSE {SystemCode[i] : i \in 1..count}
    /\ mode \in [System -> 0..3]
    /\ pending \in [System -> Pending \cup {None}]
    /\ session \in [System -> Session \cup {None}]
    /\ drawn \in 0..MaxAuth
    /\ executed \in Seq(Entry)

\* The reply part of TypeOK.
Replies == [kind : Kinds, system : 0..NSys, touched : SUBSET UNION {Service(i) : i \in System}]
ReplyOK == reply \in Replies

\* The value a selected System keeps is one it had, or the reset value.
LEMMA KeptTypes ==
    ASSUME TypeState, NEW i \in System
    PROVE  /\ ModeOf(i) \in 0..3
           /\ PendingOf(i) \in Pending \cup {None}
           /\ SessionOf(i) \in Session \cup {None}
BY DEF TypeState, ModeOf, PendingOf, SessionOf, Kept

\* A command addressed to a System stores well-typed values.
LEMMA SettleTypes ==
    ASSUME TypeState, NEW i \in System, NEW m \in 0..3,
           NEW p \in Pending \cup {None}, NEW s \in Session \cup {None},
           Settle(i, m, p, s), drawn' \in 0..MaxAuth
    PROVE  TypeState'
BY SystemAssumption DEF TypeState, Settle, System

\* Selecting a System is well typed.
LEMMA SelectTypes ==
    ASSUME TypeState, NEW i \in System, SelectOnly(i)
    PROVE  TypeState'
<1>1. drawn' \in 0..MaxAuth
  BY DEF SelectOnly, TypeState
<1> QED
  BY <1>1, KeptTypes, SettleTypes DEF SelectOnly

\* Dropping Modes and sessions is well typed.
LEMMA ResetTypes ==
    ASSUME TypeState, NEW S, ResetModes(S)
    PROVE  /\ mode' \in [System -> 0..3]
           /\ pending' \in [System -> Pending \cup {None}]
           /\ session' \in [System -> Session \cup {None}]
BY DEF TypeState, ResetModes

\* Every step keeps the typed part of the state.
LEMMA StepTypes ==
    ASSUME TypeState, [Next]_cardVars
    PROVE  TypeState'
<1>1. CASE AddSystem
  BY <1>1, SystemAssumption DEF AddSystem, TypeState, System
<1>2. CASE PowerOff
  <2>1. active' \in IF count' = 0 THEN {None} ELSE {SystemCode[i] : i \in 1..count'}
    BY <1>2 DEF PowerOff, TypeState
  <2> QED
    BY <1>2, <2>1, ResetTypes DEF PowerOff, TypeState
<1>3. ASSUME NEW code \in RequestCodes, SetActiveSystem(code)
      PROVE  TypeState'
  <2>1. CASE \E i \in System : First(i, WithCode(code)) /\ ResetModes({i}) /\ active' = code
    BY <1>3, <2>1, ResetTypes DEF SetActiveSystem, TypeState, First, WithCode
  <2>2. CASE UNCHANGED <<mode, pending, session, active>>
    BY <1>3, <2>2 DEF SetActiveSystem, TypeState
  <2> QED
    BY <1>3, <2>1, <2>2 DEF SetActiveSystem
<1>4. ASSUME NEW request \in RequestCodes, Polling(request)
      PROVE  TypeState'
  <2>1. CASE UNCHANGED <<active, mode, pending, session>>
    BY <1>4, <2>1 DEF Polling, TypeState
  <2>2. CASE \E i \in System : /\ First(i, PollingTargets(request))
                               /\ ResetModes({i})
                               /\ active' = SystemCode[i]
    BY <1>4, <2>2, ResetTypes DEF Polling, TypeState, First, PollingTargets
  <2> QED
    BY <1>4, <2>1, <2>2 DEF Polling
<1>5. ASSUME NEW i \in System, Addressed(i)
      PROVE  TypeState'
  <2>1. CASE SelectOnly(i)
    BY <2>1, SelectTypes
  <2>2. CASE ResetMode(i)
    <3>1. Settle(i, 0, None, None) /\ drawn' \in 0..MaxAuth
      BY <2>2 DEF ResetMode, TypeState
    <3> QED
      BY <3>1, SettleTypes
  <2>3. ASSUME NEW areas \in AreaLists, NEW services \in ServiceLists,
               NEW r1 \in Random1, Authentication1(i, areas, services, r1)
        PROVE  TypeState'
    <3>1. CASE SelectOnly(i)
      BY <3>1, SelectTypes
    <3>2. CASE ~SelectOnly(i)
      <4> DEFINE p == [random1 |-> r1, random2 |-> drawn + 1, services |-> services]
      <4>1. drawn' \in 0..MaxAuth /\ drawn + 1 \in Key
        BY <2>3, <3>2, BoundAssumption DEF Authentication1, TypeState, Key
      <4>2. p \in Pending
        BY <4>1 DEF Pending
      <4>3. Settle(i, 1, p, None)
        BY <2>3, <3>2 DEF Authentication1
      <4> QED
        BY <4>1, <4>2, <4>3, SettleTypes
    <3> QED
      BY <3>1, <3>2
  <2>4. ASSUME NEW proof \in Key, Authentication2(i, proof)
        PROVE  TypeState'
    <3>1. CASE SelectOnly(i)
      BY <3>1, SelectTypes
    <3>2. CASE ~SelectOnly(i)
      <4> DEFINE p == PendingOf(i)
                 id == TransactionId(p.random1)
                 s == [number |-> CarriedNumber(SessionOf(i), id), id |-> id,
                       key |-> p.random2, services |-> p.services]
      <4>1. Settle(i, 2, p, s) /\ p # None /\ drawn' = drawn
        BY <2>4, <3>2 DEF Authentication2
      <4>2. p \in Pending /\ SessionOf(i) \in Session \cup {None}
        BY <4>1, KeptTypes
      <4>3. CarriedNumber(SessionOf(i), id) \in Number
        BY <4>2, BoundAssumption DEF CarriedNumber, Session, Number
      <4>4. s \in Session
        BY <4>2, <4>3 DEF Session, Pending, Id
      <4>5. drawn' \in 0..MaxAuth
        BY <4>1 DEF TypeState
      <4> HIDE DEF p, s
      <4> QED
        BY <4>1, <4>2, <4>4, <4>5, SettleTypes
    <3> QED
      BY <3>1, <3>2
  <2> QED
    BY <1>5, <2>1, <2>2, <2>3, <2>4 DEF Addressed, Inquiry, PlainAccess
<1>6. ASSUME NEW f \in Frame, SecureFrame(f)
      PROVE  TypeState'
  <2>1. CASE UNCHANGED <<mode, session, executed>>
    BY <1>6, <2>1 DEF SecureFrame, TypeState
  <2>2. ASSUME NEW i \in System, AcceptsFrame(i, f),
               mode' = IF f.command = "register" /\ RegisterStatus = 0
                       THEN [mode EXCEPT ![i] = 3] ELSE mode,
               session' = [session EXCEPT ![i] = [@ EXCEPT !.number = f.number + 1]],
               executed' = Append(executed, [key |-> f.key, number |-> f.number])
        PROVE  TypeState'
    <3>1. session[i] \in Session /\ f.number + 1 \in Number
      BY <2>2, BoundAssumption DEF AcceptsFrame, TypeState, Frame, Number
    <3>2. [session[i] EXCEPT !.number = f.number + 1] \in Session
      BY <3>1 DEF Session
    <3>3. session' \in [System -> Session \cup {None}]
      BY <2>2, <3>2 DEF TypeState
    <3>4. executed' \in Seq(Entry)
      BY <2>2 DEF TypeState, Frame, Entry
    <3> QED
      BY <1>6, <2>2, <3>3, <3>4 DEF SecureFrame, TypeState
  <2> QED
    BY <1>6, <2>1, <2>2 DEF SecureFrame
<1>7. CASE UNCHANGED cardVars
  BY <1>7 DEF cardVars, TypeState
<1> QED
  BY <1>1, <1>2, <1>3, <1>4, <1>5, <1>6, <1>7 DEF Next, HostOperation

-----------------------------------------------------------------------------
(* The inductive invariant.  NoReplay needs to know where every session key  *)
(* lives: it was drawn, it belongs to one System only, and the commands that *)
(* ran under it are behind that System's counter.                            *)

KeysDrawn ==
    /\ \A i \in System : pending[i] # None => pending[i].random2 <= drawn
    /\ \A n \in DOMAIN executed : executed[n].key <= drawn

KeysDistinct ==
    \A i, j \in System :
        pending[i] # None /\ pending[j] # None /\ pending[i].random2 = pending[j].random2 => i = j

CounterAhead ==
    \A i \in System, n \in DOMAIN executed :
        pending[i] # None /\ executed[n].key = pending[i].random2 =>
            session[i] # None /\ executed[n].number < session[i].number

IInv == TypeState /\ ModeConsistent /\ KeysDrawn /\ KeysDistinct /\ CounterAhead /\ NoReplay

\* The numbers in the history and the keys of pending authentications.
LEMMA ValueTypes ==
    ASSUME TypeState
    PROVE  /\ Len(executed) \in Nat /\ DOMAIN executed = 1..Len(executed)
           /\ \A n \in DOMAIN executed : executed[n].key \in Nat /\ executed[n].number \in Nat
           /\ \A i \in System : pending[i] # None => pending[i].random2 \in Nat
<1>1. Len(executed) \in Nat /\ DOMAIN executed = 1..Len(executed)
  BY DEF TypeState
<1>2. \A n \in DOMAIN executed : executed[n] \in Entry
  BY <1>1, ElementOfSeq DEF TypeState
<1>3. Key \subseteq Nat /\ Number \subseteq Nat
  BY BoundAssumption DEF Key, Number
<1>4. \A n \in DOMAIN executed : executed[n].key \in Nat /\ executed[n].number \in Nat
  BY <1>2, <1>3 DEF Entry
<1>5. \A i \in System : pending[i] # None => pending[i] \in Pending
  BY DEF TypeState
<1>6. \A p \in Pending : p.random2 \in Nat
  BY <1>3 DEF Pending
<1> QED
  BY <1>1, <1>4, <1>5, <1>6

\* Dropping the Modes of some Systems, and nothing else, keeps the invariant.
LEMMA ResetKeeps ==
    ASSUME IInv, NEW S, ResetModes(S), TypeState', drawn' = drawn, executed' = executed
    PROVE  IInv'
<1>1. ModeConsistent'
  BY DEF IInv, ModeConsistent, ResetModes, TypeState
<1>2. KeysDrawn' /\ KeysDistinct' /\ CounterAhead' /\ NoReplay'
  BY DEF IInv, ResetModes, TypeState, KeysDrawn, KeysDistinct, CounterAhead, NoReplay
<1> QED
  BY <1>1, <1>2 DEF IInv

\* So does selecting a System: it is a reset, or changes nothing.
LEMMA SelectKeeps ==
    ASSUME IInv, NEW i \in System, SelectOnly(i)
    PROVE  IInv'
<1>0. TypeState'
  BY SelectTypes DEF IInv
<1>1. ResetModes(IF active = SystemCode[i] THEN {} ELSE {i})
  BY DEF SelectOnly, Settle, ResetModes, ModeOf, PendingOf, SessionOf, Kept, IInv, TypeState
<1>2. drawn' = drawn /\ executed' = executed
  BY DEF SelectOnly, Settle
<1> QED
  BY <1>0, <1>1, <1>2, ResetKeeps

\* Authentication1 draws a key nobody holds.
LEMMA Authentication1Keeps ==
    ASSUME IInv, TypeState', NEW i \in System, NEW areas \in AreaLists,
           NEW services \in ServiceLists, NEW r1 \in Random1,
           Authentication1(i, areas, services, r1)
    PROVE  IInv'
<1>1. CASE SelectOnly(i)
  BY <1>1, SelectKeeps
<1>2. CASE ~SelectOnly(i)
  <2> DEFINE p == [random1 |-> r1, random2 |-> drawn + 1, services |-> services]
  <2>1. Settle(i, 1, p, None) /\ drawn' = drawn + 1
    BY <1>2 DEF Authentication1
  <2>2. p # None /\ p.random2 = drawn + 1 /\ drawn \in Nat
    <3>1. p \in Pending
      BY <2>1, BoundAssumption DEF Pending, Key, IInv, TypeState
    <3> QED
      BY <3>1, NoneAssumption DEF IInv, TypeState
  <2> HIDE DEF p
  <2>3. /\ mode' = [mode EXCEPT ![i] = 1]
        /\ pending' = [pending EXCEPT ![i] = p]
        /\ session' = [session EXCEPT ![i] = None]
        /\ executed' = executed
    BY <2>1 DEF Settle
  <2>4. ModeConsistent'
    BY <2>2, <2>3 DEF IInv, ModeConsistent, TypeState
  <2>5. /\ \A j \in System : pending[j] # None => pending[j].random2 \in Nat
        /\ \A n \in DOMAIN executed : executed[n].key \in Nat
    BY ValueTypes DEF IInv
  <2>6. KeysDrawn'
    BY <2>1, <2>2, <2>3, <2>5 DEF IInv, KeysDrawn, TypeState
  <2>7. KeysDistinct'
    BY <2>2, <2>3, <2>5 DEF IInv, KeysDrawn, KeysDistinct, TypeState
  <2>8. CounterAhead'
    <3> SUFFICES ASSUME NEW j \in System, NEW n \in DOMAIN executed,
                        pending'[j] # None, executed[n].key = pending'[j].random2
                 PROVE  session'[j] # None /\ executed[n].number < session'[j].number
      BY <2>3 DEF CounterAhead
    <3>1. j # i
      <4>1. executed[n].key \in Nat /\ executed[n].key =< drawn
        BY <2>5 DEF IInv, KeysDrawn
      <4>2. j = i => executed[n].key = drawn + 1
        BY <2>2, <2>3 DEF IInv, TypeState
      <4> QED
        BY <2>2, <4>1, <4>2
    <3>2. pending'[j] = pending[j] /\ session'[j] = session[j]
      BY <2>3, <3>1 DEF IInv, TypeState
    <3> QED
      BY <3>2 DEF IInv, CounterAhead
  <2>9. NoReplay'
    BY <2>3 DEF IInv, NoReplay
  <2> QED
    BY <2>4, <2>6, <2>7, <2>8, <2>9 DEF IInv
<1> QED
  BY <1>1, <1>2

\* Authentication2 opens the session of the pending key, with the counter that
\* session already had.
LEMMA Authentication2Keeps ==
    ASSUME IInv, TypeState', NEW i \in System, NEW proof \in Key, Authentication2(i, proof)
    PROVE  IInv'
<1>1. CASE SelectOnly(i)
  BY <1>1, SelectKeeps
<1>2. CASE ~SelectOnly(i)
  <2> DEFINE p == PendingOf(i)
             id == TransactionId(p.random1)
             s == [number |-> CarriedNumber(SessionOf(i), id), id |-> id,
                   key |-> p.random2, services |-> p.services]
  <2>1. Settle(i, 2, p, s) /\ p # None /\ drawn' = drawn
    BY <1>2 DEF Authentication2
  <2>2. p = pending[i] /\ SessionOf(i) = session[i] /\ pending[i] \in Pending
    BY <2>1 DEF PendingOf, SessionOf, Kept, IInv, TypeState
  <2>3. session[i] # None => s.number = session[i].number
    BY <2>1, <2>2 DEF IInv, ModeConsistent, CarriedNumber
  <2>4. s # None /\ s.key = pending[i].random2 /\ s.id = TransactionId(pending[i].random1)
        /\ s.services = pending[i].services
    <3>1. session'[i] = s /\ session'[i] \in Session \cup {None}
      BY <2>1 DEF Settle, TypeState, IInv
    <3>2. CarriedNumber(SessionOf(i), id) \in Number
      BY <2>2, BoundAssumption DEF CarriedNumber, Number, IInv, TypeState, Session
    <3>3. s \in Session
      BY <2>2, <3>2 DEF Session, Pending, Id
    <3> QED
      BY <2>2, <3>3, NoneAssumption
  <2> HIDE DEF p, s, id
  <2>5. /\ mode' = [mode EXCEPT ![i] = 2]
        /\ pending' = pending
        /\ session' = [session EXCEPT ![i] = s]
        /\ executed' = executed
    BY <2>1, <2>2 DEF Settle, IInv, TypeState
  <2>6. ModeConsistent'
    BY <2>1, <2>2, <2>4, <2>5 DEF IInv, ModeConsistent, TypeState
  <2>7. KeysDrawn' /\ KeysDistinct' /\ NoReplay'
    BY <2>1, <2>5 DEF IInv, KeysDrawn, KeysDistinct, NoReplay
  <2>8. CounterAhead'
    BY <2>3, <2>4, <2>5 DEF IInv, CounterAhead, TypeState
  <2> QED
    BY <2>6, <2>7, <2>8 DEF IInv
<1> QED
  BY <1>1, <1>2

\* A secure frame that is accepted moves the counter past its own number.
LEMMA SecureFrameKeeps ==
    ASSUME IInv, TypeState', NEW f \in Frame, SecureFrame(f)
    PROVE  IInv'
<1>1. CASE UNCHANGED <<mode, session, executed>>
  BY <1>1 DEF SecureFrame, IInv, ModeConsistent, KeysDrawn, KeysDistinct, CounterAhead, NoReplay
<1>2. ASSUME NEW i \in System, AcceptsFrame(i, f),
             mode' = IF f.command = "register" /\ RegisterStatus = 0
                     THEN [mode EXCEPT ![i] = 3] ELSE mode,
             session' = [session EXCEPT ![i] = [@ EXCEPT !.number = f.number + 1]],
             executed' = Append(executed, [key |-> f.key, number |-> f.number])
      PROVE  IInv'
  <2> DEFINE e == [key |-> f.key, number |-> f.number]
             s == [session[i] EXCEPT !.number = f.number + 1]
             L == Len(executed)
  <2>1. /\ session[i] \in Session /\ session[i] # None
        /\ f.key = session[i].key /\ session[i].number < f.number
        /\ f.key \in Key /\ f.number \in Nat /\ session[i].number \in Nat
    BY <1>2 DEF AcceptsFrame, IInv, TypeState, Frame, Number, Session
  <2>2. /\ s # None /\ s.number = f.number + 1 /\ s.key = session[i].key
        /\ s.id = session[i].id /\ s.services = session[i].services
    <3>1. s.number = f.number + 1 /\ s.key = session[i].key
          /\ s.id = session[i].id /\ s.services = session[i].services
      BY <2>1 DEF Session
    <3>2. s = session'[i] /\ s \in Session
      <4>1. s = session'[i]
        BY <1>2 DEF IInv, TypeState
      <4>2. f.number + 1 \in Number
        BY <1>2, BoundAssumption DEF AcceptsFrame, Frame, Number
      <4> QED
        BY <4>1, <4>2, <2>1 DEF Session
    <3> QED
      BY <3>1, <3>2, NoneAssumption
  <2>3. /\ executed \in Seq(Entry) /\ L \in Nat
        /\ DOMAIN executed = 1..L /\ DOMAIN executed' = 1..(L + 1)
        /\ \A n \in 1..L : executed'[n] = executed[n]
        /\ executed'[L + 1] = e
        /\ \A n \in 1..L : executed[n].key \in Nat /\ executed[n].number \in Nat
    <3>1. executed \in Seq(Entry)
      BY DEF IInv, TypeState
    <3>2. L \in Nat /\ DOMAIN executed = 1..L
          /\ \A n \in 1..L : executed[n].key \in Nat /\ executed[n].number \in Nat
      BY ValueTypes DEF IInv
    <3>3. e \in Entry
      BY DEF Frame, Entry
    <3> HIDE DEF e
    <3>4. executed' = Append(executed, e)
      BY <1>2 DEF e
    <3> QED
      BY <3>1, <3>2, <3>3, <3>4, AppendProperties
  <2>4. mode' = mode /\ pending' = pending /\ drawn' = drawn
    BY <1>2, SecureFrame(f) DEF SecureFrame, RegisterStatus
  <2>5. session' = [session EXCEPT ![i] = s]
    BY <1>2
  <2>6. e.key = f.key /\ e.number = f.number
    OBVIOUS
  <2> HIDE DEF e, s, L
  <2>7. mode[i] = 2 /\ pending[i] # None /\ pending[i].random2 = f.key
    BY <2>1 DEF IInv, ModeConsistent
  <2>8. ModeConsistent'
    BY <2>2, <2>4, <2>5, <2>1 DEF IInv, ModeConsistent, TypeState
  <2>9. KeysDrawn' /\ KeysDistinct'
    <3>1. f.key <= drawn
      BY <2>7 DEF IInv, KeysDrawn
    <3> QED
      BY <3>1, <2>3, <2>4, <2>6 DEF IInv, KeysDrawn, KeysDistinct
  <2>10. \A n \in 1..L : executed[n].key = f.key => executed[n].number < session[i].number
    BY <2>3, <2>7 DEF IInv, CounterAhead
  <2>11. CounterAhead'
    <3> SUFFICES ASSUME NEW j \in System, NEW n \in 1..(L + 1),
                        pending[j] # None, executed'[n].key = pending[j].random2
                 PROVE  session'[j] # None /\ executed'[n].number < session'[j].number
      BY <2>3, <2>4 DEF CounterAhead
    <3>1. CASE n = L + 1
      <4>1. j = i
        BY <3>1, <2>3, <2>6, <2>7 DEF IInv, KeysDistinct
      <4> QED
        BY <3>1, <4>1, <2>1, <2>2, <2>3, <2>5, <2>6 DEF IInv, TypeState
    <3>2. CASE n # L + 1
      <4>1. n \in 1..L /\ executed'[n] = executed[n]
        BY <3>2, <2>3
      <4>2. session[j] # None /\ executed[n].number < session[j].number
        BY <4>1, <2>3 DEF IInv, CounterAhead
      <4>3. CASE j = i
        BY <4>1, <4>2, <4>3, <2>1, <2>2, <2>3, <2>5 DEF IInv, TypeState
      <4>4. CASE j # i
        BY <4>1, <4>2, <4>4, <2>5 DEF IInv, TypeState
      <4> QED
        BY <4>3, <4>4
    <3> QED
      BY <3>1, <3>2
  <2>12. NoReplay'
    <3> SUFFICES ASSUME NEW m \in 1..(L + 1), NEW n \in 1..(L + 1), m < n,
                        executed'[m].key = executed'[n].key
                 PROVE  executed'[m].number + 1 < executed'[n].number
      BY <2>3 DEF NoReplay
    <3>1. CASE n = L + 1
      <4>1. m \in 1..L /\ executed'[m] = executed[m] /\ executed[m].key = f.key
        BY <3>1, <2>3, <2>6
      <4> QED
        BY <3>1, <4>1, <2>1, <2>3, <2>6, <2>10
    <3>2. CASE n # L + 1
      <4>1. m \in 1..L /\ n \in 1..L
        BY <3>2, <2>3
      <4>2. executed'[m] = executed[m] /\ executed'[n] = executed[n]
        BY <4>1, <2>3
      <4> QED
        BY <4>1, <4>2, <2>3 DEF IInv, NoReplay
    <3> QED
      BY <3>1, <3>2
  <2> QED
    BY <2>8, <2>9, <2>11, <2>12 DEF IInv
<1> QED
  BY <1>1, <1>2 DEF SecureFrame

\* The invariant holds at the start and every step keeps it.
LEMMA Inductive == Spec => []IInv
<1>1. Init => IInv
  <2> SUFFICES ASSUME Init PROVE IInv
    OBVIOUS
  <2>1. TypeState
    BY SystemAssumption, BoundAssumption DEF Init, TypeState
  <2>2. ModeConsistent /\ KeysDrawn /\ KeysDistinct /\ CounterAhead /\ NoReplay
    BY DEF Init, ModeConsistent, KeysDrawn, KeysDistinct, CounterAhead, NoReplay
  <2> QED
    BY <2>1, <2>2 DEF IInv
<1>2. IInv /\ [Next]_cardVars => IInv'
  <2> SUFFICES ASSUME IInv, [Next]_cardVars PROVE IInv'
    OBVIOUS
  <2>0. TypeState'
    BY StepTypes DEF IInv
  <2>1. CASE AddSystem \/ UNCHANGED cardVars
    BY <2>0, <2>1
       DEF AddSystem, cardVars, IInv, ModeConsistent, KeysDrawn, KeysDistinct, CounterAhead, NoReplay
  <2>2. CASE PowerOff
    BY <2>0, <2>2, ResetKeeps DEF PowerOff
  <2>3. CASE /\ UNCHANGED <<mode, pending, session, drawn, executed>>
    BY <2>0, <2>3 DEF IInv, ModeConsistent, KeysDrawn, KeysDistinct, CounterAhead, NoReplay
  <2>4. ASSUME NEW code \in RequestCodes, SetActiveSystem(code)
        PROVE  IInv'
    BY <2>0, <2>3, <2>4, ResetKeeps DEF SetActiveSystem
  <2>5. ASSUME NEW request \in RequestCodes, Polling(request)
        PROVE  IInv'
    BY <2>0, <2>3, <2>5, ResetKeeps DEF Polling
  <2>6. ASSUME NEW i \in System, Addressed(i)
        PROVE  IInv'
    <3>1. CASE SelectOnly(i)
      BY <3>1, SelectKeeps
    <3>2. CASE ResetMode(i)
      <4>1. ResetModes({i}) /\ drawn' = drawn /\ executed' = executed
        BY <3>2 DEF ResetMode, Settle, ResetModes, IInv, TypeState
      <4> QED
        BY <2>0, <4>1, ResetKeeps
    <3> QED
      BY <2>0, <2>6, <3>1, <3>2, Authentication1Keeps, Authentication2Keeps
         DEF Addressed, Inquiry, PlainAccess
  <2> QED
    BY <2>0, <2>1, <2>2, <2>4, <2>5, <2>6, SecureFrameKeeps DEF Next, HostOperation
<1> QED
  BY <1>1, <1>2, PTL DEF Spec

\* Modes and secrets never disagree, and Mode 3 is never entered.
THEOREM ModesConsistent == Spec => []ModeConsistent
BY Inductive, PTL DEF IInv

\* No secure command is executed twice, for every width of the transaction
\* number and however authentications, switches, resets and replays interleave.
THEOREM ReplayProtected == Spec => []NoReplay
BY Inductive, PTL DEF IInv

-----------------------------------------------------------------------------
(* Replies                                                                   *)


\* A reply that reaches no block.
Quiet(r) == r \in Replies /\ r.touched = {} /\ r.kind \notin {"plain", "secure"}

\* Every reply but those of plain and secure accesses reaches no block.
LEMMA QuietReplies ==
    /\ Quiet(Reply("host", 0, {})) /\ Quiet(Silent)
    /\ \A i \in System : /\ Quiet(Reply("polling", i, {})) /\ Quiet(Reply("info", i, {}))
                         /\ Quiet(Reply("reset", i, {})) /\ Quiet(Reply("challenge", i, {}))
                         /\ Quiet(Reply("session", i, {}))
<1>1. \A kind \in Kinds \ {"plain", "secure"}, i \in 0..NSys : Quiet(Reply(kind, i, {}))
  BY DEF Replies, Reply, Quiet
<1> QED
  BY <1>1, SystemAssumption DEF Silent, Kinds, System

\* System i serves a plain read or write that reaches T.
PlainReply(i, T) ==
    /\ reply' = Reply("plain", i, T)
    /\ SelectOnly(i)
    /\ ModeOf(i) = 0

\* System i serves the secure frame f.
SecureReply(i, f) ==
    /\ reply' = Reply("secure", i, Reached(i, f))
    /\ First(i, WithCode(active))
    /\ AcceptsFrame(i, f)
    /\ UNCHANGED <<count, active, mode, pending>>

\* What a step answers.
LEMMA StepReply ==
    ASSUME Next
    PROVE  \/ Quiet(reply')
           \/ \E i \in System : \E T \in SUBSET FreeServices[i] : PlainReply(i, T)
           \/ \E i \in System, f \in Frame : SecureReply(i, f)
<1>1. CASE HostOperation
  BY <1>1, QuietReplies DEF HostOperation, AddSystem, PowerOff, SetActiveSystem
<1>2. ASSUME NEW request \in RequestCodes, Polling(request)
      PROVE  Quiet(reply')
  BY <1>2, QuietReplies DEF Polling
<1>3. ASSUME NEW i \in System, NEW node \in Service(i), NEW fits \in BOOLEAN,
             PlainAccess(i, node, fits)
      PROVE  Quiet(reply') \/ \E T \in SUBSET FreeServices[i] : PlainReply(i, T)
  <2> DEFINE T == IF node \in FreeServices[i] /\ fits THEN {node} ELSE {}
  <2>1. T \in SUBSET FreeServices[i]
    OBVIOUS
  <2>2. ModePermits(ModeOf(i), "Unauthenticated") <=> ModeOf(i) = 0
    BY DEF ModePermits
  <2>3. CASE ModeOf(i) = 0
    <3>1. PlainReply(i, T)
      BY <1>3, <2>2, <2>3 DEF PlainAccess, PlainReply
    <3> HIDE DEF T
    <3> QED
      BY <2>1, <3>1
  <2>4. CASE ModeOf(i) # 0
    BY <1>3, <2>2, <2>4, QuietReplies DEF PlainAccess
  <2> QED
    BY <2>3, <2>4
<1>4. ASSUME NEW i \in System, Addressed(i)
      PROVE  Quiet(reply') \/ \E T \in SUBSET FreeServices[i] : PlainReply(i, T)
  BY <1>3, <1>4, QuietReplies
     DEF Addressed, Inquiry, ResetMode, Authentication1, Authentication2
<1>5. ASSUME NEW f \in Frame, SecureFrame(f)
      PROVE  Quiet(reply') \/ \E i \in System : SecureReply(i, f)
  BY <1>5, QuietReplies DEF SecureFrame, SecureReply, RegisterStatus
<1> QED
  BY <1>1, <1>2, <1>4, <1>5 DEF Next

\* The state of the emulator is type correct in every reachable state.
THEOREM TypeCorrect == Spec => []TypeOK
<1>1. Init => ReplyOK
  BY QuietReplies DEF Init, Quiet, ReplyOK
<1>2. ReplyOK /\ [Next]_cardVars => ReplyOK'
  <2> SUFFICES ASSUME ReplyOK, Next PROVE reply' \in Replies
    BY DEF cardVars, ReplyOK
  <2>1. \A i \in System, kind \in Kinds : \A T \in SUBSET Service(i) : Reply(kind, i, T) \in Replies
    BY SystemAssumption DEF Replies, Reply, System
  <2>2. \A i \in System : FreeServices[i] \subseteq Service(i)
    BY DEF Service
  <2>3. \A i \in System, f \in Frame : Reached(i, f) \subseteq Service(i)
    BY DEF Reached
  <2> QED
    BY <2>1, <2>2, <2>3, StepReply DEF Quiet, PlainReply, SecureReply, Kinds
<1>3. IInv /\ ReplyOK => TypeOK
  BY DEF IInv, ReplyOK, TypeState, TypeOK, Replies
<1> QED
  BY <1>1, <1>2, <1>3, Inductive, PTL DEF Spec

\* Blocks of keyed Services are reached only through an authenticated session
\* that named them; plain access reaches authentication-free ones, in Mode 0.
THEOREM AccessIsAuthorised == Spec => []AccessAuthorised
<1>1. Init => AccessAuthorised
  BY DEF Init, AccessAuthorised, Reply
<1>2. IInv /\ AccessAuthorised /\ [Next]_cardVars => AccessAuthorised'
  <2> SUFFICES ASSUME IInv, Next PROVE AccessAuthorised'
    BY DEF cardVars, AccessAuthorised
  <2>1. CASE Quiet(reply')
    BY <2>1 DEF Quiet, AccessAuthorised
  <2>2. ASSUME NEW i \in System, NEW T \in SUBSET FreeServices[i], PlainReply(i, T)
        PROVE  AccessAuthorised'
    <3>1. active' = SystemCode[i] /\ mode'[i] = 0
      BY <2>2 DEF PlainReply, SelectOnly, Settle, IInv, TypeState
    <3> QED
      BY <2>2, <3>1 DEF PlainReply, Reply, AccessAuthorised
  <2>3. ASSUME NEW i \in System, NEW f \in Frame, SecureReply(i, f)
        PROVE  AccessAuthorised'
    <3>1. active' = SystemCode[i] /\ mode'[i] = 2 /\ pending' = pending
      BY <2>3 DEF SecureReply, First, WithCode, AcceptsFrame, IInv, ModeConsistent
    <3>2. session[i].services = pending[i].services
      BY <2>3, <3>1 DEF SecureReply, IInv, ModeConsistent
    <3>3. \A node \in Reached(i, f) :
            \E n \in DOMAIN pending'[i].services : pending'[i].services[n] = node
      BY <3>1, <3>2 DEF Reached
    <3> QED
      BY <2>3, <3>1, <3>3 DEF SecureReply, Reply, AccessAuthorised
  <2> QED
    BY <2>1, <2>2, <2>3, StepReply
<1> QED
  BY <1>1, <1>2, Inductive, PTL DEF Spec

-----------------------------------------------------------------------------
(* Systems that are not there yet, and what the active code says             *)

\* A System the host has not added yet is in Mode 0.
Unborn == \A i \in System : i > count => mode[i] = 0

\* Only a System that has been added leaves Mode 0.
LEMMA UnbornHolds == Spec => []Unborn
<1>1. Init => Unborn
  BY DEF Init, Unborn
<1>2. IInv /\ Unborn /\ [Next]_cardVars => Unborn'
  <2> SUFFICES ASSUME IInv, Unborn, [Next]_cardVars PROVE Unborn'
    OBVIOUS
  <2>0. count \in Nat /\ System \subseteq Nat /\ mode \in [System -> 0..3]
    BY SystemAssumption DEF IInv, TypeState, System
  <2>1. CASE HostOperation
    BY <2>0, <2>1 DEF HostOperation, AddSystem, PowerOff, SetActiveSystem, ResetModes, Unborn
  <2>2. ASSUME NEW request \in RequestCodes, Polling(request)
        PROVE  Unborn'
    BY <2>0, <2>2 DEF Polling, ResetModes, Unborn
  <2>3. ASSUME NEW i \in System, NEW m, NEW p, NEW q, Settle(i, m, p, q)
        PROVE  Unborn'
    BY <2>0, <2>3 DEF Settle, Unborn
  <2>4. ASSUME NEW i \in System, Addressed(i)
        PROVE  Unborn'
    BY <2>3, <2>4 DEF Addressed, Inquiry, PlainAccess, SelectOnly, ResetMode,
                      Authentication1, Authentication2
  <2>5. ASSUME NEW f \in Frame, SecureFrame(f)
        PROVE  Unborn'
    BY <2>5 DEF SecureFrame, RegisterStatus, Unborn
  <2>6. CASE UNCHANGED cardVars
    BY <2>6 DEF cardVars, Unborn
  <2> QED
    BY <2>1, <2>2, <2>4, <2>5, <2>6 DEF Next
<1> QED
  BY <1>1, <1>2, Inductive, PTL DEF Spec

\* No code is active exactly when the card has no System.
LEMMA ActiveNone ==
    ASSUME TypeState
    PROVE  active = None <=> count = 0
BY SystemAssumption, NoneAssumption DEF TypeState, System

-----------------------------------------------------------------------------
(* Action properties                                                         *)

\* A System that becomes active has no session in that step, when the codes of
\* the Systems are distinct.
THEOREM SwitchesDropSessions ==
    ASSUME DistinctCodes
    PROVE  Spec => SwitchDropsSession
<1>1. ASSUME IInv, Unborn, Next, active' # active, NEW i \in System, SystemCode[i] = active'
      PROVE  session'[i] = None
  <2>0. session \in [System -> Session \cup {None}] /\ count \in Nat /\ System \subseteq Nat
    BY <1>1, SystemAssumption DEF IInv, TypeState, System
  <2>1. CASE AddSystem
    <3>1. active = None /\ session' = session
      BY <1>1, <2>1 DEF AddSystem
    <3>2. count = 0
      BY <1>1, <3>1, ActiveNone DEF IInv
    <3>3. mode[i] = 0
      BY <1>1, <3>2, SystemAssumption DEF Unborn, System
    <3> QED
      BY <1>1, <3>1, <3>3 DEF IInv, ModeConsistent
  <2>2. CASE PowerOff
    <3>1. count # 0 /\ active' = SystemCode[1] /\ 1 \in System
      BY <1>1, <2>0, <2>2, ActiveNone, SystemAssumption DEF PowerOff, IInv, System
    <3>2. i = 1
      BY <1>1, <3>1 DEF DistinctCodes
    <3> QED
      BY <2>0, <2>2, <3>1, <3>2 DEF PowerOff, ResetModes
  <2>3. ASSUME NEW code \in RequestCodes, SetActiveSystem(code)
        PROVE  session'[i] = None
    BY <1>1, <2>3 DEF SetActiveSystem, First, WithCode, ResetModes, DistinctCodes
  <2>4. ASSUME NEW request \in RequestCodes, Polling(request)
        PROVE  session'[i] = None
    BY <1>1, <2>4 DEF Polling, ResetModes, DistinctCodes
  <2>5. ASSUME NEW j \in System, NEW m, NEW p, NEW q, Settle(j, m, p, q)
        PROVE  active # SystemCode[i] /\ j = i /\ session'[i] = q
    BY <1>1, <2>0, <2>5 DEF Settle, DistinctCodes
  <2>6. ASSUME NEW j \in System, Addressed(j)
        PROVE  session'[i] = None
    <3>1. active # SystemCode[j] => SessionOf(j) = None /\ ModeOf(j) = 0
      BY DEF SessionOf, ModeOf, Kept
    <3>2. CASE SelectOnly(j)
      BY <2>5, <3>1, <3>2 DEF SelectOnly
    <3>3. CASE Settle(j, 0, None, None)
      BY <2>5, <3>3
    <3>4. ASSUME NEW areas \in AreaLists, NEW services \in ServiceLists, NEW r1 \in Random1,
                 Authentication1(j, areas, services, r1)
          PROVE  session'[i] = None
      BY <2>5, <3>2, <3>4 DEF Authentication1
    <3>5. ASSUME NEW proof \in Key, Authentication2(j, proof)
          PROVE  session'[i] = None
      <4>1. CASE ~SelectOnly(j)
        <5>1. ModeOf(j) \in {1, 2}
          BY <3>5, <4>1 DEF Authentication2, ModePermits
        <5>2. \E p, q : Settle(j, 2, p, q)
          BY <3>5, <4>1 DEF Authentication2
        <5> QED
          BY <2>5, <3>1, <5>1, <5>2
      <4> QED
        BY <3>2, <4>1
    <3> QED
      BY <2>6, <3>2, <3>3, <3>4, <3>5 DEF Addressed, Inquiry, PlainAccess, ResetMode
  <2>7. ASSUME NEW f \in Frame, SecureFrame(f)
        PROVE  FALSE
    BY <1>1, <2>7 DEF SecureFrame
  <2> QED
    BY <1>1, <2>1, <2>2, <2>3, <2>4, <2>6, <2>7 DEF Next, HostOperation
<1>2. IInv /\ Unborn /\ [Next]_cardVars =>
        [active' # active => \A i \in System : SystemCode[i] = active' => session'[i] = None]_cardVars
  BY <1>1
<1> QED
  BY <1>2, Inductive, UnbornHolds, PTL DEF Spec, SwitchDropsSession

\* A command the card ignores without switching changes nothing.
THEOREM IgnoredAreHarmless == Spec => IgnoredIsHarmless
<1>1. ASSUME IInv, Next, reply' = Silent, active' = active
      PROVE  UNCHANGED <<count, mode, pending, session, drawn, executed>>
  <2>0. /\ mode \in [System -> 0..3] /\ pending \in [System -> Pending \cup {None}]
        /\ session \in [System -> Session \cup {None}]
    BY <1>1 DEF IInv, TypeState
  <2>1. \A kind \in Kinds \ {"silent"} : \A i, T : Reply(kind, i, T) # Silent
    BY DEF Reply, Silent
  <2>2. CASE HostOperation
    BY <1>1, <2>1, <2>2
       DEF HostOperation, AddSystem, PowerOff, SetActiveSystem, Reply, Silent
  <2>3. ASSUME NEW request \in RequestCodes, Polling(request)
        PROVE  UNCHANGED <<count, mode, pending, session, drawn, executed>>
    BY <1>1, <2>3 DEF Polling, Reply, Silent
  <2>4. ASSUME NEW i \in System, SelectOnly(i)
        PROVE  UNCHANGED <<count, mode, pending, session, drawn, executed>>
    BY <1>1, <2>0, <2>4 DEF SelectOnly, Settle, ModeOf, PendingOf, SessionOf, Kept
  <2>5. ASSUME NEW i \in System, Addressed(i)
        PROVE  UNCHANGED <<count, mode, pending, session, drawn, executed>>
    <3>1. Reply("reset", i, {}) # Silent /\ Reply("challenge", i, {}) # Silent
          /\ Reply("session", i, {}) # Silent
      BY <2>1 DEF Kinds
    <3> QED
      BY <1>1, <2>4, <2>5, <3>1
         DEF Addressed, Inquiry, PlainAccess, ResetMode, Authentication1, Authentication2
  <2>6. ASSUME NEW f \in Frame, SecureFrame(f)
        PROVE  UNCHANGED <<count, mode, pending, session, drawn, executed>>
    BY <1>1, <2>6 DEF SecureFrame, Reply, Silent
  <2> QED
    BY <1>1, <2>2, <2>3, <2>5, <2>6 DEF Next
<1>2. IInv /\ [Next]_cardVars =>
        [reply' = Silent /\ active' = active =>
           UNCHANGED <<count, mode, pending, session, drawn, executed>>]_cardVars
  BY <1>1
<1> QED
  BY <1>2, Inductive, PTL DEF Spec, IgnoredIsHarmless

-----------------------------------------------------------------------------
(* Refinement of table 4-1                                                   *)

\* With distinct codes the active code stands for one System.
LEMMA CurrentIs ==
    ASSUME DistinctCodes, NEW c \in 0..NSys, NEW i \in 1..c
    PROVE  (CHOOSE k \in System : First(k, {j \in 1..c : SystemCode[j] = SystemCode[i]})) = i
<1>1. i \in System /\ 1..c \subseteq System
  BY SystemAssumption DEF System
<1>2. \A k \in System : First(k, {j \in 1..c : SystemCode[j] = SystemCode[i]}) <=> k = i
  BY <1>1, SystemAssumption DEF First, DistinctCodes, System
<1> QED
  BY <1>1, <1>2

\* ... so Current is that System, before and after a step.
LEMMA CurrentNow ==
    ASSUME DistinctCodes, TypeState
    PROVE  /\ count = 0 => Current = 0
           /\ \A i \in 1..count : active = SystemCode[i] => Current = i
           /\ Current \in 0..count
           /\ count # 0 => Current \in 1..count /\ active = SystemCode[Current]
<1>1. count = 0 => Current = 0
  BY ActiveNone DEF Current
<1>2. \A i \in 1..count : active = SystemCode[i] => Current = i
  <2> SUFFICES ASSUME NEW i \in 1..count, active = SystemCode[i] PROVE Current = i
    OBVIOUS
  <2>1. active # None
    BY ActiveNone DEF TypeState
  <2>2. (CHOOSE k \in System : First(k, {j \in 1..count : SystemCode[j] = SystemCode[i]})) = i
    BY CurrentIs DEF TypeState
  <2> QED
    BY <2>1, <2>2 DEF Current, WithCode
<1>3. count # 0 => \E i \in 1..count : active = SystemCode[i]
  BY DEF TypeState
<1> QED
  BY <1>1, <1>2, <1>3 DEF TypeState

\* The same facts about the state after a step.
LEMMA CurrentNext ==
    ASSUME DistinctCodes, TypeState'
    PROVE  /\ count' = 0 => Current' = 0
           /\ \A i \in 1..count' : active' = SystemCode[i] => Current' = i
           /\ count' # 0 => Current' \in 1..count' /\ active' = SystemCode[Current']
<1>1. active' = None <=> count' = 0
  <2>1. count' \in 0..NSys
    BY DEF TypeState
  <2>2. CASE count' = 0
    BY <2>2 DEF TypeState
  <2>3. CASE count' # 0
    <3>1. PICK i \in 1..count' : active' = SystemCode[i]
      BY <2>3 DEF TypeState
    <3>2. i \in System
      BY <2>1, SystemAssumption DEF System
    <3> QED
      BY <2>3, <3>1, <3>2, NoneAssumption
  <2> QED
    BY <2>2, <2>3
<1>2. \A i \in 1..count' : active' = SystemCode[i] => Current' = i
  <2> SUFFICES ASSUME NEW i \in 1..count', active' = SystemCode[i] PROVE Current' = i
    OBVIOUS
  <2>1. active' # None
    BY <1>1 DEF TypeState
  <2>2. (CHOOSE k \in System : First(k, {j \in 1..count' : SystemCode[j] = SystemCode[i]})) = i
    BY CurrentIs DEF TypeState
  <2> QED
    BY <2>1, <2>2 DEF Current, WithCode, First
<1>3. count' # 0 => \E i \in 1..count' : active' = SystemCode[i]
  BY DEF TypeState
<1> QED
  BY <1>1, <1>2, <1>3 DEF TypeState, Current

\* A command that leaves System i, now active, in Mode m is a command on the
\* current System or the selection of another one.
LEMMA SettleIsStep ==
    ASSUME DistinctCodes, IInv, TypeState', NEW i \in System, i <= count,
           NEW m \in 0..3, active' = SystemCode[i], count' = count,
           mode' = [mode EXCEPT ![i] = m], Served' = "other",
           m \in Table41!Reachable(ModeOf(i)) \cup {ModeOf(i)}
    PROVE  Table41!Next
<1>0. i \in 1..count /\ i \in Table41!System /\ count \in 0..NSys
  BY DEF System, Table41!System, IInv, TypeState
<1>1. Current' = i
  BY <1>0, CurrentNext
<1>2. CASE active = SystemCode[i]
  <2>1. Current = i /\ ModeOf(i) = mode[i]
    BY <1>0, <1>2, CurrentNow DEF IInv, ModeOf, Kept
  <2>2. Table41!Command(i)
    BY <1>1, <2>1 DEF Table41!Command
  <2> QED
    BY <1>0, <2>2 DEF Table41!Next
<1>3. CASE active # SystemCode[i]
  <2>1. ModeOf(i) = 0
    BY <1>3 DEF ModeOf, Kept
  <2>2. Current # i
    <3>1. active = SystemCode[Current]
      BY <1>0, CurrentNow DEF IInv
    <3> QED
      BY <1>3, <3>1
  <2>3. m \in Table41!Reachable(0)
    BY <2>1 DEF Table41!Reachable
  <2>4. Table41!Select(i)
    BY <1>1, <2>2, <2>3 DEF Table41!Select
  <2> QED
    BY <1>0, <2>4 DEF Table41!Next
<1> QED
  BY <1>2, <1>3

\* A step that changes neither the selection nor a Mode, and serves nothing.
LEMMA QuietIsStep ==
    ASSUME Current' = Current, mode' = mode, Served' = "other"
    PROVE  Table41!Next
BY DEF Table41!Next, Table41!Ignore

\* The card, with distinct System codes, implements the Mode machine of
\* table 4-1: every step of the emulator is a step of CardModes.
THEOREM RefinesTable41 ==
    ASSUME DistinctCodes
    PROVE  Spec => ImplementsTable41
<1>1. Init => Table41!Init
  <2> SUFFICES ASSUME Init PROVE Table41!Init
    OBVIOUS
  <2>1. Current = 0 /\ Served = "other"
    BY DEF Init, Current, Served, Reply
  <2> QED
    BY <2>1 DEF Init, Table41!Init, System, Table41!System
<1>2. ASSUME IInv, IInv', Unborn, Next
      PROVE  Table41!Next
  <2> USE <1>2
  <2>0. /\ TypeState /\ TypeState' /\ mode \in [System -> 0..3]
        /\ count \in Nat /\ System \subseteq Nat /\ System = 1..NSys /\ System = Table41!System
    BY SystemAssumption DEF IInv, TypeState, System, Table41!System
  <2>1. Quiet(reply') => Served' = "other"
    BY DEF Quiet, Served
  <2>2. ASSUME active' = active, count' = count PROVE Current' = Current
    BY <2>2 DEF Current, First, WithCode
  <2>3. CASE AddSystem
    <3>1. Served' = "other" /\ mode' = mode
      BY <2>3 DEF AddSystem, Served, Reply
    <3>2. CASE count = 0
      <4>1. active' = SystemCode[1] /\ count' = 1 /\ Current = 0
        BY <2>0, <2>3, <3>2, ActiveNone, CurrentNow DEF AddSystem
      <4>2. Current' = 1 /\ 1 \in System /\ mode[1] = 0
        BY <2>0, <3>2, <4>1, CurrentNext, SystemAssumption DEF Unborn
      <4>3. mode' = [mode EXCEPT ![1] = 0]
        BY <2>0, <3>1, <4>2
      <4>4. Table41!Select(1)
        <5>1. 0 \in Table41!Reachable(0)
          BY DEF Table41!Reachable
        <5>2. \E m \in Table41!Reachable(0) : mode' = [mode EXCEPT ![1] = m]
          BY <4>3, <5>1
        <5>3. Current # 1
          BY <4>1
        <5>4. Served' \in {"other", "plain"} /\ Served' # "plain"
          BY <3>1
        <5> QED
          BY <4>2, <5>2, <5>3, <5>4, Zenon DEF Table41!Select
      <4> QED
        BY <2>0, <4>2, <4>4 DEF Table41!Next
    <3>3. CASE count # 0
      <4>1. active' = active /\ count' = count + 1
        BY <2>0, <2>3, <3>3, ActiveNone DEF AddSystem
      <4>2. Current \in 1..count /\ active = SystemCode[Current]
        BY <2>0, <3>3, CurrentNow
      <4>3. Current' = Current
        BY <2>0, <4>1, <4>2, CurrentNext
      <4> QED
        BY <3>1, <4>3, QuietIsStep
    <3> QED
      BY <3>2, <3>3
  <2>4. CASE PowerOff
    <3>1. Served' = "other" /\ count' = count
      BY <2>4 DEF PowerOff, Served, Reply
    <3>2. mode' = [i \in System |-> 0]
      <4>1. \A i \in System : i \in 1..count \/ mode[i] = 0
        BY <2>0 DEF Unborn
      <4> QED
        BY <2>4, <4>1 DEF PowerOff, ResetModes
    <3>3. Current' \in 0..NSys /\ (Current' = 0 <=> Current = 0)
      <4>1. count \in 0..NSys
        BY <2>0 DEF TypeState
      <4>2. CASE count = 0
        BY <2>0, <3>1, <4>1, <4>2, CurrentNow, CurrentNext
      <4>3. CASE count # 0
        <5>1. Current \in 1..count
          BY <2>0, <4>3, CurrentNow
        <5>2. Current' \in 1..count
          BY <2>0, <3>1, <4>3, CurrentNext
        <5> QED
          BY <4>1, <5>1, <5>2, SystemAssumption
      <4> QED
        BY <4>2, <4>3
    <3>4. Current' \in Table41!System \cup {0}
      BY <2>0, <3>3, SystemAssumption
    <3> QED
      BY <2>0, <3>1, <3>2, <3>3, <3>4 DEF Table41!Next, Table41!PowerOff
  <2>5. ASSUME NEW i \in System, i <= count, ResetModes({i}), active' = SystemCode[i],
               count' = count, Served' = "other"
        PROVE  Table41!Next
    <3>1. mode' = [mode EXCEPT ![i] = 0]
      BY <2>0, <2>5 DEF ResetModes
    <3>2. 0 \in Table41!Reachable(ModeOf(i)) \cup {ModeOf(i)} /\ 0 \in 0..3
      BY DEF Table41!Reachable
    <3> QED
      BY <2>0, <2>5, <3>1, <3>2, SettleIsStep
  <2>6. ASSUME NEW code \in RequestCodes, SetActiveSystem(code)
        PROVE  Table41!Next
    <3>1. Served' = "other" /\ count' = count
      BY <2>6 DEF SetActiveSystem, Served, Reply
    <3>2. CASE UNCHANGED <<mode, pending, session, active>>
      BY <2>2, <3>1, <3>2, QuietIsStep
    <3>3. ASSUME NEW i \in System, First(i, WithCode(code)), ResetModes({i}), active' = code
          PROVE  Table41!Next
      BY <2>0, <2>5, <3>1, <3>3 DEF First, WithCode
    <3> QED
      BY <2>6, <3>2, <3>3 DEF SetActiveSystem
  <2>7. ASSUME NEW request \in RequestCodes, Polling(request)
        PROVE  Table41!Next
    <3>1. Served' = "other" /\ count' = count
      BY <2>1, <2>7, QuietReplies DEF Polling
    <3>2. CASE UNCHANGED <<active, mode, pending, session>>
      BY <2>2, <3>1, <3>2, QuietIsStep
    <3>3. ASSUME NEW i \in System, First(i, PollingTargets(request)), ResetModes({i}),
                 active' = SystemCode[i]
          PROVE  Table41!Next
      BY <2>0, <2>5, <3>1, <3>3 DEF First, PollingTargets
    <3> QED
      BY <2>7, <3>2, <3>3 DEF Polling
  <2>8. ASSUME NEW i \in System, NEW m \in 0..3, NEW p, NEW q, Settle(i, m, p, q),
               Served' = "other", m \in Table41!Reachable(ModeOf(i)) \cup {ModeOf(i)}
        PROVE  Table41!Next
    BY <2>0, <2>8, SettleIsStep DEF Settle
  <2>9. ASSUME NEW i \in System, SelectOnly(i), Served' = "other"
        PROVE  Table41!Next
    <3>1. ModeOf(i) \in 0..3
      BY <2>0, KeptTypes
    <3> QED
      BY <2>8, <2>9, <3>1 DEF SelectOnly
  <2>10. ASSUME NEW i \in System, NEW T, PlainReply(i, T)
         PROVE  Table41!Next
    <3>1. /\ active' = SystemCode[i] /\ count' = count /\ i \in 1..count
          /\ mode' = [mode EXCEPT ![i] = 0] /\ Served' = "plain" /\ ModeOf(i) = 0
      BY <2>0, <2>10 DEF PlainReply, SelectOnly, Settle, Served, Reply
    <3>2. Current' = i
      BY <2>0, <3>1, CurrentNext
    <3>3. CASE active = SystemCode[i]
      <4>1. Current = i /\ mode[i] = 0 /\ mode' = mode
        BY <2>0, <3>1, <3>3, CurrentNow DEF ModeOf, Kept
      <4> QED
        BY <2>0, <3>1, <3>2, <4>1 DEF Table41!Next, Table41!ServePlain
    <3>4. CASE active # SystemCode[i]
      <4>1. Current # i
        BY <2>0, <3>1, <3>4, CurrentNow
      <4>2. Table41!Select(i)
        BY <2>0, <3>1, <3>2, <4>1 DEF Table41!Select, Table41!Reachable
      <4> QED
        BY <2>0, <4>2 DEF Table41!Next
    <3> QED
      BY <3>3, <3>4
  <2>11. ASSUME NEW i \in System, NEW f \in Frame, SecureReply(i, f)
         PROVE  Table41!Next
    <3>1. /\ Current' = Current /\ mode' = mode /\ Served' = "secure"
          /\ i \in 1..count /\ active = SystemCode[i] /\ mode[i] = 2
      BY <2>0, <2>2, <2>11 DEF SecureReply, Served, Reply, First, WithCode, AcceptsFrame,
                               IInv, ModeConsistent
    <3>2. Current = i
      BY <2>0, <3>1, CurrentNow
    <3> QED
      BY <2>0, <3>1, <3>2 DEF Table41!Next, Table41!ServeSecure
  <2>12. ASSUME NEW i \in System, Addressed(i), Served' = "other"
         PROVE  Table41!Next
    <3>1. CASE ResetMode(i)
      BY <2>8, <2>12, <3>1 DEF ResetMode, Table41!Reachable
    <3>2. ASSUME NEW areas \in AreaLists, NEW services \in ServiceLists, NEW r1 \in Random1,
                 Authentication1(i, areas, services, r1)
          PROVE  Table41!Next
      BY <2>8, <2>9, <2>12, <3>2 DEF Authentication1, Table41!Reachable
    <3>3. ASSUME NEW proof \in Key, Authentication2(i, proof), ~SelectOnly(i)
          PROVE  Table41!Next
      <4>1. ModeOf(i) \in {1, 2} /\ \E p, q : Settle(i, 2, p, q)
        BY <3>3 DEF Authentication2, ModePermits
      <4> QED
        BY <2>8, <2>12, <4>1 DEF Table41!Reachable
    <3> QED
      BY <2>9, <2>12, <3>1, <3>2, <3>3 DEF Addressed, Inquiry, PlainAccess
  <2>13. ASSUME NEW f \in Frame, SecureFrame(f), Quiet(reply')
         PROVE  Table41!Next
    <3>1. UNCHANGED <<mode, active, count>>
      BY <2>13 DEF SecureFrame, RegisterStatus
    <3> QED
      BY <2>1, <2>2, <2>13, <3>1, QuietIsStep
  <2> QED
    BY <2>1, <2>3, <2>4, <2>6, <2>7, <2>10, <2>11, <2>12, <2>13, StepReply
       DEF Next, HostOperation
<1>3. UNCHANGED cardVars => UNCHANGED Table41!vars
  BY DEF cardVars, Table41!vars, Current, Served, First, WithCode
<1>4. IInv /\ IInv' /\ Unborn /\ [Next]_cardVars => [Table41!Next]_(Table41!vars)
  BY <1>2, <1>3
<1> QED
  BY <1>1, <1>4, Inductive, UnbornHolds, PTL DEF Spec, ImplementsTable41, Table41!Spec

-----------------------------------------------------------------------------
(* The host's loop: the card that listens holds no Mode, pending            *)
(* authentication or session of an earlier initiator.                       *)

\* A System without Mode, pending authentication and session.
Clean(i) == mode[i] = 0 /\ pending[i] = None /\ session[i] = None

\* Inductive: the Systems are clean while the card is being built as well, and all
\* of them have been added when the loop is entered, so power_off reaches them all.
HostInv ==
    /\ TypeState
    /\ host # "setup" => count = NSys
    /\ host \in {"setup", "listen"} => \A i \in System : Clean(i)

\* No command adds a System.
LEMMA CommandKeepsCount ==
    ASSUME HandleFrame
    PROVE  count' = count
<1>1. ASSUME NEW request \in RequestCodes, Polling(request)
      PROVE  count' = count
  BY <1>1 DEF Polling
<1>2. ASSUME NEW i \in System, Addressed(i)
      PROVE  count' = count
  BY <1>2 DEF Addressed, Inquiry, PlainAccess, ResetMode, Authentication1, Authentication2,
              SelectOnly, Settle
<1>3. ASSUME NEW f \in Frame, SecureFrame(f)
      PROVE  count' = count
  BY <1>3 DEF SecureFrame
<1> QED
  BY <1>1, <1>2, <1>3 DEF HandleFrame

\* Whatever the host does is a step of the card.
LEMMA HostStepIsCardStep ==
    ASSUME [HostNext]_hostVars
    PROVE  [Next]_cardVars
BY DEF HostNext, hostVars, Setup, Responder, Command, HandleFrame, SessionOver, ExchangeFails,
       Next, HostOperation

\* Resetting Systems leaves clean ones clean and cleans those it names.
LEMMA ResetCleans ==
    ASSUME NEW S, ResetModes(S), NEW i \in System, Clean(i) \/ i \in S
    PROVE  Clean(i)'
BY DEF ResetModes, Clean

\* A step of the host preserves the invariant.
LEMMA HostStep ==
    ASSUME HostInv, [HostNext]_hostVars
    PROVE  HostInv'
<1>1. TypeState'
  BY HostStepIsCardStep, StepTypes DEF HostInv
<1>2. CASE Setup
  BY <1>1, <1>2 DEF HostInv, Setup, AddSystem, Clean
<1>3. ASSUME NEW request \in RequestCodes, Responder(request)
      PROVE  HostInv'
  <2>1. count' = count /\ host' = host /\ host = "listen"
    BY <1>3 DEF Responder, Polling
  <2>2. CASE UNCHANGED <<mode, pending, session>>
    BY <1>1, <2>1, <2>2 DEF HostInv, Clean
  <2>3. CASE \E j \in System : ResetModes({j})
    BY <1>1, <2>1, <2>3, ResetCleans DEF HostInv
  <2> QED
    BY <1>3, <2>2, <2>3 DEF Responder, Polling
<1>4. CASE Command
  BY <1>1, <1>4, CommandKeepsCount DEF HostInv, Command
<1>5. CASE SessionOver
  <2>1. ResetModes(System) /\ count' = count
    BY <1>5 DEF SessionOver, PowerOff, HostInv, System
  <2>2. \A i \in System : Clean(i)'
    BY <2>1, ResetCleans
  <2> QED
    BY <1>1, <1>5, <2>1, <2>2 DEF HostInv, SessionOver
<1>6. CASE ExchangeFails
  BY <1>1, <1>6 DEF HostInv, ExchangeFails, cardVars
<1>7. CASE UNCHANGED hostVars
  BY <1>1, <1>7 DEF HostInv, hostVars, cardVars, Clean
<1> QED
  BY <1>2, <1>3, <1>4, <1>5, <1>6, <1>7 DEF HostNext

\* The card that main has built, or brought back from a session, answers polls: no
\* initiator meets what another one left (power_off in examples/emulate.rs).
THEOREM HostAnswersPolls == HostSpec => []PollsAreAnswered
<1>1. HostInit => HostInv
  <2> SUFFICES ASSUME HostInit
               PROVE  HostInv
    OBVIOUS
  <2>1. \A i \in System : Clean(i)
    BY DEF HostInit, Init, Clean
  <2>2. TypeState
    BY SystemAssumption, BoundAssumption DEF HostInit, Init, TypeState
  <2> QED
    BY <2>1, <2>2 DEF HostInit, HostInv
<1>2. HostInv /\ [HostNext]_hostVars => HostInv'
  BY HostStep
<1>3. HostInv => PollsAreAnswered
  BY SystemAssumption DEF HostInv, PollsAreAnswered, Clean, TypeState, System
<1> QED
  BY <1>1, <1>2, <1>3, PTL DEF HostSpec

-----------------------------------------------------------------------------
(* What is on the link is well formed, so the card of this composition only *)
(* takes steps of the card on its own.                                      *)

NetTyped ==
    \A m \in net :
        /\ m.type = "1a" => m.random1 \in Random1
        /\ m.type = "1b2a" => m.random1 \in Random1 /\ m.random2 \in Key
        /\ m.type = "2b" => m.random2 \in Key
        /\ m.type = "grant" => m.number \in Number /\ m.id \in Id /\ m.key \in Key
        /\ m.type = "command" => m.frame \in Frame
        /\ m.type = "answer" => m.of \in Frame /\ m.key = m.of.key /\ m.id = m.of.id
                                /\ m.number = m.of.number + 1 /\ m.number \in Number

ContextTyped == ctx \in Context \cup {None} /\ (phase = "exchange" => ctx # None)

MessagingTyped == TypeState /\ NetTyped /\ ContextTyped

\* The step of the card that a message makes it take.
CardStep(m) ==
    \/ m.type = "1a" /\ Authentication1(Target, ReaderAreas, ReaderServices, m.random1)
    \/ m.type = "2b" /\ Authentication2(Target, m.random2)
    \/ m.type = "command" /\ SecureFrame(m.frame)

\* A message of the link makes the card take a step of its own.
LEMMA ReceivesIsCardStep ==
    ASSUME NetTyped, NEW m \in net, CardReceives(m)
    PROVE  Next /\ CardStep(m)
<1>1. CardStep(m)
  BY DEF CardReceives, CardStep
<1>2. Target \in System /\ ReaderAreas \in AreaLists /\ ReaderServices \in ServiceLists
  BY ReaderAssumption
<1>3. CASE m.type = "1a" /\ Authentication1(Target, ReaderAreas, ReaderServices, m.random1)
  <2>1. m.random1 \in Random1
    BY <1>3 DEF NetTyped
  <2>2. Addressed(Target)
    BY <1>2, <1>3, <2>1 DEF Addressed
  <2> QED
    BY <1>1, <1>2, <2>2 DEF Next
<1>4. CASE m.type = "2b" /\ Authentication2(Target, m.random2)
  <2>1. m.random2 \in Key
    BY <1>4 DEF NetTyped
  <2>2. Addressed(Target)
    BY <1>2, <1>4, <2>1 DEF Addressed
  <2> QED
    BY <1>1, <1>2, <2>2 DEF Next
<1>5. CASE m.type = "command" /\ SecureFrame(m.frame)
  BY <1>1, <1>5 DEF Next, NetTyped
<1> QED
  BY <1>1, <1>3, <1>4, <1>5 DEF CardStep

\* Every step of the composition is a step of the card or leaves it alone.
LEMMA StepIsCardStep ==
    ASSUME NetTyped, [MessagingNext]_vars
    PROVE  [Next]_cardVars
<1>1. CASE Reader
  BY <1>1 DEF Reader, StartAuthentication, ReceiveChallenge, ReceiveGrant, SendCommand,
              ReceiveAnswer, Fail, ClearContext
<1>2. ASSUME NEW m \in net, CardReceives(m)
      PROVE  Next
  BY <1>2, ReceivesIsCardStep
<1>3. CASE Disturbance
  BY <1>3 DEF Disturbance, Next, Addressed
<1>4. CASE UNCHANGED vars
  BY <1>4 DEF vars
<1> QED
  BY <1>1, <1>2, <1>3, <1>4 DEF MessagingNext

\* A frame the reader builds from its context is well formed.
LEMMA FrameIsTyped ==
    ASSUME ContextTyped, ctx # None, ctx.number < MaxTransaction,
           NEW command \in ReaderCommands, NEW element \in Elements
    PROVE  /\ [key |-> ctx.key, id |-> ctx.id, number |-> ctx.number + 1,
               command |-> command, element |-> element] \in Frame
           /\ Captured(ctx) \in Context
           /\ Captured(ctx).number = ctx.number + 1
           /\ Captured(ctx).key = ctx.key /\ Captured(ctx).id = ctx.id
<1>1. ctx \in Context /\ ctx.number + 1 \in Number /\ command \in Commands
  BY BoundAssumption, ReaderAssumption DEF ContextTyped, Context, Number
<1> QED
  BY <1>1 DEF Context, Frame, Captured

\* A step of the card answers with a well-formed message.
LEMMA CardAnswersAreTyped ==
    ASSUME TypeState, NetTyped, TypeState', NEW m \in net, CardReceives(m)
    PROVE  NetTyped'
<1>1. CASE m.type = "1a" /\ Authentication1(Target, ReaderAreas, ReaderServices, m.random1)
           /\ net' = net \cup (IF reply'.kind = "challenge"
                              THEN {Challenge1b2a(m.random1, drawn')} ELSE {})
  <2>1. m.random1 \in Random1
    BY <1>1 DEF NetTyped
  <2>2. CASE net' = net
    BY <2>2 DEF NetTyped
  <2>3. CASE reply'.kind = "challenge"
    <3>1. drawn' \in Key
      BY <1>1, <2>3, BoundAssumption DEF Authentication1, Reply, Silent, TypeState, Key
    <3> QED
      BY <1>1, <2>1, <2>3, <3>1 DEF NetTyped, Challenge1b2a
  <2> QED
    BY <1>1, <2>2, <2>3
<1>2. CASE m.type = "2b" /\ Authentication2(Target, m.random2)
           /\ net' = net \cup (IF reply'.kind = "session"
                              THEN {SessionGrant(session'[Target])} ELSE {})
  <2>1. CASE net' = net
    BY <2>1 DEF NetTyped
  <2>2. CASE reply'.kind = "session"
    <3> DEFINE p == PendingOf(Target)
               id == TransactionId(p.random1)
               s == [number |-> CarriedNumber(SessionOf(Target), id), id |-> id,
                     key |-> p.random2, services |-> p.services]
    <3>1. Settle(Target, 2, p, s) /\ p # None
      BY <1>2, <2>2 DEF Authentication2, Reply, Silent
    <3>2. p \in Pending /\ SessionOf(Target) \in Session \cup {None}
      BY <3>1, KeptTypes, ReaderAssumption
    <3>3. session'[Target] = s
      BY <3>1, ReaderAssumption DEF Settle, TypeState
    <3>4. s.number \in Number /\ s.id \in Id /\ s.key \in Key
      BY <3>2, BoundAssumption DEF CarriedNumber, Number, Session, Pending, Id
    <3> HIDE DEF s
    <3> QED
      BY <1>2, <2>2, <3>3, <3>4 DEF NetTyped, SessionGrant
  <2> QED
    BY <1>2, <2>1, <2>2
<1>3. CASE m.type = "command" /\ SecureFrame(m.frame)
           /\ net' = net \cup (IF reply'.kind = "secure" THEN {SecureAnswer(m.frame)} ELSE {})
  <2>1. m.frame \in Frame
    BY <1>3 DEF NetTyped
  <2>2. CASE net' = net
    BY <2>2 DEF NetTyped
  <2>3. CASE reply'.kind = "secure"
    <3>1. m.frame.number + 1 <= MaxTransaction
      BY <1>3, <2>3 DEF SecureFrame, AcceptsFrame, Silent, Reply
    <3>2. m.frame.number + 1 \in Number
      BY <2>1, <3>1, BoundAssumption DEF Frame, Number
    <3> QED
      BY <1>3, <2>1, <2>3, <3>2 DEF NetTyped, SecureAnswer
  <2> QED
    BY <1>3, <2>2, <2>3
<1> QED
  BY <1>1, <1>2, <1>3 DEF CardReceives

\* The typed part of the state is inductive.
LEMMA MessagingTypes == MessagingSpec => []MessagingTyped
<1>1. MessagingInit => MessagingTyped
  BY SystemAssumption, BoundAssumption
     DEF MessagingInit, Init, MessagingTyped, TypeState, NetTyped, ContextTyped
<1>2. MessagingTyped /\ [MessagingNext]_vars => MessagingTyped'
  <2> SUFFICES ASSUME MessagingTyped, [MessagingNext]_vars PROVE MessagingTyped'
    OBVIOUS
  <2> USE DEF MessagingTyped
  <2>0. TypeState'
    BY StepIsCardStep, StepTypes
  <2>1. ASSUME NEW r1 \in Random1, StartAuthentication(r1)
        PROVE  NetTyped' /\ ContextTyped'
    BY <2>1 DEF StartAuthentication, NetTyped, ContextTyped, Challenge1a
  <2>2. ASSUME NEW m \in net, ReceiveChallenge(m)
        PROVE  NetTyped' /\ ContextTyped'
    BY <2>2 DEF ReceiveChallenge, NetTyped, ContextTyped, Challenge2b
  <2>3. ASSUME NEW m \in net, ReceiveGrant(m)
        PROVE  NetTyped' /\ ContextTyped'
    BY <2>3 DEF ReceiveGrant, Return, NetTyped, ContextTyped, Context
  <2>4. ASSUME NEW m \in net, ReceiveAnswer(m)
        PROVE  NetTyped' /\ ContextTyped'
    <3>1. ctx \in Context /\ m.number \in Number
      BY <2>4 DEF ReceiveAnswer, ContextTyped, NetTyped
    <3>2. ctx' \in Context
      BY <2>4, <3>1 DEF ReceiveAnswer, Context
    <3> QED
      BY <2>4, <3>2 DEF ReceiveAnswer, Return, NetTyped, ContextTyped
  <2>5. ASSUME NEW command \in ReaderCommands, NEW element \in Elements,
               SendCommand(command, element)
        PROVE  NetTyped' /\ ContextTyped'
    <3> DEFINE f == [key |-> ctx.key, id |-> ctx.id, number |-> ctx.number + 1,
                     command |-> command, element |-> element]
    <3>1. net' = net \cup {SecureCommand(f)} /\ ctx' = Captured(ctx)
      BY <2>5 DEF SendCommand
    <3>2. f \in Frame /\ Captured(ctx) \in Context
      BY <2>5, FrameIsTyped DEF SendCommand
    <3> HIDE DEF f
    <3>3. NetTyped'
      BY <3>1, <3>2 DEF NetTyped, SecureCommand
    <3> QED
      BY <3>1, <3>2, <3>3, ContextAssumption DEF ContextTyped
  <2>6. CASE Fail \/ ClearContext \/ Disturbance \/ UNCHANGED vars
    <3>1. net' = net
      BY <2>6 DEF Fail, ClearContext, Disturbance, vars
    <3>2. (ctx' = ctx /\ phase' = phase) \/ (phase' = "idle" /\ ctx' \in {ctx, None})
      BY <2>6 DEF Fail, Return, ClearContext, Disturbance, vars, readerVars
    <3> QED
      BY <2>0, <3>1, <3>2 DEF NetTyped, ContextTyped
  <2>7. ASSUME NEW m \in net, CardReceives(m)
        PROVE  NetTyped' /\ ContextTyped'
    BY <2>0, <2>7, CardAnswersAreTyped DEF CardReceives, readerVars, ContextTyped
  <2> QED
    BY <2>0, <2>1, <2>2, <2>3, <2>4, <2>5, <2>6, <2>7 DEF MessagingNext, Reader
<1> QED
  BY <1>1, <1>2, PTL DEF MessagingSpec

-----------------------------------------------------------------------------
(* Where every random_1, every key and every number on the link comes from. *)

\* The pairs of random_1 and key in the card's challenges, and the commands.
Challenges == {<<m.random1, m.random2>> : m \in {x \in net : x.type = "1b2a"}}
Issued == {m.frame : m \in {x \in net : x.type = "command"}}

\* The card answers only the values of random_1 the reader drew, each time with
\* a key it draws anew: a key names the random_1 it was drawn for.
ChallengesAreOwn ==
    /\ \A m \in net : m.type = "1a" => m.random1 \in spent
    /\ \A c \in Challenges : c[1] \in spent /\ c[2] <= drawn
    /\ \A c, d \in Challenges : c[2] = d[2] => c[1] = d[1]
    /\ \A i \in System :
         pending[i] # None => <<pending[i].random1, pending[i].random2>> \in Challenges

\* A key is installed at most once: the random_1 of the authentication in
\* progress has not led to a session yet.
InstalledOnce ==
    /\ \A s \in installed : <<s.random1, s.key>> \in Challenges
    /\ phase \in {"authentication1", "authentication2"} =>
         random1 \in spent /\ \A s \in installed : s.random1 # random1
    /\ phase = "authentication2" => <<random1, random2>> \in Challenges
    /\ ctx # None => \E s \in installed : s.key = ctx.key /\ ctx.id = TransactionId(s.random1)

\* The numbers under a key were given out by the one session of that key, each
\* to one command, and the session's counter is not behind them.
NumbersAreOwn ==
    /\ \A f \in Issued : \E s \in installed : s.key = f.key
    /\ \A f \in Issued : ctx # None /\ ctx.key = f.key => f.number <= ctx.number
    /\ \A f, g \in Issued : f.key = g.key /\ f.number = g.number => f = g
    /\ phase = "exchange" => /\ ctx # None /\ sent \in Issued
                             /\ sent.key = ctx.key /\ sent.number = ctx.number

\* The card's counter, its answers and what it ran come from commands of the
\* reader.
AnswersAreOwn ==
    /\ \A i \in System : session[i] # None =>
         \/ session[i].number = 0
         \/ \E f \in Issued : f.key = session[i].key /\ session[i].number = f.number + 1
    /\ \A m \in net : m.type = "answer" =>
         /\ m.of \in Issued
         /\ \E n \in DOMAIN executed : executed[n] = [key |-> m.of.key, number |-> m.of.number]

LinkInv == ChallengesAreOwn /\ InstalledOnce /\ NumbersAreOwn /\ AnswersAreOwn

\* The composition contains the card: its behaviours are behaviours of the card
\* alone, so everything proved of the card holds of it here.
THEOREM MessagingContainsCard == MessagingSpec => Spec
<1>1. MessagingInit => Init
  BY DEF MessagingInit
<1>2. MessagingTyped /\ [MessagingNext]_vars => [Next]_cardVars
  BY StepIsCardStep DEF MessagingTyped
<1> QED
  BY <1>1, <1>2, MessagingTypes, PTL DEF MessagingSpec, Spec

-----------------------------------------------------------------------------
(* What one step does to the secrets of the card                            *)

\* Pending authentications and sessions are kept or dropped, nothing else.
Drops ==
    /\ \A i \in System : pending'[i] \in {pending[i], None} /\ session'[i] \in {session[i], None}
    /\ drawn' = drawn
    /\ executed' = executed

\* Selecting a System keeps or drops.
LEMMA SelectDrops ==
    ASSUME TypeState, NEW i \in System, SelectOnly(i)
    PROVE  Drops
BY DEF Drops, SelectOnly, Settle, PendingOf, SessionOf, Kept, TypeState

\* So do the host, Polling by others and Reset Mode.
LEMMA DisturbanceDrops ==
    ASSUME TypeState, Disturbance
    PROVE  Drops
<1>1. ASSUME NEW S, ResetModes(S), drawn' = drawn, executed' = executed
      PROVE  Drops
  BY <1>1 DEF Drops, ResetModes
<1>2. ASSUME UNCHANGED <<pending, session, drawn, executed>>
      PROVE  Drops
  BY <1>2 DEF Drops
<1>3. CASE HostOperation
  BY <1>1, <1>2, <1>3 DEF HostOperation, AddSystem, PowerOff, SetActiveSystem
<1>4. ASSUME NEW i \in System, Inquiry(i)
      PROVE  Drops
  BY <1>4, SelectDrops DEF Inquiry
<1>5. ASSUME NEW i \in System, ResetMode(i)
      PROVE  Drops
  BY <1>5 DEF Drops, ResetMode, Settle, TypeState
<1> QED
  BY <1>3, <1>4, <1>5 DEF Disturbance

\* Authentication1 of the target: a fresh key is pending for random_1, and the
\* challenge says so; or the list was malformed.
LEMMA Authentication1Effect ==
    ASSUME IInv, NEW r1, Authentication1(Target, ReaderAreas, ReaderServices, r1)
    PROVE  \/ Drops /\ reply'.kind # "challenge"
           \/ /\ reply'.kind = "challenge"
              /\ drawn' = drawn + 1 /\ executed' = executed
              /\ pending'[Target].random1 = r1 /\ pending'[Target].random2 = drawn'
              /\ session'[Target] = None
              /\ \A i \in System \ {Target} : pending'[i] = pending[i] /\ session'[i] = session[i]
<1>1. Target \in System /\ TypeState
  BY ReaderAssumption DEF IInv
<1>2. CASE SelectOnly(Target) /\ reply' = Silent
  BY <1>1, <1>2, SelectDrops DEF Silent, Reply
<1>3. CASE ~(SelectOnly(Target) /\ reply' = Silent)
  BY <1>1, <1>3 DEF Authentication1, Settle, Reply, TypeState
<1> QED
  BY <1>2, <1>3

\* Authentication2 of the target: a session of the pending key, with the counter
\* a session of that key already had.
LEMMA Authentication2Effect ==
    ASSUME IInv, NEW proof, Authentication2(Target, proof)
    PROVE  \/ Drops /\ reply'.kind # "session"
           \/ /\ drawn' = drawn /\ executed' = executed /\ pending' = pending
              /\ pending[Target] # None
              /\ session'[Target].key = pending[Target].random2
              /\ session'[Target].number = IF session[Target] = None THEN 0 ELSE session[Target].number
              /\ session[Target] # None => session[Target].key = pending[Target].random2
              /\ \A i \in System \ {Target} : session'[i] = session[i]
<1>1. Target \in System /\ TypeState
  BY ReaderAssumption DEF IInv
<1>2. CASE SelectOnly(Target) /\ reply' = Silent
  BY <1>1, <1>2, SelectDrops DEF Silent, Reply
<1>3. CASE ~(SelectOnly(Target) /\ reply' = Silent)
  <2> DEFINE p == PendingOf(Target)
             id == TransactionId(p.random1)
             s == [number |-> CarriedNumber(SessionOf(Target), id), id |-> id,
                   key |-> p.random2, services |-> p.services]
  <2>1. Settle(Target, 2, p, s) /\ p # None /\ drawn' = drawn
    BY <1>3 DEF Authentication2
  <2>2. p = pending[Target] /\ SessionOf(Target) = session[Target]
    BY <2>1 DEF PendingOf, SessionOf, Kept
  <2>3. session[Target] # None => /\ session[Target].id = id
                                  /\ session[Target].key = pending[Target].random2
    BY <1>1, <2>2 DEF IInv, ModeConsistent
  <2>4. s.number = (IF session[Target] = None THEN 0 ELSE session[Target].number)
        /\ s.key = pending[Target].random2
    BY <2>2, <2>3 DEF CarriedNumber
  <2> HIDE DEF s, p
  <2>5. /\ session'[Target] = s /\ \A i \in System \ {Target} : session'[i] = session[i]
        /\ pending' = pending /\ executed' = executed
    BY <1>1, <2>1, <2>2 DEF Settle, TypeState
  <2> QED
    BY <2>1, <2>2, <2>3, <2>4, <2>5
<1> QED
  BY <1>2, <1>3

\* A secure frame: the System it reached runs it and moves its counter past it.
LEMMA SecureFrameEffect ==
    ASSUME IInv, NEW f \in Frame, SecureFrame(f)
    PROVE  \/ Drops /\ reply'.kind # "secure"
           \/ /\ drawn' = drawn /\ pending' = pending
              /\ \E n \in DOMAIN executed' : executed'[n] = [key |-> f.key, number |-> f.number]
              /\ \A n \in DOMAIN executed : n \in DOMAIN executed' /\ executed'[n] = executed[n]
              /\ \E i \in System : /\ session'[i].key = f.key /\ session'[i].number = f.number + 1
                                  /\ \A j \in System \ {i} : session'[j] = session[j]
<1>1. CASE reply' = Silent /\ UNCHANGED <<mode, session, executed>>
  BY <1>1 DEF SecureFrame, Drops, Silent, Reply
<1>2. ASSUME NEW i \in System, AcceptsFrame(i, f),
             session' = [session EXCEPT ![i] = [@ EXCEPT !.number = f.number + 1]],
             executed' = Append(executed, [key |-> f.key, number |-> f.number])
      PROVE  /\ \E n \in DOMAIN executed' : executed'[n] = [key |-> f.key, number |-> f.number]
             /\ \A n \in DOMAIN executed : n \in DOMAIN executed' /\ executed'[n] = executed[n]
             /\ \E j \in System : /\ session'[j].key = f.key /\ session'[j].number = f.number + 1
                                 /\ \A k \in System \ {j} : session'[k] = session[k]
  <2> DEFINE e == [key |-> f.key, number |-> f.number]
             L == Len(executed)
  <2>1. session[i] \in Session /\ session[i].key = f.key /\ session \in [System -> Session \cup {None}]
    BY <1>2 DEF AcceptsFrame, IInv, TypeState
  <2>2. /\ session'[i].key = f.key /\ session'[i].number = f.number + 1
        /\ \A k \in System \ {i} : session'[k] = session[k]
    BY <1>2, <2>1 DEF Session
  <2>3. executed \in Seq(Entry) /\ e \in Entry
    BY DEF IInv, TypeState, Frame, Entry
  <2>4. executed' = Append(executed, e)
    BY <1>2
  <2> HIDE DEF e
  <2>5. L \in Nat /\ DOMAIN executed = 1..L /\ DOMAIN executed' = 1..(L + 1)
        /\ executed'[L + 1] = e /\ \A n \in 1..L : executed'[n] = executed[n]
    BY <2>3, <2>4, AppendProperties
  <2>6. L + 1 \in DOMAIN executed' /\ \A n \in DOMAIN executed : n \in DOMAIN executed'
    BY <2>5
  <2> QED
    BY <2>2, <2>5, <2>6 DEF e
<1> QED
  BY <1>1, <1>2 DEF SecureFrame

-----------------------------------------------------------------------------
(* How a step extends the challenges and the commands of the link           *)

\* A message that is neither a challenge nor a command changes neither set.
LEMMA OtherMessage ==
    ASSUME NEW x, net' = net \cup {x}, x.type \notin {"1b2a", "command"}
    PROVE  Challenges' = Challenges /\ Issued' = Issued
BY DEF Challenges, Issued

\* A challenge is one pair more.
LEMMA NewChallenge ==
    ASSUME NEW r1, NEW k, net' = net \cup {Challenge1b2a(r1, k)}
    PROVE  Challenges' = Challenges \cup {<<r1, k>>} /\ Issued' = Issued
<1> DEFINE x == Challenge1b2a(r1, k)
<1>1. x.type = "1b2a" /\ x.random1 = r1 /\ x.random2 = k
  BY DEF Challenge1b2a
<1> HIDE DEF x
<1>2. net' = net \cup {x}
  BY DEF x
<1>3. Issued' = Issued
  BY <1>1, <1>2 DEF Issued
<1>4. ASSUME NEW y PROVE y \in Challenges' <=> y \in Challenges \cup {<<r1, k>>}
  BY <1>1, <1>2 DEF Challenges
<1> QED
  BY <1>3, <1>4

\* A command is one frame more.
LEMMA NewCommand ==
    ASSUME NEW f, net' = net \cup {SecureCommand(f)}
    PROVE  Challenges' = Challenges /\ Issued' = Issued \cup {f}
<1> DEFINE x == SecureCommand(f)
<1>1. x.type = "command" /\ x.frame = f
  BY DEF SecureCommand
<1> HIDE DEF x
<1>2. net' = net \cup {x}
  BY DEF x
<1>3. Challenges' = Challenges
  BY <1>1, <1>2 DEF Challenges
<1>4. ASSUME NEW y PROVE y \in Issued' <=> y \in Issued \cup {f}
  BY <1>1, <1>2 DEF Issued
<1> QED
  BY <1>3, <1>4

-----------------------------------------------------------------------------
(* Every step keeps the invariant of the link                               *)

\* The reader draws a random_1 that no frame carries yet.
LEMMA StartKeeps ==
    ASSUME MessagingTyped, LinkInv, NEW r1 \in Random1, StartAuthentication(r1)
    PROVE  LinkInv'
<1>1. Challenges' = Challenges /\ Issued' = Issued
  BY OtherMessage DEF StartAuthentication, Challenge1a
<1>2. ChallengesAreOwn'
  BY <1>1 DEF LinkInv, ChallengesAreOwn, StartAuthentication, Challenge1a, cardVars
<1>3. InstalledOnce'
  <2>1. \A s \in installed : s.random1 \in spent
    BY DEF LinkInv, InstalledOnce, ChallengesAreOwn
  <2> QED
    BY <1>1, <2>1 DEF LinkInv, InstalledOnce, StartAuthentication
<1>4. NumbersAreOwn'
  BY <1>1 DEF LinkInv, NumbersAreOwn, StartAuthentication
<1>5. AnswersAreOwn'
  BY <1>1 DEF LinkInv, AnswersAreOwn, StartAuthentication, Challenge1a, cardVars
<1> QED
  BY <1>2, <1>3, <1>4, <1>5 DEF LinkInv

\* The reader takes the key of a challenge to its own random_1.
LEMMA ChallengeKeeps ==
    ASSUME MessagingTyped, LinkInv, NEW m \in net, ReceiveChallenge(m)
    PROVE  LinkInv'
<1>1. Challenges' = Challenges /\ Issued' = Issued
  BY OtherMessage DEF ReceiveChallenge, Challenge2b
<1>2. ChallengesAreOwn'
  BY <1>1 DEF LinkInv, ChallengesAreOwn, ReceiveChallenge, Challenge2b, cardVars
<1>3. InstalledOnce'
  <2>1. <<random1, m.random2>> \in Challenges
    BY DEF ReceiveChallenge, Verifies1b, Challenges
  <2> QED
    BY <1>1, <2>1 DEF LinkInv, InstalledOnce, ReceiveChallenge
<1>4. NumbersAreOwn'
  BY <1>1 DEF LinkInv, NumbersAreOwn, ReceiveChallenge
<1>5. AnswersAreOwn'
  BY <1>1 DEF LinkInv, AnswersAreOwn, ReceiveChallenge, Challenge2b, cardVars
<1> QED
  BY <1>2, <1>3, <1>4, <1>5 DEF LinkInv

\* The session that is installed has a key under which nothing was sent yet.
LEMMA GrantKeeps ==
    ASSUME MessagingTyped, LinkInv, NEW m \in net, ReceiveGrant(m)
    PROVE  LinkInv'
<1>0. net' = net /\ Challenges' = Challenges /\ Issued' = Issued
  BY DEF ReceiveGrant, Challenges, Issued
<1>1. /\ ctx'.key = random2 /\ ctx'.id = TransactionId(random1)
      /\ installed' = installed \cup {[random1 |-> random1, key |-> random2]}
  BY DEF ReceiveGrant
<1>2. ChallengesAreOwn'
  BY <1>0 DEF LinkInv, ChallengesAreOwn, ReceiveGrant, cardVars
<1>3. <<random1, random2>> \in Challenges /\ \A s \in installed : s.random1 # random1
  BY DEF LinkInv, InstalledOnce, ReceiveGrant
<1>4. InstalledOnce'
  <2> DEFINE new == [random1 |-> random1, key |-> random2]
  <2>1. new.random1 = random1 /\ new.key = random2
    OBVIOUS
  <2> HIDE DEF new
  <2>2. installed' = installed \cup {new} /\ phase' = "idle"
    BY <1>1 DEF new, ReceiveGrant, Return
  <2>3. \A s \in installed' : <<s.random1, s.key>> \in Challenges'
    BY <1>0, <1>3, <2>1, <2>2 DEF LinkInv, InstalledOnce
  <2>4. \E s \in installed' : s.key = ctx'.key /\ ctx'.id = TransactionId(s.random1)
    BY <1>1, <2>1, <2>2
  <2> QED
    BY <2>2, <2>3, <2>4 DEF InstalledOnce
<1>5. \A f \in Issued : f.key # random2
  <2> SUFFICES ASSUME NEW f \in Issued, f.key = random2 PROVE FALSE
    OBVIOUS
  <2>1. PICK s \in installed : s.key = random2
    BY DEF LinkInv, NumbersAreOwn
  <2>2. <<s.random1, random2>> \in Challenges
    BY <2>1 DEF LinkInv, InstalledOnce
  <2>3. s.random1 = random1
    BY <1>3, <2>2 DEF LinkInv, ChallengesAreOwn
  <2> QED
    BY <1>3, <2>3
<1>6. NumbersAreOwn'
  BY <1>0, <1>1, <1>5 DEF LinkInv, NumbersAreOwn, ReceiveGrant, Return
<1>7. AnswersAreOwn'
  BY <1>0 DEF LinkInv, AnswersAreOwn, ReceiveGrant, cardVars
<1> QED
  BY <1>2, <1>4, <1>6, <1>7 DEF LinkInv

\* A command is sent under a number beyond every number of its key.
LEMMA SendKeeps ==
    ASSUME MessagingTyped, LinkInv, NEW command \in ReaderCommands, NEW element \in Elements,
           SendCommand(command, element)
    PROVE  LinkInv'
<1> DEFINE f == [key |-> ctx.key, id |-> ctx.id, number |-> ctx.number + 1,
                 command |-> command, element |-> element]
<1>1. /\ net' = net \cup {SecureCommand(f)} /\ ctx' = Captured(ctx) /\ sent' = f
      /\ phase' = "exchange" /\ phase = "idle" /\ ctx # None
      /\ UNCHANGED <<cardVars, random1, random2, spent, installed, completed>>
  BY DEF SendCommand
<1>2. /\ f.key = ctx.key /\ f.number = ctx.number + 1 /\ ctx' # None
      /\ ctx'.number = ctx.number + 1 /\ ctx'.key = ctx.key /\ ctx'.id = ctx.id
      /\ ctx.number \in Nat
  <2>1. ctx.number < MaxTransaction
    BY DEF SendCommand
  <2>2. Captured(ctx) # None
    BY <1>1, <2>1, FrameIsTyped, ContextAssumption DEF MessagingTyped
  <2>3. ctx.number \in Nat
    BY <1>1 DEF MessagingTyped, ContextTyped, Context, Number
  <2> QED
    BY <1>1, <2>1, <2>2, <2>3, FrameIsTyped DEF MessagingTyped
<1> HIDE DEF f
<1>3. Challenges' = Challenges /\ Issued' = Issued \cup {f}
  BY <1>1, NewCommand
<1>4. ChallengesAreOwn'
  BY <1>1, <1>3 DEF LinkInv, ChallengesAreOwn, cardVars, SecureCommand
<1>5. InstalledOnce'
  BY <1>1, <1>2, <1>3 DEF LinkInv, InstalledOnce
<1>6. \A g \in Issued : g.number \in Nat
  BY DEF MessagingTyped, NetTyped, Issued, Frame, Number
<1>7. NumbersAreOwn'
  <2>1. \A g \in Issued' : \E s \in installed' : s.key = g.key
    BY <1>1, <1>2, <1>3 DEF LinkInv, NumbersAreOwn, InstalledOnce
  <2>2. \A g \in Issued : g.key = ctx.key => g.number <= ctx.number
    BY <1>1 DEF LinkInv, NumbersAreOwn
  <2>3. \A g \in Issued' : ctx'.key = g.key => g.number <= ctx'.number
    BY <1>2, <1>3, <1>6, <2>2
  <2>4. \A g, h \in Issued' : g.key = h.key /\ g.number = h.number => g = h
    <3>1. \A g \in Issued : ~(g.key = f.key /\ g.number = f.number)
      BY <1>2, <1>6, <2>2
    <3>2. \A g, h \in Issued : g.key = h.key /\ g.number = h.number => g = h
      BY DEF LinkInv, NumbersAreOwn
    <3> QED
      BY <1>3, <3>1, <3>2
  <2> QED
    BY <1>1, <1>2, <1>3, <2>1, <2>3, <2>4 DEF NumbersAreOwn
<1>8. AnswersAreOwn'
  BY <1>1, <1>3 DEF LinkInv, AnswersAreOwn, cardVars, SecureCommand
<1> QED
  BY <1>4, <1>5, <1>7, <1>8 DEF LinkInv

\* The answer that is accepted moves the counter on.
LEMMA AnswerKeeps ==
    ASSUME MessagingTyped, LinkInv, NEW m \in net, ReceiveAnswer(m)
    PROVE  LinkInv'
<1>0. net' = net /\ Challenges' = Challenges /\ Issued' = Issued
  BY DEF ReceiveAnswer, Challenges, Issued
<1>1. ctx \in Context /\ ctx # None
  BY DEF ReceiveAnswer, MessagingTyped, ContextTyped
<1>2. /\ ctx'.number = m.number /\ ctx'.key = ctx.key /\ ctx'.id = ctx.id
      /\ m.number > ctx.number /\ m.number \in Nat /\ ctx.number \in Nat
  BY <1>1 DEF ReceiveAnswer, Advances, Context, MessagingTyped, NetTyped, Number
<1>3. ChallengesAreOwn'
  BY <1>0 DEF LinkInv, ChallengesAreOwn, ReceiveAnswer, cardVars
<1>4. InstalledOnce'
  BY <1>0, <1>1, <1>2 DEF LinkInv, InstalledOnce, ReceiveAnswer, Return
<1>5. \A g \in Issued : g.number \in Nat
  BY DEF MessagingTyped, NetTyped, Issued, Frame, Number
<1>6. NumbersAreOwn'
  BY <1>0, <1>1, <1>2, <1>5 DEF LinkInv, NumbersAreOwn, ReceiveAnswer, Return
<1>7. AnswersAreOwn'
  BY <1>0 DEF LinkInv, AnswersAreOwn, ReceiveAnswer, cardVars
<1> QED
  BY <1>3, <1>4, <1>6, <1>7 DEF LinkInv

\* Errors, a cleared context and the disturbances of the card only take away.
LEMMA DroppingKeeps ==
    ASSUME IInv, LinkInv, net' = net, UNCHANGED <<spent, installed>>,
           phase' \in {phase, "idle"}, ctx' \in {ctx, None},
           phase' = "exchange" => ctx' = ctx,
           phase' # "idle" => UNCHANGED <<random1, random2, sent>>,
           Drops
    PROVE  LinkInv'
<1>0. Challenges' = Challenges /\ Issued' = Issued
  BY DEF Challenges, Issued
<1>1. ChallengesAreOwn'
  BY <1>0 DEF LinkInv, ChallengesAreOwn, Drops
<1>2. InstalledOnce'
  BY <1>0 DEF LinkInv, InstalledOnce
<1>3. NumbersAreOwn'
  BY <1>0 DEF LinkInv, NumbersAreOwn
<1>4. AnswersAreOwn'
  BY <1>0 DEF LinkInv, AnswersAreOwn, Drops
<1> QED
  BY <1>1, <1>2, <1>3, <1>4 DEF LinkInv

\* The card answers Authentication1 with a key of its own.
LEMMA CardChallengeKeeps ==
    ASSUME IInv, MessagingTyped, LinkInv, NEW m \in net, CardReceives(m), m.type = "1a"
    PROVE  LinkInv'
<1>1. /\ Authentication1(Target, ReaderAreas, ReaderServices, m.random1)
      /\ net' = net \cup (IF reply'.kind = "challenge"
                         THEN {Challenge1b2a(m.random1, drawn')} ELSE {})
      /\ UNCHANGED readerVars
  BY DEF CardReceives
<1>2. CASE Drops /\ reply'.kind # "challenge"
  BY <1>1, <1>2, DroppingKeeps DEF readerVars
<1>3. CASE /\ reply'.kind = "challenge"
           /\ drawn' = drawn + 1 /\ executed' = executed
           /\ pending'[Target].random1 = m.random1 /\ pending'[Target].random2 = drawn'
           /\ session'[Target] = None
           /\ \A i \in System \ {Target} : pending'[i] = pending[i] /\ session'[i] = session[i]
  <2>1. net' = net \cup {Challenge1b2a(m.random1, drawn')}
    BY <1>1, <1>3
  <2>2. Challenges' = Challenges \cup {<<m.random1, drawn'>>} /\ Issued' = Issued
    BY <2>1, NewChallenge
  <2>3. drawn \in Nat /\ m.random1 \in spent /\ UNCHANGED readerVars /\ spent' = spent
    BY <1>1, BoundAssumption DEF IInv, TypeState, LinkInv, ChallengesAreOwn, readerVars
  <2>4. \A c \in Challenges : c[2] \in Nat /\ c[1] \in spent /\ c[2] <= drawn
    BY BoundAssumption
       DEF LinkInv, ChallengesAreOwn, MessagingTyped, NetTyped, Challenges, Key
  <2>5. ChallengesAreOwn'
    <3>1. \A x \in net' : x.type = "1a" => x.random1 \in spent'
      BY <2>1, <2>3 DEF LinkInv, ChallengesAreOwn, Challenge1b2a
    <3>2. \A c \in Challenges' : c[1] \in spent' /\ c[2] <= drawn'
      BY <1>3, <2>2, <2>3, <2>4
    <3>3. \A c, d \in Challenges' : c[2] = d[2] => c[1] = d[1]
      <4>1. \A c \in Challenges : c[2] # drawn'
        BY <1>3, <2>3, <2>4
      <4>2. \A c, d \in Challenges : c[2] = d[2] => c[1] = d[1]
        BY DEF LinkInv, ChallengesAreOwn
      <4> QED
        BY <2>2, <4>1, <4>2
    <3>4. \A i \in System :
            pending'[i] # None => <<pending'[i].random1, pending'[i].random2>> \in Challenges'
      BY <1>3, <2>2 DEF LinkInv, ChallengesAreOwn
    <3> QED
      BY <3>1, <3>2, <3>3, <3>4 DEF ChallengesAreOwn
  <2>6. InstalledOnce'
    BY <2>2, <2>3 DEF LinkInv, InstalledOnce, readerVars
  <2>7. NumbersAreOwn'
    BY <2>2, <2>3 DEF LinkInv, NumbersAreOwn, readerVars
  <2>8. AnswersAreOwn'
    BY <1>3, <2>1, <2>2 DEF LinkInv, AnswersAreOwn, Challenge1b2a
  <2> QED
    BY <2>5, <2>6, <2>7, <2>8 DEF LinkInv
<1> QED
  BY <1>1, <1>2, <1>3, Authentication1Effect

\* The card answers Authentication2 with the session of the pending key.
LEMMA CardGrantKeeps ==
    ASSUME IInv, MessagingTyped, LinkInv, NEW m \in net, CardReceives(m), m.type = "2b"
    PROVE  LinkInv'
<1>1. /\ Authentication2(Target, m.random2)
      /\ net' = net \cup (IF reply'.kind = "session"
                         THEN {SessionGrant(session'[Target])} ELSE {})
      /\ UNCHANGED readerVars
  BY DEF CardReceives
<1>2. CASE Drops /\ reply'.kind # "session"
  BY <1>1, <1>2, DroppingKeeps DEF readerVars
<1>3. CASE /\ drawn' = drawn /\ executed' = executed /\ pending' = pending
           /\ pending[Target] # None
           /\ session'[Target].key = pending[Target].random2
           /\ session'[Target].number = IF session[Target] = None THEN 0 ELSE session[Target].number
           /\ session[Target] # None => session[Target].key = pending[Target].random2
           /\ \A i \in System \ {Target} : session'[i] = session[i]
  <2> DEFINE x == SessionGrant(session'[Target])
  <2>1. x.type = "grant"
    BY DEF SessionGrant
  <2> HIDE DEF x
  <2>2. net' = net \/ net' = net \cup {x}
    BY <1>1 DEF x
  <2>3. Challenges' = Challenges /\ Issued' = Issued
    BY <2>1, <2>2, OtherMessage DEF Challenges, Issued
  <2>4. ChallengesAreOwn'
    BY <1>1, <1>3, <2>1, <2>2, <2>3 DEF LinkInv, ChallengesAreOwn, readerVars
  <2>5. InstalledOnce' /\ NumbersAreOwn'
    BY <1>1, <2>3 DEF LinkInv, InstalledOnce, NumbersAreOwn, readerVars
  <2>6. AnswersAreOwn'
    BY <1>3, <2>1, <2>2, <2>3 DEF LinkInv, AnswersAreOwn
  <2> QED
    BY <2>4, <2>5, <2>6 DEF LinkInv
<1> QED
  BY <1>1, <1>2, <1>3, Authentication2Effect

\* The card answers a command of the reader that it has just run.
LEMMA CardAnswerKeeps ==
    ASSUME IInv, MessagingTyped, LinkInv, NEW m \in net, CardReceives(m), m.type = "command"
    PROVE  LinkInv'
<1> DEFINE f == m.frame
<1>0. f \in Frame /\ f \in Issued
  BY DEF MessagingTyped, NetTyped, Issued
<1>1. /\ SecureFrame(f)
      /\ net' = net \cup (IF reply'.kind = "secure" THEN {SecureAnswer(f)} ELSE {})
      /\ UNCHANGED readerVars
  BY DEF CardReceives
<1> HIDE DEF f
<1>2. CASE Drops /\ reply'.kind # "secure"
  BY <1>1, <1>2, DroppingKeeps DEF readerVars
<1>3. CASE /\ drawn' = drawn /\ pending' = pending
           /\ \E n \in DOMAIN executed' : executed'[n] = [key |-> f.key, number |-> f.number]
           /\ \A n \in DOMAIN executed : n \in DOMAIN executed' /\ executed'[n] = executed[n]
           /\ \E i \in System : /\ session'[i].key = f.key /\ session'[i].number = f.number + 1
                               /\ \A j \in System \ {i} : session'[j] = session[j]
  <2> DEFINE x == SecureAnswer(f)
  <2>1. x.type = "answer" /\ x.of = f
    BY DEF SecureAnswer
  <2> HIDE DEF x
  <2>2. net' = net \/ net' = net \cup {x}
    BY <1>1 DEF x
  <2>3. Challenges' = Challenges /\ Issued' = Issued
    BY <2>1, <2>2, OtherMessage DEF Challenges, Issued
  <2>4. ChallengesAreOwn'
    BY <1>1, <1>3, <2>1, <2>2, <2>3 DEF LinkInv, ChallengesAreOwn, readerVars
  <2>5. InstalledOnce' /\ NumbersAreOwn'
    BY <1>1, <2>3 DEF LinkInv, InstalledOnce, NumbersAreOwn, readerVars
  <2>6. AnswersAreOwn'
    <3>1. \A i \in System : session'[i] # None =>
            \/ session'[i].number = 0
            \/ \E g \in Issued' : g.key = session'[i].key /\ session'[i].number = g.number + 1
      BY <1>0, <1>3, <2>3 DEF LinkInv, AnswersAreOwn
    <3>2. ASSUME NEW y \in net', y.type = "answer"
          PROVE  /\ y.of \in Issued'
                 /\ \E n \in DOMAIN executed' :
                      executed'[n] = [key |-> y.of.key, number |-> y.of.number]
      <4>1. CASE y \in net
        BY <1>3, <2>3, <3>2, <4>1 DEF LinkInv, AnswersAreOwn
      <4>2. CASE y = x
        BY <1>0, <1>3, <2>1, <2>3, <4>2
      <4> QED
        BY <2>2, <3>2, <4>1, <4>2
    <3> QED
      BY <3>1, <3>2 DEF AnswersAreOwn
  <2> QED
    BY <2>4, <2>5, <2>6 DEF LinkInv
<1> QED
  BY <1>0, <1>1, <1>2, <1>3, SecureFrameEffect

\* The invariant of the link holds in every reachable state.
LEMMA LinkInvariant == MessagingSpec => []LinkInv
<1>1. MessagingInit => LinkInv
  <2> SUFFICES ASSUME MessagingInit PROVE LinkInv
    OBVIOUS
  <2>1. Challenges = {} /\ Issued = {}
    BY DEF MessagingInit, Challenges, Issued
  <2> QED
    BY <2>1 DEF MessagingInit, Init, LinkInv, ChallengesAreOwn, InstalledOnce, NumbersAreOwn,
                AnswersAreOwn
<1>2. IInv /\ MessagingTyped /\ LinkInv /\ [MessagingNext]_vars => LinkInv'
  <2> SUFFICES ASSUME IInv, MessagingTyped, LinkInv, [MessagingNext]_vars PROVE LinkInv'
    OBVIOUS
  <2>1. ASSUME NEW m \in net, CardReceives(m)
        PROVE  LinkInv'
    <3>1. m.type \in {"1a", "2b", "command"}
      BY <2>1 DEF CardReceives
    <3> QED
      BY <2>1, <3>1, CardChallengeKeeps, CardGrantKeeps, CardAnswerKeeps
  <2>2. CASE Fail
    <3>1. Drops
      BY <2>2 DEF Fail, Drops, cardVars
    <3> QED
      BY <2>2, <3>1, DroppingKeeps DEF Fail, Return
  <2>3. CASE ClearContext
    <3>1. Drops
      BY <2>3 DEF ClearContext, Drops, cardVars
    <3> QED
      BY <2>3, <3>1, DroppingKeeps DEF ClearContext
  <2>4. CASE Disturbance
    <3>1. Drops
      BY <2>4, DisturbanceDrops DEF IInv
    <3> QED
      BY <2>4, <3>1, DroppingKeeps DEF Disturbance, readerVars
  <2>5. CASE UNCHANGED vars
    <3>1. Drops
      BY <2>5 DEF vars, Drops, cardVars
    <3> QED
      BY <2>5, <3>1, DroppingKeeps DEF vars, readerVars
  <2> QED
    BY <2>1, <2>2, <2>3, <2>4, <2>5, StartKeeps, ChallengeKeeps, GrantKeeps, AnswerKeeps,
       SendKeeps DEF MessagingNext, Reader
<1>3. MessagingSpec => []IInv
  BY MessagingContainsCard, Inductive, PTL
<1> QED
  BY <1>1, <1>2, <1>3, MessagingTypes, PTL DEF MessagingSpec

-----------------------------------------------------------------------------
(* The properties                                                           *)

\* Two authentications never share a session key.
THEOREM SessionsStayFresh == MessagingSpec => []SessionsAreFresh
<1>1. LinkInv => SessionsAreFresh
  BY DEF LinkInv, InstalledOnce, ChallengesAreOwn, SessionsAreFresh
<1> QED
  BY <1>1, LinkInvariant, PTL

\* The card's counter is never more than one ahead of the reader's, whatever
\* the link loses, repeats or reorders.
THEOREM CounterLeadsByOne == MessagingSpec => []CounterLead
<1>1. IInv /\ MessagingTyped /\ LinkInv => CounterLead
  <2> SUFFICES ASSUME IInv, MessagingTyped, LinkInv, ctx # None, session[Target] # None,
                      session[Target].key = ctx.key
               PROVE  session[Target].id = ctx.id /\ session[Target].number <= ctx.number + 1
    BY DEF CounterLead
  <2>0. Target \in System
    BY ReaderAssumption
  <2>1. /\ pending[Target] # None /\ session[Target].key = pending[Target].random2
        /\ session[Target].id = TransactionId(pending[Target].random1)
    BY <2>0 DEF IInv, ModeConsistent
  <2>2. <<pending[Target].random1, ctx.key>> \in Challenges
    BY <2>0, <2>1 DEF LinkInv, ChallengesAreOwn
  <2>3. PICK s \in installed : s.key = ctx.key /\ ctx.id = TransactionId(s.random1)
    BY DEF LinkInv, InstalledOnce
  <2>4. <<s.random1, ctx.key>> \in Challenges
    BY <2>3 DEF LinkInv, InstalledOnce
  <2>5. s.random1 = pending[Target].random1
    BY <2>2, <2>4 DEF LinkInv, ChallengesAreOwn
  <2>6. ctx.number \in Nat
    BY DEF MessagingTyped, ContextTyped, Context, Number
  <2>7. \A f \in Issued : f.number \in Nat /\ (f.key = ctx.key => f.number <= ctx.number)
    BY DEF LinkInv, NumbersAreOwn, MessagingTyped, NetTyped, Issued, Frame, Number
  <2>8. session[Target].number <= ctx.number + 1
    BY <2>0, <2>6, <2>7 DEF LinkInv, AnswersAreOwn
  <2> QED
    BY <2>1, <2>3, <2>5, <2>8
<1> QED
  BY <1>1, LinkInvariant, MessagingTypes, MessagingContainsCard, Inductive, PTL

\* An exchange that succeeds returns the answer to the command that was sent,
\* and the card ran that command.
THEOREM AnswersMatch == MessagingSpec => []AnswerMatches
<1>1. MessagingInit => AnswerMatches
  BY DEF MessagingInit, AnswerMatches
<1>2. ASSUME IInv, MessagingTyped, LinkInv, AnswerMatches, [MessagingNext]_vars
      PROVE  AnswerMatches'
  <2>1. \A n \in DOMAIN executed : n \in DOMAIN executed' /\ executed'[n] = executed[n]
    <3>1. ASSUME NEW f \in Frame, SecureFrame(f)
          PROVE  \A n \in DOMAIN executed : n \in DOMAIN executed' /\ executed'[n] = executed[n]
      BY <1>2, <3>1, SecureFrameEffect DEF Drops
    <3>2. [Next]_cardVars
      BY <1>2, StepIsCardStep DEF MessagingTyped
    <3>3. CASE executed' = executed
      BY <3>3
    <3>4. CASE executed' # executed
      <4>1. \E f \in Frame : SecureFrame(f)
        BY <3>2, <3>4
           DEF Next, cardVars, HostOperation, AddSystem, PowerOff, SetActiveSystem, Polling,
               Addressed, Inquiry, PlainAccess, ResetMode, Authentication1, Authentication2,
               SelectOnly, Settle
      <4> QED
        BY <3>1, <4>1
    <3> QED
      BY <3>3, <3>4
  <2>2. ASSUME NEW m \in net, ReceiveAnswer(m)
        PROVE  /\ completed' = completed \cup {[asked |-> sent, answered |-> m.of]}
               /\ m.of = sent
               /\ \E n \in DOMAIN executed :
                    executed[n] = [key |-> sent.key, number |-> sent.number]
    <3>1. /\ completed' = completed \cup {[asked |-> sent, answered |-> m.of]}
          /\ m.type = "answer" /\ phase = "exchange" /\ m.key = sent.key /\ m.number > ctx.number
      BY <2>2 DEF ReceiveAnswer, Advances
    <3>2. /\ m.of \in Frame /\ m.key = m.of.key /\ m.number = m.of.number + 1
          /\ m.of.number \in Nat
      BY <1>2, <3>1 DEF MessagingTyped, NetTyped, Frame, Number
    <3>3. m.of \in Issued /\ \E n \in DOMAIN executed :
                                executed[n] = [key |-> m.of.key, number |-> m.of.number]
      BY <1>2, <3>1 DEF LinkInv, AnswersAreOwn
    <3>4. /\ ctx # None /\ sent \in Issued /\ sent.key = ctx.key /\ sent.number = ctx.number
          /\ ctx.number \in Nat
      BY <1>2, <3>1
         DEF LinkInv, NumbersAreOwn, MessagingTyped, ContextTyped, Context, Number
    <3>5. m.of.number <= ctx.number
      BY <1>2, <3>1, <3>2, <3>3, <3>4 DEF LinkInv, NumbersAreOwn
    <3>6. m.of.number = sent.number
      BY <3>1, <3>2, <3>4, <3>5
    <3>7. m.of = sent
      BY <1>2, <3>1, <3>2, <3>3, <3>4, <3>6 DEF LinkInv, NumbersAreOwn
    <3> QED
      BY <3>1, <3>3, <3>7
  <2>3. CASE completed' = completed
    BY <1>2, <2>1, <2>3 DEF AnswerMatches
  <2>4. CASE \E m \in net : ReceiveAnswer(m)
    <3> DEFINE c == [asked |-> sent, answered |-> sent]
    <3>1. c.asked = sent /\ c.answered = sent
      OBVIOUS
    <3> HIDE DEF c
    <3>2. completed' = completed \cup {c}
          /\ \E n \in DOMAIN executed : executed[n] = [key |-> sent.key, number |-> sent.number]
      BY <2>2, <2>4 DEF c
    <3> QED
      BY <1>2, <2>1, <3>1, <3>2 DEF AnswerMatches
  <2> QED
    BY <1>2, <2>3, <2>4
       DEF MessagingNext, Reader, vars, readerVars, StartAuthentication, ReceiveChallenge,
           ReceiveGrant, SendCommand, Fail, ClearContext, CardReceives, Disturbance
<1>3. MessagingSpec => []IInv
  BY MessagingContainsCard, Inductive, PTL
<1> QED
  BY <1>1, <1>2, <1>3, LinkInvariant, MessagingTypes, PTL DEF MessagingSpec
=============================================================================
