-------------------------- MODULE ReaderApi_proofs --------------------------
(***************************************************************************)
(* Proofs about module ReaderApi, for any cards, PMm, operations, bitrates *)
(* and any number of calls and faults.                                     *)
(***************************************************************************)
EXTENDS ReaderApi, FiniteSetTheorems, FunctionTheorems, SequenceTheorems, WellFoundedInduction, TLAPS

-----------------------------------------------------------------------------
(* The time a call waits                                                    *)

\* Rounded up to whole milliseconds, a time is not shortened, up to the longest
\* one a u16 holds.
LEMMA RoundedUp ==
    ASSUME NEW x \in Nat, x <= U16_MAX * CYCLES_PER_MS
    PROVE  /\ seconds_to_timeout_ms(x) \in Nat
           /\ x <= seconds_to_timeout_ms(x) * CYCLES_PER_MS
<1>1. /\ (x + CYCLES_PER_MS - 1) \div CYCLES_PER_MS \in Nat
      /\ x <= ((x + CYCLES_PER_MS - 1) \div CYCLES_PER_MS) * CYCLES_PER_MS
  BY DEF CYCLES_PER_MS
<1> QED
  BY <1>1 DEF seconds_to_timeout_ms, Least, U16_MAX, CYCLES_PER_MS

-----------------------------------------------------------------------------
(* What goes on the air                                                     *)

CallType == [op : OpNames, n : 0..255, s : Nat, e : Nat, bad : BOOLEAN, id : 1..MaxCalls]

\* The lists that an answer, or the time for it, grows with are bounded.
LEMMA ListBounds ==
    /\ Operation("RequestService").max = 32 /\ Operation("RequestServiceV2").max = 32
    /\ Operation("GetNodeProperty").max = 16
    /\ Operation("RequestBlockInformation").max = 32 /\ Operation("RequestBlockInformationEx").max = 32
    /\ Operation("ReadWithoutEncryption").max = 15
    /\ Operation("Read").max = 14 /\ Operation("ReadV2").max = 15
BY DEF Operation, Op, ServiceOps, BlockOps, ListOps, ContainerOps, SystemOps, NodeOps, AuthOps,
       AuthV2Ops, ReadOps, WriteOps, ServiceV2Ops, RegisterOps

\* A request that is not refused keeps to the bounds of its operation.
LEMMA AcceptedFits ==
    ASSUME NEW r \in CallType, Refusal(r) = "Ok"
    PROVE  /\ r.n \in Operation(r.op).min..Operation(r.op).max
           /\ ~(CommandLen(r) > MAX_PACKET_LEN)
BY DEF Refusal

LEMMA SecureLenType ==
    ASSUME NEW scheme, NEW len \in Nat
    PROVE  SecureLen(scheme, len) \in Nat
BY DEF SecureLen

LEMMA Answerable ==
    ASSUME NEW r \in CallType, Refusal(r) = "Ok", ReaderAssumption
    PROVE  CommandLen(r) <= MAX_PACKET_LEN /\ AnswerLen(r) <= MAX_PACKET_LEN
<1>1. /\ r.n \in Operation(r.op).min..Operation(r.op).max
      /\ ~(CommandLen(r) > MAX_PACKET_LEN)
  BY AcceptedFits
<1>2. CommandLen(r) \in Nat
  <2> DEFINE k == r.n * (r.e + 16)
             m == r.n * r.e
  <2>1. k \in Nat /\ m \in Nat /\ r.s \in Nat
    BY DEF CallType
  <2>2. SecureLen(context, 1 + k) \in Nat
    BY <2>1, SecureLenType
  <2> HIDE DEF k, m
  <2>3. 12 + 2 * r.s + m \in Nat /\ 12 + 2 * r.s + k \in Nat
    BY <2>1
  <2> QED
    BY <2>2, <2>3 DEF CommandLen, k, m
<1>3. CommandLen(r) <= MAX_PACKET_LEN
  BY <1>1, <1>2 DEF MAX_PACKET_LEN
<1>4. r.n \in 0..255 /\ r.n <= Operation(r.op).max
  <2>1. r.n \in 0..255
    BY DEF CallType
  <2> QED
    BY <1>1, <2>1
<1>5. AnswerLen(r) <= MAX_PACKET_LEN
  <2>1. CASE r.op \in {"RequestService", "RequestServiceV2", "RequestBlockInformation",
                       "RequestBlockInformationEx", "GetNodeProperty", "ReadWithoutEncryption"}
    <3>1. r.op \in {"RequestService", "RequestServiceV2", "RequestBlockInformation", "RequestBlockInformationEx"}
          => r.n <= 32
      BY <1>4, ListBounds
    <3>2. /\ r.op = "GetNodeProperty" => r.n <= 16
          /\ r.op = "ReadWithoutEncryption" => r.n <= 15
      BY <1>4, ListBounds
    <3> QED
      BY <1>4, <2>1, <3>1, <3>2 DEF AnswerLen, MAX_PACKET_LEN
  <2>2. CASE r.op = "Read"
    <3>1. r.n <= 14
      BY <1>4, <2>2, ListBounds
    <3>2. Scheme(r.op) = "Des"
      BY <2>2 DEF Scheme, ReadOps
    <3> QED
      BY <1>4, <2>2, <3>1, <3>2 DEF AnswerLen, MAX_PACKET_LEN, SecureLen
  <2>3. CASE r.op = "ReadV2"
    <3>1. r.n <= 15
      BY <1>4, <2>3, ListBounds
    <3>2. Scheme(r.op) = "Aes128"
      BY <2>3 DEF Scheme, RegisterOps
    <3> QED
      BY <1>4, <2>3, <3>1, <3>2 DEF AnswerLen, MAX_PACKET_LEN, SecureLen
  <2>4. CASE r.op \notin {"RequestService", "RequestServiceV2", "RequestBlockInformation", "RequestBlockInformationEx",
                          "GetNodeProperty", "ReadWithoutEncryption", "Read", "ReadV2"}
    BY <2>4 DEF AnswerLen, MAX_PACKET_LEN
  <2> QED
    BY <2>1, <2>2, <2>3, <2>4
<1> QED
  BY <1>3, <1>5

\* The timeout covers the time the card promises: for every PMm byte, operation and
\* number of entries that the operation accepts.
LEMMA PromiseIsCovered ==
    ASSUME ReaderAssumption, NEW c \in Cards, NEW r \in CallType, Refusal(r) = "Ok"
    PROVE  /\ Promise(c, r.op, r.n) \in Nat
           /\ TimeoutMs(Pmm[c], r.op, r.n) * CYCLES_PER_MS \in Nat
           /\ Promise(c, r.op, r.n) <= TimeoutMs(Pmm[c], r.op, r.n) * CYCLES_PER_MS
<1> DEFINE byte == Pmm[c][Slot(r.op)]
           a == byte % 8
           t == IF Scaled(r.op) THEN ((byte \div 8) % 8) + 1 ELSE 0
           e == Pow4(byte \div 64)
           u == IF Scaled(r.op) THEN Units(r.op, r.n) ELSE r.n
<1>1. byte \in 0..255
  <2>1. Slot(r.op) \in 2..7
    BY DEF Slot
  <2>2. Pmm[c] \in [2..7 -> 0..255]
    BY DEF ReaderAssumption
  <2> QED
    BY <2>1, <2>2
<1> HIDE DEF byte
<1>2. a \in 0..7 /\ t \in 0..8 /\ e \in {1, 4, 16, 64}
  BY <1>1 DEF Pow4
<1>3. r.n \in 0..255 /\ u \in 0..255 /\ r.n <= u
  <2>1. r.n \in 0..255
    BY DEF CallType
  <2>2. r.n <= Operation(r.op).max
    BY <2>1, AcceptedFits
  <2>3. r.op \in {"RequestService", "RequestServiceV2"} => r.n <= 32
    BY <2>2, ListBounds
  <2>4. r.op = "GetNodeProperty" => r.n <= 16
    BY <2>2, ListBounds
  <2> QED
    BY <2>1, <2>3, <2>4 DEF Units, Least, Most
<1>4. Promise(c, r.op, r.n) = (t * r.n + a + 1) * e * 4096
  BY DEF Promise, byte
<1>5. TimeoutMs(Pmm[c], r.op, r.n) = seconds_to_timeout_ms(4096 * (t * u + a + 1) * e)
  <2>1. Term(Timing(byte), r.op, r.n) = t * u + a + 1
    BY <1>1, <1>3 DEF Term, Timing
  <2>2. Timing(byte).e = byte \div 64
    BY DEF Timing
  <2> QED
    BY <2>1, <2>2 DEF TimeoutMs, byte
<1> HIDE DEF a, t, e, u
<1> DEFINE x == t * r.n
           y == t * u
<1>6. x \in Nat /\ y \in Nat /\ x <= y /\ y <= 2040
  <2>1. CASE t = 0
    BY <1>3, <2>1
  <2>2. CASE t = 1
    BY <1>3, <2>2
  <2>3. CASE t = 2
    BY <1>3, <2>3
  <2>4. CASE t = 3
    BY <1>3, <2>4
  <2>5. CASE t = 4
    BY <1>3, <2>5
  <2>6. CASE t = 5
    BY <1>3, <2>6
  <2>7. CASE t = 6
    BY <1>3, <2>7
  <2>8. CASE t = 7
    BY <1>3, <2>8
  <2>9. CASE t = 8
    BY <1>3, <2>9
  <2> QED
    BY <1>2, <2>1, <2>2, <2>3, <2>4, <2>5, <2>6, <2>7, <2>8, <2>9
<1> HIDE DEF x, y
<1> DEFINE p == (x + a + 1) * e * 4096
           q == 4096 * (y + a + 1) * e
<1>7. p \in Nat /\ q \in Nat /\ p <= q /\ q <= U16_MAX * CYCLES_PER_MS
  <2>1. CASE e = 1
    BY <1>2, <1>6, <2>1 DEF U16_MAX, CYCLES_PER_MS
  <2>2. CASE e = 4
    BY <1>2, <1>6, <2>2 DEF U16_MAX, CYCLES_PER_MS
  <2>3. CASE e = 16
    BY <1>2, <1>6, <2>3 DEF U16_MAX, CYCLES_PER_MS
  <2>4. CASE e = 64
    BY <1>2, <1>6, <2>4 DEF U16_MAX, CYCLES_PER_MS
  <2> QED
    BY <1>2, <2>1, <2>2, <2>3, <2>4
<1>8. Promise(c, r.op, r.n) = p /\ TimeoutMs(Pmm[c], r.op, r.n) = seconds_to_timeout_ms(q)
  BY <1>4, <1>5 DEF x, y
<1> HIDE DEF p, q
<1> DEFINE m == seconds_to_timeout_ms(q)
<1>9. m \in Nat /\ q <= m * CYCLES_PER_MS
  BY <1>7, RoundedUp
<1> HIDE DEF m
<1>10. p <= m * CYCLES_PER_MS /\ m * CYCLES_PER_MS \in Nat
  BY <1>7, <1>9 DEF CYCLES_PER_MS
<1> QED
  BY <1>7, <1>8, <1>10 DEF m

-----------------------------------------------------------------------------
(* The order in which bitrates are tried                                    *)

LEMMA LeastIndex ==
    ASSUME NEW S \in SUBSET Nat, S # {}
    PROVE  \E x \in S : \A y \in S : x <= y
<1>1. PICK x \in S : \A y \in S : <<y, x>> \notin OpToRel(<, Nat)
  BY WFMin, NatLessThanWellFounded, Zenon
<1>2. \A y \in S : ~(y < x)
  BY <1>1, Zenon DEF OpToRel
<1>3. \A y \in S : x <= y
  BY <1>2
<1> QED
  BY <1>3

\* Sorting by rank: the bitrates of order_felica_bitrates are the requested ones, all of
\* them, and in the order of their preference.
Sorted(s) == \A i, j \in DOMAIN s : i <= j => Preference(s[i]) <= Preference(s[j])

LEMMA OrderedBitrates ==
    ASSUME NEW rates \in Seq(STRING)
    PROVE  LET o == order_felica_bitrates(rates)
           IN  /\ o \in Seq(STRING)
               /\ \A m \in DOMAIN rates : \E k \in DOMAIN o : o[k] = rates[m]
               /\ Sorted(o)
<1> DEFINE o == order_felica_bitrates(rates)
           K == Kept(rates)
           N == Cardinality(K)
           Pref(i) == Preference(rates[i])
           A(i) == Ahead(rates, i)
           rank(i) == Cardinality(A(i))
<1>1. DOMAIN rates = 1..Len(rates) /\ Len(rates) \in Nat /\ \A i \in DOMAIN rates : rates[i] \in STRING
  OBVIOUS
<1>2. K \subseteq 1..Len(rates) /\ IsFiniteSet(K) /\ N \in Nat
  <2>1. K \subseteq 1..Len(rates)
    BY <1>1 DEF Kept
  <2>2. IsFiniteSet(1..Len(rates))
    BY <1>1, FS_Interval
  <2>3. IsFiniteSet(K)
    BY <2>1, <2>2, FS_Subset
  <2> QED
    BY <2>1, <2>3, FS_CardinalityType
<1>3. \A i \in K : Pref(i) \in Nat /\ i \in Nat
  BY <1>2 DEF Preference
<1>4. \A i, j : j \in A(i) <=> j \in K /\ (Pref(j) < Pref(i) \/ (Pref(j) = Pref(i) /\ j < i))
  BY DEF Ahead
<1> HIDE DEF K, Pref, A
<1>5. ASSUME NEW i \in K
      PROVE  IsFiniteSet(A(i)) /\ rank(i) \in 0..(N - 1)
  <2>1. A(i) \subseteq K \ {i}
    BY <1>3, <1>4
  <2>2. IsFiniteSet(K \ {i}) /\ Cardinality(K \ {i}) = N - 1
    BY <1>2, FS_RemoveElement
  <2>3. IsFiniteSet(A(i)) /\ rank(i) <= N - 1
    BY <2>1, <2>2, FS_Subset
  <2>4. rank(i) \in Nat
    BY <2>3, FS_CardinalityType
  <2> QED
    BY <1>2, <2>3, <2>4
<1>6. ASSUME NEW i \in K, NEW j \in A(i)
      PROVE  j \in K /\ rank(j) < rank(i)
  <2>1. j \in K /\ A(j) \cup {j} \subseteq A(i) /\ j \notin A(j)
    BY <1>3, <1>4
  <2>2. IsFiniteSet(A(j)) /\ rank(j) \in Nat /\ IsFiniteSet(A(i)) /\ rank(i) \in Nat
    BY <1>5, <2>1
  <2>3. Cardinality(A(j) \cup {j}) = rank(j) + 1
    BY <2>1, <2>2, FS_AddElement
  <2>4. Cardinality(A(j) \cup {j}) <= rank(i)
    BY <2>1, <2>2, FS_Subset
  <2> QED
    BY <2>1, <2>2, <2>3, <2>4
<1>7. \A i, j \in K : i # j => j \in A(i) \/ i \in A(j)
  BY <1>3, <1>4
<1>8. \A i, j \in K : rank(i) = rank(j) => i = j
  <2> SUFFICES ASSUME NEW i \in K, NEW j \in K, rank(i) = rank(j), i # j PROVE FALSE
    OBVIOUS
  <2>1. rank(i) < rank(j) \/ rank(j) < rank(i)
    BY <1>6, <1>7
  <2> QED
    BY <1>5, <2>1
<1>9. \A k \in 0..(N - 1) : \E i \in K : rank(i) = k
  <2> DEFINE f == [i \in K |-> rank(i)]
  <2>1. f \in [K -> 0..(N - 1)]
    BY <1>5
  <2>2. \A i, j \in K : f[i] = f[j] => i = j
    BY <1>8
  <2> HIDE DEF f
  <2>3. f \in Injection(K, 0..(N - 1))
    BY <2>1, <2>2, Fun_IsInj
  <2>4. IsFiniteSet(0..(N - 1)) /\ Cardinality(0..(N - 1)) = N
    <3> HIDE DEF N
    <3>1. 0 \in Int /\ N - 1 \in Int
      BY <1>2
    <3>2. /\ IsFiniteSet(0..(N - 1))
          /\ Cardinality(0..(N - 1)) = IF 0 > N - 1 THEN 0 ELSE N - 1 - 0 + 1
      BY <3>1, FS_Interval, Zenon
    <3> QED
      BY <1>2, <3>2
  <2>5. f \in Surjection(K, 0..(N - 1))
    BY <2>3, <2>4, FS_Injection
  <2>6. \A k \in 0..(N - 1) : \E i \in K : f[i] = k
    BY <2>5 DEF Surjection
  <2> QED
    BY <2>6 DEF f
<1> DEFINE at(k) == CHOOSE i \in K : rank(i) = k - 1
<1>10. ASSUME NEW k \in 1..N
       PROVE  at(k) \in K /\ rank(at(k)) = k - 1
  <2>1. k - 1 \in 0..(N - 1)
    BY <1>2
  <2>2. \E i \in K : rank(i) = k - 1
    BY <1>9, <2>1
  <2> QED
    BY <2>2
<1>11. o = [k \in 1..N |-> rates[at(k)]]
  BY DEF order_felica_bitrates, K, A
<1> HIDE DEF o, rank, N, at
<1>12. o \in Seq(STRING) /\ DOMAIN o = 1..N
  <2>1. o \in [1..N -> STRING]
    BY <1>1, <1>2, <1>10, <1>11
  <2> QED
    BY <1>2, <2>1, SeqDef
<1>13. \A m \in DOMAIN rates : \E k \in DOMAIN o : o[k] = rates[m]
  <2> SUFFICES ASSUME NEW m \in DOMAIN rates PROVE \E k \in 1..N : o[k] = rates[m]
    BY <1>12
  <2> DEFINE S == {i \in DOMAIN rates : rates[i] = rates[m]}
  <2>1. S \in SUBSET Nat /\ m \in S
    BY <1>1
  <2>2. PICK i \in S : \A y \in S : i <= y
    BY <2>1, LeastIndex
  <2>3. i \in K /\ rates[i] = rates[m]
    <3>1. i \in DOMAIN rates /\ i \in Nat
      BY <1>1
    <3>2. \A j \in 1..(i - 1) : rates[j] # rates[i]
      BY <1>1, <2>2, <3>1
    <3> QED
      BY <3>1, <3>2 DEF K, Kept
  <2>4. rank(i) \in 0..(N - 1)
    BY <1>5, <2>3
  <2>5. rank(i) + 1 \in 1..N /\ (rank(i) + 1) - 1 = rank(i)
    BY <1>2, <2>4
  <2>6. at(rank(i) + 1) \in K /\ rank(at(rank(i) + 1)) = rank(i)
    BY <1>10, <2>5
  <2>7. at(rank(i) + 1) = i
    BY <1>8, <2>3, <2>6
  <2> QED
    BY <1>11, <2>3, <2>5, <2>7
<1>14. Sorted(o)
  <2> SUFFICES ASSUME NEW k \in 1..N, NEW l \in 1..N, k <= l
               PROVE  Pref(at(k)) <= Pref(at(l))
    BY <1>11, <1>12 DEF Sorted, Pref
  <2>1. at(k) \in K /\ rank(at(k)) = k - 1 /\ at(l) \in K /\ rank(at(l)) = l - 1
    BY <1>10
  <2>2. at(l) \notin A(at(k))
    <3>1. ~(rank(at(l)) < rank(at(k)))
      BY <1>2, <2>1
    <3> QED
      BY <1>6, <2>1, <3>1
  <2> QED
    BY <1>3, <1>4, <2>1, <2>2
<1> QED
  BY <1>12, <1>13, <1>14 DEF o

-----------------------------------------------------------------------------
(* The inductive invariant                                                  *)

\* The types of the state; a call is the last one made with the handle.
Typed ==
    /\ TypeOK
    /\ poll \in Polls \cup {None} /\ todo \in Seq(STRING)
    /\ call \in CallType \cup {NoCall}
    /\ heard \in BOOLEAN /\ performed \in BOOLEAN
    /\ call # NoCall => call.id = calls /\ handle # None
    /\ phase = "calling" => call # NoCall

\* The answer on the air is the addressed card's to the call that is being made, it comes
\* when Due says and it tells whether the card has performed the call.
Exchange ==
    phase = "calling" =>
        /\ heard => air # None
        /\ air # None =>
             /\ air.answer.id = call.id /\ air.answer.card = handle.card /\ air.answer.op = Command(call.op)
             /\ air.due \in Due(handle.card, call)
             /\ <<air.answer.sf1, air.answer.sf2>> \in Flags(call.op)
             /\ performed = (Changes(call.op) /\ <<air.answer.sf1, air.answer.sf2>> # <<1, 161>>)

\* An answer nobody waited for is the slow card's, to an earlier call.
Leftover ==
    late # None =>
        /\ phase # "polling" /\ handle # None
        /\ handle.card \in Slow /\ late.answer.card = handle.card
        /\ late.answer.id <= calls
        /\ phase = "calling" => late.answer.id < call.id

\* While polling, the bitrates left are in the order of their preference; unless
\* something was lost or came too late, all that the card in the field answers at are
\* among them.
Untried ==
    /\ \A c, d \in field : c = d
    /\ phase = "polling" =>
         /\ poll \in Polls /\ validate_polling_parameters(poll) /\ call = NoCall
         /\ Sorted(todo)
         /\ heard => \A c \in field : \A rate \in Requested(poll) \cap CardRates[c] :
                         \E i \in DOMAIN todo : todo[i] = rate

Inv == Typed /\ Exchange /\ Leftover /\ Untried

-----------------------------------------------------------------------------
(* Facts about the steps                                                    *)

\* A card answers in one of the slots it was offered, and the poll waits for all of them.
LEMMA SlotsAreCovered ==
    ASSUME NEW p, validate_polling_parameters(p), NEW slot \in 0..p.time_slots
    PROVE  SlotEnd(slot) <= polling_timeout_ms(p.time_slots) * CYCLES_PER_MS
<1>1. p.time_slots \in {0, 1, 3, 7, 15}
  BY DEF validate_polling_parameters
<1>2. CASE p.time_slots = 0
  BY <1>2 DEF SlotEnd, polling_timeout_ms, Least, U16_MAX, CYCLES_PER_MS
<1>3. CASE p.time_slots = 1
  BY <1>3 DEF SlotEnd, polling_timeout_ms, Least, U16_MAX, CYCLES_PER_MS
<1>4. CASE p.time_slots = 3
  BY <1>4 DEF SlotEnd, polling_timeout_ms, Least, U16_MAX, CYCLES_PER_MS
<1>5. CASE p.time_slots = 7
  BY <1>5 DEF SlotEnd, polling_timeout_ms, Least, U16_MAX, CYCLES_PER_MS
<1>6. CASE p.time_slots = 15
  BY <1>6 DEF SlotEnd, polling_timeout_ms, Least, U16_MAX, CYCLES_PER_MS
<1> QED
  BY <1>1, <1>2, <1>3, <1>4, <1>5, <1>6

LEMMA FlagsType ==
    ASSUME NEW op, NEW f \in Flags(op)
    PROVE  f[1] \in {0, 1, 255} /\ f[2] \in {0, 113, 161} /\ f = <<f[1], f[2]>>
BY DEF Flags

LEMMA DueType ==
    ASSUME ReaderAssumption, NEW c \in Cards, NEW r \in CallType, Refusal(r) = "Ok"
    PROVE  /\ Due(c, r) \subseteq Nat
           /\ c \notin Slow => \A d \in Due(c, r) : d <= TimeoutMs(Pmm[c], r.op, r.n) * CYCLES_PER_MS
<1> DEFINE p == Promise(c, r.op, r.n)
           t == TimeoutMs(Pmm[c], r.op, r.n) * CYCLES_PER_MS
<1>1. p \in Nat /\ t \in Nat /\ p <= t
  BY PromiseIsCovered
<1>2. Due(c, r) = IF c \in Slow THEN {p + CYCLES_PER_MS} ELSE {0, p}
  BY DEF Due
<1> HIDE DEF p, t
<1>3. /\ Due(c, r) \subseteq Nat
      /\ c \notin Slow => \A d \in Due(c, r) : d <= t
  BY <1>1, <1>2 DEF CYCLES_PER_MS
<1> QED
  BY <1>3 DEF t

\* The request in progress was accepted in the session there is.
LEMMA RefusalKept ==
    ASSUME context' = context, NEW r, call' = r
    PROVE  Refusal(call)' = Refusal(r)
BY DEF Refusal, CommandLen

LEMMA NoCallIsNone == NoCall \notin CallType
BY DEF NoCall, CallType

\* While a call is made its timeout covers what the card promised.
LEMMA InProgress ==
    ASSUME ReaderAssumption, Typed, phase = "calling"
    PROVE  /\ call \in CallType /\ handle \in Handle /\ handle.card \in Cards
           /\ Deadline \in Nat /\ Due(handle.card, call) \subseteq Nat
           /\ handle.card \notin Slow => \A d \in Due(handle.card, call) : d <= Deadline
<1>1. call \in CallType /\ handle \in Handle /\ Refusal(call) = "Ok"
  BY DEF Typed, TypeOK
<1>2. handle.card \in Cards
  BY <1>1 DEF Handle
<1> QED
  BY <1>1, <1>2, DueType, PromiseIsCovered DEF Deadline

\* A request becomes a call with the next number.
LEMMA CallStep ==
    ASSUME ReaderAssumption, Typed, NEW req \in Requests, Call(req)
    PROVE  \E r \in CallType :
             /\ call' = r /\ r.id = calls + 1 /\ calls' = calls + 1 /\ poll' = None
             /\ UNCHANGED <<field, todo, handle, context, late>>
             /\ \/ /\ Refusal(r) # "Ok"
                   /\ result' = Error(Refusal(r))
                   /\ performed' = FALSE /\ heard' = FALSE
                   /\ UNCHANGED <<phase, air, faults>>
                \/ /\ Refusal(r) = "Ok"
                   /\ phase' = "calling" /\ result' = NoResult
                   /\ Hears(r) \/ Unheard(r)
<1> DEFINE r0 == [op |-> req.op, n |-> req.n, s |-> req.s, e |-> req.e, bad |-> req.bad, id |-> calls + 1]
<1>1. r0 \in CallType /\ r0.id = calls + 1
  BY DEF Call, Typed, TypeOK, CallType, ReaderAssumption
<1>2. PICK r \in CallType : r = r0
  BY <1>1
<1> HIDE DEF r0
<1>3. /\ call' = r /\ calls' = calls + 1 /\ poll' = None
      /\ UNCHANGED <<field, todo, handle, context, late>>
      /\ \/ /\ Refusal(r) # "Ok"
            /\ result' = Error(Refusal(r))
            /\ performed' = FALSE /\ heard' = FALSE
            /\ UNCHANGED <<phase, air, faults>>
         \/ /\ Refusal(r) = "Ok"
            /\ phase' = "calling" /\ result' = NoResult
            /\ Hears(r) \/ Unheard(r)
  BY <1>2 DEF Call, r0
<1> QED
  BY <1>1, <1>2, <1>3

LEMMA CommandType ==
    ASSUME NEW op \in OpNames
    PROVE  Command(op) \in OpNames
BY DEF Command, OpNames, WriteOps

\* What a card that hears a call puts on the air.
LEMMA HearsStep ==
    ASSUME ReaderAssumption, NEW r \in CallType, Refusal(r) = "Ok", handle \in Handle, Hears(r)
    PROVE  /\ air' \in Packet /\ heard' = TRUE /\ performed' \in BOOLEAN /\ faults' = faults
           /\ air'.answer.id = r.id /\ air'.answer.card = handle.card /\ air'.answer.op = Command(r.op)
           /\ air'.due \in Due(handle.card, r)
           /\ <<air'.answer.sf1, air'.answer.sf2>> \in Flags(r.op)
           /\ performed' = (Changes(r.op) /\ <<air'.answer.sf1, air'.answer.sf2>> # <<1, 161>>)
<1>1. PICK f \in Flags(r.op), n \in {r.n} \cup (IF Counts(r.op) THEN {r.n + 1} ELSE {}), due \in Due(handle.card, r) :
         /\ air' = [answer |-> [id |-> r.id, card |-> handle.card, op |-> Command(r.op), n |-> n,
                                sf1 |-> f[1], sf2 |-> f[2]], due |-> due]
         /\ performed' = (Changes(r.op) /\ f # <<1, 161>>)
  BY Zenon DEF Hears
<1>2. heard' = TRUE /\ faults' = faults
  BY DEF Hears
<1>3. f[1] \in {0, 1, 255} /\ f[2] \in {0, 113, 161} /\ f = <<f[1], f[2]>>
  BY FlagsType
<1>4. handle.card \in Cards /\ r.op \in OpNames /\ r.n \in 0..255 /\ r.id \in 1..MaxCalls
  BY DEF Handle, CallType
<1>5. n \in 0..256 /\ due \in Nat /\ Command(r.op) \in OpNames
  <2>1. due \in Nat
    BY <1>4, DueType
  <2>2. n = r.n \/ n = r.n + 1
    OBVIOUS
  <2>3. n \in 0..256
    BY <1>4, <2>2, SMTT(20)
  <2>4. Command(r.op) \in OpNames
    BY <1>4, CommandType
  <2> QED
    BY <2>1, <2>3, <2>4
<1> DEFINE a == [id |-> r.id, card |-> handle.card, op |-> Command(r.op), n |-> n, sf1 |-> f[1], sf2 |-> f[2]]
<1>6. a \in Answer
  BY <1>3, <1>4, <1>5 DEF Answer
<1>7. /\ a.id = r.id /\ a.card = handle.card /\ a.op = Command(r.op) /\ a.sf1 = f[1] /\ a.sf2 = f[2]
  OBVIOUS
<1>8. air' = [answer |-> a, due |-> due]
  BY <1>1
<1> HIDE DEF a
<1>9. air' \in Packet /\ air'.answer = a /\ air'.due = due
  BY <1>5, <1>6, <1>8 DEF Packet
<1>10. performed' = (Changes(r.op) /\ f # <<1, 161>>)
  BY <1>1
<1>11. performed' \in BOOLEAN
  BY <1>10, Zenon
<1>12. <<air'.answer.sf1, air'.answer.sf2>> = f
  BY <1>3, <1>7, <1>9
<1> QED
  BY <1>2, <1>7, <1>9, <1>10, <1>11, <1>12

\* A call that nobody hears leaves nothing on the air.
LEMMA UnheardStep ==
    ASSUME NEW r \in CallType, Unheard(r), faults \in 0..MaxFaults, MaxFaults \in Nat
    PROVE  air' = None /\ heard' = FALSE /\ performed' \in BOOLEAN /\ faults' \in 0..MaxFaults
<1>1. air' = None /\ heard' = FALSE
  BY DEF Unheard
<1>2. performed' \in BOOLEAN
  <2>1. performed' = FALSE \/ performed' = Changes(r.op)
    BY Zenon DEF Unheard
  <2>2. Changes(r.op) \in BOOLEAN
    BY DEF Changes
  <2> QED
    BY <2>1, <2>2, Zenon
<1>3. faults' \in 0..MaxFaults
  <2>1. faults' = faults \/ (faults < MaxFaults /\ faults' = faults + 1)
    BY Zenon DEF Unheard
  <2> QED
    BY <2>1
<1> QED
  BY <1>1, <1>2, <1>3

\* What is left when a call returns was not first, and comes after it.
LEMMA Remains ==
    ASSUME ReaderAssumption, Typed, Exchange, Leftover, Receive \/ TimeOut
    PROVE  /\ phase = "calling" /\ phase' = "idle" /\ air' = None
           /\ UNCHANGED <<field, unpolled, context, call, performed, heard, calls, faults>>
           /\ late' \in Packet \cup {None}
           /\ late' # None =>
                /\ handle.card \in Slow /\ late'.answer.card = handle.card
                /\ late'.answer.id <= calls
<1>1. phase = "calling" /\ phase' = "idle" /\ air' = None
      /\ UNCHANGED <<field, unpolled, context, call, performed, heard, calls, faults>>
  BY DEF Receive, TimeOut, Return
<1>2. /\ call \in CallType /\ Deadline \in Nat /\ calls \in Nat /\ call.id = calls
      /\ handle.card \notin Slow => \A d \in Due(handle.card, call) : d <= Deadline
  <2>1. calls \in Nat /\ call.id = calls
    BY <1>1 DEF Typed, TypeOK, ReaderAssumption
  <2> QED
    BY <1>1, <2>1, InProgress
<1>3. /\ air # None => air \in Packet /\ air.answer \in Answer /\ air.due \in Nat
      /\ late # None => late \in Packet /\ late.answer \in Answer /\ late.due \in Nat
  BY DEF Typed, TypeOK, Packet
<1>4. air # None => air.answer.card = handle.card /\ air.answer.id <= calls /\ air.due \in Due(handle.card, call)
  BY <1>1, <1>2 DEF Exchange
<1>5. late # None => handle.card \in Slow /\ late.answer.card = handle.card /\ late.answer.id <= calls
  BY DEF Leftover
<1> DEFINE Goal ==
      /\ late' \in Packet \cup {None}
      /\ late' # None => late'.answer.card = handle.card /\ late'.answer.id <= calls
<1>6. \A x \in Answer, y \in Nat : Later(x, y) \in Packet /\ Later(x, y).answer = x
  BY DEF Later, Packet
<1>7. ASSUME Receive, AirIsFirst, late' = IF late = None THEN None ELSE Later(late.answer, late.due - air.due)
      PROVE  Goal /\ (late' # None => handle.card \in Slow)
  <2>1. late # None => late.due - air.due \in Nat
    BY <1>3, <1>7 DEF AirIsFirst
  <2> QED
    BY <1>3, <1>5, <1>6, <1>7, <2>1
<1>8. ASSUME Receive, LateIsFirst, late' = IF air = None THEN None ELSE Later(air.answer, air.due - late.due)
      PROVE  Goal /\ (late' # None => handle.card \in Slow)
  <2>1. late # None /\ (air # None => air.due - late.due \in Nat)
    BY <1>3, <1>8 DEF LateIsFirst
  <2> QED
    BY <1>3, <1>4, <1>5, <1>6, <1>8, <2>1
<1>9. ASSUME TimeOut
      PROVE  Goal /\ (late' # None => handle.card \in Slow)
  <2>1. air # None => air.due > Deadline
    BY <1>2, <1>3, <1>9 DEF TimeOut, AirIsFirst, LateIsFirst
  <2>2. air # None => air.due - Deadline \in Nat
    BY <1>2, <1>3, <2>1
  <2>3. late' = IF air = None THEN None ELSE Later(air.answer, air.due - Deadline)
    BY <1>9 DEF TimeOut
  <2>4. air # None => handle.card \in Slow
    BY <1>2, <1>3, <1>4, <2>1
  <2> QED
    BY <1>3, <1>4, <1>6, <2>2, <2>3, <2>4
<1>10. Goal /\ (late' # None => handle.card \in Slow)
  BY <1>7, <1>8, <1>9 DEF Receive
<1> QED
  BY <1>1, <1>10

-----------------------------------------------------------------------------
(* The invariant holds initially and is kept by every step                  *)

LEMMA NothingLeft == <<>> \in Seq(STRING)
BY EmptySeq, Zenon

LEMMA TailOf ==
    ASSUME NEW s \in Seq(STRING), s # <<>>
    PROVE  /\ Head(s) = s[1] /\ Head(s) \in STRING /\ Tail(s) \in Seq(STRING)
           /\ 1 \in DOMAIN s
           /\ DOMAIN s = 1..Len(s) /\ DOMAIN Tail(s) = 1..(Len(s) - 1)
           /\ \A i \in DOMAIN Tail(s) : i + 1 \in DOMAIN s /\ Tail(s)[i] = s[i + 1]
           /\ Len(s) \in Nat /\ (Len(s) # 1 => Tail(s) # <<>>)
<1>1. Len(s) \in Nat /\ Len(s) > 0 /\ DOMAIN s = 1..Len(s)
  OBVIOUS
<1>2. /\ Head(s) = s[1] /\ Head(s) \in STRING /\ Tail(s) \in Seq(STRING)
      /\ Len(Tail(s)) = Len(s) - 1 /\ \A i \in 1..(Len(s) - 1) : Tail(s)[i] = s[i + 1]
  <2>1. /\ Head(s) \in STRING /\ Tail(s) \in Seq(STRING) /\ Len(Tail(s)) = Len(s) - 1
        /\ \A i \in 1..Len(Tail(s)) : Tail(s)[i] = s[i + 1]
    BY HeadTailProperties, Zenon
  <2>2. Head(s) = s[1]
    BY <1>1
  <2> QED
    BY <2>1, <2>2
<1>3. DOMAIN Tail(s) = 1..(Len(s) - 1)
  BY <1>2
<1>4. Tail(s) = <<>> => Len(s) = 1
  <2>1. Tail(s) = <<>> => Len(Tail(s)) = 0
    BY EmptySeq, Zenon
  <2> QED
    BY <1>1, <1>2, <2>1
<1> QED
  BY <1>1, <1>2, <1>3, <1>4

LEMMA InitInv ==
    ASSUME ReaderAssumption, Init
    PROVE  Inv
<1>1. Typed
  <2>1. TypeOK
    BY DEF Init, TypeOK, ReaderAssumption
  <2>2. heard \in BOOLEAN /\ performed \in BOOLEAN
    BY DEF Init
  <2> QED
    BY <2>1, <2>2, NothingLeft DEF Init, Typed
<1>2. Exchange /\ Leftover /\ Untried
  BY DEF Init, Exchange, Leftover, Untried
<1> QED
  BY <1>1, <1>2 DEF Inv

\* The end of a polling: the handle of the card found, or none.
LEMMA PollTyped ==
    ASSUME ReaderAssumption, Typed, Untried, Found \/ Missed \/ Unsupported
    PROVE  /\ handle' \in Handle \cup {None} /\ todo' \in Seq(STRING)
           /\ \/ phase' = "idle"
              \/ phase' = "polling" /\ handle' = None /\ todo' = Tail(todo) /\ todo' # <<>>
           /\ faults' \in 0..MaxFaults /\ heard' \in BOOLEAN
           /\ UNCHANGED <<field, poll, context, call, air, late, performed, calls>>
           /\ phase = "polling" /\ call = NoCall
<1>1. /\ phase = "polling" /\ todo \in Seq(STRING) /\ todo # <<>> /\ handle = None
      /\ faults \in 0..MaxFaults /\ heard \in BOOLEAN /\ field \subseteq Cards
  BY DEF Typed, TypeOK, Found, Missed, Unsupported
<1>2. Head(todo) \in STRING /\ Tail(todo) \in Seq(STRING) /\ (Len(todo) # 1 => Tail(todo) # <<>>)
  BY <1>1, TailOf
<1>3. call = NoCall
  BY <1>1 DEF Untried
<1>4. CASE Found
  <2>1. PICK c \in field : EndPolling([card |-> c, rate |-> Head(todo)], [NoResult EXCEPT !.kind = "Ok", !.card = c])
    BY <1>4 DEF Found, InTime
  <2>2. [card |-> c, rate |-> Head(todo)] \in Handle
    BY <1>1, <1>2, <2>1 DEF Handle
  <2> QED
    BY <1>1, <1>3, <1>4, <2>1, <2>2, NothingLeft DEF EndPolling, Found
<1>5. CASE Missed
  <2>1. faults' \in 0..MaxFaults
    <3>1. faults' = faults \/ (faults < MaxFaults /\ faults' = faults + 1)
      BY <1>5, Zenon DEF Missed
    <3> QED
      BY <1>1, <3>1 DEF ReaderAssumption
  <2>2. heard' \in BOOLEAN
    BY <1>1, <1>5, Zenon DEF Missed
  <2> QED
    BY <1>1, <1>2, <1>3, <1>5, <2>1, <2>2, NothingLeft DEF Missed, EndPolling
<1>6. CASE Unsupported
  BY <1>1, <1>3, <1>6, NothingLeft DEF Unsupported, EndPolling
<1> QED
  BY <1>4, <1>5, <1>6

LEMMA TypedStep ==
    ASSUME ReaderAssumption, Inv, [Next]_vars
    PROVE  Typed'
<1> USE DEF Inv
<1>1. CASE UNCHANGED vars
  <2>1. Refusal(call)' = Refusal(call)
    BY <1>1, RefusalKept DEF vars
  <2> QED
    BY <1>1, <2>1 DEF vars, Typed, TypeOK
<1>2. ASSUME NEW c \in Cards, Enter(c)
      PROVE  Typed'
  <2>1. Refusal(call)' = Refusal(call)
    BY <1>2, RefusalKept DEF Enter
  <2>2. heard' \in BOOLEAN
    BY <1>2, Zenon DEF Enter
  <2> QED
    BY <1>2, <2>1, <2>2 DEF Enter, unpolled, Typed, TypeOK
<1>3. CASE Leave
  <2>1. Refusal(call)' = Refusal(call)
    BY <1>3, RefusalKept DEF Leave
  <2>2. heard' \in BOOLEAN
    BY <1>3 DEF Leave, Typed
  <2>3. faults' \in 0..MaxFaults
    BY <1>3 DEF Leave, Typed, TypeOK, ReaderAssumption
  <2>4. /\ field' = {} /\ air' = None /\ late' = None
        /\ UNCHANGED <<phase, poll, todo, handle, context, call, result, performed, calls>>
    BY <1>3 DEF Leave, unpolled
  <2> QED
    BY <2>1, <2>2, <2>3, <2>4 DEF Typed, TypeOK
<1>4. ASSUME NEW p \in Polls, StartPolling(p)
      PROVE  Typed'
  <2>1. p.rates \in Seq(STRING)
    BY DEF ReaderAssumption
  <2>2. order_felica_bitrates(p.rates) \in Seq(STRING)
    BY <2>1, OrderedBitrates
  <2>3. todo' \in Seq(STRING) /\ (phase' = "polling" => todo' # <<>>) /\ phase' \in {"idle", "polling"}
    BY <1>4, <2>2, NothingLeft DEF StartPolling, Pollable
  <2> QED
    BY <1>4, <2>3 DEF StartPolling, Typed, TypeOK
<1>5. CASE Found \/ Missed \/ Unsupported
  BY <1>5, PollTyped DEF Typed, TypeOK
<1>6. ASSUME NEW scheme \in {None, "Des", "Aes128"}, SetContext(scheme)
      PROVE  Typed'
  BY <1>6 DEF SetContext, unpolled, Typed, TypeOK
<1>7. ASSUME NEW req \in Requests, Call(req)
      PROVE  Typed'
  <2>1. PICK r \in CallType :
             /\ call' = r /\ r.id = calls + 1 /\ calls' = calls + 1 /\ poll' = None
             /\ UNCHANGED <<field, todo, handle, context, late>>
             /\ \/ /\ Refusal(r) # "Ok"
                   /\ result' = Error(Refusal(r))
                   /\ performed' = FALSE /\ heard' = FALSE
                   /\ UNCHANGED <<phase, air, faults>>
                \/ /\ Refusal(r) = "Ok"
                   /\ phase' = "calling" /\ result' = NoResult
                   /\ Hears(r) \/ Unheard(r)
    BY <1>7, CallStep
  <2>2. phase = "idle" /\ handle # None /\ calls < MaxCalls /\ handle \in Handle
    BY <1>7 DEF Call, Typed, TypeOK
  <2>3. Refusal(call)' = Refusal(r)
    BY <2>1, RefusalKept
  <2>4. calls' \in 0..MaxCalls /\ r # NoCall
    BY <2>1, <2>2, NoCallIsNone DEF Typed, TypeOK, ReaderAssumption
  <2>5. faults \in 0..MaxFaults /\ MaxFaults \in Nat
    BY DEF Typed, TypeOK, ReaderAssumption
  <2>6. CASE Refusal(r) # "Ok"
    BY <2>1, <2>2, <2>3, <2>4, <2>6 DEF Typed, TypeOK
  <2>7. CASE Refusal(r) = "Ok"
    <3>1. air' \in Packet \cup {None} /\ faults' \in 0..MaxFaults /\ heard' \in BOOLEAN /\ performed' \in BOOLEAN
      <4>1. CASE Hears(r)
        BY <2>2, <2>5, <2>7, <4>1, HearsStep
      <4>2. CASE Unheard(r)
        BY <2>5, <4>2, UnheardStep
      <4> QED
        BY <2>1, <2>7, <4>1, <4>2
    <3> QED
      BY <2>1, <2>2, <2>3, <2>4, <2>7, <3>1 DEF Typed, TypeOK
  <2> QED
    BY <2>6, <2>7
<1>8. CASE Receive \/ TimeOut
  BY <1>8, Remains DEF Typed, TypeOK, unpolled
<1>9. CASE Passes
  BY <1>9 DEF Passes, unpolled, Typed, TypeOK
<1> QED
  BY <1>1, <1>2, <1>3, <1>4, <1>5, <1>6, <1>7, <1>8, <1>9 DEF Next

LEMMA ExchangeStep ==
    ASSUME ReaderAssumption, Inv, [Next]_vars
    PROVE  Exchange'
<1> USE DEF Inv
<1>1. CASE UNCHANGED vars
  BY <1>1 DEF vars, Exchange
<1>2. ASSUME NEW c \in Cards, Enter(c)
      PROVE  Exchange'
  <2>1. heard' => heard
    BY <1>2, Zenon DEF Enter
  <2> QED
    BY <1>2, <2>1 DEF Enter, unpolled, Exchange
<1>3. CASE Leave
  <2>1. phase' = phase /\ air' = None /\ (phase # "idle" => heard' = FALSE)
    BY <1>3 DEF Leave
  <2> QED
    BY <2>1 DEF Exchange
<1>4. ASSUME NEW p \in Polls, StartPolling(p)
      PROVE  Exchange'
  BY <1>4 DEF StartPolling, Exchange
<1>5. CASE Found \/ Missed \/ Unsupported
  BY <1>5, PollTyped DEF Exchange
<1>6. ASSUME NEW scheme \in {None, "Des", "Aes128"}, SetContext(scheme)
      PROVE  Exchange'
  BY <1>6 DEF SetContext, Exchange
<1>7. ASSUME NEW req \in Requests, Call(req)
      PROVE  Exchange'
  <2>1. PICK r \in CallType :
             /\ call' = r /\ UNCHANGED handle
             /\ \/ UNCHANGED phase
                \/ Refusal(r) = "Ok" /\ (Hears(r) \/ Unheard(r))
    BY <1>7, CallStep
  <2>2. phase = "idle" /\ handle \in Handle
    BY <1>7 DEF Call, Typed, TypeOK
  <2>3. CASE UNCHANGED phase
    BY <2>2, <2>3 DEF Exchange
  <2>4. CASE Refusal(r) = "Ok" /\ Hears(r)
    <3>1. /\ air' \in Packet
          /\ air'.answer.id = r.id /\ air'.answer.card = handle.card /\ air'.answer.op = Command(r.op)
          /\ air'.due \in Due(handle.card, r)
          /\ <<air'.answer.sf1, air'.answer.sf2>> \in Flags(r.op)
          /\ performed' = (Changes(r.op) /\ <<air'.answer.sf1, air'.answer.sf2>> # <<1, 161>>)
      BY <2>2, <2>4, HearsStep, Zenon
    <3>2. air' # None
      BY <3>1 DEF ReaderAssumption
    <3> QED
      BY <2>1, <3>1, <3>2, Zenon DEF Exchange
  <2>5. CASE Unheard(r)
    <3>1. air' = None /\ heard' = FALSE
      BY <2>5 DEF Unheard
    <3> QED
      BY <3>1 DEF Exchange
  <2> QED
    BY <2>1, <2>3, <2>4, <2>5
<1>8. CASE Receive \/ TimeOut
  BY <1>8, Remains DEF Exchange
<1>9. CASE Passes
  BY <1>9 DEF Passes, Exchange
<1> QED
  BY <1>1, <1>2, <1>3, <1>4, <1>5, <1>6, <1>7, <1>8, <1>9 DEF Next

LEMMA LeftoverStep ==
    ASSUME ReaderAssumption, Inv, [Next]_vars
    PROVE  Leftover'
<1> USE DEF Inv
<1>1. CASE UNCHANGED vars
  BY <1>1 DEF vars, Leftover
<1>2. ASSUME NEW c \in Cards, Enter(c)
      PROVE  Leftover'
  BY <1>2 DEF Enter, unpolled, Leftover
<1>3. CASE Leave
  BY <1>3 DEF Leave, Leftover
<1>4. ASSUME NEW p \in Polls, StartPolling(p)
      PROVE  Leftover'
  BY <1>4 DEF StartPolling, Leftover
<1>5. CASE Found \/ Missed \/ Unsupported
  BY <1>5, PollTyped DEF Leftover
<1>6. ASSUME NEW scheme \in {None, "Des", "Aes128"}, SetContext(scheme)
      PROVE  Leftover'
  BY <1>6 DEF SetContext, unpolled, Leftover
<1>7. ASSUME NEW req \in Requests, Call(req)
      PROVE  Leftover'
  <2>1. PICK r \in CallType :
             /\ call' = r /\ r.id = calls + 1 /\ calls' = calls + 1 /\ UNCHANGED <<handle, late>>
             /\ phase' = phase \/ phase' = "calling"
    BY <1>7, CallStep
  <2>2. phase = "idle" /\ calls \in Nat
    BY <1>7 DEF Call, Typed, TypeOK, ReaderAssumption
  <2>3. late # None => late.answer.id \in Nat
    BY DEF Typed, TypeOK, Packet, Answer, ReaderAssumption
  <2> QED
    BY <2>1, <2>2, <2>3 DEF Leftover
<1>8. CASE Receive \/ TimeOut
  <2>1. handle # None /\ phase = "calling"
    BY <1>8, Remains DEF Typed, TypeOK
  <2> QED
    BY <1>8, <2>1, Remains DEF Leftover, unpolled
<1>9. CASE Passes
  BY <1>9 DEF Passes, Leftover
<1> QED
  BY <1>1, <1>2, <1>3, <1>4, <1>5, <1>6, <1>7, <1>8, <1>9 DEF Next

LEMMA UntriedStep ==
    ASSUME ReaderAssumption, Inv, [Next]_vars
    PROVE  Untried'
<1> USE DEF Inv
<1>1. CASE UNCHANGED vars
  BY <1>1 DEF vars, Untried
<1>2. ASSUME NEW c \in Cards, Enter(c)
      PROVE  Untried'
  <2>1. field' = {c} /\ UNCHANGED <<phase, poll, call, todo>>
    BY <1>2 DEF Enter, unpolled
  <2>2. phase = "polling" => ~heard'
    BY <1>2, Zenon DEF Enter, Untried
  <2> QED
    BY <2>1, <2>2 DEF Untried
<1>3. CASE Leave
  <2>1. field' = {} /\ UNCHANGED <<phase, poll, call, todo>>
    BY <1>3 DEF Leave, unpolled
  <2> QED
    BY <2>1 DEF Untried
<1>4. ASSUME NEW p \in Polls, StartPolling(p)
      PROVE  Untried'
  <2>1. p.rates \in Seq(STRING)
    BY DEF ReaderAssumption
  <2> DEFINE o == order_felica_bitrates(p.rates)
  <2>2. (\A m \in DOMAIN p.rates : \E k \in DOMAIN o : o[k] = p.rates[m]) /\ Sorted(o)
    BY <2>1, OrderedBitrates
  <2>3. \A rate \in Requested(p) : \E k \in DOMAIN o : o[k] = rate
    BY <2>2 DEF Requested
  <2>4. /\ field' = field /\ poll' = p /\ call' = NoCall
        /\ phase' = "polling" => Pollable(p) /\ todo' = o
    BY <1>4 DEF StartPolling
  <2> HIDE DEF o
  <2>5. phase' = "polling" => validate_polling_parameters(p)
    BY <2>4 DEF Pollable
  <2> QED
    BY <2>2, <2>3, <2>4, <2>5 DEF Untried
<1>5. CASE Found \/ Missed \/ Unsupported
  <2>1. /\ phase = "polling" /\ UNCHANGED <<field, poll, call>>
        /\ phase' = "polling" => todo' = Tail(todo)
    BY <1>5, PollTyped
  <2>2. /\ todo \in Seq(STRING) /\ todo # <<>> /\ Sorted(todo)
        /\ poll \in Polls /\ validate_polling_parameters(poll)
    BY <2>1 DEF Typed, TypeOK, Untried
  <2>3. Sorted(Tail(todo))
    <3>1. \A i \in DOMAIN Tail(todo) : i \in Int /\ i + 1 \in DOMAIN todo /\ Tail(todo)[i] = todo[i + 1]
      BY <2>2, TailOf
    <3> QED
      BY <2>2, <3>1 DEF Sorted
  <2>4. ASSUME phase' = "polling", heard'
        PROVE  \A c \in field : \A rate \in Requested(poll) \cap CardRates[c] :
                   \E i \in DOMAIN Tail(todo) : Tail(todo)[i] = rate
    <3>1. heard /\ \E slot \in 0..poll.time_slots : InTime(slot) = {}
      BY <1>5, <2>4 DEF Found, Missed, Unsupported, EndPolling
    <3>2. PICK slot \in 0..poll.time_slots : InTime(slot) = {}
      BY <3>1
    <3>3. SlotEnd(slot) <= polling_timeout_ms(poll.time_slots) * CYCLES_PER_MS
      BY <2>2, SlotsAreCovered
    <3>4. \A c \in field : Head(todo) \notin CardRates[c]
      BY <3>2, <3>3 DEF InTime
    <3> SUFFICES ASSUME NEW c \in field, NEW rate \in Requested(poll) \cap CardRates[c]
                 PROVE  \E i \in DOMAIN Tail(todo) : Tail(todo)[i] = rate
      OBVIOUS
    <3>5. PICK k \in DOMAIN todo : todo[k] = rate
      BY <2>1, <3>1 DEF Untried
    <3>6. k # 1 /\ k \in 1..Len(todo) /\ Len(todo) \in Nat
      BY <2>2, <3>4, <3>5, TailOf
    <3>7. k - 1 \in DOMAIN Tail(todo) /\ (k - 1) + 1 = k
      BY <2>2, <3>6, TailOf
    <3>8. Tail(todo)[k - 1] = todo[k]
      BY <2>2, <3>7, TailOf
    <3> QED
      BY <3>5, <3>7, <3>8
  <2> QED
    BY <2>1, <2>2, <2>3, <2>4 DEF Untried
<1>6. ASSUME NEW scheme \in {None, "Des", "Aes128"}, SetContext(scheme)
      PROVE  Untried'
  BY <1>6 DEF SetContext, unpolled, Untried
<1>7. ASSUME NEW req \in Requests, Call(req)
      PROVE  Untried'
  <2>1. phase' # "polling" /\ field' = field
    BY <1>7 DEF Call
  <2> QED
    BY <2>1 DEF Untried
<1>8. CASE Receive \/ TimeOut
  BY <1>8, Remains DEF Untried
<1>9. CASE Passes
  BY <1>9 DEF Passes, unpolled, Untried
<1> QED
  BY <1>1, <1>2, <1>3, <1>4, <1>5, <1>6, <1>7, <1>8, <1>9 DEF Next

LEMMA InvStep ==
    ASSUME ReaderAssumption, Inv, [Next]_vars
    PROVE  Inv'
BY TypedStep, ExchangeStep, LeftoverStep, UntriedStep DEF Inv

-----------------------------------------------------------------------------
(* What a call returns                                                      *)

\* The judgement of the operations that change the card: none of them counts entries.
LEMMA ChangesAreChecked ==
    ASSUME NEW op, Changes(op)
    PROVE  Check(op) \in {"status", "result"} /\ Counts(op) = FALSE
<1> DEFINE Changing ==
      {"WriteWithoutEncryption", "Write", "WriteV2", "ChangeKeys", "RegisterIssueId", "RegisterArea",
       "RegisterService", "ChangeSystemBlock"}
<1>1. op \in Changing
  BY DEF Changes, WriteOps, RegisterOps
<1>2. /\ Operation("WriteWithoutEncryption") = Op(1, 255, "status", FALSE)
      /\ Operation("Write") = Op(1, 255, "status", FALSE)
      /\ Operation("WriteV2") = Op(1, 255, "status", FALSE)
      /\ Operation("ChangeKeys") = Op(1, 255, "status", FALSE)
  BY DEF Operation, ServiceOps, BlockOps, ListOps, ContainerOps, SystemOps, NodeOps, AuthOps, AuthV2Ops, ReadOps,
         WriteOps, ServiceV2Ops, RegisterOps
<1>3. /\ Operation("RegisterIssueId") = Op(0, 0, "result", FALSE)
      /\ Operation("RegisterArea") = Op(0, 0, "status", FALSE)
      /\ Operation("RegisterService") = Op(0, 0, "result", FALSE)
      /\ Operation("ChangeSystemBlock") = Op(0, 0, "status", FALSE)
  BY DEF Operation, ServiceOps, BlockOps, ListOps, ContainerOps, SystemOps, NodeOps, AuthOps, AuthV2Ops, ReadOps,
         WriteOps, ServiceV2Ops, RegisterOps
<1>4. \/ Operation(op) = Op(1, 255, "status", FALSE) \/ Operation(op) = Op(0, 0, "status", FALSE)
      \/ Operation(op) = Op(0, 0, "result", FALSE)
  BY <1>1, <1>2, <1>3
<1> QED
  BY <1>4 DEF Check, Counts, Op

LEMMA JudgeOfChange ==
    ASSUME NEW r \in CallType, Changes(r.op), NEW a \in Answer,
           a.op = Command(r.op), a.id = r.id, <<a.sf1, a.sf2>> \in Flags(r.op)
    PROVE  \/ <<a.sf1, a.sf2>> # <<1, 161>> /\ Judge(r, a) = "Ok"
           \/ <<a.sf1, a.sf2>> # <<1, 161>> /\ Judge(r, a) = "Protocol" /\ Check(r.op) = "result"
           \/ <<a.sf1, a.sf2>> = <<1, 161>> /\ Judge(r, a) = "Status"
<1>1. Check(r.op) \in {"status", "result"} /\ Counts(r.op) = FALSE
  BY ChangesAreChecked
<1>2. \/ a.sf1 = 0 /\ a.sf2 \in {0, 113}
      \/ a.sf1 = 1 /\ a.sf2 = 161
      \/ a.sf1 = 255 /\ a.sf2 = 113
  BY DEF Flags
<1>3. Judge(r, a) =
        IF ~check_status_flags(a.sf1, a.sf2) THEN "Status"
        ELSE IF Check(r.op) = "result" /\ a.sf1 # 0 THEN "Protocol" ELSE "Ok"
  BY <1>1 DEF Judge
<1>4. <<a.sf1, a.sf2>> = <<1, 161>> <=> a.sf1 = 1 /\ a.sf2 = 161
  OBVIOUS
<1>5. check_status_flags(a.sf1, a.sf2) <=> ~(a.sf1 = 1 /\ a.sf2 = 161)
  BY <1>2 DEF check_status_flags
<1> QED
  BY <1>2, <1>3, <1>4, <1>5

\* The answer a call takes is the one on the air, or a leftover of the slow card.
LEMMA ReceiveStep ==
    ASSUME ReaderAssumption, Inv, Receive
    PROVE  \E a \in Answer :
             /\ result' = Answered(a) /\ a.card = handle.card
             /\ \/ air # None /\ a = air.answer
                \/ handle.card \in Slow /\ a.id < call.id
<1>1. phase = "calling"
  BY DEF Receive
<1>2. /\ air # None => air.answer \in Answer
      /\ late # None => late.answer \in Answer
  BY DEF Inv, Typed, TypeOK, Packet
<1>3. CASE AirIsFirst /\ result' = Answered(air.answer)
  BY <1>1, <1>2, <1>3 DEF AirIsFirst, Inv, Exchange
<1>4. CASE LateIsFirst /\ result' = Answered(late.answer)
  BY <1>1, <1>2, <1>4 DEF LateIsFirst, Inv, Leftover
<1> QED
  BY <1>3, <1>4 DEF Receive, Return

LEMMA TimeOutStep ==
    ASSUME ReaderAssumption, Inv, TimeOut
    PROVE  result' = Error("Timeout") /\ (heard => handle.card \in Slow)
<1>1. phase = "calling" /\ result' = Error("Timeout")
  BY DEF TimeOut, Return
<1>2. ASSUME heard, handle.card \notin Slow PROVE FALSE
  <2>1. air # None /\ air.due \in Due(handle.card, call)
    BY <1>1, <1>2 DEF Inv, Exchange
  <2>2. late = None
    BY <1>2 DEF Inv, Leftover
  <2>3. air.due <= Deadline
    BY <1>1, <1>2, <2>1, InProgress DEF Inv
  <2> QED
    BY <2>1, <2>2, <2>3 DEF TimeOut, AirIsFirst
<1> QED
  BY <1>1, <1>2

\* What a returned call leaves alone until the next one, which may be refused at once.
LEMMA ReturnedStays ==
    ASSUME ReaderAssumption, Inv, [Next]_vars, phase' = "idle", call' # NoCall
    PROVE  \/ Receive \/ TimeOut
           \/ /\ phase = "idle" /\ UNCHANGED <<call, handle, result, performed>>
              /\ heard' => heard
           \/ result'.kind # "Ok" /\ ~heard'
<1> DEFINE Goal == \/ Receive \/ TimeOut
                   \/ /\ phase = "idle" /\ UNCHANGED <<call, handle, result, performed>>
                      /\ heard' => heard
                   \/ result'.kind # "Ok" /\ ~heard'
<1>1. CASE UNCHANGED vars
  BY <1>1 DEF vars
<1>2. ASSUME NEW c \in Cards, Enter(c)
      PROVE  Goal
  <2>1. heard' => heard
    BY <1>2, Zenon DEF Enter
  <2>2. phase = "idle" /\ UNCHANGED <<call, handle, result, performed>>
    BY <1>2 DEF Enter, unpolled
  <2> QED
    BY <2>1, <2>2
<1>3. CASE Leave
  BY <1>3 DEF Leave, unpolled
<1>4. ASSUME NEW p \in Polls, StartPolling(p)
      PROVE  Goal
  BY <1>4 DEF StartPolling
<1>5. CASE Found \/ Missed \/ Unsupported
  <2>1. call' = call /\ call = NoCall
    BY <1>5, PollTyped DEF Inv
  <2> QED
    BY <2>1
<1>6. ASSUME NEW scheme \in {None, "Des", "Aes128"}, SetContext(scheme)
      PROVE  Goal
  BY <1>6 DEF SetContext, unpolled
<1>7. ASSUME NEW req \in Requests, Call(req)
      PROVE  Goal
  <2>1. PICK r \in CallType :
             \/ Refusal(r) # "Ok" /\ result' = Error(Refusal(r)) /\ heard' = FALSE
             \/ phase' = "calling"
    BY <1>7, CallStep DEF Inv
  <2>2. result'.kind = Refusal(r) /\ Refusal(r) # "Ok" /\ heard' = FALSE
    BY <2>1 DEF Error, NoResult
  <2> QED
    BY <2>2
<1>8. CASE Passes
  BY <1>8 DEF Passes, unpolled
<1> QED
  BY <1>1, <1>2, <1>3, <1>4, <1>5, <1>6, <1>7, <1>8 DEF Next

\* What the judgement compares.
LEMMA JudgedOk ==
    ASSUME NEW r, NEW a, Judge(r, a) = "Ok"
    PROVE  a.op = Command(r.op) /\ (Secure(r.op) => a.id = r.id) /\ (Counts(r.op) => a.n = r.n)
BY DEF Judge

LEMMA JudgedInTime ==
    ASSUME NEW r, NEW a
    PROVE  Judge(r, a) # "Timeout"
BY DEF Judge

LEMMA OwnResultStep ==
    ASSUME ReaderAssumption, Inv, OwnResult, [Next]_vars
    PROVE  OwnResult'
<1> SUFFICES ASSUME phase' = "idle", call' # NoCall, result'.kind = "Ok"
             PROVE  /\ result'.op = Command(call'.op)
                    /\ (Secure(call'.op) \/ handle'.card \notin Slow) => result'.id = call'.id
                    /\ (result'.id = call'.id /\ Counts(call'.op)) => result'.n = call'.n
                    /\ result'.card = handle'.card
  BY DEF OwnResult
<1>1. CASE Receive
  <2>1. PICK a \in Answer :
             /\ result' = Answered(a) /\ a.card = handle.card
             /\ \/ air # None /\ a = air.answer
                \/ handle.card \in Slow /\ a.id < call.id
    BY <1>1, ReceiveStep
  <2>2. phase = "calling" /\ call' = call /\ handle' = handle
    BY <1>1 DEF Receive, unpolled
  <2>3. /\ Judge(call, a) = "Ok"
        /\ result'.op = a.op /\ result'.id = a.id /\ result'.n = a.n /\ result'.card = a.card
    BY <2>1 DEF Answered
  <2>4. handle.card \notin Slow => a.id = call.id
    BY <2>1, <2>2 DEF Inv, Exchange
  <2> QED
    BY <2>1, <2>2, <2>3, <2>4, JudgedOk
<1>2. CASE TimeOut
  BY <1>2, TimeOutStep DEF Error, NoResult
<1>3. CASE phase = "idle" /\ UNCHANGED <<call, handle, result, performed>>
  BY <1>3 DEF OwnResult
<1> QED
  BY <1>1, <1>2, <1>3, ReturnedStays

LEMMA AwaitedStep ==
    ASSUME ReaderAssumption, Inv, AnswerIsAwaited, [Next]_vars
    PROVE  AnswerIsAwaited'
<1> SUFFICES ASSUME phase' = "idle", call' # NoCall, heard', handle'.card \notin Slow
             PROVE  result'.kind # "Timeout"
  BY DEF AnswerIsAwaited
<1>1. CASE Receive
  <2>1. PICK a \in Answer : result' = Answered(a)
    BY <1>1, ReceiveStep
  <2> QED
    BY <2>1, JudgedInTime DEF Answered
<1>2. CASE TimeOut
  <2>1. heard' = heard /\ handle' = handle
    BY <1>2 DEF TimeOut, unpolled
  <2> QED
    BY <1>2, <2>1, TimeOutStep
<1>3. CASE phase = "idle" /\ UNCHANGED <<call, handle, result, performed>> /\ (heard' => heard)
  BY <1>3 DEF AnswerIsAwaited
<1> QED
  BY <1>1, <1>2, <1>3, ReturnedStays

LEMMA ReportedStep ==
    ASSUME ReaderAssumption, Inv, ChangeIsReported, [Next]_vars
    PROVE  ChangeIsReported'
<1> SUFFICES ASSUME phase' = "idle", call' # NoCall, heard', Changes(call'.op), result'.id = call'.id
             PROVE  \/ performed' /\ result'.kind = "Ok"
                    \/ performed' /\ result'.kind = "Protocol" /\ Check(call'.op) = "result"
                    \/ ~performed' /\ result'.kind = "Status"
  BY DEF ChangeIsReported, ChangeIsJudged
<1>1. CASE Receive
  <2>1. PICK a \in Answer :
             /\ result' = Answered(a)
             /\ \/ air # None /\ a = air.answer
                \/ a.id < call.id
    BY <1>1, ReceiveStep
  <2>2. phase = "calling" /\ call' = call /\ performed' = performed
    BY <1>1 DEF Receive
  <2>3. call \in CallType /\ call.id \in Nat
    <3>1. call \in CallType
      BY <2>2, InProgress DEF Inv
    <3> QED
      BY <3>1 DEF CallType, ReaderAssumption
  <2>4. result'.kind = Judge(call, a) /\ result'.id = a.id
    BY <2>1 DEF Answered
  <2>5. a.id = call.id /\ air # None /\ a = air.answer
    BY <2>1, <2>2, <2>3, <2>4
  <2>6. /\ a.op = Command(call.op) /\ <<a.sf1, a.sf2>> \in Flags(call.op)
        /\ performed = (Changes(call.op) /\ <<a.sf1, a.sf2>> # <<1, 161>>)
    BY <2>2, <2>5, Zenon DEF Inv, Exchange
  <2>7. \/ <<a.sf1, a.sf2>> # <<1, 161>> /\ Judge(call, a) = "Ok"
        \/ <<a.sf1, a.sf2>> # <<1, 161>> /\ Judge(call, a) = "Protocol" /\ Check(call.op) = "result"
        \/ <<a.sf1, a.sf2>> = <<1, 161>> /\ Judge(call, a) = "Status"
    BY <2>2, <2>3, <2>5, <2>6, JudgeOfChange
  <2> QED
    BY <2>2, <2>4, <2>6, <2>7, Zenon
<1>2. CASE TimeOut
  <2>1. call' = call /\ phase = "calling"
    BY <1>2 DEF TimeOut
  <2>2. call.id \in 1..MaxCalls
    BY <2>1, InProgress DEF Inv, CallType
  <2>3. result'.id = 0
    BY <1>2, TimeOutStep DEF Error, NoResult
  <2> QED
    BY <2>1, <2>2, <2>3 DEF ReaderAssumption
<1>3. CASE phase = "idle" /\ UNCHANGED <<call, handle, result, performed>> /\ (heard' => heard)
  BY <1>3, Zenon DEF ChangeIsReported, ChangeIsJudged
<1> QED
  BY <1>1, <1>2, <1>3, ReturnedStays

\* The attempt that ends a polling: the best bitrate of the card that is there is the
\* first of the ones left.
LEMMA PollingEnds ==
    ASSUME ReaderAssumption, Inv, Found \/ Missed \/ Unsupported, phase' = "idle", heard',
           NEW c \in field, NEW rate \in Requested(poll) \cap CardRates[c]
    PROVE  handle' # None /\ handle'.card = c /\ Preference(handle'.rate) <= Preference(rate)
<1>1. phase = "polling"
  BY PollTyped DEF Inv
<1>2. /\ todo \in Seq(STRING) /\ todo # <<>> /\ Sorted(todo) /\ validate_polling_parameters(poll)
      /\ \A d \in field : c = d
  BY <1>1 DEF Inv, Typed, TypeOK, Untried
<1>3. heard
  BY <1>1 DEF Found, Missed, Unsupported
<1>4. PICK i \in DOMAIN todo : todo[i] = rate
  BY <1>1, <1>3 DEF Inv, Untried
<1>5. Head(todo) = todo[1] /\ 1 \in DOMAIN todo /\ i \in 1..Len(todo) /\ Len(todo) \in Nat
      /\ Head(todo) \in STRING
  BY <1>2, TailOf
<1>6. Preference(Head(todo)) <= Preference(rate)
  BY <1>2, <1>4, <1>5 DEF Sorted
<1>7. CASE Found
  <2>1. PICK d \in field : handle' = [card |-> d, rate |-> Head(todo)]
    BY <1>7 DEF Found, InTime, EndPolling
  <2>2. handle' \in Handle
    BY <1>2, <1>5, <2>1 DEF Handle, Inv, Typed, TypeOK
  <2>3. handle' # None
    BY <2>2 DEF ReaderAssumption
  <2> QED
    BY <1>2, <1>6, <2>1, <2>3
<1>8. CASE Missed
  <2>1. /\ Len(todo) = 1
        /\ \E slot \in 0..poll.time_slots : InTime(slot) = {}
    BY <1>1, <1>8 DEF Missed
  <2>2. PICK slot \in 0..poll.time_slots : InTime(slot) = {}
    BY <2>1
  <2>3. SlotEnd(slot) <= polling_timeout_ms(poll.time_slots) * CYCLES_PER_MS
    BY <1>2, SlotsAreCovered
  <2>4. Head(todo) \notin CardRates[c]
    BY <2>2, <2>3 DEF InTime
  <2>5. rate = Head(todo)
    BY <1>4, <1>5, <2>1
  <2> QED
    BY <2>4, <2>5
<1>9. CASE Unsupported
  <2>1. Preference(Head(todo)) = 2
    BY <1>9 DEF Unsupported, Malformed, Preference
  <2>2. rate \in {"212F", "424F"}
    BY DEF ReaderAssumption, Inv, Typed, TypeOK
  <2>3. Preference(rate) \in {0, 1}
    BY <2>2 DEF Preference
  <2> QED
    BY <1>6, <2>1, <2>3
<1> QED
  BY <1>7, <1>8, <1>9

LEMMA PollingStep ==
    ASSUME ReaderAssumption, Inv, PollingFindsTheBest, [Next]_vars
    PROVE  PollingFindsTheBest'
<1> SUFFICES ASSUME phase' = "idle", poll' # None, call' = NoCall, heard', validate_polling_parameters(poll'),
                    NEW c \in field', NEW rate \in Requested(poll') \cap CardRates[c]
             PROVE  handle' # None /\ handle'.card = c /\ Preference(handle'.rate) <= Preference(rate)
  BY DEF PollingFindsTheBest, validate_polling_parameters, Requested
<1> DEFINE Goal == handle' # None /\ handle'.card = c /\ Preference(handle'.rate) <= Preference(rate)
<1>1. ASSUME phase = "idle", heard, UNCHANGED <<poll, call, handle, field>>
      PROVE  Goal
  BY <1>1 DEF PollingFindsTheBest
<1>2. CASE UNCHANGED vars
  BY <1>1, <1>2 DEF vars
<1>3. ASSUME NEW d \in Cards, Enter(d)
      PROVE  Goal
  <2>1. call # NoCall /\ call' = call
    BY <1>3, Zenon DEF Enter
  <2> QED
    BY <2>1
<1>4. CASE Leave
  BY <1>4 DEF Leave
<1>5. ASSUME NEW p \in Polls, StartPolling(p)
      PROVE  Goal
  <2>1. poll' = p /\ ~Pollable(p)
    BY <1>5 DEF StartPolling
  <2>2. p.rates \in Seq(STRING)
    BY DEF ReaderAssumption
  <2> DEFINE o == order_felica_bitrates(p.rates)
  <2>3. o = <<>>
    BY <2>1 DEF Pollable
  <2>4. o \in Seq(STRING) /\ \A m \in DOMAIN p.rates : \E k \in DOMAIN o : o[k] = p.rates[m]
    BY <2>2, OrderedBitrates
  <2> HIDE DEF o
  <2>5. DOMAIN o = {}
    BY <2>3
  <2>6. Requested(p) = {}
    BY <2>4, <2>5 DEF Requested
  <2> QED
    BY <2>1, <2>6
<1>6. CASE Found \/ Missed \/ Unsupported
  <2>1. field' = field /\ poll' = poll
    BY <1>6, PollTyped DEF Inv
  <2> QED
    BY <1>6, <2>1, PollingEnds
<1>7. ASSUME NEW scheme \in {None, "Des", "Aes128"}, SetContext(scheme)
      PROVE  Goal
  BY <1>1, <1>7 DEF SetContext, unpolled
<1>8. ASSUME NEW req \in Requests, Call(req)
      PROVE  Goal
  BY <1>8 DEF Call
<1>9. CASE Receive \/ TimeOut
  <2>1. phase = "calling" /\ call' = call
    BY <1>9, Remains DEF Inv
  <2> QED
    BY <2>1 DEF Inv, Typed
<1>10. CASE Passes
  BY <1>1, <1>10 DEF Passes, unpolled
<1> QED
  BY <1>2, <1>3, <1>4, <1>5, <1>6, <1>7, <1>8, <1>9, <1>10 DEF Next

-----------------------------------------------------------------------------
LEMMA InvHolds == ASSUME ReaderAssumption PROVE Spec => []Inv
<1>1. Init => Inv
  BY InitInv
<1>2. Inv /\ [Next]_vars => Inv'
  BY InvStep
<1> QED
  BY <1>1, <1>2, PTL DEF Spec

\* For any cards, PMm, requests and faults: what a call returns as its result is the
\* answer of the polled card to that call, unless the card is slower than its PMm and
\* the command is a plain one; a card that keeps to its PMm is never timed out, and
\* what goes on the air and comes back fits into a packet (execute_command,
\* compute_timeout, ensure_len_in_range).
THEOREM CallsGetTheirOwnResult == ASSUME ReaderAssumption PROVE Spec => []ResultIsOwn
<1>1. Init => OwnResult /\ AnswerIsAwaited
  BY DEF Init, OwnResult, AnswerIsAwaited
<1>2. Inv /\ OwnResult /\ [Next]_vars => OwnResult'
  BY OwnResultStep
<1>3. Inv /\ AnswerIsAwaited /\ [Next]_vars => AnswerIsAwaited'
  BY AwaitedStep
<1>4. Inv => TypeOK /\ RequestIsAnswerable
  <2>1. Inv => TypeOK
    BY DEF Inv, Typed
  <2>2. ASSUME Inv, phase = "calling"
        PROVE  CommandLen(call) <= MAX_PACKET_LEN /\ AnswerLen(call) <= MAX_PACKET_LEN
    <3>1. call \in CallType /\ Refusal(call) = "Ok"
      BY <2>2, InProgress DEF Inv, Typed, TypeOK
    <3> QED
      BY <3>1, Answerable
  <2> QED
    BY <2>1, <2>2 DEF RequestIsAnswerable
<1>5. TypeOK /\ RequestIsAnswerable /\ OwnResult /\ AnswerIsAwaited => ResultIsOwn
  BY DEF ResultIsOwn
<1> QED
  BY <1>1, <1>2, <1>3, <1>4, <1>5, InvHolds, PTL DEF Spec

\* Whichever operations a card answers with SF1 = FFh and its warning: a change is reported
\* as refused only if the card refused it, and as done only if it was done; what is left is
\* a change done whose answer lacks the result that the operation takes out of it
\* (check_status_flags, require_result).
THEOREM ChangesAreReported ==
    ASSUME ReaderAssumption
    PROVE  Spec => []ChangeIsReported
<1>1. Init => ChangeIsReported
  BY DEF Init, ChangeIsReported, ChangeIsJudged
<1>2. Inv /\ ChangeIsReported /\ [Next]_vars => ChangeIsReported'
  BY ReportedStep
<1> QED
  BY <1>1, <1>2, InvHolds, PTL DEF Spec

\* Whatever bitrates are requested, in whatever order and however often: if nothing is
\* lost, the card that is there when polling starts is found, in whatever time slot it
\* answers, at the highest of the requested bitrates that it has (polling_multi,
\* order_felica_bitrates, polling_timeout_ms).
THEOREM PollingFindsTheCard == ASSUME ReaderAssumption PROVE Spec => []PollingFindsTheBest
<1>1. Init => PollingFindsTheBest
  BY DEF Init, PollingFindsTheBest
<1>2. Inv /\ PollingFindsTheBest /\ [Next]_vars => PollingFindsTheBest'
  BY PollingStep
<1> QED
  BY <1>1, <1>2, InvHolds, PTL DEF Spec
=============================================================================
