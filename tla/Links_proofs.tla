---------------------------- MODULE Links_proofs ----------------------------
(***************************************************************************)
(* Proofs about modules HostLink, for every reader, every width of the     *)
(* sequence number, and any number of commands, packets under way and      *)
(* faults, and Remote, for any clients, any number of requests and any     *)
(* number of connections that break.                                       *)
(***************************************************************************)
EXTENDS HostLink, Remote, SequenceTheorems, TLAPS

-----------------------------------------------------------------------------
(* The packets the driver has yet to read, in order, and the commands the   *)
(* reader has yet to answer.                                                *)

Queue == held \o pipe
Noisy(p) == p.kind = "noise"
Final(p) == p.kind \in {"rsp", "err", "busy"}

\* Of the packets q and the commands r, the first n ones written: packets come
\* in the order of the commands they belong to, and the command of a final
\* packet is over.
Ordered(q, r, n) ==
    /\ \A i \in 1..Len(q) : ~Noisy(q[i]) => q[i].owner \in 1..n
    /\ \A i \in 1..Len(r) : r[i].id \in 1..n
    /\ \A i, j \in 1..Len(q) : i < j /\ ~Noisy(q[i]) /\ ~Noisy(q[j]) =>
         /\ q[i].owner <= q[j].owner
         /\ Final(q[i]) => q[i].owner < q[j].owner
    /\ \A i \in 1..Len(q), j \in 1..Len(r) : ~Noisy(q[i]) =>
         /\ q[i].owner <= r[j].id
         /\ Final(q[i]) => q[i].owner < r[j].id
    /\ \A i, j \in 1..Len(r) : i < j => r[i].id < r[j].id

\* Nothing of q and r is more than f commands behind c.
Behind(q, r, c, f) ==
    /\ \A i \in 1..Len(q) : ~Noisy(q[i]) => c - q[i].owner <= f
    /\ \A i \in 1..Len(r) : c - r[i].id <= f

InOrder == Ordered(Queue, reader, sent)

\* The command whose answer would be read next.
Current == IF host.phase = "idle" THEN sent + 1 ELSE sent

\* Every command a leftover is behind was paid for by an exchange that failed.
LagPaid == Behind(Queue, reader, Current, failed)

\* The phases a driver uses.
Fits(phase) ==
    /\ chip = "ccid" => phase \in {"idle", "rsp"}
    /\ phase \in {"recover", "drain"} => chip # "rcs320"

ExchangeOf ==
    /\ host.phase # "idle" => host.id = sent /\ host.code \in Codes
    /\ failed <= sent /\ (host.phase # "idle" => failed < sent)
    /\ Len(held) <= 1
    /\ chip # "rcs320" => held = <<>>
    /\ Fits(host.phase)

-----------------------------------------------------------------------------
(* CCID: how old a packet can be.                                           *)

Unread == IF host.phase # "idle" /\ ~host.read /\ ~host.late THEN 1 ELSE 0

\* Of the n commands written, the reader holds the last ones, but for the f that
\* never reached it.
Recent(r, n, f) ==
    \A i \in 1..Len(r) : r[i].seq = Sequence(r[i].id) /\ n - r[i].id <= Len(r) - i + f

\* The packet at position i of q is at most slack - i commands old.
Fresh(q, n, slack) ==
    \A i \in 1..Len(q) : ~Noisy(q[i]) =>
        q[i].seq = Sequence(q[i].owner) /\ n - q[i].owner <= slack - i

Slack == MaxBacklog - 1 + faults + MaxPipe + Unread

Window ==
    /\ Recent(reader, sent, faults)
    /\ chip = "ccid" => Fresh(pipe, sent, Slack)

-----------------------------------------------------------------------------
(* Port-100: what is left of an exchange that is over.                      *)

Clean == pipe = <<>> /\ reader = <<>>

Recovered ==
    /\ host.phase = "idle" => Clean
    /\ \A i \in 1..Len(pipe) : pipe[i].owner = sent
    /\ \A i \in 1..Len(reader) : reader[i].id = sent
    /\ host.phase = "ack" =>
         /\ \A i \in 1..Len(pipe) : IF i = 1 THEN pipe[i].kind = "ack" ELSE Final(pipe[i])
         /\ reader # <<>> => Len(reader) = 1 /\ (reader[1].acked <=> Len(pipe) = 1) /\ Len(pipe) <= 1
         /\ Len(pipe) <= 2
         /\ host.late => Clean
    /\ host.phase = "rsp" =>
         /\ Len(pipe) <= 1 /\ \A i \in 1..Len(pipe) : Final(pipe[i])
         /\ reader # <<>> => Len(reader) = 1 /\ reader[1].acked /\ pipe = <<>>
    /\ host.phase = "broken" \/ (host.phase = "recover" /\ ~host.drain) => Clean
    /\ host.phase = "drain" => reader = <<>>
    /\ host.phase # "more"

-----------------------------------------------------------------------------
(* Sequences                                                                *)

\* r is q without its first k elements.
Shifted(q, r, k) ==
    /\ k \in 0..Len(q) /\ Len(r) = Len(q) - k
    /\ \A i \in 1..Len(r) : r[i] = q[i + k]

\* What TypeOK says of the sequences.
LEMMA SeqTypes ==
    ASSUME TypeOK
    PROVE  /\ reader \in Seq(Command) /\ pipe \in Seq(Packet) /\ held \in Seq(Packet)
           /\ Len(reader) \in Nat /\ Len(pipe) \in Nat /\ Len(held) \in Nat
           /\ DOMAIN reader = 1..Len(reader) /\ DOMAIN pipe = 1..Len(pipe)
           /\ DOMAIN held = 1..Len(held)
BY DEF TypeOK

\* Nothing, or the head, is taken off a sequence.
LEMMA ShiftedBy ==
    ASSUME NEW S, NEW q \in Seq(S)
    PROVE  /\ Shifted(q, q, 0)
           /\ Shifted(q, <<>>, Len(q))
           /\ q # <<>> => /\ Shifted(q, Tail(q), 1) /\ Tail(q) \in Seq(S) /\ Head(q) = q[1]
                          /\ Head(q) \in S /\ Len(q) >= 1 /\ Len(Tail(q)) = Len(q) - 1
<1>1. Len(q) \in Nat
  OBVIOUS
<1>2. Shifted(q, q, 0) /\ Shifted(q, <<>>, Len(q))
  BY <1>1 DEF Shifted
<1>3. ASSUME q # <<>>
      PROVE  /\ Shifted(q, Tail(q), 1) /\ Tail(q) \in Seq(S) /\ Head(q) = q[1] /\ Head(q) \in S
             /\ Len(q) >= 1 /\ Len(Tail(q)) = Len(q) - 1
  <2>1. /\ Head(q) \in S /\ Tail(q) \in Seq(S) /\ Len(Tail(q)) = Len(q) - 1
        /\ \A i \in 1..Len(Tail(q)) : Tail(q)[i] = q[i + 1]
    BY <1>3, HeadTailProperties
  <2>2. Len(q) >= 1
    BY <1>1, <1>3, EmptySeq
  <2> QED
    BY <1>1, <2>1, <2>2 DEF Shifted
<1> QED
  BY <1>2, <1>3

\* What is buffered, then the pipe.
LEMMA ConcatIs ==
    ASSUME NEW S, NEW h \in Seq(S), NEW p \in Seq(S), Len(h) <= 1
    PROVE  /\ h \o p \in Seq(S) /\ DOMAIN (h \o p) = 1..Len(h \o p) /\ Len(h \o p) \in Nat
           /\ Len(h \o p) = Len(h) + Len(p)
           /\ h = <<>> => h \o p = p
           /\ h # <<>> => /\ Len(h) = 1 /\ (h \o p)[1] = h[1]
                          /\ \A i \in 1..Len(p) : (h \o p)[i + 1] = p[i]
<1>1. h \o p \in Seq(S) /\ Len(h \o p) = Len(h) + Len(p)
      /\ \A i \in 1..(Len(h) + Len(p)) : (h \o p)[i] = IF i <= Len(h) THEN h[i] ELSE p[i - Len(h)]
  BY ConcatProperties, Zenon
<1>2. h = <<>> => h \o p = p
  BY ConcatEmptySeq
<1>3. DOMAIN (h \o p) = 1..Len(h \o p) /\ Len(h \o p) \in Nat
  BY <1>1, LenProperties
<1>4. ASSUME h # <<>> PROVE Len(h) = 1
  <2> DEFINE n == Len(h)
  <2>1. n >= 1 /\ n \in Nat /\ n <= 1
    BY <1>4, ShiftedBy
  <2> HIDE DEF n
  <2>2. n = 1
    BY <2>1
  <2> QED
    BY <2>2 DEF n
<1>5. ASSUME h # <<>>, NEW i \in 1..Len(p) PROVE (h \o p)[i + 1] = p[i]
  <2>1. Len(h) = 1 /\ Len(p) \in Nat /\ i + 1 \in 1..(1 + Len(p)) /\ (i + 1) - 1 = i
    BY <1>4, <1>5
  <2> QED
    BY <1>1, <2>1
<1>6. ASSUME h # <<>> PROVE (h \o p)[1] = h[1]
  <2>1. Len(h) = 1 /\ Len(p) \in Nat /\ 1 \in 1..(1 + Len(p))
    BY <1>4, <1>6
  <2> QED
    BY <1>1, <2>1
<1> QED
  BY <1>1, <1>2, <1>3, <1>4, <1>5, <1>6

LEMMA QueueIs ==
    ASSUME held \in Seq(Packet), pipe \in Seq(Packet), Len(held) <= 1
    PROVE  /\ Queue \in Seq(Packet) /\ DOMAIN Queue = 1..Len(Queue) /\ Len(Queue) \in Nat
           /\ Len(Queue) = Len(held) + Len(pipe)
           /\ held = <<>> => Queue = pipe
           /\ held # <<>> => /\ Len(held) = 1 /\ Queue[1] = held[1]
                             /\ \A i \in 1..Len(pipe) : Queue[i + 1] = pipe[i]
BY ConcatIs DEF Queue

\* r is q with p at its end.
Extended(q, r, p) ==
    /\ Len(r) = Len(q) + 1 /\ r[Len(q) + 1] = p
    /\ \A i \in 1..Len(q) : r[i] = q[i]

LEMMA AppendExtends ==
    ASSUME NEW S, NEW q \in Seq(S), NEW p \in S
    PROVE  Append(q, p) \in Seq(S) /\ Extended(q, Append(q, p), p) /\ Len(q) \in Nat
BY AppendProperties DEF Extended

\* A packet put into the pipe is put into the queue.
LEMMA ConcatExtends ==
    ASSUME NEW S, NEW h \in Seq(S), NEW q \in Seq(S), NEW p \in S, Len(h) <= 1
    PROVE  Extended(h \o q, h \o Append(q, p), p)
<1> DEFINE r == Append(q, p)
           a == h \o q
           b == h \o r
           n == Len(q)
<1>1. r \in Seq(S) /\ Extended(q, r, p) /\ n \in Nat
  BY AppendExtends
<1> HIDE DEF r
<1>2. CASE h = <<>>
  <2>1. a = q /\ b = r
    BY <1>1, <1>2, ConcatIs
  <2> QED
    BY <1>1, <2>1 DEF r
<1>3. CASE h # <<>>
  <2>1. /\ Len(h) = 1 /\ Len(a) = Len(h) + n /\ a[1] = h[1]
        /\ \A i \in 1..n : a[i + 1] = q[i]
    BY <1>1, <1>3, ConcatIs
  <2>2. /\ Len(b) = Len(h) + Len(r) /\ b[1] = h[1]
        /\ \A i \in 1..Len(r) : b[i + 1] = r[i]
    BY <1>1, <1>3, ConcatIs
  <2> HIDE DEF a, b, n
  <2>3. Len(r) = n + 1 /\ r[n + 1] = p /\ \A i \in 1..n : r[i] = q[i]
    BY <1>1 DEF Extended, n
  <2>4. Len(a) = n + 1 /\ Len(b) = n + 2 /\ b[n + 2] = p
    <3>1. n + 1 \in 1..Len(r) /\ (n + 1) + 1 = n + 2
      BY <1>1, <2>3
    <3> QED
      BY <1>1, <2>1, <2>2, <2>3, <3>1
  <2>5. ASSUME NEW i \in 1..(n + 1) PROVE b[i] = a[i]
    <3>1. CASE i = 1
      BY <2>1, <2>2, <3>1
    <3>2. CASE i # 1
      <4>1. i - 1 \in 1..n /\ i - 1 \in 1..Len(r) /\ (i - 1) + 1 = i
        BY <1>1, <2>3, <3>2
      <4> QED
        BY <2>1, <2>2, <2>3, <4>1
    <3> QED
      BY <3>1, <3>2
  <2>6. Extended(a, b, p)
    BY <1>1, <2>4, <2>5 DEF Extended
  <2> QED
    BY <2>6 DEF a, b, r
<1> QED
  BY <1>2, <1>3

-----------------------------------------------------------------------------
(* Order and age: taking from the front, and adding at the end              *)

LEMMA DropKeepsOrder ==
    ASSUME NEW q, NEW r, NEW q2, NEW r2, NEW n \in Nat, NEW k, NEW m, Len(q) \in Nat, Len(r) \in Nat,
           Ordered(q, r, n), Shifted(q, q2, k), Shifted(r, r2, m)
    PROVE  Ordered(q2, r2, n)
<1>1. /\ k \in 0..Len(q) /\ Len(q2) = Len(q) - k /\ Len(q2) \in Nat
      /\ m \in 0..Len(r) /\ Len(r2) = Len(r) - m /\ Len(r2) \in Nat
  BY DEF Shifted
<1>2. ASSUME NEW i \in 1..Len(q2) PROVE i + k \in 1..Len(q) /\ q2[i] = q[i + k]
  BY <1>1 DEF Shifted
<1>3. ASSUME NEW i \in 1..Len(r2) PROVE i + m \in 1..Len(r) /\ r2[i] = r[i + m]
  BY <1>1 DEF Shifted
<1>4. ASSUME NEW i \in 1..Len(q2), ~Noisy(q2[i]) PROVE q2[i].owner \in 1..n
  BY <1>2, <1>4 DEF Ordered
<1>5. ASSUME NEW i \in 1..Len(r2) PROVE r2[i].id \in 1..n
  BY <1>3 DEF Ordered
<1>6. ASSUME NEW i \in 1..Len(q2), NEW j \in 1..Len(q2), i < j, ~Noisy(q2[i]), ~Noisy(q2[j])
      PROVE  /\ q2[i].owner <= q2[j].owner
             /\ Final(q2[i]) => q2[i].owner < q2[j].owner
  <2>1. i + k < j + k
    BY <1>1, <1>6
  <2> QED
    BY <1>2, <1>6, <2>1 DEF Ordered
<1>7. ASSUME NEW i \in 1..Len(q2), NEW j \in 1..Len(r2), ~Noisy(q2[i])
      PROVE  /\ q2[i].owner <= r2[j].id
             /\ Final(q2[i]) => q2[i].owner < r2[j].id
  BY <1>2, <1>3, <1>7 DEF Ordered
<1>8. ASSUME NEW i \in 1..Len(r2), NEW j \in 1..Len(r2), i < j
      PROVE  r2[i].id < r2[j].id
  <2>1. i + m < j + m
    BY <1>1, <1>8
  <2> QED
    BY <1>3, <2>1 DEF Ordered
<1> QED
  BY <1>4, <1>5, <1>6, <1>7, <1>8 DEF Ordered

LEMMA DropKeepsAge ==
    ASSUME NEW q, NEW r, NEW q2, NEW r2, NEW c, NEW f, NEW k, NEW m, Len(q) \in Nat, Len(r) \in Nat,
           Behind(q, r, c, f), Shifted(q, q2, k), Shifted(r, r2, m)
    PROVE  Behind(q2, r2, c, f)
<1>1. /\ k \in 0..Len(q) /\ Len(q2) = Len(q) - k /\ Len(q2) \in Nat
      /\ m \in 0..Len(r) /\ Len(r2) = Len(r) - m /\ Len(r2) \in Nat
  BY DEF Shifted
<1>2. ASSUME NEW i \in 1..Len(q2) PROVE i + k \in 1..Len(q) /\ q2[i] = q[i + k]
  BY <1>1 DEF Shifted
<1>3. ASSUME NEW i \in 1..Len(r2) PROVE i + m \in 1..Len(r) /\ r2[i] = r[i + m]
  BY <1>1 DEF Shifted
<1> QED
  BY <1>2, <1>3 DEF Behind

\* After the final packet of a command everything is one command younger.
LEMMA FinalMakesRoom ==
    ASSUME NEW q, NEW r, NEW q2, NEW r2, NEW n \in Nat, NEW c \in Nat, NEW f \in Nat, NEW m,
           Len(q) \in Nat, Len(r) \in Nat, Ordered(q, r, n), Behind(q, r, c, f), 1 \in 1..Len(q),
           Final(q[1]), Shifted(q, q2, 1), Shifted(r, r2, m)
    PROVE  Behind(q2, r2, c + 1, f)
<1>1. /\ Len(q2) = Len(q) - 1 /\ Len(q2) \in Nat
      /\ m \in 0..Len(r) /\ Len(r2) = Len(r) - m /\ Len(r2) \in Nat
  BY DEF Shifted
<1>2. ASSUME NEW i \in 1..Len(q2) PROVE i + 1 \in 1..Len(q) /\ 1 < i + 1 /\ q2[i] = q[i + 1]
  BY <1>1 DEF Shifted
<1>3. ASSUME NEW i \in 1..Len(r2) PROVE i + m \in 1..Len(r) /\ r2[i] = r[i + m]
  BY <1>1 DEF Shifted
<1>4. ~Noisy(q[1]) /\ q[1].owner \in 1..n /\ c - q[1].owner <= f
  BY DEF Ordered, Behind, Final, Noisy
<1>5. ASSUME NEW i \in 1..Len(q2), ~Noisy(q2[i]) PROVE (c + 1) - q2[i].owner <= f
  <2>1. i + 1 \in 1..Len(q) /\ 1 < i + 1 /\ q2[i] = q[i + 1]
    BY <1>2
  <2>2. q2[i].owner \in 1..n /\ q[1].owner < q2[i].owner
    BY <1>4, <1>5, <2>1 DEF Ordered
  <2> QED
    BY <1>4, <2>2
<1>6. ASSUME NEW i \in 1..Len(r2) PROVE (c + 1) - r2[i].id <= f
  <2>1. r[i + m].id \in 1..n /\ q[1].owner < r[i + m].id
    BY <1>3, <1>4 DEF Ordered
  <2> QED
    BY <1>3, <1>4, <2>1
<1> QED
  BY <1>5, <1>6 DEF Behind

\* A command written, and a write that failed.
LEMMA CommandKeepsOrder ==
    ASSUME NEW q, NEW r, NEW r2, NEW n \in Nat, NEW c, Len(q) \in Nat, Len(r) \in Nat,
           Ordered(q, r, n), c.id = n + 1
    PROVE  Ordered(q, r, n + 1) /\ (Extended(r, r2, c) => Ordered(q, r2, n + 1))
<1>1. Ordered(q, r, n + 1)
  BY DEF Ordered
<1>2. ASSUME Extended(r, r2, c) PROVE Ordered(q, r2, n + 1)
  <2>1. /\ Len(r2) = Len(r) + 1 /\ r2[Len(r) + 1].id = n + 1
        /\ \A i \in 1..Len(r) : r2[i] = r[i]
    BY <1>2 DEF Extended
  <2>2. ASSUME NEW i \in 1..Len(r2)
        PROVE  (i \in 1..Len(r) /\ r2[i].id = r[i].id /\ r[i].id \in 1..n) \/ (i = Len(r) + 1 /\ r2[i].id = n + 1)
    <3>1. i \in 1..Len(r) \/ i = Len(r) + 1
      BY <2>1
    <3> QED
      BY <2>1, <3>1 DEF Ordered
  <2>3. \A i \in 1..Len(r2) : r2[i].id \in 1..(n + 1)
    BY <2>2
  <2>4. ASSUME NEW i \in 1..Len(q), NEW j \in 1..Len(r2), ~Noisy(q[i])
        PROVE  /\ q[i].owner <= r2[j].id
               /\ Final(q[i]) => q[i].owner < r2[j].id
    <3>1. q[i].owner \in 1..n
      BY <2>4 DEF Ordered
    <3> QED
      BY <2>2, <2>4, <3>1 DEF Ordered
  <2>5. ASSUME NEW i \in 1..Len(r2), NEW j \in 1..Len(r2), i < j
        PROVE  r2[i].id < r2[j].id
    <3>1. i \in 1..Len(r) /\ r2[i].id = r[i].id /\ r[i].id \in 1..n
      BY <2>1, <2>2, <2>5
    <3> QED
      BY <2>2, <2>5, <3>1 DEF Ordered
  <2> QED
    BY <1>1, <2>3, <2>4, <2>5 DEF Ordered
<1> QED
  BY <1>1, <1>2

LEMMA CommandKeepsAge ==
    ASSUME NEW q, NEW r, NEW r2, NEW c \in Nat, NEW f \in Nat, NEW command, Len(r) \in Nat,
           Behind(q, r, c, f), Extended(r, r2, command), c - command.id <= f
    PROVE  Behind(q, r2, c, f)
<1>1. ASSUME NEW i \in 1..Len(r2) PROVE c - r2[i].id <= f
  <2>1. i \in 1..Len(r) \/ i = Len(r) + 1
    BY DEF Extended
  <2> QED
    BY <2>1 DEF Extended, Behind
<1> QED
  BY <1>1 DEF Behind

\* The same commands, whether acknowledged or not.
LEMMA AckKeepsOrder ==
    ASSUME NEW q, NEW r, NEW r2, NEW n, NEW c, NEW f, Len(r2) = Len(r),
           \A i \in 1..Len(r) : r2[i].id = r[i].id
    PROVE  /\ Ordered(q, r, n) => Ordered(q, r2, n)
           /\ Behind(q, r, c, f) => Behind(q, r2, c, f)
BY DEF Ordered, Behind

\* A packet of noise, one of the oldest command, and the last one of it.
LEMMA PacketKeepsOrder ==
    ASSUME NEW q, NEW r, NEW q2, NEW r2, NEW p, NEW n \in Nat, Len(q) \in Nat, Len(r) \in Nat,
           Ordered(q, r, n), Extended(q, q2, p),
           \/ Noisy(p) /\ r2 = r
           \/ ~Noisy(p) /\ ~Final(p) /\ 1 \in 1..Len(r) /\ p.owner = r[1].id /\ r2 = r
           \/ ~Noisy(p) /\ 1 \in 1..Len(r) /\ p.owner = r[1].id /\ Shifted(r, r2, 1)
    PROVE  Ordered(q2, r2, n)
<1>1. /\ Len(q2) = Len(q) + 1 /\ q2[Len(q) + 1] = p /\ \A i \in 1..Len(q) : q2[i] = q[i]
  BY DEF Extended
<1>2. PICK m \in {0, 1} :
        /\ Shifted(r, r2, m)
        /\ ~Noisy(p) => 1 \in 1..Len(r) /\ p.owner = r[1].id /\ p.owner \in 1..n
        /\ ~Noisy(p) /\ Final(p) => m = 1
  <2>1. Shifted(r, r, 0)
    BY DEF Shifted
  <2>2. ~Noisy(p) => 1 \in 1..Len(r) /\ p.owner = r[1].id /\ p.owner \in 1..n
    BY DEF Ordered
  <2>3. CASE r2 = r /\ (~Noisy(p) => ~Final(p))
    BY <2>1, <2>2, <2>3
  <2>4. CASE Shifted(r, r2, 1)
    BY <2>2, <2>4
  <2> QED
    BY <2>3, <2>4
<1>3. ASSUME NEW i \in 1..Len(q2) PROVE (i \in 1..Len(q) /\ q2[i] = q[i]) \/ (i = Len(q) + 1 /\ q2[i] = p)
  <2>1. i \in 1..Len(q) \/ i = Len(q) + 1
    BY <1>1
  <2> QED
    BY <1>1, <2>1
<1>4. ASSUME NEW i \in 1..Len(r2) PROVE i + m \in 1..Len(r) /\ r2[i] = r[i + m]
  BY <1>2 DEF Shifted
<1>5. \A i \in 1..Len(q2) : ~Noisy(q2[i]) => q2[i].owner \in 1..n
  BY <1>2, <1>3 DEF Ordered
<1>6. \A i \in 1..Len(r2) : r2[i].id \in 1..n
  BY <1>4 DEF Ordered
<1>7. ASSUME NEW i \in 1..Len(q2), NEW j \in 1..Len(q2), i < j, ~Noisy(q2[i]), ~Noisy(q2[j])
      PROVE  /\ q2[i].owner <= q2[j].owner
             /\ Final(q2[i]) => q2[i].owner < q2[j].owner
  <2>1. i \in 1..Len(q) /\ q2[i] = q[i]
    BY <1>1, <1>3, <1>7
  <2>2. CASE j \in 1..Len(q) /\ q2[j] = q[j]
    BY <1>7, <2>1, <2>2 DEF Ordered
  <2>3. CASE j = Len(q) + 1 /\ q2[j] = p
    BY <1>2, <1>7, <2>1, <2>3 DEF Ordered
  <2> QED
    BY <1>3, <2>2, <2>3
<1>8. ASSUME NEW i \in 1..Len(q2), NEW j \in 1..Len(r2), ~Noisy(q2[i])
      PROVE  /\ q2[i].owner <= r2[j].id
             /\ Final(q2[i]) => q2[i].owner < r2[j].id
  <2>1. CASE i \in 1..Len(q) /\ q2[i] = q[i]
    BY <1>4, <1>8, <2>1 DEF Ordered
  <2>2. CASE i = Len(q) + 1 /\ q2[i] = p
    <3>1. j + m \in 1..Len(r) /\ r2[j] = r[j + m] /\ 1 \in 1..Len(r) /\ p.owner = r[1].id
      BY <1>2, <1>4, <1>8, <2>2
    <3>2. r[1].id \in 1..n /\ r[j + m].id \in 1..n
      BY <3>1 DEF Ordered
    <3>3. CASE j + m = 1
      <4>1. m = 0
        BY <3>3
      <4> QED
        BY <1>2, <1>8, <2>2, <3>1, <3>2, <3>3, <4>1
    <3>4. CASE j + m # 1
      <4>1. 1 < j + m
        BY <3>1, <3>4
      <4>2. r[1].id < r[j + m].id
        BY <3>1, <4>1 DEF Ordered
      <4> QED
        BY <2>2, <3>1, <3>2, <4>2
    <3> QED
      BY <3>3, <3>4
  <2> QED
    BY <1>3, <2>1, <2>2
<1>9. ASSUME NEW i \in 1..Len(r2), NEW j \in 1..Len(r2), i < j
      PROVE  r2[i].id < r2[j].id
  <2>1. i + m < j + m
    BY <1>9
  <2> QED
    BY <1>4, <2>1 DEF Ordered
<1> QED
  BY <1>5, <1>6, <1>7, <1>8, <1>9 DEF Ordered

LEMMA PacketKeepsAge ==
    ASSUME NEW q, NEW r, NEW q2, NEW p, NEW c \in Nat, NEW f \in Nat, Len(q) \in Nat,
           Behind(q, r, c, f), Extended(q, q2, p),
           ~Noisy(p) => 1 \in 1..Len(r) /\ p.owner = r[1].id
    PROVE  Behind(q2, r, c, f)
<1>1. ASSUME NEW i \in 1..Len(q2), ~Noisy(q2[i]) PROVE c - q2[i].owner <= f
  <2>1. i \in 1..Len(q) \/ i = Len(q) + 1
    BY DEF Extended
  <2> QED
    BY <1>1, <2>1 DEF Extended, Behind
<1> QED
  BY <1>1 DEF Behind

\* The age of everything is measured against the failures there were.
LEMMA FailureMakesRoom ==
    ASSUME NEW q, NEW r, NEW n \in Nat, NEW c \in Nat, NEW f \in Nat,
           Ordered(q, r, n), Behind(q, r, c, f)
    PROVE  Behind(q, r, c + 1, f + 1)
BY DEF Ordered, Behind

-----------------------------------------------------------------------------
(* What one step of the driver does                                         *)

HostType == [phase : Phases, id : 0..MaxSends, code : Codes \cup {"none"},
             late : BOOLEAN, read : BOOLEAN, drain : BOOLEAN, tries : 0..(SlotBusyRetries + 1),
             mismatches : 0..SEQUENCE_ERROR_RETRY_COUNT]
ResultType == [end : {"none", "ok", "err", "noack", "timeout"}, id : 0..MaxSends,
               owner : 0..MaxSends, cancelled : BOOLEAN]

\* The exchange goes on, fails, or succeeds with the answer p.
Continues ==
    /\ host' \in HostType /\ host'.phase # "idle" /\ host'.id = host.id /\ Fits(host'.phase)
    /\ host'.code = host.code
    /\ UNCHANGED <<result, failed>>
Fails == host' = Idle /\ failed' = failed + 1 /\ result' \in ResultType /\ result'.end # "ok"
Succeeds(p) ==
    /\ host' = Idle /\ failed' = failed /\ result' \in ResultType
    /\ p.kind = "rsp" /\ result'.id = host.id /\ result'.owner = p.owner

\* The buffers stay buffers, and k packets are gone from their front.
Buffers(k) ==
    /\ held' \in Seq(Packet) /\ Len(held') <= 1 /\ (chip # "rcs320" => held' = <<>>)
    /\ pipe' \in Seq(Packet) /\ Len(pipe') <= MaxPipe
    /\ Shifted(Queue, Queue', k)

LEMMA IdleTyped ==
    ASSUME HostLinkAssumption
    PROVE  /\ Idle \in HostType /\ NoResult \in ResultType /\ NoResult.end = "none"
           /\ Idle.phase = "idle" /\ MaxSends \in Nat /\ MaxPipe \in Nat /\ MaxBacklog \in Nat
           /\ MaxFaults \in Nat /\ SeqMod \in Nat /\ SeqMod > 0 /\ MaxBacklog > 0 /\ MaxPipe > 0
BY DEF HostLinkAssumption, Idle, HostType, NoResult, ResultType, Phases, SlotBusyRetries,
       SEQUENCE_ERROR_RETRY_COUNT

LEMMA EnterContinues ==
    ASSUME host \in HostType, NEW phase \in Phases \ {"idle"}, NEW drain \in BOOLEAN
    PROVE  /\ Enter(phase) /\ Fits(phase) => /\ Continues /\ host'.phase = phase
                              /\ ~host'.late /\ ~host'.read /\ host'.drain = host.drain
           /\ Recover(drain) /\ Fits("recover") =>
                                /\ Continues /\ host'.phase = "recover" /\ host'.drain = drain
                                /\ ~host'.late /\ ~host'.read
<1>1. ASSUME Enter(phase), Fits(phase) PROVE Continues
  BY <1>1 DEF Enter, Continues, HostType
<1>2. ASSUME Recover(drain), Fits("recover") PROVE Continues
  BY <1>2 DEF Recover, Continues, HostType, Phases
<1> QED
  BY <1>1, <1>2 DEF Enter, Recover, HostType

LEMMA FinishEnds ==
    ASSUME HostLinkAssumption, host \in HostType, NEW end \in {"ok", "err", "noack", "timeout"},
           NEW owner \in 0..MaxSends, NEW cancelled \in BOOLEAN, Finish(end, owner, cancelled)
    PROVE  /\ end # "ok" => Fails
           /\ host' = Idle /\ result' \in ResultType
           /\ result'.end = end /\ result'.id = host.id /\ result'.owner = owner
           /\ result'.cancelled = cancelled
           /\ end = "ok" => failed' = failed
<1>1. result' \in ResultType /\ result'.end = end /\ result'.id = host.id /\ result'.owner = owner
      /\ result'.cancelled = cancelled
  BY DEF Finish, ResultType, HostType
<1> QED
  BY <1>1 DEF Finish, Fails

LEMMA FailureFails ==
    ASSUME HostLinkAssumption, host \in HostType, NEW cancelled \in BOOLEAN,
           NEW end \in {"err", "noack", "timeout"}, Finish(end, 0, cancelled)
    PROVE  Fails
<1>1. 0 \in 0..MaxSends /\ end # "ok" /\ end \in {"ok", "err", "noack", "timeout"}
  BY IdleTyped
<1> QED
  BY <1>1, FinishEnds

\* The buffers when nothing is read, when what is held is forgotten, and when the
\* next packet is read.
LEMMA BuffersStay ==
    ASSUME TypeOK, ExchangeOf, UNCHANGED <<held, pipe>>
    PROVE  Buffers(0)
<1>1. Queue' = Queue /\ Queue \in Seq(Packet)
  BY SeqTypes, QueueIs DEF Queue, ExchangeOf
<1> QED
  BY <1>1, ShiftedBy DEF Buffers, TypeOK, ExchangeOf

LEMMA BuffersRead ==
    ASSUME HostLinkAssumption, TypeOK, ExchangeOf, NEW p, Available # <<>>, p = Head(Available),
           pipe' = IF held = <<>> THEN Tail(pipe) ELSE pipe, held' = <<>>
    PROVE  Buffers(1) /\ Queue # <<>> /\ p = Queue[1] /\ p \in Packet /\ 1 \in DOMAIN Queue
<1>0. /\ held \in Seq(Packet) /\ pipe \in Seq(Packet) /\ Len(pipe) \in Nat /\ Len(held) <= 1
      /\ Len(pipe) <= MaxPipe /\ Queue \in Seq(Packet) /\ Len(Queue) = Len(held) + Len(pipe)
      /\ DOMAIN Queue = 1..Len(Queue)
  BY SeqTypes, QueueIs DEF ExchangeOf, TypeOK
<1>1. CASE held = <<>>
  <2>1. pipe # <<>> /\ p = Head(pipe) /\ Queue = pipe /\ pipe' = Tail(pipe)
    BY <1>0, <1>1, QueueIs DEF Available
  <2>2. pipe' \in Seq(Packet) /\ Len(pipe') <= MaxPipe /\ held' \in Seq(Packet) /\ Len(held') = 0
        /\ Shifted(pipe, pipe', 1) /\ Head(pipe) = pipe[1] /\ Head(pipe) \in Packet /\ Len(pipe) >= 1
    <3>1. /\ pipe' \in Seq(Packet) /\ Len(pipe') = Len(pipe) - 1 /\ Shifted(pipe, pipe', 1)
          /\ Head(pipe) = pipe[1] /\ Head(pipe) \in Packet /\ Len(pipe) >= 1
      BY <1>0, <2>1, ShiftedBy
    <3>2. MaxPipe \in Nat
      BY IdleTyped
    <3> QED
      BY <1>0, <3>1, <3>2
  <2>3. Queue' = pipe'
    BY <2>2, ConcatEmptySeq DEF Queue
  <2> QED
    BY <1>0, <2>1, <2>2, <2>3 DEF Buffers
<1>2. CASE held # <<>>
  <2>1. p = Head(held) /\ pipe' = pipe /\ Len(held) = 1 /\ Queue[1] = held[1]
        /\ \A i \in 1..Len(pipe) : Queue[i + 1] = pipe[i]
    BY <1>0, <1>2, QueueIs DEF Available
  <2>2. Head(held) = held[1] /\ Head(held) \in Packet
    BY <1>0, <1>2, ShiftedBy
  <2>3. Queue' = pipe /\ held' \in Seq(Packet) /\ Len(held') = 0
    BY <1>0, <2>1, ConcatEmptySeq DEF Queue
  <2>4. Shifted(Queue, Queue', 1)
    BY <1>0, <2>1, <2>3 DEF Shifted
  <2> QED
    BY <1>0, <2>1, <2>2, <2>3, <2>4 DEF Buffers
<1> QED
  BY <1>1, <1>2

LEMMA TakeReads ==
    ASSUME HostLinkAssumption, TypeOK, ExchangeOf, NEW p, Next_(p)
    PROVE  Buffers(1) /\ Queue # <<>> /\ p = Queue[1] /\ p \in Packet /\ 1 \in DOMAIN Queue
<1>1. held \in Seq(Packet) /\ Len(held) <= 1
  BY DEF TypeOK, ExchangeOf
<1>2. held # <<>> => Tail(held) = <<>>
  BY <1>1, ShiftedBy, EmptySeq
<1>3. held' = <<>> /\ pipe' = IF held = <<>> THEN Tail(pipe) ELSE pipe
  BY <1>2 DEF Next_
<1> QED
  BY <1>3, BuffersRead DEF Next_

\* A packet that is put back, or whose rest is kept, is still there.
LEMMA BuffersKeep ==
    ASSUME HostLinkAssumption, TypeOK, ExchangeOf, chip = "rcs320", NEW p, Available # <<>>,
           p = Head(Available), pipe' = IF held = <<>> THEN Tail(pipe) ELSE pipe, held' = <<p>>
    PROVE  Buffers(0)
<1>0. /\ held \in Seq(Packet) /\ pipe \in Seq(Packet) /\ Len(pipe) \in Nat /\ Len(held) <= 1
      /\ Len(pipe) <= MaxPipe /\ Queue \in Seq(Packet) /\ MaxPipe \in Nat
  BY SeqTypes, QueueIs, IdleTyped DEF ExchangeOf, TypeOK
<1>1. p \in Packet /\ pipe' \in Seq(Packet) /\ Len(pipe') <= MaxPipe
  <2>1. CASE held = <<>>
    <3>1. pipe # <<>> /\ p = Head(pipe) /\ pipe' = Tail(pipe)
      BY <2>1 DEF Available
    <3>2. Head(pipe) \in Packet /\ Tail(pipe) \in Seq(Packet) /\ Len(Tail(pipe)) = Len(pipe) - 1
      BY <1>0, <3>1, ShiftedBy
    <3> QED
      BY <1>0, <3>1, <3>2
  <2>2. CASE held # <<>>
    <3>1. p = Head(held) /\ Head(held) \in Packet /\ pipe' = pipe
      BY <1>0, <2>2, ShiftedBy DEF Available
    <3> QED
      BY <1>0, <3>1
  <2> QED
    BY <2>1, <2>2
<1>2. held' \in Seq(Packet) /\ Len(held') = 1 /\ held' # <<>> /\ held'[1] = p
  BY <1>1
<1>3. /\ Len(Queue') = 1 + Len(pipe') /\ Queue'[1] = p /\ Queue' \in Seq(Packet)
      /\ \A i \in 1..Len(pipe') : Queue'[i + 1] = pipe'[i]
  BY <1>1, <1>2, ConcatIs DEF Queue
<1>4. Shifted(Queue, Queue', 0)
  <2>1. CASE held = <<>>
    <3>1. pipe # <<>> /\ p = Head(pipe) /\ pipe' = Tail(pipe) /\ Queue = pipe
      BY <1>0, <2>1, QueueIs DEF Available
    <3>2. Shifted(pipe, pipe', 1) /\ pipe[1] = p /\ Len(pipe) >= 1
      BY <1>0, <3>1, ShiftedBy
    <3>3. Len(Queue') = Len(pipe) /\ \A i \in 1..Len(pipe') : Queue'[i + 1] = pipe[i + 1]
      <4>1. Len(pipe') = Len(pipe) - 1 /\ \A i \in 1..Len(pipe') : pipe'[i] = pipe[i + 1]
        BY <3>2 DEF Shifted
      <4>2. Len(Queue') = Len(pipe)
        BY <1>0, <1>3, <4>1
      <4> QED
        BY <1>3, <4>1, <4>2
    <3>4. ASSUME NEW i \in 1..Len(pipe) PROVE Queue'[i] = pipe[i]
      <4>1. CASE i = 1
        BY <1>3, <3>2, <4>1
      <4>2. CASE i # 1
        <5>1. i - 1 \in 1..Len(pipe') /\ (i - 1) + 1 = i
          BY <1>0, <3>2, <4>2 DEF Shifted
        <5> QED
          BY <3>3, <5>1
      <4> QED
        BY <4>1, <4>2
    <3> QED
      BY <1>0, <3>1, <3>3, <3>4 DEF Shifted
  <2>2. CASE held # <<>>
    <3>1. p = Head(held) /\ Head(held) = held[1] /\ pipe' = pipe
      BY <1>0, <2>2, ShiftedBy DEF Available
    <3>2. /\ Len(Queue) = 1 + Len(pipe) /\ Queue[1] = p
          /\ \A i \in 1..Len(pipe) : Queue[i + 1] = pipe[i]
      BY <1>0, <2>2, <3>1, QueueIs
    <3>3. ASSUME NEW i \in 1..Len(Queue) PROVE Queue'[i] = Queue[i]
      <4>1. CASE i = 1
        BY <1>3, <3>2, <4>1
      <4>2. CASE i # 1
        <5>1. i - 1 \in 1..Len(pipe) /\ (i - 1) + 1 = i
          BY <1>0, <3>2, <4>2
        <5>2. Queue'[(i - 1) + 1] = pipe[i - 1] /\ Queue[(i - 1) + 1] = pipe[i - 1]
          BY <1>3, <3>1, <3>2, <5>1
        <5> QED
          BY <5>1, <5>2
      <4> QED
        BY <4>1, <4>2
    <3>4. Len(Queue') = Len(Queue) /\ Len(Queue) \in Nat
      BY <1>0, <1>3, <3>1, <3>2
    <3> QED
      BY <3>3, <3>4 DEF Shifted
  <2> QED
    BY <2>1, <2>2
<1> QED
  BY <1>1, <1>2, <1>4 DEF Buffers

\* What a step of the driver can do, sending again apart.
Effect ==
    /\ UNCHANGED <<chip, orderly, faults, sent>> /\ reader' \in {reader, <<>>} /\ host.phase # "idle"
    /\ \/ (Buffers(0) \/ Buffers(1)) /\ (Continues \/ Fails)
       \/ Buffers(1) /\ 1 \in 1..Len(Queue) /\ Succeeds(Queue[1])

LEMMA TakeActs ==
    ASSUME HostLinkAssumption, TypeOK, ExchangeOf, NEW p, Take(p)
    PROVE  /\ Buffers(1) /\ p = Queue[1] /\ p \in Packet /\ 1 \in 1..Len(Queue)
           /\ UNCHANGED <<chip, orderly, faults, sent, reader>>
<1>1. Buffers(1) /\ p = Queue[1] /\ p \in Packet /\ 1 \in DOMAIN Queue
  BY TakeReads DEF Take
<1>2. DOMAIN Queue = 1..Len(Queue)
  BY SeqTypes, QueueIs DEF ExchangeOf
<1> QED
  BY <1>1, <1>2 DEF Take, env

LEMMA AnswerSucceeds ==
    ASSUME HostLinkAssumption, host \in HostType, NEW p \in Packet, p.kind = "rsp",
           Finish("ok", p.owner, FALSE)
    PROVE  Succeeds(p)
<1>1. p.owner \in 0..MaxSends
  BY DEF Packet
<1> QED
  BY <1>1, FinishEnds DEF Succeeds

LEMMA Port100Effect ==
    ASSUME HostLinkAssumption, TypeOK, ExchangeOf, NEW p,
           \/ Port100Ack(p) \/ Port100Rsp(p) \/ Port100Broken(p) \/ Port100Timeout
    PROVE  Effect
<1>1. host \in HostType /\ chip = "port100" /\ host.phase # "idle"
  BY DEF TypeOK, HostType, Port100Ack, Port100Rsp, Port100Broken, Port100Timeout
<1>2. /\ Enter("rsp") => Continues
      /\ Enter("broken") => Continues
      /\ \A drain \in BOOLEAN : Recover(drain) => Continues
  <2>1. Fits("rsp") /\ Fits("broken") /\ Fits("recover")
    BY <1>1 DEF Fits
  <2>2. "rsp" \in Phases \ {"idle"} /\ "broken" \in Phases \ {"idle"} /\ TRUE \in BOOLEAN
    BY DEF Phases
  <2> QED
    BY <1>1, <2>1, <2>2, EnterContinues
<1>3. Take(p) => /\ Buffers(1) /\ p = Queue[1] /\ p \in Packet /\ 1 \in 1..Len(Queue)
                 /\ UNCHANGED <<chip, orderly, faults, sent, reader>>
  BY TakeActs
<1>4. CASE Port100Ack(p)
  BY <1>1, <1>2, <1>3, <1>4 DEF Port100Ack, Effect
<1>5. CASE Port100Rsp(p)
  <2>1. Take(p) /\ (p.kind = "rsp" \/ p.kind \in {"ack", "err"} \/ p.kind \notin {"rsp", "ack", "err"})
    BY <1>5 DEF Port100Rsp
  <2>3. CASE p.kind = "rsp" /\ p.code = host.code
    <3>1. Finish("ok", p.owner, FALSE)
      BY <1>5, <2>3 DEF Port100Rsp
    <3>2. Succeeds(p)
      BY <1>1, <1>3, <2>1, <2>3, <3>1, AnswerSucceeds
    <3> QED
      BY <1>1, <1>3, <2>1, <3>2 DEF Effect
  <2>4. CASE p.kind = "rsp" /\ p.code # host.code
    <3>1. Finish("err", 0, FALSE)
      BY <1>5, <2>4 DEF Port100Rsp
    <3>2. Fails
      BY <1>1, <3>1, FailureFails
    <3> QED
      BY <1>1, <1>3, <2>1, <3>2 DEF Effect
  <2>5. CASE p.kind # "rsp"
    <3>1. Enter("broken") \/ Recover(TRUE)
      BY <1>5, <2>5 DEF Port100Rsp
    <3> QED
      BY <1>1, <1>2, <1>3, <2>1, <3>1 DEF Effect
  <2> QED
    BY <2>3, <2>4, <2>5
<1>6. CASE Port100Broken(p)
  BY <1>1, <1>2, <1>3, <1>6 DEF Port100Broken, Effect
<1>7. CASE Port100Timeout
  <2>1. Continues
    BY <1>1, <1>2, <1>7 DEF Port100Timeout
  <2> QED
    BY <1>1, <1>7, <2>1, BuffersStay DEF Port100Timeout, Effect, env
<1> QED
  BY <1>4, <1>5, <1>6, <1>7

LEMMA RecoveryEffect ==
    ASSUME HostLinkAssumption, TypeOK, ExchangeOf, NEW p,
           \/ RecoverySendsAck \/ DrainInput(p) \/ DrainEnds
    PROVE  Effect
<1>1. /\ host \in HostType /\ chip # "rcs320" /\ host.phase \in {"recover", "drain"} /\ held = <<>>
      /\ UNCHANGED <<chip, orderly, faults, sent>>
  BY DEF TypeOK, HostType, RecoverySendsAck, DrainInput, DrainEnds, ExchangeOf, Fits, env
<1>2. CASE RecoverySendsAck
  <2>1. reader' \in {reader, <<>>} /\ UNCHANGED <<held, pipe>>
    BY <1>1, <1>2 DEF RecoverySendsAck, Cancelled
  <2>2. Enter("drain") => Continues
    <3>1. Fits("drain") /\ "drain" \in Phases \ {"idle"} /\ TRUE \in BOOLEAN
      BY <1>1, <1>2 DEF Fits, Phases, RecoverySendsAck, ExchangeOf
    <3> QED
      BY <1>1, <3>1, EnterContinues
  <2>3. Finish("err", 0, TRUE) => Fails
    BY <1>1, FailureFails
  <2>4. Continues \/ Fails
    BY <1>2, <2>2, <2>3 DEF RecoverySendsAck
  <2> QED
    BY <1>1, <2>1, <2>4, BuffersStay DEF Effect
<1>3. CASE DrainInput(p)
  <2>1. Continues
    BY <1>1, <1>3 DEF DrainInput, Continues, ExchangeOf
  <2>2. Buffers(1)
    <3>1. pipe # <<>> /\ pipe' = Tail(pipe) /\ held' = <<>> /\ p = Head(pipe)
      BY <1>1, <1>3 DEF DrainInput
    <3>2. /\ pipe \in Seq(Packet) /\ Len(pipe) \in Nat /\ Len(pipe) <= MaxPipe /\ MaxPipe \in Nat
          /\ held \in Seq(Packet) /\ Len(held) <= 1
      BY SeqTypes, IdleTyped DEF TypeOK, ExchangeOf
    <3>3. Queue = pipe /\ Shifted(pipe, pipe', 1) /\ pipe' \in Seq(Packet) /\ Len(pipe') = Len(pipe) - 1
      BY <1>1, <3>1, <3>2, QueueIs, ShiftedBy
    <3>4. Queue' = pipe' /\ held' \in Seq(Packet) /\ Len(held') = 0
      BY <3>1, <3>3, ConcatEmptySeq DEF Queue
    <3> QED
      BY <3>1, <3>2, <3>3, <3>4 DEF Buffers
  <2> QED
    BY <1>1, <1>3, <2>1, <2>2 DEF Effect, DrainInput
<1>4. CASE DrainEnds
  <2>1. Fails
    BY <1>1, <1>4, FailureFails DEF DrainEnds
  <2> QED
    BY <1>1, <1>4, <2>1, BuffersStay DEF Effect, DrainEnds
<1> QED
  BY <1>2, <1>3, <1>4

LEMMA Rcs956Effect ==
    ASSUME HostLinkAssumption, TypeOK, ExchangeOf, NEW p,
           \/ Rcs956First(p) \/ Rcs956Loop(p) \/ Rcs956ReadTimeout \/ Rcs956DeadlineSeen
    PROVE  Effect
<1>1. host \in HostType /\ chip = "rcs956" /\ host.phase # "idle"
  BY DEF TypeOK, HostType, Rcs956First, Rcs956Loop, Rcs956ReadTimeout, Rcs956DeadlineSeen
<1>2. Take(p) => /\ Buffers(1) /\ p = Queue[1] /\ p \in Packet /\ 1 \in 1..Len(Queue)
                 /\ UNCHANGED <<chip, orderly, faults, sent, reader>>
  BY TakeActs
<1>3. Take(p) /\ Rcs956Answer(p) => Fails \/ Succeeds(p)
  <2>1. SUFFICES ASSUME Take(p), Rcs956Answer(p) PROVE Fails \/ Succeeds(p)
    OBVIOUS
  <2>2. CASE p.kind = "rsp" /\ p.code = host.code
    <3>1. Finish("ok", p.owner, FALSE)
      BY <2>1, <2>2 DEF Rcs956Answer
    <3> QED
      BY <1>1, <1>2, <2>1, <2>2, <3>1, AnswerSucceeds
  <2>3. CASE ~(p.kind = "rsp" /\ p.code = host.code)
    <3>1. Finish("err", 0, FALSE)
      BY <2>1, <2>3 DEF Rcs956Answer
    <3> QED
      BY <1>1, <3>1, FailureFails
  <2> QED
    BY <2>2, <2>3
<1>4. CASE Rcs956First(p)
  <2>1. Enter("rsp") => Continues
    <3>1. Fits("rsp") /\ "rsp" \in Phases \ {"idle"} /\ TRUE \in BOOLEAN
      BY <1>1 DEF Fits, Phases
    <3> QED
      BY <1>1, <3>1, EnterContinues
  <2>2. Recover(TRUE) => Continues
    <3>1. Fits("recover") /\ "rsp" \in Phases \ {"idle"} /\ TRUE \in BOOLEAN
      BY <1>1 DEF Fits, Phases
    <3> QED
      BY <1>1, <3>1, EnterContinues
  <2>3. Take(p) /\ (Enter("rsp") \/ Recover(TRUE) \/ Rcs956Answer(p))
    BY <1>4 DEF Rcs956First
  <2> QED
    BY <1>1, <1>2, <1>3, <2>1, <2>2, <2>3 DEF Effect
<1>5. CASE Rcs956Loop(p)
  <2>1. CASE p.kind = "ack"
    <3>1. Continues
      BY <1>1, <1>5, <2>1 DEF Rcs956Loop, Continues, HostType, Phases, Fits
    <3> QED
      BY <1>1, <1>2, <1>5, <3>1 DEF Rcs956Loop, Effect
  <2>2. CASE p.kind # "ack"
    BY <1>1, <1>2, <1>3, <1>5, <2>2 DEF Rcs956Loop, Effect
  <2> QED
    BY <2>1, <2>2
<1>6. CASE Rcs956ReadTimeout
  <2>1. Finish("noack", 0, FALSE) \/ Finish("timeout", 0, FALSE)
    BY <1>6 DEF Rcs956ReadTimeout
  <2>2. Fails
    BY <1>1, <2>1, FailureFails
  <2> QED
    BY <1>1, <1>6, <2>2, BuffersStay DEF Effect, Rcs956ReadTimeout, env
<1>7. CASE Rcs956DeadlineSeen
  <2>1. Fails
    BY <1>1, <1>7, FailureFails DEF Rcs956DeadlineSeen
  <2>2. reader' \in {reader, <<>>}
    BY <1>7 DEF Rcs956DeadlineSeen, Cancelled
  <2> QED
    BY <1>1, <1>7, <2>1, <2>2, BuffersStay DEF Effect, Rcs956DeadlineSeen, env
<1> QED
  BY <1>4, <1>5, <1>6, <1>7

LEMMA Rcs320Effect ==
    ASSUME HostLinkAssumption, TypeOK, ExchangeOf, NEW p,
           \/ Rcs320Ack(p) \/ Rcs320Rsp(p) \/ Rcs320Timeout
    PROVE  Effect
<1>1. /\ host \in HostType /\ chip = "rcs320" /\ host.phase # "idle"
      /\ UNCHANGED <<chip, orderly, faults, sent, reader>>
  BY DEF TypeOK, HostType, Rcs320Ack, Rcs320Rsp, Rcs320Timeout, env
<1>2. Enter("rsp") => Continues
  <2>1. Fits("rsp") /\ "rsp" \in Phases \ {"idle"} /\ TRUE \in BOOLEAN
    BY <1>1 DEF Fits, Phases
  <2> QED
    BY <1>1, <2>1, EnterContinues
<1>3. Finish("err", 0, FALSE) \/ Finish("timeout", 0, FALSE) => Fails
  BY <1>1, FailureFails
<1>4. ASSUME Rcs320Ack(p) \/ Rcs320Rsp(p)
      PROVE  /\ held' = <<>> => /\ Buffers(1) /\ p = Queue[1] /\ p \in Packet
                                /\ 1 \in 1..Len(Queue)
             /\ held' = <<p>> => Buffers(0)
  <2>1. Available # <<>> /\ p = Head(Available) /\ pipe' = IF held = <<>> THEN Tail(pipe) ELSE pipe
    BY <1>4 DEF Rcs320Ack, Rcs320Rsp
  <2>2. DOMAIN Queue = 1..Len(Queue)
    BY SeqTypes, QueueIs DEF ExchangeOf
  <2>3. held' = <<>> => Buffers(1) /\ p = Queue[1] /\ p \in Packet /\ 1 \in 1..Len(Queue)
    BY <2>1, <2>2, BuffersRead
  <2>4. held' = <<p>> => Buffers(0)
    BY <1>1, <2>1, BuffersKeep
  <2> QED
    BY <2>3, <2>4
<1>5. CASE Rcs320Ack(p)
  <2>1. held' \in {<<>>, <<p>>} /\ (Enter("rsp") \/ Finish("err", 0, FALSE))
    BY <1>5 DEF Rcs320Ack, Rest
  <2> QED
    BY <1>1, <1>2, <1>3, <1>4, <1>5, <2>1 DEF Effect
<1>6. CASE Rcs320Rsp(p)
  <2>1. held' \in {<<>>, <<p>>} /\ (p.kind # "noise" => held' = <<>>)
    BY <1>6 DEF Rcs320Rsp, Rest
  <2>2. CASE p.kind = "ack" /\ host.phase = "rsp"
    <3>1. Continues
      BY <1>1, <1>6, <2>2 DEF Rcs320Rsp, Continues, HostType, Phases, Fits
    <3> QED
      BY <1>1, <1>4, <1>6, <2>1, <3>1 DEF Effect
  <2>3. CASE p.kind = "rsp" /\ host.code \in {p.code, AnyCode}
    <3>1. Finish("ok", p.owner, FALSE)
      BY <1>6, <2>3 DEF Rcs320Rsp
    <3>2. held' = <<>> /\ p \in Packet
      BY <1>4, <1>6, <2>1, <2>3
    <3>3. Succeeds(p)
      BY <1>1, <2>3, <3>1, <3>2, AnswerSucceeds
    <3> QED
      BY <1>1, <1>4, <1>6, <3>2, <3>3 DEF Effect
  <2>4. CASE ~(p.kind = "ack" /\ host.phase = "rsp") /\ ~(p.kind = "rsp" /\ host.code \in {p.code, AnyCode})
    <3>1. Finish("err", 0, FALSE)
      BY <1>6, <2>4 DEF Rcs320Rsp
    <3> QED
      BY <1>1, <1>3, <1>4, <1>6, <2>1, <3>1 DEF Effect
  <2> QED
    BY <2>2, <2>3, <2>4
<1>7. CASE Rcs320Timeout
  <2>1. Fails
    BY <1>3, <1>7 DEF Rcs320Timeout
  <2> QED
    BY <1>1, <1>7, <2>1, BuffersStay DEF Effect, Rcs320Timeout
<1> QED
  BY <1>5, <1>6, <1>7

LEMMA CcidEffect ==
    ASSUME HostLinkAssumption, TypeOK, ExchangeOf, NEW p,
           \/ CcidAnswer(p) \/ CcidResendFails(p) \/ CcidTimeExtension(p) \/ CcidMismatch(p)
           \/ CcidNoise(p) \/ CcidTimeout
    PROVE  Effect
<1>1. host \in HostType /\ chip = "ccid" /\ host.phase = "rsp"
  BY DEF TypeOK, HostType, CcidAnswer, CcidResendFails, CcidTimeExtension, CcidMismatch, CcidNoise,
         CcidTimeout
<1>2. Take(p) => /\ Buffers(1) /\ p = Queue[1] /\ p \in Packet /\ 1 \in 1..Len(Queue)
                 /\ UNCHANGED <<chip, orderly, faults, sent, reader>>
  BY TakeActs
<1>3. Finish("err", 0, FALSE) \/ Finish("timeout", 0, FALSE) => Fails
  BY <1>1, FailureFails
<1>4. CASE CcidAnswer(p)
  <2>1. Take(p) /\ ((p.kind = "rsp" /\ Finish("ok", p.owner, FALSE)) \/ Finish("err", 0, FALSE))
    BY <1>4 DEF CcidAnswer
  <2>2. CASE p.kind = "rsp" /\ Finish("ok", p.owner, FALSE)
    <3>1. Succeeds(p)
      BY <1>1, <1>2, <2>1, <2>2, AnswerSucceeds
    <3> QED
      BY <1>1, <1>2, <2>1, <3>1 DEF Effect
  <2>3. CASE Finish("err", 0, FALSE)
    BY <1>1, <1>2, <1>3, <2>1, <2>3 DEF Effect
  <2> QED
    BY <2>1, <2>2, <2>3
<1>5. CASE CcidResendFails(p)
  BY <1>1, <1>2, <1>3, <1>5 DEF Effect, CcidResendFails
<1>6. CASE CcidTimeExtension(p)
  <2>1. Continues
    BY <1>1, <1>6 DEF CcidTimeExtension, Continues, HostType, Fits
  <2> QED
    BY <1>1, <1>2, <1>6, <2>1 DEF Effect, CcidTimeExtension
<1>7. CASE CcidMismatch(p)
  <2>1. CASE host.mismatches = 0
    BY <1>1, <1>2, <1>3, <1>7, <2>1 DEF Effect, CcidMismatch
  <2>2. CASE host.mismatches # 0
    <3>1. host.mismatches - 1 \in 0..SEQUENCE_ERROR_RETRY_COUNT
      BY <1>1, <2>2 DEF HostType, SEQUENCE_ERROR_RETRY_COUNT
    <3>2. Continues
      BY <1>1, <1>7, <2>2, <3>1 DEF CcidMismatch, Continues, HostType, Fits
    <3> QED
      BY <1>1, <1>2, <1>7, <3>2 DEF Effect, CcidMismatch
  <2> QED
    BY <2>1, <2>2
<1>8. CASE CcidNoise(p)
  BY <1>1, <1>2, <1>3, <1>8 DEF Effect, CcidNoise
<1>9. CASE CcidTimeout
  <2>1. Fails
    BY <1>3, <1>9 DEF CcidTimeout
  <2> QED
    BY <1>1, <1>9, <2>1, BuffersStay DEF Effect, CcidTimeout, env
<1> QED
  BY <1>4, <1>5, <1>6, <1>7, <1>8, <1>9

LEMMA DriverEffect ==
    ASSUME HostLinkAssumption, TypeOK, ExchangeOf, Driver
    PROVE  Effect \/ \E p : CcidResend(p)
BY Port100Effect, RecoveryEffect, Rcs956Effect, Rcs320Effect, CcidEffect DEF Driver, Reads

-----------------------------------------------------------------------------
(* Order and lag are kept by every step                                     *)

StepInv == TypeOK /\ ExchangeOf /\ InOrder /\ LagPaid /\ AnswerLag

\* The numbers and sequences the lemmas ask for.
LEMMA Sizes ==
    ASSUME HostLinkAssumption, TypeOK, ExchangeOf
    PROVE  /\ Len(Queue) \in Nat /\ Len(reader) \in Nat /\ Queue \in Seq(Packet)
           /\ sent \in Nat /\ failed \in Nat /\ Current \in Nat /\ MaxSends \in Nat
           /\ host \in HostType /\ result \in ResultType
<1>1. sent \in Nat /\ failed \in Nat /\ MaxSends \in Nat /\ Len(reader) \in Nat
  BY IdleTyped, SeqTypes DEF TypeOK
<1>2. Len(Queue) \in Nat /\ Queue \in Seq(Packet)
  BY SeqTypes, QueueIs DEF ExchangeOf
<1>3. host \in HostType /\ result \in ResultType
  BY DEF TypeOK, HostType, ResultType
<1> QED
  BY <1>1, <1>2, <1>3 DEF Current

LEMMA EffectKeeps ==
    ASSUME HostLinkAssumption, StepInv, Effect
    PROVE  StepInv'
<1> USE DEF StepInv
<1>0. /\ Len(Queue) \in Nat /\ Len(reader) \in Nat /\ Queue \in Seq(Packet)
      /\ sent \in Nat /\ failed \in Nat /\ Current \in Nat /\ MaxSends \in Nat
      /\ host \in HostType /\ result \in ResultType
  BY Sizes
<1>1. UNCHANGED <<chip, orderly, faults, sent>> /\ host.phase # "idle" /\ Current = sent
  BY DEF Effect, Current
<1>2. PICK m \in 0..Len(reader) : Shifted(reader, reader', m)
  <2>1. reader \in Seq(Command)
    BY SeqTypes
  <2>2. Shifted(reader, reader, 0) /\ Shifted(reader, <<>>, Len(reader))
    BY <2>1, ShiftedBy
  <2> QED
    BY <1>0, <2>2 DEF Effect
<1>3. PICK k \in 0..1 : Buffers(k) /\ (Continues \/ Fails \/ (k = 1 /\ 1 \in 1..Len(Queue) /\ Succeeds(Queue[1])))
  BY DEF Effect
<1>4. Shifted(Queue, Queue', k)
  BY <1>3 DEF Buffers
<1>5. ExchangeOf'
  <2>1. CASE Continues
    BY <1>0, <1>1, <1>3, <2>1 DEF Continues, ExchangeOf, Buffers, Fits
  <2>2. CASE Fails
    BY <1>0, <1>1, <1>3, <2>2, IdleTyped DEF Fails, ExchangeOf, Buffers, Fits
  <2>3. CASE Succeeds(Queue[1])
    BY <1>0, <1>1, <1>3, <2>3, IdleTyped DEF Succeeds, ExchangeOf, Buffers, Fits
  <2> QED
    BY <1>3, <2>1, <2>2, <2>3
<1>6. TypeOK'
  <2>1. reader' \in Seq(Command) /\ Len(reader') <= MaxBacklog
    <3>1. <<>> \in Seq(Command) /\ Len(<<>>) = 0 /\ MaxBacklog \in Nat
      BY IdleTyped
    <3>2. reader \in Seq(Command) /\ Len(reader) <= MaxBacklog
      BY DEF TypeOK
    <3>3. CASE reader' = reader
      BY <3>2, <3>3
    <3>4. CASE reader' = <<>>
      <4>1. reader' \in Seq(Command) /\ Len(reader') = 0
        BY <3>4
      <4> QED
        BY <3>1, <4>1
    <3> QED
      BY <3>3, <3>4 DEF Effect
  <2>2. host' \in HostType /\ result' \in ResultType /\ failed' \in 0..MaxSends
    <3>1. CASE Continues
      BY <1>0, <3>1 DEF Continues, TypeOK
    <3>2. CASE Fails
      <4>1. failed < sent /\ sent <= MaxSends
        BY <1>1 DEF ExchangeOf, TypeOK
      <4> QED
        BY <1>0, <3>2, <4>1, IdleTyped DEF Fails
    <3>3. CASE Succeeds(Queue[1])
      <4>1. failed \in 0..MaxSends
        BY DEF TypeOK
      <4> QED
        BY <3>3, <4>1, IdleTyped DEF Succeeds
    <3> QED
      BY <1>3, <3>1, <3>2, <3>3
  <2> QED
    BY <1>1, <1>3, <2>1, <2>2 DEF TypeOK, Buffers, HostType, ResultType
<1>7. InOrder'
  <2>1. Ordered(Queue', reader', sent)
    BY <1>0, <1>2, <1>4, DropKeepsOrder DEF InOrder
  <2> QED
    BY <1>1, <2>1 DEF InOrder
<1>8. LagPaid'
  <2>1. Behind(Queue', reader', sent, failed)
    BY <1>0, <1>1, <1>2, <1>4, DropKeepsAge DEF LagPaid
  <2>2. CASE Continues
    BY <1>1, <2>1, <2>2 DEF Continues, LagPaid, Current
  <2>3. CASE Fails
    <3>1. Behind(Queue', reader', sent + 1, failed + 1)
      BY <1>0, <1>1, <1>7, <2>1, FailureMakesRoom DEF InOrder
    <3> QED
      BY <1>1, <2>3, <3>1, IdleTyped DEF Fails, LagPaid, Current
  <2>4. CASE k = 1 /\ 1 \in 1..Len(Queue) /\ Succeeds(Queue[1])
    <3>1. Final(Queue[1])
      BY <2>4 DEF Succeeds, Final
    <3>2. Behind(Queue', reader', sent + 1, failed)
      BY <1>0, <1>1, <1>2, <1>4, <2>4, <3>1, FinalMakesRoom DEF InOrder, LagPaid
    <3> QED
      BY <1>1, <2>4, <3>2, IdleTyped DEF Succeeds, LagPaid, Current
  <2> QED
    BY <1>3, <2>2, <2>3, <2>4
<1>9. AnswerLag'
  <2>1. CASE Continues
    BY <2>1 DEF Continues, AnswerLag
  <2>2. CASE Fails
    BY <2>2 DEF Fails, AnswerLag
  <2>3. CASE 1 \in 1..Len(Queue) /\ Succeeds(Queue[1])
    <3>1. ~Noisy(Queue[1])
      BY <2>3 DEF Succeeds, Noisy
    <3>2. Queue[1].owner \in 1..sent
      BY <2>3, <3>1 DEF InOrder, Ordered
    <3>3. sent - Queue[1].owner <= failed
      BY <1>1, <2>3, <3>1 DEF LagPaid, Behind
    <3>4. result'.id = sent /\ result'.owner = Queue[1].owner /\ failed' = failed
      BY <1>1, <2>3 DEF Succeeds, ExchangeOf
    <3> QED
      BY <1>0, <3>2, <3>3, <3>4 DEF AnswerLag
  <2> QED
    BY <1>3, <2>1, <2>2, <2>3
<1> QED
  BY <1>5, <1>6, <1>7, <1>8, <1>9

\* A command as it is written.
LEMMA CommandTyped ==
    ASSUME HostLinkAssumption, NEW id \in 1..MaxSends, NEW code \in Codes
    PROVE  /\ [id |-> id, code |-> code, seq |-> Sequence(id), acked |-> FALSE] \in Command
           /\ Sequence(id) \in 0..(SeqMod - 1)
<1>1. SeqMod \in Nat /\ SeqMod > 0 /\ id \in Nat
  BY IdleTyped
<1>2. Sequence(id) \in 0..(SeqMod - 1)
  BY <1>1 DEF Sequence
<1> QED
  BY <1>2 DEF Command

\* The reader takes in a command.
LEMMA ReceivedExtends ==
    ASSUME HostLinkAssumption, TypeOK, NEW code \in Codes, sent < MaxSends, Len(reader) < MaxBacklog,
           reader' = Received(sent + 1, code)
    PROVE  /\ reader' \in Seq(Command) /\ Len(reader') <= MaxBacklog /\ sent + 1 \in 1..MaxSends
           /\ Extended(reader, reader', [id |-> sent + 1, code |-> code, seq |-> Sequence(sent + 1),
                                         acked |-> FALSE])
<1> DEFINE c == [id |-> sent + 1, code |-> code, seq |-> Sequence(sent + 1), acked |-> FALSE]
<1>1. sent + 1 \in 1..MaxSends
  BY IdleTyped DEF TypeOK
<1>2. c \in Command /\ reader \in Seq(Command) /\ Len(reader) \in Nat /\ reader' = Append(reader, c)
  BY <1>1, CommandTyped, SeqTypes DEF Received
<1> HIDE DEF c
<1>3. Append(reader, c) \in Seq(Command) /\ Extended(reader, Append(reader, c), c)
  BY <1>2, AppendExtends
<1>4. Len(reader') = Len(reader) + 1
  BY <1>2, <1>3 DEF Extended
<1>5. Len(reader') <= MaxBacklog
  BY <1>2, <1>4, IdleTyped
<1> QED
  BY <1>1, <1>2, <1>3, <1>5 DEF c

LEMMA ResendKeeps ==
    ASSUME HostLinkAssumption, StepInv, NEW p, CcidResend(p)
    PROVE  StepInv'
<1> USE DEF StepInv
<1>0. /\ Len(Queue) \in Nat /\ Len(reader) \in Nat /\ Queue \in Seq(Packet)
      /\ sent \in Nat /\ failed \in Nat /\ Current \in Nat /\ MaxSends \in Nat
      /\ host \in HostType /\ result \in ResultType
  BY Sizes
<1>1. /\ UNCHANGED <<chip, orderly, faults, result, failed>> /\ host.phase = "rsp" /\ Current = sent
      /\ sent' = sent + 1 /\ sent < MaxSends /\ Len(reader) < MaxBacklog
      /\ reader' = Received(sent + 1, host.code) /\ host.code \in Codes /\ p.kind = "busy"
  BY DEF CcidResend, Current, env, ExchangeOf
<1> DEFINE c == [id |-> sent + 1, code |-> host.code, seq |-> Sequence(sent + 1), acked |-> FALSE]
<1>2. /\ reader' \in Seq(Command) /\ Len(reader') <= MaxBacklog /\ sent + 1 \in 1..MaxSends
      /\ Extended(reader, reader', c) /\ c.id = sent + 1
  BY <1>1, ReceivedExtends
<1> HIDE DEF c
<1>3. Buffers(1) /\ Shifted(Queue, Queue', 1) /\ Final(Queue[1]) /\ 1 \in 1..Len(Queue)
  <2>1. Buffers(1) /\ p = Queue[1] /\ 1 \in DOMAIN Queue
    BY TakeReads DEF CcidResend
  <2>2. DOMAIN Queue = 1..Len(Queue)
    BY SeqTypes, QueueIs DEF ExchangeOf
  <2> QED
    BY <1>1, <2>1, <2>2 DEF Buffers, Final
<1>4. /\ host' \in HostType /\ host'.phase = "rsp" /\ host'.id = sent + 1 /\ host'.code = host.code
  <2>1. host.tries - 1 \in 0..(SlotBusyRetries + 1)
    BY <1>0 DEF CcidResend, HostType, SlotBusyRetries
  <2>2. SEQUENCE_ERROR_RETRY_COUNT \in 0..SEQUENCE_ERROR_RETRY_COUNT /\ sent + 1 \in 0..MaxSends
    BY <1>2 DEF SEQUENCE_ERROR_RETRY_COUNT
  <2> QED
    BY <1>0, <1>1, <2>1, <2>2 DEF CcidResend, HostType
<1>5. ExchangeOf'
  <2>1. failed < sent /\ chip = "ccid"
    BY <1>1 DEF ExchangeOf, CcidResend
  <2>2. failed < sent + 1 /\ failed <= sent + 1
    BY <1>0, <2>1
  <2> QED
    BY <1>1, <1>3, <1>4, <2>1, <2>2 DEF ExchangeOf, Buffers, Fits
<1>6. TypeOK'
  <2>1. sent' \in 0..MaxSends
    BY <1>0, <1>1
  <2> QED
    BY <1>1, <1>2, <1>3, <1>4, <2>1 DEF TypeOK, Buffers, HostType, ResultType
<1>7. Shifted(reader, reader, 0)
  BY SeqTypes, ShiftedBy
<1>8. InOrder'
  <2>1. Ordered(Queue', reader, sent)
    BY <1>0, <1>3, <1>7, DropKeepsOrder DEF InOrder
  <2>2. Len(Queue') \in Nat
    BY <1>0, <1>3 DEF Shifted
  <2>3. Ordered(Queue', reader', sent + 1)
    BY <1>0, <1>2, <2>1, <2>2, CommandKeepsOrder
  <2> QED
    BY <1>1, <2>3 DEF InOrder
<1>9. LagPaid'
  <2>1. Behind(Queue', reader, sent + 1, failed)
    BY <1>0, <1>1, <1>3, <1>7, FinalMakesRoom DEF InOrder, LagPaid
  <2>2. (sent + 1) - c.id <= failed /\ sent + 1 \in Nat
    BY <1>0, <1>2
  <2>3. Behind(Queue', reader', sent + 1, failed)
    BY <1>0, <1>2, <2>1, <2>2, CommandKeepsAge
  <2> QED
    BY <1>1, <1>4, <2>3 DEF LagPaid, Current
<1>10. AnswerLag'
  BY <1>1 DEF AnswerLag
<1> QED
  BY <1>5, <1>6, <1>8, <1>9, <1>10

LEMMA SendKeeps ==
    ASSUME HostLinkAssumption, StepInv, NEW code \in Codes, Send(code)
    PROVE  StepInv'
<1> USE DEF StepInv
<1>0. /\ Len(Queue) \in Nat /\ Len(reader) \in Nat /\ Queue \in Seq(Packet)
      /\ sent \in Nat /\ failed \in Nat /\ Current \in Nat /\ MaxSends \in Nat
      /\ host \in HostType /\ result \in ResultType
  BY Sizes
<1>1. /\ UNCHANGED <<chip, orderly, faults, failed, pipe>> /\ host.phase = "idle" /\ Current = sent + 1
      /\ sent' = sent + 1 /\ sent < MaxSends /\ Len(reader) < MaxBacklog
      /\ reader' = Received(sent + 1, code) /\ result' = NoResult
  BY DEF Send, Current, env
<1> DEFINE c == [id |-> sent + 1, code |-> code, seq |-> Sequence(sent + 1), acked |-> FALSE]
<1>2. /\ reader' \in Seq(Command) /\ Len(reader') <= MaxBacklog /\ sent + 1 \in 1..MaxSends
      /\ Extended(reader, reader', c) /\ c.id = sent + 1
  BY <1>1, ReceivedExtends
<1> HIDE DEF c
<1>3. held' = held /\ Queue' = Queue
  BY <1>1 DEF Send, ExchangeOf, Queue
<1>4. /\ host' \in HostType /\ host'.phase \in {"rsp", "ack"} /\ host'.id = sent + 1
      /\ host'.code = code /\ (chip = "ccid" => host'.phase = "rsp")
  <2>1. SEQUENCE_ERROR_RETRY_COUNT \in 0..SEQUENCE_ERROR_RETRY_COUNT /\ sent + 1 \in 0..MaxSends
        /\ SlotBusyRetries + 1 \in 0..(SlotBusyRetries + 1)
    BY <1>2 DEF SEQUENCE_ERROR_RETRY_COUNT, SlotBusyRetries
  <2> QED
    BY <1>0, <1>1, <2>1 DEF Send, HostType, Idle, Phases
<1>5. ExchangeOf'
  <2>1. failed < sent + 1 /\ failed <= sent + 1
    BY <1>0 DEF ExchangeOf
  <2> QED
    BY <1>1, <1>3, <1>4, <2>1 DEF ExchangeOf, Fits
<1>6. TypeOK'
  <2>1. sent' \in 0..MaxSends
    BY <1>0, <1>1
  <2> QED
    BY <1>1, <1>2, <1>3, <1>4, <2>1, IdleTyped DEF TypeOK, HostType, ResultType
<1>7. InOrder'
  <2>1. Ordered(Queue, reader', sent + 1)
    BY <1>0, <1>2, CommandKeepsOrder DEF InOrder
  <2> QED
    BY <1>1, <1>3, <2>1 DEF InOrder
<1>8. LagPaid'
  <2>1. (sent + 1) - c.id <= failed /\ sent + 1 \in Nat
    BY <1>0, <1>2
  <2>2. Behind(Queue, reader', sent + 1, failed)
    BY <1>0, <1>1, <1>2, <2>1, CommandKeepsAge DEF LagPaid
  <2> QED
    BY <1>1, <1>3, <1>4, <2>2 DEF LagPaid, Current
<1>9. AnswerLag'
  BY <1>1, IdleTyped DEF AnswerLag
<1> QED
  BY <1>5, <1>6, <1>7, <1>8, <1>9

LEMMA SendFailsKeeps ==
    ASSUME HostLinkAssumption, StepInv, NEW code \in Codes, SendFails(code)
    PROVE  StepInv'
<1> USE DEF StepInv
<1>0. /\ Len(Queue) \in Nat /\ Len(reader) \in Nat /\ Queue \in Seq(Packet)
      /\ sent \in Nat /\ failed \in Nat /\ Current \in Nat /\ MaxSends \in Nat
      /\ host \in HostType /\ result \in ResultType
  BY Sizes
<1>1. /\ UNCHANGED <<chip, orderly, reader, pipe, held>> /\ host.phase = "idle" /\ Current = sent + 1
      /\ sent' = sent + 1 /\ sent < MaxSends /\ Queue' = Queue
      /\ faults' = faults + 1 /\ faults < MaxFaults
  BY DEF SendFails, Current, Queue
<1>2. sent' \in 0..MaxSends /\ sent + 1 \in 0..MaxSends /\ faults' \in 0..MaxFaults /\ failed <= sent
  BY <1>0, <1>1, IdleTyped DEF TypeOK, ExchangeOf
<1>3. Ordered(Queue, reader, sent + 1)
  <2>1. [id |-> sent + 1].id = sent + 1
    OBVIOUS
  <2> QED
    BY <1>0, <2>1, CommandKeepsOrder DEF InOrder
<1>4. InOrder'
  BY <1>1, <1>3 DEF InOrder
<1>5. Behind(Queue, reader, sent + 1, failed)
  BY <1>1 DEF LagPaid
<1>6. CASE chip \in {"port100", "rcs956"}
  <2>1. /\ host' = [Idle EXCEPT !.phase = "recover", !.id = sent', !.code = code]
        /\ result' = NoResult /\ failed' = failed
    BY <1>6 DEF SendFails
  <2>2. host' \in HostType /\ host'.phase = "recover" /\ host'.id = sent' /\ host'.code = code
    BY <1>2, <2>1, IdleTyped DEF HostType, Idle, Phases
  <2>3. TypeOK'
    BY <1>1, <1>2, <2>1, <2>2, IdleTyped DEF TypeOK, HostType, ResultType
  <2>4. ExchangeOf'
    <3>1. failed < sent + 1 /\ failed <= sent + 1
      BY <1>0, <1>2
    <3> QED
      BY <1>1, <1>6, <2>1, <2>2, <3>1 DEF ExchangeOf, Fits
  <2>5. LagPaid'
    BY <1>1, <1>5, <2>1, <2>2 DEF LagPaid, Current
  <2>6. AnswerLag'
    BY <2>1, IdleTyped DEF AnswerLag
  <2> QED
    BY <1>4, <2>3, <2>4, <2>5, <2>6
<1>7. CASE chip \notin {"port100", "rcs956"}
  <2>1. /\ host' = Idle /\ failed' = failed + 1
        /\ result' = [NoResult EXCEPT !.end = "err", !.id = sent']
    BY <1>7 DEF SendFails
  <2>2. result' \in ResultType /\ result'.end = "err"
    BY <1>2, <2>1, IdleTyped DEF ResultType, NoResult
  <2>3. failed' \in 0..MaxSends /\ failed + 1 <= sent + 1
    BY <1>0, <1>1, <1>2, <2>1
  <2>4. TypeOK'
    BY <1>1, <1>2, <2>1, <2>2, <2>3, IdleTyped DEF TypeOK, HostType, ResultType
  <2>5. ExchangeOf'
    BY <1>1, <2>1, <2>3, IdleTyped DEF ExchangeOf, Fits
  <2>6. LagPaid'
    <3>1. Behind(Queue, reader, (sent + 1) + 1, failed + 1)
      BY <1>0, <1>3, <1>5, FailureMakesRoom
    <3> QED
      BY <1>1, <2>1, <3>1, IdleTyped DEF LagPaid, Current
  <2>7. AnswerLag'
    BY <2>2 DEF AnswerLag
  <2> QED
    BY <1>4, <2>4, <2>5, <2>6, <2>7
<1> QED
  BY <1>6, <1>7

LEMMA DeadlineKeeps ==
    ASSUME HostLinkAssumption, StepInv, Deadline
    PROVE  StepInv'
<1>1. /\ UNCHANGED <<chip, orderly, reader, pipe, held, result, sent, failed, faults>> /\ Queue' = Queue
      /\ host' = [host EXCEPT !.late = TRUE] /\ host \in HostType
  BY DEF Deadline, env, Queue, StepInv, TypeOK, HostType
<1>2. host' \in HostType /\ host'.phase = host.phase /\ host'.id = host.id /\ host'.code = host.code
  BY <1>1 DEF HostType
<1>3. TypeOK'
  BY <1>1, <1>2 DEF TypeOK, HostType, StepInv
<1>4. ExchangeOf' /\ LagPaid' /\ InOrder' /\ AnswerLag'
  BY <1>1, <1>2 DEF ExchangeOf, Fits, LagPaid, Current, InOrder, AnswerLag, StepInv
<1> QED
  BY <1>3, <1>4 DEF StepInv

LEMMA EmitExtends ==
    ASSUME HostLinkAssumption, TypeOK, ExchangeOf, NEW p \in Packet, Len(pipe) < MaxPipe,
           pipe' = Append(pipe, p), held' = held
    PROVE  /\ pipe' \in Seq(Packet) /\ Len(pipe') <= MaxPipe /\ Len(pipe') \in Nat
           /\ Extended(pipe, pipe', p) /\ Extended(Queue, Queue', p)
<1>1. pipe \in Seq(Packet) /\ Len(pipe) \in Nat /\ held \in Seq(Packet) /\ Len(held) <= 1
  BY SeqTypes DEF ExchangeOf
<1>2. pipe' \in Seq(Packet) /\ Extended(pipe, pipe', p)
  BY <1>1, AppendExtends
<1>3. Len(pipe') = Len(pipe) + 1
  BY <1>2 DEF Extended
<1>4. Extended(held \o pipe, held \o Append(pipe, p), p)
  BY <1>1, ConcatExtends
<1>5. Queue' = held \o Append(pipe, p) /\ Queue = held \o pipe
  BY DEF Queue
<1> QED
  BY <1>1, <1>2, <1>3, <1>4, <1>5, IdleTyped

LEMMA OldestCommand ==
    ASSUME TypeOK, reader # <<>>
    PROVE  /\ Head(reader) = reader[1] /\ reader[1] \in Command /\ 1 \in 1..Len(reader)
           /\ Len(reader) \in Nat /\ Shifted(reader, Tail(reader), 1)
           /\ Tail(reader) \in Seq(Command) /\ Len(Tail(reader)) = Len(reader) - 1
<1>1. reader \in Seq(Command) /\ Len(reader) \in Nat
  BY SeqTypes
<1>2. /\ Shifted(reader, Tail(reader), 1) /\ Tail(reader) \in Seq(Command) /\ Head(reader) = reader[1]
      /\ Head(reader) \in Command /\ Len(reader) >= 1 /\ Len(Tail(reader)) = Len(reader) - 1
  BY <1>1, ShiftedBy
<1> QED
  BY <1>1, <1>2

LEMMA EmittedTyped ==
    ASSUME NEW c \in Command, NEW kind \in AnswerKinds \cup {"ack"}
    PROVE  [kind |-> kind, owner |-> c.id, code |-> c.code, seq |-> c.seq] \in Packet
BY DEF Command, Packet

LEMMA AckedReader ==
    ASSUME TypeOK, ReaderAcks
    PROVE  /\ reader' \in Seq(Command) /\ Len(reader') = Len(reader) /\ Len(reader) \in Nat
           /\ \A i \in 1..Len(reader) : reader'[i].id = reader[i].id /\ reader'[i].seq = reader[i].seq
           /\ reader'[1].acked
<1>1. /\ Head(reader) = reader[1] /\ reader[1] \in Command /\ Len(reader) >= 1
      /\ Len(reader) \in Nat /\ Shifted(reader, Tail(reader), 1)
      /\ Tail(reader) \in Seq(Command) /\ Len(Tail(reader)) = Len(reader) - 1
  BY OldestCommand DEF ReaderAcks
<1> DEFINE c == [Head(reader) EXCEPT !.acked = TRUE]
           t == Tail(reader)
<1>2. c \in Command /\ c.id = reader[1].id /\ c.seq = reader[1].seq /\ c.acked
  BY <1>1 DEF Command
<1>3. reader' = <<c>> \o t
  BY DEF ReaderAcks
<1>3a. t \in Seq(Command) /\ Len(t) = Len(reader) - 1 /\ \A i \in 1..Len(t) : t[i] = reader[i + 1]
  BY <1>1 DEF Shifted
<1> HIDE DEF c, t
<1>4. <<c>> \in Seq(Command) /\ Len(<<c>>) = 1 /\ <<c>> # <<>> /\ <<c>>[1] = c
  BY <1>2
<1>5. /\ reader' \in Seq(Command) /\ Len(reader') = 1 + Len(t) /\ reader'[1] = c
      /\ \A i \in 1..Len(t) : reader'[i + 1] = t[i]
  BY <1>3, <1>3a, <1>4, ConcatIs
<1>6. Len(reader') = Len(reader)
  BY <1>1, <1>3a, <1>5
<1>7. ASSUME NEW i \in 1..Len(reader)
      PROVE  reader'[i].id = reader[i].id /\ reader'[i].seq = reader[i].seq
  <2>1. CASE i = 1
    BY <1>2, <1>5, <2>1
  <2>2. CASE i # 1
    <3>1. i - 1 \in 1..Len(t) /\ (i - 1) + 1 = i
      BY <1>1, <1>3a, <2>2
    <3>2. reader'[(i - 1) + 1] = t[i - 1] /\ t[i - 1] = reader[(i - 1) + 1]
      BY <1>3a, <1>5, <3>1
    <3> QED
      BY <3>1, <3>2
  <2> QED
    BY <2>1, <2>2
<1> QED
  BY <1>1, <1>2, <1>5, <1>6, <1>7

\* What the reader does: p is put into the pipe, or nothing is.
LEMMA ReaderKeeps ==
    ASSUME HostLinkAssumption, StepInv, Reader
    PROVE  StepInv'
<1> USE DEF StepInv
<1>0. /\ Len(Queue) \in Nat /\ Len(reader) \in Nat /\ Queue \in Seq(Packet)
      /\ sent \in Nat /\ failed \in Nat /\ Current \in Nat /\ MaxSends \in Nat
      /\ host \in HostType /\ result \in ResultType
  BY Sizes
<1>1. /\ UNCHANGED <<chip, orderly, held, host, result, sent, failed>> /\ Current' = Current
      /\ faults' \in 0..MaxFaults
  <2>1. faults' = faults \/ (faults' = faults + 1 /\ faults < MaxFaults)
    BY DEF Reader, ReaderAcks, ReaderAnswers, ReaderDrops, Noise, env
  <2>2. faults' \in 0..MaxFaults
    BY <2>1, IdleTyped DEF TypeOK
  <2>3. UNCHANGED <<chip, orderly, held, host, result, sent, failed>>
    BY DEF Reader, ReaderAcks, ReaderAnswers, ReaderDrops, Noise, env
  <2> QED
    BY <2>2, <2>3 DEF Current
<1>2. ExchangeOf' /\ AnswerLag'
  BY <1>1 DEF ExchangeOf, AnswerLag, Fits
<1>3. SUFFICES /\ reader' \in Seq(Command) /\ Len(reader') <= MaxBacklog
               /\ pipe' \in Seq(Packet) /\ Len(pipe') <= MaxPipe
               /\ Ordered(Queue', reader', sent) /\ Behind(Queue', reader', Current, failed)
  BY <1>1, <1>2 DEF TypeOK, InOrder, LagPaid
<1>4. /\ reader \in Seq(Command) /\ Len(reader) <= MaxBacklog
      /\ pipe \in Seq(Packet) /\ Len(pipe) <= MaxPipe
      /\ Ordered(Queue, reader, sent) /\ Behind(Queue, reader, Current, failed)
      /\ MaxBacklog \in Nat
  BY IdleTyped DEF TypeOK, InOrder, LagPaid
<1>5. CASE ReaderAcks
  <2> DEFINE p == [kind |-> "ack", owner |-> Head(reader).id, code |-> Head(reader).code,
                   seq |-> Head(reader).seq]
  <2>1. Head(reader) = reader[1] /\ reader[1] \in Command /\ 1 \in 1..Len(reader)
    BY <1>5, OldestCommand DEF ReaderAcks
  <2>2. p \in Packet /\ ~Noisy(p) /\ ~Final(p) /\ p.owner = reader[1].id
    BY <2>1, EmittedTyped DEF Noisy, Final
  <2>3. Len(pipe) < MaxPipe /\ pipe' = Append(pipe, p)
    BY <1>5 DEF ReaderAcks, Emit
  <2> HIDE DEF p
  <2>4. pipe' \in Seq(Packet) /\ Len(pipe') <= MaxPipe /\ Extended(Queue, Queue', p)
    BY <1>1, <2>2, <2>3, EmitExtends
  <2>5. Ordered(Queue', reader, sent) /\ Behind(Queue', reader, Current, failed)
    BY <1>0, <1>4, <2>1, <2>2, <2>4, PacketKeepsOrder, PacketKeepsAge
  <2>6. /\ reader' \in Seq(Command) /\ Len(reader') = Len(reader)
        /\ \A i \in 1..Len(reader) : reader'[i].id = reader[i].id
    BY <1>5, AckedReader
  <2> QED
    BY <1>4, <2>4, <2>5, <2>6, AckKeepsOrder
<1>6. CASE ReaderDrops
  <2>1. /\ reader' = Tail(reader) /\ Queue' = Queue /\ pipe' = pipe /\ Shifted(reader, reader', 1)
        /\ reader' \in Seq(Command) /\ Len(reader') = Len(reader) - 1
    BY <1>6, OldestCommand DEF ReaderDrops, Queue
  <2>2. Shifted(Queue, Queue, 0)
    BY <1>0, ShiftedBy
  <2>3. Ordered(Queue, reader', sent) /\ Behind(Queue, reader', Current, failed)
    BY <1>0, <1>4, <2>1, <2>2, DropKeepsOrder, DropKeepsAge
  <2>4. Len(reader') <= MaxBacklog
    BY <1>0, <1>4, <2>1
  <2> QED
    BY <1>4, <2>1, <2>3, <2>4
<1>7. CASE Noise
  <2> DEFINE p == [kind |-> "noise", owner |-> 0, code |-> "none", seq |-> 0]
  <2>1. p \in Packet /\ Noisy(p)
    <3>1. 0 \in 0..MaxSends /\ 0 \in 0..(SeqMod - 1)
      BY IdleTyped
    <3> QED
      BY <3>1 DEF Packet, Noisy
  <2>2. Len(pipe) < MaxPipe /\ pipe' = Append(pipe, p) /\ reader' = reader
    BY <1>7 DEF Noise
  <2> HIDE DEF p
  <2>3. pipe' \in Seq(Packet) /\ Len(pipe') <= MaxPipe /\ Extended(Queue, Queue', p)
    BY <1>1, <2>1, <2>2, EmitExtends
  <2>4. Ordered(Queue', reader, sent) /\ Behind(Queue', reader, Current, failed)
    BY <1>0, <1>4, <2>1, <2>3, PacketKeepsOrder, PacketKeepsAge
  <2> QED
    BY <1>4, <2>2, <2>3, <2>4
<1>8. ASSUME NEW kind \in AnswerKinds, ReaderAnswers(kind)
      PROVE  /\ reader' \in Seq(Command) /\ Len(reader') <= MaxBacklog
             /\ pipe' \in Seq(Packet) /\ Len(pipe') <= MaxPipe
             /\ Ordered(Queue', reader', sent) /\ Behind(Queue', reader', Current, failed)
  <2> DEFINE p == [kind |-> kind, owner |-> Head(reader).id, code |-> Head(reader).code,
                   seq |-> Head(reader).seq]
  <2>1. /\ Head(reader) = reader[1] /\ reader[1] \in Command /\ 1 \in 1..Len(reader)
        /\ Shifted(reader, Tail(reader), 1) /\ Tail(reader) \in Seq(Command)
        /\ Len(Tail(reader)) = Len(reader) - 1
    BY <1>8, OldestCommand DEF ReaderAnswers
  <2>2. p \in Packet /\ ~Noisy(p) /\ p.owner = reader[1].id /\ (kind = "ext" => ~Final(p))
    <3>1. kind # "noise"
      BY DEF AnswerKinds
    <3> QED
      BY <2>1, <3>1, EmittedTyped DEF Noisy, Final
  <2>3. Len(pipe) < MaxPipe /\ pipe' = Append(pipe, p)
    BY <1>8 DEF ReaderAnswers, Emit
  <2> HIDE DEF p
  <2>4. pipe' \in Seq(Packet) /\ Len(pipe') <= MaxPipe /\ Extended(Queue, Queue', p)
    BY <1>1, <1>8, <2>2, <2>3, EmitExtends
  <2>5. Behind(Queue', reader, Current, failed) /\ Len(Queue') \in Nat
    <3>1. Behind(Queue', reader, Current, failed)
      BY <1>0, <1>4, <2>1, <2>2, <2>4, PacketKeepsAge
    <3>2. Len(Queue') = Len(Queue) + 1
      BY <2>4 DEF Extended
    <3> QED
      BY <1>0, <3>1, <3>2
  <2>6. CASE kind = "ext"
    <3>1. reader' = reader
      BY <1>8, <2>6 DEF ReaderAnswers
    <3>2. Ordered(Queue', reader, sent)
      BY <1>0, <1>4, <2>1, <2>2, <2>4, <2>6, PacketKeepsOrder
    <3> QED
      BY <1>4, <2>4, <2>5, <3>1, <3>2
  <2>7. CASE kind # "ext"
    <3>1. reader' = Tail(reader)
      BY <1>8, <2>7 DEF ReaderAnswers
    <3>2. Ordered(Queue', reader', sent)
      BY <1>0, <1>4, <2>1, <2>2, <2>4, <3>1, PacketKeepsOrder
    <3>3. Shifted(Queue', Queue', 0)
      BY <2>5 DEF Shifted
    <3>4. Behind(Queue', reader', Current, failed)
      BY <1>0, <2>1, <2>5, <3>1, <3>3, DropKeepsAge
    <3>5. Len(reader') <= MaxBacklog
      BY <1>0, <1>4, <2>1, <3>1
    <3> QED
      BY <2>1, <2>4, <3>1, <3>2, <3>4, <3>5
  <2> QED
    BY <2>6, <2>7
<1> QED
  BY <1>5, <1>6, <1>7, <1>8 DEF Reader

\* StepInv is inductive.
LEMMA StepInvInductive ==
    ASSUME HostLinkAssumption
    PROVE  /\ Init => StepInv
           /\ StepInv /\ [Next]_vars => StepInv'
<1>1. ASSUME Init PROVE StepInv
  <2>1. /\ Queue = <<>> /\ Len(Queue) = 0 /\ Len(reader) = 0 /\ Len(held) = 0
        /\ reader \in Seq(Command) /\ pipe \in Seq(Packet) /\ held \in Seq(Packet) /\ Len(pipe) = 0
    BY <1>1 DEF Init, Queue
  <2>2. host \in HostType /\ host.phase = "idle" /\ result \in ResultType /\ result.end = "none"
    BY <1>1, IdleTyped DEF Init
  <2>3. sent \in 0..MaxSends /\ failed \in 0..MaxSends /\ faults \in 0..MaxFaults
    BY <1>1, IdleTyped DEF Init
  <2>4. TypeOK
    <3>1. <<chip, orderly>> \in Readers
      BY <1>1 DEF Init, HostLinkAssumption
    <3>2. Len(reader) <= MaxBacklog /\ Len(pipe) <= MaxPipe
      BY <2>1, IdleTyped
    <3> QED
      BY <2>1, <2>2, <2>3, <3>1, <3>2 DEF TypeOK, HostType, ResultType
  <2>5. ExchangeOf /\ AnswerLag
    BY <1>1, <2>1, <2>2 DEF Init, ExchangeOf, AnswerLag, Fits
  <2>6. InOrder /\ LagPaid
    BY <2>1 DEF InOrder, LagPaid, Ordered, Behind
  <2> QED
    BY <2>4, <2>5, <2>6 DEF StepInv
<1>2. ASSUME StepInv, [Next]_vars PROVE StepInv'
  <2>1. CASE UNCHANGED vars
    BY <1>2, <2>1 DEF StepInv, vars, TypeOK, ExchangeOf, InOrder, LagPaid, AnswerLag, Fits, Current, Queue
  <2>2. CASE Reader
    BY <1>2, <2>2, ReaderKeeps
  <2>3. CASE Driver
    <3>1. Effect \/ \E p : CcidResend(p)
      BY <1>2, <2>3, DriverEffect DEF StepInv
    <3> QED
      BY <1>2, <3>1, EffectKeeps, ResendKeeps
  <2>4. CASE Deadline
    BY <1>2, <2>4, DeadlineKeeps
  <2>5. CASE Caller
    BY <1>2, <2>5, SendKeeps, SendFailsKeeps DEF Caller
  <2> QED
    BY <1>2, <2>1, <2>2, <2>3, <2>4, <2>5 DEF Next, Done
<1> QED
  BY <1>1, <1>2

-----------------------------------------------------------------------------
(* CCID: a sequence number tells answers apart                              *)

LEMMA SmallMultiple ==
    ASSUME NEW d \in Int, NEW m \in Nat, m > 0, 0 <= d * m, d * m < m
    PROVE  d = 0
<1>1. d >= 1 => d * m >= m
  OBVIOUS
<1>2. d <= -1 => d * m <= -m
  OBVIOUS
<1> QED
  BY <1>1, <1>2

\* Two numbers less than m apart differ modulo m.
LEMMA ModTellsApart ==
    ASSUME NEW a \in Nat, NEW b \in Nat, NEW m \in Nat, m > 0, a <= b, b - a < m, a % m = b % m
    PROVE  a = b
<1>1. /\ a = m * (a \div m) + (a % m) /\ b = m * (b \div m) + (b % m)
      /\ a \div m \in Int /\ b \div m \in Int
  OBVIOUS
<1> DEFINE d == (b \div m) - (a \div m)
<1>2. d \in Int /\ d * m = b - a
  BY <1>1
<1>3. d = 0
  BY <1>2, SmallMultiple
<1> QED
  BY <1>2, <1>3

LEMMA RecentKept ==
    ASSUME NEW r, NEW r2, NEW n \in Nat, NEW f \in Nat, NEW c, NEW m, Len(r) \in Nat,
           \A i \in 1..Len(r) : r[i].id \in Nat, Recent(r, n, f)
    PROVE  /\ Recent(r, n + 1, f + 1) /\ Recent(r, n, f + 1)
           /\ Extended(r, r2, c) /\ c.id = n + 1 /\ c.seq = Sequence(n + 1) => Recent(r2, n + 1, f)
           /\ Shifted(r, r2, m) => Recent(r2, n, f)
           /\ Len(r2) = Len(r) /\ (\A i \in 1..Len(r) : r2[i].id = r[i].id /\ r2[i].seq = r[i].seq)
              => Recent(r2, n, f)
<1>1. Recent(r, n + 1, f + 1) /\ Recent(r, n, f + 1)
  BY DEF Recent
<1>2. ASSUME Extended(r, r2, c), c.id = n + 1, c.seq = Sequence(n + 1) PROVE Recent(r2, n + 1, f)
  <2>1. ASSUME NEW i \in 1..Len(r2)
        PROVE  r2[i].seq = Sequence(r2[i].id) /\ (n + 1) - r2[i].id <= Len(r2) - i + f
    <3>1. Len(r2) = Len(r) + 1 /\ r2[Len(r) + 1] = c /\ \A j \in 1..Len(r) : r2[j] = r[j]
      BY <1>2 DEF Extended
    <3>2. CASE i \in 1..Len(r)
      <4>1. r2[i] = r[i] /\ r[i].id \in Nat /\ r[i].seq = Sequence(r[i].id)
            /\ n - r[i].id <= Len(r) - i + f
        BY <3>1, <3>2 DEF Recent
      <4> QED
        BY <3>1, <4>1
    <3>3. CASE i = Len(r) + 1
      <4>1. r2[i].id = n + 1 /\ r2[i].seq = Sequence(n + 1) /\ Len(r2) - i = 0
        BY <1>2, <3>1, <3>3
      <4> QED
        BY <4>1
    <3> QED
      BY <3>1, <3>2, <3>3
  <2> QED
    BY <2>1 DEF Recent
<1>3. ASSUME Shifted(r, r2, m) PROVE Recent(r2, n, f)
  <2>1. ASSUME NEW i \in 1..Len(r2)
        PROVE  r2[i].seq = Sequence(r2[i].id) /\ n - r2[i].id <= Len(r2) - i + f
    <3>1. m \in 0..Len(r) /\ Len(r2) = Len(r) - m /\ r2[i] = r[i + m] /\ i + m \in 1..Len(r)
      BY <1>3 DEF Shifted
    <3>2. r[i + m].id \in Nat /\ r[i + m].seq = Sequence(r[i + m].id)
          /\ n - r[i + m].id <= Len(r) - (i + m) + f
      BY <3>1 DEF Recent
    <3> QED
      BY <3>1, <3>2
  <2> QED
    BY <2>1 DEF Recent
<1>4. ASSUME Len(r2) = Len(r), \A i \in 1..Len(r) : r2[i].id = r[i].id /\ r2[i].seq = r[i].seq
      PROVE  Recent(r2, n, f)
  BY <1>4 DEF Recent
<1> QED
  BY <1>1, <1>2, <1>3, <1>4

LEMMA FreshKept ==
    ASSUME NEW q, NEW q2, NEW n \in Nat, NEW slack \in Int, NEW p, Len(q) \in Nat,
           \A i \in 1..Len(q) : q[i].owner \in Nat, Fresh(q, n, slack)
    PROVE  /\ Fresh(q, n + 1, slack + 1) /\ Fresh(q, n, slack + 1)
           /\ Shifted(q, q2, 1) => Fresh(q2, n, slack - 1)
           /\ /\ Extended(q, q2, p)
              /\ ~Noisy(p) => p.seq = Sequence(p.owner) /\ n - p.owner <= slack - (Len(q) + 1)
              => Fresh(q2, n, slack)
<1>1. Fresh(q, n + 1, slack + 1) /\ Fresh(q, n, slack + 1)
  BY DEF Fresh
<1>2. ASSUME Shifted(q, q2, 1) PROVE Fresh(q2, n, slack - 1)
  <2>1. ASSUME NEW i \in 1..Len(q2), ~Noisy(q2[i])
        PROVE  q2[i].seq = Sequence(q2[i].owner) /\ n - q2[i].owner <= (slack - 1) - i
    <3>1. q2[i] = q[i + 1] /\ i + 1 \in 1..Len(q)
      BY <1>2 DEF Shifted
    <3>2. q2[i].owner \in Nat /\ q2[i].seq = Sequence(q2[i].owner) /\ n - q2[i].owner <= slack - (i + 1)
      BY <2>1, <3>1 DEF Fresh
    <3> QED
      BY <3>2
  <2> QED
    BY <2>1 DEF Fresh
<1>3. ASSUME Extended(q, q2, p),
             ~Noisy(p) => p.seq = Sequence(p.owner) /\ n - p.owner <= slack - (Len(q) + 1)
      PROVE  Fresh(q2, n, slack)
  <2>1. ASSUME NEW i \in 1..Len(q2), ~Noisy(q2[i])
        PROVE  q2[i].seq = Sequence(q2[i].owner) /\ n - q2[i].owner <= slack - i
    <3>1. (i \in 1..Len(q) /\ q2[i] = q[i]) \/ (i = Len(q) + 1 /\ q2[i] = p)
      <4>1. i \in 1..Len(q) \/ i = Len(q) + 1
        BY <1>3 DEF Extended
      <4> QED
        BY <1>3, <4>1 DEF Extended
    <3> QED
      BY <1>3, <2>1, <3>1 DEF Fresh
  <2> QED
    BY <2>1 DEF Fresh
<1> QED
  BY <1>1, <1>2, <1>3

\* The steps of the CCID driver.
LEMMA CcidDriver ==
    ASSUME StepInv, Driver, chip = "ccid"
    PROVE  \/ CcidTimeout
           \/ \E p : \/ CcidAnswer(p) \/ CcidResend(p) \/ CcidResendFails(p) \/ CcidTimeExtension(p)
                     \/ CcidMismatch(p) \/ CcidNoise(p)
<1>1. host.phase \notin {"recover", "drain"}
  BY DEF StepInv, ExchangeOf, Fits
<1>2. \A p : ~(Port100Ack(p) \/ Port100Rsp(p) \/ Port100Broken(p) \/ DrainInput(p) \/ Rcs956First(p)
               \/ Rcs956Loop(p) \/ Rcs320Ack(p) \/ Rcs320Rsp(p))
  BY <1>1 DEF Port100Ack, Port100Rsp, Port100Broken, DrainInput, Rcs956First, Rcs956Loop, Rcs320Ack,
              Rcs320Rsp
<1>3. ~(Port100Timeout \/ RecoverySendsAck \/ DrainEnds \/ Rcs956ReadTimeout \/ Rcs956DeadlineSeen
        \/ Rcs320Timeout)
  BY <1>1 DEF Port100Timeout, RecoverySendsAck, DrainEnds, Rcs956ReadTimeout, Rcs956DeadlineSeen,
              Rcs320Timeout
<1> QED
  BY <1>2, <1>3 DEF Driver, Reads

\* How far the reader and the input reach back.
LEMMA WindowSizes ==
    ASSUME HostLinkAssumption, StepInv
    PROVE  /\ sent \in Nat /\ faults \in Nat /\ Unread \in {0, 1} /\ Slack \in Int
           /\ Len(reader) \in Nat /\ Len(pipe) \in Nat
           /\ \A i \in 1..Len(reader) : reader[i].id \in Nat
           /\ \A i \in 1..Len(pipe) : pipe[i].owner \in Nat
<1>1. sent \in Nat /\ faults \in Nat /\ Unread \in {0, 1}
  BY IdleTyped DEF StepInv, TypeOK, Unread
<1>2. Slack \in Int
  BY <1>1, IdleTyped DEF Slack
<1>3. /\ reader \in Seq(Command) /\ pipe \in Seq(Packet)
      /\ Len(reader) \in Nat /\ Len(pipe) \in Nat
  BY SeqTypes DEF StepInv
<1>4. \A i \in 1..Len(reader) : reader[i].id \in Nat
  <2>1. \A i \in 1..Len(reader) : reader[i] \in Command
    BY <1>3, ElementOfSeq
  <2> QED
    BY <2>1 DEF Command
<1>5. \A i \in 1..Len(pipe) : pipe[i].owner \in Nat
  <2>1. \A i \in 1..Len(pipe) : pipe[i] \in Packet
    BY <1>3, ElementOfSeq
  <2> QED
    BY <2>1 DEF Packet
<1> QED
  BY <1>1, <1>2, <1>3, <1>4, <1>5

LEMMA RecentInductive ==
    ASSUME HostLinkAssumption, StepInv, Recent(reader, sent, faults), [Next]_vars
    PROVE  Recent(reader, sent, faults)'
<1>0. /\ sent \in Nat /\ faults \in Nat /\ Len(reader) \in Nat
      /\ \A i \in 1..Len(reader) : reader[i].id \in Nat
  BY WindowSizes
<1>1. CASE UNCHANGED <<reader, sent, faults>>
  BY <1>1 DEF Recent, Sequence
<1>2. CASE Reader
  <2>1. CASE ReaderAcks
    BY <1>0, <2>1, AckedReader, RecentKept DEF ReaderAcks, env, StepInv
  <2>2. CASE Noise
    BY <1>0, <2>2, RecentKept DEF Noise
  <2>3. CASE ReaderDrops \/ \E kind \in AnswerKinds : ReaderAnswers(kind)
    <3>1. reader # <<>> /\ reader' \in {reader, Tail(reader)} /\ UNCHANGED <<sent, faults>>
      BY <2>3 DEF ReaderDrops, ReaderAnswers, env
    <3>2. Shifted(reader, Tail(reader), 1)
      BY <3>1, OldestCommand DEF StepInv
    <3>3. reader' = Tail(reader) => Recent(reader', sent, faults)
      BY <1>0, <3>2, RecentKept
    <3> QED
      BY <3>1, <3>3
  <2> QED
    BY <1>2, <2>1, <2>2, <2>3 DEF Reader
<1>3. CASE Driver
  <2>1. CASE Effect
    <3>1. UNCHANGED <<sent, faults>> /\ (reader' = reader \/ reader' = <<>>)
      BY <2>1 DEF Effect
    <3>2. Recent(<<>>, sent, faults)
      BY DEF Recent
    <3> QED
      BY <3>1, <3>2
  <2>2. ASSUME NEW p, CcidResend(p) PROVE Recent(reader, sent, faults)'
    <3> DEFINE c == [id |-> sent + 1, code |-> host.code, seq |-> Sequence(sent + 1), acked |-> FALSE]
    <3>1. /\ sent < MaxSends /\ Len(reader) < MaxBacklog /\ sent' = sent + 1 /\ faults' = faults
          /\ reader' = Received(sent + 1, host.code) /\ host.code \in Codes
      BY <2>2 DEF CcidResend, env, StepInv, ExchangeOf
    <3>2. Extended(reader, reader', c) /\ c.id = sent + 1 /\ c.seq = Sequence(sent + 1)
      BY <3>1, ReceivedExtends DEF StepInv
    <3> HIDE DEF c
    <3> QED
      BY <1>0, <3>1, <3>2, RecentKept
  <2> QED
    BY <1>3, <2>1, <2>2, DriverEffect DEF StepInv
<1>4. CASE Deadline
  BY <1>1, <1>4 DEF Deadline, env
<1>5. CASE Caller
  <2>1. PICK code \in Codes : Send(code) \/ SendFails(code)
    BY <1>5 DEF Caller
  <2>2. CASE Send(code)
    <3> DEFINE c == [id |-> sent + 1, code |-> code, seq |-> Sequence(sent + 1), acked |-> FALSE]
    <3>1. /\ sent < MaxSends /\ Len(reader) < MaxBacklog /\ sent' = sent + 1 /\ faults' = faults
          /\ reader' = Received(sent + 1, code)
      BY <2>2 DEF Send, env
    <3>2. Extended(reader, reader', c) /\ c.id = sent + 1 /\ c.seq = Sequence(sent + 1)
      BY <3>1, ReceivedExtends DEF StepInv
    <3> HIDE DEF c
    <3> QED
      BY <1>0, <3>1, <3>2, RecentKept
  <2>3. CASE SendFails(code)
    BY <1>0, <2>3, RecentKept DEF SendFails
  <2> QED
    BY <2>1, <2>2, <2>3
<1> QED
  BY <1>1, <1>2, <1>3, <1>4, <1>5 DEF Next, Done, vars

LEMMA FreshInductive ==
    ASSUME HostLinkAssumption, StepInv, Window, [Next]_vars, chip' = "ccid"
    PROVE  Fresh(pipe, sent, Slack)'
<1>0. /\ sent \in Nat /\ faults \in Nat /\ Len(reader) \in Nat /\ Len(pipe) \in Nat
      /\ Unread \in {0, 1} /\ Slack \in Int
      /\ \A i \in 1..Len(pipe) : pipe[i].owner \in Nat
      /\ MaxBacklog \in Nat /\ MaxPipe \in Nat
  BY WindowSizes, IdleTyped
<1>a. chip = "ccid" /\ chip' = chip
  <2>1. Reader => chip' = chip
    BY DEF Reader, ReaderAcks, ReaderAnswers, ReaderDrops, Noise, env
  <2>2. Driver => chip' = chip
    BY DriverEffect DEF Effect, CcidResend, env, StepInv
  <2>3. Deadline \/ Caller => chip' = chip
    BY DEF Deadline, Caller, Send, SendFails, env
  <2> QED
    BY <2>1, <2>2, <2>3 DEF Next, Done, vars
<1>b. Fresh(pipe, sent, Slack) /\ Recent(reader, sent, faults) /\ held = <<>>
  BY <1>a DEF Window, StepInv, ExchangeOf
<1>1. CASE UNCHANGED vars
  BY <1>b, <1>1 DEF vars, Fresh, Slack, Unread, Noisy, Sequence
<1>2. CASE Reader
  <2>1. UNCHANGED <<sent, host>> /\ Unread' = Unread
    BY <1>2 DEF Reader, ReaderAcks, ReaderAnswers, ReaderDrops, Noise, env, Unread
  <2>2. CASE ReaderAcks
    BY <1>a, <2>2 DEF ReaderAcks
  <2>3. CASE ReaderDrops
    BY <1>b, <2>1, <2>3 DEF ReaderDrops, env, Fresh, Slack, Noisy, Sequence
  <2>4. CASE Noise
    <3> DEFINE p == [kind |-> "noise", owner |-> 0, code |-> "none", seq |-> 0]
    <3>1. Extended(pipe, pipe', p)
      <4>1. p \in Packet
        <5>1. 0 \in 0..MaxSends /\ 0 \in 0..(SeqMod - 1)
          BY IdleTyped
        <5> QED
          BY <5>1 DEF Packet
      <4> HIDE DEF p
      <4>2. pipe \in Seq(Packet)
        BY DEF StepInv, TypeOK
      <4> QED
        BY <2>4, <4>1, <4>2, AppendExtends DEF Noise, p
    <3>2. Noisy(p)
      BY DEF Noisy
    <3> HIDE DEF p
    <3>3. Fresh(pipe, sent, Slack + 1) /\ Slack + 1 \in Int
      <4>1. Slack + 1 \in Int
        BY <1>0
      <4>2. Fresh(pipe, sent, Slack + 1)
        BY <1>0, <1>b, FreshKept
      <4> QED
        BY <4>1, <4>2
    <3>4. Fresh(pipe', sent, Slack + 1)
      BY <1>0, <3>1, <3>2, <3>3, FreshKept
    <3>5. Slack' = Slack + 1
      BY <1>0, <2>1, <2>4 DEF Slack, Noise
    <3> QED
      BY <2>1, <3>4, <3>5
  <2>5. ASSUME NEW kind \in AnswerKinds, ReaderAnswers(kind) PROVE Fresh(pipe', sent', Slack')
    <3> DEFINE p == [kind |-> kind, owner |-> Head(reader).id, code |-> Head(reader).code,
                     seq |-> Head(reader).seq]
    <3>1. Head(reader) = reader[1] /\ reader[1] \in Command /\ 1 \in 1..Len(reader)
      BY <2>5, OldestCommand DEF ReaderAnswers, StepInv
    <3>2. p \in Packet /\ p.owner = reader[1].id /\ p.seq = reader[1].seq
      BY <3>1, EmittedTyped
    <3>3. Len(pipe) < MaxPipe /\ pipe' = Append(pipe, p) /\ Slack' = Slack
      BY <2>1, <2>5 DEF ReaderAnswers, Emit, Slack, env
    <3> HIDE DEF p
    <3>4. Extended(pipe, pipe', p)
      BY <3>2, <3>3, AppendExtends DEF StepInv, TypeOK
    <3>5. p.seq = Sequence(p.owner) /\ sent - p.owner <= Len(reader) - 1 + faults /\ p.owner \in Nat
      BY <1>b, <3>1, <3>2 DEF Recent, Command
    <3>6. sent - p.owner <= Slack - (Len(pipe) + 1)
      <4>1. Len(reader) <= MaxBacklog
        BY DEF StepInv, TypeOK
      <4>2. Len(pipe) + 1 <= MaxPipe /\ Unread >= 0
        BY <1>0, <3>3
      <4> DEFINE l == Len(pipe)
                 m == Len(reader)
                 o == p.owner
                 u == Unread
      <4>3. l \in Int /\ m \in Int /\ o \in Int /\ u \in Int /\ sent \in Int /\ faults \in Int
            /\ MaxPipe \in Int /\ MaxBacklog \in Int /\ m <= MaxBacklog /\ l + 1 <= MaxPipe
            /\ u >= 0 /\ sent - o <= m - 1 + faults
        BY <1>0, <3>5, <4>1, <4>2
      <4> HIDE DEF l, m, o, u
      <4>4. sent - o <= MaxBacklog - 1 + faults + MaxPipe + u - (l + 1)
        BY <4>3
      <4>5. Slack = MaxBacklog - 1 + faults + MaxPipe + u
        BY DEF Slack, u
      <4>6. sent - o <= Slack - (l + 1)
        BY <1>0, <4>3, <4>4, <4>5
      <4> QED
        BY <4>6 DEF l, o
    <3>7. Fresh(pipe', sent, Slack)
      BY <1>0, <1>b, <3>4, <3>5, <3>6, FreshKept
    <3> QED
      BY <2>1, <3>3, <3>7
  <2> QED
    BY <1>2, <2>2, <2>3, <2>4, <2>5 DEF Reader
<1>3. ASSUME NEW p, Next_(p) PROVE Shifted(pipe, pipe', 1)
  <2>1. pipe # <<>> /\ pipe' = Tail(pipe) /\ pipe \in Seq(Packet)
    BY <1>3, <1>b DEF Next_, Available, StepInv, TypeOK
  <2> QED
    BY <2>1, ShiftedBy
<1>4. ASSUME NEW p, Take(p), host' = Idle \/ host'.read PROVE Fresh(pipe, sent, Slack)'
  <2>1. Fresh(pipe', sent, Slack - 1) /\ sent' = sent /\ faults' = faults /\ Unread' = 0
    BY <1>0, <1>3, <1>4, <1>b, FreshKept, IdleTyped DEF Take, env, Unread
  <2>2. Slack' = Slack - 1 \/ Slack' = Slack
    BY <1>0, <2>1 DEF Slack
  <2>3. Fresh(pipe', sent, Slack)
    <3>1. Len(pipe') \in Nat /\ \A i \in 1..Len(pipe') : pipe'[i].owner \in Nat
      BY <1>0, <1>3, <1>4 DEF Take, Shifted
    <3> QED
      BY <1>0, <2>1, <3>1 DEF Fresh
  <2> QED
    BY <2>1, <2>2, <2>3
<1>5. CASE Driver
  <2>1. CASE CcidTimeout
    <3>1. Unread = 0 /\ Unread' = 0 /\ UNCHANGED <<pipe, sent, faults>>
      BY <2>1, IdleTyped DEF CcidTimeout, Finish, Unread, env
    <3> QED
      BY <1>b, <3>1 DEF Slack, Fresh, Noisy, Sequence
  <2>2. ASSUME NEW p, CcidAnswer(p) \/ CcidResendFails(p) \/ CcidTimeExtension(p) \/ CcidMismatch(p)
                      \/ CcidNoise(p)
        PROVE  Fresh(pipe, sent, Slack)'
    <3>1. Take(p) /\ (host' = Idle \/ host'.read)
      <4>1. host \in HostType
        BY Sizes DEF StepInv
      <4> QED
        BY <2>2, <4>1 DEF CcidAnswer, CcidResendFails, CcidTimeExtension, CcidMismatch, CcidNoise,
                          Finish, HostType
    <3> QED
      BY <1>4, <3>1
  <2>3. ASSUME NEW p, CcidResend(p) PROVE Fresh(pipe, sent, Slack)'
    <3>1. Fresh(pipe', sent, Slack - 1) /\ sent' = sent + 1 /\ faults' = faults
      BY <1>0, <1>3, <1>b, <2>3, FreshKept DEF CcidResend, env
    <3>2. Unread' = 1
      <4>1. host \in HostType
        BY Sizes DEF StepInv
      <4> QED
        BY <2>3, <4>1 DEF CcidResend, Unread, HostType
    <3>3. Slack - 1 < Slack' /\ Slack' \in Int
      BY <1>0, <3>1, <3>2 DEF Slack
    <3>4. Len(pipe') \in Nat /\ \A i \in 1..Len(pipe') : pipe'[i].owner \in Nat
      BY <1>0, <1>3, <2>3 DEF CcidResend, Shifted
    <3>5. Fresh(pipe', sent + 1, Slack')
      BY <1>0, <3>1, <3>3, <3>4 DEF Fresh
    <3> QED
      BY <3>1, <3>5
  <2> QED
    BY <1>5, <1>a, <2>1, <2>2, <2>3, CcidDriver
<1>6. CASE Deadline
  <2>1. UNCHANGED <<pipe, sent, faults>> /\ host' = [host EXCEPT !.late = TRUE] /\ host \in HostType
    BY <1>6, Sizes DEF Deadline, env, StepInv
  <2>2. CASE pipe = <<>>
    BY <2>1, <2>2 DEF Fresh
  <2>3. CASE host.read
    <3>1. Unread = 0 /\ Unread' = 0
      BY <2>1, <2>3 DEF Unread, HostType
    <3> QED
      BY <1>b, <2>1, <3>1 DEF Slack, Fresh, Noisy, Sequence
  <2> QED
    BY <1>6, <2>2, <2>3 DEF Deadline
<1>7. CASE Caller
  <2>1. PICK code \in Codes : Send(code) \/ SendFails(code)
    BY <1>7 DEF Caller
  <2>2. sent' = sent + 1 /\ pipe' = pipe /\ Unread = 0
    BY <2>1 DEF Send, SendFails, Unread
  <2>3. Slack' = Slack + 1
    <3>1. CASE Send(code)
      <4>1. faults' = faults /\ Unread' = 1
        BY <1>a, <3>1 DEF Send, Unread, Idle, env
      <4> QED
        BY <1>0, <2>2, <4>1 DEF Slack
    <3>2. CASE SendFails(code)
      <4>1. faults' = faults + 1 /\ Unread' = 0
        BY <1>a, <3>2, IdleTyped DEF SendFails, Unread
      <4> QED
        BY <1>0, <2>2, <4>1 DEF Slack
    <3> QED
      BY <2>1, <3>1, <3>2
  <2>4. Fresh(pipe, sent + 1, Slack + 1)
    BY <1>0, <1>b, FreshKept
  <2> QED
    BY <2>2, <2>3, <2>4
<1> QED
  BY <1>1, <1>2, <1>5, <1>6, <1>7 DEF Next, Done

\* Window is inductive, and with it an answer CCID accepts is its own.
LEMMA WindowInductive ==
    ASSUME HostLinkAssumption
    PROVE  /\ Init => Window
           /\ StepInv /\ Window /\ [Next]_vars => Window'
<1>1. ASSUME Init PROVE Window
  <2>1. Len(reader) = 0 /\ Len(pipe) = 0
    BY <1>1 DEF Init
  <2> QED
    BY <2>1 DEF Window, Recent, Fresh
<1>2. ASSUME StepInv, Window, [Next]_vars PROVE Window'
  BY <1>2, RecentInductive, FreshInductive DEF Window
<1> QED
  BY <1>1, <1>2

Roomy == MaxBacklog + MaxPipe + MaxFaults <= SeqMod

LEMMA OwnAnswerStep ==
    ASSUME HostLinkAssumption, Roomy, StepInv, Window, OwnAnswer, [Next]_vars
    PROVE  OwnAnswer'
<1>1. SUFFICES ASSUME chip' = "ccid", result'.end = "ok" PROVE result'.owner = result'.id
  BY DEF OwnAnswer
<1>2. CASE UNCHANGED <<chip, result>>
  BY <1>1, <1>2 DEF OwnAnswer
<1>3. CASE Driver
  <2>1. chip = "ccid"
    BY <1>1, <1>3, DriverEffect DEF Effect, CcidResend, env, StepInv
  <2>2. CASE \E p : CcidResend(p) \/ CcidTimeExtension(p)
    BY <1>2, <2>2 DEF CcidResend, CcidTimeExtension, Take, env
  <2>3. CASE CcidTimeout \/ \E p : CcidResendFails(p) \/ CcidNoise(p)
    BY <1>1, <2>3 DEF CcidTimeout, CcidResendFails, CcidNoise, Finish
  <2>4. CASE \E p : CcidMismatch(p)
    <3>1. PICK p : CcidMismatch(p)
      BY <2>4
    <3>2. UNCHANGED chip
      BY <3>1 DEF CcidMismatch, Take, env
    <3>3. result' = result \/ result'.end = "err"
      BY <3>1 DEF CcidMismatch, Finish
    <3> QED
      BY <1>1, <1>2, <3>2, <3>3
  <2>5. CASE \E p : CcidAnswer(p)
    <3>1. PICK p : CcidAnswer(p)
      BY <2>5
    <3>2. p.kind = "rsp" /\ Finish("ok", p.owner, FALSE) /\ Next_(p) /\ p.seq = Sequence(host.id)
      BY <1>1, <3>1 DEF CcidAnswer, Finish, Take
    <3>3. /\ pipe # <<>> /\ p = pipe[1] /\ 1 \in 1..Len(pipe) /\ host.id = sent
          /\ held = <<>>
      <4>1. held = <<>> /\ host.id = sent
        BY <2>1, <3>1 DEF StepInv, ExchangeOf, CcidAnswer
      <4>2. pipe # <<>> /\ p = Head(pipe)
        BY <3>2, <4>1 DEF Next_, Available
      <4>3. pipe \in Seq(Packet) /\ Len(pipe) \in Nat
        BY SeqTypes DEF StepInv
      <4>4. Head(pipe) = pipe[1] /\ Len(pipe) >= 1
        BY <4>2, <4>3, ShiftedBy
      <4> QED
        BY <4>1, <4>2, <4>3, <4>4
    <3>4. ~Noisy(pipe[1]) /\ Queue = pipe
      BY <3>2, <3>3, QueueIs, SeqTypes DEF Noisy, StepInv, ExchangeOf
    <3>5. p.owner \in 1..sent
      BY <3>3, <3>4 DEF StepInv, InOrder, Ordered
    <3>6. p.seq = Sequence(p.owner) /\ sent - p.owner <= Slack - 1
      BY <2>1, <3>3, <3>4 DEF Window, Fresh
    <3>7. Slack - 1 < SeqMod
      <4>1. faults \in 0..MaxFaults /\ Unread \in {0, 1}
        BY WindowSizes DEF StepInv, TypeOK
      <4> QED
        BY <4>1, IdleTyped DEF Slack, Roomy
    <3>8. p.owner = sent
      <4>1. p.owner \in Nat /\ sent \in Nat /\ p.owner <= sent /\ Slack \in Int
        BY <3>5, WindowSizes
      <4>2. sent - p.owner < SeqMod /\ SeqMod \in Nat /\ SeqMod > 0
        BY <3>6, <3>7, <4>1, IdleTyped
      <4>3. p.owner % SeqMod = sent % SeqMod
        BY <3>2, <3>3, <3>6 DEF Sequence
      <4> QED
        BY <4>1, <4>2, <4>3, ModTellsApart
    <3> QED
      BY <3>2, <3>3, <3>8 DEF Finish
  <2> QED
    BY <1>3, <2>1, <2>2, <2>3, <2>4, <2>5, CcidDriver
<1>4. CASE Reader
  BY <1>2, <1>4 DEF Reader, ReaderAcks, ReaderAnswers, ReaderDrops, Noise, env
<1>5. CASE Deadline
  BY <1>2, <1>5 DEF Deadline, env
<1>6. CASE Caller
  <2>1. result' = NoResult \/ result' = [NoResult EXCEPT !.end = "err", !.id = sent']
    BY <1>6 DEF Caller, Send, SendFails
  <2>2. NoResult.end = "none" /\ [NoResult EXCEPT !.end = "err", !.id = sent'].end = "err"
    BY DEF NoResult
  <2> QED
    BY <1>1, <2>1, <2>2
<1> QED
  BY <1>2, <1>3, <1>4, <1>5, <1>6 DEF Next, Done, vars

-----------------------------------------------------------------------------
(* Port-100: the recovery leaves nothing behind                             *)

LEMMA CleanIs ==
    ASSUME TypeOK
    PROVE  /\ Clean <=> Len(pipe) = 0 /\ Len(reader) = 0
           /\ pipe = <<>> <=> Len(pipe) = 0
           /\ reader = <<>> <=> Len(reader) = 0
<1>1. reader \in Seq(Command) /\ pipe \in Seq(Packet) /\ Len(reader) \in Nat /\ Len(pipe) \in Nat
  BY SeqTypes
<1>2. pipe = <<>> <=> Len(pipe) = 0
  <2>1. pipe # <<>> => Len(pipe) >= 1
    BY <1>1, ShiftedBy
  <2> QED
    BY <1>1, <2>1
<1>3. reader = <<>> <=> Len(reader) = 0
  <2>1. reader # <<>> => Len(reader) >= 1
    BY <1>1, ShiftedBy
  <2> QED
    BY <1>1, <2>1
<1> QED
  BY <1>2, <1>3 DEF Clean

\* Reading the next packet of a Port-100.
LEMMA Port100Reads ==
    ASSUME StepInv, chip = "port100", NEW p, Next_(p)
    PROVE  /\ pipe # <<>> /\ pipe' = Tail(pipe) /\ Shifted(pipe, pipe', 1) /\ p = pipe[1]
           /\ 1 \in 1..Len(pipe) /\ Len(pipe) \in Nat /\ Len(pipe') = Len(pipe) - 1 /\ held' = held
<1>1. held = <<>> /\ pipe \in Seq(Packet) /\ Len(pipe) \in Nat
  BY SeqTypes DEF StepInv, ExchangeOf
<1>2. pipe # <<>> /\ pipe' = Tail(pipe) /\ p = Head(pipe) /\ held' = held
  BY <1>1 DEF Next_, Available
<1>3. /\ Shifted(pipe, Tail(pipe), 1) /\ Head(pipe) = pipe[1] /\ Len(pipe) >= 1
      /\ Len(Tail(pipe)) = Len(pipe) - 1
  BY <1>1, <1>2, ShiftedBy
<1> QED
  BY <1>1, <1>2, <1>3

LEMMA RecoveredReader ==
    ASSUME HostLinkAssumption, orderly, chip = "port100", StepInv, StepInv', Recovered, Reader
    PROVE  Recovered'
<1>0. /\ reader \in Seq(Command) /\ pipe \in Seq(Packet) /\ Len(reader) \in Nat /\ Len(pipe) \in Nat
      /\ TypeOK /\ host \in HostType
  BY SeqTypes, Sizes DEF StepInv
<1>1. UNCHANGED <<chip, sent, host>>
  BY DEF Reader, ReaderAcks, ReaderAnswers, ReaderDrops, Noise, env
<1>2. /\ pipe = <<>> <=> Len(pipe) = 0
      /\ reader = <<>> <=> Len(reader) = 0
      /\ Clean <=> Len(pipe) = 0 /\ Len(reader) = 0
  BY <1>0, CleanIs
<1>3. ~Noise
  BY IdleTyped DEF Noise
<1>4. reader # <<>>
  BY <1>3 DEF Reader, ReaderAcks, ReaderAnswers, ReaderDrops
<1>5. /\ Head(reader) = reader[1] /\ reader[1] \in Command /\ 1 \in 1..Len(reader)
      /\ Shifted(reader, Tail(reader), 1) /\ Tail(reader) \in Seq(Command)
      /\ Len(Tail(reader)) = Len(reader) - 1
  BY <1>0, <1>4, OldestCommand
<1>6. /\ host.phase \in {"ack", "rsp"} \/ (host.phase = "recover" /\ host.drain)
      /\ reader[1].id = sent
      /\ host.phase \in {"ack", "rsp"} => Len(reader) = 1
      /\ host.phase = "ack" => (reader[1].acked <=> Len(pipe) = 1) /\ Len(pipe) <= 1 /\ ~host.late
      /\ host.phase = "rsp" => reader[1].acked /\ Len(pipe) = 0
  BY <1>0, <1>2, <1>4, <1>5 DEF Recovered, HostType, Phases
<1>7. ASSUME NEW kind \in AnswerKinds \cup {"ack"}, Emit(kind, Head(reader))
      PROVE  /\ Len(pipe') = Len(pipe) + 1 /\ pipe'[Len(pipe) + 1].kind = kind
             /\ pipe'[Len(pipe) + 1].owner = sent
             /\ \A i \in 1..Len(pipe) : pipe'[i] = pipe[i]
  <2> DEFINE p == [kind |-> kind, owner |-> Head(reader).id, code |-> Head(reader).code,
                   seq |-> Head(reader).seq]
  <2>1. p \in Packet /\ p.kind = kind /\ p.owner = sent
    BY <1>5, <1>6, EmittedTyped
  <2>2. pipe' = Append(pipe, p)
    BY <1>7 DEF Emit
  <2> HIDE DEF p
  <2> QED
    BY <1>0, <2>1, <2>2, AppendExtends DEF Extended
<1>8. CASE ReaderAcks
  <2>1. Emit("ack", Head(reader)) /\ ~reader[1].acked
    BY <1>5, <1>8 DEF ReaderAcks
  <2>2. /\ Len(pipe') = Len(pipe) + 1 /\ pipe'[Len(pipe) + 1].kind = "ack"
        /\ pipe'[Len(pipe) + 1].owner = sent
        /\ \A i \in 1..Len(pipe) : pipe'[i] = pipe[i]
    BY <1>7, <2>1
  <2>3. /\ Len(reader') = Len(reader) /\ reader'[1].acked
        /\ \A i \in 1..Len(reader) : reader'[i].id = reader[i].id
    BY <1>0, <1>8, AckedReader
  <2>4. \A i \in 1..Len(pipe') : pipe'[i].owner = sent
    <3>1. ASSUME NEW i \in 1..Len(pipe') PROVE i \in 1..Len(pipe) \/ i = Len(pipe) + 1
      BY <1>0, <2>2
    <3> QED
      BY <2>2, <3>1 DEF Recovered
  <2>5. \A i \in 1..Len(reader') : reader'[i].id = sent
    BY <2>3 DEF Recovered
  <2>6. host.phase # "rsp"
    BY <1>6, <2>1
  <2>7. CASE host.phase = "ack"
    <3>1. Len(pipe) = 0
      BY <1>0, <1>6, <2>1, <2>7
    <3>2. Len(pipe') = 1 /\ pipe'[1].kind = "ack" /\ Len(reader') = 1
      BY <1>6, <2>2, <2>3, <2>7, <3>1
    <3>3. \A i \in 1..Len(pipe') : IF i = 1 THEN pipe'[i].kind = "ack" ELSE Final(pipe'[i])
      BY <3>2
    <3> QED
      BY <1>1, <1>6, <2>3, <2>4, <2>5, <2>7, <3>2, <3>3 DEF Recovered
  <2>8. CASE host.phase = "recover" /\ host.drain
    BY <1>1, <2>4, <2>5, <2>8 DEF Recovered
  <2> QED
    BY <1>6, <2>6, <2>7, <2>8
<1>9. CASE ReaderDrops
  <2>1. pipe' = pipe /\ reader' = Tail(reader)
    BY <1>9 DEF ReaderDrops
  <2>2. \A i \in 1..Len(reader') : reader'[i].id = sent
    BY <1>0, <1>5, <2>1 DEF Recovered, Shifted
  <2>3. host.phase \in {"ack", "rsp"} => reader' = <<>>
    <3>1. host.phase \in {"ack", "rsp"} => Len(Tail(reader)) = 0
      BY <1>5, <1>6
    <3> QED
      BY <1>5, <2>1, <3>1, EmptySeq
  <2> QED
    BY <1>1, <1>6, <2>1, <2>2, <2>3 DEF Recovered
<1>10. ASSUME NEW kind \in AnswerKinds, ReaderAnswers(kind) PROVE Recovered'
  <2>1. /\ Emit(kind, Head(reader)) /\ reader[1].acked /\ kind \in {"rsp", "err"}
        /\ reader' = Tail(reader)
    BY <1>5, <1>10 DEF ReaderAnswers, AnswerKinds
  <2>2. /\ Len(pipe') = Len(pipe) + 1 /\ pipe'[Len(pipe) + 1].kind = kind
        /\ pipe'[Len(pipe) + 1].owner = sent
        /\ \A i \in 1..Len(pipe) : pipe'[i] = pipe[i]
    BY <1>7, <2>1
  <2>3. \A i \in 1..Len(reader') : reader'[i].id = sent
    BY <1>0, <1>5, <2>1 DEF Recovered, Shifted
  <2>4. \A i \in 1..Len(pipe') : pipe'[i].owner = sent
    <3>1. ASSUME NEW i \in 1..Len(pipe') PROVE i \in 1..Len(pipe) \/ i = Len(pipe) + 1
      BY <1>0, <2>2
    <3> QED
      BY <2>2, <3>1 DEF Recovered
  <2>5. host.phase \in {"ack", "rsp"} => reader' = <<>>
    <3>1. host.phase \in {"ack", "rsp"} => Len(Tail(reader)) = 0
      BY <1>5, <1>6
    <3> QED
      BY <1>5, <2>1, <3>1, EmptySeq
  <2>6. CASE host.phase = "ack"
    <3>1. Len(pipe) = 1 /\ Len(pipe') = 2 /\ pipe'[1] = pipe[1] /\ Final(pipe'[2])
      <4>1. Len(pipe) = 1
        BY <1>6, <2>1, <2>6
      <4>2. Len(pipe') = 2 /\ pipe'[2].kind = kind /\ pipe'[1] = pipe[1]
        BY <2>2, <4>1
      <4> QED
        BY <2>1, <4>1, <4>2 DEF Final
    <3>2. pipe[1].kind = "ack"
      BY <2>6, <3>1 DEF Recovered
    <3>3. \A i \in 1..Len(pipe') : IF i = 1 THEN pipe'[i].kind = "ack" ELSE Final(pipe'[i])
      <4>1. \A i \in 1..Len(pipe') : i = 1 \/ i = 2
        BY <3>1
      <4> QED
        BY <3>1, <3>2, <4>1
    <3> QED
      BY <1>1, <1>6, <2>3, <2>4, <2>5, <2>6, <3>1, <3>3 DEF Recovered
  <2>7. CASE host.phase = "rsp"
    <3>1. Len(pipe) = 0 /\ Len(pipe') = 1 /\ Final(pipe'[1])
      BY <1>6, <2>1, <2>2, <2>7 DEF Final
    <3>2. \A i \in 1..Len(pipe') : Final(pipe'[i])
      BY <3>1
    <3> QED
      BY <1>1, <2>3, <2>4, <2>5, <2>7, <3>1, <3>2 DEF Recovered
  <2>8. CASE host.phase = "recover" /\ host.drain
    BY <1>1, <2>3, <2>4, <2>8 DEF Recovered
  <2> QED
    BY <1>6, <2>6, <2>7, <2>8
<1> QED
  BY <1>3, <1>8, <1>9, <1>10 DEF Reader

\* The steps of the Port-100 driver.
LEMMA Port100Driver ==
    ASSUME Driver, chip = "port100"
    PROVE  \/ Port100Timeout \/ RecoverySendsAck \/ DrainEnds
           \/ \E p : Port100Ack(p) \/ Port100Rsp(p) \/ Port100Broken(p) \/ DrainInput(p)
<1>1. \A p : ~(Rcs956First(p) \/ Rcs956Loop(p) \/ Rcs320Ack(p) \/ Rcs320Rsp(p)
               \/ CcidAnswer(p) \/ CcidResend(p) \/ CcidResendFails(p) \/ CcidTimeExtension(p)
               \/ CcidMismatch(p) \/ CcidNoise(p))
  BY DEF Rcs956First, Rcs956Loop, Rcs320Ack, Rcs320Rsp, CcidAnswer, CcidResend, CcidResendFails,
         CcidTimeExtension, CcidMismatch, CcidNoise
<1>2. ~(Rcs956ReadTimeout \/ Rcs956DeadlineSeen \/ Rcs320Timeout \/ CcidTimeout)
  BY DEF Rcs956ReadTimeout, Rcs956DeadlineSeen, Rcs320Timeout, CcidTimeout
<1> QED
  BY <1>1, <1>2 DEF Driver, Reads

LEMMA RecoveredDriver ==
    ASSUME HostLinkAssumption, orderly, chip = "port100", StepInv, Recovered, RecoveryKeepsOrder, Driver
    PROVE  Recovered' /\ RecoveryKeepsOrder'
<1>0. /\ reader \in Seq(Command) /\ pipe \in Seq(Packet) /\ Len(reader) \in Nat /\ Len(pipe) \in Nat
      /\ TypeOK /\ host \in HostType /\ Idle.phase = "idle"
  BY SeqTypes, Sizes, IdleTyped DEF StepInv
<1>1. chip' = chip /\ sent' = sent
  BY DriverEffect DEF Effect, StepInv, CcidResend
<1>2. /\ pipe = <<>> <=> Len(pipe) = 0
      /\ reader = <<>> <=> Len(reader) = 0
      /\ Clean <=> Len(pipe) = 0 /\ Len(reader) = 0
  BY <1>0, CleanIs
<1>3. /\ \A i \in 1..Len(pipe) : pipe[i].owner = sent
      /\ \A i \in 1..Len(reader) : reader[i].id = sent
  BY DEF Recovered
<1>4. /\ \A phase \in Phases \ {"idle"} : Enter(phase) =>
           host'.phase = phase /\ ~host'.late /\ host'.drain = host.drain /\ result' = result
      /\ \A drain \in BOOLEAN : Recover(drain) =>
           host'.phase = "recover" /\ host'.drain = drain /\ result' = result
  BY <1>0 DEF Enter, Recover, HostType
<1>5. ASSUME NEW p, Take(p)
      PROVE  /\ reader' = reader /\ p = pipe[1] /\ 1 \in 1..Len(pipe) /\ Len(pipe') = Len(pipe) - 1
             /\ pipe # <<>> /\ \A i \in 1..Len(pipe') : pipe'[i] = pipe[i + 1] /\ i + 1 \in 1..Len(pipe)
             /\ \A i \in 1..Len(pipe') : pipe'[i].owner = sent
             /\ Len(pipe) = 1 => pipe' = <<>>
  <2>1. /\ pipe # <<>> /\ pipe' = Tail(pipe) /\ Shifted(pipe, pipe', 1) /\ p = pipe[1]
        /\ 1 \in 1..Len(pipe) /\ Len(pipe') = Len(pipe) - 1
    BY <1>5, Port100Reads DEF Take
  <2>2. \A i \in 1..Len(pipe') : pipe'[i] = pipe[i + 1] /\ i + 1 \in 1..Len(pipe)
    BY <1>0, <2>1 DEF Shifted
  <2>3. Len(pipe) = 1 => pipe' = <<>>
    <3>1. Tail(pipe) \in Seq(Packet)
      BY <1>0, <2>1, ShiftedBy
    <3> QED
      BY <2>1, <3>1, EmptySeq
  <2> QED
    BY <1>3, <1>5, <2>1, <2>2, <2>3 DEF Take
<1>6. ASSUME result' = result \/ result'.end # "ok" PROVE RecoveryKeepsOrder'
  BY <1>1, <1>6 DEF RecoveryKeepsOrder
<1>7. ASSUME NEW p, Port100Ack(p) PROVE Recovered' /\ RecoveryKeepsOrder'
  <2>1. host.phase = "ack" /\ Take(p)
    BY <1>7 DEF Port100Ack
  <2>2. p.kind = "ack"
    BY <1>5, <2>1 DEF Recovered
  <2>3. host'.phase = "rsp" /\ result' = result
    <3>1. Enter("rsp") /\ "rsp" \in Phases \ {"idle"}
      BY <1>7, <2>2 DEF Port100Ack, Phases
    <3> QED
      BY <1>4, <3>1
  <2>4. /\ \A i \in 1..Len(pipe) : IF i = 1 THEN pipe[i].kind = "ack" ELSE Final(pipe[i])
        /\ reader # <<>> => Len(reader) = 1 /\ (reader[1].acked <=> Len(pipe) = 1) /\ Len(pipe) <= 1
        /\ Len(pipe) <= 2
    BY <2>1 DEF Recovered
  <2>5. Len(pipe') <= 1 /\ \A i \in 1..Len(pipe') : Final(pipe'[i])
    <3>1. Len(pipe') <= 1
      BY <1>0, <1>5, <2>1, <2>4
    <3>2. ASSUME NEW i \in 1..Len(pipe') PROVE Final(pipe'[i])
      <4>1. pipe'[i] = pipe[i + 1] /\ i + 1 \in 1..Len(pipe) /\ i + 1 # 1
        BY <1>5, <2>1
      <4> QED
        BY <2>4, <4>1
    <3> QED
      BY <3>1, <3>2
  <2>6. reader # <<>> => Len(reader) = 1 /\ reader[1].acked /\ pipe' = <<>>
    <3>1. reader # <<>> => Len(pipe) = 1
      BY <1>0, <1>5, <2>1, <2>4
    <3> QED
      BY <1>5, <2>1, <2>4, <3>1
  <2>7. Recovered'
    BY <1>1, <1>3, <1>5, <2>1, <2>3, <2>5, <2>6 DEF Recovered
  <2> QED
    BY <1>6, <2>3, <2>7
<1>8. ASSUME NEW p, Port100Rsp(p) PROVE Recovered' /\ RecoveryKeepsOrder'
  <2>1. host.phase = "rsp" /\ Take(p)
    BY <1>8 DEF Port100Rsp
  <2>2. Len(pipe) = 1 /\ pipe' = <<>> /\ reader' = <<>> /\ p.owner = sent /\ host.id = sent
    <3>1. Len(pipe) <= 1 /\ (reader # <<>> => pipe = <<>>)
      BY <2>1 DEF Recovered
    <3>2. Len(pipe) = 1
      <4> DEFINE n == Len(pipe)
      <4>1. 1 \in 1..n /\ n \in Nat /\ n <= 1
        BY <1>0, <1>5, <2>1, <3>1
      <4> HIDE DEF n
      <4>2. n = 1
        BY <4>1
      <4> QED
        BY <4>2 DEF n
    <3>3. host.id = sent
      BY <2>1 DEF StepInv, ExchangeOf
    <3> QED
      BY <1>3, <1>5, <2>1, <3>1, <3>2, <3>3
  <2>3. Len(pipe') = 0 /\ Len(reader') = 0 /\ Clean'
    BY <2>2 DEF Clean
  <2>4. \/ host'.phase = "idle"
        \/ host'.phase = "broken"
        \/ host'.phase = "recover" /\ host'.drain
    <3>1. Enter("broken") \/ Recover(TRUE) \/ Finish("ok", p.owner, FALSE) \/ Finish("err", 0, FALSE)
      BY <1>8 DEF Port100Rsp
    <3>2. "broken" \in Phases \ {"idle"} /\ TRUE \in BOOLEAN
      BY DEF Phases
    <3>3. Finish("ok", p.owner, FALSE) \/ Finish("err", 0, FALSE) => host'.phase = "idle"
      BY <1>0 DEF Finish
    <3> QED
      BY <1>4, <3>1, <3>2, <3>3
  <2>5. Recovered'
    BY <2>3, <2>4 DEF Recovered
  <2>6. RecoveryKeepsOrder'
    <3>1. Enter("broken") \/ Recover(TRUE) \/ Finish("ok", p.owner, FALSE) \/ Finish("err", 0, FALSE)
      BY <1>8 DEF Port100Rsp
    <3>2. Enter("broken") \/ Recover(TRUE) => result' = result
      BY DEF Enter, Recover
    <3>3. Finish("err", 0, FALSE) => result'.end # "ok"
      BY DEF Finish
    <3>4. Finish("ok", p.owner, FALSE) => result'.owner = sent /\ result'.id = sent
      BY <2>2 DEF Finish
    <3> QED
      BY <1>6, <3>1, <3>2, <3>3, <3>4 DEF RecoveryKeepsOrder
  <2> QED
    BY <2>5, <2>6
<1>9. ASSUME NEW p, Port100Broken(p) PROVE Recovered' /\ RecoveryKeepsOrder'
  <2>1. pipe = <<>> /\ pipe # <<>>
    BY <1>5, <1>9 DEF Port100Broken, Recovered, Clean
  <2> QED
    BY <2>1
<1>10. ASSUME Port100Timeout PROVE Recovered' /\ RecoveryKeepsOrder'
  <2>1. UNCHANGED <<reader, pipe>> /\ host.phase \in {"ack", "rsp", "broken"} /\ host.late
    BY <1>10 DEF Port100Timeout
  <2>2. host'.phase = "recover" /\ host'.drain = (host.phase # "ack") /\ result' = result
    <3>1. Recover(host.phase # "ack") /\ (host.phase # "ack") \in BOOLEAN
      BY <1>10 DEF Port100Timeout
    <3> QED
      BY <1>4, <3>1
  <2>3. host.phase = "ack" => Clean
    BY <2>1 DEF Recovered
  <2>4. Recovered'
    BY <1>1, <1>3, <2>1, <2>2, <2>3 DEF Recovered, Clean
  <2> QED
    BY <1>6, <2>2, <2>4
<1>11. ASSUME RecoverySendsAck PROVE Recovered' /\ RecoveryKeepsOrder'
  <2>1. host.phase = "recover" /\ reader' = <<>> /\ pipe' = pipe
    BY <1>11 DEF RecoverySendsAck, Cancelled
  <2>2. CASE host.drain
    <3>1. Enter("drain") /\ "drain" \in Phases \ {"idle"}
      BY <1>11, <2>2 DEF RecoverySendsAck, Phases
    <3>2. host'.phase = "drain" /\ result' = result
      BY <1>4, <3>1
    <3>3. Recovered'
      BY <1>1, <1>3, <2>1, <3>2 DEF Recovered
    <3> QED
      BY <1>6, <3>2, <3>3
  <2>3. CASE ~host.drain
    <3>1. Finish("err", 0, TRUE)
      BY <1>11, <2>3 DEF RecoverySendsAck
    <3>2. host'.phase = "idle" /\ result'.end # "ok"
      BY <1>0, <3>1 DEF Finish
    <3>3. Clean'
      BY <2>1, <2>3 DEF Recovered, Clean
    <3>4. Recovered'
      BY <1>1, <1>3, <2>1, <3>2, <3>3 DEF Recovered
    <3> QED
      BY <1>6, <3>2, <3>4
  <2> QED
    BY <2>2, <2>3
<1>12. ASSUME NEW p, DrainInput(p) PROVE Recovered' /\ RecoveryKeepsOrder'
  <2>1. /\ host.phase = "drain" /\ pipe # <<>> /\ pipe' = Tail(pipe)
        /\ UNCHANGED <<reader, host, result>>
    BY <1>12 DEF DrainInput
  <2>2. Shifted(pipe, pipe', 1)
    BY <1>0, <2>1, ShiftedBy
  <2>3. \A i \in 1..Len(pipe') : pipe'[i].owner = sent
    BY <1>0, <1>3, <2>2 DEF Shifted
  <2>4. Recovered'
    BY <1>1, <1>3, <2>1, <2>3 DEF Recovered
  <2> QED
    BY <1>6, <2>1, <2>4
<1>13. ASSUME DrainEnds PROVE Recovered' /\ RecoveryKeepsOrder'
  <2>1. /\ host.phase = "drain" /\ pipe = <<>> /\ Finish("err", 0, TRUE)
        /\ UNCHANGED <<reader, pipe>>
    BY <1>13 DEF DrainEnds
  <2>2. host'.phase = "idle" /\ result'.end # "ok"
    BY <1>0, <2>1 DEF Finish
  <2>3. Clean'
    BY <2>1 DEF Recovered, Clean
  <2>4. Recovered'
    BY <1>1, <1>3, <2>1, <2>2, <2>3 DEF Recovered
  <2> QED
    BY <1>6, <2>2, <2>4
<1> QED
  BY <1>7, <1>8, <1>9, <1>10, <1>11, <1>12, <1>13, Port100Driver

LEMMA RecoveredDeadline ==
    ASSUME HostLinkAssumption, orderly, chip = "port100", StepInv, Recovered, Deadline
    PROVE  Recovered'
<1>1. /\ UNCHANGED <<chip, sent, reader, pipe>> /\ host' = [host EXCEPT !.late = TRUE]
      /\ host \in HostType /\ TypeOK
  BY Sizes DEF Deadline, env, StepInv
<1>2. host'.phase = host.phase /\ host'.drain = host.drain /\ host'.late
  BY <1>1 DEF HostType
<1>3. host.phase = "ack" => Clean
  <2>1. SUFFICES ASSUME host.phase = "ack" PROVE Clean
    OBVIOUS
  <2>2. pipe = <<>> /\ \A i \in DOMAIN reader : reader[i].id # host.id
    BY <2>1 DEF Deadline
  <2>3. host.id = sent /\ DOMAIN reader = 1..Len(reader) /\ Len(reader) \in Nat
    BY <1>1, <2>1, SeqTypes DEF StepInv, ExchangeOf
  <2>4. ~(1 \in 1..Len(reader))
    BY <2>2, <2>3 DEF Recovered
  <2>5. Len(reader) = 0
    BY <2>3, <2>4
  <2>6. reader = <<>>
    BY <1>1, <2>5, CleanIs
  <2> QED
    BY <2>2, <2>6 DEF Clean
<1>4. Clean' = Clean
  BY <1>1 DEF Clean
<1> QED
  BY <1>1, <1>2, <1>3, <1>4 DEF Recovered

LEMMA RecoveredCaller ==
    ASSUME HostLinkAssumption, orderly, chip = "port100", StepInv, Recovered, Caller
    PROVE  Recovered' /\ RecoveryKeepsOrder'
<1>1. PICK code \in Codes : Send(code) \/ SendFails(code)
  BY DEF Caller
<1>2. ~SendFails(code)
  BY IdleTyped DEF SendFails
<1>3. /\ host.phase = "idle" /\ sent' = sent + 1 /\ pipe' = pipe /\ chip' = chip /\ result' = NoResult
      /\ reader' = Received(sent + 1, code)
  BY <1>1, <1>2 DEF Send, env
<1>4. host'.phase = "ack" /\ ~host'.late
  BY <1>1, <1>2 DEF Send, Idle
<1>5. pipe = <<>> /\ reader = <<>>
  BY <1>3 DEF Recovered, Clean
<1>6. reader' = <<[id |-> sent + 1, code |-> code, seq |-> Sequence(sent + 1), acked |-> FALSE]>>
  BY <1>3, <1>5 DEF Received
<1>7. Len(reader') = 1 /\ reader'[1].id = sent + 1 /\ ~reader'[1].acked /\ Len(pipe') = 0
  BY <1>3, <1>5, <1>6
<1>8. \A i \in 1..Len(reader') : reader'[i].id = sent'
  BY <1>3, <1>7
<1>9. Recovered'
  BY <1>4, <1>7, <1>8 DEF Recovered
<1>10. RecoveryKeepsOrder'
  BY <1>3, IdleTyped DEF RecoveryKeepsOrder
<1> QED
  BY <1>9, <1>10

-----------------------------------------------------------------------------
LinkInv ==
    /\ StepInv
    /\ Window
    /\ Roomy => OwnAnswer
    /\ orderly /\ chip = "port100" => Recovered /\ RecoveryKeepsOrder

LEMMA LinkInvInductive ==
    ASSUME HostLinkAssumption
    PROVE  /\ Init => LinkInv
           /\ LinkInv /\ [Next]_vars => LinkInv'
<1>1. ASSUME Init PROVE LinkInv
  <2>1. StepInv /\ Window
    BY <1>1, StepInvInductive, WindowInductive
  <2>2. OwnAnswer /\ RecoveryKeepsOrder
    BY <1>1, IdleTyped DEF Init, OwnAnswer, RecoveryKeepsOrder
  <2>3. Recovered
    <3>1. host.phase = "idle" /\ Len(pipe) = 0 /\ Len(reader) = 0 /\ Clean
      BY <1>1, IdleTyped DEF Init, Clean
    <3> QED
      BY <3>1 DEF Recovered
  <2> QED
    BY <2>1, <2>2, <2>3 DEF LinkInv
<1>2. ASSUME LinkInv, [Next]_vars PROVE LinkInv'
  <2>1. StepInv' /\ Window'
    BY <1>2, StepInvInductive, WindowInductive DEF LinkInv
  <2>2. Roomy => OwnAnswer'
    BY <1>2, OwnAnswerStep DEF LinkInv
  <2>3. ASSUME orderly', chip' = "port100" PROVE Recovered' /\ RecoveryKeepsOrder'
    <3>1. UNCHANGED <<chip, orderly>>
      <4>1. Reader => UNCHANGED <<chip, orderly>>
        BY DEF Reader, ReaderAcks, ReaderAnswers, ReaderDrops, Noise, env
      <4>2. Driver => UNCHANGED <<chip, orderly>>
        BY <1>2, DriverEffect DEF Effect, CcidResend, env, StepInv, LinkInv
      <4>3. Deadline \/ Caller => UNCHANGED <<chip, orderly>>
        BY DEF Deadline, Caller, Send, SendFails, env
      <4> QED
        BY <1>2, <4>1, <4>2, <4>3 DEF Next, Done, vars
    <3>2. orderly /\ chip = "port100" /\ StepInv /\ Recovered /\ RecoveryKeepsOrder
      BY <1>2, <2>3, <3>1 DEF LinkInv
    <3>3. CASE UNCHANGED vars
      BY <3>2, <3>3 DEF vars, Recovered, RecoveryKeepsOrder, Clean, Final
    <3>4. CASE Reader
      <4>1. UNCHANGED <<chip, result>>
        BY <3>4 DEF Reader, ReaderAcks, ReaderAnswers, ReaderDrops, Noise, env
      <4> QED
        BY <2>1, <2>3, <3>2, <3>4, <4>1, RecoveredReader DEF RecoveryKeepsOrder
    <3>5. CASE Driver
      BY <2>3, <3>2, <3>5, RecoveredDriver
    <3>6. CASE Deadline
      <4>1. UNCHANGED <<chip, result>>
        BY <3>6 DEF Deadline, env
      <4> QED
        BY <2>3, <3>2, <3>6, <4>1, RecoveredDeadline DEF RecoveryKeepsOrder
    <3>7. CASE Caller
      BY <2>3, <3>2, <3>7, RecoveredCaller
    <3> QED
      BY <1>2, <3>3, <3>4, <3>5, <3>6, <3>7 DEF Next, Done
  <2> QED
    BY <2>1, <2>2, <2>3 DEF LinkInv, Roomy
<1> QED
  BY <1>1, <1>2

(***************************************************************************)
(* Answers stay in step with commands, for every reader and any number of  *)
(* commands, packets under way and faults: an answer is never further      *)
(* behind than the exchanges that failed (all drivers), a CCID answer is   *)
(* the frame's own while the frames under way, the packets unread and the  *)
(* faults are no more than the sequence numbers, and a Port-100 answer is  *)
(* the command's own for a reader that keeps its times.                    *)
(***************************************************************************)
THEOREM AnswersKeepStep == ASSUME HostLinkAssumption PROVE Spec => []AnswersStayInStep
<1>1. Init => LinkInv
  BY LinkInvInductive
<1>2. LinkInv /\ [Next]_vars => LinkInv'
  BY LinkInvInductive
<1>3. LinkInv => AnswersStayInStep
  BY DEF LinkInv, StepInv, AnswersStayInStep, Roomy, RecoveryKeepsOrder
<1> QED
  BY <1>1, <1>2, <1>3, PTL DEF Spec

-----------------------------------------------------------------------------
(* The remote driver                                                        *)

Busy == {"lock", "work", "write", "last"}
Replies == {"poll", "data"}

\* Where the request of driver c may be: on its way up, in the thread, or answered
\* on its way down, and only in one of these places.
RequestOf(c) ==
    /\ written[c].n \in 0..MaxRequests
    /\ up[c] # <<>> =>
         /\ up[c] = <<written[c]>> /\ written[c].kind \in DriverKinds /\ written[c].n > 0
         /\ thread[c] = "read" /\ client[c] \in {"waiting", "closed"} /\ link[c] = "up"
         /\ down[c] = <<>>
    /\ thread[c] \in Busy =>
         /\ up[c] = <<>> /\ down[c] = <<>>
         /\ line[c].kind \in DriverKinds /\ line[c].n \in 1..written[c].n
         /\ ~Lost(c) => client[c] = "waiting" /\ line[c].n = written[c].n
    /\ down[c] # <<>> =>
         /\ written[c].n > 0
         /\ \E a : down[c] = <<a>> /\ a.n = written[c].n /\ a.kind \in Replies \cup {"error"}
         /\ client[c] = "waiting" /\ thread[c] \in {"read", "gone"}

\* What the reader has done for driver c, against where the request is.
WorkOf(c) ==
    /\ \A n \in 1..MaxRequests : performed[c][n] \in {0, 1} /\ (n > written[c].n => performed[c][n] = 0)
    /\ up[c] # <<>> => performed[c][written[c].n] = 0
    /\ thread[c] \in {"lock", "work"} => performed[c][line[c].n] = 0
    /\ thread[c] \in {"write", "last"} =>
         /\ answer[c].n = line[c].n /\ answer[c].kind \in Replies \cup {"error"}
         /\ answer[c].kind \in Replies => performed[c][line[c].n] = 1
    /\ down[c] # <<>> /\ down[c][1].kind \in Replies => performed[c][written[c].n] = 1

\* What the caller of driver c knows.
CallOf(c) ==
    /\ client[c] = "out" => /\ thread[c] = "none" /\ up[c] = <<>> /\ down[c] = <<>>
                            /\ written[c] = NoLine /\ outcome[c] = NoLine
    /\ thread[c] = "none" => client[c] = "out"
    /\ client[c] = "idle" =>
         /\ up[c] = <<>> /\ down[c] = <<>> /\ outcome[c].n = written[c].n
         /\ outcome[c].kind = "Ok" => written[c].n > 0 /\ performed[c][written[c].n] = 1

Inv(c) == RequestOf(c) /\ WorkOf(c) /\ CallOf(c)

DriverInv == huge = 0 => \A c \in Drivers : Inv(c)

-----------------------------------------------------------------------------
(* Types                                                                    *)

Kinds == OtherKinds \cup {"none", "end", "rest", "Ok", "Err", "error", "poll", "data", "huge"}
Lines == [kind : Kinds, n : Nat]

Typed ==
    /\ client \in [Clients -> {"out", "idle", "waiting", "closed"}]
    /\ link \in [Clients -> {"up", "cut"}]
    /\ thread \in [Clients -> {"none", "read", "lock", "work", "write", "last", "gone"}]
    /\ written \in [Clients -> Lines] /\ outcome \in [Clients -> Lines]
    /\ line \in [Clients -> Lines] /\ answer \in [Clients -> Lines]
    /\ up \in [Clients -> Seq(Lines)] /\ down \in [Clients -> Seq(Lines)]
    /\ performed \in [Drivers -> [1..MaxRequests -> Nat]]
    /\ mutex \in Clients \cup {None}
    /\ \A c \in Clients : thread[c] = "work" => mutex = c
    /\ huge \in Nat

\* A line is a line.
LEMMA LineTyped ==
    ASSUME NEW kind \in Kinds, NEW n \in Nat
    PROVE  Line(kind, n) \in Lines
BY DEF Line, Lines

\* The kinds that are written out.
LEMMA KindsNamed ==
    /\ DriverKinds \subseteq Kinds /\ OtherKinds \subseteq Kinds
    /\ {"none", "end", "rest", "Ok", "Err", "error", "poll", "data", "huge"} \subseteq Kinds
BY DEF Kinds, OtherKinds

\* Sequences with one line.
LEMMA OneLine ==
    ASSUME NEW x
    PROVE  /\ Append(<<>>, x) = <<x>> /\ <<x>> # <<>> /\ Head(<<x>>) = x /\ Tail(<<x>>) = <<>>
           /\ Len(<<x>>) = 1 /\ <<x>>[1] = x
           /\ \A n \in 0..1 : SubSeq(<<x>>, 1, n) = <<>> \/ SubSeq(<<x>>, 1, n) = <<x>>
<1>1. /\ Append(<<>>, x) = <<x>> /\ <<x>> # <<>> /\ Head(<<x>>) = x /\ Tail(<<x>>) = <<>>
      /\ Len(<<x>>) = 1 /\ <<x>>[1] = x
  OBVIOUS
<1>2. SubSeq(<<x>>, 1, 0) = <<>>
  BY SubSeqEmpty
<1>3. SubSeq(<<x>>, 1, 1) = <<x>>
  <2>1. <<x>> \in Seq({x})
    OBVIOUS
  <2> QED
    BY <1>1, <2>1, SubSeqFull
<1> QED
  BY <1>1, <1>2, <1>3

\* Nothing of client d changes.
Same(d) ==
    /\ client'[d] = client[d] /\ link'[d] = link[d] /\ written'[d] = written[d]
    /\ up'[d] = up[d] /\ down'[d] = down[d] /\ outcome'[d] = outcome[d] /\ thread'[d] = thread[d]
    /\ line'[d] = line[d] /\ answer'[d] = answer[d] /\ performed'[d] = performed[d]

\* The step of one client or of its thread concerns no other.
LEMMA SameKeeps ==
    ASSUME NEW d \in Drivers, Same(d), Inv(d)
    PROVE  Inv(d)'
<1>1. RequestOf(d)'
  BY DEF Same, Inv, RequestOf, Lost
<1>2. WorkOf(d)'
  BY DEF Same, Inv, WorkOf
<1>3. CallOf(d)'
  BY DEF Same, Inv, CallOf
<1> QED
  BY <1>1, <1>2, <1>3 DEF Inv

LEMMA StepSame ==
    ASSUME Typed, NEW c \in Clients,
           \/ Connect(c) \/ Leave(c) \/ Cut(c)
           \/ \E kind \in DriverKinds : send_request(c, kind)
           \/ \E kind \in OtherKinds : Write(c, kind)
           \/ ClientStep(c) \/ ServerStep(c)
    PROVE  \A d \in Drivers \ {c} : Same(d)
<1> SUFFICES ASSUME NEW d \in Drivers \ {c} PROVE Same(d)
  OBVIOUS
<1>0. d \in Clients
  BY DEF Clients
<1> USE DEF Typed, Same
<1>1. CASE Connect(c) \/ Leave(c) \/ Cut(c)
  BY <1>0, <1>1 DEF Connect, Leave, Cut
<1>2. ASSUME NEW kind, send_request(c, kind) \/ Write(c, kind)
      PROVE  Same(d)
  BY <1>0, <1>2 DEF send_request, Write, Sends
<1>3. CASE ClientStep(c)
  BY <1>0, <1>3 DEF ClientStep, Receive, ReceiveEnd, Return
<1>4. CASE ReadLine(c)
  BY <1>0, <1>4 DEF ReadLine, Refuse
<1>5. CASE Lock(c) \/ WriteAnswer(c)
  BY <1>0, <1>5 DEF Lock, WriteAnswer
<1>6. CASE process_request(c)
  <2>1. performed'[d] = performed[d]
    BY <1>0, <1>6 DEF process_request, Perform
  <2>2. answer'[d] = answer[d] /\ thread'[d] = thread[d]
    BY <1>0, <1>6 DEF process_request
  <2> QED
    BY <1>6, <2>1, <2>2 DEF process_request
<1> QED
  BY <1>1, <1>2, <1>3, <1>4, <1>5, <1>6 DEF ServerStep

-----------------------------------------------------------------------------
(* Every step keeps the types                                               *)

LEMMA TypesKept ==
    ASSUME RemoteAssumption, Typed, [RemoteNext]_remoteVars
    PROVE  Typed'
<1> USE DEF Typed
<1>0. <<>> \in Seq(Lines) /\ \A c \in Clients : written[c] \in Lines /\ line[c] \in Lines
  OBVIOUS
<1>1. ASSUME NEW c \in Clients, Connect(c)
      PROVE  Typed'
  BY <1>1 DEF Connect
<1>1a. ASSUME NEW c \in Clients, Leave(c)
      PROVE  Typed'
  BY <1>0, <1>1a DEF Leave
<1>2. ASSUME NEW c \in Clients, Cut(c)
      PROVE  Typed'
  <2>1. PICK n \in 0..Len(down[c]) : down' = [down EXCEPT ![c] = SubSeq(@, 1, n)]
    BY <1>2 DEF Cut
  <2>2. SubSeq(down[c], 1, n) \in Seq(Lines)
    <3>1. down[c] \in Seq(Lines) /\ n \in Int
      OBVIOUS
    <3>2. \A i \in 1..n : down[c][i] \in Lines
      BY <3>1, ElementOfSeq
    <3> QED
      BY <3>1, <3>2, SubSeqProperties
  <2>3. down' \in [Clients -> Seq(Lines)] /\ up' \in [Clients -> Seq(Lines)]
    BY <1>0, <1>2, <2>1, <2>2 DEF Cut
  <2> QED
    BY <1>2, <2>3 DEF Cut
<1>3. ASSUME NEW c \in Clients, NEW kind \in DriverKinds, send_request(c, kind)
      PROVE  Typed'
  <2> DEFINE new == Line(kind, written[c].n + 1)
  <2>1. new \in Lines
    <3>1. kind \in Kinds /\ written[c].n + 1 \in Nat
      BY <1>0, KindsNamed DEF Lines
    <3> QED
      BY <3>1, LineTyped
  <2>2. written' = [written EXCEPT ![c] = new]
    BY <1>3 DEF send_request
  <2> HIDE DEF new
  <2>3. written' \in [Clients -> Lines] /\ written'[c] = new
    BY <2>1, <2>2
  <2>4. up' \in [Clients -> Seq(Lines)]
    BY <1>3, <2>1, <2>3, AppendProperties DEF send_request, Sends
  <2> QED
    BY <1>3, <2>3, <2>4 DEF send_request
<1>4. ASSUME NEW c \in Clients, NEW kind \in OtherKinds, Write(c, kind)
      PROVE  Typed'
  <2> DEFINE s == written[c]
             new == [s EXCEPT !.n = s.n + 1]
  <2>1. s \in Lines
    BY <1>0
  <2>2. written' = [written EXCEPT ![c] = new]
    BY <1>4 DEF Write
  <2> HIDE DEF s
  <2>2a. new \in Lines
    <3> DEFINE m == s.n + 1
    <3>1. m \in Nat
      BY <2>1 DEF Lines
    <3> HIDE DEF m
    <3>2. [s EXCEPT !.n = m] \in Lines
      BY <2>1, <3>1 DEF Lines
    <3> QED
      BY <3>2 DEF m
  <2> HIDE DEF new
  <2>3. written' \in [Clients -> Lines]
    BY <2>2, <2>2a
  <2>4. Line(kind, 0) \in Lines
    BY KindsNamed, LineTyped
  <2>5. up' \in [Clients -> Seq(Lines)]
    BY <1>4, <2>4, AppendProperties DEF Write, Sends
  <2> QED
    BY <1>4, <2>3, <2>5 DEF Write
<1>5. ASSUME NEW c \in Clients, Receive(c)
      PROVE  Typed'
  <2> DEFINE got == Head(down[c])
             verdict == IF Decode(written[c], got) THEN "Ok" ELSE "Err"
             res == Line(verdict, got.n)
             rest == Line("rest", got.n)
  <2>1. got \in Lines /\ Tail(down[c]) \in Seq(Lines)
    BY <1>5, HeadTailProperties DEF Receive
  <2>2. got.n \in Nat /\ verdict \in Kinds /\ "rest" \in Kinds
    BY <2>1, KindsNamed DEF Lines
  <2>3. /\ down' = [down EXCEPT ![c] = IF got.kind = "huge" THEN <<rest>> \o Tail(down[c])
                                      ELSE Tail(down[c])]
        /\ outcome' = [outcome EXCEPT ![c] = res]
    BY <1>5 DEF Receive, Return
  <2> HIDE DEF got, verdict
  <2>4. res \in Lines /\ rest \in Lines
    BY <2>2, LineTyped
  <2> HIDE DEF res, rest
  <2>5. <<rest>> \o Tail(down[c]) \in Seq(Lines)
    BY <2>1, <2>4, ConcatProperties
  <2>6. down' \in [Clients -> Seq(Lines)] /\ outcome' \in [Clients -> Lines]
    BY <2>1, <2>3, <2>4, <2>5
  <2> QED
    BY <1>5, <2>6 DEF Receive, Return
<1>6. ASSUME NEW c \in Clients, ReceiveEnd(c)
      PROVE  Typed'
  <2>1. written[c].n \in Nat /\ "Err" \in Kinds
    BY <1>0, KindsNamed DEF Lines
  <2>2. Line("Err", written[c].n) \in Lines
    BY <2>1, LineTyped
  <2> QED
    BY <1>6, <2>2 DEF ReceiveEnd, Return
<1>7. ASSUME NEW c \in Clients, ReadLine(c)
      PROVE  Typed'
  <2>1. NextOf(c) \in Lines
    <3>1. Line("end", 0) \in Lines
      BY LineTyped, KindsNamed
    <3>2. up[c] # <<>> => Head(up[c]) \in Lines
      BY HeadTailProperties
    <3> QED
      BY <3>1, <3>2 DEF NextOf
  <2>2. line' \in [Clients -> Lines] /\ line'[c] \in Lines
    BY <1>7, <2>1 DEF ReadLine
  <2>3. Line("error", line'[c].n) \in Lines
    <3>1. line'[c].n \in Nat /\ "error" \in Kinds
      BY <2>2, KindsNamed DEF Lines
    <3> QED
      BY <3>1, LineTyped
  <2>4. up' \in [Clients -> Seq(Lines)]
    <3>1. up[c] # <<>> => Tail(up[c]) \in Seq(Lines)
      BY HeadTailProperties
    <3> QED
      BY <1>7, <3>1 DEF ReadLine
  <2>5. /\ answer' \in [Clients -> Lines]
        /\ thread' \in [Clients -> {"none", "read", "lock", "work", "write", "last", "gone"}]
        /\ \A d \in Clients : thread'[d] = "work" => thread[d] = "work"
    <3> DEFINE refusal == Line("error", line'[c].n)
    <3>1. \/ \E next \in {"gone", "lock"} :
               thread' = [thread EXCEPT ![c] = next] /\ answer' = answer
          \/ \E next \in {"last", "write"} :
               thread' = [thread EXCEPT ![c] = next] /\ answer' = [answer EXCEPT ![c] = refusal]
          \/ thread' = thread /\ answer' = answer
      BY <1>7 DEF ReadLine, Refuse
    <3> HIDE DEF refusal
    <3>2. refusal \in Lines
      BY <2>3 DEF refusal
    <3>3. CASE \E next \in {"gone", "lock"} :
                 thread' = [thread EXCEPT ![c] = next] /\ answer' = answer
      BY <3>3
    <3>4. CASE \E next \in {"last", "write"} :
                 thread' = [thread EXCEPT ![c] = next] /\ answer' = [answer EXCEPT ![c] = refusal]
      BY <3>2, <3>4
    <3> QED
      BY <3>1, <3>3, <3>4
  <2> QED
    BY <1>7, <2>2, <2>4, <2>5 DEF ReadLine
<1>8. ASSUME NEW c \in Clients, Lock(c)
      PROVE  Typed'
  <2>1. mutex = None /\ mutex' = c /\ \A d \in Clients : thread[d] # "work"
    BY <1>8 DEF Lock, Free, RemoteAssumption
  <2> QED
    BY <1>8, <2>1 DEF Lock
<1>9. ASSUME NEW c \in Clients, process_request(c)
      PROVE  Typed'
  <2>1. PICK kind \in {"error", "poll", "data", "huge"} :
          answer' = [answer EXCEPT ![c] = Line(kind, line[c].n)]
    BY <1>9 DEF process_request
  <2>2. kind \in Kinds /\ line[c].n \in Nat
    BY <1>0, KindsNamed DEF Lines
  <2>3. Line(kind, line[c].n) \in Lines
    BY <2>2, LineTyped
  <2>4. answer' \in [Clients -> Lines]
    BY <2>1, <2>3
  <2>5. \/ performed' = performed
        \/ c \in Drivers /\ performed' = [performed EXCEPT ![c][line[c].n] = @ + 1]
    BY <1>9 DEF process_request, Perform
  <2>6. performed' \in [Drivers -> [1..MaxRequests -> Nat]]
    <3>1. CASE performed' = performed
      BY <3>1
    <3>2. CASE c \in Drivers /\ performed' = [performed EXCEPT ![c][line[c].n] = @ + 1]
      <4>1. performed[c] \in [1..MaxRequests -> Nat]
        BY <3>2
      <4> DEFINE k == line[c].n
                 f == performed[c]
                 g == [f EXCEPT ![k] = f[k] + 1]
      <4>2. performed' = [performed EXCEPT ![c] = g]
        BY <3>2
      <4> HIDE DEF k, f
      <4>3. g \in [1..MaxRequests -> Nat]
        <5> DEFINE m == f[k] + 1
        <5>0. f \in [1..MaxRequests -> Nat]
          BY <4>1 DEF f
        <5>1. k \in 1..MaxRequests => m \in Nat
          <6>1. \A i \in 1..MaxRequests : f[i] \in Nat
            BY <5>0
          <6> QED
            BY <6>1
        <5> HIDE DEF m
        <5>2. [f EXCEPT ![k] = m] \in [1..MaxRequests -> Nat]
          <6>1. CASE k \in 1..MaxRequests
            BY <5>0, <5>1, <6>1
          <6>2. CASE k \notin 1..MaxRequests
            BY <5>0, <6>2, [f EXCEPT ![k] = m] = [i \in 1..MaxRequests |-> f[i]]
          <6> QED
            BY <6>1, <6>2
        <5> QED
          BY <5>2 DEF m
      <4> HIDE DEF g
      <4> QED
        BY <4>2, <4>3
    <3> QED
      BY <2>5, <3>1, <3>2
  <2>7. /\ thread' \in [Clients -> {"none", "read", "lock", "work", "write", "last", "gone"}]
        /\ \A d \in Clients : thread'[d] # "work"
    <3>1. thread' = [thread EXCEPT ![c] = "write"] /\ thread[c] = "work"
      BY <1>9 DEF process_request
    <3>2. \A d \in Clients \ {c} : thread[d] # "work"
      BY <3>1
    <3> QED
      BY <3>1, <3>2
  <2>8. mutex' = None /\ huge' \in Nat
    BY <1>9 DEF process_request, Unlock
  <2> QED
    BY <1>9, <2>4, <2>6, <2>7, <2>8 DEF process_request
<1>10. ASSUME NEW c \in Clients, WriteAnswer(c)
       PROVE  Typed'
  <2>1. NoLine \in Lines
    BY LineTyped, KindsNamed DEF NoLine
  <2>2. down' \in [Clients -> Seq(Lines)]
    BY <1>10, AppendProperties DEF WriteAnswer
  <2> QED
    BY <1>10, <2>1, <2>2 DEF WriteAnswer
<1>11. CASE UNCHANGED remoteVars
  BY <1>11 DEF remoteVars
<1> QED
  BY <1>1, <1>1a, <1>2, <1>3, <1>4, <1>5, <1>6, <1>7, <1>8, <1>9, <1>10, <1>11
     DEF RemoteNext, ClientStep, ServerStep

-----------------------------------------------------------------------------
(* Every step keeps the request of a driver in its one place                *)

\* Connecting, leaving and a connection that breaks.
LEMMA ConnectionKeeps ==
    ASSUME Typed, NEW c \in Drivers, Inv(c), Connect(c) \/ Leave(c) \/ Cut(c)
    PROVE  Inv(c)'
<1>0. c \in Clients
  BY DEF Clients
<1> USE <1>0 DEF Typed
<1>1. CASE Connect(c)
  <2>1. /\ client[c] = "out" /\ client'[c] = "idle" /\ thread'[c] = "read"
        /\ UNCHANGED <<link, written, up, down, outcome, line, answer, performed>>
    BY <1>1 DEF Connect
  <2>2. NoLine.n = 0 /\ NoLine.kind = "none"
    BY DEF NoLine, Line
  <2> QED
    BY <2>1, <2>2 DEF Inv, RequestOf, WorkOf, CallOf, Busy, Lost
<1>2. CASE Leave(c)
  <2>1. /\ client'[c] = "closed" /\ down'[c] = <<>> /\ client[c] # "out"
        /\ UNCHANGED <<link, written, up, outcome, thread, line, answer, performed>>
    BY <1>2 DEF Leave
  <2> QED
    BY <2>1 DEF Inv, RequestOf, WorkOf, CallOf, Busy, Lost
<1>3. CASE Cut(c)
  <2>1. /\ link'[c] = "cut" /\ up'[c] = <<>> /\ client[c] # "out"
        /\ UNCHANGED <<client, written, outcome, thread, line, answer, performed>>
        /\ \E n \in 0..Len(down[c]) : down'[c] = SubSeq(down[c], 1, n)
    BY <1>3 DEF Cut
  <2>2. down'[c] = <<>> \/ down'[c] = down[c]
    <3>1. CASE down[c] = <<>>
      BY <2>1, <3>1, SubSeqEmpty
    <3>2. CASE down[c] # <<>>
      <4>1. PICK a : down[c] = <<a>>
        BY <3>2 DEF Inv, RequestOf
      <4>2. PICK n \in 0..1 : down'[c] = SubSeq(<<a>>, 1, n)
        BY <2>1, <4>1, OneLine
      <4> QED
        BY <4>1, <4>2, OneLine
    <3> QED
      BY <3>1, <3>2
  <2> QED
    BY <2>1, <2>2 DEF Inv, RequestOf, WorkOf, CallOf, Busy, Lost
<1> QED
  BY <1>1, <1>2, <1>3

\* A request is the first that is on its way, and the only one.
LEMMA ClientSendKeeps ==
    ASSUME RemoteAssumption, Typed, NEW c \in Drivers, Inv(c), NEW kind \in DriverKinds,
           send_request(c, kind)
    PROVE  Inv(c)'
<1> DEFINE new == Line(kind, written[c].n + 1)
<1>0. c \in Clients /\ written[c].n \in 0..MaxRequests /\ MaxRequests \in Nat
  BY DEF Clients, Inv, RequestOf, RemoteAssumption
<1>1. /\ written'[c] = new /\ client[c] = "idle" /\ client'[c] = "waiting"
      /\ written[c].n < MaxRequests
      /\ UNCHANGED <<link, down, outcome, thread, line, answer, performed>>
  BY <1>0 DEF send_request, Sends, Typed
<1>2. up[c] = <<>> /\ down[c] = <<>>
  BY <1>1 DEF Inv, CallOf
<1>3. \/ up'[c] = <<>>
      \/ up'[c] = <<new>> /\ thread[c] # "gone" /\ link[c] # "cut"
  BY <1>0, <1>1, <1>2, OneLine DEF send_request, Sends, Typed
<1>4. new.kind = kind /\ new.n = written[c].n + 1 /\ new.n \in 1..MaxRequests
  BY <1>0, <1>1 DEF Line
<1> HIDE DEF new
<1>5. thread[c] \in Busy => Lost(c) /\ client[c] # "closed"
  BY <1>1 DEF Inv, RequestOf
<1>6. thread[c] # "none" /\ (thread[c] \notin Busy /\ thread[c] # "gone" => thread[c] = "read")
  BY <1>0, <1>1 DEF Inv, CallOf, Typed, Busy
<1>7. link[c] = "up" \/ link[c] = "cut"
  BY <1>0 DEF Typed
<1>8. RequestOf(c)'
  <2>1. thread[c] \in Busy => link[c] = "cut"
    BY <1>5 DEF Lost
  <2>2. up'[c] # <<>> => up'[c] = <<written'[c]>> /\ thread[c] = "read" /\ link[c] = "up"
    BY <1>1, <1>3, <1>6, <1>7, <2>1
  <2>3. thread[c] \in Busy => /\ up'[c] = <<>> /\ line[c].kind \in DriverKinds
                              /\ line[c].n \in 1..written'[c].n
    <3>1. thread[c] \in Busy => line[c].n \in 1..written[c].n /\ line[c].kind \in DriverKinds
      BY DEF Inv, RequestOf
    <3> QED
      BY <1>0, <1>1, <1>3, <1>4, <2>1, <3>1
  <2> QED
    BY <1>1, <1>2, <1>4, <2>1, <2>2, <2>3 DEF RequestOf, Lost
<1>9. WorkOf(c)'
  BY <1>0, <1>1, <1>2, <1>3, <1>4 DEF Inv, WorkOf
<1>10. CallOf(c)'
  BY <1>1, <1>6 DEF CallOf
<1> QED
  BY <1>8, <1>9, <1>10 DEF Inv

\* The line a driver takes is the answer to its request.
LEMMA ReceiveKeeps ==
    ASSUME Typed, NEW c \in Drivers, Inv(c), ClientStep(c)
    PROVE  Inv(c)'
<1>0. c \in Clients
  BY DEF Clients
<1>1. CASE Receive(c)
  <2> DEFINE got == Head(down[c])
             res == Line(IF Decode(written[c], got) THEN "Ok" ELSE "Err", got.n)
  <2>1. /\ client[c] = "waiting" /\ down[c] # <<>> /\ client'[c] = "idle"
        /\ outcome'[c] = res
        /\ down'[c] = IF got.kind = "huge" THEN <<Line("rest", got.n)>> \o Tail(down[c])
                      ELSE Tail(down[c])
        /\ UNCHANGED <<link, written, up, thread, line, answer, performed>>
    BY <1>0, <1>1 DEF Receive, Return, Typed
  <2>2. PICK a : down[c] = <<a>> /\ a.n = written[c].n /\ a.kind \in Replies \cup {"error"}
    BY <2>1 DEF Inv, RequestOf
  <2>3. got = a /\ Tail(down[c]) = <<>> /\ down[c][1] = a
    BY <2>2, OneLine
  <2>4. res.n = written[c].n /\ (res.kind = "Ok" => a.kind \in Replies)
    BY <2>2, <2>3 DEF Line, Decode, Replies
  <2> HIDE DEF got, res
  <2>5. down'[c] = <<>>
    BY <2>1, <2>2, <2>3 DEF Replies
  <2>6. up[c] = <<>> /\ thread[c] \in {"read", "gone"}
    BY <2>1 DEF Inv, RequestOf
  <2>7. written[c].n \in 0..MaxRequests /\ (res.kind = "Ok" => performed[c][written[c].n] = 1)
    BY <2>1, <2>3, <2>4 DEF Inv, WorkOf, RequestOf
  <2>8. res.kind = "Ok" => written[c].n > 0
    BY <2>1, <2>2 DEF Inv, RequestOf
  <2> QED
    BY <2>1, <2>4, <2>5, <2>6, <2>7, <2>8 DEF Inv, RequestOf, WorkOf, CallOf, Busy, Lost
<1>2. CASE ReceiveEnd(c)
  <2>1. /\ client[c] = "waiting" /\ down[c] = <<>> /\ client'[c] = "idle" /\ Ended(c)
        /\ outcome'[c] = Line("Err", written[c].n)
        /\ UNCHANGED <<link, written, up, down, thread, line, answer, performed>>
    BY <1>0, <1>2 DEF ReceiveEnd, Return, Typed
  <2>2. up[c] = <<>> /\ (thread[c] \in Busy => link[c] = "cut")
    BY <2>1 DEF Inv, RequestOf, Ended, Busy
  <2> QED
    BY <2>1, <2>2 DEF Inv, RequestOf, WorkOf, CallOf, Busy, Lost, Line
<1> QED
  BY <1>1, <1>2 DEF ClientStep

\* The thread takes the request off the connection.
LEMMA ReadKeeps ==
    ASSUME RemoteAssumption, Typed, NEW c \in Drivers, Inv(c), ReadLine(c)
    PROVE  Inv(c)'
<1>0. c \in Clients /\ written[c].n \in 0..MaxRequests
  BY DEF Clients, Inv, RequestOf
<1>1. /\ thread[c] = "read" /\ line'[c] = NextOf(c)
      /\ up'[c] = IF up[c] = <<>> THEN <<>> ELSE Tail(up[c])
      /\ UNCHANGED <<link, client, written, down, outcome, performed>>
  BY <1>0 DEF ReadLine, Typed
<1>2. CASE up[c] = <<>>
  <2>1. NextOf(c).kind = "end"
    BY <1>2 DEF NextOf, Line
  <2>2. thread'[c] = "gone" /\ Lost(c) /\ up'[c] = <<>>
    BY <1>0, <1>1, <1>2, <2>1 DEF ReadLine, Typed, DriverKinds
  <2> QED
    BY <1>1, <1>2, <2>2 DEF Inv, RequestOf, WorkOf, CallOf, Busy, Lost
<1>3. CASE up[c] # <<>>
  <2>1. /\ up[c] = <<written[c]>> /\ written[c].kind \in DriverKinds /\ written[c].n > 0
        /\ client[c] \in {"waiting", "closed"} /\ down[c] = <<>> /\ performed[c][written[c].n] = 0
    BY <1>3 DEF Inv, RequestOf, WorkOf
  <2>2. NextOf(c) = written[c] /\ up'[c] = <<>>
    BY <1>1, <1>3, <2>1, OneLine DEF NextOf
  <2>3. thread'[c] = "lock"
    BY <1>0, <2>1, <2>2 DEF ReadLine, Typed, DriverKinds
  <2>4. line'[c].n \in 1..written'[c].n
    BY <1>0, <1>1, <2>1, <2>2
  <2> QED
    BY <1>1, <2>1, <2>2, <2>3, <2>4 DEF Inv, RequestOf, WorkOf, CallOf, Busy, Lost
<1> QED
  BY <1>2, <1>3

\* The reader does the request the thread holds, which it has not done before.
LEMMA ProcessKeeps ==
    ASSUME RemoteAssumption, Typed, NEW c \in Drivers, Inv(c), process_request(c), huge' = huge
    PROVE  Inv(c)'
<1> DEFINE n == line[c].n
           p == performed[c]
<1>0. /\ c \in Clients /\ written[c].n \in 0..MaxRequests /\ MaxRequests \in Nat /\ huge \in Nat
      /\ p \in [1..MaxRequests -> Nat]
  BY DEF Clients, Inv, RequestOf, RemoteAssumption, Typed
<1>1. /\ thread[c] = "work" /\ thread'[c] = "write"
      /\ UNCHANGED <<link, client, written, up, down, outcome, line>>
  BY <1>0 DEF process_request, Typed
<1>2. /\ up[c] = <<>> /\ down[c] = <<>> /\ n \in 1..written[c].n /\ line[c].kind \in DriverKinds
      /\ p[n] = 0 /\ client[c] # "out"
      /\ client[c] = "idle" => Lost(c)
  BY <1>1 DEF Inv, RequestOf, WorkOf, CallOf, Busy
<1>3. PICK kind \in {"error", "poll", "data"} : answer' = [answer EXCEPT ![c] = Line(kind, n)]
  <2>1. PICK kind \in {"error", "poll", "data", "huge"} :
          /\ huge' = IF kind = "huge" THEN huge + 1 ELSE huge
          /\ answer' = [answer EXCEPT ![c] = Line(kind, n)]
    BY DEF process_request
  <2>2. kind # "huge"
    BY <1>0, <2>1
  <2> QED
    BY <2>1, <2>2
<1>4. performed' = [performed EXCEPT ![c][n] = @ + 1]
  BY <1>2 DEF process_request, Perform, DriverKinds
<1>5. n \in 1..MaxRequests
  BY <1>0, <1>2
<1>6. performed'[c] = [p EXCEPT ![n] = p[n] + 1]
  BY <1>0, <1>4 DEF Typed
<1>7. answer'[c].n = n /\ answer'[c].kind = kind
  BY <1>0, <1>3 DEF Typed, Line
<1> HIDE DEF n, p
<1>8. /\ performed'[c][n] = 1
      /\ \A k \in 1..MaxRequests : k # n => performed'[c][k] = p[k]
  BY <1>0, <1>2, <1>5, <1>6
<1>9. RequestOf(c)'
  BY <1>1 DEF Inv, RequestOf, Busy, Lost
<1>10. WorkOf(c)'
  <2>1. \A k \in 1..MaxRequests :
          performed'[c][k] \in {0, 1} /\ (k > written'[c].n => performed'[c][k] = 0)
    BY <1>0, <1>1, <1>2, <1>8 DEF Inv, WorkOf, p
  <2>2. line'[c].n = n
    BY <1>1 DEF n
  <2> QED
    BY <1>1, <1>2, <1>7, <1>8, <2>1, <2>2 DEF WorkOf, Replies
<1>11. CallOf(c)'
  <2>1. client[c] = "idle" /\ outcome[c].kind = "Ok" => written[c].n > 0 /\ performed'[c][written[c].n] = 1
    BY <1>0, <1>8 DEF Inv, CallOf, p
  <2> QED
    BY <1>1, <1>2, <2>1 DEF Inv, CallOf
<1> QED
  BY <1>9, <1>10, <1>11 DEF Inv

\* The answer goes to the caller that waits for it, or nowhere.
LEMMA WriteKeeps ==
    ASSUME Typed, NEW c \in Drivers, Inv(c), WriteAnswer(c)
    PROVE  Inv(c)'
<1>1. c \in Clients
  BY DEF Clients
<1>2. /\ thread[c] \in {"write", "last"} /\ thread'[c] \in {"gone", "read"}
      /\ UNCHANGED <<link, client, written, up, outcome, performed>>
      /\ \/ down'[c] = down[c]
         \/ ~Lost(c) /\ down'[c] = Append(down[c], answer[c])
  BY <1>1 DEF WriteAnswer, Typed
<1>3. /\ up[c] = <<>> /\ down[c] = <<>> /\ line[c].n \in 1..written[c].n
      /\ ~Lost(c) => client[c] = "waiting" /\ line[c].n = written[c].n
      /\ answer[c].n = line[c].n /\ answer[c].kind \in Replies \cup {"error"}
      /\ answer[c].kind \in Replies => performed[c][line[c].n] = 1
  BY <1>2 DEF Inv, RequestOf, WorkOf, Busy
<1>4. \/ down'[c] = <<>>
      \/ ~Lost(c) /\ down'[c] = <<answer[c]>>
  BY <1>2, <1>3, OneLine
<1>5. CASE down'[c] = <<>>
  BY <1>2, <1>3, <1>5 DEF Inv, RequestOf, WorkOf, CallOf, Busy, Lost
<1>6. CASE ~Lost(c) /\ down'[c] = <<answer[c]>>
  <2>1. down'[c][1] = answer[c] /\ written[c].n > 0 /\ answer[c].n = written[c].n
    BY <1>3, <1>6, OneLine
  <2>2. RequestOf(c)'
    BY <1>2, <1>3, <1>6, <2>1 DEF Inv, RequestOf, Busy, Lost
  <2>3. WorkOf(c)'
    BY <1>2, <1>3, <1>6, <2>1 DEF Inv, WorkOf
  <2>4. CallOf(c)'
    BY <1>2, <1>3, <1>6 DEF Inv, CallOf
  <2> QED
    BY <2>2, <2>3, <2>4 DEF Inv
<1> QED
  BY <1>4, <1>5, <1>6

\* No request is done twice, and a driver's call returns the answer to its own
\* request, for any clients, requests and cut connections, as long as no answer is
\* longer than a line may be.
THEOREM RequestsAreDoneOnce ==
    ASSUME RemoteAssumption
    PROVE  RemoteSpec => []RequestIsDoneOnce
<1>1. RemoteInit => Typed
  <2>1. NoLine \in Lines
    BY LineTyped, KindsNamed DEF NoLine
  <2> QED
    BY <2>1 DEF RemoteInit, Typed, RemoteAssumption
<1>2. RemoteInit => DriverInv
  <2>1. NoLine.n = 0 /\ NoLine.kind = "none"
    BY DEF NoLine, Line
  <2> SUFFICES ASSUME RemoteInit, NEW c \in Drivers PROVE Inv(c)
    BY DEF DriverInv
  <2>2. /\ c \in Clients /\ MaxRequests \in Nat
        /\ client[c] = "out" /\ thread[c] = "none" /\ written[c] = NoLine /\ outcome[c] = NoLine
        /\ up[c] = <<>> /\ down[c] = <<>> /\ \A n \in 1..MaxRequests : performed[c][n] = 0
    BY DEF RemoteInit, Clients, RemoteAssumption
  <2>3. RequestOf(c)
    BY <2>1, <2>2 DEF RequestOf, Busy
  <2>4. WorkOf(c)
    BY <2>1, <2>2 DEF WorkOf
  <2>5. CallOf(c)
    BY <2>2 DEF CallOf
  <2> QED
    BY <2>3, <2>4, <2>5 DEF Inv
<1>3. Typed /\ [RemoteNext]_remoteVars => Typed'
  BY TypesKept
<1>4. Typed /\ DriverInv /\ [RemoteNext]_remoteVars => DriverInv'
  <2> SUFFICES ASSUME Typed, DriverInv, [RemoteNext]_remoteVars, huge' = 0, NEW d \in Drivers PROVE Inv(d)'
    BY DEF DriverInv
  <2>1. CASE UNCHANGED remoteVars
    BY <2>1, SameKeeps DEF remoteVars, DriverInv, Same
  <2>2. CASE RemoteNext
    <3>1. huge = 0
      BY <2>2 DEF RemoteNext, Connect, Leave, Cut, send_request, Write, ClientStep, Receive, ReceiveEnd,
                  ServerStep, ReadLine, Lock, process_request, WriteAnswer, Typed
    <3>2. Inv(d)
      BY <3>1 DEF DriverInv
    <3>3. PICK c \in Clients :
            \/ Connect(c) \/ Leave(c) \/ Cut(c)
            \/ \E kind \in DriverKinds : send_request(c, kind)
            \/ \E kind \in OtherKinds : Write(c, kind)
            \/ ClientStep(c) \/ ServerStep(c)
      BY <2>2 DEF RemoteNext
    <3>4. CASE c # d
      BY <3>2, <3>3, <3>4, StepSame, SameKeeps
    <3>5. CASE c = d
      <4>1. d \in Clients /\ d \notin Others
        BY DEF Clients, RemoteAssumption
      <4>2. CASE Lock(d)
        <5>1. /\ thread[d] = "lock" /\ thread'[d] = "work"
              /\ UNCHANGED <<link, client, written, up, down, outcome, line, answer, performed>>
          BY <4>1, <4>2 DEF Lock, Typed
        <5> QED
          BY <3>2, <5>1 DEF Inv, RequestOf, WorkOf, CallOf, Busy, Lost
      <4>3. CASE process_request(d)
        BY <3>1, <3>2, <4>3, ProcessKeeps
      <4>4. ASSUME NEW kind, Write(d, kind) PROVE FALSE
        BY <4>1, <4>4 DEF Write
      <4> QED
        BY <3>2, <3>3, <3>5, <4>2, <4>3, <4>4, ConnectionKeeps, ClientSendKeeps, ReceiveKeeps, ReadKeeps,
           WriteKeeps DEF ServerStep
    <3> QED
      BY <3>4, <3>5
  <2> QED
    BY <2>1, <2>2
<1>5. Typed /\ DriverInv => RequestIsDoneOnce
  <2> SUFFICES ASSUME Typed, DriverInv PROVE RequestIsDoneOnce
    OBVIOUS
  <2>1. RemoteTypeOK
    BY DEF Typed, RemoteTypeOK
  <2>2. huge = 0 => AnswerIsOwn
    BY DEF DriverInv, Inv, CallOf, AnswerIsOwn
  <2>3. huge = 0 => DoneOnce
    <3>1. ASSUME huge = 0, NEW c \in Drivers
          PROVE  /\ \A n \in 1..MaxRequests : performed[c][n] <= 1
                 /\ client[c] = "idle" /\ outcome[c].kind = "Ok" => performed[c][written[c].n] = 1
      <4>1. WorkOf(c) /\ CallOf(c)
        BY <3>1 DEF DriverInv, Inv
      <4>2. \A n \in 1..MaxRequests : performed[c][n] <= 1
        BY <4>1 DEF WorkOf
      <4> QED
        BY <4>1, <4>2 DEF CallOf
    <3> QED
      BY <3>1 DEF DoneOnce
  <2> QED
    BY <2>1, <2>2, <2>3 DEF RequestIsDoneOnce
<1> QED
  BY <1>1, <1>2, <1>3, <1>4, <1>5, PTL DEF RemoteSpec
==============================================================================
