---------------------------- MODULE IsoDep_proofs ----------------------------
(***************************************************************************)
(* Proofs about module IsoDep: for any payloads and answers, any link      *)
(* parameters, cards that cut their answers as they like, and any number   *)
(* of refusals, waiting time extensions, lost and repeated replies.        *)
(***************************************************************************)
EXTENDS IsoDep, SequenceTheorems, TLAPS

-----------------------------------------------------------------------------
(* Payloads cut into blocks                                                 *)

LEMMA SizesAreIntegers ==
    ASSUME NEW c \in Config
    PROVE  max_inf_len_pcd(c) \in Int /\ max_inf_len_picc(c) \in Int
<1>1. ASSUME NEW i \in 0..255 PROVE MaxInf(i, c) \in Int
  <2>1. AtMost(i, 8) + 1 \in 1..9
    BY DEF AtMost
  <2>2. \A k \in 1..9 : ISO_DEP_FRAME_SIZE_TABLE[k] \in Int
    BY DEF ISO_DEP_FRAME_SIZE_TABLE
  <2>3. block_header_len(c) \in Int
    BY DEF block_header_len
  <2> QED
    BY <2>1, <2>2, <2>3 DEF MaxInf
<1>2. c.fsdi \in 0..255 /\ c.fsci \in 0..255
  BY DEF Config
<1> QED
  BY <1>1, <1>2 DEF max_inf_len_pcd, max_inf_len_picc

LEMMA ParametersStay ==
    ASSUME NEW c \in Config, NEW ifs \in Int
    PROVE  update_pcd_ifs(c, ifs) \in Config
<1>1. PICK bytes : bytes = AtLeast(ifs, 16)
  OBVIOUS
<1> DEFINE fits == {i \in 0..ISO_DEP_MAX_FSDI : ISO_DEP_FRAME_SIZE_TABLE[i + 1] >= bytes}
<1>2. fits \subseteq 0..8
  BY DEF ISO_DEP_MAX_FSDI
<1>3. ASSUME fits # {} PROVE \E i \in fits : \A j \in fits : i <= j
  <2> HIDE DEF fits
  <2>1. PICK m \in fits : TRUE
    BY <1>3
  <2>2. CASE \E i \in 0..8 : i \in fits /\ \A j \in 0..8 : j < i => j \notin fits
    BY <1>2, <2>2
  <2>3. CASE \A i \in 0..8 : i \in fits => \E j \in 0..8 : j < i /\ j \in fits
    <3>1. 0 \notin fits
      BY <2>3
    <3>2. 1 \notin fits
      BY <2>3, <3>1
    <3>3. 2 \notin fits
      BY <2>3, <3>1, <3>2
    <3>4. 3 \notin fits
      BY <2>3, <3>1, <3>2, <3>3
    <3>5. 4 \notin fits
      BY <2>3, <3>1, <3>2, <3>3, <3>4
    <3>6. 5 \notin fits
      BY <2>3, <3>1, <3>2, <3>3, <3>4, <3>5
    <3>7. 6 \notin fits
      BY <2>3, <3>1, <3>2, <3>3, <3>4, <3>5, <3>6
    <3>8. 7 \notin fits
      BY <2>3, <3>1, <3>2, <3>3, <3>4, <3>5, <3>6, <3>7
    <3>9. 8 \notin fits
      BY <2>3, <3>1, <3>2, <3>3, <3>4, <3>5, <3>6, <3>7, <3>8
    <3> QED
      BY <1>2, <2>1, <3>1, <3>2, <3>3, <3>4, <3>5, <3>6, <3>7, <3>8, <3>9
  <2> QED
    BY <2>2, <2>3
<1>4. bytes_to_fdsi(bytes) \in 0..8
  <2> DEFINE least == CHOOSE i \in fits : \A j \in fits : i <= j
  <2>1. fits # {} => least \in fits
    BY <1>3
  <2>2. bytes_to_fdsi(bytes) = IF fits = {} THEN 8 ELSE least
    BY DEF bytes_to_fdsi, ISO_DEP_MAX_FSDI
  <2> HIDE DEF least, fits
  <2>3. CASE fits = {}
    BY <2>2, <2>3
  <2>4. CASE fits # {}
    <3>1. least \in 0..8
      BY <1>2, <2>1, <2>4
    <3> QED
      BY <2>2, <2>4, <3>1
  <2> QED
    BY <2>3, <2>4
<1>5. PICK n \in 0..255 : n = bytes_to_fdsi(bytes)
  BY <1>4
<1>6. update_pcd_ifs(c, ifs) = [c EXCEPT !.fsdi = n]
  BY <1>1, <1>5 DEF update_pcd_ifs
<1> QED
  BY <1>6 DEF Config

\* A block is never longer than what is left, and empty only when nothing is.
LEMMA ChunkFits ==
    ASSUME NEW id \in Nat, NEW offset \in Nat, NEW length \in Nat, offset <= length, NEW max_inf \in Int
    PROVE  /\ Chunk(id, offset, length, max_inf) \in Slices
           /\ Chunk(id, offset, length, max_inf).id = id
           /\ Chunk(id, offset, length, max_inf).from = offset
           /\ offset <= Chunk(id, offset, length, max_inf).to
           /\ Chunk(id, offset, length, max_inf).to <= length
           /\ offset < length => offset < Chunk(id, offset, length, max_inf).to
<1>1. PICK to \in Nat : to = offset + AtMost(length - offset, AtLeast(max_inf, 1))
  BY DEF AtMost, AtLeast
<1>2. to <= length /\ offset <= to /\ (offset < length => offset < to)
  BY <1>1 DEF AtMost, AtLeast
<1>3. Chunk(id, offset, length, max_inf) = [id |-> id, from |-> offset, to |-> to]
  BY <1>1 DEF Chunk, Slice
<1> QED
  BY <1>2, <1>3 DEF Slices

\* The I-block that starts at offset: it goes on there, makes progress if there is
\* something left, ends within the payload, and says whether more follows.
FrameOf(f, tx, id, offset, length, chaining) ==
    /\ f \in Blocks /\ f.type = "I" /\ f.number = tx
    /\ f.inf \in Slices /\ f.inf.id = id /\ f.inf.from = offset
    /\ f.inf.to \in Nat /\ offset <= f.inf.to /\ f.inf.to <= length
    /\ offset < length => offset < f.inf.to
    /\ f.chaining = (f.inf.to < length \/ chaining)

LEMMA FrameIs ==
    ASSUME NEW tx \in 0..1, NEW id \in Nat, NEW offset \in Nat, NEW length \in Nat, offset <= length,
           NEW max_inf \in Int, NEW chaining \in BOOLEAN, NEW f,
           f = next_iso_dep_i_frame(tx, id, offset, length, max_inf, chaining)
    PROVE  FrameOf(f, tx, id, offset, length, chaining)
<1>1. PICK inf \in Slices :
          /\ inf = Chunk(id, offset, length, max_inf) /\ inf.id = id /\ inf.from = offset
          /\ offset <= inf.to /\ inf.to <= length /\ (offset < length => offset < inf.to)
  BY ONLY ChunkFits, id \in Nat, offset \in Nat, length \in Nat, offset <= length, max_inf \in Int
<1>2. inf.to \in Nat
  BY DEF Slices
<1>3. PICK more \in BOOLEAN : more = (inf.to < length \/ chaining)
  OBVIOUS
<1>4. f = [type |-> "I", number |-> tx, chaining |-> more, inf |-> inf]
  BY <1>1, <1>3 DEF next_iso_dep_i_frame, IBlock
<1>5. f \in Blocks
  BY <1>4 DEF Blocks
<1> QED
  BY <1>1, <1>2, <1>3, <1>4, <1>5 DEF FrameOf

\* A payload that goes on where it ended.
LEMMA WholeStarts ==
    ASSUME NEW s \in Slices, s.from = 0
    PROVE  Whole(<<s>>, s.id, s.to)
BY DEF Whole, Slices

LEMMA WholeGoesOn ==
    ASSUME NEW q \in Seq(Slices), NEW s \in Slices, NEW id, NEW n, Whole(q, id, n),
           s.id = id, s.from = n
    PROVE  Whole(Append(q, s), id, s.to)
<1>1. PICK p : p = Append(q, s)
  OBVIOUS
<1>2. Len(q) \in Nat /\ Len(q) > 0
  BY EmptySeq DEF Whole
<1>3. /\ Len(p) = Len(q) + 1 /\ p[Len(q) + 1] = s
      /\ \A i \in 1..Len(q) : p[i] = q[i]
      /\ p \in Seq(Slices)
  BY <1>1
<1>4. \A i \in 1..Len(p) : p[i].id = id
  BY <1>2, <1>3 DEF Whole
<1>5. \A i \in 1..(Len(p) - 1) : p[i].to = p[i + 1].from
  <2> TAKE i \in 1..(Len(p) - 1)
  <2>1. CASE i < Len(q)
    BY <1>2, <1>3, <2>1 DEF Whole
  <2>2. CASE i = Len(q)
    BY <1>2, <1>3, <2>2 DEF Whole
  <2> QED
    BY <1>2, <1>3, <2>1, <2>2
<1> QED
  BY <1>1, <1>2, <1>3, <1>4, <1>5 DEF Whole

\* The blocks q end with the payload id up to n, and no earlier one is of it.
Ends(q, id, n) ==
    \E k \in DOMAIN q :
        /\ Whole(SubSeq(q, k, Len(q)), id, n)
        /\ \A i \in 1..(k - 1) : q[i].id # id

LEMMA EndsStarts ==
    ASSUME NEW q \in Seq(Slices), NEW s \in Slices, s.from = 0, \A i \in DOMAIN q : q[i].id # s.id
    PROVE  Ends(Append(q, s), s.id, s.to)
<1>1. PICK p : p = Append(q, s)
  OBVIOUS
<1>2. /\ p \in Seq(Slices) /\ Len(q) \in Nat /\ Len(p) = Len(q) + 1 /\ p[Len(q) + 1] = s
      /\ \A i \in 1..Len(q) : p[i] = q[i]
  BY <1>1
<1>3. PICK k : k = Len(p)
  OBVIOUS
<1>4. k \in DOMAIN p /\ k \in Nat /\ k = Len(q) + 1
  BY <1>2, <1>3
<1>5. SubSeq(p, k, Len(p)) = <<s>>
  <2>1. PICK u : u = SubSeq(p, k, Len(p))
    OBVIOUS
  <2>2. u \in Seq(Slices) /\ Len(u) = 1 /\ \A i \in 1..1 : u[i] = p[k + i - 1]
    BY <1>2, <1>3, <1>4, <2>1, SubSeqProperties
  <2>3. u[1] = s
    BY <1>2, <1>4, <2>2
  <2>4. <<s>> \in Seq(Slices) /\ Len(<<s>>) = 1 /\ <<s>>[1] = s
    OBVIOUS
  <2>5. u = <<s>>
    BY <2>2, <2>3, <2>4, SeqEqual
  <2> QED
    BY <2>1, <2>5
<1>6. \A i \in 1..(k - 1) : p[i].id # s.id
  BY <1>2, <1>4
<1>7. Whole(<<s>>, s.id, s.to)
  BY WholeStarts
<1> QED
  BY <1>1, <1>3, <1>4, <1>5, <1>6, <1>7 DEF Ends

LEMMA EndsGoesOn ==
    ASSUME NEW q \in Seq(Slices), NEW s \in Slices, NEW id, NEW n, Ends(q, id, n), s.id = id, s.from = n
    PROVE  Ends(Append(q, s), id, s.to)
<1>1. PICK p : p = Append(q, s)
  OBVIOUS
<1>2. /\ p \in Seq(Slices) /\ Len(q) \in Nat /\ Len(p) = Len(q) + 1 /\ p[Len(q) + 1] = s
      /\ \A i \in 1..Len(q) : p[i] = q[i]
  BY <1>1
<1>3. PICK k \in DOMAIN q :
        /\ Whole(SubSeq(q, k, Len(q)), id, n)
        /\ \A i \in 1..(k - 1) : q[i].id # id
  BY DEF Ends
<1>4. k \in 1..Len(q) /\ k \in DOMAIN p
  BY <1>2, <1>3
<1>5. PICK t : t = SubSeq(q, k, Len(q))
  OBVIOUS
<1>6. t \in Seq(Slices) /\ Len(t) = Len(q) - k + 1 /\ \A i \in 1..Len(t) : t[i] = q[k + i - 1]
  BY <1>2, <1>4, <1>5, SubSeqProperties
<1>7. SubSeq(p, k, Len(p)) = Append(t, s)
  <2>1. PICK u : u = SubSeq(p, k, Len(p))
    OBVIOUS
  <2>2. u \in Seq(Slices) /\ Len(u) = Len(q) - k + 2 /\ \A i \in 1..Len(u) : u[i] = p[k + i - 1]
    BY <1>2, <1>4, <2>1, SubSeqProperties
  <2>3. PICK v : v = Append(t, s)
    OBVIOUS
  <2>4. /\ v \in Seq(Slices) /\ Len(v) = Len(q) - k + 2 /\ v[Len(t) + 1] = s
        /\ \A i \in 1..Len(t) : v[i] = t[i]
    <3>1. Len(t) \in Nat /\ Len(t) + 1 = Len(q) - k + 2
      BY <1>2, <1>4, <1>6
    <3> QED
      BY <1>6, <2>3, <3>1, AppendProperties
  <2>5. \A i \in 1..Len(u) : u[i] = v[i]
    <3> TAKE i \in 1..Len(u)
    <3>0. i \in Nat /\ k \in Nat /\ Len(t) \in Nat /\ u[i] = p[k + i - 1]
      BY <1>2, <1>4, <1>6, <2>2
    <3>1. CASE i <= Len(t)
      <4>1. k + i - 1 \in 1..Len(q) /\ i \in 1..Len(t)
        BY <1>2, <1>4, <1>6, <2>2, <3>0, <3>1
      <4> QED
        BY <1>2, <1>6, <2>4, <3>0, <4>1
    <3>2. CASE i = Len(t) + 1
      <4>1. k + i - 1 = Len(q) + 1
        BY <1>2, <1>4, <1>6, <3>0, <3>2
      <4> QED
        BY <1>2, <2>4, <3>0, <3>2, <4>1
    <3> QED
      BY <1>2, <1>4, <1>6, <2>2, <3>1, <3>2
  <2>6. u = v
    BY <2>2, <2>4, <2>5, SeqEqual
  <2> QED
    BY <2>1, <2>3, <2>6
<1>8. Whole(Append(t, s), id, s.to)
  BY <1>3, <1>5, <1>6, WholeGoesOn
<1>9. \A i \in 1..(k - 1) : p[i].id # id
  BY <1>2, <1>3, <1>4
<1> QED
  BY <1>1, <1>4, <1>7, <1>8, <1>9 DEF Ends

-----------------------------------------------------------------------------
(* Types                                                                    *)

LEMMA BlocksAre ==
    /\ NoBlock \in Blocks
    /\ \A n \in 0..1, ack \in BOOLEAN : RBlock(n, ack) \in Blocks
    /\ \A code \in {"WTX", "IFS", "DESELECT"}, v \in Int : SBlock(code, v) \in Blocks
    /\ \A b \in Blocks \cup {Timeout, Garbled} :
         /\ b.type = "I" => b \in Blocks /\ b.number \in 0..1 /\ b.chaining \in BOOLEAN /\ b.inf \in Slices
         /\ b.type = "R" => b \in Blocks /\ b.number \in 0..1 /\ b.ack \in BOOLEAN
         /\ b.type = "S" => b \in Blocks /\ b.value \in Int
<1>1. NoBlock \in Blocks
  BY DEF Blocks
<1>2. \A n \in 0..1, ack \in BOOLEAN : RBlock(n, ack) \in Blocks
  BY DEF Blocks, RBlock
<1>3. \A code \in {"WTX", "IFS", "DESELECT"}, v \in Int : SBlock(code, v) \in Blocks
  BY DEF Blocks, SBlock
<1>4. ASSUME NEW b \in Blocks \cup {Timeout, Garbled}
      PROVE  /\ b.type = "I" => b \in Blocks /\ b.number \in 0..1 /\ b.chaining \in BOOLEAN /\ b.inf \in Slices
             /\ b.type = "R" => b \in Blocks /\ b.number \in 0..1 /\ b.ack \in BOOLEAN
             /\ b.type = "S" => b \in Blocks /\ b.value \in Int
  BY DEF Blocks, NoBlock, Timeout, Garbled
<1> QED
  BY <1>1, <1>2, <1>3, <1>4

\* What the card is in the middle of does not go beyond its answer.
CardKnows == card.last.type = "I" /\ card.last.chaining => card.last.inf.to < card.length

\* The types of the parts that a step sets.
Sessions == [tx : 0..1, picc : 0..1, config : Config, negotiated : BOOLEAN]
Exchanges ==
    [id : Nat, length : Nat, chaining : BOOLEAN, offset : Nat, sent_empty : BOOLEAN,
     frame : Blocks, wtx : Nat, multiplier : 1..ISO_DEP_WTXM_MAX, naks : 0..255,
     max_picc : Int, got : Seq(Slices)]
Cards ==
    [expect : 0..1, ns : 0..1, own : 0..1, last : Blocks, open : BOOLEAN,
     taken : Seq(Slices), id : Nat, length : Nat]
Outcomes == [ok : BOOLEAN, id : Nat, length : Nat, chaining : BOOLEAN, got : Seq(Slices)]

Typed == IsoDepTypeOK /\ CardKnows

LEMMA TypedIs ==
    ASSUME Typed
    PROVE  /\ session \in Sessions /\ held \in {"none", "device", "exchange"} /\ protocol \in BOOLEAN
           /\ exchange \in Exchanges /\ exchange.offset <= exchange.length
           /\ phase \in {"idle", "ifs", "loop", "ifs reply", "deselect"}
           /\ air \in Blocks /\ reply \in Blocks \cup {Timeout, Garbled}
           /\ card \in Cards /\ CardKnows /\ outcome \in Outcomes
           /\ count \in 0..MaxExchanges /\ faults \in 0..MaxLosses /\ clean \in BOOLEAN
BY DEF Typed, IsoDepTypeOK, Sessions, Exchanges, Cards, Outcomes

LEMMA TypedNext ==
    ASSUME session' \in Sessions, held' \in {"none", "device", "exchange"}, protocol' \in BOOLEAN,
           exchange' \in Exchanges, exchange'.offset <= exchange'.length,
           phase' \in {"idle", "ifs", "loop", "ifs reply", "deselect"},
           air' \in Blocks, reply' \in Blocks \cup {Timeout, Garbled},
           card' \in Cards, CardKnows', outcome' \in Outcomes,
           count' \in 0..MaxExchanges, faults' \in 0..MaxLosses, clean' \in BOOLEAN
    PROVE  Typed'
BY DEF Typed, IsoDepTypeOK, Sessions, Exchanges, Cards, Outcomes

\* The parts that a step may set.
LEMMA ConstantsAreTyped ==
    ASSUME IsoDepAssumption
    PROVE  /\ None \in Outcomes /\ FreshCard \in Cards /\ FreshCard.last.type = "none"
           /\ NoExchange \in Exchanges /\ NoExchange.offset = NoExchange.length
           /\ \A c \in Configs : [tx |-> 0, picc |-> 0, config |-> c, negotiated |-> FALSE] \in Sessions
<1>1. <<>> \in Seq(Slices)
  OBVIOUS
<1>2. NoBlock \in Blocks /\ NoBlock.type = "none"
  BY BlocksAre DEF NoBlock
<1>3. None \in Outcomes
  BY <1>1 DEF None, Outcomes
<1>4. FreshCard \in Cards /\ FreshCard.last.type = "none"
  BY <1>1, <1>2 DEF FreshCard, Cards
<1>5. NoExchange \in Exchanges /\ NoExchange.offset = NoExchange.length
  BY <1>1, <1>2 DEF NoExchange, Exchanges, ISO_DEP_WTXM_MAX
<1>6. \A c \in Configs : [tx |-> 0, picc |-> 0, config |-> c, negotiated |-> FALSE] \in Sessions
  BY DEF IsoDepAssumption, Sessions
<1> QED
  BY <1>3, <1>4, <1>5, <1>6

\* Sending, failing and finishing keep the types.
LEMMA EndsAreTyped ==
    ASSUME IsoDepAssumption, Typed
    PROVE  /\ \A b \in Blocks, p \in {"ifs", "loop", "ifs reply", "deselect"} :
                Send(b, p) => air' \in Blocks /\ phase' = p /\ reply' \in Blocks
           /\ \A kept \in BOOLEAN : Fail(kept) =>
                /\ held' \in {"none", "device"} /\ phase' = "idle" /\ air' \in Blocks /\ reply' \in Blocks
                /\ outcome' \in Outcomes /\ clean' = FALSE
           /\ \A x \in Exchanges, got \in Seq(Slices) : Finish(x, got) =>
                /\ held' = "device" /\ phase' = "idle" /\ air' \in Blocks /\ reply' \in Blocks
                /\ outcome' \in Outcomes
<1>1. NoBlock \in Blocks /\ None \in Outcomes
  BY BlocksAre, ConstantsAreTyped
<1>2. \A b \in Blocks, p \in {"ifs", "loop", "ifs reply", "deselect"} :
        Send(b, p) => air' \in Blocks /\ phase' = p /\ reply' \in Blocks
  BY <1>1 DEF Send
<1>3. \A kept \in BOOLEAN : Fail(kept) =>
        /\ held' \in {"none", "device"} /\ phase' = "idle" /\ air' \in Blocks /\ reply' \in Blocks
        /\ outcome' \in Outcomes /\ clean' = FALSE
  BY <1>1 DEF Fail
<1>4. \A x \in Exchanges, got \in Seq(Slices) : Finish(x, got) =>
        /\ held' = "device" /\ phase' = "idle" /\ air' \in Blocks /\ reply' \in Blocks
        /\ outcome' \in Outcomes
  BY <1>1 DEF Finish, Exchanges, Outcomes
<1> QED
  BY <1>2, <1>3, <1>4

\* The application's steps.
LEMMA NewExchangeIs ==
    ASSUME NEW s \in Sessions, NEW id \in Nat, NEW length \in Nat, NEW chaining \in BOOLEAN, NEW x,
           x = NewExchange(s, id, length, chaining)
    PROVE  /\ x \in Exchanges /\ x.id = id /\ x.length = length /\ x.chaining = chaining
           /\ x.offset <= length /\ x.got = <<>> /\ (length = 0 => x.sent_empty)
           /\ x.frame.type = "I" /\ x.frame.number = s.tx /\ x.frame.inf.id = id
           /\ x.frame.inf.from = 0 /\ x.frame.inf.to = x.offset /\ (0 < x.offset \/ length = 0)
           /\ x.frame.chaining = (x.offset < length \/ chaining)
<1>1. s.tx \in 0..1 /\ s.config \in Config
  BY DEF Sessions
<1>2. max_inf_len_pcd(s.config) \in Int /\ max_inf_len_picc(s.config) \in Int
  BY <1>1, SizesAreIntegers
<1>3. PICK tx, m, f :
          /\ tx = s.tx /\ m = max_inf_len_pcd(s.config)
          /\ f = next_iso_dep_i_frame(tx, id, 0, length, m, chaining)
  BY <1>1, <1>2
<1>4. PICK o \in Nat : o = 0
  OBVIOUS
<1>5. /\ f \in Blocks /\ f.type = "I" /\ f.number = s.tx
      /\ f.inf \in Slices /\ f.inf.id = id /\ f.inf.from = 0
      /\ f.inf.to \in Nat /\ 0 <= f.inf.to /\ f.inf.to <= length
      /\ 0 < length => 0 < f.inf.to
      /\ f.chaining = (f.inf.to < length \/ chaining)
  <2>1. tx \in 0..1 /\ m \in Int /\ o <= length
    BY <1>1, <1>2, <1>3, <1>4
  <2>2. f = next_iso_dep_i_frame(tx, id, o, length, m, chaining)
    BY <1>3, <1>4
  <2>3. FrameOf(f, tx, id, o, length, chaining)
    BY ONLY <2>1, <2>2, FrameIs, id \in Nat, length \in Nat, chaining \in BOOLEAN, o \in Nat
  <2>4. FrameOf(f, s.tx, id, 0, length, chaining)
    BY <1>3, <1>4, <2>3
  <2> QED
    BY <2>4 DEF FrameOf
<1>6. PICK naks \in 0..255 : naks = AtLeast(s.config.max_retry_r_nak, 1)
  BY <1>1 DEF AtLeast, Config
<1>7. PICK empty \in BOOLEAN : empty = (length = 0)
  OBVIOUS
<1>8. PICK mp \in Int : mp = max_inf_len_picc(s.config)
  BY <1>2
<1>9. x = [id |-> id, length |-> length, chaining |-> chaining, offset |-> f.inf.to, sent_empty |-> empty,
           frame |-> f, wtx |-> 0, multiplier |-> 1, naks |-> naks, max_picc |-> mp, got |-> <<>>]
  BY <1>3, <1>6, <1>7, <1>8 DEF NewExchange
<1>10. /\ x.id = id /\ x.length = length /\ x.chaining = chaining /\ x.offset = f.inf.to
       /\ x.sent_empty = empty /\ x.frame = f /\ x.got = <<>>
  BY <1>9
<1>11. x \in Exchanges
  <2>1. <<>> \in Seq(Slices) /\ 1 \in 1..ISO_DEP_WTXM_MAX /\ 0 \in Nat /\ f.inf.to \in Nat /\ f \in Blocks
    BY <1>5 DEF ISO_DEP_WTXM_MAX
  <2> QED
    BY <1>9, <2>1 DEF Exchanges
<1>12. length = 0 => x.sent_empty
  BY <1>7, <1>10
<1>13. x.frame.chaining = (x.offset < length \/ chaining)
  <2>1. x.frame.chaining = f.chaining /\ (x.offset < length \/ chaining) = (f.inf.to < length \/ chaining)
    BY <1>10
  <2> QED
    BY <1>5, <2>1
<1>14. /\ x.frame.type = "I" /\ x.frame.number = s.tx /\ x.frame.inf.id = id
       /\ x.frame.inf.from = 0 /\ x.frame.inf.to = x.offset /\ (0 < x.offset \/ length = 0)
       /\ x.offset <= length
  BY <1>5, <1>10
<1> QED
  BY <1>10, <1>11, <1>12, <1>13, <1>14

LEMMA ApplicationIsTyped ==
    ASSUME IsoDepAssumption, Typed, Application
    PROVE  Typed'
<1>1. CASE start_iso_dep_session
  <2>1. /\ session' \in Sessions /\ card' = FreshCard /\ outcome' = None
        /\ held' = "device" /\ protocol' = TRUE /\ clean' = TRUE
        /\ UNCHANGED <<exchange, phase, air, reply, count, faults>>
    BY <1>1, ConstantsAreTyped DEF start_iso_dep_session
  <2>2. card' \in Cards /\ outcome' \in Outcomes /\ CardKnows'
    BY <2>1, ConstantsAreTyped DEF CardKnows
  <2> QED
    BY <2>1, <2>2, TypedIs, TypedNext
<1>2. CASE reset_iso_dep_session
  <2>1. session' \in Sessions
    <3>1. session \in Sessions /\ session' = [session EXCEPT !.tx = 0, !.picc = 0, !.negotiated = FALSE]
      BY <1>2, TypedIs DEF reset_iso_dep_session
    <3>2. PICK c \in Config : session' = [tx |-> 0, picc |-> 0, config |-> c, negotiated |-> FALSE]
      BY <3>1 DEF Sessions
    <3> QED
      BY <3>2 DEF Sessions
  <2> QED
    BY <1>2, <2>1, TypedIs, TypedNext DEF reset_iso_dep_session, CardKnows
<1>3. CASE end_iso_dep_session
  BY <1>3, TypedIs, TypedNext DEF end_iso_dep_session, CardKnows
<1>4. CASE iso_dep_exchange
  <2>1. count' \in 0..MaxExchanges /\ count + 1 \in Nat /\ count' = count + 1 /\ held' = "exchange"
        /\ UNCHANGED <<session, protocol, card, faults, clean>> /\ outcome' = None
    <3>1. count < MaxExchanges /\ count' = count + 1 /\ held' = "exchange"
          /\ UNCHANGED <<session, protocol, card, faults, clean>> /\ outcome' = None
      BY <1>4 DEF iso_dep_exchange
    <3>2. count \in 0..MaxExchanges /\ MaxExchanges \in Nat
      BY TypedIs DEF IsoDepAssumption
    <3> QED
      BY <3>1, <3>2
  <2>2. PICK length \in Lengths, chaining \in BOOLEAN :
          /\ exchange' = NewExchange(session, count + 1, length, chaining)
          /\ IF needs_ifs_request(session)
             THEN Send(SBlock("IFS", AtMost(max_inf_len_pcd(session.config), 254)), "ifs")
             ELSE Send(exchange'.frame, "loop")
    BY <1>4 DEF iso_dep_exchange
  <2>3. session \in Sessions /\ length \in Nat
    BY TypedIs DEF IsoDepAssumption
  <2>4. exchange' \in Exchanges /\ exchange'.offset <= exchange'.length
    BY <2>1, <2>2, <2>3, NewExchangeIs
  <2>5. exchange'.frame \in Blocks
    BY <2>4 DEF Exchanges
  <2>6. max_inf_len_pcd(session.config) \in Int
    BY <2>3, SizesAreIntegers DEF Sessions
  <2>7. SBlock("IFS", AtMost(max_inf_len_pcd(session.config), 254)) \in Blocks
    BY <2>6, BlocksAre DEF AtMost
  <2>8. air' \in Blocks /\ phase' \in {"ifs", "loop"} /\ reply' \in Blocks
    BY <2>2, <2>5, <2>7, EndsAreTyped
  <2>9. CardKnows' /\ outcome' \in Outcomes
    BY <2>1, ConstantsAreTyped DEF CardKnows, Typed
  <2> QED
    BY <2>1, <2>3, <2>4, <2>8, <2>9, TypedIs, TypedNext
<1> QED
  BY <1>1, <1>2, <1>3, <1>4 DEF Application

-----------------------------------------------------------------------------
(* The driver's steps                                                       *)

\* The session is in the device between exchanges, and nothing is on the air.
Kept ==
    /\ (held = "exchange") = (phase # "idle")
    /\ held # "none" => protocol
    /\ clean /\ phase = "idle" /\ protocol => held = "device"
    /\ phase = "idle" => air = NoBlock /\ reply = NoBlock

\* The exchange has failed.
Failed ==
    /\ held' \in {"none", "device"} /\ protocol' \in BOOLEAN /\ (held' = "device" => protocol')
    /\ phase' = "idle" /\ air' = NoBlock /\ reply' = NoBlock
    /\ outcome' = None /\ clean' = FALSE
    /\ session' \in Sessions /\ exchange' \in Exchanges /\ exchange'.offset <= exchange'.length
    /\ UNCHANGED <<card, count, faults>>

\* A block goes out, and the exchange is where it was.
SameProgress(x, y) ==
    /\ y.id = x.id /\ y.length = x.length /\ y.chaining = x.chaining /\ y.offset = x.offset
    /\ y.sent_empty = x.sent_empty /\ y.frame = x.frame /\ y.got = x.got

Fits(block, purpose) ==
    IF purpose = "loop"
    THEN \/ block = exchange.frame
         \/ block = RBlock(session.picc, TRUE)
         \/ block.type = "S" /\ block.code = "WTX"
    ELSE block.type = "S" /\ block.code # "WTX"

Resent ==
    /\ \E b \in Blocks, p \in {"ifs", "loop", "ifs reply", "deselect"} : Fits(b, p) /\ Send(b, p)
    /\ session' \in Sessions /\ session'.tx = session.tx /\ session'.picc = session.picc
    /\ exchange' \in Exchanges /\ SameProgress(exchange, exchange')
    /\ UNCHANGED <<held, protocol, card, outcome, count, faults, clean>>

LEMMA FailIs ==
    ASSUME NEW kept \in BOOLEAN, Fail(kept), kept => protocol', protocol' \in BOOLEAN,
           UNCHANGED <<card, count, faults>>, session' \in Sessions,
           exchange' \in Exchanges, exchange'.offset <= exchange'.length
    PROVE  Failed
BY DEF Fail, Failed

LEMMA ProgressIsReset ==
    ASSUME NEW x \in Exchanges, NEW y, y = reset_progress(x)
    PROVE  y \in Exchanges /\ SameProgress(x, y) /\ y.naks = x.naks
<1>1. 1 \in 1..ISO_DEP_WTXM_MAX /\ 0 \in Nat
  BY DEF ISO_DEP_WTXM_MAX
<1>2. y = [x EXCEPT !.wtx = 0, !.multiplier = 1]
  BY DEF reset_progress
<1> QED
  BY <1>1, <1>2 DEF Exchanges, SameProgress

LEMMA BudgetIsSet ==
    ASSUME NEW x \in Exchanges, NEW n \in 0..255, NEW y, y = [x EXCEPT !.naks = n]
    PROVE  y \in Exchanges /\ SameProgress(x, y)
BY DEF Exchanges, SameProgress

LEMMA ExtensionIsCounted ==
    ASSUME NEW x \in Exchanges, NEW w \in Nat, NEW y, y = [x EXCEPT !.wtx = w]
    PROVE  y \in Exchanges /\ SameProgress(x, y) /\ y.wtx = w
BY DEF Exchanges, SameProgress

LEMMA MultiplierIsSet ==
    ASSUME NEW x \in Exchanges, NEW m \in 1..ISO_DEP_WTXM_MAX, NEW y, y = [x EXCEPT !.multiplier = m]
    PROVE  y \in Exchanges /\ SameProgress(x, y)
BY DEF Exchanges, SameProgress

LEMMA GotIsSet ==
    ASSUME NEW x \in Exchanges, NEW got \in Seq(Slices), NEW y, y = [x EXCEPT !.got = got]
    PROVE  /\ y \in Exchanges /\ y.got = got
           /\ y.id = x.id /\ y.length = x.length /\ y.chaining = x.chaining
           /\ y.offset = x.offset /\ y.sent_empty = x.sent_empty /\ y.frame = x.frame
BY DEF Exchanges

LEMMA NumberIsSet ==
    ASSUME NEW s \in Sessions, NEW n \in 0..1, NEW t
    PROVE  /\ t = [s EXCEPT !.picc = n] => t \in Sessions /\ t.picc = n /\ t.tx = s.tx /\ t.config = s.config
           /\ t = [s EXCEPT !.tx = n] => t \in Sessions /\ t.tx = n /\ t.picc = s.picc /\ t.config = s.config
BY DEF Sessions

LEMMA SameAgain ==
    ASSUME NEW x, NEW y, NEW z, SameProgress(x, y), SameProgress(y, z)
    PROVE  SameProgress(x, z)
BY DEF SameProgress

LEMMA SBlockIs ==
    ASSUME NEW code \in {"WTX", "IFS", "DESELECT"}, NEW v \in Int, NEW b, b = SBlock(code, v)
    PROVE  b \in Blocks /\ b.type = "S" /\ b.code = code
<1>1. b \in Blocks
  BY BlocksAre
<1> QED
  BY <1>1 DEF SBlock

LEMMA MultiplierIsBounded ==
    ASSUME NEW v \in Int
    PROVE  wtx_multiplier(v) \in 1..ISO_DEP_WTXM_MAX
<1>1. PICK r \in 0..63 : r = v % 64
  OBVIOUS
<1>2. PICK a \in 1..63 : a = AtLeast(r, ISO_DEP_WTXM_MIN)
  BY DEF AtLeast, ISO_DEP_WTXM_MIN
<1>3. AtMost(a, ISO_DEP_WTXM_MAX) \in 1..ISO_DEP_WTXM_MAX
  BY DEF AtMost, ISO_DEP_WTXM_MAX
<1> QED
  BY <1>1, <1>2, <1>3 DEF wtx_multiplier

LEMMA DriverDoes ==
    ASSUME IsoDepAssumption, Typed, Kept, Driver
    PROVE  phase # "idle" /\ (Failed \/ Resent \/ AcceptIBlock \/ Acknowledged)
<1> USE TypedIs
<1>0. /\ exchange \in Exchanges /\ exchange.offset <= exchange.length /\ exchange.frame \in Blocks
      /\ exchange.wtx \in Nat /\ exchange.naks \in 0..255
      /\ session \in Sessions /\ session.tx \in 0..1 /\ session.picc \in 0..1 /\ session.config \in Config
      /\ protocol \in BOOLEAN /\ SameProgress(exchange, exchange)
  BY DEF Exchanges, Sessions, SameProgress
<1>1. CASE ensure_iso_dep_link_parameters
  <2>1. CASE reply.type = "R" /\ reply.ack
    <3>1. /\ session' = [session EXCEPT !.negotiated = TRUE] /\ Send(exchange.frame, "loop")
          /\ UNCHANGED <<held, outcome, clean, protocol, exchange, card, count, faults>>
      BY <1>1, <2>1 DEF ensure_iso_dep_link_parameters
    <3>2. session' \in Sessions /\ session'.tx = session.tx /\ session'.picc = session.picc
      BY <1>0, <3>1 DEF Sessions
    <3>3. Fits(exchange.frame, "loop")
      BY DEF Fits
    <3> QED
      BY <1>0, <1>1, <3>1, <3>2, <3>3 DEF Resent, ensure_iso_dep_link_parameters
  <2>2. CASE ~(reply.type = "R" /\ reply.ack)
    <3>1. Fail(FALSE) /\ UNCHANGED <<session, protocol, exchange, card, count, faults>>
      BY <1>1, <2>2 DEF ensure_iso_dep_link_parameters
    <3> QED
      BY <1>0, <1>1, <3>1, FailIs DEF ensure_iso_dep_link_parameters
  <2> QED
    BY <2>1, <2>2
<1>2. CASE AcceptIBlock
  BY <1>2 DEF AcceptIBlock
<1>3. CASE RepeatedIBlock
  <2>1. Fits(RBlock(session.picc, TRUE), "loop") /\ RBlock(session.picc, TRUE) \in Blocks
    BY <1>0, BlocksAre DEF Fits
  <2> QED
    BY <1>0, <1>3, <2>1 DEF RepeatedIBlock, send_iso_dep_ack, Resent
<1>4. CASE RejectIBlock
  BY <1>0, <1>4, FailIs DEF RejectIBlock
<1>5. CASE Acknowledged
  BY <1>5 DEF Acknowledged
<1>6. CASE NotAcknowledged
  <2>1. PICK x \in Exchanges :
          x = reset_progress(exchange) /\ SameProgress(exchange, x) /\ x.naks = exchange.naks
    BY <1>0, ProgressIsReset
  <2>2. CASE exchange.naks = 0
    <3>1. /\ Fail(protocol) /\ exchange' = x /\ UNCHANGED <<session, protocol, card, count, faults>>
          /\ phase = "loop"
      BY <1>6, <2>1, <2>2 DEF NotAcknowledged
    <3> QED
      BY <1>0, <2>1, <3>1, FailIs DEF SameProgress
  <2>3. CASE exchange.naks # 0
    <3>0. PICK k \in 1..255 : k = exchange.naks
      BY ONLY <1>0, <2>3
    <3>1. PICK n \in 0..255 : n = exchange.naks - 1
      BY ONLY <3>0
    <3>2. exchange' = [x EXCEPT !.naks = n]
      BY <1>6, <2>1, <2>3, <3>1 DEF NotAcknowledged
    <3>3. exchange' \in Exchanges /\ SameProgress(x, exchange')
      BY <3>1, <3>2, BudgetIsSet
    <3>4. Fits(exchange.frame, "loop") /\ SameProgress(exchange, exchange')
      BY <2>1, <3>3, SameAgain DEF Fits
    <3> QED
      BY <1>0, <1>6, <2>3, <3>3, <3>4 DEF NotAcknowledged, Resent
  <2> QED
    BY <2>2, <2>3
<1>7. CASE RejectRBlock
  <2>1. PICK x \in Exchanges : x = reset_progress(exchange) /\ SameProgress(exchange, x)
    BY <1>0, ProgressIsReset
  <2>2. /\ Fail(protocol) /\ exchange' = x /\ UNCHANGED <<session, protocol, card, count, faults>>
        /\ phase = "loop"
    BY <1>7, <2>1 DEF RejectRBlock
  <2> QED
    BY <1>0, <2>1, <2>2, FailIs DEF SameProgress
<1>8. CASE WaitingTime
  <2>0. PICK k \in Nat : k = exchange.wtx
    BY ONLY <1>0
  <2>1. PICK w \in Nat : w = exchange.wtx + 1
    BY ONLY <2>0
  <2>2. PICK x \in Exchanges : x = [exchange EXCEPT !.wtx = w] /\ SameProgress(exchange, x) /\ x.wtx = w
    BY <1>0, ExtensionIsCounted
  <2>3. x = [exchange EXCEPT !.wtx = @ + 1]
    BY <2>1, <2>2
  <2>4. phase = "loop" /\ reply.type = "S" /\ UNCHANGED <<session, protocol, card, count, faults>>
    BY <1>8 DEF WaitingTime
  <2>5. CASE x.wtx > session.config.max_try_s_wtx
    <3>1. Fail(protocol) /\ exchange' = x
      BY <1>8, <2>3, <2>5 DEF WaitingTime
    <3> QED
      BY <1>0, <2>2, <2>4, <3>1, FailIs DEF SameProgress
  <2>6. CASE ~(x.wtx > session.config.max_try_s_wtx)
    <3>1. /\ exchange' = [x EXCEPT !.multiplier = wtx_multiplier(reply.value)]
          /\ Send(SBlock("WTX", reply.value), "loop") /\ UNCHANGED <<held, outcome, clean>>
      BY <1>8, <2>3, <2>6 DEF WaitingTime
    <3>2. reply.value \in Int
      BY <2>4, BlocksAre
    <3>3. PICK m \in 1..ISO_DEP_WTXM_MAX : m = wtx_multiplier(reply.value)
      BY <3>2, MultiplierIsBounded
    <3>4. exchange' \in Exchanges /\ SameProgress(x, exchange')
      BY <3>1, <3>3, MultiplierIsSet
    <3>5. SameProgress(exchange, exchange')
      BY <2>2, <3>4, SameAgain
    <3>6. PICK b \in Blocks : b = SBlock("WTX", reply.value) /\ b.type = "S" /\ b.code = "WTX"
      BY <3>2, SBlockIs
    <3>7. Fits(b, "loop") /\ Send(b, "loop")
      BY <3>1, <3>6 DEF Fits
    <3> QED
      BY <1>0, <2>4, <3>1, <3>4, <3>5, <3>7 DEF Resent
  <2> QED
    BY <2>5, <2>6
<1>9. CASE FrameSize
  <2>1. /\ phase = "loop" /\ reply.type = "S" /\ Send(SBlock("IFS", reply.value), "ifs reply")
        /\ session' = [session EXCEPT !.config = update_pcd_ifs(@, reply.value), !.negotiated = TRUE]
        /\ UNCHANGED <<held, protocol, exchange, card, outcome, count, faults, clean>>
    BY <1>9 DEF FrameSize
  <2>2. reply.value \in Int
    BY <2>1, BlocksAre
  <2>3. PICK c \in Config : c = update_pcd_ifs(session.config, reply.value)
    BY <1>0, <2>2, ParametersStay
  <2>4. session' \in Sessions /\ session'.tx = session.tx /\ session'.picc = session.picc
    BY <1>0, <2>1, <2>3 DEF Sessions
  <2>5. PICK b \in Blocks : b = SBlock("IFS", reply.value) /\ b.type = "S" /\ b.code = "IFS"
    BY <2>2, SBlockIs
  <2>6. Fits(b, "ifs reply") /\ Send(b, "ifs reply")
    BY <2>1, <2>5 DEF Fits
  <2> QED
    BY <1>0, <2>1, <2>4, <2>6 DEF Resent
<1>10. CASE AfterFrameSize
  <2>1. Fits(exchange.frame, "loop")
    BY DEF Fits
  <2> QED
    BY <1>0, <1>10, <2>1 DEF AfterFrameSize, Resent
<1>11. CASE Deselected
  <2>1. PICK b \in Blocks : b = SBlock("DESELECT", 0) /\ b.type = "S" /\ b.code = "DESELECT"
    <3>1. 0 \in Int
      BY ONLY TRUE
    <3>2. "DESELECT" \in {"WTX", "IFS", "DESELECT"}
      BY ONLY TRUE
    <3> QED
      BY ONLY <3>1, <3>2, SBlockIs
  <2>2. Fits(b, "deselect") /\ Send(b, "deselect")
    BY <1>11, <2>1 DEF Fits, Deselected
  <2> QED
    BY <1>0, <1>11, <2>2 DEF Deselected, Resent
<1>12. CASE AfterDeselected
  <2>1. /\ Fail(FALSE) /\ protocol' = FALSE /\ UNCHANGED <<session, exchange, card, count, faults>>
        /\ phase = "deselect"
    BY <1>12 DEF AfterDeselected
  <2> QED
    BY <1>0, <2>1, FailIs
<1>13. CASE Broken
  <2>1. Fail(protocol) /\ UNCHANGED <<session, exchange, card, count, faults, protocol>>
    BY <1>13 DEF Broken
  <2>2. phase # "idle"
    <3>1. NoBlock # Timeout /\ (phase = "idle" => phase # "loop")
      BY DEF NoBlock, Timeout
    <3> QED
      BY <1>13, <3>1 DEF Broken, Kept
  <2> QED
    BY <1>0, <2>1, <2>2, FailIs
<1> QED
  BY <1>1, <1>2, <1>3, <1>4, <1>5, <1>6, <1>7, <1>8, <1>9, <1>10, <1>11, <1>12, <1>13 DEF Driver

\* A block of the card's answer is taken.
Accepted ==
    /\ phase = "loop" /\ reply.type = "I" /\ reply.number = session.picc
    /\ reply.inf \in Slices /\ reply.chaining \in BOOLEAN
    /\ session' \in Sessions /\ session'.picc = 1 - session.picc
    /\ exchange' \in Exchanges /\ exchange'.id = exchange.id /\ exchange'.length = exchange.length
    /\ exchange'.chaining = exchange.chaining /\ exchange'.offset = exchange.offset
    /\ exchange'.sent_empty = exchange.sent_empty /\ exchange'.frame = exchange.frame
    /\ exchange'.got = Append(exchange.got, reply.inf)
    /\ UNCHANGED <<protocol, card, count, faults, clean>>

AcceptedMore ==
    /\ Accepted /\ reply.chaining
    /\ session'.tx = session.tx /\ Send(RBlock(session'.picc, TRUE), "loop") /\ UNCHANGED <<held, outcome>>

AcceptedAll ==
    /\ Accepted /\ ~reply.chaining
    /\ session'.tx = 1 - session.tx /\ Finish(exchange', exchange'.got)

LEMMA AcceptedIs ==
    ASSUME Typed, AcceptIBlock
    PROVE  AcceptedMore \/ AcceptedAll
<1>1. /\ phase = "loop" /\ reply.type = "I" /\ reply.number = session.picc
      /\ UNCHANGED <<protocol, card, count, faults, clean>>
  BY DEF AcceptIBlock
<1>2. reply.inf \in Slices /\ reply.chaining \in BOOLEAN
  BY <1>1, TypedIs, BlocksAre
<1>3. session \in Sessions /\ exchange \in Exchanges
  BY TypedIs
<1>4. session.tx \in 0..1 /\ session.picc \in 0..1
  BY <1>3 DEF Sessions
<1>5. PICK n \in 0..1 : n = 1 - session.picc
  BY <1>4
<1>6. PICK m \in 0..1 : m = 1 - session.tx
  BY <1>4
<1>7. PICK s \in Sessions : s = [session EXCEPT !.picc = n] /\ s.picc = n /\ s.tx = session.tx
  <2>1. PICK s : s = [session EXCEPT !.picc = n]
    OBVIOUS
  <2>2. s \in Sessions /\ s.picc = n /\ s.tx = session.tx
    BY ONLY <1>3, <2>1, NumberIsSet, n \in 0..1
  <2> QED
    BY <2>1, <2>2
<1>8. PICK got \in Seq(Slices) : got = Append(exchange.got, reply.inf)
  <2>1. exchange.got \in Seq(Slices)
    BY <1>3 DEF Exchanges
  <2> QED
    BY ONLY <1>2, <2>1, AppendProperties
<1>9. PICK y \in Exchanges :
        /\ y = [exchange EXCEPT !.got = got] /\ y.got = got
        /\ y.id = exchange.id /\ y.length = exchange.length /\ y.chaining = exchange.chaining
        /\ y.offset = exchange.offset /\ y.sent_empty = exchange.sent_empty /\ y.frame = exchange.frame
  <2>1. PICK y : y = [exchange EXCEPT !.got = got]
    OBVIOUS
  <2>2. /\ y \in Exchanges /\ y.got = got
        /\ y.id = exchange.id /\ y.length = exchange.length /\ y.chaining = exchange.chaining
        /\ y.offset = exchange.offset /\ y.sent_empty = exchange.sent_empty /\ y.frame = exchange.frame
    BY ONLY <1>3, <2>1, GotIsSet, got \in Seq(Slices)
  <2> QED
    BY <2>1, <2>2
<1>10. PICK x \in Exchanges : x = reset_progress(y) /\ SameProgress(y, x)
  BY ProgressIsReset
<1>11. /\ exchange' = x
       /\ IF reply.chaining
          THEN session' = s /\ send_iso_dep_ack(s) /\ UNCHANGED <<held, outcome>>
          ELSE session' = [s EXCEPT !.tx = 1 - @] /\ Finish(x, x.got)
  BY <1>5, <1>7, <1>8, <1>9, <1>10 DEF AcceptIBlock
<1>12. /\ exchange' \in Exchanges /\ exchange'.id = exchange.id /\ exchange'.length = exchange.length
       /\ exchange'.chaining = exchange.chaining /\ exchange'.offset = exchange.offset
       /\ exchange'.sent_empty = exchange.sent_empty /\ exchange'.frame = exchange.frame
       /\ exchange'.got = Append(exchange.got, reply.inf)
  BY <1>8, <1>9, <1>10, <1>11 DEF SameProgress
<1>13. CASE reply.chaining
  <2>1. session' = s /\ Send(RBlock(s.picc, TRUE), "loop") /\ UNCHANGED <<held, outcome>>
    BY <1>11, <1>13 DEF send_iso_dep_ack
  <2>2. session' \in Sessions /\ session'.picc = 1 - session.picc /\ session'.tx = session.tx
    BY <1>5, <1>7, <2>1
  <2> QED
    BY <1>1, <1>2, <1>12, <1>13, <2>1, <2>2 DEF Accepted, AcceptedMore
<1>14. CASE ~reply.chaining
  <2>1. session' = [s EXCEPT !.tx = m] /\ Finish(exchange', exchange'.got)
    BY <1>6, <1>7, <1>11, <1>14
  <2>2. session' \in Sessions /\ session'.picc = s.picc /\ session'.tx = m
    BY <2>1 DEF Sessions
  <2>3. session'.picc = 1 - session.picc /\ session'.tx = 1 - session.tx
    BY <1>5, <1>6, <1>7, <2>2
  <2> QED
    BY <1>1, <1>2, <1>12, <1>14, <2>1, <2>2, <2>3 DEF Accepted, AcceptedAll
<1> QED
  BY <1>2, <1>13, <1>14

\* A frame of the payload is acknowledged.
Moved ==
    /\ phase = "loop" /\ reply.type = "R" /\ reply.ack /\ reply.number = 1 - session.tx
    /\ session' \in Sessions /\ session'.tx = 1 - session.tx /\ session'.picc = session.picc
    /\ exchange' \in Exchanges /\ exchange'.id = exchange.id /\ exchange'.length = exchange.length
    /\ exchange'.chaining = exchange.chaining /\ exchange'.got = exchange.got
    /\ exchange'.offset <= exchange'.length
    /\ UNCHANGED <<protocol, card, count, faults, clean>>

MovedOn ==
    /\ Moved /\ HasFrame(exchange.offset, exchange.length, exchange.sent_empty)
    /\ exchange'.frame.type = "I" /\ exchange'.frame.number = session'.tx
    /\ exchange'.frame.inf.id = exchange.id /\ exchange'.frame.inf.from = exchange.offset
    /\ exchange'.frame.inf.to = exchange'.offset
    /\ exchange.offset < exchange.length => exchange.offset < exchange'.offset
    /\ exchange'.frame.chaining = (exchange'.offset < exchange.length \/ exchange.chaining)
    /\ exchange'.sent_empty = exchange.sent_empty
    /\ Send(exchange'.frame, "loop") /\ UNCHANGED <<held, outcome>>

MovedToEnd ==
    /\ Moved /\ ~HasFrame(exchange.offset, exchange.length, exchange.sent_empty)
    /\ exchange.frame.chaining /\ exchange'.frame = exchange.frame
    /\ Finish(exchange', <<>>)

LEMMA AcknowledgedIs ==
    ASSUME Typed, Acknowledged
    PROVE  Failed \/ MovedOn \/ MovedToEnd
<1>1. /\ phase = "loop" /\ reply.type = "R" /\ reply.ack /\ reply.number = 1 - session.tx
      /\ UNCHANGED <<protocol, card, count, faults>>
  BY DEF Acknowledged
<1>2. session \in Sessions /\ exchange \in Exchanges /\ protocol \in BOOLEAN /\ exchange.offset <= exchange.length
  BY TypedIs
<1>3. session.tx \in 0..1 /\ session.picc \in 0..1 /\ session.config \in Config
  BY <1>2 DEF Sessions
<1>4. PICK m \in 0..1 : m = 1 - session.tx
  BY <1>3
<1>5. PICK s \in Sessions :
        s = [session EXCEPT !.tx = m] /\ s.tx = m /\ s.picc = session.picc /\ s.config = session.config
  <2>1. PICK s : s = [session EXCEPT !.tx = m]
    OBVIOUS
  <2>2. s \in Sessions /\ s.tx = m /\ s.picc = session.picc /\ s.config = session.config
    BY ONLY <1>2, <2>1, NumberIsSet, m \in 0..1
  <2> QED
    BY <2>1, <2>2
<1>6. PICK x \in Exchanges : x = reset_progress(exchange) /\ SameProgress(exchange, x)
  BY <1>2, ProgressIsReset
<1>7. session' = s
  BY <1>4, <1>5 DEF Acknowledged
<1>8. session' \in Sessions /\ session'.tx = 1 - session.tx /\ session'.picc = session.picc
  BY <1>4, <1>5, <1>7
<1>9. CASE HasFrame(exchange.offset, exchange.length, exchange.sent_empty)
  <2>1. HasFrame(x.offset, x.length, x.sent_empty)
    BY <1>6, <1>9 DEF SameProgress
  <2>2. PICK f :
          /\ f = next_iso_dep_i_frame(s.tx, x.id, x.offset, x.length, max_inf_len_pcd(s.config), x.chaining)
          /\ exchange' = [x EXCEPT !.frame = f, !.offset = f.inf.to]
          /\ Send(f, "loop") /\ UNCHANGED <<held, outcome, clean>>
    BY <1>4, <1>5, <1>6, <2>1 DEF Acknowledged
  <2>3. x.id \in Nat /\ x.offset \in Nat /\ x.length \in Nat /\ x.chaining \in BOOLEAN /\ x.offset <= x.length
    BY <1>2, <1>6 DEF Exchanges, SameProgress
  <2>4. PICK i, o, l, mm, ch :
          i = x.id /\ o = x.offset /\ l = x.length /\ mm = max_inf_len_pcd(s.config) /\ ch = x.chaining
    OBVIOUS
  <2>5. i \in Nat /\ o \in Nat /\ l \in Nat /\ mm \in Int /\ ch \in BOOLEAN /\ o <= l /\ m \in 0..1
    BY <1>3, <1>5, <2>3, <2>4, SizesAreIntegers
  <2>6. f = next_iso_dep_i_frame(m, i, o, l, mm, ch)
    BY <1>5, <2>2, <2>4
  <2>7. /\ f \in Blocks /\ f.type = "I" /\ f.number = m
        /\ f.inf \in Slices /\ f.inf.id = i /\ f.inf.from = o
        /\ f.inf.to \in Nat /\ o <= f.inf.to /\ f.inf.to <= l
        /\ o < l => o < f.inf.to
        /\ f.chaining = (f.inf.to < l \/ ch)
    <3>1. FrameOf(f, m, i, o, l, ch)
      BY ONLY <2>5, <2>6, FrameIs
    <3> QED
      BY <3>1 DEF FrameOf
  <2>8. PICK to \in Nat : to = f.inf.to
    BY <2>7
  <2>9. /\ exchange' \in Exchanges /\ exchange'.id = x.id /\ exchange'.length = x.length
        /\ exchange'.chaining = x.chaining /\ exchange'.got = x.got /\ exchange'.sent_empty = x.sent_empty
        /\ exchange'.frame = f /\ exchange'.offset = to
    BY <2>2, <2>7, <2>8 DEF Exchanges
  <2>10. /\ exchange'.id = exchange.id /\ exchange'.length = exchange.length /\ exchange'.chaining = exchange.chaining
         /\ exchange'.got = exchange.got /\ exchange'.sent_empty = exchange.sent_empty
         /\ i = exchange.id /\ o = exchange.offset /\ l = exchange.length /\ ch = exchange.chaining
    BY <1>6, <2>4, <2>9 DEF SameProgress
  <2>11. Moved
    BY <1>1, <1>8, <2>2, <2>7, <2>8, <2>9, <2>10 DEF Moved
  <2>12. exchange'.frame.chaining = (exchange'.offset < exchange.length \/ exchange.chaining)
    <3>1. f.chaining = (to < l \/ ch)
      BY <2>7, <2>8
    <3> QED
      BY ONLY <3>1, <2>9, <2>10
  <2>13. /\ exchange'.frame.type = "I" /\ exchange'.frame.number = session'.tx
         /\ exchange'.frame.inf.id = exchange.id /\ exchange'.frame.inf.from = exchange.offset
         /\ exchange'.frame.inf.to = exchange'.offset
         /\ exchange.offset < exchange.length => exchange.offset < exchange'.offset
    BY <1>4, <1>8, <2>7, <2>8, <2>9, <2>10
  <2> QED
    BY <1>9, <2>2, <2>9, <2>10, <2>11, <2>12, <2>13 DEF MovedOn
<1>10. CASE ~HasFrame(exchange.offset, exchange.length, exchange.sent_empty)
  <2>1. ~HasFrame(x.offset, x.length, x.sent_empty)
    BY <1>6, <1>10 DEF SameProgress
  <2>2. exchange' = x /\ IF x.frame.chaining THEN Finish(x, <<>>) /\ UNCHANGED clean ELSE Fail(protocol)
    BY <1>6, <2>1 DEF Acknowledged
  <2>3. exchange' \in Exchanges /\ SameProgress(exchange, exchange')
    BY <1>6, <2>2
  <2>4. CASE x.frame.chaining
    <3>1. Moved
      BY <1>1, <1>2, <1>8, <2>2, <2>3, <2>4 DEF Moved, SameProgress
    <3> QED
      BY <1>6, <1>10, <2>2, <2>3, <2>4, <3>1 DEF MovedToEnd, SameProgress
  <2>5. CASE ~x.frame.chaining
    BY <1>1, <1>2, <1>8, <2>2, <2>3, <2>5, FailIs DEF SameProgress
  <2> QED
    BY <2>4, <2>5
<1> QED
  BY <1>9, <1>10

-----------------------------------------------------------------------------
(* The card's steps                                                         *)

\* The card puts the next block of its answer on the air.
Answers(c, d, number, from) ==
    /\ d \in Cards /\ d.ns = 1 - c.ns
    /\ d.expect = c.expect /\ d.open = c.open /\ d.taken = c.taken /\ d.id = c.id /\ d.length = c.length
    /\ d.last.type = "I" /\ d.last.number = number
    /\ d.last.inf.id = c.id /\ d.last.inf.from = from /\ d.last.inf.to <= c.length
    /\ d.last.inf \in Slices /\ d.last.chaining = (d.last.inf.to < c.length)

LEMMA AnsweringIs ==
    ASSUME NEW c \in Cards, NEW number \in 0..1, NEW from \in Nat, from <= c.length, NEW chunk \in Int,
           NEW d, d = Answering(c, number, from, chunk)
    PROVE  Answers(c, d, number, from)
<1>1. c.id \in Nat /\ c.length \in Nat /\ c.ns \in 0..1
  BY DEF Cards
<1>2. PICK i \in Nat, l \in Nat : i = c.id /\ l = c.length
  BY <1>1
<1>3. PICK inf : inf = Chunk(i, from, l, chunk)
  OBVIOUS
<1>4. i \in Nat /\ l \in Nat /\ from <= l
  BY <1>1, <1>2
<1>5. inf \in Slices /\ inf.id = i /\ inf.from = from /\ inf.to <= l
  BY ONLY <1>3, <1>4, ChunkFits, from \in Nat, chunk \in Int
<1>6. PICK more \in BOOLEAN : more = (inf.to < l \/ FALSE)
  OBVIOUS
<1>7. PICK last : last = [type |-> "I", number |-> number, chaining |-> more, inf |-> inf]
  OBVIOUS
<1>8. last \in Blocks /\ last.type = "I" /\ last.number = number /\ last.chaining = more /\ last.inf = inf
  BY <1>5, <1>7 DEF Blocks
<1>9. PICK n \in 0..1 : n = 1 - c.ns
  BY <1>1
<1>10. d = [c EXCEPT !.last = last, !.ns = n]
  <2>1. last = IBlock(number, inf.to < c.length, inf)
    BY <1>2, <1>6, <1>7 DEF IBlock
  <2> QED
    BY <1>2, <1>3, <1>9, <2>1 DEF Answering
<1>11. /\ d \in Cards /\ d.ns = n /\ d.expect = c.expect /\ d.open = c.open /\ d.taken = c.taken
       /\ d.id = c.id /\ d.length = c.length /\ d.last = last
  BY <1>8, <1>10 DEF Cards
<1>12. d.last.chaining = (d.last.inf.to < c.length)
  BY <1>2, <1>6, <1>8, <1>11
<1> QED
  BY <1>2, <1>5, <1>8, <1>9, <1>11, <1>12 DEF Answers

\* The blocks of commands with one more taken.
Taken(c, inf) == IF c.open THEN Append(c.taken, inf) ELSE <<inf>>

TakesMore(c, d, b) ==
    /\ d \in Cards /\ d.expect = 1 - b.number /\ d.open = TRUE /\ d.taken = Taken(c, b.inf)
    /\ d.ns = c.ns /\ d.last = RBlock(1 - b.number, TRUE)

TakesAll(c, d, b) ==
    /\ d \in Cards /\ d.expect = 1 - b.number /\ d.taken = Taken(c, b.inf)
    /\ d.ns = 1 - c.ns /\ d.id = b.inf.id
    /\ d.last.type = "I" /\ d.last.number = c.ns
    /\ d.last.inf.id = b.inf.id /\ d.last.inf.from = 0 /\ d.last.inf.to <= d.length
    /\ d.last.inf \in Slices /\ d.last.chaining = (d.last.inf.to < d.length)

LEMMA TakeIs ==
    ASSUME Numbering = "next", NEW c \in Cards, NEW b \in Blocks, b.type = "I",
           NEW length \in Nat, NEW chunk \in Int, NEW d, d = Take(c, b, length, chunk)
    PROVE  IF b.chaining THEN TakesMore(c, d, b) ELSE TakesAll(c, d, b)
<1>1. b.number \in 0..1 /\ b.chaining \in BOOLEAN /\ b.inf \in Slices
  BY BlocksAre
<1>2. c.ns \in 0..1 /\ c.own \in 0..1 /\ c.taken \in Seq(Slices) /\ c.open \in BOOLEAN
  BY DEF Cards
<1>3. PICK e \in 0..1 : e = 1 - b.number
  BY <1>1
<1>4. PICK o \in 0..1 : o = 1 - c.own
  BY <1>2
<1>5. PICK more \in BOOLEAN : more = b.chaining
  BY <1>1
<1>6. PICK q \in Seq(Slices) : q = Taken(c, b.inf)
  <2>1. Append(c.taken, b.inf) \in Seq(Slices) /\ <<b.inf>> \in Seq(Slices)
    BY <1>1, <1>2, AppendProperties
  <2> QED
    BY <2>1 DEF Taken
<1>7. PICK t : t = [c EXCEPT !.expect = e, !.own = o, !.open = more, !.taken = q]
  OBVIOUS
<1>8. /\ t \in Cards /\ t.expect = e /\ t.ns = c.ns /\ t.open = more /\ t.taken = q
      /\ t.id = c.id /\ t.length = c.length
  BY <1>7 DEF Cards
<1>9. d = IF more THEN [t EXCEPT !.last = RBlock(t.expect, TRUE)]
          ELSE Answering([t EXCEPT !.id = b.inf.id, !.length = length], t.ns, 0, chunk)
  <2>1. t = [c EXCEPT !.expect = 1 - b.number, !.own = 1 - @, !.open = b.chaining,
                      !.taken = IF c.open THEN Append(@, b.inf) ELSE <<b.inf>>]
    BY <1>3, <1>4, <1>5, <1>6, <1>7 DEF Taken
  <2> QED
    BY <1>5, <2>1 DEF Take
<1>10. CASE more
  <2>1. PICK last : last = RBlock(e, TRUE)
    OBVIOUS
  <2>2. last \in Blocks
    BY <2>1, BlocksAre
  <2>3. d = [t EXCEPT !.last = last]
    BY <1>8, <1>9, <1>10, <2>1
  <2>4. /\ d \in Cards /\ d.expect = e /\ d.ns = t.ns /\ d.open = more /\ d.taken = q /\ d.last = last
    BY <1>8, <2>2, <2>3 DEF Cards
  <2>5. d.open = TRUE
    BY <1>10, <2>4
  <2> QED
    BY <1>3, <1>5, <1>6, <1>8, <1>10, <2>1, <2>4, <2>5 DEF TakesMore
<1>11. CASE ~more
  <2>1. PICK id \in Nat : id = b.inf.id
    BY <1>1 DEF Slices
  <2>2. PICK u : u = [t EXCEPT !.id = id, !.length = length]
    OBVIOUS
  <2>3. /\ u \in Cards /\ u.expect = e /\ u.ns = c.ns /\ u.taken = q /\ u.id = id /\ u.length = length
    BY <1>8, <2>2 DEF Cards
  <2>4. PICK n \in 0..1, z \in Nat : n = c.ns /\ z = 0
    BY <1>2
  <2>5. d = Answering(u, n, z, chunk)
    BY <1>8, <1>9, <1>11, <2>1, <2>2, <2>4
  <2>6. z <= u.length
    BY <2>3, <2>4
  <2>7. Answers(u, d, n, z)
    BY ONLY <2>3, <2>5, <2>6, n \in 0..1, z \in Nat, chunk \in Int, AnsweringIs
  <2>8. d.length = length /\ d.last.chaining = (d.last.inf.to < length)
    BY <2>3, <2>7 DEF Answers
  <2>9. d.last.chaining = (d.last.inf.to < d.length)
    BY <2>8
  <2> QED
    BY <1>3, <1>5, <1>6, <1>11, <2>1, <2>3, <2>4, <2>7, <2>8, <2>9 DEF TakesAll, Answers
<1> QED
  BY <1>10, <1>11

\* What a block makes of the card.
Continues(c, d, b) ==
    /\ b.type = "R" /\ AsksForNext(c, b) /\ Answers(c, d, 1 - c.last.number, c.last.inf.to)

KnowsEnd(c) == c.last.type = "I" /\ c.last.chaining => c.last.inf.to < c.length

LEMMA ProcessedIs ==
    ASSUME Numbering = "next", NEW c \in Cards, NEW b \in Blocks, NEW length \in Nat, NEW chunk \in Int,
           NEW d, d = Processed(c, b, length, chunk), KnowsEnd(c)
    PROVE  \/ b.type = "I" /\ b.number = c.expect /\ b.chaining /\ TakesMore(c, d, b)
           \/ b.type = "I" /\ b.number = c.expect /\ ~b.chaining /\ TakesAll(c, d, b)
           \/ Continues(c, d, b)
           \/ d = c /\ (b.type # "I" \/ b.number # c.expect) /\ (b.type # "R" \/ ~AsksForNext(c, b))
<1>1. CASE b.type = "I" /\ b.number = c.expect
  <2>1. d = Take(c, b, length, chunk) /\ b.chaining \in BOOLEAN
    BY <1>1, BlocksAre DEF Processed
  <2> QED
    BY <1>1, <2>1, TakeIs
<1>2. CASE b.type = "R" /\ AsksForNext(c, b)
  <2>0. c.last \in Blocks /\ c.length \in Nat /\ c.own \in 0..1
    BY DEF Cards
  <2>1. c.last.number \in 0..1 /\ c.last.inf \in Slices /\ c.last.inf.to < c.length
    BY <1>2, <2>0, BlocksAre DEF AsksForNext, KnowsEnd
  <2>2. PICK n \in 0..1 : n = 1 - c.last.number
    BY <2>1
  <2>3. PICK z \in Nat : z = c.last.inf.to
    BY <2>1 DEF Slices
  <2>4. PICK o \in 0..1 : o = 1 - c.own
    BY <2>0
  <2>5. PICK u : u = [c EXCEPT !.own = o]
    OBVIOUS
  <2>6. /\ u \in Cards /\ u.expect = c.expect /\ u.ns = c.ns /\ u.open = c.open /\ u.taken = c.taken
        /\ u.id = c.id /\ u.length = c.length
    BY <2>5 DEF Cards
  <2>7. d = Answering(u, n, z, chunk)
    <3>1. d = Answering([c EXCEPT !.own = 1 - @], 1 - c.last.number, c.last.inf.to, chunk)
      BY <1>2 DEF Processed
    <3> QED
      BY <2>2, <2>3, <2>4, <2>5, <3>1
  <2>8. z <= u.length
    BY <2>0, <2>1, <2>3, <2>6
  <2>9. Answers(u, d, n, z)
    BY ONLY <2>6, <2>7, <2>8, n \in 0..1, z \in Nat, chunk \in Int, AnsweringIs
  <2>10. Answers(c, d, n, z)
    BY <2>6, <2>9 DEF Answers
  <2> QED
    BY <1>2, <2>2, <2>3, <2>10 DEF Continues
<1>3. CASE ~(b.type = "I" /\ b.number = c.expect) /\ ~(b.type = "R" /\ AsksForNext(c, b))
  <2>1. d = c
    BY <1>3 DEF Processed
  <2> QED
    BY <1>3, <2>1
<1> QED
  BY <1>1, <1>2, <1>3

-----------------------------------------------------------------------------
(* The two sides in step                                                    *)

\* Between two commands: the card expects the driver's next number and would
\* answer with the one the driver expects; its last block is the end of that.
Resting ==
    /\ card.expect = session.tx /\ card.ns = session.picc
    /\ \/ card.last.type = "none"
       \/ card.last.type = "I" /\ card.last.number = 1 - session.picc /\ ~card.last.chaining
       \/ card.last.type = "R" /\ card.last.ack /\ card.last.number = session.tx

\* The driver's frame is the part of the payload that ends at its offset.
FrameFits ==
    /\ exchange.frame.type = "I" /\ exchange.frame.number = session.tx
    /\ exchange.frame.inf.id = exchange.id /\ exchange.frame.inf.to = exchange.offset
    /\ exchange.frame.inf.from < exchange.offset \/ (exchange.length = 0 /\ exchange.frame.inf.from = 0)
    /\ exchange.frame.chaining = (exchange.offset < exchange.length \/ exchange.chaining)
    /\ exchange.length = 0 => exchange.sent_empty

\* No part of the exchange's payload reached the card, or the part before the frame did.
NotBegun == \A i \in DOMAIN card.taken : card.taken[i].id # exchange.id
Sending ==
    /\ Resting /\ exchange.got = <<>>
    /\ IF exchange.frame.inf.from = 0
       THEN NotBegun
       ELSE card.open = TRUE /\ Ends(card.taken, exchange.id, exchange.frame.inf.from)

\* The card has the frame and waits for the next one.
Chained ==
    /\ card.expect = 1 - session.tx /\ card.ns = session.picc /\ card.last = RBlock(1 - session.tx, TRUE)
    /\ card.open = TRUE /\ exchange.frame.chaining /\ exchange.got = <<>>
    /\ Ends(card.taken, exchange.id, exchange.offset)

\* The card has the whole payload and is at a block of its answer that the
\* driver took before, or that it still expects.
GotUpTo(n) == (exchange.got = <<>> /\ n = 0) \/ Whole(exchange.got, exchange.id, n)
Answered ==
    /\ card.expect = 1 - session.tx /\ ~exchange.frame.chaining
    /\ Ends(card.taken, exchange.id, exchange.offset)
    /\ card.id = exchange.id /\ card.last.type = "I" /\ card.last.inf.id = exchange.id
    /\ card.last.inf.to <= card.length
    /\ card.last.chaining = (card.last.inf.to < card.length)
    /\ card.ns = 1 - card.last.number
    /\ IF card.last.number = session.picc
       THEN GotUpTo(card.last.inf.from)
       ELSE card.last.chaining /\ GotUpTo(card.last.inf.to)

\* A reply that moves the driver on is the card's current block.
ReplyFits ==
    /\ reply.type = "I" /\ reply.number = session.picc => Answered /\ reply = card.last
    /\ reply.type = "R" /\ reply.ack /\ reply.number = 1 - session.tx => Chained

Known == \A i \in DOMAIN card.taken : card.taken[i].id <= count
Underway ==
    /\ exchange.id = count /\ outcome.ok = FALSE /\ FrameFits /\ Fits(air, phase)
    /\ Sending \/ Chained \/ Answered
    /\ phase = "loop" => ReplyFits
InStep == Known /\ IF phase = "idle" THEN Resting ELSE Underway

IInv == Typed /\ Kept /\ (clean => InStep) /\ PayloadDelivered /\ AnswerDelivered

LEMMA InitIsInStep ==
    ASSUME IsoDepAssumption, IsoDepInit
    PROVE  IInv
<1>1. /\ held = "none" /\ protocol = FALSE /\ exchange = NoExchange /\ phase = "idle" /\ air = NoBlock
      /\ reply = NoBlock /\ card = FreshCard /\ outcome = None /\ count = 0 /\ faults = 0 /\ clean = FALSE
  BY DEF IsoDepInit
<1>2. session \in Sessions
  BY ConstantsAreTyped DEF IsoDepInit
<1>3. card \in Cards /\ CardKnows /\ outcome \in Outcomes /\ exchange \in Exchanges /\ exchange.offset <= exchange.length
  <2>1. NoExchange.offset \in Nat
    BY DEF NoExchange
  <2> QED
    BY <1>1, <2>1, ConstantsAreTyped DEF CardKnows
<1>4. Typed
  <2>1. count \in 0..MaxExchanges /\ faults \in 0..MaxLosses
    BY <1>1 DEF IsoDepAssumption
  <2> QED
    BY <1>1, <1>2, <1>3, <2>1, BlocksAre DEF Typed, IsoDepTypeOK, Sessions, Exchanges, Cards, Outcomes
<1> QED
  BY <1>1, <1>4 DEF IInv, Kept, PayloadDelivered, AnswerDelivered

\* After a failure nothing is promised until the card is activated again.
LEMMA FailureKeeps ==
    ASSUME IsoDepAssumption, IInv, Failed
    PROVE  IInv'
<1>1. card' = card /\ count' = count /\ faults' = faults /\ CardKnows'
  BY TypedIs DEF Failed, CardKnows, IInv
<1>2. Typed'
  BY <1>1, TypedIs, TypedNext, BlocksAre, ConstantsAreTyped DEF Failed, IInv
<1> QED
  BY <1>2 DEF IInv, Failed, Kept, PayloadDelivered, AnswerDelivered

\* A block that goes out changes nothing of what both sides know.
LEMMA ResendKeeps ==
    ASSUME IsoDepAssumption, IInv, Resent, phase # "idle"
    PROVE  IInv'
<1>1. PICK b \in Blocks, p \in {"ifs", "loop", "ifs reply", "deselect"} : Fits(b, p) /\ Send(b, p)
  BY DEF Resent
<1>2. air' = b /\ phase' = p /\ reply' = NoBlock /\ phase' # "idle"
  BY <1>1 DEF Send
<1>3. /\ session'.tx = session.tx /\ session'.picc = session.picc /\ SameProgress(exchange, exchange')
      /\ UNCHANGED <<held, protocol, card, outcome, count, faults, clean>>
  BY DEF Resent
<1>4. Typed'
  <2>1. exchange'.offset <= exchange'.length
    BY <1>3, TypedIs DEF IInv, SameProgress
  <2>2. CardKnows'
    BY <1>3, TypedIs DEF CardKnows, IInv
  <2> QED
    BY <1>1, <1>2, <1>3, <2>1, <2>2, TypedIs, TypedNext, BlocksAre DEF Resent, IInv
<1>5. ASSUME clean PROVE InStep'
  <2>1. Known /\ Underway
    BY <1>5 DEF IInv, InStep
  <2>2. Known'
    BY <1>3, <2>1 DEF Known
  <2>3. exchange'.id = count' /\ outcome'.ok = FALSE
    BY <1>3, <2>1 DEF Underway, SameProgress
  <2>4. FrameFits'
    BY <1>3, <2>1 DEF Underway, FrameFits, SameProgress
  <2>5. Fits(air, phase)'
    BY <1>1, <1>2, <1>3 DEF Fits, SameProgress
  <2>6. Sending => Sending'
    BY <1>3 DEF Sending, Resting, NotBegun, SameProgress
  <2>7. Chained => Chained'
    BY <1>3 DEF Chained, SameProgress
  <2>8. Answered => Answered'
    BY <1>3 DEF Answered, GotUpTo, SameProgress
  <2>9. ReplyFits'
    BY <1>2 DEF ReplyFits, NoBlock
  <2> QED
    BY <1>2, <2>1, <2>2, <2>3, <2>4, <2>5, <2>6, <2>7, <2>8, <2>9 DEF InStep, Underway
<1>6. clean' => outcome'.ok = FALSE
  BY <1>3, <1>5 DEF IInv, InStep, Underway
<1> QED
  BY <1>2, <1>3, <1>4, <1>5, <1>6 DEF IInv, Kept, PayloadDelivered, AnswerDelivered

LEMMA GotGrows ==
    ASSUME NEW got \in Seq(Slices), NEW s \in Slices, NEW id, s.id = id,
           (got = <<>> /\ s.from = 0) \/ Whole(got, id, s.from)
    PROVE  Whole(Append(got, s), id, s.to)
<1>1. CASE got = <<>> /\ s.from = 0
  <2>1. Append(got, s) = <<s>>
    BY <1>1
  <2> QED
    BY <1>1, <2>1, WholeStarts
<1>2. CASE Whole(got, id, s.from)
  <2>1. PICK n : n = s.from
    OBVIOUS
  <2> QED
    BY <1>2, <2>1, WholeGoesOn
<1> QED
  BY <1>1, <1>2

\* The block the driver takes is the card's, and continues the answer.
LEMMA AcceptedFits ==
    ASSUME IInv, Accepted, clean
    PROVE  /\ Answered /\ reply = card.last /\ FrameFits /\ Known /\ exchange.id = count /\ outcome.ok = FALSE
           /\ Whole(exchange'.got, exchange.id, card.last.inf.to)
<1>1. Known /\ Underway /\ phase = "loop"
  <2>1. phase = "loop" /\ phase # "idle"
    BY DEF Accepted
  <2> QED
    BY <2>1 DEF IInv, InStep
<1>2. reply.type = "I" /\ reply.number = session.picc
  BY DEF Accepted
<1>3. Answered /\ reply = card.last
  BY <1>1, <1>2 DEF Underway, ReplyFits
<1>4. card.last.inf \in Slices /\ card.last.inf.id = exchange.id /\ card.last.number = session.picc
  BY <1>2, <1>3 DEF Answered, Accepted
<1>5. (exchange.got = <<>> /\ card.last.inf.from = 0) \/ Whole(exchange.got, exchange.id, card.last.inf.from)
  BY <1>3, <1>4 DEF Answered, GotUpTo
<1>6. exchange.got \in Seq(Slices) /\ exchange'.got = Append(exchange.got, card.last.inf)
  BY <1>3, TypedIs DEF Accepted, IInv, Exchanges
<1>7. PICK got, inf, id : got = exchange.got /\ inf = card.last.inf /\ id = exchange.id
  OBVIOUS
<1>8. Whole(Append(got, inf), id, inf.to)
  BY ONLY <1>4, <1>5, <1>6, <1>7, GotGrows
<1> QED
  BY <1>1, <1>3, <1>6, <1>7, <1>8 DEF Underway

LEMMA AcceptedTyped ==
    ASSUME IsoDepAssumption, IInv, AcceptedMore \/ AcceptedAll
    PROVE  Typed' /\ Kept'
<1>1. Accepted
  BY DEF AcceptedMore, AcceptedAll
<1>2. /\ session' \in Sessions /\ exchange' \in Exchanges /\ exchange'.offset <= exchange'.length
      /\ UNCHANGED <<protocol, card, count, faults, clean>> /\ phase = "loop"
  BY <1>1, TypedIs DEF Accepted, IInv
<1>3. CardKnows' /\ held = "exchange" /\ protocol = TRUE
  <2>1. protocol \in BOOLEAN
    BY TypedIs DEF IInv
  <2> QED
    BY <1>2, <2>1, TypedIs DEF CardKnows, IInv, Kept
<1>4. CASE AcceptedMore
  <2>1. PICK b \in Blocks : b = RBlock(session'.picc, TRUE)
    <3>1. session'.picc \in 0..1
      BY <1>2 DEF Sessions
    <3> QED
      BY <3>1, BlocksAre
  <2>2. air' = b /\ phase' = "loop" /\ reply' = NoBlock /\ UNCHANGED <<held, outcome>>
    BY <1>4, <2>1 DEF AcceptedMore, Send
  <2>3. Typed'
    BY <1>2, <1>3, <2>2, TypedIs, TypedNext, BlocksAre DEF IInv
  <2> QED
    BY <1>2, <1>3, <2>2, <2>3 DEF Kept
<1>5. CASE AcceptedAll
  <2>1. Finish(exchange', exchange'.got)
    BY <1>5 DEF AcceptedAll
  <2>2. held' = "device" /\ phase' = "idle" /\ air' = NoBlock /\ reply' = NoBlock
    BY <2>1 DEF Finish
  <2>3. outcome' \in Outcomes
    <3>1. exchange'.got \in Seq(Slices)
      BY <1>2 DEF Exchanges
    <3> QED
      BY <1>2, <2>1, <3>1 DEF Finish, Exchanges, Outcomes
  <2>4. Typed'
    BY <1>2, <1>3, <2>2, <2>3, TypedIs, TypedNext, BlocksAre DEF IInv
  <2> QED
    BY <1>2, <1>3, <2>2, <2>4 DEF Kept
<1> QED
  BY <1>4, <1>5

LEMMA AcceptedMoreKeeps ==
    ASSUME IsoDepAssumption, IInv, AcceptedMore
    PROVE  IInv'
<1>1. Accepted /\ clean' = clean /\ outcome' = outcome /\ card' = card /\ count' = count
  BY DEF AcceptedMore, Accepted
<1>2. Typed' /\ Kept'
  BY AcceptedTyped
<1>3. ASSUME clean PROVE InStep' /\ outcome'.ok = FALSE
  <2>1. /\ Answered /\ reply = card.last /\ FrameFits /\ Known /\ exchange.id = count /\ outcome.ok = FALSE
        /\ Whole(exchange'.got, exchange.id, card.last.inf.to)
    BY <1>1, <1>3, AcceptedFits
  <2>2. /\ session'.tx = session.tx /\ session'.picc = 1 - session.picc /\ session.picc \in 0..1
        /\ phase' = "loop" /\ air' = RBlock(session'.picc, TRUE) /\ reply' = NoBlock
        /\ card.last.number = session.picc /\ card.last.chaining
    BY <2>1, TypedIs DEF AcceptedMore, Accepted, Send, IInv, Sessions
  <2>3. /\ exchange'.id = exchange.id /\ exchange'.length = exchange.length
        /\ exchange'.chaining = exchange.chaining /\ exchange'.offset = exchange.offset
        /\ exchange'.sent_empty = exchange.sent_empty /\ exchange'.frame = exchange.frame
    BY <1>1 DEF Accepted
  <2>4. Known' /\ FrameFits'
    BY <1>1, <2>1, <2>2, <2>3 DEF Known, FrameFits
  <2>5. Fits(air, phase)'
    BY <2>2 DEF Fits
  <2>6. Answered'
    <3>1. card'.last.number # session'.picc
      BY <1>1, <2>2
    <3>2. GotUpTo(card.last.inf.to)'
      BY <1>1, <2>1, <2>3 DEF GotUpTo
    <3> QED
      BY <1>1, <2>1, <2>2, <2>3, <3>1, <3>2 DEF Answered
  <2>7. ReplyFits'
    BY <2>2 DEF ReplyFits, NoBlock
  <2> QED
    BY <1>1, <2>1, <2>2, <2>3, <2>4, <2>5, <2>6, <2>7 DEF InStep, Underway
<1> QED
  BY <1>1, <1>2, <1>3 DEF IInv, PayloadDelivered, AnswerDelivered

LEMMA AcceptedAllKeeps ==
    ASSUME IsoDepAssumption, IInv, AcceptedAll
    PROVE  IInv'
<1>1. Accepted /\ clean' = clean /\ card' = card /\ count' = count
  BY DEF AcceptedAll, Accepted
<1>2. Typed' /\ Kept'
  BY AcceptedTyped
<1>3. ASSUME clean PROVE InStep' /\ PayloadDelivered' /\ AnswerDelivered'
  <2>1. /\ Answered /\ reply = card.last /\ FrameFits /\ Known /\ exchange.id = count
        /\ Whole(exchange'.got, exchange.id, card.last.inf.to)
    BY <1>1, <1>3, AcceptedFits
  <2>2. /\ session'.tx = 1 - session.tx /\ session'.picc = 1 - session.picc
        /\ session.picc \in 0..1 /\ session.tx \in 0..1
        /\ card.last.number = session.picc /\ ~card.last.chaining
    BY <2>1, TypedIs DEF AcceptedAll, Accepted, IInv, Sessions
  <2>3. phase' = "idle" /\ outcome' = [ok |-> TRUE, id |-> exchange'.id, length |-> exchange'.length,
                                       chaining |-> exchange'.chaining, got |-> exchange'.got]
    BY DEF AcceptedAll, Finish
  <2>4. /\ exchange'.id = exchange.id /\ exchange'.length = exchange.length
        /\ exchange.offset \in Nat /\ exchange.length \in Nat /\ exchange.offset <= exchange.length
    BY <1>1, TypedIs DEF Accepted, IInv, Exchanges
  <2>5. Resting'
    <3>1. card.expect = 1 - session.tx /\ card.ns = 1 - card.last.number /\ card.last.type = "I"
      BY <2>1 DEF Answered
    <3> QED
      BY <1>1, <2>2, <3>1 DEF Resting
  <2>6. Known'
    BY <1>1, <2>1 DEF Known
  <2>7. exchange.offset = exchange.length
    <3>1. ~(exchange.offset < exchange.length)
      BY <2>1 DEF Answered, FrameFits
    <3> QED
      BY <2>4, <3>1
  <2>8. PayloadDelivered'
    <3>1. outcome'.id = exchange.id /\ outcome'.length = exchange.offset
      BY <2>3, <2>4, <2>7
    <3>2. Ends(card.taken, exchange.id, exchange.offset)
      BY <2>1 DEF Answered
    <3> QED
      BY <1>1, <3>1, <3>2 DEF PayloadDelivered, Delivered, Ends
  <2>9. AnswerDelivered'
    <3>1. card.last.inf.to = card.length
      <4>1. card.last.inf.to \in Nat /\ card.length \in Nat
        BY <1>1, <2>1, TypedIs DEF Accepted, Slices, IInv, Cards
      <4>2. card.last.inf.to <= card.length /\ ~(card.last.inf.to < card.length)
        BY <2>1, <2>2 DEF Answered
      <4> QED
        BY <4>1, <4>2
    <3> QED
      BY <1>1, <2>1, <2>3, <2>4, <3>1 DEF AnswerDelivered
  <2> QED
    BY <2>3, <2>5, <2>6, <2>8, <2>9 DEF InStep
<1> QED
  BY <1>1, <1>2, <1>3 DEF IInv, PayloadDelivered, AnswerDelivered

\* An acknowledgement that moves the driver on is of the frame the card has.
LEMMA MovedFits ==
    ASSUME IInv, Moved, clean
    PROVE  /\ Chained /\ FrameFits /\ Known /\ exchange.id = count /\ outcome.ok = FALSE
           /\ exchange.frame.inf.from \in Nat
<1>1. Known /\ Underway /\ phase = "loop"
  <2>1. phase = "loop" /\ phase # "idle"
    BY DEF Moved
  <2> QED
    BY <2>1 DEF IInv, InStep
<1>2. Chained
  BY <1>1 DEF Underway, ReplyFits, Moved
<1>3. exchange.frame.inf \in Slices
  <2>1. exchange.frame \in Blocks
    BY TypedIs DEF IInv, Exchanges
  <2>2. exchange.frame.type = "I"
    BY <1>1 DEF Underway, FrameFits
  <2> QED
    BY <2>1, <2>2, BlocksAre
<1> QED
  BY <1>1, <1>2, <1>3 DEF Underway, Slices

LEMMA MovedTyped ==
    ASSUME IsoDepAssumption, IInv, MovedOn \/ MovedToEnd
    PROVE  Typed' /\ Kept'
<1>1. Moved
  BY DEF MovedOn, MovedToEnd
<1>2. /\ session' \in Sessions /\ exchange' \in Exchanges /\ exchange'.offset <= exchange'.length
      /\ UNCHANGED <<protocol, card, count, faults, clean>> /\ phase = "loop"
  BY <1>1 DEF Moved
<1>3. CardKnows' /\ held = "exchange" /\ protocol = TRUE
  <2>1. protocol \in BOOLEAN
    BY TypedIs DEF IInv
  <2> QED
    BY <1>2, <2>1, TypedIs DEF CardKnows, IInv, Kept
<1>4. CASE MovedOn
  <2>1. exchange'.frame \in Blocks
    BY <1>2 DEF Exchanges
  <2>2. air' \in Blocks /\ phase' = "loop" /\ reply' = NoBlock /\ UNCHANGED <<held, outcome>>
    BY <1>4, <2>1 DEF MovedOn, Send
  <2>3. Typed'
    BY <1>2, <1>3, <2>2, TypedIs, TypedNext, BlocksAre DEF IInv
  <2> QED
    BY <1>2, <1>3, <2>2, <2>3 DEF Kept
<1>5. CASE MovedToEnd
  <2>1. Finish(exchange', <<>>)
    BY <1>5 DEF MovedToEnd
  <2>2. held' = "device" /\ phase' = "idle" /\ air' = NoBlock /\ reply' = NoBlock
    BY <2>1 DEF Finish
  <2>3. outcome' \in Outcomes
    <3>1. <<>> \in Seq(Slices)
      OBVIOUS
    <3> QED
      BY <1>2, <2>1, <3>1 DEF Finish, Exchanges, Outcomes
  <2>4. Typed'
    BY <1>2, <1>3, <2>2, <2>3, TypedIs, TypedNext, BlocksAre DEF IInv
  <2> QED
    BY <1>2, <1>3, <2>2, <2>4 DEF Kept
<1> QED
  BY <1>4, <1>5

LEMMA MovedOnKeeps ==
    ASSUME IsoDepAssumption, IInv, MovedOn
    PROVE  IInv'
<1>1. Moved /\ clean' = clean /\ outcome' = outcome /\ card' = card /\ count' = count
  BY DEF MovedOn, Moved
<1>2. Typed' /\ Kept'
  BY MovedTyped
<1>3. ASSUME clean PROVE InStep' /\ outcome'.ok = FALSE
  <2>1. /\ Chained /\ FrameFits /\ Known /\ exchange.id = count /\ outcome.ok = FALSE
        /\ exchange.frame.inf.from \in Nat
    BY <1>1, <1>3, MovedFits
  <2>2. /\ session'.tx = 1 - session.tx /\ session'.picc = session.picc
        /\ session.picc \in 0..1 /\ session.tx \in 0..1
    BY <1>1, TypedIs DEF Moved, IInv, Sessions
  <2>3. phase' = "loop" /\ air' = exchange'.frame /\ reply' = NoBlock
    BY DEF MovedOn, Send
  <2>4. /\ exchange'.id = exchange.id /\ exchange'.length = exchange.length
        /\ exchange'.chaining = exchange.chaining /\ exchange'.got = exchange.got
        /\ exchange.offset \in Nat /\ exchange.length \in Nat /\ exchange'.offset \in Nat
    BY <1>1, <1>2, TypedIs DEF Moved, IInv, Exchanges
  <2>5. exchange.offset < exchange.length
    BY <2>1 DEF MovedOn, HasFrame, FrameFits
  <2>6. exchange.offset # 0
    BY <2>1, <2>4, <2>5 DEF FrameFits
  <2>7. Known'
    BY <1>1, <2>1 DEF Known
  <2>8. FrameFits'
    <3>1. exchange'.frame.chaining = (exchange'.offset < exchange'.length \/ exchange'.chaining)
      BY <2>4 DEF MovedOn
    <3>2. exchange'.length = 0 => exchange'.sent_empty
      BY <2>4, <2>5
    <3>3. exchange'.frame.inf.from < exchange'.offset
      BY <2>5 DEF MovedOn
    <3> QED
      BY <2>4, <3>1, <3>2, <3>3 DEF MovedOn, FrameFits
  <2>9. Fits(air, phase)'
    BY <2>3 DEF Fits
  <2>10. Sending'
    <3>1. Resting'
      <4>1. card.last.type = "R" /\ card.last.ack /\ card.last.number = 1 - session.tx
        BY <2>1 DEF Chained, RBlock
      <4> QED
        BY <1>1, <2>1, <2>2, <4>1 DEF Resting, Chained
    <3>2. exchange'.frame.inf.from = exchange.offset
      BY DEF MovedOn
    <3> QED
      BY <1>1, <2>1, <2>4, <2>6, <3>1, <3>2 DEF Sending, Chained
  <2>11. ReplyFits'
    BY <2>3 DEF ReplyFits, NoBlock
  <2> QED
    BY <1>1, <2>1, <2>3, <2>4, <2>7, <2>8, <2>9, <2>10, <2>11 DEF InStep, Underway
<1> QED
  BY <1>1, <1>2, <1>3 DEF IInv, PayloadDelivered, AnswerDelivered

LEMMA MovedToEndKeeps ==
    ASSUME IsoDepAssumption, IInv, MovedToEnd
    PROVE  IInv'
<1>1. Moved /\ clean' = clean /\ card' = card /\ count' = count
  BY DEF MovedToEnd, Moved
<1>2. Typed' /\ Kept'
  BY MovedTyped
<1>3. ASSUME clean PROVE InStep' /\ PayloadDelivered' /\ AnswerDelivered'
  <2>1. Chained /\ FrameFits /\ Known
    BY <1>1, <1>3, MovedFits
  <2>2. /\ session'.tx = 1 - session.tx /\ session'.picc = session.picc
        /\ session.picc \in 0..1 /\ session.tx \in 0..1
    BY <1>1, TypedIs DEF Moved, IInv, Sessions
  <2>3. phase' = "idle" /\ outcome' = [ok |-> TRUE, id |-> exchange'.id, length |-> exchange'.length,
                                       chaining |-> exchange'.chaining, got |-> <<>>]
    BY DEF MovedToEnd, Finish
  <2>4. /\ exchange'.id = exchange.id /\ exchange'.length = exchange.length /\ exchange'.chaining = exchange.chaining
        /\ exchange.offset \in Nat /\ exchange.length \in Nat /\ exchange.offset <= exchange.length
    BY <1>1, TypedIs DEF Moved, IInv, Exchanges
  <2>5. Resting'
    <3>1. card.last.type = "R" /\ card.last.ack /\ card.last.number = 1 - session.tx
      BY <2>1 DEF Chained, RBlock
    <3> QED
      BY <1>1, <2>1, <2>2, <3>1 DEF Resting, Chained
  <2>6. Known'
    BY <1>1, <2>1 DEF Known
  <2>7. ~(exchange.offset < exchange.length)
    BY DEF MovedToEnd, HasFrame
  <2>8. exchange.offset = exchange.length
    BY <2>4, <2>7
  <2>9. PayloadDelivered'
    <3>1. outcome'.id = exchange.id /\ outcome'.length = exchange.offset
      BY <2>3, <2>4, <2>8
    <3>2. Ends(card.taken, exchange.id, exchange.offset)
      BY <2>1 DEF Chained
    <3> QED
      BY <1>1, <3>1, <3>2 DEF PayloadDelivered, Delivered, Ends
  <2>10. AnswerDelivered'
    <3>1. exchange.chaining
      BY <2>1, <2>7 DEF FrameFits, MovedToEnd
    <3> QED
      BY <2>3, <2>4, <3>1 DEF AnswerDelivered
  <2> QED
    BY <2>3, <2>5, <2>6, <2>9, <2>10 DEF InStep
<1> QED
  BY <1>1, <1>2, <1>3 DEF IInv, PayloadDelivered, AnswerDelivered

LEMMA ApplicationKeeps ==
    ASSUME IsoDepAssumption, IInv, Application
    PROVE  IInv'
<1>1. Typed' /\ phase = "idle"
  BY ApplicationIsTyped DEF IInv, Application, start_iso_dep_session, reset_iso_dep_session,
     end_iso_dep_session, iso_dep_exchange, Idle
<1>2. air = NoBlock /\ reply = NoBlock
  BY <1>1 DEF IInv, Kept
<1>3. CASE start_iso_dep_session
  <2>1. /\ session'.tx = 0 /\ session'.picc = 0 /\ card' = FreshCard /\ outcome' = None
        /\ held' = "device" /\ protocol' = TRUE /\ clean' = TRUE
        /\ UNCHANGED <<exchange, phase, air, reply, count, faults>>
    BY <1>3 DEF start_iso_dep_session
  <2>2. card'.taken = <<>> /\ card'.expect = 0 /\ card'.ns = 0 /\ card'.last.type = "none"
    BY <2>1 DEF FreshCard, NoBlock
  <2>3. Known' /\ Resting'
    BY <2>1, <2>2 DEF Known, Resting
  <2> QED
    BY <1>1, <1>2, <2>1, <2>3 DEF IInv, Kept, InStep, PayloadDelivered, AnswerDelivered, None
<1>4. CASE reset_iso_dep_session
  BY <1>1, <1>2, <1>4 DEF reset_iso_dep_session, IInv, Kept, PayloadDelivered, AnswerDelivered
<1>5. CASE end_iso_dep_session
  <2>1. /\ UNCHANGED <<session, exchange, phase, air, reply, card, outcome, count, faults, clean>>
        /\ held' = "none" /\ protocol' = FALSE
    BY <1>5 DEF end_iso_dep_session
  <2>2. InStep => InStep'
    BY <1>1, <2>1 DEF InStep, Known, Resting
  <2>3. (PayloadDelivered => PayloadDelivered') /\ (AnswerDelivered => AnswerDelivered')
    BY <2>1 DEF PayloadDelivered, AnswerDelivered, Delivered
  <2> QED
    BY <1>1, <1>2, <2>1, <2>2, <2>3 DEF IInv, Kept
<1>6. CASE iso_dep_exchange
  <2>1. /\ held = "device" /\ count' = count + 1 /\ held' = "exchange" /\ outcome' = None
        /\ UNCHANGED <<session, protocol, card, faults, clean>>
    BY <1>6 DEF iso_dep_exchange
  <2>2. PICK length \in Lengths, chaining \in BOOLEAN :
          /\ exchange' = NewExchange(session, count + 1, length, chaining)
          /\ IF needs_ifs_request(session)
             THEN Send(SBlock("IFS", AtMost(max_inf_len_pcd(session.config), 254)), "ifs")
             ELSE Send(exchange'.frame, "loop")
    BY <1>6 DEF iso_dep_exchange
  <2>3. session \in Sessions /\ length \in Nat /\ count \in Nat /\ count + 1 \in Nat /\ protocol = TRUE
        /\ card.taken \in Seq(Slices)
    <3>0. Typed
      BY DEF IInv
    <3>1. count \in Nat /\ count + 1 \in Nat
      <4>1. count \in 0..MaxExchanges /\ MaxExchanges \in Nat
        BY <3>0, TypedIs DEF IsoDepAssumption
      <4> QED
        BY <4>1
    <3>2. protocol = TRUE
      <4>1. protocol \in BOOLEAN
        BY <3>0, TypedIs
      <4> QED
        BY <2>1, <4>1 DEF IInv, Kept
    <3>3. session \in Sessions /\ card.taken \in Seq(Slices)
      BY <3>0, TypedIs DEF Cards
    <3>4. length \in Nat
      BY DEF IsoDepAssumption
    <3> QED
      BY <3>1, <3>2, <3>3, <3>4
  <2>4. PICK n \in Nat : n = count + 1
    BY <2>3
  <2>5. /\ exchange'.id = n /\ exchange'.length = length /\ exchange'.chaining = chaining
        /\ exchange'.got = <<>> /\ (length = 0 => exchange'.sent_empty)
        /\ exchange'.frame.type = "I" /\ exchange'.frame.number = session.tx /\ exchange'.frame.inf.id = n
        /\ exchange'.frame.inf.from = 0 /\ exchange'.frame.inf.to = exchange'.offset
        /\ (0 < exchange'.offset \/ length = 0)
        /\ exchange'.frame.chaining = (exchange'.offset < length \/ chaining)
    <3>1. exchange' = NewExchange(session, n, length, chaining)
      BY <2>2, <2>4
    <3> QED
      BY ONLY <2>3, <3>1, NewExchangeIs, n \in Nat, chaining \in BOOLEAN
  <2>6. reply' = NoBlock /\ phase' \in {"ifs", "loop"}
    BY <2>2 DEF Send
  <2>7. Fits(air, phase)'
    <3>1. CASE needs_ifs_request(session)
      BY <2>2, <3>1 DEF Send, Fits, SBlock
    <3>2. CASE ~needs_ifs_request(session)
      BY <2>2, <3>2 DEF Send, Fits
    <3> QED
      BY <3>1, <3>2
  <2>8. FrameFits'
    <3>1. exchange'.frame.chaining = (exchange'.offset < exchange'.length \/ exchange'.chaining)
      BY <2>5
    <3> QED
      BY <2>1, <2>5, <3>1 DEF FrameFits
  <2>9. ASSUME clean PROVE Sending' /\ Known'
    <3>1. Known /\ Resting
      BY <1>1, <2>9 DEF IInv, InStep
    <3>2. \A i \in DOMAIN card.taken : card.taken[i].id \in Nat /\ card.taken[i].id <= count
      <4>1. \A i \in DOMAIN card.taken : card.taken[i] \in Slices
        BY <2>3
      <4> QED
        BY <3>1, <4>1 DEF Slices, Known
    <3>3. Known'
      BY <2>1, <2>3, <3>2 DEF Known
    <3>4. NotBegun'
      BY <2>1, <2>3, <2>4, <2>5, <3>2 DEF NotBegun
    <3>5. Resting'
      BY <2>1, <3>1 DEF Resting
    <3> QED
      BY <2>5, <3>3, <3>4, <3>5 DEF Sending
  <2>10. ReplyFits'
    BY <2>6 DEF ReplyFits, NoBlock
  <2>11. outcome'.ok = FALSE
    BY <2>1 DEF None
  <2>12. ASSUME clean PROVE InStep'
    <3>1. phase' # "idle" /\ exchange'.id = count'
      BY <2>1, <2>4, <2>5, <2>6
    <3> QED
      BY <2>7, <2>8, <2>9, <2>10, <2>11, <2>12, <3>1 DEF InStep, Underway
  <2>13. Kept'
    BY <2>1, <2>3, <2>6 DEF Kept
  <2> QED
    BY <1>1, <2>1, <2>11, <2>12, <2>13 DEF IInv, PayloadDelivered, AnswerDelivered
<1> QED
  BY <1>3, <1>4, <1>5, <1>6 DEF Application

\* The card's half of a step.
LEMMA RepliesAre ==
    ASSUME IsoDepAssumption, Numbering = "next", Typed, CardTakes
    PROVE  /\ \E length \in Nat, chunk \in Int : card' = Processed(card, air, length, chunk)
           /\ reply' \in Blocks \cup {Timeout, Garbled} /\ faults' \in 0..MaxLosses
           /\ card' \in Cards /\ CardKnows'
           /\ \/ reply' = card'.last
              \/ reply' = card.last /\ card.last.type = "I"
              \/ reply'.type \notin {"I", "R"}
              \/ air.type = "S" /\ air.code # "WTX"
<1>0. PICK c : c = card'
  OBVIOUS
<1>1. PICK length \in AnswerLengths, chunk \in CardChunks :
        /\ c = Processed(card, air, length, chunk) /\ card' = c
        /\ \/ reply' = ReplyOf(c) /\ UNCHANGED faults
           \/ /\ phase = "loop"
              /\ reply' \in {SBlock("WTX", w) : w \in Wtxms}
              /\ UNCHANGED faults
           \/ /\ faults < MaxLosses /\ faults' = faults + 1
              /\ reply' \in {Timeout, Garbled} \cup (IF card.last.type = "I" THEN {card.last} ELSE {})
  BY <1>0 DEF CardTakes
<1>2. length \in Nat /\ chunk \in Int /\ faults \in 0..MaxLosses /\ MaxLosses \in Nat
  <2>1. AnswerLengths \subseteq Nat /\ CardChunks \subseteq Nat \ {0} /\ MaxLosses \in Nat
    BY DEF IsoDepAssumption
  <2>2. length \in Nat
    BY <2>1
  <2>3. chunk \in Int
    BY <2>1
  <2>4. faults \in 0..MaxLosses
    BY TypedIs
  <2> QED
    BY <2>1, <2>2, <2>3, <2>4
<1>3. card \in Cards /\ air \in Blocks /\ card.last \in Blocks /\ KnowsEnd(card)
  BY TypedIs DEF Cards, CardKnows, KnowsEnd
<1>4. \/ TakesMore(card, c, air)
      \/ TakesAll(card, c, air)
      \/ Continues(card, c, air)
      \/ c = card
  <2>1. c = Processed(card, air, length, chunk)
    BY <1>1
  <2> QED
    BY ONLY <1>2, <1>3, <2>1, ProcessedIs, Numbering = "next"
<1>5. c \in Cards /\ KnowsEnd(c)
  <2>1. CASE TakesMore(card, c, air)
    BY <2>1 DEF TakesMore, RBlock, KnowsEnd
  <2>2. CASE TakesAll(card, c, air)
    BY <2>2 DEF TakesAll, KnowsEnd
  <2>3. CASE Continues(card, c, air)
    BY <2>3 DEF Continues, Answers, KnowsEnd
  <2>4. CASE c = card
    BY <1>3, <2>4
  <2> QED
    BY <1>4, <2>1, <2>2, <2>3, <2>4
<1>6. c.last \in Blocks
  BY <1>5 DEF Cards
<1>7. CASE reply' = ReplyOf(c) /\ UNCHANGED faults
  <2>1. RBlock(0, TRUE) \in Blocks
    <3>1. 0 \in 0..1 /\ TRUE \in BOOLEAN
      OBVIOUS
    <3> QED
      BY <3>1, BlocksAre
  <2>2. \/ reply' = RBlock(0, TRUE) /\ air.type = "S" /\ air.code # "WTX"
        \/ reply' = Timeout
        \/ reply' = c.last
    BY <1>7 DEF ReplyOf
  <2>3. Timeout.type \notin {"I", "R"}
    BY DEF Timeout
  <2> QED
    BY <1>1, <1>2, <1>5, <1>6, <1>7, <2>1, <2>2, <2>3 DEF CardKnows, KnowsEnd
<1>8. CASE reply' \in {SBlock("WTX", w) : w \in Wtxms} /\ UNCHANGED faults
  <2>1. PICK w \in Int : reply' = SBlock("WTX", w)
    BY <1>8 DEF IsoDepAssumption
  <2>2. reply' \in Blocks /\ reply'.type = "S"
    BY <2>1, SBlockIs
  <2> QED
    BY <1>1, <1>2, <1>5, <1>8, <2>2 DEF CardKnows, KnowsEnd
<1>9. CASE /\ faults < MaxLosses /\ faults' = faults + 1
           /\ reply' \in {Timeout, Garbled} \cup (IF card.last.type = "I" THEN {card.last} ELSE {})
  <2>1. faults' \in 0..MaxLosses
    BY <1>2, <1>9
  <2>2. Timeout.type \notin {"I", "R"} /\ Garbled.type \notin {"I", "R"}
    BY DEF Timeout, Garbled
  <2>3. reply' \in {Timeout, Garbled} \/ (reply' = card.last /\ card.last.type = "I")
    BY <1>9
  <2> QED
    BY <1>1, <1>2, <1>3, <1>5, <2>1, <2>2, <2>3 DEF CardKnows, KnowsEnd
<1> QED
  BY <1>1, <1>7, <1>8, <1>9

LEMMA RefusalsAre ==
    ASSUME IsoDepAssumption, Typed, CardRefuses
    PROVE  /\ card' = card /\ faults' \in 0..MaxLosses /\ reply' \in Blocks \cup {Timeout, Garbled}
           /\ reply'.type # "I" /\ (reply'.type = "R" => reply'.ack = FALSE)
<1>1. card' = card /\ faults \in 0..MaxLosses /\ MaxLosses \in Nat
  BY TypedIs DEF CardRefuses, IsoDepAssumption
<1>2. CASE reply' \in {RBlock(n, FALSE) : n \in 0..1} /\ UNCHANGED faults
  <2>1. PICK n \in 0..1 : reply' = RBlock(n, FALSE)
    BY <1>2
  <2>2. reply' \in Blocks
    BY <2>1, BlocksAre
  <2> QED
    BY <1>1, <1>2, <2>1, <2>2 DEF RBlock
<1>3. CASE /\ faults < MaxLosses /\ faults' = faults + 1
           /\ reply' \in {Timeout, SBlock("DESELECT", 0)} \cup {SBlock("IFS", v) : v \in IfsValues}
  <2>1. faults' \in 0..MaxLosses
    BY <1>1, <1>3
  <2>2. CASE reply' = Timeout
    BY <1>1, <2>1, <2>2 DEF Timeout
  <2>3. CASE reply' # Timeout
    <3>1. PICK code \in {"WTX", "IFS", "DESELECT"}, v \in Int : reply' = SBlock(code, v)
      <4>1. 0 \in Int /\ IfsValues \subseteq Int
        BY DEF IsoDepAssumption
      <4> QED
        BY <1>3, <2>3, <4>1
    <3>2. reply' \in Blocks /\ reply'.type = "S"
      BY <3>1, SBlockIs
    <3> QED
      BY <1>1, <2>1, <3>2
  <2> QED
    BY <2>2, <2>3
<1> QED
  BY <1>2, <1>3 DEF CardRefuses

\* What the card has when it takes the frame.
LEMMA FrameIsTaken ==
    ASSUME Typed, Known, FrameFits, Sending, exchange.id = count, NEW q, q = Taken(card, exchange.frame.inf)
    PROVE  /\ Ends(q, exchange.id, exchange.offset)
           /\ \A i \in DOMAIN q : q[i].id <= count
<1>1. PICK s : s = exchange.frame.inf
  OBVIOUS
<1>2. s \in Slices
  <2>1. exchange.frame \in Blocks /\ exchange.frame.type = "I"
    BY TypedIs DEF Exchanges, FrameFits
  <2> QED
    BY <1>1, <2>1, BlocksAre
<1>3. s.id = exchange.id /\ s.to = exchange.offset /\ exchange.id \in Nat
  BY <1>1, TypedIs DEF FrameFits, Exchanges
<1>4. PICK t \in Seq(Slices) : t = card.taken
  BY TypedIs DEF Cards
<1>5. <<>> \in Seq(Slices) /\ Append(<<>>, s) = <<s>> /\ DOMAIN <<>> = {}
  OBVIOUS
<1>6. q = Append(t, s) \/ q = Append(<<>>, s)
  BY <1>1, <1>4, <1>5 DEF Taken
<1>7. Ends(q, s.id, s.to)
  <2>1. CASE s.from = 0
    <3>1. \A i \in DOMAIN t : t[i].id # s.id
      BY <1>1, <1>3, <1>4, <2>1 DEF Sending, NotBegun
    <3>2. Ends(Append(t, s), s.id, s.to)
      BY <1>2, <2>1, <3>1, EndsStarts
    <3>3. Ends(Append(<<>>, s), s.id, s.to)
      <4>1. PICK e \in Seq(Slices) : e = <<>> /\ \A i \in DOMAIN e : e[i].id # s.id
        BY <1>5
      <4>2. Ends(Append(e, s), s.id, s.to)
        BY <1>2, <2>1, <4>1, EndsStarts
      <4> QED
        BY <4>1, <4>2
    <3> QED
      BY <1>6, <3>2, <3>3
  <2>2. CASE s.from # 0
    <3>1. card.open = TRUE /\ Ends(t, s.id, s.from)
      BY <1>1, <1>3, <1>4, <2>2 DEF Sending
    <3>2. PICK i, n : i = s.id /\ n = s.from
      OBVIOUS
    <3>3. Ends(Append(t, s), i, s.to)
      BY <1>2, <3>1, <3>2, EndsGoesOn
    <3>4. q = Append(t, s)
      BY <1>1, <1>4, <3>1 DEF Taken
    <3> QED
      BY <3>2, <3>3, <3>4
  <2> QED
    BY <2>1, <2>2
<1>8. ASSUME NEW i \in DOMAIN q PROVE q[i].id <= count
  <2>1. CASE q = Append(t, s)
    <3>1. CASE i \in DOMAIN t
      <4>1. q[i] = t[i]
        BY <1>2, <2>1, <3>1
      <4> QED
        BY <1>4, <3>1, <4>1 DEF Known
    <3>2. CASE i \notin DOMAIN t
      <4>1. q[i] = s
        BY <1>2, <1>8, <2>1, <3>2
      <4> QED
        BY <1>3, <4>1
    <3> QED
      BY <3>1, <3>2
  <2>2. CASE q = Append(<<>>, s)
    <3>1. q[i] = s
      BY <1>5, <1>8, <2>2
    <3> QED
      BY <1>3, <3>1
  <2> QED
    BY <1>6, <2>1, <2>2
<1> QED
  BY <1>3, <1>7, <1>8

LEMMA CardTyped ==
    ASSUME IsoDepAssumption, Numbering = "next", IInv, Card
    PROVE  /\ Typed' /\ Kept' /\ phase # "idle"
           /\ UNCHANGED <<session, held, protocol, exchange, phase, air, outcome, count, clean>>
<1>1. OnAir /\ UNCHANGED <<session, held, protocol, exchange, phase, air, outcome, count, clean>>
  BY DEF Card, CardTakes, CardRefuses, CardUnchanged
<1>2. phase # "idle"
  BY <1>1 DEF OnAir, IInv, Kept
<1>3. /\ reply' \in Blocks \cup {Timeout, Garbled} /\ faults' \in 0..MaxLosses
      /\ card' \in Cards /\ CardKnows'
  <2>1. Typed
    BY DEF IInv
  <2>2. CASE CardTakes
    BY <2>1, <2>2, RepliesAre
  <2>3. CASE CardRefuses
    <3>1. card' = card /\ faults' \in 0..MaxLosses /\ reply' \in Blocks \cup {Timeout, Garbled}
      BY <2>1, <2>3, RefusalsAre
    <3> QED
      BY <2>1, <3>1, TypedIs DEF CardKnows
  <2> QED
    BY <2>2, <2>3 DEF Card
<1>4. Typed'
  BY <1>1, <1>3, TypedIs, TypedNext DEF IInv
<1>5. Kept'
  BY <1>1, <1>2 DEF IInv, Kept
<1> QED
  BY <1>1, <1>2, <1>4, <1>5

\* The card's step leaves both sides in one of the three relations, and what
\* it replies fits.
LEMMA CardKeepsStep ==
    ASSUME IsoDepAssumption, Numbering = "next", IInv, Card, clean
    PROVE  InStep' /\ outcome'.ok = FALSE
<1>1. /\ Typed /\ phase # "idle"
      /\ UNCHANGED <<session, held, protocol, exchange, phase, air, outcome, count, clean>>
  BY CardTyped DEF IInv
<1>2. /\ Known /\ exchange.id = count /\ outcome.ok = FALSE /\ FrameFits /\ Fits(air, phase)
      /\ Sending \/ Chained \/ Answered
  BY <1>1 DEF IInv, InStep, Underway
<1>3. FrameFits' /\ Fits(air, phase)' /\ exchange'.id = count' /\ outcome'.ok = FALSE /\ phase' # "idle"
  BY <1>1, <1>2 DEF FrameFits, Fits
<1>4. SUFFICES Known' /\ (Sending' \/ Chained' \/ Answered') /\ (phase = "loop" => ReplyFits')
  BY <1>1, <1>3 DEF InStep, Underway
<1>5. /\ session.tx \in 0..1 /\ session.picc \in 0..1 /\ card \in Cards /\ air \in Blocks /\ exchange \in Exchanges
      /\ exchange.frame.chaining \in BOOLEAN
  <2>1. exchange.frame \in Blocks /\ exchange.frame.type = "I"
    BY <1>1, <1>2, TypedIs DEF Exchanges, FrameFits
  <2> QED
    BY <1>1, <2>1, TypedIs, BlocksAre DEF Sessions
<1>6. ASSUME card' = card PROVE Known' /\ (Sending => Sending') /\ (Chained => Chained') /\ (Answered => Answered')
  BY <1>1, <1>2, <1>6 DEF Known, Sending, Resting, NotBegun, Chained, Answered, GotUpTo
<1>7. CASE CardRefuses
  <2>1. card' = card /\ reply'.type # "I" /\ (reply'.type = "R" => reply'.ack = FALSE)
    BY <1>1, <1>7, RefusalsAre
  <2>2. ReplyFits'
    BY <2>1 DEF ReplyFits
  <2> QED
    BY <1>2, <1>6, <2>1, <2>2
<1>8. CASE CardTakes
  <2>1. PICK length \in Nat, chunk \in Int : card' = Processed(card, air, length, chunk)
    BY <1>1, <1>8, RepliesAre
  <2>2. \/ reply' = card'.last
        \/ reply' = card.last /\ card.last.type = "I"
        \/ reply'.type \notin {"I", "R"}
        \/ air.type = "S" /\ air.code # "WTX"
    BY <1>1, <1>8, RepliesAre
  <2>3. PICK c : c = card'
    OBVIOUS
  <2>4. KnowsEnd(card)
    BY <1>1, TypedIs DEF KnowsEnd, CardKnows
  <2>5. \/ air.type = "I" /\ air.number = card.expect /\ air.chaining /\ TakesMore(card, c, air)
        \/ air.type = "I" /\ air.number = card.expect /\ ~air.chaining /\ TakesAll(card, c, air)
        \/ Continues(card, c, air)
        \/ c = card
    <3>1. c = Processed(card, air, length, chunk)
      BY <2>1, <2>3
    <3> QED
      BY ONLY <1>5, <2>4, <3>1, ProcessedIs, Numbering = "next", length \in Nat, chunk \in Int
  <2>6. ASSUME air.type = "I", air.number = card.expect
        PROVE  air = exchange.frame /\ Sending /\ card.expect = session.tx
    <3>1. air = exchange.frame
      BY <1>2, <2>6 DEF Fits, RBlock
    <3>2. card.expect = session.tx
      BY <1>2, <2>6, <3>1 DEF FrameFits
    <3>3. ~Chained /\ ~Answered
      <4>1. PICK n \in 0..1 : n = session.tx
        BY ONLY <1>5
      <4>2. n # 1 - n
        BY ONLY n \in 0..1
      <4> QED
        BY <3>2, <4>1, <4>2 DEF Chained, Answered
    <3> QED
      BY <1>2, <3>1, <3>2, <3>3
  <2>7. CASE air.type = "I" /\ air.number = card.expect /\ air.chaining /\ TakesMore(card, c, air)
    <3>1. air = exchange.frame /\ Sending /\ card.expect = session.tx /\ air.number = session.tx
      BY <2>6, <2>7
    <3>2. /\ c.expect = 1 - session.tx /\ c.open = TRUE /\ c.taken = Taken(card, exchange.frame.inf)
          /\ c.ns = card.ns /\ c.last = RBlock(1 - session.tx, TRUE)
      BY <2>7, <3>1 DEF TakesMore
    <3>3. Ends(c.taken, exchange.id, exchange.offset) /\ \A i \in DOMAIN c.taken : c.taken[i].id <= count
      BY <1>1, <1>2, <3>1, <3>2, FrameIsTaken
    <3>4. Known'
      BY <1>1, <2>3, <3>3 DEF Known
    <3>5. Chained'
      BY <1>1, <2>3, <2>7, <3>1, <3>2, <3>3 DEF Chained, Sending, Resting
    <3>6. ReplyFits'
      <4>1. card.last.type = "I" => card.last.number # session.picc
        BY <1>5, <3>1 DEF Sending, Resting
      <4>2. c.last.type = "R"
        BY <3>2 DEF RBlock
      <4> QED
        BY <1>1, <2>2, <2>3, <2>7, <3>5, <4>1, <4>2 DEF ReplyFits
    <3> QED
      BY <3>4, <3>5, <3>6
  <2>8. CASE air.type = "I" /\ air.number = card.expect /\ ~air.chaining /\ TakesAll(card, c, air)
    <3>1. air = exchange.frame /\ Sending /\ card.expect = session.tx /\ air.number = session.tx
      BY <2>6, <2>8
    <3>2. /\ c.expect = 1 - session.tx /\ c.taken = Taken(card, exchange.frame.inf)
          /\ c.ns = 1 - card.ns /\ c.id = exchange.id
          /\ c.last.type = "I" /\ c.last.number = card.ns
          /\ c.last.inf.id = exchange.id /\ c.last.inf.from = 0 /\ c.last.inf.to <= c.length
          /\ c.last.chaining = (c.last.inf.to < c.length)
      BY <1>2, <2>8, <3>1 DEF TakesAll, FrameFits
    <3>3. Ends(c.taken, exchange.id, exchange.offset) /\ \A i \in DOMAIN c.taken : c.taken[i].id <= count
      BY <1>1, <1>2, <3>1, <3>2, FrameIsTaken
    <3>4. Known'
      BY <1>1, <2>3, <3>3 DEF Known
    <3>5. card.ns = session.picc /\ exchange.got = <<>> /\ ~exchange.frame.chaining
      BY <2>8, <3>1 DEF Sending, Resting
    <3>6. Answered'
      <4>1. GotUpTo(c.last.inf.from)'
        BY <1>1, <2>3, <3>2, <3>5 DEF GotUpTo
      <4> QED
        BY <1>1, <2>3, <3>2, <3>3, <3>5, <4>1 DEF Answered
    <3>7. ReplyFits'
      <4>1. card.last.type = "I" => card.last.number # session.picc
        BY <1>5, <3>1 DEF Sending, Resting
      <4> QED
        BY <1>1, <2>2, <2>3, <2>8, <3>2, <3>6, <4>1 DEF ReplyFits
    <3> QED
      BY <3>4, <3>6, <3>7
  <2>9. CASE Continues(card, c, air)
    <3>1. /\ air.type = "R" /\ card.last.type = "I" /\ card.last.chaining /\ air.number # card.last.number
          /\ Answers(card, c, 1 - card.last.number, card.last.inf.to)
      BY <2>9 DEF Continues, AsksForNext
    <3>2. air = RBlock(session.picc, TRUE) /\ air.number = session.picc
      BY <1>2, <3>1 DEF Fits, FrameFits, RBlock
    <3>3. Answered
      BY <1>2, <3>1 DEF Sending, Resting, Chained, RBlock
    <3>4. card.last.number \in 0..1
      BY <1>1, <1>5, <3>1, BlocksAre DEF Cards
    <3>5. card.last.number = 1 - session.picc
      <4>1. PICK m \in 0..1, n \in 0..1 : m = card.last.number /\ n = session.picc
        BY ONLY <1>5, <3>4
      <4>2. m # n
        BY <3>1, <3>2, <4>1
      <4>3. m = 1 - n
        BY ONLY <4>2, m \in 0..1, n \in 0..1
      <4> QED
        BY <4>1, <4>3
    <3>6. /\ c.expect = card.expect /\ c.taken = card.taken /\ c.id = card.id /\ c.length = card.length
          /\ c.ns = 1 - card.ns /\ c.last.type = "I" /\ c.last.number = session.picc
          /\ c.last.inf.id = card.id /\ c.last.inf.from = card.last.inf.to /\ c.last.inf.to <= c.length
          /\ c.last.chaining = (c.last.inf.to < c.length)
      BY <1>5, <3>1, <3>5 DEF Answers
    <3>7. Known'
      BY <1>1, <1>2, <2>3, <3>6 DEF Known
    <3>8. Answered'
      <4>1. GotUpTo(c.last.inf.from)'
        BY <1>1, <1>5, <2>3, <3>3, <3>5, <3>6 DEF GotUpTo, Answered
      <4>2. c.ns = 1 - c.last.number
        BY <1>5, <3>3, <3>5, <3>6 DEF Answered
      <4> QED
        BY <1>1, <2>3, <3>3, <3>6, <4>1, <4>2 DEF Answered
    <3>9. ReplyFits'
      <4>1. card.last.number # session.picc
        BY <1>5, <3>5
      <4> QED
        BY <1>1, <2>2, <2>3, <3>1, <3>6, <3>8, <4>1 DEF ReplyFits
    <3> QED
      BY <3>7, <3>8, <3>9
  <2>10. CASE c = card
    <3>1. card' = card
      BY <2>3, <2>10
    <3>2. ASSUME phase = "loop" PROVE ReplyFits'
      <4>1. ~(air.type = "S" /\ air.code # "WTX")
        BY <1>2, <3>2 DEF Fits, FrameFits, RBlock
      <4>2. reply' = card.last \/ reply'.type \notin {"I", "R"}
        BY <2>2, <3>1, <4>1
      <4>3. CASE reply' = card.last
        <5>1. CASE Sending
          <6>1. /\ card.last.type = "I" => card.last.number # session.picc
                /\ card.last.type = "R" => card.last.number # 1 - session.tx
            BY <1>5, <5>1 DEF Sending, Resting
          <6> QED
            BY <1>1, <4>3, <6>1 DEF ReplyFits
        <5>2. CASE Chained
          <6>1. Chained'
            BY <1>6, <3>1, <5>2
          <6>2. card.last.type = "R"
            BY <5>2 DEF Chained, RBlock
          <6> QED
            BY <4>3, <6>1, <6>2 DEF ReplyFits
        <5>3. CASE Answered
          <6>1. Answered' /\ card.last.type = "I"
            BY <1>6, <3>1, <5>3 DEF Answered
          <6> QED
            BY <3>1, <4>3, <6>1 DEF ReplyFits
        <5> QED
          BY <1>2, <5>1, <5>2, <5>3
      <4>4. CASE reply'.type \notin {"I", "R"}
        BY <4>4 DEF ReplyFits
      <4> QED
        BY <4>2, <4>3, <4>4
    <3> QED
      BY <1>2, <1>6, <3>1, <3>2
  <2> QED
    BY <2>5, <2>7, <2>8, <2>9, <2>10
<1> QED
  BY <1>7, <1>8 DEF Card

LEMMA CardKeeps ==
    ASSUME IsoDepAssumption, Numbering = "next", IInv, Card
    PROVE  IInv'
<1>1. Typed' /\ Kept' /\ clean' = clean
  BY CardTyped
<1>2. clean => InStep' /\ outcome'.ok = FALSE
  BY CardKeepsStep
<1> QED
  BY <1>1, <1>2 DEF IInv, PayloadDelivered, AnswerDelivered

LEMMA StutteringKeeps ==
    ASSUME IInv, UNCHANGED isoDepVars
    PROVE  IInv'
<1>1. /\ UNCHANGED <<session, held, protocol, exchange, phase, air, reply, card, outcome, count, faults, clean>>
  BY DEF isoDepVars
<1>2. Typed' /\ Kept'
  <2>1. Typed /\ (CardKnows => CardKnows')
    BY <1>1 DEF IInv, CardKnows
  <2>2. Typed'
    BY <1>1, <2>1, TypedIs, TypedNext
  <2> QED
    BY <1>1, <2>2 DEF IInv, Kept
<1>3. InStep => InStep'
  BY <1>1 DEF InStep, Known, Underway, Resting, FrameFits, Fits, Sending, NotBegun, Chained, Answered,
     GotUpTo, ReplyFits
<1>4. (PayloadDelivered => PayloadDelivered') /\ (AnswerDelivered => AnswerDelivered')
  BY <1>1 DEF PayloadDelivered, AnswerDelivered, Delivered
<1> QED
  BY <1>1, <1>2, <1>3, <1>4 DEF IInv

\* A successful exchange delivered its payload to the card once, in order and without a
\* gap, and returns the card's whole answer to it, for payloads and answers of any
\* length, any link parameters, and any number of refusals, extensions and losses;
\* the session is in the device between exchanges and nowhere else (run_iso_dep_loop,
\* iso_dep_exchange).  The card numbers its acknowledgements as the driver expects.
THEOREM ExchangesDeliver ==
    ASSUME IsoDepAssumption, Numbering = "next"
    PROVE  IsoDepSpec => []ExchangeDelivers
<1>1. IsoDepInit => IInv
  BY InitIsInStep
<1>2. IInv /\ [IsoDepNext]_isoDepVars => IInv'
  <2> SUFFICES ASSUME IInv, [IsoDepNext]_isoDepVars PROVE IInv'
    OBVIOUS
  <2>1. CASE Application
    BY <2>1, ApplicationKeeps
  <2>2. CASE Driver
    <3>1. phase # "idle" /\ (Failed \/ Resent \/ AcceptIBlock \/ Acknowledged)
      BY <2>2, DriverDoes DEF IInv
    <3>2. CASE AcceptIBlock
      BY <3>2, AcceptedIs, AcceptedMoreKeeps, AcceptedAllKeeps DEF IInv
    <3>3. CASE Acknowledged
      BY <3>3, AcknowledgedIs, FailureKeeps, MovedOnKeeps, MovedToEndKeeps DEF IInv
    <3> QED
      BY <3>1, <3>2, <3>3, FailureKeeps, ResendKeeps
  <2>3. CASE Card
    BY <2>3, CardKeeps
  <2>4. CASE UNCHANGED isoDepVars
    BY <2>4, StutteringKeeps
  <2> QED
    BY <2>1, <2>2, <2>3, <2>4 DEF IsoDepNext
<1>3. IInv => ExchangeDelivers
  BY DEF IInv, Typed, Kept, ExchangeDelivers, SessionIsKept
<1> QED
  BY <1>1, <1>2, <1>3, PTL DEF IsoDepSpec
=============================================================================
