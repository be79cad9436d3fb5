-------------------------------- MODULE Wire ---------------------------------
(***************************************************************************)
(* The byte level of the FeliCa packets: what PayloadWriter appends and    *)
(* what the parsers take off the front of a slice.  A packet is described  *)
(* by a layout, a sequence of fields; a field is a tuple whose first       *)
(* component names the call of the code that writes or reads it.           *)
(***************************************************************************)
EXTENDS Integers, Sequences, FiniteSets, SequencesExt

MAX_PACKET_LEN == 255
MAX_SERVICE_CODES == 32
MAX_RW_SERVICE_CODES == 16
MAX_BLOCK_COUNT == 255
MAX_NODE_CODES == 32
MAX_NODE_PROPERTY_CODES == 16
BLOCK_SIZE == 16
DES_BLOCK_SIZE == 8
IDM_LEN == 8

Zeros(n) == [i \in 1..n |-> 0]

\* to_le_bytes and to_be_bytes of a u16, and back.
Le(v) == <<v % 256, v \div 256>>
Be(v) == <<v \div 256, v % 256>>
FromLe(b) == b[1] + 256 * b[2]
FromBe(b) == b[2] + 256 * b[1]

\* A block list element <<number, index, mode>>: BlockListElement::pack.
Pack(e) ==
    LET header == (e[3] % 8) * 16 + (e[2] % 16) IN
    IF e[1] < 256 THEN <<128 + header, e[1]>> ELSE <<header>> \o Le(e[1])

\* An OptionVersion <<major, minor, patch>>: three packed BCD digits.
VersionBytes(v) == <<v[2] * 16 + v[3], 128 + v[1]>>
VersionOf(b) == <<b[2] % 16, b[1] \div 16, b[1] % 16>>
ValidBcd(v) == \A i \in 1..3 : v[i] <= 9
ValidVersion(b) == b[2] \div 16 = 8 /\ ValidBcd(VersionOf(b))

\* One element of a counted list: its width, its bytes, its value.
Width(e) == CASE e = "byte" -> 1 [] e \in {"le", "be", "version"} -> 2 [] e = "range" -> 4
              [] e = "purse" -> 10 [] e = "block" -> BLOCK_SIZE
ElementBytes(e, v) ==
    CASE e = "le" -> Le(v) [] e = "be" -> Be(v) [] e = "byte" -> <<v>>
      [] e = "range" -> Le(v[1]) \o Le(v[2]) [] e = "version" -> VersionBytes(v)
      [] e \in {"block", "purse"} -> v
ElementOf(e, b) ==
    CASE e = "le" -> FromLe(b) [] e = "be" -> FromBe(b) [] e = "byte" -> b[1]
      [] e = "range" -> <<FromLe(b), FromLe(SubSeq(b, 3, 4))>> [] e = "version" -> VersionOf(b)
      [] e \in {"block", "purse"} -> b

Flat(e, s) ==
    LET w == Width(e) IN
    [i \in 1..(w * Len(s)) |-> ElementBytes(e, s[((i - 1) \div w) + 1])[((i - 1) % w) + 1]]
Cut(b, from, n) == SubSeq(b, from + 1, from + n)
Elements(e, b, n) == [i \in 1..n |-> ElementOf(e, Cut(b, (i - 1) * Width(e), Width(e)))]

\* PayloadWriter: the bytes a field appends.  A count is one byte.
Written(field, v) ==
    CASE field[1] = "u8" -> <<v>>
      [] field[1] = "le" -> Le(v)
      [] field[1] = "be" -> Be(v)
      [] field[1] = "bytes" -> v
      [] field[1] = "list" -> <<Len(v)>> \o Flat(field[2], v)
      [] field[1] = "block_list" -> <<Len(v)>> \o FlattenSeq([i \in DOMAIN v |-> Pack(v[i])])

\* extend_bytes(&[0x00; n]) writes no value of the message.
Reserved(field) == field[1] = "zeros"
WriteLayout(layout, values) ==
    LET used(i) == Cardinality({j \in 1..i : ~Reserved(layout[j])})
        part == [i \in DOMAIN layout |->
                    IF Reserved(layout[i]) THEN Zeros(layout[i][2]) ELSE Written(layout[i], values[used(i)])]
    IN FlattenSeq(part)

\* frame_with_length_prefix: LEN counts itself; <<>> stands for the refusal.
Prefixed(payload) == IF Len(payload) + 1 > MAX_PACKET_LEN THEN <<>> ELSE <<Len(payload) + 1>> \o payload

\* pad_to_block_size_pkcs7: nothing is added to whole blocks.
\* Mutant: real PKCS#7, which always adds between 1 and 8 bytes.
PadAlways(data) ==
    LET n == DES_BLOCK_SIZE - (Len(data) % DES_BLOCK_SIZE) IN data \o [i \in 1..n |-> n]

Pad(data) ==
    LET r == Len(data) % DES_BLOCK_SIZE IN
    IF r = 0 THEN data ELSE data \o [i \in 1..(DES_BLOCK_SIZE - r) |-> DES_BLOCK_SIZE - r]

\* A parser in progress: the bytes left and the values taken so far.
Start(bytes) == [ok |-> TRUE, rest |-> bytes, values |-> <<>>]
Fail == [ok |-> FALSE, rest |-> <<>>, values |-> <<>>]
Took(p, n, v) == [ok |-> TRUE, rest |-> SubSeq(p.rest, n + 1, Len(p.rest)), values |-> Append(p.values, v)]
Skip(p, n) == [p EXCEPT !.rest = SubSeq(p.rest, n + 1, Len(p.rest))]

\* parse_fixed: the next n bytes, which stand for the value v.
TakeFixed(p, n, v) == IF Len(p.rest) < n THEN Fail ELSE Took(p, n, v)

\* take_count and take_u16_list: a count in lo..hi, then that many elements.
TakeList(p, e, lo, hi) ==
    IF p.rest = <<>> THEN Fail
    ELSE LET n == p.rest[1] IN
         IF n \notin lo..hi \/ Len(p.rest) < 1 + n * Width(e) THEN Fail
         ELSE Took(p, 1 + n * Width(e), Elements(e, Tail(p.rest), n))

\* take_block_list: an element is two bytes wide if the top bit of its header
\* is set and three otherwise, so the list is walked.
TakeBlockList(p) ==
    IF p.rest = <<>> \/ p.rest[1] \notin 1..MAX_BLOCK_COUNT THEN Fail
    ELSE IF Len(p.rest) < 1 + 2 * p.rest[1] THEN Fail
    ELSE LET b == Tail(p.rest)
             walk[k \in 0..p.rest[1]] ==
                 IF k = 0 THEN [at |-> 0, list |-> <<>>, ok |-> TRUE]
                 ELSE LET w == walk[k - 1]
                          short == b[w.at + 1] >= 128
                          n == IF short THEN 2 ELSE 3
                      IN IF ~w.ok \/ Len(b) < w.at + 1 THEN [w EXCEPT !.ok = FALSE]
                         ELSE IF Len(b) < w.at + n THEN [w EXCEPT !.ok = FALSE]
                         ELSE [at |-> w.at + n, ok |-> TRUE, list |-> Append(w.list,
                                <<IF short THEN b[w.at + 2] ELSE FromLe(SubSeq(b, w.at + 2, w.at + 3)),
                                  b[w.at + 1] % 16, (b[w.at + 1] \div 16) % 8>>)]
             end == walk[p.rest[1]]
         IN IF end.ok THEN Took(p, 1 + end.at, end.list) ELSE Fail

\* The calls every layout shares; a layout's own fields are read by the module
\* that owns it.
TakeField(p, field) ==
    CASE field[1] = "u8" -> TakeFixed(p, 1, p.rest[1])
      [] field[1] = "u8in" -> IF p.rest # <<>> /\ p.rest[1] \in field[2] THEN Took(p, 1, p.rest[1]) ELSE Fail
      [] field[1] = "le" -> TakeFixed(p, 2, FromLe(p.rest))
      [] field[1] = "be" -> TakeFixed(p, 2, FromBe(p.rest))
      [] field[1] = "fixed" -> TakeFixed(p, field[2], SubSeq(p.rest, 1, field[2]))
      [] field[1] = "zeros" -> IF Len(p.rest) >= field[2] /\ SubSeq(p.rest, 1, field[2]) = Zeros(field[2])
                               THEN Skip(p, field[2]) ELSE Fail
      [] field[1] = "list" -> TakeList(p, field[2], field[3], field[4])
      [] field[1] = "block_list" -> TakeBlockList(p)
      [] field[1] = "rest" -> IF Len(p.rest) < field[2] THEN Fail ELSE Took(p, Len(p.rest), p.rest)
      [] field[1] = "data" -> LET n == BLOCK_SIZE * Len(Last(p.values)) IN TakeFixed(p, n, SubSeq(p.rest, 1, n))
      [] field[1] = "end" -> IF p.rest = <<>> THEN p ELSE Fail
      [] field[1] = "padding" -> Skip(p, Len(p.rest))

ReadLayout(layout, bytes, Take(_, _)) ==
    FoldLeft(LAMBDA p, field : IF p.ok THEN Take(p, field) ELSE p, Start(bytes), layout)
==============================================================================
