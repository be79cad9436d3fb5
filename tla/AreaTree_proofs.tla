--------------------------- MODULE AreaTree_proofs ---------------------------
(***************************************************************************)
(* What the builder of an emulated System promises, for trees of any shape *)
(* and size, any codes and any order of insertions: well-formed trees,     *)
(* nested ranges, and overlap Services that share one store.               *)
(***************************************************************************)
EXTENDS AreaTree, SequenceTheorems, WellFoundedInduction, TLAPS

\* The greatest codes are numbers.
LEMMA CodeBounds == MAX_NODE_CODE \in Nat /\ MAX_CODE \in Nat
  BY DEF MAX_NODE_CODE, MAX_CODE

\* Every set of natural numbers that is not empty has a least member.
LEMMA MinIsMember ==
    ASSUME NEW S \in SUBSET Nat, S # {}
    PROVE  Min(S) \in S /\ \A y \in S : Min(S) <= y
<1>1. PICK x \in S : \A y \in S : <<y, x>> \notin OpToRel(<, Nat)
  BY WFMin, NatLessThanWellFounded, Zenon
<1>2. \A y \in S : ~(y < x)
  BY <1>1, Zenon DEF OpToRel
<1>3. \A y \in S : x <= y
  BY <1>2
<1> QED
  BY <1>3 DEF Min

\* The fields of a node, and of a node that is moved or given another store.
LEMMA NodeFields ==
    ASSUME NEW x \in Node
    PROVE  /\ x.code \in Nat /\ x.end \in Nat /\ x.depth \in Nat
           /\ [x EXCEPT !.depth = @ + 1] \in Node
           /\ [x EXCEPT !.depth = @ + 1].area = x.area
           /\ [x EXCEPT !.depth = @ + 1].code = x.code
           /\ [x EXCEPT !.depth = @ + 1].end = x.end
           /\ [x EXCEPT !.depth = @ + 1].depth = x.depth + 1
           /\ \A b : [x EXCEPT !.store = b].store = b
<1>1. x.code \in Nat /\ x.end \in Nat /\ x.depth \in Nat
  <2>1. x.code \in 0..MAX_NODE_CODE /\ x.end \in 0..MAX_NODE_CODE /\ x.depth \in Nat
    BY DEF Node
  <2> QED
    BY <2>1, CodeBounds
<1>2. [x EXCEPT !.depth = @ + 1] \in Node
  BY DEF Node
<1>3. /\ [x EXCEPT !.depth = @ + 1].area = x.area
      /\ [x EXCEPT !.depth = @ + 1].code = x.code
      /\ [x EXCEPT !.depth = @ + 1].end = x.end
      /\ [x EXCEPT !.depth = @ + 1].depth = x.depth + 1
  BY DEF Node
<1>4. \A b : [x EXCEPT !.store = b].store = b
  BY DEF Node
<1> QED
  BY <1>1, <1>2, <1>3, <1>4

\* The nodes of a tree are found at its positions.
LEMMA NodesOf ==
    ASSUME NEW t \in Seq(Node)
    PROVE  /\ Len(t) \in Nat /\ DOMAIN t = 1..Len(t)
           /\ \A i \in DOMAIN t : t[i] \in Node /\ t[i].depth \in Nat
<1>1. Len(t) \in Nat /\ DOMAIN t = 1..Len(t) /\ \A i \in DOMAIN t : t[i] \in Node
  OBVIOUS
<1> QED
  BY <1>1, NodeFields

\* A Service is registered with a Service of the tree that has its number.
LEMMA RegisteredIsService ==
    ASSUME NEW t \in Seq(Node), NEW i \in ServicesOf(t)
    PROVE  Registered(t, i) \in ServicesOf(t)
<1> DEFINE S == {j \in ServicesOf(t) : Overlap(t, i, j)}
<1>1. i \in S /\ S \in SUBSET Nat
  BY DEF ServicesOf, Overlap
<1>2. Min(S) \in S
  BY <1>1, MinIsMember
<1> QED
  BY <1>2 DEF Registered

\* Services that overlap are registered with one Service.
LEMMA OneRegistration ==
    ASSUME NEW t, NEW i, NEW j, Overlap(t, i, j)
    PROVE  Registered(t, i) = Registered(t, j)
<1>1. {k \in ServicesOf(t) : Overlap(t, i, k)} = {k \in ServicesOf(t) : Overlap(t, j, k)}
  BY DEF Overlap
<1> QED
  BY <1>1 DEF Registered

\* Linking changes the stores of Services and nothing else of a tree.
LEMMA LinkingKeepsNodes ==
    ASSUME NEW t \in Seq(Node)
    PROVE  LET s == sync_overlapping_services(t).tree
           IN /\ s \in Seq(Node) /\ Len(s) = Len(t) /\ DOMAIN s = DOMAIN t
              /\ \A i \in DOMAIN t : /\ s[i].area = t[i].area /\ s[i].code = t[i].code
                                     /\ s[i].end = t[i].end /\ s[i].depth = t[i].depth
<1> DEFINE mixed == {i \in ServicesOf(t) : Kind(t[i].code) # Kind(t[Registered(t, i)].code)}
           visited == {i \in ServicesOf(t) : \A m \in mixed : i < m}
           node(i) == IF i \in visited THEN [t[i] EXCEPT !.store = t[Registered(t, i)].store] ELSE t[i]
           s == [i \in DOMAIN t |-> node(i)]
<1>1. ASSUME NEW i \in DOMAIN t
      PROVE  /\ node(i) \in Node
             /\ node(i).area = t[i].area /\ node(i).code = t[i].code
             /\ node(i).end = t[i].end /\ node(i).depth = t[i].depth
  <2>1. t[i] \in Node
    OBVIOUS
  <2>2. CASE i \in visited
    <3>1. Registered(t, i) \in DOMAIN t
      BY <2>2, RegisteredIsService DEF ServicesOf
    <3>2. t[Registered(t, i)] \in Node
      BY <3>1
    <3> QED
      BY <2>1, <2>2, <3>2 DEF Node
  <2>3. CASE i \notin visited
    BY <2>1, <2>3
  <2> QED
    BY <2>2, <2>3
<1>2. DOMAIN t = 1..Len(t) /\ Len(t) \in Nat
  OBVIOUS
<1>3. s \in Seq(Node) /\ Len(s) = Len(t)
  BY <1>1, <1>2, IsASeq
<1>4. sync_overlapping_services(t).tree = s
  BY DEF sync_overlapping_services
<1> HIDE DEF node
<1> QED
  BY <1>1, <1>3, <1>4

\* An accepted linking leaves one store and one kind to all Services of a number.
LEMMA LinkingShares ==
    ASSUME NEW t \in Seq(Node), sync_overlapping_services(t).result = "Ok",
           NEW i \in ServicesOf(sync_overlapping_services(t).tree),
           NEW j \in ServicesOf(sync_overlapping_services(t).tree),
           Overlap(sync_overlapping_services(t).tree, i, j)
    PROVE  LET s == sync_overlapping_services(t).tree
           IN s[i].store = s[j].store /\ Kind(s[i].code) = Kind(s[j].code)
<1> DEFINE s == sync_overlapping_services(t).tree
           mixed == {m \in ServicesOf(t) : Kind(t[m].code) # Kind(t[Registered(t, m)].code)}
<1>1. mixed = {}
  BY DEF sync_overlapping_services
<1>2. /\ i \in ServicesOf(t) /\ j \in ServicesOf(t) /\ Overlap(t, i, j)
      /\ s[i].code = t[i].code /\ s[j].code = t[j].code
  BY LinkingKeepsNodes DEF ServicesOf, Overlap
<1>3. \A k \in ServicesOf(t) : s[k] = [t[k] EXCEPT !.store = t[Registered(t, k)].store]
  BY <1>1 DEF sync_overlapping_services, ServicesOf
<1>4. \A k \in ServicesOf(t) : s[k].store = t[Registered(t, k)].store
  <2> SUFFICES ASSUME NEW k \in ServicesOf(t) PROVE s[k].store = t[Registered(t, k)].store
    OBVIOUS
  <2> DEFINE b == t[Registered(t, k)].store
  <2>1. t[k] \in Node
    BY DEF ServicesOf
  <2>2. s[k] = [t[k] EXCEPT !.store = b]
    BY <1>3
  <2> HIDE DEF b, s
  <2>3. s[k].store = b
    BY <2>1, <2>2, NodeFields
  <2> QED
    BY <2>3 DEF b, s
<1>5. Registered(t, i) = Registered(t, j)
  BY <1>2, OneRegistration
<1>6. Kind(t[i].code) = Kind(t[j].code)
  BY <1>1, <1>2, <1>5
<1> QED
  BY <1>2, <1>4, <1>5, <1>6

\* Moving nodes into a tree puts them behind its own, one level down.
LEMMA PushedNodes ==
    ASSUME NEW t \in Seq(Node), NEW u \in Seq(Node)
    PROVE  /\ Push(t, u) \in Seq(Node) /\ Len(Push(t, u)) = Len(t) + Len(u)
           /\ \A i \in 1..Len(t) : Push(t, u)[i] = t[i]
           /\ \A i \in 1..Len(u) :
                 LET n == Push(t, u)[Len(t) + i]
                 IN /\ n.area = u[i].area /\ n.code = u[i].code /\ n.end = u[i].end
                    /\ n.depth = u[i].depth + 1
<1> DEFINE v == [i \in DOMAIN u |-> [u[i] EXCEPT !.depth = @ + 1]]
<1>1. DOMAIN u = 1..Len(u) /\ Len(u) \in Nat
  OBVIOUS
<1>2. \A i \in 1..Len(u) : /\ v[i] \in Node
                           /\ v[i].area = u[i].area /\ v[i].code = u[i].code
                           /\ v[i].end = u[i].end /\ v[i].depth = u[i].depth + 1
  <2> SUFFICES ASSUME NEW i \in 1..Len(u)
               PROVE  /\ v[i] \in Node
                      /\ v[i].area = u[i].area /\ v[i].code = u[i].code
                      /\ v[i].end = u[i].end /\ v[i].depth = u[i].depth + 1
    OBVIOUS
  <2>1. u[i] \in Node /\ v[i] = [u[i] EXCEPT !.depth = @ + 1]
    BY <1>1
  <2> QED
    BY <2>1, NodeFields
<1>3. v \in Seq(Node) /\ Len(v) = Len(u)
  <2>1. v = [i \in 1..Len(u) |-> v[i]]
    BY <1>1
  <2> HIDE DEF v
  <2> QED
    BY <1>1, <1>2, <2>1, IsASeq
<1>4. Push(t, u) = t \o v
  BY DEF Push
<1> HIDE DEF v
<1>5. /\ t \o v \in Seq(Node) /\ Len(t \o v) = Len(t) + Len(v)
      /\ \A i \in 1..Len(t) : (t \o v)[i] = t[i]
      /\ \A i \in 1..Len(v) : (t \o v)[Len(t) + i] = v[i]
  BY <1>3
<1> QED
  BY <1>2, <1>3, <1>4, <1>5

\* What is moved below an Area: a tree of its own, or one Service.
Branch(u) ==
    /\ u \in Seq(Node) /\ Len(u) > 0 /\ Nested(u)
    /\ \A i \in DOMAIN u : (u[i].depth = 0 <=> i = 1) /\ (~u[i].area => Kind(u[i].code) # "None")
Fits(t, u) ==
    /\ t[1].code <= u[1].code /\ u[1].end <= t[1].end
    /\ u[1].area => Attribute(t[1].code) = 0

\* A good tree that takes a branch is a good tree.
LEMMA PushKeepsGood ==
    ASSUME NEW t, NEW u, GoodTree(t), Branch(u)
    PROVE  GoodTree(Push(t, u))
<1> DEFINE p == Push(t, u)
<1>1. t \in Seq(Node) /\ u \in Seq(Node) /\ Len(t) \in Nat /\ Len(u) \in Nat /\ Len(t) > 0
  BY DEF GoodTree, Branch
<1>2. p \in Seq(Node) /\ Len(p) = Len(t) + Len(u) /\ p[1] = t[1]
  BY <1>1, PushedNodes
<1>3. ASSUME NEW i \in DOMAIN p
      PROVE  (p[i].depth = 0 <=> i = 1) /\ (~p[i].area => Kind(p[i].code) # "None")
  <2>1. CASE i <= Len(t)
    <3>1. p[i] = t[i] /\ i \in DOMAIN t
      <4>1. i \in 1..Len(t) /\ i \in DOMAIN t
        BY <1>1, <1>2, <2>1
      <4> QED
        BY <1>1, <4>1, PushedNodes
    <3> QED
      BY <3>1 DEF GoodTree
  <2>2. CASE i > Len(t)
    <3>1. PICK k \in 1..Len(u) : i = Len(t) + k
      <4>1. i - Len(t) \in 1..Len(u) /\ i = Len(t) + (i - Len(t))
        BY <1>1, <1>2, <2>2
      <4> QED
        BY <4>1
    <3>2. p[i].area = u[k].area /\ p[i].code = u[k].code /\ p[i].depth = u[k].depth + 1
      BY <1>1, <3>1, PushedNodes
    <3>3. u[k].depth \in Nat /\ (~u[k].area => Kind(u[k].code) # "None")
      BY <1>1, NodesOf DEF Branch
    <3> QED
      BY <1>1, <2>2, <3>2, <3>3
  <2> QED
    BY <1>1, <1>2, <2>1, <2>2
<1> QED
  BY <1>1, <1>2, <1>3 DEF GoodTree

\* A nested tree that takes a branch which fits its first Area stays nested.
LEMMA PushKeepsNested ==
    ASSUME NEW t, NEW u, GoodTree(t), Nested(t), Branch(u), Fits(t, u)
    PROVE  Nested(Push(t, u))
<1> DEFINE p == Push(t, u)
           n == Len(t)
<1>1. t \in Seq(Node) /\ u \in Seq(Node) /\ n \in Nat /\ Len(u) \in Nat /\ n > 0 /\ Len(u) > 0
  BY DEF GoodTree, Branch
<1>2. /\ p \in Seq(Node) /\ Len(p) = n + Len(u)
      /\ \A i \in 1..n : p[i] = t[i]
      /\ \A i \in 1..Len(u) :
            /\ p[n + i].area = u[i].area /\ p[n + i].code = u[i].code /\ p[n + i].end = u[i].end
            /\ p[n + i].depth = u[i].depth + 1
  BY <1>1, PushedNodes
<1>3. \A i \in DOMAIN t : t[i].depth \in Nat /\ (t[i].depth = 0 <=> i = 1)
  BY <1>1, NodesOf DEF GoodTree
<1>4. \A i \in DOMAIN u : u[i].depth \in Nat /\ (u[i].depth = 0 <=> i = 1)
  BY <1>1, NodesOf DEF Branch
<1> HIDE DEF p, n
<1>5. SUFFICES ASSUME NEW i \in DOMAIN p, NEW j \in DOMAIN p, Encloses(p, j, i)
               PROVE  /\ p[j].area /\ p[j].code <= p[i].code /\ p[i].end <= p[j].end
                      /\ p[i].area => Attribute(p[j].code) = 0
  BY DEF Nested, p
<1>6. i \in Nat /\ j \in Nat /\ j < i /\ j > 0 /\ i <= n + Len(u)
  <2>1. DOMAIN p = 1..(n + Len(u))
    BY <1>1, <1>2, NodesOf
  <2> QED
    BY <1>1, <1>5, <2>1 DEF Encloses
<1>7. CASE i <= n
  <2>1. /\ i \in DOMAIN t /\ j \in DOMAIN t
        /\ \A k \in (j + 1)..i : p[k] = t[k] /\ p[j] = t[j]
    BY <1>1, <1>2, <1>6, <1>7 DEF n
  <2>2. Encloses(t, j, i) /\ p[i] = t[i] /\ p[j] = t[j]
    BY <1>1, <1>2, <1>5, <1>6, <1>7, <2>1 DEF Encloses
  <2> QED
    BY <2>1, <2>2 DEF Nested
<1>8. CASE i > n /\ j > n
  <2> DEFINE a == i - n
             b == j - n
  <2>1. a \in 1..Len(u) /\ b \in 1..Len(u) /\ i = n + a /\ j = n + b /\ b < a
    BY <1>1, <1>6, <1>8
  <2>2. Encloses(u, b, a)
    <3>1. ASSUME NEW k \in (b + 1)..a PROVE u[k].depth > u[b].depth
      <4>1. k \in 1..Len(u) /\ n + k \in (j + 1)..i
        BY <1>1, <2>1
      <4>2. p[n + k].depth > p[j].depth
        BY <1>5, <4>1 DEF Encloses
      <4> QED
        <5>1. p[n + k].depth = u[k].depth + 1 /\ p[j].depth = u[b].depth + 1
          BY <1>2, <2>1, <4>1
        <5>2. u[k].depth \in Nat /\ u[b].depth \in Nat
          BY <1>1, <1>4, <2>1, <4>1
        <5> QED
          BY <4>2, <5>1, <5>2
    <3> QED
      BY <2>1, <3>1 DEF Encloses
  <2>3. /\ u[b].area /\ u[b].code <= u[a].code /\ u[a].end <= u[b].end
        /\ u[a].area => Attribute(u[b].code) = 0
    BY <1>1, <2>1, <2>2 DEF Branch, Nested
  <2> QED
    BY <1>2, <2>1, <2>3
<1>9. CASE i > n /\ j <= n
  <2>1. j = 1
    <3>1. n + 1 \in (j + 1)..i
      BY <1>1, <1>6, <1>9
    <3>2. p[n + 1].depth > p[j].depth /\ p[n + 1].depth = u[1].depth + 1 /\ p[j] = t[j]
      BY <1>1, <1>2, <1>5, <1>6, <1>9, <3>1 DEF Encloses
    <3>3. u[1].depth = 0
      BY <1>1, <1>4
    <3>4. t[j].depth \in Nat /\ (t[j].depth = 0 <=> j = 1)
      BY <1>1, <1>3, <1>6, <1>9 DEF n
    <3> QED
      BY <3>2, <3>3, <3>4
  <2> DEFINE a == i - n
  <2>2. a \in 1..Len(u) /\ i = n + a
    BY <1>1, <1>6, <1>9
  <2>3. p[j] = t[1] /\ t[1].area
    BY <1>1, <1>2, <2>1 DEF GoodTree
  <2>4. /\ u[1].code <= u[a].code /\ u[a].end <= u[1].end
        /\ a # 1 => u[1].area
    <3>1. CASE a = 1
      <4>1. u[1] \in Node
        BY <1>1
      <4> QED
        <5>1. u[1].code \in Nat /\ u[1].end \in Nat
          BY <4>1, NodeFields
        <5> QED
          BY <3>1, <5>1
    <3>2. CASE a # 1
      <4>1. Encloses(u, 1, a)
        BY <1>1, <1>4, <2>2, <3>2 DEF Encloses
      <4>2. 1 \in DOMAIN u /\ a \in DOMAIN u
        BY <1>1, <2>2
      <4> QED
        BY <4>1, <4>2 DEF Branch, Nested
    <3> QED
      BY <3>1, <3>2
  <2>5. /\ t[1] \in Node /\ u[1] \in Node /\ u[a] \in Node
    BY <1>1, <2>2 DEF n
  <2>6. p[i].area = u[a].area /\ p[i].code = u[a].code /\ p[i].end = u[a].end
    BY <1>2, <2>2
  <2>7. t[1].code <= u[a].code /\ u[a].end <= t[1].end
    BY <2>4, <2>5 DEF Fits, Node
  <2>8. u[a].area => Attribute(t[1].code) = 0
    BY <2>4 DEF Fits
  <2> QED
    BY <2>3, <2>6, <2>7, <2>8
<1> QED
  BY <1>1, <1>6, <1>7, <1>8, <1>9

\* A tree keeps its shape and its ranges when its Services are linked.
LEMMA LinkingKeepsTree ==
    ASSUME NEW t, GoodTree(t), Nested(t)
    PROVE  LET s == sync_overlapping_services(t).tree
           IN GoodTree(s) /\ Nested(s)
<1> DEFINE s == sync_overlapping_services(t).tree
<1>1. t \in Seq(Node)
  BY DEF GoodTree
<1>2. /\ s \in Seq(Node) /\ Len(s) = Len(t) /\ DOMAIN s = DOMAIN t
      /\ \A i \in DOMAIN t : /\ s[i].area = t[i].area /\ s[i].code = t[i].code
                             /\ s[i].end = t[i].end /\ s[i].depth = t[i].depth
  BY <1>1, LinkingKeepsNodes
<1> HIDE DEF s
<1>3. DOMAIN t = 1..Len(t) /\ Len(t) \in Nat /\ Len(t) > 0
  BY <1>1 DEF GoodTree
<1>4. GoodTree(s)
  BY <1>2, <1>3 DEF GoodTree
<1>5. ASSUME NEW i \in DOMAIN s, NEW j \in DOMAIN s, Encloses(s, j, i)
      PROVE  Encloses(t, j, i)
  <2>1. ASSUME NEW k \in (j + 1)..i PROVE t[k].depth > t[j].depth
    <3>1. k \in DOMAIN t
      BY <1>2, <1>3
    <3>2. s[k].depth > s[j].depth
      BY <1>5 DEF Encloses
    <3> QED
      BY <1>2, <3>1, <3>2
  <2> QED
    BY <1>5, <2>1 DEF Encloses
<1>6. Nested(s)
  BY <1>2, <1>5 DEF Nested
<1> QED
  BY <1>4, <1>6 DEF s

\* What a new node is: a tree of one Area, or a branch of one Service.
LEMMA NewAreaIsTree ==
    ASSUME NEW range \in Ranges, validate_area_range(range[1], range[2]) = "Ok"
    PROVE  LET t == <<AreaNode(range[1], range[2])>> IN GoodTree(t) /\ Nested(t)
<1> DEFINE n == AreaNode(range[1], range[2])
<1>1. range[1] \in Nat /\ range[2] \in Nat
  <2>1. range \in (0..MAX_CODE) \X (0..MAX_CODE)
    BY AreaTreeAssumption
  <2> QED
    BY <2>1, CodeBounds
<1>2. range[1] \in 0..MAX_NODE_CODE /\ range[2] \in 0..MAX_NODE_CODE
  <2>1. ~(range[1] > MAX_NODE_CODE) /\ ~(range[2] > MAX_NODE_CODE)
    BY DEF validate_area_range
  <2> QED
    BY <1>1, <2>1, CodeBounds
<1>3. n \in Node /\ n.depth = 0 /\ n.area
  BY <1>2 DEF Node, AreaNode, NoStore
<1> HIDE DEF n
<1>4. GoodTree(<<n>>)
  BY <1>3 DEF GoodTree
<1>5. Nested(<<n>>)
  BY DEF Nested, Encloses
<1> QED
  BY <1>4, <1>5 DEF n

LEMMA NewServiceIsBranch ==
    ASSUME NEW service \in Services, made \in Nat, NEW t, GoodTree(t),
           validate_child_service(t[1], service[1]) = "Ok"
    PROVE  LET u == <<ServiceNode(service[1], service[2])>> IN Branch(u) /\ Fits(t, u)
<1> DEFINE n == ServiceNode(service[1], service[2])
<1>1. service[1] \in Nat /\ service[2] \in Nat
  <2>1. service \in (0..MAX_CODE) \X Nat
    BY AreaTreeAssumption
  <2> QED
    BY <2>1, CodeBounds
<1>2. t[1] \in Node
  BY DEF GoodTree
<1>3. t[1].code \in Nat /\ t[1].end \in Nat
  BY <1>2, NodeFields
<1>4. /\ service[1] \in 0..MAX_NODE_CODE /\ Kind(service[1]) # "None"
      /\ t[1].code <= service[1] /\ service[1] <= t[1].end
  <2>1. /\ ~(service[1] > MAX_NODE_CODE) /\ Kind(service[1]) # "None"
        /\ ~(service[1] < t[1].code) /\ ~(service[1] > t[1].end)
    BY DEF validate_child_service
  <2> QED
    BY <1>1, <1>3, <2>1, CodeBounds
<1>5. /\ n \in Node /\ n.depth = 0 /\ ~n.area
      /\ n.code = service[1] /\ n.end = service[1]
  BY <1>1, <1>4 DEF Node, ServiceNode
<1> HIDE DEF n
<1>6. Nested(<<n>>)
  BY DEF Nested, Encloses
<1>7. Branch(<<n>>) /\ Fits(t, <<n>>)
  BY <1>4, <1>5, <1>6 DEF Branch, Fits
<1> QED
  BY <1>7 DEF n

\* An Area that was accepted as a child is a branch that fits its parent.
LEMMA AcceptedAreaFits ==
    ASSUME NEW t, NEW u, GoodTree(t), GoodTree(u), Nested(u),
           validate_child_area(t[1], u[1]) = "Ok"
    PROVE  Branch(u) /\ Fits(t, u)
<1>1. t[1] \in Node /\ u[1] \in Node
  BY DEF GoodTree
<1>2. t[1].code \in Nat /\ t[1].end \in Nat /\ u[1].code \in Nat /\ u[1].end \in Nat
  BY <1>1, NodeFields
<1>3. Fits(t, u)
  BY <1>2 DEF validate_child_area, Fits
<1> QED
  BY <1>3 DEF GoodTree, Branch

-----------------------------------------------------------------------------
\* The inductive invariant: the Areas under construction nest like the tree, since
\* each of them may become a part of it.
Drafts == \A n \in DOMAIN drafts : GoodTree(drafts[n]) /\ Nested(drafts[n])
Inv == TreeTypeOK /\ RangesNest /\ Drafts /\ AcceptedOverlapsShare

\* An insertion keeps a good tree; if the System accepts it, overlaps share.
LEMMA InsertKeeps ==
    ASSUME Inv, NEW nodes, NEW result, NEW sync, Insert(nodes, result, sync),
           result = "Ok" => Branch(nodes) /\ Fits(tree, nodes)
    PROVE  GoodTree(tree') /\ Nested(tree') /\ AcceptedOverlapsShare'
<1>1. GoodTree(tree) /\ Nested(tree)
  BY DEF Inv, TreeTypeOK, RangesNest
<1>2. CASE result # "Ok"
  <2>1. tree' = tree /\ last' = <<"system", result>>
    BY <1>2 DEF Insert
  <2> QED
    BY <1>1, <1>2, <2>1 DEF AcceptedOverlapsShare
<1>3. CASE result = "Ok"
  <2> DEFINE p == Push(tree, nodes)
             s == sync_overlapping_services(p)
  <2>1. GoodTree(p) /\ Nested(p)
    BY <1>1, <1>3, PushKeepsGood, PushKeepsNested
  <2>2. CASE ~sync
    <3>1. tree' = p /\ last' = <<"root", "Ok">>
      BY <1>3, <2>2 DEF Insert
    <3> QED
      BY <2>1, <3>1 DEF AcceptedOverlapsShare
  <2>3. CASE sync
    <3>1. tree' = s.tree /\ last' = <<"system", s.result>>
      BY <1>3, <2>3 DEF Insert
    <3>2. GoodTree(tree') /\ Nested(tree')
      BY <2>1, <3>1, LinkingKeepsTree
    <3>3. p \in Seq(Node)
      BY <2>1 DEF GoodTree
    <3>4. AcceptedOverlapsShare'
      <4> SUFFICES ASSUME s.result = "Ok",
                          NEW i \in ServicesOf(s.tree), NEW j \in ServicesOf(s.tree), Overlap(s.tree, i, j)
                   PROVE  s.tree[i].store = s.tree[j].store
                          /\ Kind(s.tree[i].code) = Kind(s.tree[j].code)
        BY <3>1 DEF AcceptedOverlapsShare
      <4> QED
        BY <3>3, LinkingShares
    <3> QED
      BY <3>2, <3>4
  <2> QED
    BY <2>2, <2>3
<1> QED
  BY <1>2, <1>3

\* Initially there is Area 0 alone.
LEMMA InitInv == TreeInit => Inv
<1> SUFFICES ASSUME TreeInit PROVE Inv
  OBVIOUS
<1> DEFINE n == AreaNode(ROOT_AREA_CODE, MAX_NODE_CODE)
<1>1. n \in Node /\ n.depth = 0 /\ n.area
  <2>1. ROOT_AREA_CODE \in 0..MAX_NODE_CODE /\ MAX_NODE_CODE \in 0..MAX_NODE_CODE
    <3>1. ROOT_AREA_CODE = 0
      BY DEF ROOT_AREA_CODE
    <3> QED
      BY <3>1, CodeBounds
  <2> QED
    BY <2>1 DEF Node, AreaNode, NoStore
<1> HIDE DEF n
<1>2. tree = <<n>> /\ drafts = <<>> /\ made = 0 /\ last = <<"new", "Ok">>
  BY DEF TreeInit, n
<1>3. GoodTree(<<n>>)
  BY <1>1 DEF GoodTree
<1>4. Nested(<<n>>)
  BY DEF Nested, Encloses
<1>5. TreeTypeOK
  BY <1>2, <1>3, AreaTreeAssumption DEF TreeTypeOK
<1>6. Drafts /\ AcceptedOverlapsShare
  BY <1>2 DEF Drafts, AcceptedOverlapsShare
<1> QED
  BY <1>2, <1>4, <1>5, <1>6 DEF Inv, RangesNest

\* The last draft may go, and a draft may come behind the others.
LEMMA DraftsOf ==
    ASSUME Inv
    PROVE  /\ Len(drafts) \in Nat /\ DOMAIN drafts = 1..Len(drafts)
           /\ \A n \in DOMAIN drafts : GoodTree(drafts[n]) /\ Nested(drafts[n]) /\ drafts[n] \in Seq(Node)
           /\ GoodTree(tree) /\ Nested(tree) /\ made \in Nat
  BY AreaTreeAssumption DEF Inv, TreeTypeOK, Drafts, RangesNest, GoodTree

\* The last two of a sequence give way to one.
LEMMA MergeLast ==
    ASSUME NEW q \in Seq(Seq(Node)), Len(q) > 1, NEW x \in Seq(Node),
           NEW r, r = Append(SubSeq(q, 1, Len(q) - 2), x)
    PROVE  r \in Seq(Seq(Node)) /\ \A n \in DOMAIN r : r[n] = x \/ \E k \in DOMAIN q : r[n] = q[k]
<1> DEFINE m == Len(q) - 2
           p == SubSeq(q, 1, m)
<1>1. m \in Nat /\ DOMAIN q = 1..(m + 2)
  OBVIOUS
<1>2. p \in Seq(Seq(Node)) /\ Len(p) = m /\ \A n \in 1..m : p[n] = q[n]
  <2> HIDE DEF m
  <2>1. p \in Seq(Seq(Node))
    BY <1>1
  <2>2. Len(p) = m
    BY <1>1
  <2>3. \A n \in 1..m : p[n] = q[n]
    BY <1>1
  <2> QED
    BY <2>1, <2>2, <2>3
<1> HIDE DEF p
<1>3. Append(p, x) \in Seq(Seq(Node)) /\ Len(Append(p, x)) = Len(p) + 1
  BY <1>2
<1>4. ASSUME NEW n \in DOMAIN Append(p, x)
      PROVE  Append(p, x)[n] = x \/ \E k \in DOMAIN q : Append(p, x)[n] = q[k]
  <2>1. n \in 1..(Len(p) + 1)
    BY <1>3
  <2>2. CASE n = Len(p) + 1
    BY <1>2, <2>2
  <2>3. CASE n # Len(p) + 1
    <3>1. n \in 1..Len(p)
      BY <1>2, <2>1, <2>3
    <3>2. Append(p, x)[n] = p[n]
      BY <1>2, <3>1
    <3>3. n \in 1..m /\ n \in DOMAIN q
      BY <1>1, <1>2, <3>1
    <3>4. p[n] = q[n]
      BY <1>2, <3>3
    <3> QED
      BY <3>2, <3>3, <3>4
  <2> QED
    BY <2>2, <2>3
<1> QED
  BY <1>3, <1>4 DEF p

\* Every operation keeps the invariant.
LEMMA NextInv == Inv /\ [TreeNext]_treeVars => Inv'
<1> SUFFICES ASSUME Inv, [TreeNext]_treeVars PROVE Inv'
  OBVIOUS
<1> DEFINE len == Len(drafts)
<1>0. /\ len \in Nat /\ DOMAIN drafts = 1..len /\ drafts \in Seq(Seq(Node))
      /\ \A n \in 1..len : GoodTree(drafts[n]) /\ Nested(drafts[n]) /\ drafts[n] \in Seq(Node)
      /\ GoodTree(tree) /\ Nested(tree) /\ made \in Nat /\ made \in 0..MaxMade /\ MaxMade \in Nat
  BY DraftsOf, AreaTreeAssumption DEF Inv, TreeTypeOK
<1>1. ASSUME NEW range \in Ranges, NewArea(range) PROVE Inv'
  <2> DEFINE new == <<AreaNode(range[1], range[2])>>
             ok == validate_area_range(range[1], range[2]) = "Ok"
  <2>1. /\ tree' = tree /\ last' = <<"area", validate_area_range(range[1], range[2])>>
        /\ made' \in 0..MaxMade
    BY <1>0, <1>1 DEF NewArea
  <2>2. drafts' \in Seq(Seq(Node)) /\ \A n \in DOMAIN drafts' : GoodTree(drafts'[n]) /\ Nested(drafts'[n])
    <3>1. CASE ok
      <4>1. GoodTree(new) /\ Nested(new)
        BY <3>1, NewAreaIsTree
      <4>2. drafts' = Append(drafts, new)
        BY <1>1, <3>1 DEF NewArea
      <4>3. new \in Seq(Node)
        BY <4>1 DEF GoodTree
      <4> HIDE DEF new
      <4> QED
        BY <1>0, <4>1, <4>2, <4>3
    <3>2. CASE ~ok
      <4>1. drafts' = drafts
        BY <1>1, <3>2 DEF NewArea
      <4> QED
        BY <1>0, <4>1
    <3> QED
      BY <3>1, <3>2
  <2> QED
    BY <1>0, <2>1, <2>2 DEF Inv, TreeTypeOK, RangesNest, Drafts, AcceptedOverlapsShare
<1>2. ASSUME NEW service \in Services, AreaAddService(service) PROVE Inv'
  <2> DEFINE new == <<ServiceNode(service[1], service[2])>>
             ok == validate_child_service(drafts[len][1], service[1]) = "Ok"
  <2>1. /\ tree' = tree /\ last' = <<"area", validate_child_service(drafts[len][1], service[1])>>
        /\ made' \in 0..MaxMade /\ len > 0
    BY <1>0, <1>2 DEF AreaAddService
  <2>2. drafts' \in Seq(Seq(Node)) /\ \A n \in DOMAIN drafts' : GoodTree(drafts'[n]) /\ Nested(drafts'[n])
    <3>1. CASE ok
      <4> DEFINE grown == Push(drafts[len], new)
      <4>1. GoodTree(drafts[len]) /\ Nested(drafts[len])
        BY <1>0, <2>1
      <4>2. Branch(new) /\ Fits(drafts[len], new)
        BY <1>0, <3>1, <4>1, NewServiceIsBranch
      <4>3. GoodTree(grown) /\ Nested(grown)
        BY <4>1, <4>2, PushKeepsGood, PushKeepsNested
      <4>4. drafts' = [drafts EXCEPT ![len] = grown]
        BY <1>2, <3>1 DEF AreaAddService
      <4>5. grown \in Seq(Node)
        BY <4>3 DEF GoodTree
      <4> HIDE DEF grown
      <4> QED
        BY <1>0, <2>1, <4>3, <4>4, <4>5
    <3>2. CASE ~ok
      <4>1. drafts' = drafts
        BY <1>2, <3>2 DEF AreaAddService
      <4> QED
        BY <1>0, <4>1
    <3> QED
      BY <3>1, <3>2
  <2> QED
    BY <1>0, <2>1, <2>2 DEF Inv, TreeTypeOK, RangesNest, Drafts, AcceptedOverlapsShare
<1>3. ASSUME AreaAddArea PROVE Inv'
  <2> DEFINE ok == validate_child_area(drafts[len - 1][1], drafts[len][1]) = "Ok"
             grown == Push(drafts[len - 1], drafts[len])
  <2>1. /\ tree' = tree /\ made' = made /\ len > 1
        /\ last' = <<"area", validate_child_area(drafts[len - 1][1], drafts[len][1])>>
    BY <1>3 DEF AreaAddArea
  <2>2. /\ GoodTree(drafts[len - 1]) /\ Nested(drafts[len - 1])
        /\ GoodTree(drafts[len]) /\ Nested(drafts[len])
    BY <1>0, <2>1
  <2>3. drafts' \in Seq(Seq(Node)) /\ \A n \in DOMAIN drafts' : GoodTree(drafts'[n]) /\ Nested(drafts'[n])
    <3>1. CASE ok
      <4>1. Branch(drafts[len]) /\ Fits(drafts[len - 1], drafts[len])
        BY <2>2, <3>1, AcceptedAreaFits
      <4>2. GoodTree(grown) /\ Nested(grown)
        BY <2>2, <4>1, PushKeepsGood, PushKeepsNested
      <4>3. drafts' = Append(SubSeq(drafts, 1, len - 2), grown)
        BY <1>3, <3>1 DEF AreaAddArea
      <4>4. grown \in Seq(Node)
        BY <4>2 DEF GoodTree
      <4> HIDE DEF grown
      <4>5. /\ drafts' \in Seq(Seq(Node))
            /\ \A n \in DOMAIN drafts' : drafts'[n] = grown \/ \E k \in DOMAIN drafts : drafts'[n] = drafts[k]
        <5>1. drafts \in Seq(Seq(Node)) /\ Len(drafts) > 1
          BY <1>0, <2>1
        <5> QED
          BY <4>3, <4>4, <5>1, MergeLast
      <4> QED
        BY <1>0, <4>2, <4>5
    <3>2. CASE ~ok
      <4>1. drafts' = SubSeq(drafts, 1, len - 1)
        BY <1>3, <3>2 DEF AreaAddArea
      <4> QED
        BY <1>0, <2>1, <4>1
    <3> QED
      BY <3>1, <3>2
  <2> QED
    BY <1>0, <2>1, <2>3 DEF Inv, TreeTypeOK, RangesNest, Drafts, AcceptedOverlapsShare
<1>4. ASSUME NEW service \in Services, NEW sync, AddService(service, sync) PROVE Inv'
  <2> DEFINE new == <<ServiceNode(service[1], service[2])>>
             result == validate_child_service(tree[1], service[1])
  <2>1. drafts' = drafts /\ made' \in 0..MaxMade /\ Insert(new, result, sync)
    BY <1>0, <1>4 DEF AddService
  <2>2. result = "Ok" => Branch(new) /\ Fits(tree, new)
    BY <1>0, NewServiceIsBranch
  <2>3. GoodTree(tree') /\ Nested(tree') /\ AcceptedOverlapsShare'
    BY <2>1, <2>2, InsertKeeps
  <2> QED
    BY <1>0, <2>1, <2>3 DEF Inv, TreeTypeOK, RangesNest, Drafts
<1>5. ASSUME NEW sync, AddArea(sync) PROVE Inv'
  <2> DEFINE result == validate_child_area(tree[1], drafts[len][1])
  <2>1. /\ drafts' = SubSeq(drafts, 1, len - 1) /\ made' = made /\ len > 0
        /\ Insert(drafts[len], result, sync)
    BY <1>5 DEF AddArea
  <2>2. result = "Ok" => Branch(drafts[len]) /\ Fits(tree, drafts[len])
    <3>1. GoodTree(drafts[len]) /\ Nested(drafts[len])
      BY <1>0, <2>1
    <3> QED
      BY <1>0, <3>1, AcceptedAreaFits
  <2>3. GoodTree(tree') /\ Nested(tree') /\ AcceptedOverlapsShare'
    BY <2>1, <2>2, InsertKeeps
  <2>4. drafts' \in Seq(Seq(Node)) /\ \A n \in DOMAIN drafts' : GoodTree(drafts'[n]) /\ Nested(drafts'[n])
    BY <1>0, <2>1
  <2> QED
    BY <1>0, <2>1, <2>3, <2>4 DEF Inv, TreeTypeOK, RangesNest, Drafts
<1>6. CASE UNCHANGED treeVars
  BY <1>6 DEF treeVars, Inv, TreeTypeOK, RangesNest, Drafts, AcceptedOverlapsShare
<1> QED
  BY <1>1, <1>2, <1>3, <1>4, <1>5, <1>6 DEF TreeNext

\* Every tree the builder makes is one Area with everything below it, of codes the
\* file system can address (EmulatedArea::new, add_service, add_area).
THEOREM TreeIsGood == TreeSpec => []TreeTypeOK
<1>1. Inv => TreeTypeOK
  BY DEF Inv
<1> QED
  BY InitInv, NextInv, <1>1, PTL DEF TreeSpec

\* Trees of any depth nest: each check looks at one parent only, and yet every node
\* lies in the range of all Areas above it (validate_child_service,
\* validate_child_area).
THEOREM TreeNests == TreeSpec => []RangesNest
<1>1. Inv => RangesNest
  BY DEF Inv
<1> QED
  BY InitInv, NextInv, <1>1, PTL DEF TreeSpec

\* After an accepted insertion the Services of a number share one store and one
\* kind, in trees of any shape and however many of them were inserted past the
\* linking (sync_overlapping_services).
THEOREM OverlapsShare == TreeSpec => []AcceptedOverlapsShare
<1>1. Inv => AcceptedOverlapsShare
  BY DEF Inv
<1> QED
  BY InitInv, NextInv, <1>1, PTL DEF TreeSpec
==============================================================================
