---------------------------- MODULE Blocks_proofs ----------------------------
(***************************************************************************)
(* Proofs about modules Purse and BlockStore, for fields of any width, any *)
(* limits, any Services that keep the overlap rule and any block lists.    *)
(***************************************************************************)
EXTENDS Purse, BlockStore, SequenceTheorems, WellFoundedInduction, TLAPS

-----------------------------------------------------------------------------
(* One purse block                                                          *)

\* The field widths as integers, and the limits as integers.
LEMMA Widths ==
    ASSUME NEW limit \in Limits \cup {NoLimit}
    PROVE
    /\ SignedMax \in Nat /\ Max = 2 * SignedMax + 1 /\ Max \in Nat
    /\ limit.limited \in BOOLEAN /\ limit.lower \in Int /\ limit.upper \in Int
    /\ limit.limited => -(SignedMax + 1) <= limit.lower /\ limit.upper <= SignedMax
    /\ ~limit.limited => limit.lower = 0 /\ limit.upper = Max
<1>1. SignedMax \in Nat /\ Max = 2 * SignedMax + 1 /\ Max \in Nat
  BY WidthAssumption DEF Max
<1>2. CASE limit \in Limits
  <2>1. limit.limited = TRUE
    BY <1>2 DEF Limits
  <2>2. /\ limit.lower \in -(SignedMax + 1)..SignedMax
        /\ limit.upper \in -(SignedMax + 1)..SignedMax
    BY <1>2 DEF Limits
  <2>3. /\ limit.lower \in Int /\ limit.upper \in Int
        /\ -(SignedMax + 1) <= limit.lower /\ limit.upper <= SignedMax
    BY <1>1, <2>2
  <2> QED
    BY <1>1, <2>1, <2>3
<1>3. CASE limit = NoLimit
  BY <1>1, <1>3 DEF NoLimit
<1> QED
  BY <1>1, <1>2, <1>3

\* What a field's raw value stands for: writing it back gives the same bytes.
LEMMA ValueOfField ==
    ASSUME NEW limit \in Limits \cup {NoLimit}, NEW raw \in Field
    PROVE  /\ ReadValue(raw, limit.limited) \in Int
           /\ WriteValue(ReadValue(raw, limit.limited)) = raw
           /\ ~limit.limited => ReadValue(raw, limit.limited) = raw
BY Widths DEF Field, ReadValue, WriteValue

\* A value within the limits survives being written and read again.
LEMMA FieldOfValue ==
    ASSUME NEW limit \in Limits \cup {NoLimit}, NEW value \in Int, InRange(value, limit)
    PROVE  /\ WriteValue(value) \in Field
           /\ ReadValue(WriteValue(value), limit.limited) = value
           /\ ~limit.limited => WriteValue(value) = value
BY Widths DEF Field, ReadValue, WriteValue, InRange

\* The blocks a decrement and a cashback leave.
Decremented(stored, command, result) ==
    [command EXCEPT !.purse = WriteValue(result), !.cashback = command.purse, !.user = stored.user]
CashedBack(stored, command, result) ==
    [command EXCEPT !.purse = WriteValue(result), !.cashback = 0, !.user = stored.user]

\* The four outcomes of a write that change the block or report success.
LEMMA Outcome ==
    ASSUME NEW limit \in Limits \cup {NoLimit},
           NEW stored \in PurseBlock, NEW command \in PurseBlock, NEW operation \in Operation
    PROVE  LET r == ApplyPurseWrite(stored, command, operation, limit)
               Value(raw) == ReadValue(raw, limit.limited) IN
           \/ r.block = stored /\ r.status \in {1, 2, 3, 165}
           \/ r = Stored(stored) /\ Repeats(stored, command, operation)
           \/ /\ operation = "Direct" /\ r = Stored(command)
              /\ Value(command.purse) <= Value(stored.purse)
              /\ Value(command.cashback) <= Value(stored.cashback)
              /\ InRange(Value(command.purse), limit)
              /\ Value(stored.purse) + Value(command.cashback) <= Max
           \/ \E result \in Int :
                /\ operation = "Decrement" /\ InRange(result, limit)
                /\ result = Value(stored.purse) - Value(command.purse)
                /\ r = Stored(Decremented(stored, command, result))
           \/ \E result \in Int :
                /\ operation = "Cashback" /\ InRange(result, limit)
                /\ result = Value(stored.purse) + Value(command.purse)
                /\ Value(command.purse) <= Value(stored.cashback)
                /\ r = Stored(CashedBack(stored, command, result))
<1> DEFINE Value(raw) == ReadValue(raw, limit.limited)
           r == ApplyPurseWrite(stored, command, operation, limit)
<1>0. /\ stored.purse \in Field /\ stored.cashback \in Field
      /\ command.purse \in Field /\ command.cashback \in Field
  BY DEF PurseBlock
<1>1. /\ Value(stored.purse) \in Int /\ Value(stored.cashback) \in Int
      /\ Value(command.purse) \in Int /\ Value(command.cashback) \in Int
      /\ WriteValue(Value(command.purse)) = command.purse
  BY <1>0, ValueOfField
<1>2. OutOfRange(limit) \in {1, 3} /\ Max \in Nat
  BY Widths DEF OutOfRange
<1>3. CASE Repeats(stored, command, operation)
  BY <1>3 DEF ApplyPurseWrite
<1>4. CASE ~Repeats(stored, command, operation) /\ operation = "Direct"
  <2>1. r = Direct(stored, command, limit)
    BY <1>4 DEF ApplyPurseWrite
  <2>2. \/ r.block = stored /\ r.status \in {1, 2, 3, 165}
        \/ /\ r = Stored(command)
           /\ ~(Value(command.purse) > Value(stored.purse))
           /\ ~(Value(command.cashback) > Value(stored.cashback))
           /\ ~(Value(stored.purse) + Value(command.cashback) > Max)
           /\ InRange(Value(command.purse), limit)
    BY <1>2, <2>1 DEF Direct, Refused
  <2> QED
    BY <1>1, <1>2, <1>4, <2>2
<1>5. CASE ~Repeats(stored, command, operation) /\ operation = "Decrement"
  <2>1. r = Decrement(stored, command, limit)
    BY <1>5 DEF ApplyPurseWrite
  <2> DEFINE result == Value(stored.purse) - Value(command.purse)
  <2>2. result \in Int
    BY <1>1
  <2>3. \/ r.block = stored /\ r.status \in {1, 2, 3, 165}
        \/ /\ InRange(result, limit)
           /\ r = Stored(Decremented(stored, command, result))
    BY <1>1, <1>2, <2>1 DEF Decrement, Decremented, Refused
  <2> QED
    BY <1>5, <2>2, <2>3
<1>6. CASE ~Repeats(stored, command, operation) /\ operation = "Cashback"
  <2>1. r = Cashback(stored, command, limit)
    BY <1>6 DEF ApplyPurseWrite
  <2> DEFINE result == Value(stored.purse) + Value(command.purse)
  <2>2. result \in Int
    BY <1>1
  <2>3. \/ r.block = stored /\ r.status \in {1, 2, 3, 165}
        \/ /\ InRange(result, limit)
           /\ ~(Value(command.purse) > Value(stored.cashback))
           /\ r = Stored(CashedBack(stored, command, result))
    BY <1>2, <2>1 DEF Cashback, CashedBack, Refused
  <2>4. Value(command.purse) > Value(stored.cashback) \/ Value(command.purse) <= Value(stored.cashback)
    BY <1>1
  <2> QED
    BY <1>6, <2>2, <2>3, <2>4
<1> QED
  BY <1>3, <1>4, <1>5, <1>6 DEF Operation

\* What a write leaves behind is a block; if it changed the block its purse is
\* within the limits; if it was counted, it left its execution ID.
LEMMA WriteKeeps ==
    ASSUME NEW limit \in Limits \cup {NoLimit},
           NEW stored \in PurseBlock, NEW command \in PurseBlock, NEW operation \in Operation
    PROVE  LET r == ApplyPurseWrite(stored, command, operation, limit) IN
           /\ r.block \in PurseBlock
           /\ r.status \in {0, 1, 2, 3, 165}
           /\ r.block # stored => InRange(ReadValue(r.block.purse, limit.limited), limit)
           /\ ~limit.limited => r.block.purse + r.block.cashback <= stored.purse + stored.cashback
           /\ operation # "Direct" /\ r.status = 0 => r.block.execution = command.execution
<1> DEFINE Value(raw) == ReadValue(raw, limit.limited)
           r == ApplyPurseWrite(stored, command, operation, limit)
           D(result) == Decremented(stored, command, result)
           C(result) == CashedBack(stored, command, result)
           Goal == /\ r.block \in PurseBlock
                   /\ r.status \in {0, 1, 2, 3, 165}
                   /\ r.block # stored => InRange(Value(r.block.purse), limit)
                   /\ ~limit.limited =>
                        r.block.purse + r.block.cashback <= stored.purse + stored.cashback
                   /\ operation # "Direct" /\ r.status = 0 => r.block.execution = command.execution
<1> SUFFICES Goal
  OBVIOUS
<1>0. /\ stored.purse \in Field /\ stored.cashback \in Field
      /\ command.purse \in Field /\ command.cashback \in Field
      /\ 0 \in Field /\ Field \subseteq Int
      /\ stored.purse \in Int /\ stored.cashback \in Int
      /\ command.purse \in Int /\ command.cashback \in Int
  BY Widths DEF PurseBlock, Field
<1>1. ~limit.limited => /\ Value(stored.purse) = stored.purse
                        /\ Value(stored.cashback) = stored.cashback
                        /\ Value(command.purse) = command.purse
                        /\ Value(command.cashback) = command.cashback
  BY <1>0, ValueOfField
<1>2. CASE r.block = stored /\ r.status \in {1, 2, 3, 165}
  BY <1>0, <1>2
<1>3. CASE r = Stored(stored) /\ Repeats(stored, command, operation)
  BY <1>0, <1>3 DEF Stored, Repeats
<1>4. CASE /\ operation = "Direct" /\ r = Stored(command)
           /\ Value(command.purse) <= Value(stored.purse)
           /\ Value(command.cashback) <= Value(stored.cashback)
           /\ InRange(Value(command.purse), limit)
  <2>1. r.block = command /\ r.status = 0
    BY <1>4 DEF Stored
  <2> QED
    BY <1>0, <1>1, <1>4, <2>1
<1>5. ASSUME NEW result \in Int, InRange(result, limit), r = Stored(D(result)),
             result = Value(stored.purse) - Value(command.purse)
      PROVE  Goal
  <2>1. WriteValue(result) \in Field /\ Value(WriteValue(result)) = result
        /\ (~limit.limited => WriteValue(result) = result)
    BY <1>5, FieldOfValue
  <2>2. r.block = D(result) /\ r.status = 0
    BY <1>5 DEF Stored
  <2>3. D(result) \in PurseBlock /\ D(result).purse = WriteValue(result)
        /\ D(result).cashback = command.purse /\ D(result).execution = command.execution
    BY <1>0, <2>1 DEF PurseBlock, Decremented
  <2>4. ~limit.limited => WriteValue(result) + command.purse <= stored.purse + stored.cashback
    <3>1. stored.cashback >= 0
      BY <1>0, Widths DEF Field
    <3> QED
      BY <1>0, <1>1, <1>5, <2>1, <3>1
  <2> QED
    BY <1>5, <2>1, <2>2, <2>3, <2>4
<1>6. ASSUME NEW result \in Int, InRange(result, limit), r = Stored(C(result)),
             result = Value(stored.purse) + Value(command.purse),
             Value(command.purse) <= Value(stored.cashback)
      PROVE  Goal
  <2>1. WriteValue(result) \in Field /\ Value(WriteValue(result)) = result
        /\ (~limit.limited => WriteValue(result) = result)
    BY <1>6, FieldOfValue
  <2>2. r.block = C(result) /\ r.status = 0
    BY <1>6 DEF Stored
  <2>3. C(result) \in PurseBlock /\ C(result).purse = WriteValue(result)
        /\ C(result).cashback = 0 /\ C(result).execution = command.execution
    BY <1>0, <2>1 DEF PurseBlock, CashedBack
  <2>4. ~limit.limited => WriteValue(result) + 0 <= stored.purse + stored.cashback
    BY <1>0, <1>1, <1>6, <2>1
  <2> QED
    BY <1>6, <2>1, <2>2, <2>3, <2>4
<1>7. \/ r.block = stored /\ r.status \in {1, 2, 3, 165}
      \/ r = Stored(stored) /\ Repeats(stored, command, operation)
      \/ /\ operation = "Direct" /\ r = Stored(command)
         /\ Value(command.purse) <= Value(stored.purse)
         /\ Value(command.cashback) <= Value(stored.cashback)
         /\ InRange(Value(command.purse), limit)
      \/ \E result \in Int : /\ InRange(result, limit) /\ r = Stored(D(result))
                             /\ result = Value(stored.purse) - Value(command.purse)
      \/ \E result \in Int : /\ InRange(result, limit) /\ r = Stored(C(result))
                             /\ result = Value(stored.purse) + Value(command.purse)
                             /\ Value(command.purse) <= Value(stored.cashback)
  BY Outcome
<1> HIDE DEF r, Value, D, C, Goal
<1> QED
  BY <1>2, <1>3, <1>4, <1>5, <1>6, <1>7

\* A write that succeeded, sent again, succeeds and stores the same block.
LEMMA WriteAgain ==
    ASSUME NEW limit \in Limits \cup {NoLimit},
           NEW stored \in PurseBlock, NEW command \in PurseBlock, NEW operation \in Operation,
           ApplyPurseWrite(stored, command, operation, limit).status = 0
    PROVE  LET once == ApplyPurseWrite(stored, command, operation, limit) IN
           /\ once = Stored(once.block)
           /\ ApplyPurseWrite(once.block, command, operation, limit) = once
<1> DEFINE once == ApplyPurseWrite(stored, command, operation, limit)
<1>0. \A b : Stored(b).status = 0 /\ Stored(b).block = b
  BY DEF Stored
<1>1. \A b, sf2 : Refused(b, sf2).status = sf2
  BY DEF Refused
<1>2. OutOfRange(limit) # 0
  BY DEF OutOfRange
<1>3. CASE Repeats(stored, command, operation)
  BY <1>0, <1>3 DEF ApplyPurseWrite
<1>4. CASE operation = "Direct"
  <2>1. once = Direct(stored, command, limit) /\ \A b : ~Repeats(b, command, operation)
    BY <1>4 DEF ApplyPurseWrite, Repeats
  <2>2. /\ ~(ReadValue(command.purse, limit.limited) > ReadValue(stored.purse, limit.limited))
        /\ ~(ReadValue(stored.purse, limit.limited) + ReadValue(command.cashback, limit.limited) > Max)
        /\ InRange(ReadValue(command.purse, limit.limited), limit)
        /\ once = Stored(command)
    BY <1>1, <1>2, <2>1 DEF Direct
  <2>3. /\ ReadValue(command.purse, limit.limited) \in Int
        /\ ReadValue(command.cashback, limit.limited) \in Int
        /\ ReadValue(stored.purse, limit.limited) \in Int
    BY ValueOfField DEF PurseBlock
  <2>4. Direct(command, command, limit) = Stored(command)
    BY <2>2, <2>3, Widths DEF Direct
  <2> QED
    BY <1>0, <1>4, <2>1, <2>2, <2>4 DEF ApplyPurseWrite
<1>5. CASE operation # "Direct" /\ ~Repeats(stored, command, operation)
  <2>1. once.block.execution = command.execution
    BY <1>5, WriteKeeps
  <2>2. Repeats(once.block, command, operation)
    BY <1>5, <2>1 DEF Repeats
  <2>3. once = Stored(once.block)
    BY <1>1, <1>2, <1>5 DEF ApplyPurseWrite, Operation, Decrement, Cashback, Stored, Refused
  <2> QED
    BY <2>2, <2>3 DEF ApplyPurseWrite
<1> QED
  BY <1>3, <1>4, <1>5

\* The block keeps its layout for ever.
THEOREM TypeCorrect == Spec => []TypeOK
<1>1. Init => TypeOK
  BY DEF Init, TypeOK
<1>2. TypeOK /\ [Next]_vars => TypeOK'
  <2> SUFFICES ASSUME TypeOK, [Next]_vars PROVE TypeOK'
    OBVIOUS
  <2>1. CASE Next
    <3>1. PICK operation \in Operation, command \in PurseBlock : Write(operation, command)
      BY <2>1 DEF Next
    <3>2. property \in Limits \cup {NoLimit} /\ block \in PurseBlock /\ property' \in Properties
      BY <3>1, PropertiesAssumption DEF TypeOK, Write
    <3> QED
      BY <3>1, <3>2, WriteKeeps DEF TypeOK, Write
  <2>2. CASE UNCHANGED vars
    BY <2>2 DEF TypeOK, vars
  <2> QED
    BY <2>1, <2>2
<1> QED
  BY <1>1, <1>2, PTL DEF Spec

\* A write that changes the block leaves the purse within its limits.
THEOREM LimitsRespected == Spec => ResultWithinLimits
<1>1. TypeOK /\ [Next]_vars =>
        [block' # block => InRange(ReadValue(block'.purse, property.limited), property)]_vars
  BY WriteKeeps, PropertiesAssumption DEF TypeOK, Next, Write
<1> QED
  BY <1>1, TypeCorrect, PTL DEF Spec, ResultWithinLimits

\* No sequence of writes creates money in an ordinary purse.
THEOREM NothingMinted == Spec => ValueNeverMinted
<1>1. TypeOK /\ [Next]_vars =>
        [~property.limited => block'.purse + block'.cashback <= block.purse + block.cashback]_vars
  BY WriteKeeps, PropertiesAssumption DEF TypeOK, Next, Write
<1> QED
  BY <1>1, TypeCorrect, PTL DEF Spec, ValueNeverMinted

\* Every write can be sent again, for fields of any width and any limits.
THEOREM RetriesAreHarmless == Spec => []RetryIsHarmless
<1>1. TypeOK => RetryIsHarmless
  BY WriteAgain, PropertiesAssumption DEF TypeOK, RetryIsHarmless
<1> QED
  BY <1>1, TypeCorrect, PTL

-----------------------------------------------------------------------------
(* The stores of a System                                                   *)

\* Least elements, and induction, as facts about sets of numbers.
LEMMA LeastOf ==
    ASSUME NEW S \in SUBSET Nat, S # {}
    PROVE  \E x \in S : \A y \in S : x <= y
<1>1. PICK x \in S : \A y \in S : ~ (<<y, x>> \in OpToRel(<, Nat))
  BY WFMin, NatLessThanWellFounded, Zenon
<1>2. \A y \in S : ~(y < x)
  BY <1>1 DEF OpToRel
<1> QED
  BY <1>2

\* A set that has zero and is closed under successor has every number.
LEMMA InductionOn ==
    ASSUME NEW S, 0 \in S, \A n \in Nat : n \in S => n + 1 \in S
    PROVE  \A n \in Nat : n \in S
<1> SUFFICES ASSUME Nat \ S # {} PROVE FALSE
  OBVIOUS
<1>1. PICK x \in Nat \ S : \A y \in Nat \ S : x <= y
  BY LeastOf
<1>2. x - 1 \in Nat /\ x = (x - 1) + 1
  BY <1>1
<1>3. x - 1 \in S
  BY <1>1, <1>2
<1> QED
  BY <1>1, <1>2, <1>3

\* The states of the staged stores, element by element.
Trace(f, store, list) ==
    /\ f = [i \in 0..Len(list) |-> f[i]]
    /\ f[0] = Went(store)
    /\ \A i \in 1..Len(list) : f[i] = ApplyNext(f[i - 1], list, i)

\* The recursive definition of Staged has a solution, and Staged is its last
\* value.
LEMMA StagedTrace ==
    ASSUME NEW store, NEW list, Len(list) \in Nat
    PROVE  \E f : Trace(f, store, list) /\ Staged(store, list) = f[Len(list)]
<1> DEFINE Upto(f, k) == /\ f = [i \in 0..k |-> f[i]]
                         /\ f[0] = Went(store)
                         /\ \A i \in 1..k : f[i] = ApplyNext(f[i - 1], list, i)
           S == {k \in Nat : \E f : Upto(f, k)}
           Rec(f) == [i \in 0..Len(list) |-> IF i = 0 THEN Went(store) ELSE ApplyNext(f[i - 1], list, i)]
<1>1. 0 \in S
  <2> DEFINE f == [i \in 0..0 |-> Went(store)]
  <2>1. Upto(f, 0)
    OBVIOUS
  <2> QED
    BY <2>1
<1>2. ASSUME NEW k \in Nat, k \in S PROVE k + 1 \in S
  <2>1. PICK f : Upto(f, k)
    BY <1>2
  <2> DEFINE g == [i \in 0..(k + 1) |-> IF i = k + 1 THEN ApplyNext(f[k], list, k + 1) ELSE f[i]]
  <2>2. g = [i \in 0..(k + 1) |-> g[i]]
    OBVIOUS
  <2>3. g[0] = Went(store)
    BY <2>1
  <2>4. ASSUME NEW i \in 1..(k + 1) PROVE g[i] = ApplyNext(g[i - 1], list, i)
    <3>1. CASE i = k + 1
      BY <3>1
    <3>2. CASE i \in 1..k
      BY <2>1, <3>2
    <3> QED
      BY <3>1, <3>2
  <2>5. Upto(g, k + 1)
    BY <2>2, <2>3, <2>4
  <2>6. k + 1 \in Nat
    OBVIOUS
  <2> HIDE DEF g, Upto
  <2> QED
    BY <2>5, <2>6, Zenon
<1>3. Len(list) \in S
  <2> HIDE DEF S
  <2> QED
    BY <1>1, <1>2, InductionOn
<1>4. PICK f : Upto(f, Len(list))
  BY <1>3
<1>5. f = Rec(f)
  BY <1>4
<1> DEFINE after == CHOOSE a : a = Rec(a)
<1>6. after = Rec(after)
  BY <1>5, Zenon
<1>7. Staged(store, list) = after[Len(list)]
  BY DEF Staged
<1> HIDE DEF after
<1>8. Trace(after, store, list)
  BY <1>6 DEF Trace
<1> QED
  BY <1>7, <1>8

\* What every step of a command returns.
LEMMA ApplyShape ==
    ASSUME NEW staged, NEW list, NEW i
    PROVE  Apply(staged, list, i) = [status |-> Apply(staged, list, i).status,
                                     blocks |-> Apply(staged, list, i).blocks]
<1>1. \A p, q : Failed(staged, p, q) = [status |-> Failed(staged, p, q).status,
                                        blocks |-> Failed(staged, p, q).blocks]
  BY DEF Failed
<1>2. \A s : Went(s) = [status |-> Went(s).status, blocks |-> Went(s).blocks]
  BY DEF Went
<1>3. \E s, p, q : Apply(staged, list, i) \in {Failed(staged, p, q), Went(s)}
  <2>1. \E s, p, q : WriteRandom(staged, list[i]) \in {Failed(staged, p, q), Went(s)}
    BY DEF WriteRandom
  <2>2. \E s, p, q : WritePurse(staged, list[i], i) \in {Failed(staged, p, q), Went(s)}
    BY DEF WritePurse
  <2>3. \E s, p, q : WriteCyclic(staged, list, RunStart(list, i), i) \in {Failed(staged, p, q), Went(s)}
    BY DEF WriteCyclic
  <2>4. \/ Apply(staged, list, i) = WriteRandom(staged, list[i])
        \/ Apply(staged, list, i) = WritePurse(staged, list[i], i)
        \/ Apply(staged, list, i) = WriteCyclic(staged, list, RunStart(list, i), i)
        \/ Apply(staged, list, i) = Went(staged)
    BY DEF Apply
  <2> QED
    BY <2>1, <2>2, <2>3, <2>4
<1> QED
  BY <1>1, <1>2, <1>3, Zenon

\* The stores after each element of a command that succeeds.
Steps(g, store, list) ==
    /\ g[0] = store
    /\ \A i \in 1..Len(list) : Apply(g[i - 1], list, i) = Went(g[i])

\* The fields of a result without an error.
LEMMA WentFields ==
    ASSUME NEW s
    PROVE  Went(s).status = OK /\ Went(s).blocks = s
BY DEF Went

\* Staged is a result, and without an error it went through every step.
LEMMA StagedShape ==
    ASSUME NEW store, NEW list, Len(list) \in Nat
    PROVE  /\ Staged(store, list) = [status |-> Staged(store, list).status,
                                     blocks |-> Staged(store, list).blocks]
           /\ Staged(store, list).status = OK =>
                \E g : Steps(g, store, list) /\ Staged(store, list) = Went(g[Len(list)])
<1>1. PICK f : Trace(f, store, list) /\ Staged(store, list) = f[Len(list)]
  BY StagedTrace
<1> DEFINE Shaped(r) == r = [status |-> r.status, blocks |-> r.blocks]
<1>2. \A i \in 0..Len(list) : Shaped(f[i])
  <2> DEFINE S == {i \in Nat : i \in 0..Len(list) => Shaped(f[i])}
  <2>1. 0 \in S
    BY <1>1 DEF Trace, Went
  <2>2. ASSUME NEW k \in Nat, k \in S PROVE k + 1 \in S
    <3> SUFFICES ASSUME k + 1 \in 0..Len(list) PROVE Shaped(f[k + 1])
      OBVIOUS
    <3>1. f[k + 1] = ApplyNext(f[k], list, k + 1) /\ Shaped(f[k])
      BY <1>1, <2>2 DEF Trace
    <3>2. CASE f[k].status # OK
      BY <3>1, <3>2 DEF ApplyNext
    <3>3. CASE f[k].status = OK
      <4>1. f[k + 1] = Apply(f[k].blocks, list, k + 1)
        BY <3>1, <3>3 DEF ApplyNext
      <4> QED
        BY <4>1, ApplyShape
    <3> QED
      BY <3>2, <3>3
  <2> HIDE DEF S
  <2>3. \A i \in Nat : i \in S
    BY <2>1, <2>2, InductionOn
  <2> QED
    BY <2>3 DEF S
<1>3. ASSUME f[Len(list)].status = OK
      PROVE  \A i \in 0..Len(list) : f[i].status = OK
  <2> DEFINE S == {k \in Nat : k <= Len(list) => f[Len(list) - k].status = OK}
  <2>1. 0 \in S
    BY <1>3
  <2>2. ASSUME NEW k \in Nat, k \in S PROVE k + 1 \in S
    <3> SUFFICES ASSUME k + 1 <= Len(list) PROVE f[Len(list) - (k + 1)].status = OK
      OBVIOUS
    <3> DEFINE j == Len(list) - k
    <3>1. j \in 1..Len(list) /\ f[j].status = OK /\ Len(list) - (k + 1) = j - 1
      BY <2>2
    <3> HIDE DEF j
    <3>2. f[j] = ApplyNext(f[j - 1], list, j)
      BY <1>1, <3>1 DEF Trace
    <3> QED
      BY <3>1, <3>2 DEF ApplyNext
  <2> HIDE DEF S
  <2>3. \A k \in Nat : k \in S
    BY <2>1, <2>2, InductionOn
  <2>4. ASSUME NEW i \in 0..Len(list) PROVE f[i].status = OK
    <3>1. Len(list) - i \in Nat /\ Len(list) - i <= Len(list) /\ Len(list) - (Len(list) - i) = i
      OBVIOUS
    <3> QED
      BY <2>3, <3>1 DEF S
  <2> QED
    BY <2>4
<1>4. ASSUME f[Len(list)].status = OK
      PROVE  \E g : Steps(g, store, list) /\ Staged(store, list) = Went(g[Len(list)])
  <2> DEFINE g == [i \in 0..Len(list) |-> f[i].blocks]
  <2>1. \A i \in 0..Len(list) : f[i] = Went(g[i])
    BY <1>2, <1>3, <1>4 DEF Went
  <2>2. g[0] = store
    BY <1>1, WentFields DEF Trace
  <2>3. ASSUME NEW i \in 1..Len(list) PROVE Apply(g[i - 1], list, i) = Went(g[i])
    <3>1. i - 1 \in 0..Len(list) /\ i \in 0..Len(list)
      OBVIOUS
    <3>2. f[i] = ApplyNext(f[i - 1], list, i)
      BY <1>1 DEF Trace
    <3>3. f[i] = Apply(f[i - 1].blocks, list, i)
      BY <1>3, <1>4, <3>1, <3>2 DEF ApplyNext
    <3> QED
      BY <2>1, <3>1, <3>3
  <2>4. Staged(store, list) = Went(g[Len(list)])
    BY <1>1, <2>1
  <2> HIDE DEF g
  <2>5. Steps(g, store, list)
    BY <2>2, <2>3 DEF Steps
  <2> QED
    BY <2>4, <2>5
<1> QED
  BY <1>1, <1>2, <1>4

\* Steps that all succeed are what Staged does.
LEMMA StagedBySteps ==
    ASSUME NEW store, NEW list, Len(list) \in Nat, NEW g, Steps(g, store, list)
    PROVE  Staged(store, list) = Went(g[Len(list)])
<1>1. PICK f : Trace(f, store, list) /\ Staged(store, list) = f[Len(list)]
  BY StagedTrace
<1> DEFINE S == {i \in Nat : i \in 0..Len(list) => f[i] = Went(g[i])}
<1>2. 0 \in S
  BY <1>1 DEF Trace, Steps
<1>3. ASSUME NEW k \in Nat, k \in S PROVE k + 1 \in S
  <2> SUFFICES ASSUME k + 1 \in 0..Len(list) PROVE f[k + 1] = Went(g[k + 1])
    OBVIOUS
  <2>1. f[k + 1] = ApplyNext(f[k], list, k + 1) /\ f[k] = Went(g[k])
    BY <1>1, <1>3 DEF Trace
  <2>2. Apply(g[k], list, k + 1) = Went(g[k + 1])
    <3>1. k + 1 \in 1..Len(list) /\ (k + 1) - 1 = k
      OBVIOUS
    <3> QED
      BY <3>1 DEF Steps
  <2> QED
    BY <2>1, <2>2, WentFields DEF ApplyNext
<1> HIDE DEF S
<1>4. Len(list) \in S
  BY <1>2, <1>3, InductionOn
<1> QED
  BY <1>1, <1>4 DEF S

\* The whole list passes validate_block_element, or it does not.
AllPass(list, access, authFree) ==
    \A i \in DOMAIN list : ValidateBlockElement(list[i], access, authFree) = 0

\* The status of the checks is OK exactly when every element passes.
LEMMA ValidationIsOK ==
    ASSUME NEW list, NEW n \in Nat, DOMAIN list = 1..n, NEW access, NEW authFree
    PROVE  Validation(list, access, authFree) = OK <=> AllPass(list, access, authFree)
<1> DEFINE bad == {i \in DOMAIN list : ValidateBlockElement(list[i], access, authFree) # 0}
           first == CHOOSE i \in bad : \A k \in bad : i <= k
<1>1. CASE bad = {}
  BY <1>1 DEF Validation, AllPass
<1>2. CASE bad # {}
  <2>0. bad \in SUBSET Nat
    OBVIOUS
  <2>1. \E i \in bad : \A k \in bad : i <= k
    <3> HIDE DEF bad
    <3> QED
      BY <1>2, <2>0, LeastOf
  <2>2. first \in bad
    BY <2>1
  <2>3. Validation(list, access, authFree)
          = <<ListErrorIndex(first), ValidateBlockElement(list[first], access, authFree)>>
    BY <1>2 DEF Validation
  <2> HIDE DEF first
  <2>4. Validation(list, access, authFree)[1] # 0
    BY <2>2, <2>3 DEF ListErrorIndex
  <2> QED
    BY <1>2, <2>4 DEF OK, AllPass
<1> QED
  BY <1>1, <1>2

\* What a command does: nothing, or every step of it.
LEMMA CommandOutcome ==
    ASSUME NEW store, NEW list, NEW S, list \in Seq(S), NEW authFree
    PROVE  LET result == ApplyBlockWrites(store, list, authFree) IN
           /\ result.status # OK => result.blocks = store
           /\ result.status = OK =>
                /\ AllPass(list, "write", authFree)
                /\ \E g : Steps(g, store, list) /\ result = Went(g[Len(list)])
<1> DEFINE result == ApplyBlockWrites(store, list, authFree)
           checked == Validation(list, "write", authFree)
<1>0. Len(list) \in Nat /\ DOMAIN list = 1..Len(list)
  OBVIOUS
<1>1. checked = OK <=> AllPass(list, "write", authFree)
  BY <1>0, ValidationIsOK, Zenon
<1>2. CASE checked # OK
  <2>1. result = [status |-> checked, blocks |-> store]
    BY <1>2 DEF ApplyBlockWrites
  <2> QED
    BY <1>2, <2>1
<1>3. CASE checked = OK
  <2>1. result = Commit(store, Staged(store, list))
    BY <1>3 DEF ApplyBlockWrites
  <2>2. CASE Staged(store, list).status = OK
    <3>1. result = Staged(store, list)
      BY <2>1, <2>2 DEF Commit
    <3> QED
      BY <1>0, <1>1, <1>3, <2>2, <3>1, StagedShape
  <2>3. CASE Staged(store, list).status # OK
    <3>1. result = [Staged(store, list) EXCEPT !.blocks = store]
      BY <2>1, <2>3 DEF Commit
    <3>2. Staged(store, list) = [status |-> Staged(store, list).status, blocks |-> Staged(store, list).blocks]
      BY <1>0, StagedShape
    <3>3. result.status = Staged(store, list).status /\ result.blocks = store
      BY <3>1, <3>2
    <3> QED
      BY <2>3, <3>3
  <2> QED
    BY <2>2, <2>3
<1> QED
  BY <1>2, <1>3

\* A list that passes, with steps that succeed, is applied by those steps.
LEMMA CommandBySteps ==
    ASSUME NEW store, NEW list, NEW S, list \in Seq(S), NEW authFree,
           AllPass(list, "write", authFree), NEW g, Steps(g, store, list)
    PROVE  ApplyBlockWrites(store, list, authFree) = Went(g[Len(list)])
<1>0. Len(list) \in Nat /\ DOMAIN list = 1..Len(list)
  OBVIOUS
<1>1. Validation(list, "write", authFree) = OK
  BY <1>0, ValidationIsOK, Zenon
<1>2. Staged(store, list) = Went(g[Len(list)])
  BY <1>0, StagedBySteps
<1> QED
  BY <1>1, <1>2, WentFields DEF ApplyBlockWrites, Commit
\* What validate_block_element lets through, for either kind of command.
Passes(e) ==
    /\ e.code \in Codes /\ Node[e.code].registered
    /\ Node[e.code].attribute \in ServiceAttribute /\ AllowsWrite(Node[e.code].attribute)
    /\ e.mode \in {0, 1} /\ (e.mode = 1 => Node[e.code].attribute = "PurseCashback")
    /\ Number(e) \in DOMAIN Count
    /\ e.block \in Nat /\ e.block < Count[Number(e)]
    /\ e.data \in PurseBlock
    /\ Node[e.code].limit \in Limits \cup {NoLimit}

\* A list whose elements all passed the checks.
Passing(list) == list \in Seq(Element) /\ \A i \in 1..Len(list) : Passes(list[i])

\* What validate_block_element guarantees of an element it lets through.
LEMMA ElementPasses ==
    ASSUME NEW e \in Element, NEW authFree, ValidateBlockElement(e, "write", authFree) = 0
    PROVE  Passes(e) /\ (authFree => ~Node[e.code].keyed)
<1> DEFINE node == Node[e.code]
<1>1. e.code # Unlisted /\ e.mode \in {0, 1}
  BY DEF ValidateBlockElement
<1>2. e.code \in Codes /\ e.block \in Nat /\ e.data \in PurseBlock
  BY <1>1 DEF Element
<1>3. node \in NodeRecord
  BY <1>2, StoreAssumption
<1>4. /\ node.attribute # "none" /\ node.registered /\ ~(e.block >= Count[node.number])
      /\ Permitted(node, e.mode, "write", authFree)
  BY <1>1 DEF ValidateBlockElement
<1>5. /\ node.attribute \in ServiceAttribute /\ node.number \in DOMAIN Count
      /\ node.limit \in Limits \cup {NoLimit}
  BY <1>3, <1>4 DEF NodeRecord
<1>6. Count[node.number] \in Nat
  BY <1>5, StoreAssumption
<1>7. e.block < Count[node.number]
  BY <1>2, <1>4, <1>6
<1>8. /\ AllowsWrite(node.attribute) /\ (authFree => ~node.keyed)
      /\ e.mode = 1 => node.attribute = "PurseCashback"
  BY <1>4 DEF Permitted, AllowsCashback
<1> QED
  BY <1>1, <1>2, <1>4, <1>5, <1>7, <1>8 DEF Passes, Number

\* The same for a list.
LEMMA ListPasses ==
    ASSUME NEW list \in Seq(Element), NEW authFree, AllPass(list, "write", authFree)
    PROVE  Passing(list) /\ \A i \in DOMAIN list : authFree => ~Node[list[i].code].keyed
<1>1. DOMAIN list = 1..Len(list) /\ \A i \in 1..Len(list) : list[i] \in Element
  OBVIOUS
<1> QED
  BY <1>1, ElementPasses DEF AllPass, Passing

\* The converse, for an encrypted command.
LEMMA PassesElement ==
    ASSUME NEW e, Passes(e)
    PROVE  ValidateBlockElement(e, "write", FALSE) = 0 \/ e.code = Unlisted
<1>1. ~(e.block >= Count[Node[e.code].number])
  <2>1. Node[e.code].number \in DOMAIN Count /\ e.block \in Nat /\ e.block < Count[Node[e.code].number]
    BY DEF Passes, Number
  <2>2. Count[Node[e.code].number] \in Nat
    BY <2>1, StoreAssumption
  <2> QED
    BY <2>1, <2>2
<1>2. Permitted(Node[e.code], e.mode, "write", FALSE)
  BY DEF Passes, Permitted, AllowsCashback
<1>3. Node[e.code].attribute # "none" /\ Node[e.code].registered /\ e.mode \in {0, 1}
  BY DEF Passes, ServiceAttribute
<1> QED
  BY <1>1, <1>2, <1>3 DEF ValidateBlockElement

\* One store, one kind of Service.
LEMMA OneKind ==
    ASSUME NEW e, NEW d, Passes(e), Passes(d), Number(e) = Number(d)
    PROVE  KindOf(e) = KindOf(d)
BY OverlapAssumption DEF Passes, Number, KindOf

\* The three kinds of Service, what Resolve is for a purse, and the mode
\* otherwise.
LEMMA Kinds ==
    ASSUME NEW e, Passes(e)
    PROVE  /\ KindOf(e) \in {"Random", "Cyclic", "Purse"}
           /\ KindOf(e) = "Purse" => Resolve(e) \in Operation
           /\ KindOf(e) # "Purse" => e.mode = 0
<1>1. KindOf(e) \in {"Random", "Cyclic", "Purse"}
  BY DEF KindOf, Kind
<1>2. Resolve(e) \in Operation
  BY DEF Resolve, Operation, Passes
<1>3. KindOf(e) # "Purse" => e.mode = 0
  <2>1. e.mode = 1 => Node[e.code].attribute = "PurseCashback"
    BY DEF Passes
  <2>2. Kind("PurseCashback") = "Purse"
    BY DEF Kind
  <2>3. e.mode \in {0, 1}
    BY DEF Passes
  <2> QED
    BY <2>1, <2>2, <2>3 DEF KindOf
<1> QED
  BY <1>1, <1>2, <1>3

\* Where a run begins.
StartsRun(list, s, i) ==
    /\ s \in 1..i
    /\ \A j \in s..i : Number(list[j]) = Number(list[i])
    /\ s = 1 \/ Number(list[s - 1]) # Number(list[i])

\* Every element belongs to one run.
LEMMA RunStarts ==
    ASSUME NEW list, NEW i \in Nat \ {0}
    PROVE  /\ StartsRun(list, RunStart(list, i), i)
           /\ \A s : StartsRun(list, s, i) => s = RunStart(list, i)
<1> DEFINE Same == {s \in 1..i : \A j \in s..i : Number(list[j]) = Number(list[i])}
<1>1. i \in Same /\ Same \in SUBSET Nat
  BY SMT
<1>2. PICK s \in Same : \A t \in Same : s <= t
  <2> HIDE DEF Same
  <2> QED
    BY <1>1, LeastOf
<1>3. StartsRun(list, s, i)
  <2>1. SUFFICES ASSUME s # 1, Number(list[s - 1]) = Number(list[i]) PROVE FALSE
    BY <1>2 DEF StartsRun
  <2>2. s - 1 \in 1..i
    BY <2>1, <1>2
  <2>3. ASSUME NEW j \in (s - 1)..i PROVE Number(list[j]) = Number(list[i])
    <3>1. j = s - 1 \/ j \in s..i
      BY <2>2, <1>2
    <3> QED
      BY <2>1, <1>2, <3>1
  <2>4. s - 1 \in Same
    BY <2>2, <2>3
  <2> QED
    BY <1>2, <2>2, <2>4
<1>4. \E t \in 1..i : /\ \A j \in t..i : Number(list[j]) = Number(list[i])
                      /\ t = 1 \/ Number(list[t - 1]) # Number(list[i])
  BY <1>3 DEF StartsRun
<1>5. StartsRun(list, RunStart(list, i), i)
  BY <1>4 DEF RunStart, StartsRun
<1>6. ASSUME NEW t, NEW u, StartsRun(list, t, i), StartsRun(list, u, i), t < u PROVE FALSE
  <2>1. u # 1 /\ u - 1 \in t..i
    BY <1>6 DEF StartsRun
  <2> QED
    BY <1>6, <2>1 DEF StartsRun
<1>7. ASSUME NEW t, StartsRun(list, t, i) PROVE t = RunStart(list, i)
  <2>1. t \in Int /\ RunStart(list, i) \in Int
    BY <1>5, <1>7 DEF StartsRun
  <2>2. ~(t < RunStart(list, i)) /\ ~(RunStart(list, i) < t)
    BY <1>5, <1>6, <1>7
  <2> QED
    BY <2>1, <2>2
<1> QED
  BY <1>5, <1>7

\* A ring that took a run: the run, newest first, in front of the generations
\* that were there, or the ring as it was if it already begins with the run.
LEMMA RingPushed ==
    ASSUME NEW stored \in Seq(PurseBlock), NEW run \in Seq(PurseBlock),
           ApplyCyclicWrite(stored, run).status = 0
    PROVE  LET ring == ApplyCyclicWrite(stored, run).ring IN
           /\ Len(run) <= Len(stored)
           /\ ring \in Seq(PurseBlock) /\ Len(ring) = Len(stored)
           /\ \A x \in 1..Len(run) : ring[x] = run[x]
           /\ \/ ring = stored
              \/ \A x \in (Len(run) + 1)..Len(stored) : ring[x] = stored[x - Len(run)]
<1> DEFINE ring == ApplyCyclicWrite(stored, run).ring
<1>0. Len(stored) \in Nat /\ Len(run) \in Nat
  OBVIOUS
<1>1. Len(run) <= Len(stored)
  <2>1. CASE Len(run) > Len(stored)
    BY <2>1 DEF ApplyCyclicWrite
  <2> QED
    BY <1>0, <2>1
<1>2. CASE SubSeq(stored, 1, Len(run)) = run
  <2>1. ring = stored
    BY <1>0, <1>1, <1>2 DEF ApplyCyclicWrite
  <2>2. \A x \in 1..Len(run) : SubSeq(stored, 1, Len(run))[x] = stored[x]
    BY <1>0, <1>1
  <2> QED
    BY <1>1, <1>2, <2>1, <2>2
<1>3. CASE SubSeq(stored, 1, Len(run)) # run
  <2> DEFINE rest == SubSeq(stored, 1, Len(stored) - Len(run))
  <2>1. ring = run \o rest
    BY <1>0, <1>1, <1>3 DEF ApplyCyclicWrite
  <2>2. /\ rest \in Seq(PurseBlock) /\ Len(rest) = Len(stored) - Len(run)
        /\ \A x \in 1..(Len(stored) - Len(run)) : rest[x] = stored[x]
    BY <1>0, <1>1, SubSeqProperties
  <2> HIDE DEF rest
  <2>3. /\ ring \in Seq(PurseBlock) /\ Len(ring) = Len(run) + Len(rest)
        /\ \A x \in 1..(Len(run) + Len(rest)) : ring[x] = IF x <= Len(run) THEN run[x] ELSE rest[x - Len(run)]
    BY <2>1, <2>2, ConcatProperties
  <2>4. Len(ring) = Len(stored)
    BY <1>0, <1>1, <2>2, <2>3
  <2>5. \A x \in 1..Len(run) : ring[x] = run[x]
    BY <1>0, <1>1, <2>2, <2>3
  <2>6. ASSUME NEW x \in (Len(run) + 1)..Len(stored) PROVE ring[x] = stored[x - Len(run)]
    <3>1. x \in 1..(Len(run) + Len(rest)) /\ ~(x <= Len(run)) /\ x - Len(run) \in 1..(Len(stored) - Len(run))
      BY <1>0, <1>1, <2>2
    <3> QED
      BY <2>2, <2>3, <3>1
  <2> HIDE DEF ring
  <2>7. /\ Len(run) <= Len(stored)
        /\ ring \in Seq(PurseBlock) /\ Len(ring) = Len(stored)
        /\ \A x \in 1..Len(run) : ring[x] = run[x]
        /\ \A x \in (Len(run) + 1)..Len(stored) : ring[x] = stored[x - Len(run)]
    BY <1>1, <2>3, <2>4, <2>5, <2>6
  <2> QED
    BY <2>7 DEF ring
<1> QED
  BY <1>2, <1>3

\* A store of the right shape.
Typed(store) ==
    /\ store \in [DOMAIN Count -> Seq(PurseBlock)]
    /\ \A n \in DOMAIN Count : Len(store[n]) = Count[n]

\* The blocks of the run that ends with element i, in list order.
RunData(list, i) == [j \in 1..(i - RunStart(list, i) + 1) |-> list[RunStart(list, i) + j - 1].data]

\* A run names block 0 only.
AtZero(list, i) == \A j \in RunStart(list, i)..i : list[j].block = 0

\* The data of a run is a sequence of blocks as long as the run.
LEMMA RunDataIs ==
    ASSUME NEW list, Passing(list), NEW i \in 1..Len(list)
    PROVE  /\ RunData(list, i) \in Seq(PurseBlock)
           /\ Len(RunData(list, i)) = i - RunStart(list, i) + 1
           /\ RunStart(list, i) \in 1..i
<1> DEFINE s == RunStart(list, i)
<1>0. Len(list) \in Nat /\ i \in Nat \ {0}
  BY DEF Passing
<1>1. s \in 1..i
  BY <1>0, RunStarts DEF StartsRun
<1> HIDE DEF s
<1>2. i - s + 1 \in Nat
  BY <1>0, <1>1
<1>3. ASSUME NEW j \in 1..(i - s + 1) PROVE list[s + j - 1].data \in PurseBlock
  <2>1. s + j - 1 \in 1..Len(list)
    BY <1>0, <1>1
  <2> QED
    BY <2>1 DEF Passing, Passes
<1>4. RunData(list, i) \in [1..(i - s + 1) -> PurseBlock]
  BY <1>3 DEF RunData, s
<1>5. RunData(list, i) \in Seq(PurseBlock)
  BY <1>2, <1>4, IsASeq
<1>6. Len(RunData(list, i)) = i - s + 1
  BY <1>2, <1>4, <1>5
<1> QED
  BY <1>1, <1>5, <1>6 DEF s

\* Equal results hold equal stores.
LEMMA WentOnce ==
    ASSUME NEW a, NEW b, Went(a) = Went(b)
    PROVE  a = b
BY WentFields

\* What one step of a command changes when it succeeds.
LEMMA NotFailed ==
    ASSUME NEW staged, NEW after, NEW p, NEW q, q # 0
    PROVE  Went(after) # Failed(staged, p, q)
<1>1. Failed(staged, p, q).status = <<p, q>> /\ Went(after).status = <<0, 0>>
  BY DEF Failed, Went, OK
<1> QED
  BY <1>1

\* What a successful step does, by the kind of its Service: a random block.
LEMMA RandomStep ==
    ASSUME NEW list, NEW i, NEW staged, NEW after, Apply(staged, list, i) = Went(after),
           KindOf(list[i]) = "Random"
    PROVE  after = [staged EXCEPT ![Number(list[i])][list[i].block + 1] = list[i].data]
<1>1. Apply(staged, list, i) = WriteRandom(staged, list[i])
  BY DEF Apply
<1> QED
  BY <1>1, WentOnce DEF WriteRandom

\* A purse block.
LEMMA PurseStep ==
    ASSUME NEW list, NEW i, NEW staged, NEW after, Apply(staged, list, i) = Went(after),
           KindOf(list[i]) = "Purse",
           NEW result, result = ApplyPurseWrite(staged[Number(list[i])][list[i].block + 1], list[i].data,
                                                Resolve(list[i]), Node[list[i].code].limit)
    PROVE  /\ result.status = 0
           /\ after = [staged EXCEPT ![Number(list[i])][list[i].block + 1] = result.block]
<1>1. Apply(staged, list, i) = WritePurse(staged, list[i], i)
  BY DEF Apply
<1>2. Went(after) = IF result.status # 0 THEN Failed(staged, ListErrorIndex(i), result.status)
                    ELSE Went([staged EXCEPT ![Number(list[i])][list[i].block + 1] = result.block])
  BY <1>1 DEF WritePurse
<1>3. result.status = 0
  BY <1>2, NotFailed
<1> QED
  BY <1>2, <1>3, WentOnce

\* An element inside a run changes nothing.
LEMMA CyclicRest ==
    ASSUME NEW list, NEW i, NEW staged, NEW after, Apply(staged, list, i) = Went(after),
           KindOf(list[i]) = "Cyclic", ~EndsRun(list, i)
    PROVE  after = staged
BY WentOnce DEF Apply

\* The last element of a run pushes the whole of it.
LEMMA CyclicStep ==
    ASSUME NEW list, NEW i, NEW staged, NEW after, Apply(staged, list, i) = Went(after),
           KindOf(list[i]) = "Cyclic", EndsRun(list, i),
           NEW result, result = ApplyCyclicWrite(staged[Number(list[i])], RunData(list, i))
    PROVE  /\ AtZero(list, i)
           /\ result.status = 0
           /\ after = [staged EXCEPT ![Number(list[i])] = result.ring]
<1> DEFINE s == RunStart(list, i)
           astray == {j \in s..i : list[j].block # 0}
           first == CHOOSE j \in astray : \A k \in astray : j <= k
<1>1. Went(after) = WriteCyclic(staged, list, s, i)
  BY DEF Apply
<1>2. Went(after) = IF astray # {} THEN Failed(staged, ListErrorIndex(first), 165)
                    ELSE IF result.status # 0 THEN Failed(staged, ListErrorIndex(s), result.status)
                    ELSE Went([staged EXCEPT ![Number(list[i])] = result.ring])
  BY <1>1 DEF WriteCyclic, RunData
<1> HIDE DEF s, astray, first
<1>3. astray = {}
  BY <1>2, NotFailed
<1>4. result.status = 0
  BY <1>2, <1>3, NotFailed
<1>5. after = [staged EXCEPT ![Number(list[i])] = result.ring]
  BY <1>2, <1>3, <1>4, WentOnce
<1> QED
  BY <1>3, <1>4, <1>5 DEF astray, s, AtZero

\* A step keeps the shape of the stores and touches one store only.
LEMMA ApplyKeeps ==
    ASSUME NEW list, Passing(list), NEW i \in 1..Len(list),
           NEW staged, Typed(staged), NEW after, Apply(staged, list, i) = Went(after)
    PROVE  /\ Typed(after)
           /\ \A m \in DOMAIN Count : m # Number(list[i]) => after[m] = staged[m]
<1> DEFINE e == list[i]
           n == Number(e)
           at == e.block + 1
<1>0. Passes(e)
  BY DEF Passing
<1>1. n \in DOMAIN Count /\ e.block \in Nat /\ e.block < Count[n] /\ e.data \in PurseBlock
      /\ Node[e.code].limit \in Limits \cup {NoLimit}
  BY <1>0 DEF Passes
<1>2. /\ staged \in [DOMAIN Count -> Seq(PurseBlock)] /\ \A m \in DOMAIN Count : Len(staged[m]) = Count[m]
      /\ Count[n] \in Nat
  BY <1>1, StoreAssumption DEF Typed
<1>3. staged[n] \in Seq(PurseBlock) /\ Len(staged[n]) = Count[n] /\ at \in 1..Len(staged[n])
  BY <1>1, <1>2
<1>4. ASSUME NEW b \in PurseBlock, after = [staged EXCEPT ![n][at] = b]
      PROVE  Typed(after) /\ \A m \in DOMAIN Count : m # n => after[m] = staged[m]
  <2> DEFINE line == [staged[n] EXCEPT ![at] = b]
  <2>1. line \in Seq(PurseBlock) /\ Len(line) = Count[n]
    BY <1>3, ExceptSeq
  <2> HIDE DEF line
  <2>2. after = [staged EXCEPT ![n] = line]
    BY <1>4 DEF line
  <2> QED
    BY <1>1, <1>2, <2>1, <2>2 DEF Typed
<1>5. ASSUME NEW ring \in Seq(PurseBlock), Len(ring) = Count[n], after = [staged EXCEPT ![n] = ring]
      PROVE  Typed(after) /\ \A m \in DOMAIN Count : m # n => after[m] = staged[m]
  BY <1>1, <1>2, <1>5 DEF Typed
<1>6. CASE KindOf(e) = "Random"
  BY <1>1, <1>4, <1>6, RandomStep
<1>7. CASE KindOf(e) = "Purse"
  <2>1. PICK result : result = ApplyPurseWrite(staged[n][at], e.data, Resolve(e), Node[e.code].limit)
    OBVIOUS
  <2>2. after = [staged EXCEPT ![n][at] = result.block]
    BY <1>7, <2>1, PurseStep
  <2>3. staged[n][at] \in PurseBlock /\ Resolve(e) \in Operation
    BY <1>0, <1>3, <1>7, Kinds
  <2>4. result.block \in PurseBlock
    BY <1>1, <2>1, <2>3, WriteKeeps
  <2> QED
    BY <1>4, <2>2, <2>4
<1>8. CASE KindOf(e) = "Cyclic" /\ ~EndsRun(list, i)
  BY <1>8, CyclicRest
<1>9. CASE KindOf(e) = "Cyclic" /\ EndsRun(list, i)
  <2>1. PICK result : result = ApplyCyclicWrite(staged[n], RunData(list, i))
    OBVIOUS
  <2>2. result.status = 0 /\ after = [staged EXCEPT ![n] = result.ring]
    BY <1>9, <2>1, CyclicStep
  <2>3. result.ring \in Seq(PurseBlock) /\ Len(result.ring) = Count[n]
    BY <1>3, <2>1, <2>2, RingPushed, RunDataIs
  <2> QED
    BY <1>5, <2>2, <2>3
<1> QED
  BY <1>0, <1>6, <1>7, <1>8, <1>9, Kinds

\* Every stage of a command that succeeds is a store of the right shape.
LEMMA StepsTyped ==
    ASSUME NEW list, Passing(list), NEW store, Typed(store), NEW g, Steps(g, store, list)
    PROVE  \A i \in 0..Len(list) : Typed(g[i])
<1> DEFINE S == {i \in Nat : i \in 0..Len(list) => Typed(g[i])}
<1>1. 0 \in S
  BY DEF Steps
<1>2. ASSUME NEW k \in Nat, k \in S PROVE k + 1 \in S
  <2> SUFFICES ASSUME k + 1 \in 0..Len(list) PROVE Typed(g[k + 1])
    OBVIOUS
  <2>1. k + 1 \in 1..Len(list) /\ (k + 1) - 1 = k /\ Typed(g[k])
    BY <1>2 DEF Passing
  <2>2. Apply(g[k], list, k + 1) = Went(g[k + 1])
    BY <2>1 DEF Steps
  <2> QED
    BY <2>1, <2>2, ApplyKeeps
<1> HIDE DEF S
<1>3. \A k \in Nat : k \in S
  BY <1>1, <1>2, InductionOn
<1> QED
  BY <1>3 DEF S, Passing

\* Elements j + 1..i touch no store but their own.
LEMMA StepsTouch ==
    ASSUME NEW list, Passing(list), NEW store, Typed(store), NEW g, Steps(g, store, list),
           NEW n \in DOMAIN Count, NEW j \in 0..Len(list), NEW i \in j..Len(list),
           \A k \in (j + 1)..i : Number(list[k]) # n
    PROVE  g[i][n] = g[j][n]
<1>0. Len(list) \in Nat
  BY DEF Passing
<1> DEFINE S == {d \in Nat : j + d <= i => g[j + d][n] = g[j][n]}
<1>1. 0 \in S
  OBVIOUS
<1>2. ASSUME NEW k \in Nat, k \in S PROVE k + 1 \in S
  <2> SUFFICES ASSUME j + (k + 1) <= i PROVE g[j + (k + 1)][n] = g[j][n]
    OBVIOUS
  <2> DEFINE x == j + k
  <2>1. x + 1 \in 1..Len(list) /\ (x + 1) - 1 = x /\ x \in 0..Len(list) /\ x + 1 \in (j + 1)..i /\ j + (k + 1) = x + 1
    BY <1>0
  <2>2. g[x][n] = g[j][n]
    BY <1>2
  <2> HIDE DEF x
  <2>3. Apply(g[x], list, x + 1) = Went(g[x + 1])
    BY <2>1 DEF Steps
  <2>4. Typed(g[x])
    BY <2>1, StepsTyped
  <2>5. g[x + 1][n] = g[x][n]
    BY <2>1, <2>3, <2>4, ApplyKeeps
  <2> QED
    BY <2>1, <2>2, <2>5
<1> HIDE DEF S
<1>3. \A k \in Nat : k \in S
  BY <1>1, <1>2, InductionOn
<1>4. i - j \in Nat /\ j + (i - j) <= i /\ j + (i - j) = i
  BY <1>0
<1> QED
  BY <1>3, <1>4 DEF S

\* The lists of the model are sequences of elements.
LEMMA ListsAre == \A list \in Lists : list \in Seq(Element)
BY StoreAssumption

\* Whatever commands apply_block_writes takes, every store keeps its number of
\* blocks and every block its layout.
THEOREM StoresKeepTheirSize == StoreSpec => []StoreTypeOK
<1>1. StoreInit => StoreTypeOK
  <2> SUFFICES ASSUME StoreInit PROVE StoreTypeOK
    OBVIOUS
  <2>1. ASSUME NEW n \in DOMAIN Count
        PROVE  [i \in 1..Count[n] |-> Initial] \in Seq(PurseBlock) /\ Len([i \in 1..Count[n] |-> Initial]) = Count[n]
    <3>1. Count[n] \in Nat /\ Initial \in PurseBlock
      BY StoreAssumption
    <3>2. [i \in 1..Count[n] |-> Initial] \in Seq(PurseBlock)
      BY <3>1, IsASeq
    <3> QED
      BY <3>1, <3>2
  <2> QED
    BY <2>1 DEF StoreInit, StoreTypeOK
<1>2. StoreTypeOK /\ [StoreNext]_blocks => StoreTypeOK'
  <2>1. ASSUME StoreTypeOK, NEW list \in Lists, NEW authFree,
               blocks' = ApplyBlockWrites(blocks, list, authFree).blocks
        PROVE  StoreTypeOK'
    <3> DEFINE result == ApplyBlockWrites(blocks, list, authFree)
    <3>1. list \in Seq(Element) /\ Typed(blocks)
      BY <2>1, ListsAre DEF StoreTypeOK, Typed
    <3>2. CASE result.status # OK
      <4>1. blocks' = blocks
        BY <2>1, <3>1, <3>2, CommandOutcome
      <4> QED
        BY <2>1, <4>1 DEF StoreTypeOK
    <3>3. CASE result.status = OK
      <4>1. /\ AllPass(list, "write", authFree)
            /\ \E g : Steps(g, blocks, list) /\ result = Went(g[Len(list)])
        BY <3>1, <3>3, CommandOutcome
      <4>2. PICK g : Steps(g, blocks, list) /\ result = Went(g[Len(list)])
        BY <4>1
      <4>3. Passing(list)
        BY <3>1, <4>1, ListPasses
      <4>4. Typed(g[Len(list)])
        BY <3>1, <4>2, <4>3, StepsTyped
      <4>5. blocks' = g[Len(list)]
        BY <2>1, <4>2, WentFields
      <4> QED
        BY <4>4, <4>5 DEF Typed, StoreTypeOK
    <3> QED
      BY <3>2, <3>3
  <2>2. CASE UNCHANGED blocks
    BY <2>2 DEF StoreTypeOK
  <2> QED
    BY <2>1, <2>2 DEF StoreNext, HandleWrite, HandleSecureWrite
<1> QED
  BY <1>1, <1>2, PTL DEF StoreSpec

\* A command that succeeds passed every check and went through all its steps.
LEMMA SuccessPasses ==
    ASSUME NEW store, NEW list \in Seq(Element), NEW authFree,
           ApplyBlockWrites(store, list, authFree).status = OK
    PROVE  /\ Passing(list)
           /\ \A i \in 1..Len(list) : authFree => ~Node[list[i].code].keyed
<1>1. AllPass(list, "write", authFree)
  BY CommandOutcome
<1>2. Passing(list) /\ \A i \in DOMAIN list : authFree => ~Node[list[i].code].keyed
  BY <1>1, ListPasses
<1>3. DOMAIN list = 1..Len(list)
  OBVIOUS
<1> QED
  BY <1>2, <1>3

\* A command that succeeds went through steps, each of them on a store of the
\* right shape.
LEMMA SuccessSteps ==
    ASSUME NEW store, Typed(store), NEW list \in Seq(Element), NEW authFree,
           ApplyBlockWrites(store, list, authFree).status = OK
    PROVE  \E g : /\ Steps(g, store, list)
                  /\ ApplyBlockWrites(store, list, authFree) = Went(g[Len(list)])
                  /\ ApplyBlockWrites(store, list, authFree).blocks = g[Len(list)]
                  /\ \A i \in 0..Len(list) : Typed(g[i])
<1>1. PICK g : Steps(g, store, list) /\ ApplyBlockWrites(store, list, authFree) = Went(g[Len(list)])
  BY CommandOutcome
<1>2. \A i \in 0..Len(list) : Typed(g[i])
  BY <1>1, SuccessPasses, StepsTyped
<1> QED
  BY <1>1, <1>2, WentFields

\* A store changes only through a writable Service of its own.
LEMMA ChangeAuthorised ==
    ASSUME NEW store, Typed(store), NEW list \in Seq(Element), NEW authFree, NEW n \in DOMAIN Count,
           ApplyBlockWrites(store, list, authFree).blocks[n] # store[n]
    PROVE  \E i \in DOMAIN list :
             /\ Number(list[i]) = n
             /\ AllowsWrite(Node[list[i].code].attribute)
             /\ authFree => ~Node[list[i].code].keyed
<1>1. ApplyBlockWrites(store, list, authFree).status = OK
  BY CommandOutcome
<1>2. Passing(list) /\ \A i \in 1..Len(list) : authFree => ~Node[list[i].code].keyed
  BY <1>1, SuccessPasses
<1>3. PICK g : Steps(g, store, list) /\ ApplyBlockWrites(store, list, authFree).blocks = g[Len(list)]
  BY <1>1, SuccessSteps
<1>4. g[Len(list)][n] # g[0][n]
  BY <1>3 DEF Steps
<1>5. 0 \in 0..Len(list) /\ Len(list) \in 0..Len(list) /\ 0 + 1 = 1
  OBVIOUS
<1>6. \E i \in 1..Len(list) : Number(list[i]) = n
  BY <1>2, <1>3, <1>4, <1>5, StepsTouch
<1> QED
  BY <1>2, <1>6 DEF Passing, Passes

\* A store changes only through a writable Service of its own that the command
\* names, and without encryption only through one without a key
\* (validate_block_element in front of apply_block_writes).
THEOREM ChangesAreAuthorised == StoreSpec => []ChangeIsAuthorised
<1>1. StoreTypeOK => ChangeIsAuthorised
  <2>1. StoreTypeOK => Typed(blocks)
    BY DEF StoreTypeOK, Typed
  <2> QED
    BY <2>1, ListsAre, ChangeAuthorised DEF ChangeIsAuthorised
<1> QED
  BY <1>1, StoresKeepTheirSize, PTL

\* After each step a ring is k blocks of the list in front of its former head.
Shifted(ring, stored, list, n, k) ==
    /\ k \in 0..Count[n]
    /\ \A x \in (k + 1)..Count[n] : ring[x] = stored[x - k]
    /\ \A x \in 1..k : \E j \in DOMAIN list : Number(list[j]) = n /\ ring[x] = list[j].data

\* One step pushes a ring further, or leaves it.
LEMMA StepShifts ==
    ASSUME NEW list, Passing(list), NEW i \in 1..Len(list),
           NEW staged, Typed(staged), NEW after, Apply(staged, list, i) = Went(after),
           NEW n \in DOMAIN Count, Number(list[i]) = n => KindOf(list[i]) = "Cyclic",
           NEW stored, NEW k, Shifted(staged[n], stored, list, n, k)
    PROVE  \E l : Shifted(after[n], stored, list, n, l)
<1> DEFINE run == RunData(list, i)
           s == RunStart(list, i)
           m == Len(run)
           ring == ApplyCyclicWrite(staged[n], run).ring
<1>1. CASE Number(list[i]) # n
  BY <1>1, ApplyKeeps
<1>2. CASE Number(list[i]) = n /\ ~EndsRun(list, i)
  BY <1>2, CyclicRest
<1>3. CASE Number(list[i]) = n /\ EndsRun(list, i)
  <2>0. Len(list) \in Nat /\ DOMAIN list = 1..Len(list) /\ i \in Nat \ {0}
    BY DEF Passing
  <2>1. /\ ApplyCyclicWrite(staged[n], run).status = 0
        /\ after = [staged EXCEPT ![n] = ring]
    BY <1>3, CyclicStep
  <2>2. /\ run \in Seq(PurseBlock) /\ m = i - s + 1 /\ s \in 1..i
    BY RunDataIs
  <2>3. staged[n] \in Seq(PurseBlock) /\ Len(staged[n]) = Count[n] /\ after[n] = ring
    BY <2>1 DEF Typed
  <2>4. Count[n] \in Nat /\ k \in 0..Count[n]
    BY StoreAssumption DEF Shifted
  <2>5. /\ m <= Count[n]
        /\ \A x \in 1..m : ring[x] = run[x]
        /\ \/ ring = staged[n]
           \/ \A x \in (m + 1)..Count[n] : ring[x] = staged[n][x - m]
    BY <2>1, <2>2, <2>3, RingPushed
  <2>6. ASSUME NEW x \in 1..m
        PROVE  \E j \in DOMAIN list : Number(list[j]) = n /\ ring[x] = list[j].data
    <3> DEFINE j == s + x - 1
    <3>1. j \in s..i /\ j \in DOMAIN list
      BY <2>0, <2>2
    <3>2. Number(list[j]) = n
      BY <1>3, <2>0, <3>1, RunStarts DEF StartsRun
    <3>3. run[x] = list[j].data
      BY <2>2 DEF RunData
    <3> HIDE DEF j
    <3> QED
      BY <2>5, <3>1, <3>2, <3>3
  <2> HIDE DEF ring, run, s, m
  <2>7. CASE ring = staged[n]
    BY <2>3, <2>7
  <2>8. CASE \A x \in (m + 1)..Count[n] : ring[x] = staged[n][x - m]
    <3> DEFINE l == IF k + m <= Count[n] THEN k + m ELSE Count[n]
    <3>0. m \in Nat /\ k \in Nat /\ l \in 0..Count[n]
      BY <2>0, <2>2, <2>4
    <3>1. ASSUME NEW x \in (l + 1)..Count[n] PROVE ring[x] = stored[x - l]
      <4>1. /\ l = k + m /\ x \in (m + 1)..Count[n] /\ x - m \in (k + 1)..Count[n]
            /\ (x - m) - k = x - l
        BY <2>4, <3>0
      <4> QED
        BY <2>8, <4>1 DEF Shifted
    <3>2. ASSUME NEW x \in 1..l
          PROVE  \E j \in DOMAIN list : Number(list[j]) = n /\ ring[x] = list[j].data
      <4>1. CASE x <= m
        <5>1. x \in 1..m
          BY <2>4, <3>0, <4>1
        <5> QED
          BY <2>6, <5>1
      <4>2. CASE x > m
        <5>1. x \in (m + 1)..Count[n] /\ x - m \in 1..k
          BY <2>4, <3>0, <4>2
        <5> QED
          BY <2>8, <5>1 DEF Shifted
      <4> QED
        BY <3>0, <4>1, <4>2
    <3> HIDE DEF l
    <3>3. Shifted(ring, stored, list, n, l)
      BY <3>0, <3>1, <3>2 DEF Shifted
    <3> QED
      BY <2>3, <3>3
  <2> QED
    BY <2>5, <2>7, <2>8
<1> QED
  BY <1>1, <1>2, <1>3

\* So do all of them.
LEMMA StepsShift ==
    ASSUME NEW list, Passing(list), NEW store, Typed(store), NEW g, Steps(g, store, list),
           NEW n \in DOMAIN Count, \A i \in 1..Len(list) : Number(list[i]) = n => KindOf(list[i]) = "Cyclic"
    PROVE  \E k : Shifted(g[Len(list)][n], store[n], list, n, k)
<1> DEFINE S == {i \in Nat : i \in 0..Len(list) => \E k : Shifted(g[i][n], store[n], list, n, k)}
<1>0. Len(list) \in Nat
  BY DEF Passing
<1>1. 0 \in S
  <2>1. Count[n] \in Nat
    BY StoreAssumption
  <2>2. Shifted(store[n], store[n], list, n, 0)
    BY <2>1 DEF Shifted
  <2> QED
    BY <2>2 DEF Steps
<1>2. ASSUME NEW k \in Nat, k \in S PROVE k + 1 \in S
  <2> SUFFICES ASSUME k + 1 \in 0..Len(list) PROVE \E l : Shifted(g[k + 1][n], store[n], list, n, l)
    OBVIOUS
  <2>1. k + 1 \in 1..Len(list) /\ (k + 1) - 1 = k /\ k \in 0..Len(list)
    BY <1>0
  <2>2. PICK l : Shifted(g[k][n], store[n], list, n, l)
    BY <1>2, <2>1
  <2>3. Apply(g[k], list, k + 1) = Went(g[k + 1])
    BY <2>1 DEF Steps
  <2>4. Typed(g[k])
    BY <2>1, StepsTyped
  <2> QED
    BY <2>1, <2>2, <2>3, <2>4, StepShifts
<1> HIDE DEF S
<1>3. Len(list) \in S
  BY <1>0, <1>1, <1>2, InductionOn
<1> QED
  BY <1>0, <1>3 DEF S

\* apply_cyclic_write never reorders the generations of a ring and loses only the
\* oldest: after any command the ring is some of the command's data in front of
\* its former head, however many runs the command has.
THEOREM RingsKeepTheirOrder == StoreSpec => []RingKeepsOrder
<1>1. StoreTypeOK => RingKeepsOrder
  <2> SUFFICES ASSUME StoreTypeOK, NEW list \in Lists,
                      NEW n \in {Number(list[i]) : i \in
                                   {j \in DOMAIN list : /\ ApplyBlockWrites(blocks, list, FALSE).status = OK
                                                        /\ KindOf(list[j]) = "Cyclic"}}
               PROVE  \E k \in 0..Count[n] :
                        /\ SubSeq(ApplyBlockWrites(blocks, list, FALSE).blocks[n], k + 1, Count[n])
                             = SubSeq(blocks[n], 1, Count[n] - k)
                        /\ \A i \in 1..k : \E j \in DOMAIN list :
                             /\ Number(list[j]) = n
                             /\ ApplyBlockWrites(blocks, list, FALSE).blocks[n][i] = list[j].data
    BY Zenon DEF RingKeepsOrder
  <2> DEFINE result == ApplyBlockWrites(blocks, list, FALSE)
  <2>a. result.status = OK
    OBVIOUS
  <2>b. PICK j \in DOMAIN list : KindOf(list[j]) = "Cyclic" /\ n = Number(list[j])
    OBVIOUS
  <2> HIDE DEF result
  <2>1. list \in Seq(Element) /\ Typed(blocks)
    BY ListsAre DEF StoreTypeOK, Typed
  <2>2. Passing(list) /\ Len(list) \in 0..Len(list)
    <3>1. Len(list) \in 0..Len(list)
      BY <2>1
    <3> QED
      BY <2>a, <2>1, <3>1, SuccessPasses DEF result
  <2>3. PICK g : /\ Steps(g, blocks, list) /\ Typed(g[Len(list)])
                 /\ result.blocks = g[Len(list)]
    BY <2>a, <2>1, <2>2, SuccessSteps DEF result
  <2>4. n \in DOMAIN Count /\ \A i \in 1..Len(list) : Number(list[i]) = n => KindOf(list[i]) = "Cyclic"
    BY <2>b, <2>1, <2>2, OneKind DEF Passing, Passes
  <2> DEFINE ring == g[Len(list)][n]
             stored == blocks[n]
  <2>5. PICK k : Shifted(ring, stored, list, n, k)
    BY <2>1, <2>2, <2>3, <2>4, StepsShift
  <2>6. /\ ring \in Seq(PurseBlock) /\ Len(ring) = Count[n]
        /\ stored \in Seq(PurseBlock) /\ Len(stored) = Count[n] /\ Count[n] \in Nat
    BY <2>1, <2>3, <2>4, StoreAssumption DEF Typed
  <2> HIDE DEF ring, stored
  <2>7. SubSeq(ring, k + 1, Count[n]) = SubSeq(stored, 1, Count[n] - k)
    <3>0. k \in 0..Count[n]
      BY <2>5 DEF Shifted
    <3> DEFINE a == SubSeq(ring, k + 1, Count[n])
               b == SubSeq(stored, 1, Count[n] - k)
    <3>1. /\ a \in Seq(PurseBlock) /\ Len(a) = Count[n] - k
          /\ \A x \in 1..(Count[n] - k) : a[x] = ring[k + x]
      <4>1. /\ k + 1 \in 1..(Len(ring) + 1) /\ Count[n] \in ((k + 1) - 1)..Len(ring)
            /\ Count[n] - (k + 1) + 1 = Count[n] - k
            /\ \A x \in 1..(Count[n] - k) : (k + 1) + x - 1 = k + x
        BY <2>6, <3>0
      <4> QED
        BY <2>6, <4>1, SubSeqProperties
    <3>2. /\ b \in Seq(PurseBlock) /\ Len(b) = Count[n] - k
          /\ \A x \in 1..(Count[n] - k) : b[x] = stored[x]
      <4>1. /\ 1 \in 1..(Len(stored) + 1) /\ Count[n] - k \in (1 - 1)..Len(stored)
            /\ (Count[n] - k) - 1 + 1 = Count[n] - k
            /\ \A x \in 1..(Count[n] - k) : 1 + x - 1 = x
        BY <2>6, <3>0
      <4> QED
        BY <2>6, <4>1, SubSeqProperties
    <3>3. ASSUME NEW x \in 1..(Count[n] - k) PROVE a[x] = b[x]
      <4>1. k + x \in (k + 1)..Count[n] /\ (k + x) - k = x
        BY <2>6, <3>0
      <4>2. ring[k + x] = stored[x]
        BY <2>5, <4>1 DEF Shifted
      <4> QED
        BY <3>1, <3>2, <4>2
    <3> HIDE DEF a, b
    <3>4. a = b
      BY <3>1, <3>2, <3>3, SeqEqual
    <3> QED
      BY <3>4 DEF a, b
  <2> QED
    BY <2>3, <2>5, <2>7 DEF ring, stored, result, Shifted
<1> QED
  BY <1>1, StoresKeepTheirSize, PTL

\* A step whose conditions hold succeeds.
LEMMA PurseStepBy ==
    ASSUME NEW list, NEW i, NEW staged, KindOf(list[i]) = "Purse",
           NEW result, result = ApplyPurseWrite(staged[Number(list[i])][list[i].block + 1], list[i].data,
                                                Resolve(list[i]), Node[list[i].code].limit),
           result.status = 0,
           NEW after, after = [staged EXCEPT ![Number(list[i])][list[i].block + 1] = result.block]
    PROVE  Apply(staged, list, i) = Went(after)
<1>1. Apply(staged, list, i) = WritePurse(staged, list[i], i)
  BY DEF Apply
<1> QED
  BY <1>1 DEF WritePurse

\* The same for the end of a run.
LEMMA CyclicStepBy ==
    ASSUME NEW list, NEW i, NEW staged, KindOf(list[i]) = "Cyclic", EndsRun(list, i),
           NEW result, result = ApplyCyclicWrite(staged[Number(list[i])], RunData(list, i)),
           result.status = 0, AtZero(list, i),
           NEW after, after = [staged EXCEPT ![Number(list[i])] = result.ring]
    PROVE  Apply(staged, list, i) = Went(after)
<1> DEFINE s == RunStart(list, i)
           astray == {j \in s..i : list[j].block # 0}
           first == CHOOSE j \in astray : \A k \in astray : j <= k
<1>1. Apply(staged, list, i) = WriteCyclic(staged, list, s, i)
  BY DEF Apply
<1>2. WriteCyclic(staged, list, s, i)
        = IF astray # {} THEN Failed(staged, ListErrorIndex(first), 165)
          ELSE IF result.status # 0 THEN Failed(staged, ListErrorIndex(s), result.status)
          ELSE Went([staged EXCEPT ![Number(list[i])] = result.ring])
  BY DEF WriteCyclic, RunData
<1>3. astray = {}
  BY DEF AtZero
<1> HIDE DEF s, astray, first
<1> QED
  BY <1>1, <1>2, <1>3

\* A step depends on its element and, in a ring, on the element's run.
SameRun(a, i, b, k) ==
    KindOf(a[i]) = "Cyclic" =>
       /\ EndsRun(a, i) <=> EndsRun(b, k)
       /\ RunData(a, i) = RunData(b, k)
       /\ AtZero(a, i) => AtZero(b, k)

\* Equal elements with equal runs take equal steps.
LEMMA SameStep ==
    ASSUME NEW a, NEW i, NEW b, NEW k, Passes(a[i]), a[i] = b[k],
           SameRun(a, i, b, k), NEW staged, NEW after, Apply(staged, a, i) = Went(after)
    PROVE  Apply(staged, b, k) = Went(after)
<1>1. CASE KindOf(a[i]) = "Random"
  <2>1. after = [staged EXCEPT ![Number(b[k])][b[k].block + 1] = b[k].data]
    BY <1>1, RandomStep
  <2>2. Apply(staged, b, k) = WriteRandom(staged, b[k])
    BY <1>1 DEF Apply
  <2> QED
    BY <2>1, <2>2 DEF WriteRandom
<1>2. CASE KindOf(a[i]) = "Purse"
  <2>1. PICK result : result = ApplyPurseWrite(staged[Number(a[i])][a[i].block + 1], a[i].data,
                                               Resolve(a[i]), Node[a[i].code].limit)
    OBVIOUS
  <2>2. /\ result.status = 0
        /\ after = [staged EXCEPT ![Number(a[i])][a[i].block + 1] = result.block]
    BY <1>2, <2>1, PurseStep
  <2>3. result = ApplyPurseWrite(staged[Number(b[k])][b[k].block + 1], b[k].data,
                                 Resolve(b[k]), Node[b[k].code].limit)
    BY <2>1
  <2>4. after = [staged EXCEPT ![Number(b[k])][b[k].block + 1] = result.block]
    BY <2>2
  <2> QED
    BY <1>2, <2>2, <2>3, <2>4, PurseStepBy
<1>3. CASE KindOf(a[i]) = "Cyclic" /\ ~EndsRun(a, i)
  <2>1. after = staged
    BY <1>3, CyclicRest
  <2> QED
    BY <1>3, <2>1 DEF Apply, SameRun
<1>4. CASE KindOf(a[i]) = "Cyclic" /\ EndsRun(a, i)
  <2>1. PICK result : result = ApplyCyclicWrite(staged[Number(a[i])], RunData(a, i))
    OBVIOUS
  <2>2. /\ AtZero(a, i)
        /\ result.status = 0
        /\ after = [staged EXCEPT ![Number(a[i])] = result.ring]
    BY <1>4, <2>1, CyclicStep
  <2>3. /\ result = ApplyCyclicWrite(staged[Number(b[k])], RunData(b, k))
        /\ EndsRun(b, k) /\ KindOf(b[k]) = "Cyclic"
        /\ AtZero(b, k)
    <3>1. /\ EndsRun(b, k) /\ RunData(a, i) = RunData(b, k)
          /\ AtZero(b, k)
      BY <1>4, <2>2, Zenon DEF SameRun
    <3> QED
      BY <1>4, <2>1, <3>1
  <2>4. after = [staged EXCEPT ![Number(b[k])] = result.ring]
    BY <2>2
  <2> QED
    <3>1. KindOf(b[k]) = "Cyclic"
      BY <2>3
    <3>2. EndsRun(b, k)
      BY <2>3
    <3>3. AtZero(b, k)
      BY <2>3
    <3>4. result.status = 0
      BY <2>2
    <3>5. result = ApplyCyclicWrite(staged[Number(b[k])], RunData(b, k))
      BY <2>3
    <3> QED
      BY ONLY <3>1, <3>2, <3>3, <3>4, <3>5, <2>4, CyclicStepBy
<1> QED
  BY <1>1, <1>2, <1>3, <1>4, Kinds

\* A part of a list, from element d + 1 on, whose rings begin and end their runs
\* where the list does.
PartFrom(b, a, d) == \A j \in 1..Len(b) : b[j] = a[j + d]

\* A run of the part has the bounds it has in the whole.
SameBounds(a, b, k, d) ==
    KindOf(b[k]) = "Cyclic" => /\ EndsRun(a, k + d) <=> EndsRun(b, k)
                               /\ RunStart(a, k + d) = RunStart(b, k) + d

\* A step of the part is the step of the whole.
LEMMA SameInPart ==
    ASSUME NEW a, Passing(a), NEW b, Passing(b), NEW d \in Nat, Len(b) + d <= Len(a),
           PartFrom(b, a, d), NEW k \in 1..Len(b),
           SameBounds(a, b, k, d), NEW staged, NEW after
    PROVE  Apply(staged, a, k + d) = Went(after) <=> Apply(staged, b, k) = Went(after)
<1> DEFINE i == k + d
           s == RunStart(b, k)
<1>0. Len(a) \in Nat /\ Len(b) \in Nat /\ i \in 1..Len(a) /\ k \in Nat \ {0}
  BY DEF Passing
<1>a. \A j \in 1..Len(b) : b[j] = a[j + d]
  BY DEF PartFrom
<1>1. Passes(a[i]) /\ Passes(b[k]) /\ a[i] = b[k]
  BY <1>0, <1>a DEF Passing
<1>2. ASSUME KindOf(b[k]) = "Cyclic"
      PROVE  /\ RunData(a, i) = RunData(b, k)
             /\ AtZero(a, i) <=> AtZero(b, k)
  <2>1. s \in 1..k
    BY <1>0, RunStarts DEF StartsRun
  <2>2. RunStart(a, i) = s + d
    BY <1>2 DEF SameBounds
  <2> HIDE DEF s
  <2>3. i - RunStart(a, i) + 1 = k - s + 1
    BY <1>0, <2>1, <2>2
  <2>4. ASSUME NEW x \in 1..(k - s + 1) PROVE a[RunStart(a, i) + x - 1].data = b[s + x - 1].data
    <3>1. s + x - 1 \in 1..Len(b) /\ RunStart(a, i) + x - 1 = (s + x - 1) + d
      BY <1>0, <2>1, <2>2
    <3> QED
      BY <1>a, <3>1
  <2>5. RunData(a, i) = RunData(b, k)
    BY <2>3, <2>4 DEF RunData, s
  <2>6. ASSUME AtZero(a, i), NEW j \in s..k PROVE b[j].block = 0
    <3>1. j \in 1..Len(b) /\ j + d \in RunStart(a, i)..i
      BY <1>0, <2>1, <2>2
    <3> QED
      BY <1>a, <2>6, <3>1 DEF AtZero
  <2>7. ASSUME AtZero(b, k), NEW j \in RunStart(a, i)..i PROVE a[j].block = 0
    <3>1. j - d \in 1..Len(b) /\ j - d \in s..k /\ (j - d) + d = j
      BY <1>0, <2>1, <2>2
    <3> QED
      BY <1>a, <2>7, <3>1 DEF AtZero, s
  <2> QED
    BY <2>5, <2>6, <2>7 DEF AtZero, s
<1> HIDE DEF i, s
<1>3. KindOf(b[k]) = "Cyclic" =>
        /\ EndsRun(a, i) <=> EndsRun(b, k)
        /\ RunData(a, i) = RunData(b, k)
        /\ AtZero(a, i) <=> AtZero(b, k)
  BY <1>2 DEF i, s, SameBounds
<1>4. SameRun(a, i, b, k) /\ SameRun(b, k, a, i)
  BY <1>1, <1>3 DEF SameRun
<1>5. Apply(staged, a, i) = Went(after) => Apply(staged, b, k) = Went(after)
  BY <1>1, <1>4, SameStep
<1>6. Apply(staged, b, k) = Went(after) => Apply(staged, a, i) = Went(after)
  BY <1>1, <1>4, SameStep
<1> QED
  BY <1>5, <1>6 DEF i

\* A list and its parts before and behind a cut that splits no ring's run.
Parted(list, cut, first, second) ==
    /\ list \in Seq(Element) /\ first \in Seq(Element) /\ second \in Seq(Element)
    /\ cut \in 1..(Len(list) - 1) /\ Len(first) = cut /\ Len(second) = Len(list) - cut
    /\ \A i \in 1..cut : first[i] = list[i]
    /\ \A i \in 1..(Len(list) - cut) : second[i] = list[i + cut]
\* The cut is not inside a run.
Outside(list, cut) == Number(list[cut]) # Number(list[cut + 1]) \/ KindOf(list[cut]) # "Cyclic"

\* The whole passes the checks exactly when its parts do.
LEMMA PartsPass ==
    ASSUME NEW list, NEW cut, NEW first, NEW second, Parted(list, cut, first, second)
    PROVE  AllPass(list, "write", FALSE) <=> AllPass(first, "write", FALSE) /\ AllPass(second, "write", FALSE)
<1>0. /\ DOMAIN list = 1..Len(list) /\ DOMAIN first = 1..cut /\ DOMAIN second = 1..(Len(list) - cut)
      /\ Len(list) \in Nat /\ cut \in 1..(Len(list) - 1)
      /\ \A i \in 1..cut : first[i] = list[i]
      /\ \A i \in 1..(Len(list) - cut) : second[i] = list[i + cut]
  BY DEF Parted
<1>1. ASSUME AllPass(list, "write", FALSE)
      PROVE  AllPass(first, "write", FALSE) /\ AllPass(second, "write", FALSE)
  <2>1. \A i \in 1..cut : i \in 1..Len(list)
    BY <1>0
  <2>2. \A i \in 1..(Len(list) - cut) : i + cut \in 1..Len(list)
    BY <1>0
  <2> QED
    BY <1>0, <1>1, <2>1, <2>2 DEF AllPass
<1>2. ASSUME AllPass(first, "write", FALSE), AllPass(second, "write", FALSE), NEW i \in 1..Len(list)
      PROVE  ValidateBlockElement(list[i], "write", FALSE) = 0
  <2>1. CASE i \in 1..cut
    BY <1>0, <1>2, <2>1 DEF AllPass
  <2>2. CASE i - cut \in 1..(Len(list) - cut)
    <3>1. (i - cut) + cut = i
      BY <1>0
    <3>2. second[i - cut] = list[i]
      BY <1>0, <2>2, <3>1
    <3> QED
      BY <1>0, <1>2, <2>2, <3>2 DEF AllPass
  <2>3. cut \in Int /\ Len(list) \in Int /\ 1 <= cut /\ cut <= Len(list)
    BY <1>0
  <2>4. i \in 1..cut \/ i - cut \in 1..(Len(list) - cut)
    BY <2>3
  <2> QED
    BY <2>1, <2>2, <2>4
<1> QED
  BY <1>0, <1>1, <1>2 DEF AllPass

\* Steps of the first part are steps of the whole.
LEMMA SameInFirst ==
    ASSUME NEW list, NEW cut, NEW first, NEW second, Parted(list, cut, first, second), Outside(list, cut),
           Passing(list), Passing(first), NEW k \in 1..cut, NEW staged, NEW after
    PROVE  Apply(staged, list, k) = Went(after) <=> Apply(staged, first, k) = Went(after)
<1>0. /\ Len(list) \in Nat /\ Len(first) = cut /\ cut \in 1..(Len(list) - 1) /\ k \in Nat \ {0}
      /\ \A i \in 1..cut : first[i] = list[i]
  BY DEF Parted
<1>1. ASSUME KindOf(first[k]) = "Cyclic"
      PROVE  /\ EndsRun(list, k) <=> EndsRun(first, k)
             /\ RunStart(list, k) = RunStart(first, k)
  <2>1. EndsRun(list, k) <=> EndsRun(first, k)
    <3>1. CASE k = cut
      BY <1>0, <1>1, <3>1 DEF EndsRun, Outside
    <3>2. CASE k # cut
      <4>1. k + 1 \in 1..cut /\ k # Len(list)
        BY <1>0, <3>2
      <4> QED
        BY <1>0, <3>2, <4>1 DEF EndsRun
    <3> QED
      BY <3>1, <3>2
  <2> DEFINE s == RunStart(first, k)
  <2>2. StartsRun(first, s, k)
    BY <1>0, RunStarts
  <2> HIDE DEF s
  <2>3. StartsRun(list, s, k)
    <3>1. s \in 1..k /\ \A j \in s..k : j \in 1..cut
      BY <1>0, <2>2 DEF StartsRun
    <3>2. s = 1 \/ s - 1 \in 1..cut
      BY <1>0, <3>1
    <3> QED
      BY <1>0, <2>2, <3>1, <3>2 DEF StartsRun
  <2>4. RunStart(list, k) = s
    BY <1>0, <2>3, RunStarts
  <2> QED
    BY <2>1, <2>4 DEF s
<1>2. k + 0 = k /\ RunStart(first, k) + 0 = RunStart(first, k)
  <2>1. RunStart(first, k) \in 1..k
    BY <1>0, RunStarts DEF StartsRun
  <2> QED
    BY <1>0, <2>1
<1>3. Len(first) + 0 <= Len(list) /\ PartFrom(first, list, 0)
  BY <1>0 DEF PartFrom
<1>4. SameBounds(list, first, k, 0)
  BY <1>1, <1>2 DEF SameBounds
<1>5. Apply(staged, list, k + 0) = Went(after) <=> Apply(staged, first, k) = Went(after)
  <2>1. 0 \in Nat /\ k \in 1..Len(first)
    BY <1>0
  <2> QED
    BY ONLY <1>3, <1>4, <2>1, SameInPart, Passing(list), Passing(first)
<1> QED
  BY <1>2, <1>5

\* So are the steps of the second part.
LEMMA SameInSecond ==
    ASSUME NEW list, NEW cut, NEW first, NEW second, Parted(list, cut, first, second), Outside(list, cut),
           Passing(list), Passing(second), NEW k \in 1..Len(second), NEW staged, NEW after
    PROVE  Apply(staged, list, k + cut) = Went(after) <=> Apply(staged, second, k) = Went(after)
<1>0. /\ Len(list) \in Nat /\ Len(second) = Len(list) - cut /\ cut \in 1..(Len(list) - 1) /\ k \in Nat \ {0}
      /\ \A i \in 1..Len(second) : second[i] = list[i + cut]
  BY DEF Parted
<1>1. ASSUME KindOf(second[k]) = "Cyclic"
      PROVE  /\ EndsRun(list, k + cut) <=> EndsRun(second, k)
             /\ RunStart(list, k + cut) = RunStart(second, k) + cut
  <2>1. EndsRun(list, k + cut) <=> EndsRun(second, k)
    <3>1. CASE k = Len(second)
      BY <1>0, <3>1 DEF EndsRun
    <3>2. CASE k # Len(second)
      <4>0. Len(list) \in Nat /\ Len(second) = Len(list) - cut /\ cut \in 1..(Len(list) - 1)
        BY <1>0
      <4>1. k + 1 \in 1..Len(second) /\ k + cut # Len(list) /\ (k + cut) + 1 = (k + 1) + cut
        BY <3>2, <4>0
      <4> QED
        BY <1>0, <3>2, <4>1 DEF EndsRun
    <3> QED
      BY <3>1, <3>2
  <2> DEFINE s == RunStart(second, k)
  <2>2. StartsRun(second, s, k)
    BY <1>0, RunStarts
  <2> HIDE DEF s
  <2>3. s \in 1..k /\ \A j \in s..k : Number(second[j]) = Number(second[k])
    BY <2>2 DEF StartsRun
  <2>4. second[k] = list[k + cut] /\ s + cut \in 1..(k + cut) /\ s + cut # 1
    BY <1>0, <2>3
  <2>5. ASSUME NEW j \in (s + cut)..(k + cut) PROVE Number(list[j]) = Number(list[k + cut])
    <3>1. j - cut \in s..k /\ j - cut \in 1..Len(second) /\ (j - cut) + cut = j
      BY <1>0, <2>3
    <3>2. second[j - cut] = list[j]
      BY <1>0, <3>1
    <3> QED
      BY <2>3, <2>4, <3>1, <3>2
  <2>6. Number(list[(s + cut) - 1]) # Number(list[k + cut])
    <3>1. CASE s # 1
      <4>1. s - 1 \in 1..Len(second) /\ (s - 1) + cut = (s + cut) - 1
        BY <1>0, <2>3, <3>1
      <4>2. second[s - 1] = list[(s + cut) - 1] /\ Number(second[s - 1]) # Number(second[k])
        BY <1>0, <2>2, <3>1, <4>1 DEF StartsRun
      <4> QED
        BY <2>4, <4>2
    <3>2. CASE s = 1
      <4>1. (s + cut) - 1 = cut /\ cut + 1 \in (s + cut)..(k + cut)
        BY <1>0, <2>3, <3>2
      <4>2. Number(list[cut + 1]) = Number(list[k + cut])
        BY <2>5, <4>1
      <4>3. ASSUME Number(list[cut]) = Number(list[k + cut]) PROVE FALSE
        <5>1. KindOf(list[cut]) # "Cyclic"
          BY <4>2, <4>3 DEF Outside
        <5>2. cut \in 1..Len(list) /\ k + cut \in 1..Len(list)
          BY <1>0
        <5>3. Passes(list[cut]) /\ Passes(list[k + cut])
          BY <5>2 DEF Passing
        <5>4. KindOf(list[cut]) = KindOf(list[k + cut])
          BY <4>3, <5>3, OneKind
        <5> QED
          BY <1>1, <2>4, <5>1, <5>4
      <4> QED
        BY <4>1, <4>3
    <3> QED
      BY <3>1, <3>2
  <2>7. StartsRun(list, s + cut, k + cut)
    BY <2>4, <2>5, <2>6 DEF StartsRun
  <2>8. k + cut \in Nat \ {0}
    BY <1>0
  <2>9. RunStart(list, k + cut) = s + cut
    BY <2>7, <2>8, RunStarts
  <2> QED
    BY <2>1, <2>9 DEF s
<1>2. cut \in Nat /\ Len(second) + cut <= Len(list)
  BY <1>0
<1>3. SameBounds(list, second, k, cut)
  BY <1>1 DEF SameBounds
<1>4. PartFrom(second, list, cut)
  BY <1>0 DEF PartFrom
<1> QED
  BY ONLY <1>2, <1>3, <1>4, SameInPart, Passing(list), Passing(second), k \in 1..Len(second)

\* A command inside a session.
Written(store, list) == ApplyBlockWrites(store, list, FALSE)
\* A list cut outside a run, on a store of the right shape.
Cut(store, list, cut, first, second) == Typed(store) /\ Parted(list, cut, first, second) /\ Outside(list, cut)
\* A cut that is outside a run if the list passes at all.
Divides(list, cut) == AllPass(list, "write", FALSE) => Outside(list, cut)

\* An element that passes names a Service of the code list.
LEMMA PassingIsListed ==
    ASSUME NEW e, ValidateBlockElement(e, "write", FALSE) = 0
    PROVE  e.code # Unlisted
<1>1. e.code = Unlisted => ValidateBlockElement(e, "write", FALSE) = 163
  BY DEF ValidateBlockElement
<1>2. 163 # 0
  OBVIOUS
<1> QED
  BY <1>1, <1>2, Zenon

\* A command that succeeds passed every check.
LEMMA SuccessAllPass ==
    ASSUME NEW store, NEW list \in Seq(Element), NEW authFree,
           ApplyBlockWrites(store, list, authFree).status = OK
    PROVE  AllPass(list, "write", authFree)
BY CommandOutcome

\* The whole succeeds: so do its parts, one after the other.
LEMMA WholeThenParts ==
    ASSUME NEW list, NEW cut, NEW first, NEW second, NEW store, Cut(store, list, cut, first, second),
           Written(store, list).status = OK
    PROVE  \E middle, last : /\ Written(store, first) = Went(middle)
                             /\ Written(middle, second) = Went(last)
                             /\ Written(store, list) = Went(last)
<1> USE DEF Written
<1> Typed(store) /\ Parted(list, cut, first, second) /\ Outside(list, cut)
  BY DEF Cut
<1>0. /\ list \in Seq(Element) /\ first \in Seq(Element) /\ second \in Seq(Element)
      /\ Len(list) \in Nat /\ cut \in 1..(Len(list) - 1) /\ Len(first) = cut /\ Len(second) = Len(list) - cut
  BY DEF Parted
<1>1. AllPass(list, "write", FALSE) /\ AllPass(first, "write", FALSE) /\ AllPass(second, "write", FALSE)
  BY <1>0, CommandOutcome, PartsPass
<1>2. Passing(list) /\ Passing(first) /\ Passing(second)
  BY <1>0, <1>1, ListPasses
<1>3. PICK g : Steps(g, store, list) /\ ApplyBlockWrites(store, list, FALSE) = Went(g[Len(list)])
  BY <1>0, SuccessSteps
<1>4. Steps(g, store, first)
  <2>1. ASSUME NEW i \in 1..Len(first) PROVE Apply(g[i - 1], first, i) = Went(g[i])
    <3>1. i \in 1..Len(list) /\ i \in 1..cut
      BY <1>0
    <3>2. Apply(g[i - 1], list, i) = Went(g[i])
      BY <1>3, <3>1 DEF Steps
    <3> QED
      BY <1>2, <3>1, <3>2, SameInFirst
  <2> QED
    BY <1>3, <2>1 DEF Steps
<1> DEFINE h == [i \in 0..Len(second) |-> g[i + cut]]
<1>5. Steps(h, g[cut], second)
  <2>1. h[0] = g[cut]
    BY <1>0
  <2>2. ASSUME NEW i \in 1..Len(second) PROVE Apply(h[i - 1], second, i) = Went(h[i])
    <3>1. /\ i + cut \in 1..Len(list) /\ i - 1 \in 0..Len(second) /\ i \in 0..Len(second)
          /\ (i - 1) + cut = (i + cut) - 1
      BY <1>0
    <3>2. h[i - 1] = g[(i + cut) - 1] /\ h[i] = g[i + cut]
      BY <3>1
    <3> HIDE DEF h
    <3>3. Apply(g[(i + cut) - 1], list, i + cut) = Went(g[i + cut])
      BY <1>3, <3>1 DEF Steps
    <3>4. Apply(g[(i + cut) - 1], second, i) = Went(g[i + cut])
      BY <1>2, <3>3, SameInSecond
    <3> QED
      BY <3>2, <3>4
  <2> HIDE DEF h
  <2> QED
    BY <2>1, <2>2 DEF Steps
<1>6. h[Len(second)] = g[Len(list)]
  BY <1>0
<1> HIDE DEF h
<1>7. ApplyBlockWrites(store, first, FALSE) = Went(g[cut])
  BY <1>0, <1>1, <1>4, CommandBySteps
<1>8. ApplyBlockWrites(g[cut], second, FALSE) = Went(g[Len(list)])
  <2>1. ApplyBlockWrites(g[cut], second, FALSE) = Went(h[Len(second)])
    BY <1>0, <1>1, <1>5, CommandBySteps
  <2> QED
    BY <1>6, <2>1
<1>9. ApplyBlockWrites(store, list, FALSE) = Went(g[Len(list)])
  BY <1>3
<1> WITNESS g[cut], g[Len(list)]
<1> QED
  BY <1>7, <1>8, <1>9

\* Both parts succeed, one after the other: so does the whole.
LEMMA PartsThenWhole ==
    ASSUME NEW list, NEW cut, NEW first, NEW second, NEW store, Cut(store, list, cut, first, second),
           Written(store, first).status = OK, Written(Written(store, first).blocks, second).status = OK
    PROVE  Written(store, list).status = OK
<1> USE DEF Written
<1> Typed(store) /\ Parted(list, cut, first, second) /\ Outside(list, cut)
  BY DEF Cut
<1>0. /\ list \in Seq(Element) /\ first \in Seq(Element) /\ second \in Seq(Element)
      /\ Len(list) \in Nat /\ cut \in 1..(Len(list) - 1) /\ Len(first) = cut /\ Len(second) = Len(list) - cut
  BY DEF Parted
<1>1. PICK g : /\ Steps(g, store, first) /\ ApplyBlockWrites(store, first, FALSE).blocks = g[cut]
               /\ \A i \in 0..cut : Typed(g[i])
  BY <1>0, SuccessSteps
<1>2. Typed(g[cut])
  BY <1>0, <1>1
<1>3. PICK h : Steps(h, g[cut], second)
  BY <1>0, <1>1, <1>2, SuccessSteps
<1>4. AllPass(list, "write", FALSE) /\ AllPass(first, "write", FALSE) /\ AllPass(second, "write", FALSE)
  <2>1. AllPass(first, "write", FALSE)
    BY <1>0, CommandOutcome
  <2>2. AllPass(second, "write", FALSE)
    BY <1>0, <1>1, SuccessAllPass
  <2> QED
    BY <2>1, <2>2, PartsPass
<1>5. Passing(list) /\ Passing(first) /\ Passing(second)
  BY <1>0, <1>4, ListPasses
<1> DEFINE f == [i \in 0..Len(list) |-> IF i <= cut THEN g[i] ELSE h[i - cut]]
<1>6. ASSUME NEW i \in 1..Len(list) PROVE Apply(f[i - 1], list, i) = Went(f[i])
  <2>1. CASE i \in 1..cut
    <3>1. f[i - 1] = g[i - 1] /\ f[i] = g[i] /\ i \in 1..Len(first)
      BY <1>0, <2>1
    <3> HIDE DEF f
    <3>2. Apply(g[i - 1], first, i) = Went(g[i])
      BY <1>1, <3>1 DEF Steps
    <3> QED
      BY <1>5, <2>1, <3>1, <3>2, SameInFirst
  <2>2. CASE i - cut \in 1..Len(second)
    <3> DEFINE k == i - cut
    <3>0. i \in 0..Len(list) /\ ~(i <= cut) /\ k + cut = i
      BY <1>0, <2>2
    <3>1. k + cut = i /\ f[i] = h[k]
      BY <3>0
    <3>2. f[i - 1] = h[k - 1]
      <4>1. CASE k = 1
        <5>1. i - 1 = cut /\ f[i - 1] = g[cut] /\ k - 1 = 0
          BY <1>0, <4>1
        <5> QED
          BY <1>3, <5>1 DEF Steps
      <4>2. CASE k # 1
        BY <1>0, <2>2, <4>2
      <4> QED
        BY <4>1, <4>2
    <3> HIDE DEF f, k
    <3>3. k \in 1..Len(second)
      BY <2>2 DEF k
    <3>4. Apply(h[k - 1], second, k) = Went(h[k])
      BY <1>3, <3>3 DEF Steps
    <3>5. Apply(h[k - 1], list, k + cut) = Went(h[k])
      BY <1>5, <3>3, <3>4, SameInSecond
    <3> QED
      BY <3>1, <3>2, <3>5
  <2> QED
    BY <1>0, <2>1, <2>2
<1>7. f[0] = store
  BY <1>0, <1>1 DEF Steps
<1> HIDE DEF f
<1>8. Steps(f, store, list)
  BY <1>6, <1>7 DEF Steps
<1>9. ApplyBlockWrites(store, list, FALSE) = Went(f[Len(list)])
  BY <1>0, <1>4, <1>8, CommandBySteps
<1> QED
  BY <1>9, WentFields

\* So the whole succeeds exactly when its parts do.
LEMMA WholeIsItsParts ==
    ASSUME NEW list, NEW cut, NEW first, NEW second, Parted(list, cut, first, second),
           Divides(list, cut), NEW store, Typed(store),
           NEW whole, whole = Written(store, list), NEW one, one = Written(store, first),
           NEW two, two = Written(one.blocks, second)
    PROVE  /\ whole.status = OK => one.status = OK /\ two.status = OK /\ whole.blocks = two.blocks
           /\ one.status = OK /\ two.status = OK => whole.status = OK
<1>0. list \in Seq(Element) /\ first \in Seq(Element) /\ second \in Seq(Element)
  BY DEF Parted
<1>1. ASSUME whole.status = OK
      PROVE  one.status = OK /\ two.status = OK /\ whole.blocks = two.blocks
  <2>1. AllPass(list, "write", FALSE)
    BY <1>0, <1>1, SuccessAllPass DEF Written
  <2>2. Cut(store, list, cut, first, second)
    BY <2>1 DEF Cut, Divides
  <2>3. Written(store, list).status = OK
    BY <1>1
  <2>4. PICK middle, last : /\ Written(store, first) = Went(middle)
                            /\ Written(middle, second) = Went(last)
                            /\ Written(store, list) = Went(last)
    BY <2>2, <2>3, WholeThenParts
  <2>5. one.blocks = middle /\ one.status = OK
    BY <2>4, WentFields
  <2>6. two = Went(last) /\ whole = Went(last)
    BY <2>4, <2>5
  <2> QED
    BY <2>5, <2>6, WentFields
<1>2. ASSUME one.status = OK, two.status = OK PROVE whole.status = OK
  <2>1. AllPass(first, "write", FALSE)
    BY <1>0, <1>2, SuccessAllPass DEF Written
  <2>2. AllPass(second, "write", FALSE)
    BY <1>0, <1>2, SuccessAllPass DEF Written
  <2>3. Cut(store, list, cut, first, second)
    BY <2>1, <2>2, PartsPass DEF Cut, Divides
  <2>4. /\ Written(store, first).status = OK
        /\ Written(Written(store, first).blocks, second).status = OK
    BY <1>2
  <2> QED
    BY <2>3, <2>4, PartsThenWhole
<1> QED
  BY <1>1, <1>2

\* The element leaves block b of store n alone.
Misses(e, n, b) == Number(e) # n \/ (KindOf(e) # "Cyclic" /\ e.block + 1 # b)

\* A step leaves every other block as it was.
LEMMA StepMisses ==
    ASSUME NEW list, Passing(list), NEW i \in 1..Len(list),
           NEW staged, Typed(staged), NEW after, Apply(staged, list, i) = Went(after),
           NEW n \in DOMAIN Count, NEW b \in 1..Count[n], Misses(list[i], n, b)
    PROVE  after[n][b] = staged[n][b]
<1> DEFINE e == list[i]
           at == e.block + 1
<1>0. Passes(e)
  BY DEF Passing
<1>1. CASE Number(e) # n
  BY <1>1, ApplyKeeps
<1>2. CASE Number(e) = n /\ KindOf(e) # "Cyclic" /\ at # b
  <2>1. \E x : after = [staged EXCEPT ![n][at] = x]
    <3>1. CASE KindOf(e) = "Random"
      BY <1>2, <3>1, RandomStep
    <3>2. CASE KindOf(e) = "Purse"
      <4>1. PICK result : result = ApplyPurseWrite(staged[Number(e)][at], e.data, Resolve(e), Node[e.code].limit)
        OBVIOUS
      <4>2. after = [staged EXCEPT ![Number(e)][at] = result.block]
        BY <3>2, <4>1, PurseStep
      <4> QED
        BY <1>2, <4>2
    <3> QED
      BY <1>0, <1>2, <3>1, <3>2, Kinds
  <2>2. staged \in [DOMAIN Count -> Seq(PurseBlock)] /\ Len(staged[n]) = Count[n]
    BY DEF Typed
  <2>3. staged[n] \in Seq(PurseBlock) /\ b \in DOMAIN staged[n]
    BY <2>2
  <2> QED
    BY <1>2, <2>1, <2>2, <2>3
<1> QED
  BY <1>1, <1>2 DEF Misses

\* So do the steps of a part of the list that leaves the block alone.
LEMMA StepsMiss ==
    ASSUME NEW list, Passing(list), NEW store, Typed(store), NEW g, Steps(g, store, list),
           NEW n \in DOMAIN Count, NEW b \in 1..Count[n], NEW j \in 0..Len(list), NEW i \in j..Len(list),
           \A k \in (j + 1)..i : Misses(list[k], n, b)
    PROVE  g[i][n][b] = g[j][n][b]
<1>0. Len(list) \in Nat
  BY DEF Passing
<1> DEFINE S == {d \in Nat : j + d <= i => g[j + d][n][b] = g[j][n][b]}
<1>1. 0 \in S
  OBVIOUS
<1>2. ASSUME NEW k \in Nat, k \in S PROVE k + 1 \in S
  <2> SUFFICES ASSUME j + (k + 1) <= i PROVE g[j + (k + 1)][n][b] = g[j][n][b]
    OBVIOUS
  <2> DEFINE x == j + k
  <2>1. x + 1 \in 1..Len(list) /\ (x + 1) - 1 = x /\ x \in 0..Len(list) /\ x + 1 \in (j + 1)..i /\ j + (k + 1) = x + 1
    BY <1>0
  <2>2. g[x][n][b] = g[j][n][b]
    BY <1>2
  <2> HIDE DEF x
  <2>3. Apply(g[x], list, x + 1) = Went(g[x + 1])
    BY <2>1 DEF Steps
  <2>4. Typed(g[x])
    BY <2>1, StepsTyped
  <2>5. Misses(list[x + 1], n, b)
    BY <2>1
  <2>6. g[x + 1][n][b] = g[x][n][b]
    BY <2>1, <2>3, <2>4, <2>5, StepMisses
  <2> QED
    BY <2>1, <2>2, <2>6
<1> HIDE DEF S
<1>3. \A k \in Nat : k \in S
  BY <1>1, <1>2, InductionOn
<1>4. i - j \in Nat /\ j + (i - j) <= i /\ j + (i - j) = i
  BY <1>0
<1> QED
  BY <1>3, <1>4 DEF S

\* A Read inside a session, the blocks its list names, and the data of a list.
ReadOf(store, list) == ReadBlocks(store, list, FALSE).data
Named(store, list) == [i \in DOMAIN list |-> store[Number(list[i])][list[i].block + 1]]
Sent(list) == [i \in DOMAIN list |-> list[i].data]
Readable(list) == AllPass(list, "read", FALSE) /\ \E n \in Nat : DOMAIN list = 1..n

\* A registered Service can be read, block by block.
LEMMA ReadPasses ==
    ASSUME NEW e, e.code # Unlisted, Node[e.code].attribute \in ServiceAttribute, Node[e.code].registered,
           e.mode = 0, e.block \in Nat, Count[Number(e)] \in Nat, e.block < Count[Number(e)]
    PROVE  ValidateBlockElement(e, "read", FALSE) = 0
<1>1. ~(e.block >= Count[Node[e.code].number])
  BY DEF Number
<1>2. Permitted(Node[e.code], e.mode, "read", FALSE)
  BY DEF Permitted
<1>3. Node[e.code].attribute # "none"
  BY DEF ServiceAttribute
<1> QED
  BY <1>1, <1>2, <1>3 DEF ValidateBlockElement

\* A Read whose elements pass returns the block each of them names.
LEMMA ReadGives ==
    ASSUME NEW store, NEW list, Readable(list)
    PROVE  ReadOf(store, list) = Named(store, list)
<1>1. Validation(list, "read", FALSE) = OK
  BY ValidationIsOK DEF Readable
<1> QED
  BY <1>1 DEF ReadBlocks, ReadOf, Named

\* The last write to a random block is what is in the store at the end.
LEMMA RandomStays ==
    ASSUME NEW list, Passing(list), NEW store, Typed(store), NEW g, Steps(g, store, list),
           NEW i \in 1..Len(list), KindOf(list[i]) = "Random",
           \A j \in (i + 1)..Len(list) : Misses(list[j], Number(list[i]), list[i].block + 1)
    PROVE  g[Len(list)][Number(list[i])][list[i].block + 1] = list[i].data
<1> DEFINE e == list[i]
           n == Number(e)
           b == e.block + 1
<1>0. Len(list) \in Nat /\ Passes(e)
  BY DEF Passing
<1>1. n \in DOMAIN Count /\ Count[n] \in Nat /\ b \in 1..Count[n]
  <2>1. n \in DOMAIN Count /\ e.block \in Nat /\ e.block < Count[n]
    BY <1>0 DEF Passes
  <2>2. Count[n] \in Nat
    BY <2>1, StoreAssumption
  <2> QED
    BY <2>1, <2>2
<1>2. i \in 0..Len(list) /\ Len(list) \in i..Len(list) /\ i - 1 \in 0..Len(list)
  BY <1>0
<1> HIDE DEF n, b
<1>3. g[Len(list)][n][b] = g[i][n][b]
  <2>1. \A j \in (i + 1)..Len(list) : Misses(list[j], n, b)
    BY DEF n, b
  <2> QED
    BY <1>1, <1>2, <2>1, StepsMiss
<1>4. Apply(g[i - 1], list, i) = Went(g[i])
  BY DEF Steps
<1>5. g[i] = [g[i - 1] EXCEPT ![n][b] = e.data]
  BY <1>4, RandomStep DEF n, b
<1>6. Typed(g[i - 1])
  BY <1>2, StepsTyped
<1>7. /\ g[i - 1] \in [DOMAIN Count -> Seq(PurseBlock)] /\ Len(g[i - 1][n]) = Count[n]
  BY <1>1, <1>6 DEF Typed
<1>8. g[i - 1][n] \in Seq(PurseBlock) /\ b \in DOMAIN g[i - 1][n]
  BY <1>1, <1>7
<1>9. g[i][n][b] = e.data
  BY <1>1, <1>5, <1>7, <1>8
<1> QED
  BY <1>3, <1>9 DEF n, b

\* The last run on a ring is at its head at the end.
LEMMA RunStays ==
    ASSUME NEW list, Passing(list), NEW store, Typed(store), NEW g, Steps(g, store, list),
           NEW i \in 1..Len(list), KindOf(list[i]) = "Cyclic",
           \A j \in (i + 1)..Len(list) : Number(list[j]) # Number(list[i])
    PROVE  /\ Len(RunData(list, i)) <= Count[Number(list[i])]
           /\ \A x \in 1..Len(RunData(list, i)) : g[Len(list)][Number(list[i])][x] = RunData(list, i)[x]
<1> DEFINE n == Number(list[i])
<1>0. Len(list) \in Nat /\ Passes(list[i])
  BY DEF Passing
<1>1. n \in DOMAIN Count
  BY <1>0 DEF Passes
<1>2. i \in 0..Len(list) /\ Len(list) \in i..Len(list) /\ i - 1 \in 0..Len(list)
  BY <1>0
<1>3. g[Len(list)][n] = g[i][n]
  BY <1>1, <1>2, StepsTouch
<1>4. EndsRun(list, i)
  <2>1. i = Len(list) \/ i + 1 \in (i + 1)..Len(list)
    BY <1>0
  <2> QED
    BY <2>1 DEF EndsRun
<1>5. Apply(g[i - 1], list, i) = Went(g[i])
  BY DEF Steps
<1>6. Typed(g[i - 1])
  BY <1>2, StepsTyped
<1>7. g[i - 1] \in [DOMAIN Count -> Seq(PurseBlock)] /\ Len(g[i - 1][n]) = Count[n]
  BY <1>1, <1>6 DEF Typed
<1>8. g[i - 1][n] \in Seq(PurseBlock)
  BY <1>1, <1>7
<1>9. PICK result : result = ApplyCyclicWrite(g[i - 1][n], RunData(list, i))
  OBVIOUS
<1>10. result.status = 0 /\ g[i] = [g[i - 1] EXCEPT ![n] = result.ring]
  BY <1>4, <1>5, <1>9, CyclicStep
<1>11. RunData(list, i) \in Seq(PurseBlock)
  BY RunDataIs
<1>12. /\ Len(RunData(list, i)) <= Count[n]
       /\ \A x \in 1..Len(RunData(list, i)) : result.ring[x] = RunData(list, i)[x]
  BY <1>7, <1>8, <1>9, <1>10, <1>11, RingPushed
<1>13. g[i][n] = result.ring
  BY <1>1, <1>7, <1>10
<1> QED
  BY <1>3, <1>12, <1>13

\* A Read after a command that wrote a random block last with element i.
LEMMA RandomReads ==
    ASSUME NEW list \in Seq(Element), NEW store, Typed(store), Written(store, list).status = OK,
           NEW i \in 1..Len(list), KindOf(list[i]) = "Random",
           \A j \in (i + 1)..Len(list) : Misses(list[j], Number(list[i]), list[i].block + 1)
    PROVE  ReadBlocks(Written(store, list).blocks, <<list[i]>>, FALSE).data = <<list[i].data>>
<1> DEFINE e == list[i]
<1>1. Passing(list) /\ e.code # Unlisted
  <2>1. AllPass(list, "write", FALSE)
    BY SuccessAllPass DEF Written
  <2>2. Passing(list)
    BY <2>1, ListPasses
  <2>3. ValidateBlockElement(e, "write", FALSE) = 0
    <3>1. i \in DOMAIN list
      OBVIOUS
    <3> QED
      BY <2>1, <3>1, Zenon DEF AllPass
  <2> QED
    BY <2>2, <2>3, PassingIsListed
<1>2. PICK g : Steps(g, store, list) /\ Written(store, list).blocks = g[Len(list)]
  BY SuccessSteps DEF Written
<1>3. g[Len(list)][Number(e)][e.block + 1] = e.data
  BY <1>1, <1>2, RandomStays
<1>4. Passes(e)
  BY <1>1 DEF Passing
<1>5. ValidateBlockElement(e, "read", FALSE) = 0
  <2>1. /\ Node[e.code].attribute \in ServiceAttribute /\ Node[e.code].registered
        /\ Number(e) \in DOMAIN Count /\ e.block \in Nat /\ e.block < Count[Number(e)]
    BY <1>4 DEF Passes
  <2>2. Count[Number(e)] \in Nat
    BY <2>1, StoreAssumption
  <2>3. e.mode = 0
    BY <1>4, Kinds
  <2> QED
    BY <1>1, <2>1, <2>2, <2>3, ReadPasses
<1>6. PICK one : one = <<e>>
  OBVIOUS
<1>7. DOMAIN one = 1..1 /\ one[1] = e
  BY <1>6
<1>8. AllPass(one, "read", FALSE)
  <2>1. \A k \in DOMAIN one : one[k] = e
    BY <1>7
  <2> QED
    BY <1>5, <2>1, Zenon DEF AllPass
<1>9. ReadBlocks(g[Len(list)], one, FALSE).data
        = [k \in DOMAIN one |-> g[Len(list)][Number(one[k])][one[k].block + 1]]
  <2>1. Readable(one)
    BY <1>7, <1>8 DEF Readable
  <2>2. ReadOf(g[Len(list)], one) = Named(g[Len(list)], one)
    BY <2>1, ReadGives
  <2> QED
    BY <2>2 DEF ReadOf, Named
<1>10. ReadBlocks(g[Len(list)], one, FALSE).data = [k \in 1..1 |-> e.data]
  <2>1. \A k \in DOMAIN one : g[Len(list)][Number(one[k])][one[k].block + 1] = e.data
    <3>1. \A k \in DOMAIN one : one[k] = e
      BY <1>7
    <3> HIDE DEF e
    <3> QED
      BY <1>3, <3>1
  <2> QED
    BY <1>7, <1>9, <2>1
<1>11. [k \in 1..1 |-> e.data] = <<e.data>>
  OBVIOUS
<1> QED
  BY <1>2, <1>6, <1>10, <1>11

\* Element i is the last of its store.
LastOn(list, i) == \A j \in (i + 1)..Len(list) : Number(list[j]) # Number(list[i])

\* The list that reads the elements s to i of a run from the head of the ring.
RunOf(list, s, i) == [j \in 1..(i - s + 1) |-> [list[s + j - 1] EXCEPT !.block = j - 1]]

\* A Read after a command whose last run on a ring ends with element i.
LEMMA RunReads ==
    ASSUME NEW list \in Seq(Element), NEW store, Typed(store), Written(store, list).status = OK,
           NEW i \in 1..Len(list), KindOf(list[i]) = "Cyclic",
           LastOn(list, i), NEW s, s = RunStart(list, i), NEW run, run = RunOf(list, s, i)
    PROVE  ReadOf(Written(store, list).blocks, run) = Sent(run)
<1> DEFINE n == Number(list[i])
           m == i - s + 1
<1>1. AllPass(list, "write", FALSE)
  BY SuccessAllPass DEF Written
<1>2. Passing(list)
  BY <1>1, ListPasses
<1>3. PICK g : Steps(g, store, list) /\ Written(store, list).blocks = g[Len(list)]
  BY SuccessSteps DEF Written
<1>4. /\ Len(RunData(list, i)) <= Count[n]
      /\ \A x \in 1..Len(RunData(list, i)) : g[Len(list)][n][x] = RunData(list, i)[x]
  BY <1>2, <1>3, RunStays DEF LastOn
<1>5. /\ Len(RunData(list, i)) = m /\ s \in 1..i /\ m \in Nat /\ Len(list) \in Nat
  BY <1>2, RunDataIs
<1>6. StartsRun(list, s, i)
  BY RunStarts
<1>7. ASSUME NEW j \in 1..m
      PROVE  /\ s + j - 1 \in 1..Len(list) /\ s + j - 1 \in s..i
             /\ RunData(list, i)[j] = list[s + j - 1].data
  BY <1>5 DEF RunData
<1>8. ASSUME NEW j \in 1..m
      PROVE  /\ ValidateBlockElement(run[j], "read", FALSE) = 0
             /\ g[Len(list)][Number(run[j])][run[j].block + 1] = run[j].data
  <2> DEFINE e == list[s + j - 1]
  <2>1. e \in Element /\ Passes(e) /\ Number(e) = n
    BY <1>2, <1>6, <1>7 DEF Passing, StartsRun
  <2>2. ValidateBlockElement(e, "write", FALSE) = 0
    <3>1. s + j - 1 \in DOMAIN list
      BY <1>7
    <3> QED
      BY <1>1, <3>1, Zenon DEF AllPass
  <2>3. run[j] = [e EXCEPT !.block = j - 1]
    BY DEF RunOf
  <2> HIDE DEF m
  <2>4. run[j].code = e.code /\ run[j].mode = e.mode /\ run[j].data = e.data /\ run[j].block = j - 1
    BY <2>1, <2>3 DEF Element
  <2>5. Passes(list[i]) /\ KindOf(e) = "Cyclic"
    BY <1>2, <2>1, OneKind DEF Passing
  <2>6. e.mode = 0 /\ e.code # Unlisted
    BY <2>1, <2>2, <2>5, Kinds, PassingIsListed
  <2>7. Number(run[j]) = n
    BY <2>1, <2>4 DEF Number
  <2>8. n \in DOMAIN Count /\ Count[n] \in Nat
    BY <2>5, StoreAssumption DEF Passes
  <2>9. j - 1 \in Nat /\ j - 1 < Count[n] /\ (j - 1) + 1 = j
    BY <1>4, <1>5, <2>8
  <2>10. Node[e.code].attribute \in ServiceAttribute /\ Node[e.code].registered
    BY <2>1 DEF Passes
  <2>11. ValidateBlockElement(run[j], "read", FALSE) = 0
    <3>1. PICK r : r = run[j]
      OBVIOUS
    <3>2. /\ r.code # Unlisted /\ Node[r.code].attribute \in ServiceAttribute /\ Node[r.code].registered
          /\ r.mode = 0 /\ r.block \in Nat /\ Count[Number(r)] \in Nat /\ r.block < Count[Number(r)]
      BY <2>4, <2>6, <2>7, <2>8, <2>9, <2>10, <3>1
    <3>3. ValidateBlockElement(r, "read", FALSE) = 0
      BY <3>2, ReadPasses
    <3> QED
      BY <3>1, <3>3
  <2>12. g[Len(list)][n][j] = e.data
    BY <1>4, <1>5, <1>7
  <2> QED
    BY <2>4, <2>7, <2>9, <2>11, <2>12
<1>9. DOMAIN run = 1..m
  BY DEF RunOf
<1>10. AllPass(run, "read", FALSE)
  BY <1>8, <1>9 DEF AllPass
<1> HIDE DEF m
<1>11. Readable(run)
  BY <1>5, <1>9, <1>10 DEF Readable
<1>12. ReadOf(g[Len(list)], run) = Named(g[Len(list)], run)
  BY <1>11, ReadGives
<1>13. \A k \in DOMAIN run : g[Len(list)][Number(run[k])][run[k].block + 1] = run[k].data
  BY <1>8, <1>9
<1>14. Named(g[Len(list)], run) = Sent(run)
  BY <1>13 DEF Named, Sent
<1> QED
  BY <1>3, <1>12, <1>14

\* What a successful command wrote last to a random block, and its last run on a
\* ring in list order, is what handle_read and handle_secure_read return.
THEOREM WritesAreRead == StoreSpec => []WrittenIsRead
<1>1. ASSUME StoreTypeOK PROVE WrittenIsRead
  <2> SUFFICES ASSUME NEW list \in Lists, ApplyBlockWrites(blocks, list, FALSE).status = OK,
                      NEW i \in DOMAIN list
               PROVE  LET result == ApplyBlockWrites(blocks, list, FALSE)
                          Later == {j \in i + 1..Len(list) : Number(list[j]) = Number(list[i])} IN
                /\ KindOf(list[i]) = "Random" /\ (\A j \in Later : list[j].block # list[i].block)
                   => ReadBlocks(result.blocks, <<list[i]>>, FALSE).data = <<list[i].data>>
                /\ KindOf(list[i]) = "Cyclic" /\ Later = {}
                   => LET s == CHOOSE s \in 1..i :
                                 /\ \A j \in s..i : Number(list[j]) = Number(list[i])
                                 /\ s = 1 \/ Number(list[s - 1]) # Number(list[i])
                          run == [j \in 1..(i - s + 1) |-> [list[s + j - 1] EXCEPT !.block = j - 1]] IN
                      ReadBlocks(result.blocks, run, FALSE).data = [j \in DOMAIN run |-> run[j].data]
    BY Zenon DEF WrittenIsRead
  <2> DEFINE Later == {j \in i + 1..Len(list) : Number(list[j]) = Number(list[i])}
             s == RunStart(list, i)
             run == [j \in 1..(i - s + 1) |-> [list[s + j - 1] EXCEPT !.block = j - 1]]
  <2>1. list \in Seq(Element) /\ Typed(blocks) /\ Len(list) \in Nat /\ i \in 1..Len(list)
    BY <1>1, ListsAre DEF StoreTypeOK, Typed
  <2>2. PICK store : store = blocks
    OBVIOUS
  <2>3. Typed(store) /\ Written(store, list).status = OK
    BY <2>1, <2>2 DEF Written
  <2>4. Passing(list)
    BY <2>1, <2>3, SuccessPasses DEF Written
  <2>5. ASSUME KindOf(list[i]) = "Random", \A j \in Later : list[j].block # list[i].block
        PROVE  ReadBlocks(ApplyBlockWrites(blocks, list, FALSE).blocks, <<list[i]>>, FALSE).data = <<list[i].data>>
    <3>1. ASSUME NEW j \in (i + 1)..Len(list) PROVE Misses(list[j], Number(list[i]), list[i].block + 1)
      <4> SUFFICES ASSUME Number(list[j]) = Number(list[i])
                   PROVE  KindOf(list[j]) # "Cyclic" /\ list[j].block + 1 # list[i].block + 1
        BY DEF Misses
      <4>1. j \in 1..Len(list) /\ Passes(list[i]) /\ Passes(list[j])
        BY <2>1, <2>4 DEF Passing
      <4>2. KindOf(list[j]) = "Random"
        BY <2>5, <4>1, OneKind
      <4>3. list[j].block # list[i].block
        BY <2>5
      <4>4. list[j].block \in Nat /\ list[i].block \in Nat
        BY <4>1 DEF Passes
      <4> QED
        BY <4>2, <4>3, <4>4
    <3>2. ReadBlocks(Written(store, list).blocks, <<list[i]>>, FALSE).data = <<list[i].data>>
      BY <2>1, <2>3, <2>5, <3>1, RandomReads
    <3> QED
      BY <2>2, <3>2 DEF Written
  <2>6. ASSUME KindOf(list[i]) = "Cyclic", Later = {}
        PROVE  ReadBlocks(ApplyBlockWrites(blocks, list, FALSE).blocks, run, FALSE).data = [j \in DOMAIN run |-> run[j].data]
    <3>1. LastOn(list, i)
      BY <2>6 DEF LastOn
    <3>2. ReadOf(Written(store, list).blocks, RunOf(list, s, i)) = Sent(RunOf(list, s, i))
      <4> HIDE DEF s
      <4>1. PICK t, r : t = RunStart(list, i) /\ r = RunOf(list, t, i)
        OBVIOUS
      <4>2. ReadOf(Written(store, list).blocks, r) = Sent(r)
        BY <2>1, <2>3, <2>6, <3>1, <4>1, RunReads
      <4> QED
        BY <4>1, <4>2 DEF s
    <3> QED
      BY <2>2, <3>2 DEF Written, ReadOf, Sent, RunOf
  <2> QED
    BY <2>5, <2>6 DEF RunStart
<1> QED
  BY <1>1, StoresKeepTheirSize, PTL

\* apply_block_writes applies a command completely or not at all: a failed one
\* changes nothing, one cut outside a cyclic run succeeds, and does, exactly what its
\* parts do one after the other (staging hides no dependence between the elements),
\* and what it wrote is what a Read returns.
THEOREM CommandsAreAtomic == StoreSpec => []AllOrNothing
<1>1. StoreTypeOK => NothingOnFailure
  BY ListsAre, CommandOutcome DEF NothingOnFailure
<1>2. StoreTypeOK => CommandIsSequential
  <2> SUFFICES ASSUME StoreTypeOK, NEW list \in Lists, NEW cut \in 1..(Len(list) - 1)
               PROVE  LET first == SubSeq(list, 1, cut)
                          second == SubSeq(list, cut + 1, Len(list))
                          whole == ApplyBlockWrites(blocks, list, FALSE)
                          one == ApplyBlockWrites(blocks, first, FALSE)
                          two == ApplyBlockWrites(one.blocks, second, FALSE)
                          outside == \/ Unlisted \in {list[cut].code, list[cut + 1].code}
                                     \/ Number(list[cut]) # Number(list[cut + 1])
                                     \/ KindOf(list[cut]) # "Cyclic"
                      IN  outside =>
                            /\ whole.status = OK <=> one.status = OK /\ two.status = OK
                            /\ whole.status = OK => whole.blocks = two.blocks
    BY Zenon DEF CommandIsSequential
  <2> DEFINE first == SubSeq(list, 1, cut)
             second == SubSeq(list, cut + 1, Len(list))
             whole == ApplyBlockWrites(blocks, list, FALSE)
             one == ApplyBlockWrites(blocks, first, FALSE)
             two == ApplyBlockWrites(one.blocks, second, FALSE)
             outside == \/ Unlisted \in {list[cut].code, list[cut + 1].code}
                        \/ Number(list[cut]) # Number(list[cut + 1])
                        \/ KindOf(list[cut]) # "Cyclic"
  <2> SUFFICES ASSUME outside
               PROVE  /\ whole.status = OK <=> one.status = OK /\ two.status = OK
                      /\ whole.status = OK => whole.blocks = two.blocks
    OBVIOUS
  <2> HIDE DEF first, second, whole, one, two, outside
  <2>1. list \in Seq(Element) /\ Typed(blocks) /\ Len(list) \in Nat
    BY ListsAre DEF StoreTypeOK, Typed
  <2>2. Parted(list, cut, first, second)
    <3>1. \A i \in 1..Len(list) : list[i] \in Element
      BY <2>1
    <3>2. cut \in Nat \ {0} /\ cut <= Len(list)
      BY <2>1
    <3>3. first \in Seq(Element) /\ Len(first) = cut /\ \A i \in 1..cut : first[i] = list[i]
      <4>1. \A i \in 1..cut : list[i] \in Element /\ 1 + i - 1 = i
        BY <2>1, <3>1, <3>2
      <4> QED
        BY <3>2, <4>1, SubSeqProperties DEF first
    <3>4. /\ second \in Seq(Element) /\ Len(second) = Len(list) - cut
          /\ \A i \in 1..(Len(list) - cut) : second[i] = list[i + cut]
      <4>1. /\ \A i \in (cut + 1)..Len(list) : list[i] \in Element
            /\ cut + 1 \in Int /\ Len(list) \in Int /\ cut + 1 <= Len(list)
            /\ Len(list) - (cut + 1) + 1 = Len(list) - cut
            /\ \A i \in 1..(Len(list) - cut) : (cut + 1) + i - 1 = i + cut
        BY <2>1, <3>1, <3>2
      <4>2. /\ second \in Seq(Element)
            /\ Len(second) = IF cut + 1 <= Len(list) THEN Len(list) - (cut + 1) + 1 ELSE 0
            /\ \A i \in 1..(Len(list) - (cut + 1) + 1) : second[i] = list[(cut + 1) + i - 1]
        BY <4>1, SubSeqProperties DEF second
      <4> QED
        BY <4>1, <4>2
    <3> QED
      BY <2>1, <3>3, <3>4 DEF Parted
  <2>3. Divides(list, cut)
    <3> SUFFICES ASSUME AllPass(list, "write", FALSE) PROVE Unlisted \notin {list[cut].code, list[cut + 1].code}
      BY DEF Outside, outside, Divides
    <3>1. cut \in DOMAIN list /\ cut + 1 \in DOMAIN list
      BY <2>1
    <3>2. /\ ValidateBlockElement(list[cut], "write", FALSE) = 0
          /\ ValidateBlockElement(list[cut + 1], "write", FALSE) = 0
      BY <3>1 DEF AllPass
    <3> QED
      BY <3>2, PassingIsListed
  <2>4. PICK store : store = blocks
    OBVIOUS
  <2>5. PICK f1, f2 : f1 = first /\ f2 = second
    OBVIOUS
  <2>6. Typed(store) /\ Parted(list, cut, f1, f2)
    BY <2>1, <2>2, <2>4, <2>5
  <2>7. PICK w, p, q : /\ w = Written(store, list) /\ p = Written(store, f1)
                       /\ q = Written(p.blocks, f2)
    OBVIOUS
  <2>8. w = whole /\ p = one /\ q = two
    BY <2>4, <2>5, <2>7 DEF whole, one, two, Written
  <2>9. /\ w.status = OK => p.status = OK /\ q.status = OK /\ w.blocks = q.blocks
        /\ p.status = OK /\ q.status = OK => w.status = OK
    BY ONLY <2>3, <2>6, <2>7, WholeIsItsParts
  <2> QED
    BY <2>8, <2>9
<1> QED
  BY <1>1, <1>2, StoresKeepTheirSize, WritesAreRead, PTL DEF AllOrNothing

\* The steps of a command that may be sent again.
Resends(g, store, list) ==
    /\ Passing(list) /\ \A i \in 1..Len(list) : list[i].code # Unlisted
    /\ Resendable(list)
    /\ Typed(store) /\ Steps(g, store, list)

\* Store n is a random one of the list; its elements up to i write block b of it.
RandomIn(list, n) == \E j \in 1..Len(list) : Number(list[j]) = n /\ KindOf(list[j]) = "Random"
Touched(list, i, n, b) == \E j \in 1..i : Number(list[j]) = n /\ list[j].block + 1 = b

\* What the stores are after element i when the command is sent again: a block
\* written so far is what it was then, every other block what the command left.
AgainBlock(g, list, i, n, b) ==
    IF Touched(list, i, n, b) THEN g[i][n][b] ELSE g[Len(list)][n][b]
AgainStore(g, list, i, n) ==
    IF RandomIn(list, n) THEN [b \in 1..Count[n] |-> AgainBlock(g, list, i, n, b)] ELSE g[Len(list)][n]
Again(g, list, i) == [n \in DOMAIN Count |-> AgainStore(g, list, i, n)]

\* A store as a function of its blocks.
LEMMA StoreIsItsBlocks ==
    ASSUME NEW store, Typed(store)
    PROVE  /\ store = [n \in DOMAIN Count |-> store[n]]
           /\ \A n \in DOMAIN Count : Count[n] \in Nat /\ store[n] = [b \in 1..Count[n] |-> store[n][b]]
<1>1. store \in [DOMAIN Count -> Seq(PurseBlock)]
  BY DEF Typed
<1>2. ASSUME NEW n \in DOMAIN Count
      PROVE  Count[n] \in Nat /\ store[n] = [b \in 1..Count[n] |-> store[n][b]]
  <2>1. store[n] \in Seq(PurseBlock) /\ Len(store[n]) = Count[n] /\ Count[n] \in Nat
    BY <1>1, StoreAssumption DEF Typed
  <2> QED
    BY <2>1
<1> QED
  BY <1>1, <1>2

\* It starts from what the command left, and ends there.
LEMMA AgainEnds ==
    ASSUME NEW g, NEW store, NEW list, Resends(g, store, list)
    PROVE  Again(g, list, 0) = g[Len(list)] /\ Again(g, list, Len(list)) = g[Len(list)]
<1>1. Len(list) \in Nat /\ Typed(g[Len(list)])
  <2>1. Passing(list) /\ Typed(store) /\ Steps(g, store, list) /\ Len(list) \in Nat
    BY DEF Resends, Passing
  <2>2. Len(list) \in 0..Len(list)
    BY <2>1
  <2> QED
    BY <2>1, <2>2, StepsTyped
<1>2. PICK final : final = g[Len(list)]
  OBVIOUS
<1>3. /\ final = [n \in DOMAIN Count |-> final[n]]
      /\ \A n \in DOMAIN Count : final[n] = [b \in 1..Count[n] |-> final[n][b]]
  BY <1>1, <1>2, StoreIsItsBlocks
<1>4. ASSUME NEW i \in {0, Len(list)}, NEW n \in DOMAIN Count PROVE AgainStore(g, list, i, n) = final[n]
  <2>1. ASSUME NEW b PROVE AgainBlock(g, list, i, n, b) = final[n][b]
    <3>1. i = 0 => ~Touched(list, i, n, b)
      BY DEF Touched
    <3> QED
      BY <1>2, <3>1 DEF AgainBlock
  <2> QED
    BY <1>2, <1>3, <2>1 DEF AgainStore
<1> QED
  BY <1>2, <1>3, <1>4 DEF Again

\* The facts about one step of the command.
LEMMA ResendStep ==
    ASSUME NEW g, NEW store, NEW list, Resends(g, store, list), NEW i \in 1..Len(list)
    PROVE  /\ Passing(list) /\ Passes(list[i])
           /\ Typed(g[i - 1]) /\ Typed(g[i])
           /\ Apply(g[i - 1], list, i) = Went(g[i])
<1>1. Passing(list) /\ Typed(store) /\ Steps(g, store, list) /\ Len(list) \in Nat
  BY DEF Resends, Passing
<1>2. i \in 0..Len(list) /\ i - 1 \in 0..Len(list)
  BY <1>1
<1>3. Typed(g[i]) /\ Typed(g[i - 1])
  BY <1>1, <1>2, StepsTyped
<1> QED
  BY <1>1, <1>3 DEF Passing, Steps

\* A block that element i does not write is the same before and after it.
LEMMA AgainKeeps ==
    ASSUME NEW g, NEW store, NEW list, Resends(g, store, list), NEW i \in 1..Len(list),
           NEW n \in DOMAIN Count, NEW b \in 1..Count[n], Misses(list[i], n, b)
    PROVE  AgainBlock(g, list, i, n, b) = AgainBlock(g, list, i - 1, n, b)
<1>1. g[i][n][b] = g[i - 1][n][b]
  BY ResendStep, StepMisses
<1>2. Touched(list, i, n, b) <=> Touched(list, i - 1, n, b)
  <2>1. Len(list) \in Nat
    BY DEF Resends, Passing
  <2>2. \A j \in 1..i : j = i \/ j \in 1..(i - 1)
    BY <2>1
  <2>3. \A j \in 1..(i - 1) : j \in 1..i
    BY <2>1
  <2>4. ~(Number(list[i]) = n /\ list[i].block + 1 = b)
    BY DEF Misses
  <2> QED
    BY <2>2, <2>3, <2>4 DEF Touched
<1> QED
  BY <1>1, <1>2 DEF AgainBlock

\* An element that does not write a random block leaves the stores as they are.
LEMMA AgainRests ==
    ASSUME NEW g, NEW store, NEW list, Resends(g, store, list), NEW i \in 1..Len(list),
           KindOf(list[i]) # "Random"
    PROVE  Again(g, list, i) = Again(g, list, i - 1)
<1>1. ASSUME NEW n \in DOMAIN Count PROVE AgainStore(g, list, i, n) = AgainStore(g, list, i - 1, n)
  <2>1. CASE RandomIn(list, n)
    <3>1. PICK j \in 1..Len(list) : Number(list[j]) = n /\ KindOf(list[j]) = "Random"
      BY <2>1 DEF RandomIn
    <3>2. Passes(list[i]) /\ Passes(list[j])
      BY ResendStep
    <3>3. Number(list[i]) # n
      BY <3>1, <3>2, OneKind
    <3>4. ASSUME NEW b \in 1..Count[n] PROVE AgainBlock(g, list, i, n, b) = AgainBlock(g, list, i - 1, n, b)
      <4>1. Misses(list[i], n, b)
        BY <3>3 DEF Misses
      <4> QED
        BY <4>1, AgainKeeps
    <3> QED
      BY <2>1, <3>4 DEF AgainStore
  <2>2. CASE ~RandomIn(list, n)
    BY <2>2 DEF AgainStore
  <2> QED
    BY <2>1, <2>2
<1> QED
  BY <1>1 DEF Again

\* A random block is written with the same data again.
LEMMA AgainRandom ==
    ASSUME NEW g, NEW store, NEW list, Resends(g, store, list), NEW i \in 1..Len(list),
           KindOf(list[i]) = "Random"
    PROVE  Again(g, list, i) = [Again(g, list, i - 1) EXCEPT ![Number(list[i])][list[i].block + 1] = list[i].data]
<1> DEFINE e == list[i]
           at == e.block + 1
<1>0. PICK n : n = Number(e)
  OBVIOUS
<1>1. Passes(e) /\ Typed(g[i - 1]) /\ Apply(g[i - 1], list, i) = Went(g[i])
  BY ResendStep
<1>2. n \in DOMAIN Count /\ Count[n] \in Nat /\ at \in 1..Count[n]
  <2>1. n \in DOMAIN Count /\ e.block \in Nat /\ e.block < Count[n]
    BY <1>0, <1>1 DEF Passes
  <2>2. Count[n] \in Nat
    BY <2>1, StoreAssumption
  <2> QED
    BY <2>1, <2>2
<1>3. RandomIn(list, n)
  BY <1>0 DEF RandomIn
<1>4. ASSUME NEW m \in DOMAIN Count, m # n PROVE AgainStore(g, list, i, m) = AgainStore(g, list, i - 1, m)
  <2>1. ASSUME NEW b \in 1..Count[m] PROVE AgainBlock(g, list, i, m, b) = AgainBlock(g, list, i - 1, m, b)
    <3>1. Misses(list[i], m, b)
      BY <1>0, <1>4 DEF Misses
    <3> QED
      BY <3>1, AgainKeeps
  <2> QED
    BY <2>1 DEF AgainStore
<1>5. ASSUME NEW b \in 1..Count[n], b # at PROVE AgainBlock(g, list, i, n, b) = AgainBlock(g, list, i - 1, n, b)
  <2>1. Misses(list[i], n, b)
    BY <1>5 DEF Misses
  <2> QED
    BY <1>2, <2>1, AgainKeeps
<1>6. AgainBlock(g, list, i, n, at) = e.data
  <2>1. Touched(list, i, n, at)
    BY <1>0 DEF Touched
  <2>2. g[i] = [g[i - 1] EXCEPT ![n][at] = e.data]
    BY <1>0, <1>1, RandomStep
  <2>3. g[i - 1] \in [DOMAIN Count -> Seq(PurseBlock)] /\ Len(g[i - 1][n]) = Count[n]
    BY <1>1, <1>2 DEF Typed
  <2>4. g[i - 1][n] \in Seq(PurseBlock) /\ at \in DOMAIN g[i - 1][n]
    BY <1>2, <2>3
  <2>5. g[i][n][at] = e.data
    BY <1>2, <2>2, <2>3, <2>4
  <2> QED
    BY <2>1, <2>5 DEF AgainBlock
<1> HIDE DEF at, e
<1>7. AgainStore(g, list, i, n) = [AgainStore(g, list, i - 1, n) EXCEPT ![at] = e.data]
  BY <1>2, <1>3, <1>5, <1>6 DEF AgainStore
<1>8. Again(g, list, i) = [Again(g, list, i - 1) EXCEPT ![n][at] = e.data]
  BY <1>2, <1>4, <1>7 DEF Again
<1> QED
  BY <1>0, <1>8 DEF at, e

\* What a store other than a random one holds while the command is sent again.
LEMMA AgainOther ==
    ASSUME NEW g, NEW store, NEW list, Resends(g, store, list), NEW i \in 1..Len(list), KindOf(list[i]) # "Random",
           NEW x
    PROVE  /\ Number(list[i]) \in DOMAIN Count
           /\ Again(g, list, x)[Number(list[i])] = g[Len(list)][Number(list[i])]
<1>1. Passes(list[i])
  BY ResendStep
<1>2. Number(list[i]) \in DOMAIN Count
  BY <1>1 DEF Passes
<1>3. ~RandomIn(list, Number(list[i]))
  <2> SUFFICES ASSUME NEW j \in 1..Len(list), Number(list[j]) = Number(list[i]) PROVE KindOf(list[j]) # "Random"
    BY DEF RandomIn
  <2>1. Passes(list[j])
    BY ResendStep
  <2> QED
    BY <1>1, <2>1, OneKind
<1> QED
  BY <1>2, <1>3 DEF Again, AgainStore

\* Nothing after element i writes its purse block.
LEMMA PurseStays ==
    ASSUME NEW g, NEW store, NEW list, Resends(g, store, list), NEW i \in 1..Len(list), KindOf(list[i]) = "Purse",
           NEW n, n = Number(list[i]), NEW at, at = list[i].block + 1
    PROVE  /\ n \in DOMAIN Count /\ at \in 1..Count[n]
           /\ g[Len(list)][n][at] = g[i][n][at]
<1>0. /\ Passing(list) /\ Typed(store) /\ Steps(g, store, list) /\ Len(list) \in Nat /\ Resendable(list)
      /\ \A j \in 1..Len(list) : list[j].code # Unlisted
  BY DEF Resends, Passing
<1>1. Passes(list[i])
  BY ResendStep
<1>2. n \in DOMAIN Count /\ Count[n] \in Nat /\ at \in 1..Count[n]
  <2>1. n \in DOMAIN Count /\ list[i].block \in Nat /\ list[i].block < Count[n]
    BY <1>1 DEF Passes
  <2>2. Count[n] \in Nat
    BY <2>1, StoreAssumption
  <2> QED
    BY <2>1, <2>2
<1>3. i \in 0..Len(list) /\ Len(list) \in i..Len(list)
  BY <1>0
<1>4. ASSUME NEW j \in (i + 1)..Len(list) PROVE Misses(list[j], n, at)
  <2>1. j \in 1..Len(list) /\ i < j /\ i \in DOMAIN list /\ j \in DOMAIN list
    BY <1>0 DEF Passing
  <2>2. Passes(list[j])
    BY <2>1, ResendStep
  <2> SUFFICES ASSUME Number(list[j]) = n PROVE KindOf(list[j]) # "Cyclic" /\ list[j].block + 1 # at
    BY DEF Misses
  <2>3. KindOf(list[j]) = "Purse"
    BY <1>1, <2>2, OneKind
  <2>4. list[i].block # list[j].block
    BY <1>0, <2>1 DEF Resendable
  <2>5. list[i].block \in Nat /\ list[j].block \in Nat
    BY <1>1, <2>2 DEF Passes
  <2> QED
    BY <2>3, <2>4, <2>5
<1>5. \A j \in (i + 1)..Len(list) : Misses(list[j], n, at)
  BY <1>4
<1>6. Passing(list) /\ Typed(store) /\ Steps(g, store, list)
  BY <1>0
<1>7. g[Len(list)][n][at] = g[i][n][at]
  BY ONLY <1>2, <1>3, <1>5, <1>6, StepsMiss
<1> QED
  BY <1>2, <1>7

\* A purse takes the command again without a change.
LEMMA AgainPurse ==
    ASSUME NEW g, NEW store, NEW list, Resends(g, store, list), NEW i \in 1..Len(list), KindOf(list[i]) = "Purse",
           NEW h, h = Again(g, list, i - 1)
    PROVE  Apply(h, list, i) = Went(h)
<1> DEFINE e == list[i]
<1>1. Passes(e) /\ Typed(g[i - 1]) /\ Apply(g[i - 1], list, i) = Went(g[i])
  BY ResendStep
<1>2. PICK n, at : n = Number(e) /\ at = e.block + 1
  OBVIOUS
<1>3. n \in DOMAIN Count /\ at \in 1..Count[n] /\ g[Len(list)][n][at] = g[i][n][at]
  BY <1>2, PurseStays
<1>4. g[i - 1] \in [DOMAIN Count -> Seq(PurseBlock)] /\ Len(g[i - 1][n]) = Count[n] /\ Count[n] \in Nat
  BY <1>1, <1>3, StoreAssumption DEF Typed
<1>5. g[i - 1][n] \in Seq(PurseBlock) /\ at \in DOMAIN g[i - 1][n] /\ g[i - 1][n][at] \in PurseBlock
  BY <1>3, <1>4
<1>6. PICK stored, command, operation, limit :
        /\ stored = g[i - 1][n][at] /\ command = e.data
        /\ operation = Resolve(e) /\ limit = Node[e.code].limit
  OBVIOUS
<1>7. stored \in PurseBlock /\ command \in PurseBlock /\ operation \in Operation /\ limit \in Limits \cup {NoLimit}
  BY <1>1, <1>5, <1>6, Kinds DEF Passes
<1>8. PICK once : once = ApplyPurseWrite(stored, command, operation, limit)
  OBVIOUS
<1>9. once.status = 0 /\ g[i] = [g[i - 1] EXCEPT ![n][at] = once.block]
  BY <1>1, <1>2, <1>6, <1>8, PurseStep
<1>10. ApplyPurseWrite(once.block, command, operation, limit) = once
  BY <1>7, <1>8, <1>9, WriteAgain
<1>11. g[i][n][at] = once.block
  BY <1>3, <1>4, <1>5, <1>9
<1>12. h[n] = g[Len(list)][n] /\ h[n][at] = once.block
  BY <1>2, <1>3, <1>11, AgainOther
<1>13. once = ApplyPurseWrite(h[Number(e)][e.block + 1], e.data, Resolve(e), Node[e.code].limit)
  BY <1>2, <1>6, <1>10, <1>12
<1>14. h = [h EXCEPT ![n][at] = once.block]
  <2>1. h = [m \in DOMAIN Count |-> h[m]]
    BY DEF Again
  <2>2. Typed(g[Len(list)])
    <3>1. Passing(list) /\ Typed(store) /\ Steps(g, store, list) /\ Len(list) \in 0..Len(list)
      BY DEF Resends, Passing
    <3> QED
      BY <3>1, StepsTyped
  <2>3. PICK line : line = h[n]
    OBVIOUS
  <2>4. line = [b \in 1..Count[n] |-> line[b]]
    BY <1>3, <1>12, <2>2, <2>3, StoreIsItsBlocks
  <2>5. [line EXCEPT ![at] = once.block] = line
    BY <1>12, <2>3, <2>4
  <2>6. [h EXCEPT ![n] = line] = h
    BY <2>1, <2>3
  <2> QED
    BY <2>3, <2>5, <2>6
<1> HIDE DEF e
<1>15. h = [h EXCEPT ![Number(e)][e.block + 1] = once.block]
  BY <1>2, <1>14
<1> QED
  BY ONLY <1>9, <1>13, <1>15, KindOf(list[i]) = "Purse", PurseStepBy DEF e

\* Nothing after the run that ends with element i writes its ring.
LEMMA RingStays ==
    ASSUME NEW g, NEW store, NEW list, Resends(g, store, list), NEW i \in 1..Len(list), KindOf(list[i]) = "Cyclic",
           EndsRun(list, i), NEW n, n = Number(list[i])
    PROVE  n \in DOMAIN Count /\ g[Len(list)][n] = g[i][n]
<1>0. /\ Passing(list) /\ Typed(store) /\ Steps(g, store, list) /\ Len(list) \in Nat
  BY DEF Resends, Passing
<1>1. n \in DOMAIN Count
  BY ResendStep DEF Passes
<1>2. i \in 0..Len(list) /\ Len(list) \in i..Len(list)
  BY <1>0
<1>3. ASSUME NEW j \in (i + 1)..Len(list) PROVE Number(list[j]) # n
  <2> SUFFICES ASSUME Number(list[j]) = n PROVE FALSE
    OBVIOUS
  <2>1. j \in 1..Len(list) /\ i < j /\ i \in DOMAIN list /\ j \in DOMAIN list /\ i + 1 \in i..j /\ i # Len(list)
    BY <1>0 DEF Passing
  <2>2. list[i].code # Unlisted /\ list[j].code # Unlisted /\ Resendable(list)
    BY <2>1 DEF Resends
  <2>3. \A k \in i..j : Number(list[k]) = n
    BY <2>1, <2>2 DEF Resendable
  <2> QED
    BY <2>1, <2>3 DEF EndsRun
<1>4. \A j \in (i + 1)..Len(list) : Number(list[j]) # n
  BY <1>3
<1>5. g[Len(list)][n] = g[i][n]
  BY ONLY <1>0, <1>1, <1>2, <1>4, StepsTouch
<1> QED
  BY <1>1, <1>5

\* A ring whose newest generations are the run takes it again without a change.
LEMMA RunAgain ==
    ASSUME NEW ring \in Seq(PurseBlock), NEW run \in Seq(PurseBlock), Len(run) <= Len(ring),
           \A x \in 1..Len(run) : ring[x] = run[x]
    PROVE  ApplyCyclicWrite(ring, run).status = 0 /\ ApplyCyclicWrite(ring, run).ring = ring
<1>0. Len(run) \in Nat /\ Len(ring) \in Nat
  OBVIOUS
<1>1. /\ SubSeq(ring, 1, Len(run)) \in Seq(PurseBlock) /\ Len(SubSeq(ring, 1, Len(run))) = Len(run)
      /\ \A x \in 1..Len(run) : SubSeq(ring, 1, Len(run))[x] = run[x]
  BY <1>0
<1>2. SubSeq(ring, 1, Len(run)) = run
  BY <1>1, SeqEqual
<1> QED
  BY <1>0, <1>2 DEF ApplyCyclicWrite

\* A ring takes the command again without a change.
LEMMA AgainRing ==
    ASSUME NEW g, NEW store, NEW list, Resends(g, store, list), NEW i \in 1..Len(list), KindOf(list[i]) = "Cyclic",
           EndsRun(list, i), NEW h, h = Again(g, list, i - 1)
    PROVE  Apply(h, list, i) = Went(h)
<1>1. Passing(list) /\ Typed(g[i - 1]) /\ Apply(g[i - 1], list, i) = Went(g[i])
  BY ResendStep
<1>2. PICK n : n = Number(list[i])
  OBVIOUS
<1>3. n \in DOMAIN Count /\ g[Len(list)][n] = g[i][n]
  BY <1>2, RingStays
<1>4. g[i - 1] \in [DOMAIN Count -> Seq(PurseBlock)] /\ Len(g[i - 1][n]) = Count[n]
  BY <1>1, <1>3 DEF Typed
<1>5. g[i - 1][n] \in Seq(PurseBlock)
  BY <1>3, <1>4
<1>6. PICK stored, run : stored = g[i - 1][n] /\ run = RunData(list, i)
  OBVIOUS
<1>7. PICK result : result = ApplyCyclicWrite(stored, run)
  OBVIOUS
<1>8. AtZero(list, i) /\ result.status = 0 /\ g[i] = [g[i - 1] EXCEPT ![n] = result.ring]
  BY <1>1, <1>2, <1>6, <1>7, CyclicStep
<1>9. stored \in Seq(PurseBlock) /\ run \in Seq(PurseBlock)
  BY <1>1, <1>5, <1>6, RunDataIs
<1>10. PICK ring : ring = result.ring
  OBVIOUS
<1>11. /\ ring \in Seq(PurseBlock) /\ Len(run) <= Len(ring)
       /\ \A x \in 1..Len(run) : ring[x] = run[x]
  BY <1>7, <1>8, <1>9, <1>10, RingPushed
<1>12. PICK again : again = ApplyCyclicWrite(ring, run)
  OBVIOUS
<1>13. again.status = 0 /\ again.ring = ring
  BY <1>9, <1>11, <1>12, RunAgain
<1>14. h[n] = ring
  <2>1. g[i][n] = ring
    BY <1>3, <1>4, <1>8, <1>10
  <2>2. h[n] = g[Len(list)][n]
    BY <1>2, AgainOther
  <2> QED
    BY <1>3, <2>1, <2>2
<1>15. again = ApplyCyclicWrite(h[Number(list[i])], RunData(list, i))
  BY <1>2, <1>6, <1>12, <1>14
<1>16. h = [h EXCEPT ![Number(list[i])] = again.ring]
  <2>1. h = [m \in DOMAIN Count |-> h[m]]
    BY DEF Again
  <2> QED
    BY <1>2, <1>3, <1>13, <1>14, <2>1
<1> QED
  BY ONLY <1>8, <1>13, <1>15, <1>16, KindOf(list[i]) = "Cyclic", EndsRun(list, i), CyclicStepBy

\* Every step of the command is a step of the command sent again.
LEMMA AgainSteps ==
    ASSUME NEW g, NEW store, NEW list, Resends(g, store, list), NEW i \in 1..Len(list)
    PROVE  Apply(Again(g, list, i - 1), list, i) = Went(Again(g, list, i))
<1>1. PICK h : h = Again(g, list, i - 1)
  OBVIOUS
<1>2. CASE KindOf(list[i]) = "Random"
  <2>1. Again(g, list, i) = [h EXCEPT ![Number(list[i])][list[i].block + 1] = list[i].data]
    BY <1>1, <1>2, AgainRandom
  <2> QED
    BY <1>1, <1>2, <2>1 DEF Apply, WriteRandom
<1>3. CASE KindOf(list[i]) = "Purse"
  <2>1. Apply(h, list, i) = Went(h)
    BY <1>1, <1>3, AgainPurse
  <2>2. Again(g, list, i) = h
    BY <1>1, <1>3, AgainRests
  <2> QED
    BY <1>1, <2>1, <2>2
<1>4. CASE KindOf(list[i]) = "Cyclic"
  <2>1. Apply(h, list, i) = Went(h)
    <3>1. CASE EndsRun(list, i)
      BY <1>1, <1>4, <3>1, AgainRing
    <3>2. CASE ~EndsRun(list, i)
      BY <1>4, <3>2 DEF Apply
    <3> QED
      BY <3>1, <3>2
  <2>2. Again(g, list, i) = h
    BY <1>1, <1>4, AgainRests
  <2> QED
    BY <1>1, <2>1, <2>2
<1> QED
  BY <1>2, <1>3, <1>4, ResendStep, Kinds

\* The command sent again succeeds and changes nothing.
LEMMA SentAgain ==
    ASSUME NEW store, Typed(store), NEW list \in Seq(Element), Resendable(list),
           NEW once, once = Written(store, list), once.status = OK
    PROVE  Written(once.blocks, list) = once
<1>1. AllPass(list, "write", FALSE)
  BY SuccessAllPass DEF Written
<1>2. Passing(list)
  BY <1>1, ListPasses
<1>3. PICK g : Steps(g, store, list) /\ once = Went(g[Len(list)])
  BY SuccessSteps DEF Written
<1>4. \A i \in 1..Len(list) : list[i].code # Unlisted
  <2>1. ASSUME NEW i \in 1..Len(list) PROVE list[i].code # Unlisted
    <3>1. i \in DOMAIN list
      OBVIOUS
    <3>2. ValidateBlockElement(list[i], "write", FALSE) = 0
      BY <1>1, <3>1, Zenon DEF AllPass
    <3> QED
      BY <3>2, PassingIsListed
  <2> QED
    BY <2>1
<1>5. Resends(g, store, list)
  BY <1>2, <1>3, <1>4 DEF Resends
<1> DEFINE h == [i \in 0..Len(list) |-> Again(g, list, i)]
<1>6. h[0] = g[Len(list)] /\ h[Len(list)] = g[Len(list)]
  BY <1>5, AgainEnds
<1>7. ASSUME NEW i \in 1..Len(list) PROVE Apply(h[i - 1], list, i) = Went(h[i])
  <2>1. h[i - 1] = Again(g, list, i - 1) /\ h[i] = Again(g, list, i)
    OBVIOUS
  <2> HIDE DEF h
  <2> QED
    BY <1>5, <2>1, AgainSteps
<1> HIDE DEF h
<1>8. Steps(h, g[Len(list)], list)
  BY <1>6, <1>7 DEF Steps
<1>9. ApplyBlockWrites(g[Len(list)], list, FALSE) = Went(h[Len(list)])
  BY <1>1, <1>8, CommandBySteps
<1>10. once.blocks = g[Len(list)]
  BY <1>3, WentFields
<1> QED
  BY <1>3, <1>6, <1>9, <1>10 DEF Written

\* A command that names each purse block once and each ring in one run can be sent
\* again after its answer was lost: it succeeds and changes nothing more.
THEOREM ResendsAreHarmless == StoreSpec => []ResendIsHarmless
<1>1. ASSUME StoreTypeOK PROVE ResendIsHarmless
  <2> SUFFICES ASSUME NEW list \in Lists, Resendable(list), ApplyBlockWrites(blocks, list, FALSE).status = OK
               PROVE  ApplyBlockWrites(ApplyBlockWrites(blocks, list, FALSE).blocks, list, FALSE)
                        = ApplyBlockWrites(blocks, list, FALSE)
    BY Zenon DEF ResendIsHarmless
  <2>1. list \in Seq(Element) /\ Typed(blocks)
    BY <1>1, ListsAre DEF StoreTypeOK, Typed
  <2>2. PICK store, once : store = blocks /\ once = Written(store, list)
    OBVIOUS
  <2>3. Typed(store) /\ once.status = OK
    BY <2>1, <2>2 DEF Written
  <2>4. Written(once.blocks, list) = once
    BY <2>1, <2>2, <2>3, SentAgain
  <2> QED
    BY <2>2, <2>4 DEF Written
<1> QED
  BY <1>1, StoresKeepTheirSize, PTL
=============================================================================
