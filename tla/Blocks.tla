-------------------------------- MODULE Blocks -------------------------------
(***************************************************************************)
(* The pure write rules of felica_standard/emulator/blocks.rs: arithmetic  *)
(* on one purse block and the ring of a cyclic Service.  The four-byte     *)
(* fields are numbers in 0..Max; Max stands for u32::MAX and SignedMax for *)
(* i32::MAX.                                                               *)
(***************************************************************************)
EXTENDS Integers, Sequences

CONSTANTS
    SignedMax,      \* the largest value of a signed field
    ExecutionIds,   \* execution IDs, bytes D12-D15
    UserData        \* bytes D8-D11

ASSUME WidthAssumption == SignedMax \in Nat

Max == 2 * SignedMax + 1
Field == 0..Max

\* A 16-byte block, whatever the kind of the Service that holds it.
PurseBlock == [purse : Field, cashback : Field, user : UserData, execution : ExecutionIds]
Operation == {"Direct", "Decrement", "Cashback"}

\* Option<LimitPurseProperty>.
NoLimit == [limited |-> FALSE, lower |-> 0, upper |-> Max]
Limits == [limited : {TRUE}, lower : -(SignedMax + 1)..SignedMax, upper : -(SignedMax + 1)..SignedMax]

\* read_value: a limit purse holds two's-complement numbers.
ReadValue(raw, signed) == IF signed /\ raw > SignedMax THEN raw - (Max + 1) ELSE raw

\* write_value (`value as u32'), for the values that pass the range check.
WriteValue(value) == IF value < 0 THEN value + (Max + 1) ELSE value

InRange(value, limit) == limit.lower <= value /\ value <= limit.upper

\* 03h for a limit purse, 01h for an ordinary one.
OutOfRange(limit) == IF limit.limited THEN 3 ELSE 1

Refused(stored, sf2) == [status |-> sf2, block |-> stored]
Stored(b) == [status |-> 0, block |-> b]

\* Mutant: the supplied purse may exceed the stored one.
DirectInflates(stored, command, limit) ==
    LET purse == ReadValue(command.purse, limit.limited) IN
    IF ~InRange(purse, limit) THEN Refused(stored, OutOfRange(limit)) ELSE Stored(command)

\* Direct access stores the command's block unless it inflates a field.
Direct(stored, command, limit) ==
    LET Value(raw) == ReadValue(raw, limit.limited)
        purse == Value(command.purse)
        cashback == Value(command.cashback) IN
    IF \/ purse > Value(stored.purse)
       \/ cashback > Value(stored.cashback)
       \/ Value(stored.purse) + cashback > Max
    THEN Refused(stored, 165)
    ELSE IF ~InRange(purse, limit) THEN Refused(stored, OutOfRange(limit)) ELSE Stored(command)

\* Mutant: only the floor is checked, and only for an ordinary purse.
DecrementUnbounded(stored, command, limit) ==
    LET amount == ReadValue(command.purse, limit.limited)
        result == ReadValue(stored.purse, limit.limited) - amount IN
    IF result < 0 /\ ~limit.limited
    THEN Refused(stored, OutOfRange(limit))
    ELSE Stored([command EXCEPT !.purse = WriteValue(result), !.cashback = WriteValue(amount),
                                !.user = stored.user])

\* Decrement subtracts the command's value and records it as cashback data.
Decrement(stored, command, limit) ==
    LET amount == ReadValue(command.purse, limit.limited)
        result == ReadValue(stored.purse, limit.limited) - amount IN
    IF ~InRange(result, limit)
    THEN Refused(stored, OutOfRange(limit))
    ELSE Stored([command EXCEPT !.purse = WriteValue(result), !.cashback = WriteValue(amount),
                                !.user = stored.user])

\* Cashback adds back at most the cashback data, and clears it.
Cashback(stored, command, limit) ==
    LET amount == ReadValue(command.purse, limit.limited)
        result == ReadValue(stored.purse, limit.limited) + amount IN
    IF amount > ReadValue(stored.cashback, limit.limited)
    THEN Refused(stored, 2)
    ELSE IF ~InRange(result, limit)
    THEN Refused(stored, OutOfRange(limit))
    ELSE Stored([command EXCEPT !.purse = WriteValue(result), !.cashback = 0,
                                !.user = stored.user])

\* Mutant: the execution ID is not compared.
NeverRepeats(stored, command, operation) == FALSE

\* A repeated execution ID completes without updating the block (not Direct).
Repeats(stored, command, operation) ==
    operation # "Direct" /\ command.execution = stored.execution

\* apply_purse_write: the status and the block that is stored afterwards.
ApplyPurseWrite(stored, command, operation, limit) ==
    IF Repeats(stored, command, operation) THEN Stored(stored)
    ELSE CASE operation = "Direct" -> Direct(stored, command, limit)
           [] operation = "Decrement" -> Decrement(stored, command, limit)
           [] operation = "Cashback" -> Cashback(stored, command, limit)

\* Mutant: the new run goes behind the stored generations.
CyclicAppends(stored, run) ==
    IF Len(run) > Len(stored) THEN [status |-> 175, ring |-> stored]
    ELSE [status |-> 0, ring |-> SubSeq(stored \o run, Len(run) + 1, Len(stored) + Len(run))]

\* apply_cyclic_write: a run is pushed as one unit, newest first, unless it
\* repeats the newest generations; AFh if it is longer than the ring.
ApplyCyclicWrite(stored, run) ==
    IF Len(run) > Len(stored) THEN [status |-> 175, ring |-> stored]
    ELSE IF SubSeq(stored, 1, Len(run)) = run THEN [status |-> 0, ring |-> stored]
    ELSE [status |-> 0, ring |-> run \o SubSeq(stored, 1, Len(stored) - Len(run))]
=============================================================================
