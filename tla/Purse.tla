-------------------------------- MODULE Purse --------------------------------
(***************************************************************************)
(* One block of a purse Service under any sequence of writes               *)
(* (felica_standard/emulator/blocks.rs, apply_purse_write).  The Service   *)
(* has a LimitPurseProperty or none, and keeps it.                         *)
(***************************************************************************)
EXTENDS Blocks

CONSTANT Properties     \* limits a Service may have been registered with, or NoLimit

ASSUME PropertiesAssumption == Properties \subseteq Limits \cup {NoLimit}

VARIABLES
    property,   \* LimitPurseProperty of the Service, or NoLimit
    block       \* the stored block

vars == <<property, block>>

Init == property \in Properties /\ block \in PurseBlock

Write(operation, command) ==
    /\ block' = ApplyPurseWrite(block, command, operation, property).block
    /\ UNCHANGED property

Next == \E operation \in Operation, command \in PurseBlock : Write(operation, command)

Spec == Init /\ [][Next]_vars

-----------------------------------------------------------------------------
(* Properties                                                               *)

\* The block keeps its layout: every stored value fits its four bytes.
TypeOK == property \in Properties /\ block \in PurseBlock

\* A write that changes the block leaves the purse within its limits, whichever
\* operation it was and whatever the block held before.
ResultWithinLimits ==
    [][block' # block => InRange(ReadValue(block'.purse, property.limited), property)]_vars

\* No sequence of writes creates money in an ordinary purse: purse and cashback
\* data together never grow, so a cashback gives back at most the last decrement.
ValueNeverMinted ==
    [][~property.limited =>
         block'.purse + block'.cashback <= block.purse + block.cashback]_vars

\* A write whose answer was lost can be sent again: it succeeds and the block is
\* as after the first time.
RetryIsHarmless ==
    \A operation \in Operation, command \in PurseBlock :
        LET once == ApplyPurseWrite(block, command, operation, property) IN
        once.status = 0 => ApplyPurseWrite(once.block, command, operation, property) = once
=============================================================================
