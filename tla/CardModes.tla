----------------------------- MODULE CardModes -----------------------------
(***************************************************************************)
(* What a FeliCa card with several Systems promises about its Modes        *)
(* (table 4-1 of the card's manual, quoted in emulator/mod.rs and          *)
(* emulator/system.rs), with no keys, challenges or counters.              *)
(*                                                                         *)
(*   - at most one System is current, and only a command on the current    *)
(*     System (or the loss of power) changes the Mode of any System;       *)
(*   - a System that becomes current starts again from Mode 0;             *)
(*   - Mode 2 is entered from Mode 1 or Mode 2 only;                       *)
(*   - a plain read or write is served in Mode 0 only, a secure command    *)
(*     in Mode 2 only, and always by the current System.                   *)
(***************************************************************************)
EXTENDS Naturals

CONSTANT NSys       \* number of Systems on the card

VARIABLES
    current,        \* the current System, 0 before the card has one
    mode,           \* mode[i]: the Mode of System i
    served          \* what the last step served: "plain", "secure" or "other"

vars == <<current, mode, served>>

System == 1..NSys

Init ==
    /\ current = 0
    /\ mode = [i \in System |-> 0]
    /\ served = "other"

\* The Modes a command can move a System to from Mode m.
Reachable(m) == {0, 1} \cup (IF m \in {1, 2} THEN {2} ELSE {})

\* The System that is current runs a command that changes at most its Mode.
Command(i) ==
    /\ current = i
    /\ \E m \in Reachable(mode[i]) \cup {mode[i]} : mode' = [mode EXCEPT ![i] = m]
    /\ served' = "other"
    /\ UNCHANGED current

\* System i becomes current: whatever Mode it was left in is forgotten before
\* the command that selected it runs.
Select(i) ==
    /\ current # i
    /\ current' = i
    /\ \E m \in Reachable(0) : mode' = [mode EXCEPT ![i] = m]
    /\ served' \in {"other", "plain"}
    /\ served' = "plain" => mode'[i] = 0

\* A plain read or write on the current System.
ServePlain(i) ==
    /\ current = i
    /\ mode[i] = 0
    /\ served' = "plain"
    /\ UNCHANGED <<current, mode>>

\* A secure command on the current System.
ServeSecure(i) ==
    /\ current = i
    /\ mode[i] = 2
    /\ served' = "secure"
    /\ UNCHANGED <<current, mode>>

\* The card leaves the field.
PowerOff ==
    /\ current' \in System \cup {0}
    /\ current' = 0 <=> current = 0
    /\ mode' = [i \in System |-> 0]
    /\ served' = "other"

\* Nothing but the record of the last step changes.
Ignore == served' = "other" /\ UNCHANGED <<current, mode>>

Next ==
    \/ \E i \in System : Command(i) \/ Select(i) \/ ServePlain(i) \/ ServeSecure(i)
    \/ PowerOff
    \/ Ignore

Spec == Init /\ [][Next]_vars
=============================================================================
