------------------------------ MODULE MCBlocks -------------------------------
(***************************************************************************)
(* One purse block, ordinary or with limits inside the signed range of     *)
(* three-bit fields (part "purse"), and (part "store")                     *)
(* a System with three stores: random blocks under a keyed read/write and  *)
(* a free read-only Service, a ring, and a purse block under a cashback, a *)
(* direct and a limit Service, with lists of up to three elements that can *)
(* succeed and of up to two elements with every reason to be refused.      *)
(***************************************************************************)
EXTENDS Purse, BlockStore

VARIABLE part   \* what a behaviour is of; the other rests

MCProperties == {NoLimit, [limited |-> TRUE, lower |-> -2, upper |-> 3]}

MCCodes == {"randomRW", "randomRO", "ring", "cashback", "direct", "limited", "area", "absent"}

Service(attribute, keyed, number, limit) ==
    [attribute |-> attribute, registered |-> TRUE, keyed |-> keyed, number |-> number, limit |-> limit]

MCNode == [c \in MCCodes |->
    CASE c = "randomRW" -> Service("RandomReadWrite", TRUE, 1, NoLimit)
      [] c = "randomRO" -> Service("RandomReadOnly", FALSE, 1, NoLimit)
      [] c = "ring"     -> Service("CyclicReadWrite", FALSE, 2, NoLimit)
      [] c = "cashback" -> Service("PurseCashback", TRUE, 3, NoLimit)
      [] c = "direct"   -> Service("PurseDirect", TRUE, 3, NoLimit)
      [] c = "limited"  -> Service("PurseDecrement", FALSE, 3, [limited |-> TRUE, lower |-> 0, upper |-> 2])
      [] c = "area"     -> [Service("none", TRUE, 1, NoLimit) EXCEPT !.registered = FALSE]
      [] c = "absent"   -> [Service("RandomReadWrite", FALSE, 1, NoLimit) EXCEPT !.registered = FALSE]]

WideRing == <<2, 2, 1>>
SmallRing == <<1, 1, 1>>

Data(purse, id) == [purse |-> purse, cashback |-> 0, user |-> 0, execution |-> id]
MCInitial == Data(3, 0)
E(code, mode, at, data) == [code |-> code, mode |-> mode, block |-> at, data |-> data]

Writable ==
    {E("ring", 0, 0, Data(1, 1)), E("ring", 0, 0, Data(1, 2)), E("randomRW", 0, 0, Data(1, 1)),
     E("cashback", 0, 0, Data(1, 1)), E("cashback", 1, 0, Data(1, 2)), E("limited", 0, 0, Data(1, 2))}

Refusable ==
    {E("direct", 0, 0, Data(1, 1)), E("cashback", 0, 0, Data(1, 2)),
     E("randomRW", 0, 0, Data(1, 2)), E("randomRW", 0, 1, Data(1, 1)), E("randomRW", 0, 2, Data(1, 1)), E("randomRO", 0, 0, Data(1, 1)),
     E("randomRW", 1, 0, Data(1, 1)), E("randomRW", 2, 0, Data(1, 1)), E("ring", 0, 1, Data(1, 1)),
     E("area", 0, 0, Data(1, 1)), E("absent", 0, 0, Data(1, 1)), E("unlisted", 0, 0, Data(1, 1))}

UpTo(n, S) == UNION {[1..k -> S] : k \in 1..n}
MCLists == UpTo(3, Writable) \cup UpTo(2, Writable \cup Refusable)

-----------------------------------------------------------------------------
RunInit ==
    /\ part \in {"purse", "store"}
    /\ IF part = "purse" THEN Init ELSE property = NoLimit /\ block = Initial
    /\ StoreInit
RunNext ==
    /\ UNCHANGED part
    /\ \/ part = "purse" /\ Next /\ UNCHANGED blocks
       \/ part = "store" /\ StoreNext /\ UNCHANGED vars
RunSpec == RunInit /\ [][RunNext]_<<part, vars, blocks>>
==============================================================================
