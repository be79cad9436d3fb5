---------------------------- MODULE Port400Device ----------------------------
(***************************************************************************)
(* The Port-400 device: what the driver believes of its reader (the        *)
(* transparent session, the RF speeds it has to give back, the bit         *)
(* framing, the ISO-DEP session) and what the reader really holds.         *)
(*                                                                         *)
(* The driver is one thread, so an operation is one action; but it is      *)
(* several reader commands, and each of them may be carried out, be        *)
(* refused, or be carried out with its reply lost.  An operation is        *)
(* therefore written as the set of worlds it may end in.                   *)
(*                                                                         *)
(* Type B keeps its RF speed exactly as Type A does and is left out there. *)
(***************************************************************************)
EXTENDS Integers, Sequences, FiniteSets

CONSTANTS
    InitialSpeeds,  \* RF speeds a reader may be found with: [Protocols -> Codes]
    CallerSpeeds,   \* RF speeds a caller sets
    MaxFaults,      \* bound: replies lost and commands failing for no reason
    MaxLives,       \* bound: times the device is opened
    Operations,     \* the operations explored
    Afterwards      \* those explored once something went wrong

Protocols == {"A", "F"}
Order == <<"A", "F">>
Mixed == 9                          \* two directions at different speeds
Codes == {1, 2, 3, Mixed}
RF_SPEED_FIXED_VALUE == [p \in Protocols |-> IF p = "A" THEN 1 ELSE 2]
RF_SPEED_CODE_424K == 3
NoSpeed == 0

AllOperations == {"fixed", "reset_speed", "set_speed", "detect_f", "detect_424", "detect_a",
                  "detect_b", "detect_v", "poll_a", "whole", "short", "bit_framing",
                  "start_rffe", "end_rffe", "switch_rf", "query", "detect_a_low", "detect_b_low",
                  "reset_device", "idle"}

\* What the driver is not told of: the session or the bit framing of the reader is
\* no longer what the driver left there.
Disturbances == {"bit_framing", "reset_device", "idle"}

ASSUME Port400Assumption ==
    /\ InitialSpeeds \subseteq [Protocols -> Codes] /\ CallerSpeeds \subseteq Codes
    /\ MaxFaults \in Nat /\ MaxLives \in Nat
    /\ Operations \subseteq AllOperations /\ Afterwards \subseteq AllOperations

VARIABLES
    alive,     \* a Device exists
    world,     \* the device and its reader
    found,     \* RF speeds of the reader when the device was opened
    asked,     \* protocols whose speed the caller set itself
    calm,      \* nothing has gone wrong since the device was opened
    lives      \* times the device was opened

vars == <<alive, world, found, asked, calm, lives>>

\* The loader for firmware updates has no sessions and no framing.
Reader ==
    {r \in [session : BOOLEAN, speed : [Protocols -> Codes], rf : BOOLEAN,
            short : BOOLEAN,      \* transmission bit framing in force
            cut : BOOLEAN,        \* the last whole-byte command went out short
            update : BOOLEAN] :   \* booted into the firmware update loader
         r.update => ~r.session /\ ~r.short}

World == [session_open : BOOLEAN, original : [Protocols -> Codes \cup {NoSpeed}],
          type_f : {1, 2, 3, NoSpeed}, iso_dep : {"none", "A", "B"},
          modified_bit_framing : BOOLEAN, r : Reader,
          err : BOOLEAN, faults : 0..MaxFaults]

(***************************************************************************)
(* Type correctness.                                                       *)
(***************************************************************************)
TypeOK ==
    /\ alive \in BOOLEAN /\ world \in World
    /\ found \in [Protocols -> Codes] /\ asked \subseteq Protocols
    /\ calm \in BOOLEAN /\ lives \in 0..MaxLives

---------------------------------------------------------------------------
(***************************************************************************)
(* The reader (external): when it accepts a command and what the command   *)
(* does.  It refuses the RF speed commands while a session is open, and    *)
(* everything of a session without one.                                    *)
(***************************************************************************)
Accepts(c, r) ==
    \/ c.op = "reset"
    \/ /\ ~r.update
       /\ CASE c.op \in {"start", "get_speed", "set_speed"} -> ~r.session
            [] c.op = "get_data" -> TRUE
            [] OTHER -> r.session

Does(c, r) ==
    CASE c.op = "start" -> [r EXCEPT !.session = TRUE, !.short = FALSE]
      [] c.op = "end" -> [r EXCEPT !.session = FALSE, !.short = FALSE]
      [] c.op = "rf" -> [r EXCEPT !.rf = c.on]
      [] c.op = "switch" -> [r EXCEPT !.short = FALSE]
      [] c.op = "set_speed" -> [r EXCEPT !.speed[c.p] = c.code]
      [] c.op = "exchange" ->
            [r EXCEPT !.short = (c.framing = "short") \/ (c.framing = "keep" /\ @),
                      !.cut = c.framing = "keep" /\ r.short]
      [] c.op = "reset" -> [r EXCEPT !.session = FALSE, !.rf = FALSE, !.short = FALSE]
      [] OTHER -> r

---------------------------------------------------------------------------
(***************************************************************************)
(* Programs over worlds.  An error is kept in the world and makes the rest *)
(* of a `?` chain do nothing.                                              *)
(***************************************************************************)
Then(worlds, F(_)) == UNION {F(w) : w \in worlds}
Ignore(worlds) == {[w EXCEPT !.err = FALSE] : w \in worlds}
Fault(w) == [w EXCEPT !.err = TRUE, !.faults = @ + 1]

Command(w, c) ==
    IF w.err THEN {w}
    ELSE LET done == [w EXCEPT !.r = Does(c, @)]
             expected == IF Accepts(c, w.r) THEN done ELSE [w EXCEPT !.err = TRUE]
             lost == IF Accepts(c, w.r) THEN {Fault(w), Fault(done)} ELSE {}
         IN  {expected} \cup (IF w.faults < MaxFaults THEN lost ELSE {})

Simple(op) == [op |-> op]

\* Mutant: a session that was left open is not ended first.
start_without_priority(w, priority) ==
    Then(Command(w, Simple("start")), LAMBDA b :
    Then(Command(b, [op |-> "rf", on |-> FALSE]), LAMBDA c :
    Then(Command(c, [op |-> "rf", on |-> TRUE]), LAMBDA d :
         {IF d.err THEN d ELSE [d EXCEPT !.modified_bit_framing = FALSE]})))

\* pcsc: start_transparent_session.
start_transparent_session(w, priority) ==
    LET free == IF priority THEN Ignore(Command(w, Simple("end"))) ELSE {w} IN
    Then(free, LAMBDA a :
    Then(Command(a, Simple("start")), LAMBDA b :
    Then(Command(b, [op |-> "rf", on |-> FALSE]), LAMBDA c :
    Then(Command(c, [op |-> "rf", on |-> TRUE]), LAMBDA d :
         {IF d.err THEN d ELSE [d EXCEPT !.modified_bit_framing = FALSE]}))))

\* pcsc: end_transparent_session.  The field is switched off as far as possible.
end_transparent_session(w) ==
    Then(Ignore(Command(w, [op |-> "rf", on |-> FALSE])), LAMBDA a :
    Then(Command(a, Simple("end")), LAMBDA b :
         {IF b.err THEN b ELSE [b EXCEPT !.modified_bit_framing = FALSE]}))

\* pcsc: switch_protocol.
switch_protocol(w) ==
    Then(Command(w, Simple("switch")), LAMBDA a :
         {IF a.err THEN a ELSE [a EXCEPT !.modified_bit_framing = FALSE]})

\* Mutant: the framing of a short command is not reset.
transparent_exchange_forgets(w, short) ==
    IF w.err THEN {w}
    ELSE Command([w EXCEPT !.modified_bit_framing = short],
                 [op |-> "exchange", framing |-> IF short THEN "short" ELSE "keep"])

\* pcsc: transparent_exchange.  A short frame is undone by the next command
\* that is not short; what is remembered is what was meant, whatever happens
\* to the command.
transparent_exchange(w, short) ==
    IF w.err THEN {w}
    ELSE LET framing == IF short THEN "short"
                        ELSE IF w.modified_bit_framing THEN "reset" ELSE "keep"
         IN  Command([w EXCEPT !.modified_bit_framing = short],
                     [op |-> "exchange", framing |-> framing])

---------------------------------------------------------------------------
(***************************************************************************)
(* The device.                                                             *)
(***************************************************************************)
IsoDepEnded(w) == [w EXCEPT !.iso_dep = "none"]

\* without_transparent_session: the command runs between the end and a new
\* start of the session; its own error is reported after the session is back.
without_transparent_session(w, c) ==
    IF w.err THEN {w}
    ELSE IF ~w.session_open THEN Command(w, c)
    ELSE Then(end_transparent_session(w), LAMBDA a :
         IF a.err THEN {a}
         ELSE Then(Command([a EXCEPT !.session_open = FALSE], c), LAMBDA b :
              Then(start_transparent_session([b EXCEPT !.err = FALSE], FALSE), LAMBDA d :
                   IF d.err THEN {d}
                   ELSE Then(switch_protocol([d EXCEPT !.session_open = TRUE]), LAMBDA e :
                        {IF e.err THEN e
                         ELSE [IsoDepEnded(e) EXCEPT !.err = b.err]}))))

set_rf_speed(w, p, code) ==
    Then(without_transparent_session(w, [op |-> "set_speed", p |-> p, code |-> code]), LAMBDA a :
         {IF a.err \/ p # "F" THEN a
          ELSE [a EXCEPT !.type_f = IF code = Mixed THEN NoSpeed ELSE code]})

get_rf_speed(w, p) == without_transparent_session(w, [op |-> "get_speed", p |-> p])

\* pin_rf_speed: the speed found is saved before the first write.
pin_rf_speed(w, p, code) ==
    Then(IF w.original[p] = NoSpeed THEN get_rf_speed(w, p) ELSE {w}, LAMBDA a :
         IF a.err THEN {a}
         ELSE set_rf_speed([a EXCEPT !.original[p] = IF @ = NoSpeed THEN a.r.speed[p] ELSE @],
                           p, code))

\* set_fixed_rf_speed: one protocol after the other; an error forgets what was
\* saved and goes on.
FixOne(w, p) ==
    Then(pin_rf_speed(w, p, RF_SPEED_FIXED_VALUE[p]), LAMBDA a :
         {IF a.err THEN [a EXCEPT !.original[p] = NoSpeed, !.err = FALSE] ELSE a})
set_fixed_rf_speed(w) == Then(FixOne(w, Order[1]), LAMBDA a : FixOne(a, Order[2]))

\* Mutant: the speed of Type F is not put back.
ResetOneOnly(w, p) ==
    IF w.original[p] = NoSpeed \/ p = "F" THEN {w}
    ELSE Ignore(set_rf_speed([w EXCEPT !.original[p] = NoSpeed], p, w.original[p]))

\* reset_rf_speed: what was saved is taken before it is written back.
ResetOne(w, p) ==
    IF w.original[p] = NoSpeed THEN {w}
    ELSE Ignore(set_rf_speed([w EXCEPT !.original[p] = NoSpeed], p, w.original[p]))
reset_rf_speed(w) == Then(ResetOne(w, Order[1]), LAMBDA a : ResetOne(a, Order[2]))

\* ensure_type_f_rf_speed: nothing to do when the speed is known to fit.
ensure_type_f_rf_speed(w, code) ==
    IF w.type_f = code THEN {w}
    ELSE IF w.original["F"] # NoSpeed THEN set_rf_speed(w, "F", code)
    ELSE Then(get_rf_speed(w, "F"), LAMBDA a :
         IF a.err THEN {a}
         ELSE IF a.r.speed["F"] = code THEN {[a EXCEPT !.type_f = code]}
         ELSE set_rf_speed([a EXCEPT !.original["F"] = a.r.speed["F"]], "F", code))

\* detect_type_f: the speed, the fixed protocol, the polling, the auto switch.
\* The baud rate asked for at the end may fail without consequence.
detect_type_f(w, auto_baud) ==
    Then(IF auto_baud THEN ensure_type_f_rf_speed(w, RF_SPEED_CODE_424K) ELSE {w}, LAMBDA a :
    Then(switch_protocol(a), LAMBDA b :
    Then(transparent_exchange(b, FALSE), LAMBDA c :
         IF auto_baud THEN switch_protocol(c) ELSE {c})))

\* Get Data: what the reader knows of the card.
get_data(w) == Command(w, Simple("get_data"))

switch_rf(w) == Command(w, [op |-> "rf", on |-> ~w.r.rf])

\* detect_type_a with ISO-DEP, detect_type_b: the session starts once the
\* protocol is switched (and, for Type B, the card has answered).
Activate(w, type) ==
    Then(switch_protocol(w), LAMBDA a :
    Then(IF type = "B" THEN transparent_exchange(a, FALSE) ELSE {a}, LAMBDA b :
         IF b.err THEN {b}
         ELSE get_data([b EXCEPT !.iso_dep = type])))

\* detect_type_a without ISO-DEP.
prepare_type_a_polling(w) ==
    Then(switch_protocol(w), LAMBDA a : {IF a.err THEN a ELSE IsoDepEnded(a)})
detect_type_a(w) == Then(prepare_type_a_polling(w), LAMBDA a : get_data(a))

\* detect_type_a_low_level, detect_type_b_low_level: the 7-bit REQA and the
\* frames of the activation; the reader is told the new rate at the end.
WholeFrames(w) == Then(transparent_exchange(w, FALSE), LAMBDA a : transparent_exchange(a, FALSE))
detect_type_a_low_level(w) ==
    Then(prepare_type_a_polling(w), LAMBDA a :
    Then(transparent_exchange(a, TRUE), LAMBDA b :
    Then(WholeFrames(b), LAMBDA c : Command(c, Simple("comm_speed")))))
detect_type_b_low_level(w) ==
    Then(switch_protocol(w), LAMBDA a :
    Then(WholeFrames(a), LAMBDA b : Command(b, Simple("comm_speed"))))

detect_type_v(w) == Then(switch_protocol(w), LAMBDA a : get_data(a))

\* set_tx_bit_framing: the framing is the payload of an exchange without flags.
set_tx_bit_framing(w) ==
    Command([w EXCEPT !.modified_bit_framing = FALSE], [op |-> "exchange", framing |-> "short"])

start_rffe_parameter_mode(w) ==
    Then(end_transparent_session(w), LAMBDA a :
         {IF a.err THEN a ELSE [a EXCEPT !.session_open = FALSE]})
end_rffe_parameter_mode(w) ==
    Then(start_transparent_session(w, FALSE), LAMBDA a :
         {IF a.err THEN a ELSE [a EXCEPT !.session_open = TRUE]})

\* reset_device: a reader in update mode resets without an answer.
reset_device(w) ==
    LET after == Command(w, Simple("reset")) IN IF w.r.update THEN Ignore(after) ELSE after

\* keep_alive was not called in time: the reader ends the session by itself.
drop_idle_session(w) == [w EXCEPT !.r.session = FALSE, !.r.rf = FALSE, !.r.short = FALSE]

\* release_reader: the session if it is known to be open, then the speeds.
release_reader(w) ==
    Then(IF w.session_open
         THEN {[a EXCEPT !.session_open = FALSE] : a \in Ignore(end_transparent_session(w))}
         ELSE {w},
         LAMBDA a : reset_rf_speed(a))

\* Device::new: a reader in update mode gets no session.
Fresh(r, faults) ==
    [session_open |-> FALSE, original |-> [p \in Protocols |-> NoSpeed], type_f |-> NoSpeed,
     iso_dep |-> "none", modified_bit_framing |-> FALSE, r |-> [r EXCEPT !.cut = FALSE],
     err |-> FALSE, faults |-> faults]
new(w) ==
    IF w.r.update THEN {w}
    ELSE Then(start_transparent_session(w, TRUE), LAMBDA a :
         IF a.err THEN {a} ELSE switch_protocol([a EXCEPT !.session_open = TRUE]))

---------------------------------------------------------------------------
Init ==
    /\ alive = FALSE /\ calm = FALSE /\ lives = 0 /\ asked = {}
    /\ found \in InitialSpeeds
    /\ \E s, u \in BOOLEAN :
          /\ ~(s /\ u)
          /\ world = Fresh([session |-> s, speed |-> found, rf |-> s, short |-> FALSE,
                            cut |-> FALSE, update |-> u], 0)

Settled(w) == [w EXCEPT !.err = FALSE]

\* A Device that could not be built is gone, and its destructor never ran.
Open ==
    /\ ~alive /\ lives < MaxLives
    /\ lives' = lives + 1
    /\ \E w \in new(world) :
          /\ alive' = ~w.err /\ calm' = ~w.err
          /\ world' = IF w.err THEN Fresh(w.r, w.faults) ELSE w
          /\ found' = w.r.speed
    /\ asked' = {}

Run(worlds) ==
    /\ alive
    /\ \E w \in worlds : world' = Settled(w)
    /\ UNCHANGED <<alive, found, lives>>

\* History: no fault in this operation either.
StaysCalm == calm /\ world'.faults = world.faults

Explored(op) == op \in (IF calm THEN Operations ELSE Afterwards)

Perform(op) ==
    /\ Explored(op)
    /\ asked' = asked
    /\ \/ op = "fixed" /\ Run(set_fixed_rf_speed(world))
       \/ op = "reset_speed" /\ Run(reset_rf_speed(world))
       \/ op = "detect_f" /\ Run(detect_type_f(world, FALSE))
       \/ op = "detect_424" /\ Run(detect_type_f(world, TRUE))
       \/ op = "detect_a" /\ Run(Activate(world, "A"))
       \/ op = "detect_b" /\ Run(Activate(world, "B"))
       \/ op = "detect_v" /\ Run(detect_type_v(world))
       \/ op = "poll_a" /\ Run(detect_type_a(world))
       \/ op = "whole" /\ Run(transparent_exchange(world, FALSE))
       \/ op = "short" /\ Run(transparent_exchange(world, TRUE))
       \/ op = "bit_framing" /\ Run(set_tx_bit_framing(world))
       \/ op = "start_rffe" /\ Run(start_rffe_parameter_mode(world))
       \/ op = "end_rffe" /\ Run(end_rffe_parameter_mode(world))
       \/ op = "query" /\ Run(get_data(world))
       \/ op = "detect_a_low" /\ Run(detect_type_a_low_level(world))
       \/ op = "detect_b_low" /\ Run(detect_type_b_low_level(world))
       \/ op = "switch_rf" /\ Run(switch_rf(world))
       \/ op = "reset_device" /\ Run(reset_device(world))
       \/ op = "idle" /\ Run({drop_idle_session(world)})
    /\ calm' = (StaysCalm /\ op \notin Disturbances)

SetRfSpeed(p, code) ==
    /\ Explored("set_speed")
    /\ Run(set_rf_speed(world, p, code))
    /\ asked' = asked \cup {p}
    /\ calm' = StaysCalm

\* close, or the destructor; what the driver knew is gone with it.
Close ==
    /\ alive
    /\ alive' = FALSE
    /\ \E w \in release_reader(world) : world' = Fresh(w.r, w.faults)
    /\ calm' = StaysCalm
    /\ UNCHANGED <<found, asked, lives>>

\* The process ends without running the destructor.
Crash ==
    /\ alive
    /\ alive' = FALSE /\ calm' = FALSE
    /\ world' = Fresh(world.r, world.faults)
    /\ UNCHANGED <<found, asked, lives>>

Done == ~alive /\ lives = MaxLives /\ UNCHANGED vars

Next ==
    \/ Open \/ Close \/ Crash \/ Done
    \/ \E op \in AllOperations : Perform(op)
    \/ \E p \in Protocols, code \in CallerSpeeds : SetRfSpeed(p, code)

Spec == Init /\ [][Next]_vars

---------------------------------------------------------------------------
\* Close and drop give every RF speed back that the caller did not set himself: the
\* reader is left with the speeds it was found with, whatever detections and
\* fixed-speed phases came between.
SpeedsGivenBack == ~alive /\ calm => \A p \in Protocols \ asked : world.r.speed[p] = found[p]

\* Close and drop end the transparent session, which "belongs to the reader and
\* outlives the process".
SessionGivenBack == ~alive /\ calm => ~world.r.session

\* The device keeps its types, and once nothing goes wrong close and drop give the reader
\* back as found: RF speeds restored, session over (reset_rf_speed, release_reader).
ReaderGivenBack == TypeOK /\ SpeedsGivenBack /\ SessionGivenBack

\* The cached Type-F speed, by which a detection skips the write, is the one the
\* reader is "known to be set to in both directions".
CacheIsTrue == alive /\ calm /\ world.type_f # NoSpeed => world.type_f = world.r.speed["F"]

\* What is kept to be put back is the speed the reader was found with, never one the
\* driver wrote itself.
SavedIsFound == alive /\ calm => \A p \in Protocols \ asked : world.original[p] \in {NoSpeed, found[p]}

\* A command of whole bytes is never sent with the short framing that an earlier
\* command left in the reader.
WholeBytesAreWhole == calm => ~world.r.cut

\* What the driver remembers of the reader is true: the cached Type F speed, the speeds
\* it was found with, whether its bit framing has to be reset, and whether it has a
\* session (detect_type_f, pin_rf_speed, transparent_exchange, session_open).
BeliefIsTrue ==
    /\ CacheIsTrue /\ SavedIsFound /\ WholeBytesAreWhole
    /\ alive /\ calm => (world.session_open <=> world.r.session)

\* "The speed in place beforehand is remembered and put back" (set_fixed_rf_speed), also
\* when a command failed on the way and the close itself meets no fault.
SpeedsSurviveFaults ==
    [][Close /\ world'.faults = world.faults =>
         \A p \in Protocols \ asked : world'.r.speed[p] = found[p]]_vars

(***************************************************************************)
(* Opening takes over a session that a process which ended uncleanly, or a *)
(* Device that failed half way, left in the reader: without a new fault a  *)
(* device can always be opened.                                            *)
(***************************************************************************)
OpenRecovers ==
    [][(lives' = lives + 1 /\ world'.faults = world.faults) => alive']_vars

(***************************************************************************)
(* "Re-opening the session power cycles the RF field, so a card that was   *)
(* activated has to be polled again": no ISO-DEP session goes on across    *)
(* it.                                                                     *)
(***************************************************************************)
ReopeningEndsIsoDep ==
    [][(alive /\ alive' /\ ~world.r.session /\ world'.r.session) => world'.iso_dep = "none"]_vars
=============================================================================
