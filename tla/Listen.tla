------------------------------- MODULE Listen --------------------------------
(***************************************************************************)
(* The Port-100 reader as a target (driver/port100/discovery/target.rs and *)
(* dep.rs): listen_type_a, listen_type_f and listen_dep answer an          *)
(* initiator's frames until the exchange is the caller's to drive.         *)
(*                                                                         *)
(* One target exchange of the chipset transmits what is pending and        *)
(* returns the initiator's next frame, a fault, or a broken transport.     *)
(* The initiator keeps to its protocol; answers it misses, frames lost on  *)
(* the air and frames of other devices are counted as disturbances.        *)
(***************************************************************************)
EXTENDS Naturals

CONSTANTS
    Targets,       \* what a caller listens as: see Target
    Dids,          \* device ids an initiator assigns, 0 among them
    IdmOf,         \* IdmOf[c]: what the responder answers for system code c, or None
    MaxTime,       \* the caller's timeout, in exchanges
    MaxDisturb,    \* bound: disturbances
    MaxDep,        \* bound: frames of a DEP activation
    None

BitRates == {"106A", "212F", "424F"}
\* tech: the method called; complete: the fields it demands are there; sel_res; TC(1).
Target == [tech : {"A", "B", "F", "dep"}, complete : BOOLEAN, sel : {0, 32, 64, 96}, did : BOOLEAN,
           rate : BitRates]

ListenAssumption ==
    /\ Targets \subseteq Target
    /\ 0 \in Dids /\ Dids \subseteq Nat
    /\ MaxTime \in Nat \ {0} /\ MaxDisturb \in Nat /\ MaxDep \in Nat

VARIABLES
    target,        \* the LocalTarget given
    pc,            \* where the listening is, or how it ended
    left,          \* TimeoutWindow::remaining_ms
    rf,            \* rate of the reader's target RF
    rf_off_error,  \* protocol setting: is the loss of the field an error?
    session,       \* Tt4Session, the polls of listen_type_f, or the DEP activation
    pending,       \* what the next exchange transmits, or None
    frame,         \* the frame received last, with its rate
    sent,          \* history: what the last exchange transmitted, at which rate, after which frame
    peer,          \* the initiator: rate, activated, and the device id or IDm it uses
    found,         \* the LocalTarget returned, or None
    disturbed, framesDep

vars == <<target, pc, left, rf, rf_off_error, session, pending, frame, sent, peer, found, disturbed, framesDep>>

-----------------------------------------------------------------------------
\* Frames: kind, rate, device id or code, and act: the first one after the chipset
\* was selected (is_activation_frame).
Frame(kind, rate, id, act) == [kind |-> kind, rate |-> rate, id |-> id, act |-> act]
NoFrame == Frame("none", "106A", 0, FALSE)

\* is_valid_tt4_command: cmd is the device id the frame carries, or None.
is_valid_tt4_command(rats, cmd) ==
    \/ cmd # None /\ target.did /\ cmd = rats
    \/ cmd = None /\ rats = 0

\* What an answer is to: the kind of response each frame gets.
AnswerTo(f) == [kind |-> f.kind, id |-> f.id]

-----------------------------------------------------------------------------
(* The initiator, external: what it may say next, and what an answer tells it. *)

Hears(p, tx) ==
    CASE tx = None -> p
      [] tx.kind \in {"rats", "atr"} -> [p EXCEPT !.id = tx.id]
      [] tx.kind = "sensf" -> [p EXCEPT !.id = IdmOf[tx.id]]
      [] tx.kind = "deselect" -> [p EXCEPT !.id = None, !.active = FALSE]
      [] tx.kind = "psl" -> [p EXCEPT !.rate = tx.id]

\* Block formats: id 0 may be left out, and a target without support gets none.
DidForms(id) == IF ~target.did THEN {None} ELSE IF id = 0 THEN {0, None} ELSE {id}
DepDid(id) == IF id = 0 THEN None ELSE id

Says(p) ==
    CASE target.tech = "A" /\ target.sel = 0 -> {Frame("tt2", "106A", 0, ~p.active)}
      [] target.tech = "A" /\ target.sel # 0 ->
           IF p.id = None THEN {Frame("rats", "106A", d, TRUE) : d \in IF target.did THEN Dids ELSE {0}}
           ELSE {Frame(k, "106A", d, FALSE) : k \in {"tt4", "deselect"}, d \in DidForms(p.id)}
      [] target.tech = "F" ->
           {Frame("sensf", p.rate, c, FALSE) : c \in DOMAIN IdmOf}
           \cup (IF p.id = None THEN {} ELSE {Frame("tt3", p.rate, p.id, FALSE)})
      [] OTHER ->
           IF p.id = None THEN {Frame("atr", p.rate, d, ~p.active) : d \in Dids}
           ELSE {Frame("dep", p.rate, DepDid(p.id), FALSE), Frame("dsl", p.rate, 0, FALSE),
                 Frame("rls", p.rate, 0, FALSE)}
                \cup {Frame("psl", p.rate, r, FALSE) : r \in BitRates}

\* Frames of other devices: another device id or IDm, an unknown or empty frame; for
\* DEP also a Type 2 command, requests of a wrong form and an activation without ATR_REQ.
Noise(p) ==
    {Frame("junk", p.rate, 99, FALSE)}
    \cup CASE target.tech = "A" -> {Frame("tt4", "106A", 99, FALSE), Frame("deselect", "106A", 99, FALSE)}
           [] target.tech = "F" -> {Frame("tt3", p.rate, 99, FALSE)}
           [] OTHER -> {Frame("tt2", "106A", 0, TRUE), Frame("dep", p.rate, 99, TRUE)}
                       \cup {Frame(k, p.rate, 99, FALSE) : k \in {"dep", "psl_uneven", "psl_short"}}
                       \cup {Frame("atr_length", p.rate, 99, act) : act \in BOOLEAN}

-----------------------------------------------------------------------------
Init ==
    /\ target \in Targets
    /\ pc = "start" /\ left = MaxTime
    /\ rf = "106A" /\ rf_off_error = 0
    /\ session = None /\ pending = None
    /\ frame = NoFrame /\ sent = [what |-> None, rate |-> "106A", after |-> NoFrame]
    /\ \E r \in BitRates : peer = [rate |-> IF target.tech = "A" THEN "106A"
                                         ELSE IF target.tech = "F" THEN target.rate ELSE r,
                                active |-> FALSE, id |-> None]
    /\ found = None /\ disturbed = 0 /\ framesDep = 0

\* listen_type_a, listen_type_b, listen_type_f and listen_dep up to the loop.
Start ==
    /\ pc = "start"
    /\ LET supported == /\ target.tech # "B"
                        /\ target.tech = "F" => target.rate \in {"212F", "424F"}
                        /\ target.complete
       IN IF ~supported
          THEN pc' = "error" /\ UNCHANGED <<rf, rf_off_error>>
          ELSE /\ rf' = IF target.tech = "F" THEN target.rate ELSE "106A"
               /\ rf_off_error' = 0
               /\ pc' = IF target.tech = "A" /\ target.sel = 64 THEN "error" ELSE "loop"
    /\ UNCHANGED <<target, left, session, pending, frame, sent, peer, found, disturbed, framesDep>>

\* The chipset selects itself at the rate of the initiator that activates it.
RfAfter(f) == IF f.act THEN f.rate ELSE rf

\* Every exchange of the loop takes time; one that ends in a fault may take all.
Elapse == left' \in 0..(left - 1)

\* The loop goes on while the window is active.
GoOn == pc' = IF left' = 0 THEN "none" ELSE "loop"

Found(record) ==
    /\ rf_off_error' = 1
    /\ found' = record
    /\ pc' = "found"

Keep(record) == GoOn /\ session' = record /\ UNCHANGED <<rf_off_error, found>>

-----------------------------------------------------------------------------
\* listen_type_a_tt2.
HandleTt2(f) ==
    /\ pending' = None
    /\ IF f.rate = "106A" /\ f.act
       THEN Found([type |-> "tt2", rate |-> "106A", cmd |-> f]) /\ UNCHANGED session
       ELSE Keep(session)

\* handle_tt4_frame; session is the device id of the RATS command, or None.
HandleTt4(f) ==
    IF f.rate = "106A" /\ f.act /\ f.kind = "rats"
    THEN Keep(f.id) /\ pending' = AnswerTo(f)
    ELSE IF \/ f.rate # "106A" \/ session = None \/ f.kind = "junk"
            \/ ~is_valid_tt4_command(session, f.id)
    THEN Keep(session) /\ pending' = None
    ELSE IF f.kind = "deselect"
    THEN Keep(None) /\ pending' = AnswerTo(f)
    ELSE /\ Found([type |-> "tt4", rate |-> "106A", cmd |-> f, link |-> session])
         /\ session' = None /\ pending' = None

\* Mutant: the poll answered first is the one that is reported.
PolledFirst(f) == IF session = None THEN f.id ELSE session

\* The poll that is reported later: the one answered last.
Polled(f) == f.id

\* listen_type_f_loop: a command is taken whether its IDm is the polled one or not;
\* session is the system code of the poll answered last, or None.
HandleTt3(f) ==
    IF f.kind = "tt3"
    THEN /\ Found([type |-> "tt3", rate |-> target.rate, cmd |-> f, poll |-> session])
         /\ pending' = None /\ UNCHANGED session
    ELSE IF f.kind = "sensf" /\ IdmOf[f.id] # None
    THEN Keep(Polled(f)) /\ pending' = AnswerTo(f)
    ELSE Keep(session) /\ pending' = None

\* await_dep_activation, and handle_dep_activation up to the first ATR_REQ.
HandleActivation(f) ==
    /\ pending' = None
    /\ IF ~f.act THEN Keep(session)
       ELSE IF f.rate = "106A" /\ f.kind = "tt2"
       THEN Found([type |-> "tt2", rate |-> "106A", cmd |-> f]) /\ UNCHANGED session
       ELSE /\ rf_off_error' = 1 /\ UNCHANGED found
            /\ session' = [tech |-> f.rate, rate |-> f.rate, atr |-> None, psl |-> None]
            /\ pc' = IF f.kind \in {"atr", "atr_length"} THEN "atr" ELSE "none"

Handle(f) ==
    CASE target.tech = "A" /\ target.sel = 0 -> HandleTt2(f)
      [] target.tech = "A" /\ target.sel # 0 -> HandleTt4(f)
      [] target.tech = "F" -> HandleTt3(f)
      [] OTHER -> HandleActivation(f)

\* The session after a fault: listen_type_f keeps its polls.
AfterFault == IF target.tech = "A" THEN None ELSE session

\* Answers the initiator misses and frames that are not its own are disturbances.
Disturb(heard, noise) ==
    /\ disturbed' = disturbed + (IF heard THEN 0 ELSE 1) + (IF noise THEN 1 ELSE 0)
    /\ disturbed' <= MaxDisturb

OnAir(heard, noise) ==
    /\ heard \/ pending # None
    /\ Disturb(heard, noise)
    /\ sent' = [what |-> pending, rate |-> rf, after |-> frame]

PeerAfter(heard) == IF heard THEN Hears(peer, pending) ELSE [peer EXCEPT !.id = None, !.active = FALSE]

\* One pass of run_timeout_loop that receives a frame.
Exchange(heard, noise) ==
    /\ pc = "loop" /\ left > 0
    /\ OnAir(heard, noise)
    /\ LET p == PeerAfter(heard)
       IN \E f \in IF noise THEN Noise(p) ELSE Says(p) :
            /\ rf' = RfAfter(f)
            /\ peer' = IF noise THEN p ELSE [p EXCEPT !.active = TRUE, !.id = IF f.act THEN None ELSE @]
            /\ frame' = f
            /\ Elapse
            /\ Handle(f)
    /\ UNCHANGED <<target, framesDep>>

\* A pass that ends in a fault of the exchange: a frame came damaged, or none came
\* until the window closed.
Fault(heard, damaged) ==
    /\ pc = "loop" /\ left > 0
    /\ OnAir(heard, damaged)
    /\ IF damaged THEN Elapse ELSE left' = 0
    /\ peer' = PeerAfter(heard)
    /\ pending' = None
    /\ session' = AfterFault
    /\ frame' = NoFrame
    /\ GoOn
    /\ UNCHANGED <<target, rf, rf_off_error, found, framesDep>>

-----------------------------------------------------------------------------
(* The DEP activation: dep_send_frame transmits and waits 1000 ms for the next frame. *)

\* Mutant: PSL_REQ is not in the set of accepted commands.
Requests_psl(f) == IF f.kind \in {"atr", "atr_length", "dep", "dsl", "rls"} THEN "requests" ELSE "none"

\* dep_parse_frame: anything but the five DEP requests ends the listening.
Requests(f) == IF f.kind \in {"atr", "atr_length", "psl", "psl_uneven", "psl_short", "dep", "dsl", "rls"}
            THEN "requests" ELSE "none"

\* dep_handle_psl answers at the rate of the request.
PslAnswerRate == rf

\* dep_send_frame with timeout 0: the answer goes out and nothing is awaited.
Answer(tx, rate, heard) ==
    /\ sent' = [what |-> tx, rate |-> rate, after |-> frame]
    /\ heard \/ tx # None

\* The frame that follows; nothing arrives from an initiator at another rate.
Await(p, noise, rate) ==
    /\ framesDep < MaxDep /\ framesDep' = framesDep + 1
    /\ \/ /\ p.rate = rate
          /\ \E f \in IF noise THEN {g \in Noise(p) : ~g.act} ELSE Says(p) :
               /\ ~f.act
               /\ frame' = f
               /\ pc' = IF pc = "atr" /\ f.kind \in {"atr", "atr_length"} THEN "atr" ELSE Requests(f)
       \/ /\ p.rate # rate \/ noise
          /\ pc' = "error" /\ UNCHANGED frame
    /\ peer' = p

\* handle_dep_atr: every ATR_REQ is answered with the caller's ATR_RES.
handle_dep_atr(heard, noise) ==
    /\ pc = "atr"
    /\ IF frame.kind = "atr_length"
       THEN /\ pc' = "none"
            /\ UNCHANGED <<session, frame, sent, peer, disturbed, framesDep>>
       ELSE /\ session' = [session EXCEPT !.atr = frame.id]
            /\ Answer(AnswerTo(frame), rf, heard)
            /\ Disturb(heard, noise)
            /\ Await(IF heard THEN Hears(peer, AnswerTo(frame)) ELSE peer, noise, rf)
    /\ UNCHANGED <<target, left, rf, rf_off_error, pending, found>>

\* process_dep_requests on a PSL_REQ: a short one is not answered.
dep_handle_psl(heard, noise) ==
    /\ pc = "requests" /\ frame.kind \in {"psl", "psl_uneven", "psl_short"}
    /\ CASE frame.kind = "psl_uneven" ->
              pc' = "error" /\ UNCHANGED <<session, rf, frame, sent, peer, disturbed, framesDep>>
         [] frame.kind = "psl_short" ->
              /\ Answer(None, rf, heard) /\ Disturb(heard, noise) /\ Await(peer, noise, rf)
              /\ UNCHANGED <<session, rf>>
         [] OTHER ->
              /\ Answer(AnswerTo(frame), PslAnswerRate, heard)
              /\ Disturb(heard, noise)
              /\ rf' = frame.id
              /\ session' = [session EXCEPT !.rate = frame.id, !.psl = frame.id]
              /\ Await(IF heard THEN Hears(peer, AnswerTo(frame)) ELSE peer, noise, rf')
    /\ UNCHANGED <<target, left, rf_off_error, pending, found>>

\* build_dep_local_target: the device id of ATR_REQ, 0 meaning none.
DidMatches == DepDid(session.atr) = frame.id

\* A DEP_REQ with the device id of the link is the caller's to answer, any other
\* request is passed over.
build_dep_local_target(noise) ==
    /\ pc = "requests" /\ frame.kind \in {"dep", "atr", "atr_length"}
    /\ IF frame.kind = "dep" /\ DidMatches
       THEN /\ found' = [type |-> "dep", rate |-> IF session.tech = "106A" THEN "106A" ELSE session.rate,
                         cmd |-> frame, link |-> session.atr, psl |-> session.psl]
            /\ pc' = "found"
            /\ UNCHANGED <<frame, sent, peer, disturbed, framesDep>>
       ELSE /\ Answer(None, rf, TRUE) /\ Disturb(TRUE, noise) /\ Await(peer, noise, rf)
            /\ UNCHANGED found
    /\ UNCHANGED <<target, left, rf, rf_off_error, session, pending>>

\* DSL_REQ and RLS_REQ: dep_send_simple_response, and the listening is over.
dep_send_simple_response ==
    /\ pc = "requests" /\ frame.kind \in {"dsl", "rls"}
    /\ Answer(AnswerTo(frame), rf, TRUE)
    /\ pc' = "none"
    /\ UNCHANGED <<target, left, rf, rf_off_error, session, pending, frame, peer, found, disturbed, framesDep>>

\* The transport fails, in whatever exchange.
Broken ==
    /\ pc \in {"loop", "atr", "requests"} /\ disturbed < MaxDisturb
    /\ pc' = "error" /\ disturbed' = disturbed + 1
    /\ UNCHANGED <<target, left, rf, rf_off_error, session, pending, frame, sent, peer, found, framesDep>>

Next ==
    \/ Start
    \/ \E heard, noise \in BOOLEAN :
         \/ Exchange(heard, noise)
         \/ Fault(heard, noise)
         \/ handle_dep_atr(heard, noise)
         \/ dep_handle_psl(heard, noise)
    \/ \E noise \in BOOLEAN : build_dep_local_target(noise)
    \/ dep_send_simple_response
    \/ Broken

Spec == Init /\ [][Next]_vars

-----------------------------------------------------------------------------
TypeOK ==
    /\ pc \in {"start", "loop", "atr", "requests", "none", "error", "found"}
    /\ left \in 0..MaxTime /\ rf \in BitRates /\ rf_off_error \in 0..1
    /\ disturbed \in 0..MaxDisturb /\ framesDep \in 0..MaxDep
    /\ pc = "found" <=> found # None

\* Whatever the reader transmits answers the frame it received just before, at the
\* rate that frame came with: no queued response outlives a fault or a frame of
\* another device, and PSL_RES goes out before the rate changes (Tt4Session,
\* listen_type_f_loop, dep_handle_psl).
AnswersAreFresh ==
    sent.what # None => sent.what = AnswerTo(sent.after) /\ sent.rate = sent.after.rate

\* A TT4 or DEP command handed to the caller is of the link the initiator has set up,
\* with its device id and at its rate, whatever was missed before and whatever other
\* devices sent meanwhile (is_valid_tt4_command, build_dep_local_target).
CommandIsOfTheLink ==
    pc = "found" /\ found.type \in {"tt4", "dep"}
    => found.cmd.id # 99 /\ found.link = peer.id /\ rf = peer.rate

\* The poll in the reported target is the last one that was answered, so that its
\* IDm is the one an initiator uses that heard the answer (listen_type_f_loop).
PollIsTheLastOne ==
    pc = "found" /\ found.type = "tt3" /\ found.cmd.id # 99
    => found.poll # None /\ IdmOf[found.poll] = found.cmd.id

\* A caller that is given a target is told when the field goes; while listening that
\* is no error (configure_target).
FieldLossIsWatched ==
    /\ pc = "found" => rf_off_error = 1
    /\ pc = "loop" => rf_off_error = 0

\* Undisturbed, an initiator that keeps to its protocol is found unless it leaves or
\* the time runs out: listening neither fails nor gives up on it.
InitiatorIsFound ==
    pc \in {"none", "error"} /\ disturbed = 0 /\ target.complete /\ target.tech # "B"
       /\ ~(target.tech = "A" /\ target.sel = 64) /\ ~(target.tech = "F" /\ target.rate = "106A")
    => left = 0 \/ frame.kind \in {"dsl", "rls"}

\* The bitrate of the reported target is the one the link runs at (build_dep_local_target).
ReportedRateIsTrue == pc = "found" => found.rate = rf
==============================================================================
