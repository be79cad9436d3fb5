--------------------------- MODULE SecureMessaging ---------------------------
(***************************************************************************)
(* The reader side of DES secure messaging (felica_standard/api/secure_ops *)
(* and felica_standard/secure) against the emulated card, over a link that *)
(* loses, delays, duplicates and reorders frames.                          *)
(*                                                                         *)
(* `net' holds every frame ever sent and a frame is never taken out of it: *)
(* delivering one again is a duplicate, not delivering it is a loss.       *)
(***************************************************************************)
EXTENDS EmulatedCard

CONSTANTS
    Target,         \* the System whose IDm the reader's Polling returned
    ReaderAreas,    \* the area list of mutual_authentication
    ReaderServices, \* its service list, the `nodes' of the session
    ReaderCommands  \* the secure commands the caller issues

ASSUME ReaderAssumption ==
    /\ Target \in System /\ ReaderAreas \in AreaLists /\ ReaderServices \in ServiceLists
    /\ ReaderCommands \subseteq Commands \ {"undecodable"}

\* AuthenticatedContext: what the reader keeps of a session.
Context == [number : Number, id : Id, key : Key, nodes : {ReaderServices}]

ASSUME ContextAssumption == None \notin Context

VARIABLES
    net,        \* every frame sent so far
    phase,      \* what the reader is waiting for
    random1,    \* random_1 of the authentication in progress, or None
    random2,    \* random_2 it decrypted from challenge 2a, or None
    spent,      \* history: every random_1 the reader drew
    ctx,        \* authenticated_context, or None
    sent,       \* the secure frame awaiting its answer, or None
    installed,  \* history: the sessions mutual_authentication installed
    completed   \* history: exchanges that returned to the caller

readerVars == <<phase, random1, random2, spent, ctx, sent, installed, completed>>
vars == <<cardVars, net, readerVars>>

-----------------------------------------------------------------------------
(* Frames on the link                                                       *)

Challenge1a(r1) == [type |-> "1a", random1 |-> r1]
Challenge1b2a(r1, r2) == [type |-> "1b2a", random1 |-> r1, random2 |-> r2]
Challenge2b(r2) == [type |-> "2b", random2 |-> r2]
SessionGrant(s) == [type |-> "grant", number |-> s.number, id |-> s.id, key |-> s.key]
SecureCommand(f) == [type |-> "command", frame |-> f]
\* build_secure_response_frame_des: the answer to frame f.
SecureAnswer(f) ==
    [type |-> "answer", key |-> f.key, id |-> f.id, number |-> f.number + 1, of |-> f]

MessagingInit ==
    /\ Init
    /\ net = {}
    /\ phase = "idle"
    /\ random1 = None
    /\ random2 = None
    /\ spent = {}
    /\ ctx = None
    /\ sent = None
    /\ installed = {}
    /\ completed = {}

-----------------------------------------------------------------------------
(* The reader                                                               *)

\* The call ends and its local variables are dropped (and zeroized).
Return ==
    /\ phase' = "idle"
    /\ random1' = None
    /\ random2' = None
    /\ sent' = None

\* mutual_authentication draws random_1 and sends Authentication1.  The context
\* of an earlier session stays in place.
StartAuthentication(r1) ==
    /\ phase = "idle"
    /\ r1 \notin spent
    /\ spent' = spent \cup {r1}
    /\ random1' = r1
    /\ phase' = "authentication1"
    /\ net' = net \cup {Challenge1a(r1)}
    /\ UNCHANGED <<cardVars, random2, ctx, sent, installed, completed>>

\* Mutant: challenge 1b is not verified.
VerifiesAny(r1, m) == TRUE

\* verify_challenge1b
Verifies1b(r1, m) == m.random1 = r1

\* The Authentication1 response arrives: verify 1b, decrypt 2a, send 2b.
ReceiveChallenge(m) ==
    /\ phase = "authentication1"
    /\ m.type = "1b2a"
    /\ Verifies1b(random1, m)
    /\ random2' = m.random2
    /\ phase' = "authentication2"
    /\ net' = net \cup {Challenge2b(m.random2)}
    /\ UNCHANGED <<cardVars, random1, spent, ctx, sent, installed, completed>>

\* The Authentication2 response arrives: it opens under random_2 and must name
\* the transaction ID of random_1; the session is installed.
ReceiveGrant(m) ==
    /\ phase = "authentication2"
    /\ m.type = "grant"
    /\ m.key = random2
    /\ m.id = TransactionId(random1)
    /\ ctx' = [number |-> m.number, id |-> m.id, key |-> m.key, nodes |-> ReaderServices]
    /\ installed' = installed \cup {[random1 |-> random1, key |-> m.key]}
    /\ Return
    /\ UNCHANGED <<cardVars, net, spent, completed>>

\* Mutant: the counter is stored only once the answer has arrived.
CapturedLate(c) == c

\* SecureCommandContext::capture stores the incremented number before the frame
\* is built, so that a frame that was lost is never sent again under its number.
Captured(c) == [c EXCEPT !.number = c.number + 1]

\* encrypted_command_exchange up to the send; refused when the counter would
\* overflow (increment_transaction_number).
SendCommand(command, element) ==
    LET f == [key |-> ctx.key, id |-> ctx.id, number |-> ctx.number + 1,
              command |-> command, element |-> element] IN
    /\ phase = "idle"
    /\ ctx # None
    /\ ctx.number < MaxTransaction
    /\ ctx' = Captured(ctx)
    /\ sent' = f
    /\ phase' = "exchange"
    /\ net' = net \cup {SecureCommand(f)}
    /\ UNCHANGED <<cardVars, random1, random2, spent, installed, completed>>

\* Mutant: an answer may repeat the number of the command.
AdvancesOrStays(m, c) == m.number >= c.number

\* process_encrypted_response: the answer's number lies beyond the command's.
Advances(m, c) == m.number > c.number

\* An answer with the expected response code, MAC, transaction ID and number.
ReceiveAnswer(m) ==
    /\ phase = "exchange"
    /\ m.type = "answer"
    /\ m.of.command = sent.command
    /\ m.key = sent.key
    /\ m.id = sent.id
    /\ Advances(m, ctx)
    /\ ctx' = [ctx EXCEPT !.number = m.number]
    /\ completed' = completed \cup {[asked |-> sent, answered |-> m.of]}
    /\ Return
    /\ UNCHANGED <<cardVars, net, spent, installed>>

\* Every error return: a timeout, or a frame that fails one of the checks above.
\* The context of the session is kept.
Fail ==
    /\ phase # "idle"
    /\ Return
    /\ UNCHANGED <<cardVars, net, spent, ctx, installed, completed>>

\* clear_authenticated_context
ClearContext ==
    /\ phase = "idle"
    /\ ctx # None
    /\ ctx' = None
    /\ UNCHANGED <<cardVars, net, phase, random1, random2, spent, sent, installed, completed>>

Reader ==
    \/ \E r1 \in Random1 : StartAuthentication(r1)
    \/ \E m \in net : ReceiveChallenge(m) \/ ReceiveGrant(m) \/ ReceiveAnswer(m)
    \/ \E command \in ReaderCommands, element \in Elements :
         SendCommand(command, element)
    \/ Fail
    \/ ClearContext

-----------------------------------------------------------------------------
(* The card receives any frame of the link, at any time and any number of   *)
(* times, and its host may switch it off or others may talk to it.          *)

CardReceives(m) ==
    /\ \/ /\ m.type = "1a"
          /\ Authentication1(Target, ReaderAreas, ReaderServices, m.random1)
          /\ net' = net \cup (IF reply'.kind = "challenge"
                              THEN {Challenge1b2a(m.random1, drawn')} ELSE {})
       \/ /\ m.type = "2b"
          /\ Authentication2(Target, m.random2)
          /\ net' = net \cup (IF reply'.kind = "session"
                              THEN {SessionGrant(session'[Target])} ELSE {})
       \/ /\ m.type = "command"
          /\ SecureFrame(m.frame)
          /\ net' = net \cup (IF reply'.kind = "secure" THEN {SecureAnswer(m.frame)} ELSE {})
    /\ UNCHANGED readerVars

Disturbance ==
    /\ HostOperation \/ \E i \in System : Inquiry(i) \/ ResetMode(i)
    /\ UNCHANGED <<net, readerVars>>

MessagingNext == Reader \/ (\E m \in net : CardReceives(m)) \/ Disturbance

MessagingSpec == MessagingInit /\ [][MessagingNext]_vars

-----------------------------------------------------------------------------
(* Properties                                                               *)

\* An exchange that succeeds returns the answer to the very command that was
\* sent, and the card executed that command: a late or replayed answer to an
\* earlier command is never taken for it, although commands carry no other
\* correlation than the transaction number.
AnswerMatches ==
    \A c \in completed :
        /\ c.answered = c.asked
        /\ \E n \in DOMAIN executed :
             executed[n] = [key |-> c.asked.key, number |-> c.asked.number]

\* While reader and card share a session the card's counter is at most one ahead
\* of the reader's: after a lost answer one command may be refused, and the one
\* after that is accepted again.
CounterLead ==
    ctx # None /\ session[Target] # None /\ session[Target].key = ctx.key =>
        /\ session[Target].id = ctx.id
        /\ session[Target].number <= ctx.number + 1

\* Two authentications never end up in one session: each random_2 the reader
\* accepts was drawn for the random_1 of that very run.
SessionsAreFresh ==
    \A a, b \in installed : a.key = b.key => a.random1 = b.random1
=============================================================================
