---------------------------- MODULE EmulatorHost -----------------------------
(***************************************************************************)
(* The loop that puts an emulated card on the air (examples/emulate.rs):   *)
(* the reader listens as a Type F target, the emulator answers the polls   *)
(* and then one command after the other until the session is over.         *)
(* The card is module EmulatedCard, the listening is module Listen.        *)
(***************************************************************************)
EXTENDS EmulatedCard

VARIABLE host   \* where main is: building the card, listening, in a session, ended

hostVars == <<cardVars, host>>

HostInit == Init /\ host = "setup"

\* main up to its loop.
Setup ==
    /\ host = "setup"
    /\ AddSystem
    /\ host' = IF count' = NSys THEN "listen" ELSE "setup"

\* The responder of listen_type_f: polling_response.  When nobody comes within a
\* second the loop starts over.
Responder(request) == host = "listen" /\ Polling(request) /\ UNCHANGED host

\* handle_frame.
HandleFrame ==
    \/ \E request \in RequestCodes : Polling(request)
    \/ \E i \in System : Addressed(i)
    \/ \E f \in Frame : SecureFrame(f)

\* The command that ended the listening is the first of the session, the others
\* come from send_response_receive_command, in answer to the response.
Command ==
    /\ host = "listen" \/ (host = "session" /\ reply # Silent)
    /\ HandleFrame
    /\ host' = "session"

\* No response, or an exchange without a frame: power_off, and listen again.
SessionOver ==
    /\ host = "session"
    /\ PowerOff
    /\ host' = "listen"

\* An exchange that ends in a fault, the initiator being silent for a second or gone
\* with its field, returns from main.
ExchangeFails ==
    /\ host = "session" /\ reply # Silent
    /\ host' = "ended"
    /\ UNCHANGED cardVars

HostNext ==
    \/ Setup \/ Command \/ SessionOver \/ ExchangeFails
    \/ \E request \in RequestCodes : Responder(request)

HostSpec == HostInit /\ [][HostNext]_hostVars

-----------------------------------------------------------------------------
\* However a session ended, the card that listens again is as if it had just come
\* into a field: every poll that names one of its Systems is answered (power_off).
PollsAreAnswered ==
    host = "listen" => \A i \in 1..count : mode[i] = 0 /\ pending[i] = None /\ session[i] = None

\* The end of a session is not the end of the emulation: "The session is over, which
\* for a real card means it has left the field" (examples/emulate.rs).
EmulationGoesOn == host # "ended"
==============================================================================
