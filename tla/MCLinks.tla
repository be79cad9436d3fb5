------------------------------- MODULE MCLinks -------------------------------
(***************************************************************************)
(* The links between a program and its reader: the exchange of a command   *)
(* and its answer (HostLink) and the line protocol of the remote driver    *)
(* (Remote).  A behaviour is of one part and the other rests in its        *)
(* initial state.  There are as many sequence numbers as commands, packets *)
(* and faults can be under way, and more commands than sequence numbers.   *)
(***************************************************************************)
EXTENDS HostLink, Remote

CONSTANTS d1, o1

VARIABLE part

runVars == <<part, vars, remoteVars>>

\* Every driver with a reader that may do anything, and the Port-100 with an orderly one.
MCReaders == ({"port100", "rcs956", "rcs320", "ccid"} \X {FALSE}) \cup {<<"port100", TRUE>>}

ASSUME HostLinkAssumption /\ RemoteAssumption

-----------------------------------------------------------------------------
RunInit ==
    /\ part \in {"link", "remote"} /\ Init /\ RemoteInit
    /\ part = "remote" => chip = "ccid"

\* Everybody has left.
RemoteOver == Over /\ UNCHANGED remoteVars

RunNext ==
    /\ UNCHANGED part
    /\ \/ part = "link" /\ Next /\ UNCHANGED remoteVars
       \/ part = "remote" /\ (RemoteNext \/ RemoteOver) /\ UNCHANGED vars

\* The fairness of HostLink and of Remote.
RunSpec ==
    /\ RunInit /\ [][RunNext]_runVars
    /\ WF_vars(part = "link" /\ Driver) /\ WF_vars(part = "link" /\ Deadline)
    /\ \A c \in {d1, o1} : /\ WF_remoteVars(part = "remote" /\ ServerStep(c))
                           /\ WF_remoteVars(part = "remote" /\ ClientStep(c))

-----------------------------------------------------------------------------
\* Every command to a reader ends, whatever the reader sends or fails to send; so does
\* every call of the remote driver, and the thread of a client that has left (the read
\* loops, handle_client).
CommandEnds == ReaderCommandEnds /\ CallEnds /\ ThreadEnds
==============================================================================
