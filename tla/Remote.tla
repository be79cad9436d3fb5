------------------------------- MODULE Remote --------------------------------
(***************************************************************************)
(* A reader shared over TCP: RemoteDriver (driver/remote.rs) at the        *)
(* clients, and the server of examples/remote_server.rs with one thread    *)
(* per connection and the reader behind a mutex.                           *)
(*                                                                         *)
(* Requests and answers are lines without identifiers; the number a line   *)
(* carries here is history, to tell whose answer a client takes.           *)
(***************************************************************************)
EXTENDS Naturals, Sequences

CONSTANTS
    Drivers,      \* clients that are a RemoteDriver
    Others,       \* clients that write lines of their own
    MaxRequests,  \* bound: requests of one client
    MaxHuge,      \* bound: answers of more than MAX_LINE_BYTES
    MaxCuts,      \* bound: connections that break
    None

Clients == Drivers \cup Others

RemoteAssumption ==
    /\ MaxRequests \in Nat /\ MaxHuge \in Nat /\ MaxCuts \in Nat
    /\ Drivers \cap Others = {} /\ None \notin Clients

VARIABLES
    client,     \* out, idle, waiting in send_request, or closed
    written,    \* how many lines the client has written, and the kind of a driver's last
    link,       \* is the connection up, or cut?
    up, down,   \* the lines on their way, per connection
    outcome,    \* what the last send_request returned
    thread,     \* where handle_client is
    line,       \* the request it holds
    answer,     \* the response it is about to write
    mutex,      \* who holds the reader
    performed,  \* history: how often the reader did request n of client c
    huge, cuts

remoteVars == <<client, link, written, up, down, outcome, thread, line, answer, mutex, performed, huge, cuts>>

DriverKinds == {"detect", "transceive"}
\* A request with a wrong bitrate or wrong hex, a line that is no request, an empty
\* line, one that is too long and one that is not UTF-8.
OtherKinds == DriverKinds \cup {"badrate", "badhex", "json", "blank", "long", "bytes"}

Line(kind, n) == [kind |-> kind, n |-> n]
NoLine == Line("none", 0)

-----------------------------------------------------------------------------
RemoteInit ==
    /\ client = [c \in Clients |-> "out"]
    /\ link = [c \in Clients |-> "up"]
    /\ written = [c \in Clients |-> NoLine]
    /\ up = [c \in Clients |-> <<>>] /\ down = [c \in Clients |-> <<>>]
    /\ outcome = [c \in Clients |-> NoLine]
    /\ thread = [c \in Clients |-> "none"]
    /\ line = [c \in Clients |-> NoLine] /\ answer = [c \in Clients |-> NoLine]
    /\ mutex = None
    /\ performed = [c \in Drivers |-> [n \in 1..MaxRequests |-> 0]]
    /\ huge = 0 /\ cuts = 0

\* RemoteDriver::connect; the server spawns a thread.
Connect(c) ==
    /\ client[c] = "out"
    /\ client' = [client EXCEPT ![c] = "idle"]
    /\ thread' = [thread EXCEPT ![c] = "read"]
    /\ UNCHANGED <<link, written, up, down, outcome, line, answer, mutex, performed, huge, cuts>>

\* What a client writes to a thread that is gone, or over a cut connection, is lost.
Sends(c, text) ==
    /\ written[c].n < MaxRequests
    /\ up' = IF thread[c] = "gone" \/ link[c] = "cut" THEN up ELSE [up EXCEPT ![c] = Append(@, text)]

\* send_request up to the flush.
send_request(c, kind) ==
    /\ c \in Drivers /\ client[c] = "idle"
    /\ written' = [written EXCEPT ![c] = Line(kind, @.n + 1)]
    /\ Sends(c, written'[c])
    /\ client' = [client EXCEPT ![c] = "waiting"]
    /\ UNCHANGED <<link, down, outcome, thread, line, answer, mutex, performed, huge, cuts>>

Return(c, res) ==
    /\ client' = [client EXCEPT ![c] = "idle"]
    /\ outcome' = [outcome EXCEPT ![c] = res]

\* detect_type_f takes a poll, transceive takes data.
Decode(asked, got) == got.kind = (IF asked.kind = "detect" THEN "poll" ELSE "data")

\* read_line_bounded and what the caller makes of the line: of one that is too long
\* the rest stays in the BufReader, and does not parse.
Receive(c) ==
    /\ client[c] = "waiting" /\ down[c] # <<>>
    /\ LET got == Head(down[c])
       IN /\ down' = [down EXCEPT ![c] = IF got.kind = "huge" THEN <<Line("rest", got.n)>> \o Tail(@)
                                         ELSE Tail(@)]
          /\ Return(c, Line(IF Decode(written[c], got) THEN "Ok" ELSE "Err", got.n))
    /\ UNCHANGED <<link, written, up, thread, line, answer, mutex, performed, huge, cuts>>

\* Mutant: the client gives up a call after a while, and keeps the connection.
Ended_timeout(c) == TRUE

Ended(c) == thread[c] = "gone" \/ link[c] = "cut"

\* The stream has ended: nothing is read, and nothing does not parse.
ReceiveEnd(c) ==
    /\ client[c] = "waiting" /\ down[c] = <<>> /\ Ended(c)
    /\ Return(c, Line("Err", written[c].n))
    /\ UNCHANGED <<link, written, up, down, thread, line, answer, mutex, performed, huge, cuts>>

\* A client of another kind writes without waiting, and reads what it gets.
Write(c, kind) ==
    /\ c \in Others /\ client[c] = "idle"
    /\ written' = [written EXCEPT ![c].n = @ + 1]
    /\ Sends(c, Line(kind, 0))
    /\ UNCHANGED <<link, client, down, outcome, thread, line, answer, mutex, performed, huge, cuts>>

\* The client's process ends, in a call or not.
Leave(c) ==
    /\ client[c] \in {"idle", "waiting"}
    /\ client' = [client EXCEPT ![c] = "closed"]
    /\ down' = [down EXCEPT ![c] = <<>>]
    /\ UNCHANGED <<link, written, up, outcome, thread, line, answer, mutex, performed, huge, cuts>>

\* The connection breaks, and what is on its way is lost.
Cut(c) ==
    /\ cuts < MaxCuts /\ client[c] \in {"idle", "waiting"} /\ link[c] = "up"
    /\ cuts' = cuts + 1
    /\ link' = [link EXCEPT ![c] = "cut"]
    /\ up' = [up EXCEPT ![c] = <<>>]
    /\ \E n \in 0..Len(down[c]) : down' = [down EXCEPT ![c] = SubSeq(@, 1, n)]
    /\ UNCHANGED <<client, written, outcome, thread, line, answer, mutex, performed, huge>>

-----------------------------------------------------------------------------
Lost(c) == client[c] = "closed" \/ link[c] = "cut"

\* What read_line returns: a line, or nothing at the end of the stream.
NextOf(c) == IF up[c] # <<>> THEN Head(up[c]) ELSE Line("end", 0)

Refuse(c, next) ==
    /\ answer' = [answer EXCEPT ![c] = Line("error", line'[c].n)]
    /\ thread' = [thread EXCEPT ![c] = next]

\* The reading half of handle_client's loop.
ReadLine(c) ==
    /\ thread[c] = "read"
    /\ up[c] # <<>> \/ Lost(c)
    /\ up' = [up EXCEPT ![c] = IF @ = <<>> THEN @ ELSE Tail(@)]
    /\ line' = [line EXCEPT ![c] = NextOf(c)]
    /\ LET kind == NextOf(c).kind
       IN \/ /\ kind \in {"end", "bytes"}
             /\ thread' = [thread EXCEPT ![c] = "gone"] /\ UNCHANGED answer
          \/ kind = "long" /\ Refuse(c, "last")
          \/ kind \in {"blank", "none"} /\ UNCHANGED <<thread, answer>>
          \/ kind = "json" /\ Refuse(c, "write")
          \/ /\ kind \in DriverKinds \cup {"badrate", "badhex"}
             /\ thread' = [thread EXCEPT ![c] = "lock"] /\ UNCHANGED answer
    /\ UNCHANGED <<link, client, written, down, outcome, mutex, performed, huge, cuts>>

Free == mutex = None

Lock(c) ==
    /\ thread[c] = "lock" /\ Free
    /\ mutex' = c
    /\ thread' = [thread EXCEPT ![c] = "work"]
    /\ UNCHANGED <<link, client, written, up, down, outcome, line, answer, performed, huge, cuts>>

\* The guard is dropped with the arm of the match, whatever came of it.
Unlock(c) == mutex' = None

\* driver_mut().detect_type_f or transceive.
Perform(c, kind) ==
    performed' = IF c \in Drivers THEN [performed EXCEPT ![c][line[c].n] = @ + 1] ELSE performed

\* process_request.
process_request(c) ==
    /\ thread[c] = "work"
    /\ \E kind \in {"error", "poll", "data", "huge"} :
         /\ CASE line[c].kind = "detect" -> kind \in {"error", "poll"} /\ Perform(c, kind)
              [] line[c].kind = "transceive" -> kind \in {"error", "data", "huge"} /\ Perform(c, kind)
              [] OTHER -> kind = "error" /\ UNCHANGED performed
         /\ kind = "huge" => huge < MaxHuge
         /\ huge' = IF kind = "huge" THEN huge + 1 ELSE huge
         /\ answer' = [answer EXCEPT ![c] = Line(kind, line[c].n)]
    /\ Unlock(c)
    /\ thread' = [thread EXCEPT ![c] = "write"]
    /\ UNCHANGED <<link, client, written, up, down, outcome, line, cuts>>

\* The writing half of the loop.  To a client that is lost the write fails, or the
\* bytes are taken and lost.
WriteAnswer(c) ==
    /\ thread[c] \in {"write", "last"}
    /\ down' = IF Lost(c) \/ c \in Others THEN down
               ELSE [down EXCEPT ![c] = Append(@, answer[c])]
    /\ \E failed \in BOOLEAN :
         /\ failed => Lost(c)
         /\ thread' = [thread EXCEPT ![c] = IF failed \/ @ = "last" THEN "gone" ELSE "read"]
    /\ line' = [line EXCEPT ![c] = NoLine]
    /\ answer' = [answer EXCEPT ![c] = NoLine]
    /\ UNCHANGED <<link, client, written, up, outcome, mutex, performed, huge, cuts>>

ServerStep(c) == ReadLine(c) \/ Lock(c) \/ process_request(c) \/ WriteAnswer(c)
ClientStep(c) == Receive(c) \/ ReceiveEnd(c)

RemoteNext ==
    \E c \in Clients :
      \/ Connect(c) \/ Leave(c) \/ Cut(c)
      \/ \E kind \in DriverKinds : send_request(c, kind)
      \/ \E kind \in OtherKinds : Write(c, kind)
      \/ ClientStep(c) \/ ServerStep(c)

\* Every client has left and every thread has ended.
Over == \A c \in Clients : client[c] = "closed" /\ thread[c] = "gone"

\* Threads run, the reader's operations end by their timeouts, and a client in
\* send_request reads what there is.
Fairness == \A c \in Clients : WF_remoteVars(ServerStep(c)) /\ WF_remoteVars(ClientStep(c))

RemoteSpec == RemoteInit /\ [][RemoteNext]_remoteVars /\ Fairness

-----------------------------------------------------------------------------
\* The states; the reader is used under its lock only (handle_client).
RemoteTypeOK ==
    /\ client \in [Clients -> {"out", "idle", "waiting", "closed"}]
    /\ link \in [Clients -> {"up", "cut"}]
    /\ thread \in [Clients -> {"none", "read", "lock", "work", "write", "last", "gone"}]
    /\ mutex \in Clients \cup {None}
    /\ \A c \in Clients : thread[c] = "work" => mutex = c

\* What send_request returns is the answer to its own request, as far as there is
\* one, although nothing in a line says which request it answers; other clients,
\* refused lines and lost connections do not shift the answers (send_request,
\* handle_client).
AnswerIsOwn == \A c \in Drivers : client[c] = "idle" => outcome[c].n = written[c].n

\* The reader does no request twice, and a request that was reported done, by the
\* result that fits it, was done once (process_request, send_request).
DoneOnce ==
    \A c \in Drivers : /\ \A n \in 1..MaxRequests : performed[c][n] <= 1
                       /\ client[c] = "idle" /\ outcome[c].kind = "Ok" => performed[c][written[c].n] = 1

\* Both, as long as no answer was longer than a client's read_line_bounded accepts:
\* the rest of such a line stays in the stream and shifts what follows.
RequestIsDoneOnce == RemoteTypeOK /\ (huge = 0 => AnswerIsOwn /\ DoneOnce)

\* A call ends, whatever the other clients send, however they leave and whatever
\* the reader reports (handle_client; RemoteDriver sets no timeout).
CallEnds == \A c \in Drivers : client[c] = "waiting" ~> client[c] # "waiting"

\* The thread of a client that has left ends (handle_client).
ThreadEnds == \A c \in Clients : client[c] = "closed" ~> thread[c] = "gone"
==============================================================================
