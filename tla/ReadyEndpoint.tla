---------------------------- MODULE ReadyEndpoint -----------------------------
(***************************************************************************)
(* The readiness endpoint (cmd/campd/src/ready.rs) between the supervisor, *)
(* seen through Lifecycle, and the platform's HTTP clients.  One thread    *)
(* serves one connection at a time and looks at the readiness once per     *)
(* connection, when it accepts it; the answer leaves up to two seconds     *)
(* later.  When run() has returned, dropping the ReadyServer stops the     *)
(* thread and waits for it (cmd/campd/src/lib.rs).                         *)
(***************************************************************************)
EXTENDS Integers, Sequences, SequencesExt

CONSTANTS Clients, Signals

\* The connection that dropping the server makes to wake its thread.
Self == "drop"

ASSUME ClientsAssumption == Self \notin Clients

Peers == Clients \cup {Self}

VARIABLES
    phase, ready, lost, code,   \* the supervisor, as Lifecycle describes it
    main,       \* campd's main thread: "run", then the steps of Drop
    server,     \* the endpoint's thread
    peer,       \* the connection it serves
    held,       \* the readiness it read for that connection
    shutdown,   \* ReadyServer.shutdown
    backlog,    \* the connections waiting to be accepted
    conn,       \* conn[c]: "closed" or "open"
    request,    \* request[c]: what the server would read from c
    answer,     \* answer[c]: the status of the answer
    seen        \* history: the readiness values since c connected

lifeVars   == <<phase, ready, lost, code>>
serverVars == <<server, peer, held>>
clientVars == <<conn, request, answer, seen>>
vars == <<lifeVars, main, serverVars, shutdown, backlog, clientVars>>

Campd == INSTANCE Lifecycle

\* GET /ready, or anything else, such as the first half of it.
Requests == {"other", "ready"}

Init ==
    /\ Campd!Init
    /\ main = "run"
    /\ server = "check" /\ peer = Self /\ held = FALSE
    /\ shutdown = FALSE
    /\ backlog = <<>>
    /\ conn = [c \in Peers |-> "closed"]
    /\ request = [c \in Peers |-> "none"]
    /\ answer = [c \in Peers |-> "none"]
    /\ seen = [c \in Peers |-> {}]

-----------------------------------------------------------------------------
(* campd's main thread. *)

\* run() is under way: readiness changes under the connections' eyes.
Live ==
    /\ main = "run"
    /\ Campd!Next
    /\ seen' = [c \in Peers |-> IF conn[c] = "open" THEN seen[c] \cup {ready'} ELSE seen[c]]
    /\ UNCHANGED <<main, serverVars, shutdown, backlog, conn, request, answer>>

\* run() returns: a shutdown is over, or an error ends it before one.
RunReturns ==
    /\ main = "run" /\ phase # "stopping"
    /\ main' = "flag"
    /\ UNCHANGED <<lifeVars, serverVars, shutdown, backlog, clientVars>>

Flag ==
    /\ main = "flag"
    /\ shutdown' = TRUE
    /\ main' = "connect"
    /\ UNCHANGED <<lifeVars, serverVars, backlog, clientVars>>

\* TcpStream::connect() fails if the thread has already gone.  The stream is
\* dropped at once, so that the server will read nothing from it.
WakeUp ==
    /\ main = "connect"
    /\ main' = "join"
    /\ backlog' = IF server = "done" THEN backlog ELSE Append(backlog, Self)
    /\ UNCHANGED <<lifeVars, serverVars, shutdown, clientVars>>

Join ==
    /\ main = "join"
    /\ server = "done"
    /\ main' = "exited"
    /\ UNCHANGED <<lifeVars, serverVars, shutdown, backlog, clientVars>>

-----------------------------------------------------------------------------
(* serve() and respond(). *)

CheckEmptied ==     \* mutant: serves all connections before it stops
    /\ server = "check"
    /\ server' = IF shutdown /\ backlog = <<>> THEN "done" ELSE "accept"
    /\ UNCHANGED <<lifeVars, main, peer, held, shutdown, backlog, clientVars>>

\* The head of the loop; leaving it closes the listening socket.
Check ==
    /\ server = "check"
    /\ server' = IF shutdown THEN "done" ELSE "accept"
    /\ UNCHANGED <<lifeVars, main, peer, held, shutdown, backlog, clientVars>>

\* The connection accept() takes, and the one a mutant would take.
Latest == Last(backlog)
Oldest == Head(backlog)

\* The readiness a connection is answered with; a mutant's is that of the last.
Remembered == held
Current == ready

Accept ==
    /\ server = "accept" /\ backlog # <<>>
    /\ peer' = Oldest
    /\ backlog' = Remove(backlog, Oldest)
    /\ held' = Current
    /\ server' = "read"
    /\ UNCHANGED <<lifeVars, main, shutdown, clientVars>>

\* WouldBlock, or an error that is logged: sleep and look again.
AcceptNothing ==
    /\ server = "accept"
    /\ server' = "check"
    /\ UNCHANGED <<lifeVars, main, peer, held, shutdown, backlog, clientVars>>

\* One read(): whatever is there, or the end of a stream closed by its peer.
Read ==
    /\ server = "read"
    /\ request[peer] # "none" \/ conn[peer] = "closed"
    /\ server' = "write"
    /\ UNCHANGED <<lifeVars, main, peer, held, shutdown, backlog, clientVars>>

\* Closes the connection that is being served.
Hangup ==
    /\ conn' = [conn EXCEPT ![peer] = "closed"]
    /\ server' = "check"
    /\ peer' = Self
    /\ UNCHANGED <<lifeVars, main, held, shutdown, backlog, request, seen>>

\* The read timeout: the client is not answered.
ReadTimesOut ==
    /\ server = "read" /\ request[peer] = "none"
    /\ Hangup
    /\ UNCHANGED answer

\* The first line decides; a request that came in part is not GET /ready.
Status == CASE request[peer] # "ready" -> "404"
            [] request[peer] = "ready" /\ held -> "200"
            [] request[peer] = "ready" /\ ~held -> "503"

\* write_all() reaches the peer if that is still there.
Write ==
    /\ server = "write"
    /\ conn' = [conn EXCEPT ![peer] = "closed"]
    /\ answer' = [answer EXCEPT ![peer] = IF conn[peer] = "open" THEN Status ELSE @]
    /\ server' = "check"
    /\ peer' = Self
    /\ UNCHANGED <<lifeVars, main, held, shutdown, backlog, request, seen>>

\* write_all() fails or times out.
WriteFails ==
    /\ server = "write"
    /\ Hangup
    /\ UNCHANGED answer

-----------------------------------------------------------------------------
(* The clients. *)

Forgotten(c) == c # peer /\ c \notin ToSet(backlog)

\* A client connects again only when its last connection is out of the way:
\* otherwise it counts as another client.
Connect(c) ==
    /\ conn[c] # "open" /\ Forgotten(c) /\ server # "done"
    /\ backlog' = Append(backlog, c)
    /\ conn' = [conn EXCEPT ![c] = "open"]
    /\ request' = [request EXCEPT ![c] = "none"]
    /\ answer' = [answer EXCEPT ![c] = "none"]
    /\ seen' = [seen EXCEPT ![c] = {ready}]
    /\ UNCHANGED <<lifeVars, main, serverVars, shutdown>>

\* GET /ready in one segment or in two, or any other request.
Send(c) ==
    /\ conn[c] = "open" /\ request[c] # "ready"
    /\ \E r \in IF request[c] = "none" THEN Requests ELSE {"ready"} :
           request' = [request EXCEPT ![c] = r]
    /\ ~(c = peer /\ server = "write")
    /\ UNCHANGED <<lifeVars, main, serverVars, shutdown, backlog, conn, answer, seen>>

\* The client gives up, or the listening socket has gone with its backlog.
Close(c) ==
    /\ conn[c] = "open"
    /\ conn' = [conn EXCEPT ![c] = "closed"]
    /\ UNCHANGED <<lifeVars, main, serverVars, shutdown, backlog, request, answer, seen>>

Exited == main = "exited" /\ UNCHANGED vars

-----------------------------------------------------------------------------
MainStep == RunReturns \/ Flag \/ WakeUp \/ Join

ServerStep == \/ Check \/ Accept \/ AcceptNothing \/ Read \/ ReadTimesOut
              \/ Write \/ WriteFails

Next ==
    \/ Live \/ MainStep \/ ServerStep
    \/ \E c \in Clients : Connect(c) \/ Send(c) \/ Close(c)
    \/ Exited

Spec == Init /\ [][Next]_vars

(***************************************************************************)
(* Both threads run; the thread is in accept() with a connection waiting   *)
(* again and again, and then takes it unless the system refuses for ever.  *)
(* Nothing is assumed of the clients: the timeouts do it.                  *)
(***************************************************************************)
Fairness ==
    /\ WF_vars(MainStep)
    /\ WF_vars(ServerStep)
    /\ SF_vars(Accept)

FairSpec == Spec /\ Fairness

-----------------------------------------------------------------------------
\* An answer is fresh: campd was ready, or unready, at some moment between the
\* client's connecting and its being answered, however slowly it sent its
\* request and however many other clients were served before.
AnswersAreFresh == \A c \in Peers :
    /\ answer[c] = "200" => TRUE \in seen[c]
    /\ answer[c] = "503" => FALSE \in seen[c]

\* campd exits, even if clients keep connecting and never send a request.
DropEnds == (main = "flag") ~> (main = "exited")

\* A client that connects is served in its turn or cut off with the endpoint.
ClientsAreServed == \A c \in Clients :
    (c \in ToSet(backlog)) ~> (c \notin ToSet(backlog) \/ server = "done")
=============================================================================
