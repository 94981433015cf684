---------------------------- MODULE QuicListener ----------------------------
(***************************************************************************)
(* The connections and streams of a QUIC listener: run, handle_connection  *)
(* and the task of a stream in src/src/readers/doq.rs and doh3.rs, and     *)
(* where a transaction can be in forward_quic_stream (upstream/quic.rs)    *)
(* and process_request (doh3.rs).                                          *)
(*                                                                         *)
(* Connections, the watcher of DoQ and streams are tasks of one TaskGroup. *)
(* Of the group the model uses what TaskGroup establishes: a spawn into a  *)
(* closed group drops its future, and a task of a closed group is aborted, *)
(* unless it ended, at a deadline.                                         *)
(*                                                                         *)
(* quinn and h3 are external.  Of them the model uses that accept_bi and   *)
(* accept_uni fail only when the connection is closed, that dropping the   *)
(* last handle of a connection closes it (every stream is one), and that   *)
(* dropping an h3 server connection closes it at once.                     *)
(***************************************************************************)
EXTENDS Naturals, FiniteSets

CONSTANTS
    Connections,      \* client connections
    Streams,          \* bidirectional streams
    Carrier,          \* the connection a client opens each stream on
    MaxConnections,   \* limits.max_connections_per_listener
    MaxStreams        \* limits.max_inflight_requests_per_connection

ASSUME QuicListenerAssumption ==
    /\ Carrier \in [Streams -> Connections]
    /\ MaxConnections \in Nat \ {0}
    /\ MaxStreams \in Nat \ {0}

VARIABLES
    application,   \* which listener it is: "doq" or "h3"
    shutdown,      \* the cancellation token
    accepting,     \* run is in its accept loop
    closed,        \* the task group is closed
    task,          \* the task of each connection
    link,          \* the connection itself
    watcher,       \* DoQ: the task that waits for a unidirectional stream
    stage,         \* where each stream is
    freeConns,     \* available permits of connection_limit
    freeStreams    \* available permits of each stream_limit

vars == <<application, shutdown, accepting, closed, task, link, watcher, stage,
          freeConns, freeStreams>>

On(c) == {s \in Streams : Carrier[s] = c}

\* "taken": accepted, and handle_connection waits for a permit for it.
Running(s) == stage[s] \notin {"none", "offered", "taken", "ended"}

RunningOn(c) == {s \in On(c) : Running(s)}

\* Tasks that hold a connection permit.
Holding == {"handshake", "setup", "serving"}
Held == {c \in Connections : task[c] \in Holding}

\* Nothing of the proxy refers to the connection any more.
Unreferenced(c) ==
    task[c] = "ended" /\ ~watcher[c] /\ RunningOn(c) = {}

\* The connection after a step that may drop the last handle, or closes it.
LinkAfter(c, closes) ==
    link' = [link EXCEPT ![c] = IF closes \/ Unreferenced(c)' THEN "closed" ELSE @]

Init ==
    /\ application \in {"doq", "h3"}
    /\ shutdown = FALSE
    /\ accepting = TRUE
    /\ closed = FALSE
    /\ task = [c \in Connections |-> "none"]
    /\ link = [c \in Connections |-> "none"]
    /\ watcher = [c \in Connections |-> FALSE]
    /\ stage = [s \in Streams |-> "none"]
    /\ freeConns = MaxConnections
    /\ freeStreams = [c \in Connections |-> MaxStreams]

-----------------------------------------------------------------------------
\* Clients and their network

Connects(c) ==
    /\ link[c] = "none"
    /\ link' = [link EXCEPT ![c] = "incoming"]
    /\ UNCHANGED <<application, shutdown, accepting, closed, task, watcher, stage,
                   freeConns, freeStreams>>

\* The client closes, is silent for too long, or violates the protocol.
Disconnects(c) ==
    /\ link[c] \in {"incoming", "open"}
    /\ link' = [link EXCEPT ![c] = "closed"]
    /\ UNCHANGED <<application, shutdown, accepting, closed, task, watcher, stage,
                   freeConns, freeStreams>>

Offers(s) ==
    /\ link[Carrier[s]] = "open"
    /\ stage[s] = "none"
    /\ stage' = [stage EXCEPT ![s] = "offered"]
    /\ UNCHANGED <<application, shutdown, accepting, closed, task, link, watcher,
                   freeConns, freeStreams>>

-----------------------------------------------------------------------------
\* run

\* endpoint.accept(): one connection at a time, which then waits for a permit.
Accept(c) ==
    /\ accepting
    /\ \A d \in Connections : task[d] # "waiting"
    /\ link[c] # "none" /\ task[c] = "none"
    /\ task' = [task EXCEPT ![c] = "waiting"]
    /\ UNCHANGED <<application, shutdown, accepting, closed, link, watcher, stage,
                   freeConns, freeStreams>>

\* A permit is there: the task is spawned with it, or dropped with it if the
\* group is closed (select! may prefer the permit to the cancellation).
Admit(c) ==
    /\ accepting /\ task[c] = "waiting"
    /\ freeConns > 0
    /\ task' = [task EXCEPT ![c] = IF closed THEN "ended" ELSE "handshake"]
    /\ freeConns' = IF closed THEN freeConns ELSE freeConns - 1
    /\ UNCHANGED <<application, shutdown, accepting, closed, watcher, stage, freeStreams>>
    /\ LinkAfter(c, FALSE)

\* Mutant: the cancellation is looked for only while it waits for a permit.
LeaveLoop_NotInAccept ==
    /\ accepting
    /\ shutdown /\ \E c \in Connections : task[c] = "waiting"
    /\ accepting' = FALSE
    /\ task' = [c \in Connections |-> IF task[c] = "waiting" THEN "ended" ELSE task[c]]
    /\ link' = [c \in Connections |-> IF task[c] = "waiting" THEN "closed" ELSE link[c]]
    /\ UNCHANGED <<application, shutdown, closed, watcher, stage, freeConns, freeStreams>>

\* The loop ends: cancelled, also while it waits for a permit, or the endpoint
\* is gone, which it sees in accept().
LeaveLoop ==
    /\ accepting
    /\ shutdown \/ \A c \in Connections : task[c] # "waiting"
    /\ accepting' = FALSE
    /\ task' = [c \in Connections |-> IF task[c] = "waiting" THEN "ended" ELSE task[c]]
    /\ link' = [c \in Connections |-> IF task[c] = "waiting" THEN "closed" ELSE link[c]]
    /\ UNCHANGED <<application, shutdown, closed, watcher, stage, freeConns, freeStreams>>

Cancel ==
    /\ ~shutdown
    /\ shutdown' = TRUE
    /\ UNCHANGED <<application, accepting, closed, task, link, watcher, stage,
                   freeConns, freeStreams>>

\* close_and_wait_until, by the listener after its loop or by App.
CloseGroup ==
    /\ ~closed
    /\ shutdown \/ ~accepting
    /\ closed' = TRUE
    /\ UNCHANGED <<application, shutdown, accepting, task, link, watcher, stage,
                   freeConns, freeStreams>>

-----------------------------------------------------------------------------
\* The task of a connection

\* It returns: the permit goes back, a stream it had accepted is dropped.
Return(c) ==
    /\ task' = [task EXCEPT ![c] = "ended"]
    /\ freeConns' = freeConns + 1
    /\ stage' = [s \in Streams |->
                    IF s \in On(c) /\ stage[s] = "taken" THEN "ended" ELSE stage[s]]
    /\ UNCHANGED <<application, shutdown, accepting, closed, watcher, freeStreams>>
    /\ LinkAfter(c, application = "h3")

HandshakeOk(c) ==
    /\ task[c] = "handshake" /\ link[c] = "incoming"
    /\ task' = [task EXCEPT ![c] = "setup"]
    /\ link' = [link EXCEPT ![c] = "open"]
    /\ UNCHANGED <<application, shutdown, accepting, closed, watcher, stage,
                   freeConns, freeStreams>>

\* The client is gone, or slower than the timeout, or all is cancelled.
HandshakeFails(c) ==
    /\ task[c] = "handshake"
    /\ Return(c)

\* Mutant: the watcher is spawned before the name is checked.
SetUpFails_WatcherFirst(c) ==
    /\ task[c] = "setup"
    /\ task' = [task EXCEPT ![c] = "ended"]
    /\ freeConns' = freeConns + 1
    /\ watcher' = [watcher EXCEPT ![c] = application = "doq" /\ ~closed]
    /\ UNCHANGED <<application, shutdown, accepting, closed, stage, freeStreams>>
    /\ LinkAfter(c, application = "h3")

\* No SNI; DoQ: no target for it; H3: no control stream in time.
SetUpFails(c) ==
    /\ task[c] = "setup"
    /\ Return(c)

\* The name is there, and DoQ spawns its watcher; H3 has its connection.
SetUp(c) ==
    /\ task[c] = "setup"
    /\ task' = [task EXCEPT ![c] = "serving"]
    /\ watcher' = [watcher EXCEPT ![c] = application = "doq" /\ ~closed]
    /\ UNCHANGED <<application, shutdown, accepting, closed, link, stage,
                   freeConns, freeStreams>>

\* accept_bi, when no stream waits for a permit.
AcceptStream(s) ==
    /\ task[Carrier[s]] = "serving"
    /\ \A t \in On(Carrier[s]) : stage[t] # "taken"
    /\ stage[s] = "offered"
    /\ stage' = [stage EXCEPT ![s] = "taken"]
    /\ UNCHANGED <<application, shutdown, accepting, closed, task, link, watcher,
                   freeConns, freeStreams>>

\* Mutant: no permit needed.
StartStream_Unlimited(s) ==
    /\ task[Carrier[s]] = "serving" /\ stage[s] = "taken"
    /\ stage' = [stage EXCEPT ![s] = IF closed THEN "ended" ELSE "resolve"]
    /\ UNCHANGED <<application, shutdown, accepting, closed, task, link, watcher,
                   freeConns, freeStreams>>

\* A permit is there: the task of the stream is spawned with it, or dropped.
StartStream(s) ==
    LET c == Carrier[s] IN
    /\ task[c] = "serving" /\ stage[s] = "taken"
    /\ freeStreams[c] > 0
    /\ stage' = [stage EXCEPT ![s] =
                    IF closed THEN "ended"
                    ELSE IF application = "doq" THEN "query" ELSE "resolve"]
    /\ freeStreams' = IF closed THEN freeStreams ELSE [freeStreams EXCEPT ![c] = @ - 1]
    /\ UNCHANGED <<application, shutdown, accepting, closed, task, link, watcher, freeConns>>

\* Mutant: an error of one stream that is accepted ends the loop.
StopServing_StreamError(c) ==
    /\ task[c] = "serving"
    /\ shutdown \/ \A s \in On(c) : stage[s] # "taken"
    /\ Return(c)

\* The accept of streams fails because the connection is closed, or the loop is
\* cancelled; only the latter also while it waits for a stream permit.
StopServing(c) ==
    /\ task[c] = "serving"
    /\ \/ shutdown
       \/ link[c] = "closed" /\ \A s \in On(c) : stage[s] # "taken"
    /\ Return(c)

\* DoQ: the client opened a unidirectional stream, which closes the connection,
\* or the accept failed, or all is cancelled.
WatcherEnds(c) ==
    /\ watcher[c]
    /\ watcher' = [watcher EXCEPT ![c] = FALSE]
    /\ UNCHANGED <<application, shutdown, accepting, closed, task, stage,
                   freeConns, freeStreams>>
    /\ \E seen \in BOOLEAN :
          /\ ~seen => shutdown \/ link[c] = "closed"
          /\ LinkAfter(c, seen)

-----------------------------------------------------------------------------
\* The task of a stream

\* Stages in which it writes to the client, and those without a timeout:
\* resolve_request and send_error_response of DoH3.
ToClient(s) == stage[s] \in {"answer", "refuse"}
Untimed(s) == stage[s] \in {"resolve", "refuse"}

\* The next stage: of DoQ, the query, then the frames of the answer one by one;
\* of H3, the headers, the body of a POST, the answer or an error response.
Following(s) ==
    IF application = "doq"
    THEN CASE stage[s] = "query"    -> {"upstream"}
           [] stage[s] = "upstream" -> {"answer", "ended"}
           [] stage[s] = "answer"   -> {"upstream"}
           [] OTHER                 -> {}
    ELSE CASE stage[s] = "resolve"  -> {"body", "upstream", "refuse"}
           [] stage[s] = "body"     -> {"upstream", "refuse"}
           [] stage[s] = "upstream" -> {"answer", "refuse"}
           [] stage[s] = "answer"   -> {"ended"}
           [] stage[s] = "refuse"   -> {"ended"}
           [] OTHER                 -> {}

\* The stream goes to a stage; at the end its permit returns and its handle goes.
GoesTo(s, next, closes) ==
    LET c == Carrier[s] IN
    /\ stage' = [stage EXCEPT ![s] = next]
    /\ freeStreams' = IF next = "ended" THEN [freeStreams EXCEPT ![c] = @ + 1] ELSE freeStreams
    /\ UNCHANGED <<application, shutdown, accepting, closed, task, watcher, freeConns>>
    /\ LinkAfter(c, closes)

\* The await is over: what the client sent can be read also when the connection
\* is closed, but nothing can be written then.
Advance(s) ==
    /\ Running(s)
    /\ ToClient(s) => link[Carrier[s]] = "open"
    /\ \E next \in Following(s) : GoesTo(s, next, FALSE)

\* Mutant: the upstream has no timeout.
Fails_NotUpstream(s) ==
    /\ Running(s)
    /\ stage[s] # "upstream"
    /\ GoesTo(s, "ended", application = "doq")

\* The await fails, or times out if it has a timer.  DoQ: the transaction is over,
\* and a Protocol error, the upstream's too, closes the connection.  H3: the
\* client gets an error response, unless its headers did not come or it was that
\* response that failed.
Fails(s) ==
    /\ Running(s)
    /\ IF application = "doq"
       THEN \E protocol \in BOOLEAN : GoesTo(s, "ended", protocol)
       ELSE GoesTo(s, IF Untimed(s) THEN "ended" ELSE "refuse", FALSE)

\* Cancelled: in DoQ at any await, in H3 where process_request looks for it.
CancelStream(s) ==
    /\ shutdown
    /\ Running(s)
    /\ application = "h3" => stage[s] \in {"resolve", "body", "upstream"}
    /\ GoesTo(s, "ended", FALSE)

-----------------------------------------------------------------------------
\* The deadline of the group: what still runs is aborted.

AbortConnection(c) == closed /\ task[c] \in Holding /\ Return(c)

AbortWatcher(c) ==
    /\ closed /\ watcher[c]
    /\ watcher' = [watcher EXCEPT ![c] = FALSE]
    /\ UNCHANGED <<application, shutdown, accepting, closed, task, stage,
                   freeConns, freeStreams>>
    /\ LinkAfter(c, FALSE)

AbortStream(s) == closed /\ Running(s) /\ GoesTo(s, "ended", FALSE)

-----------------------------------------------------------------------------
Client ==
    \/ \E c \in Connections : Connects(c) \/ Disconnects(c)
    \/ \E s \in Streams : Offers(s)

Connection(c) ==
    \/ HandshakeOk(c)
    \/ HandshakeFails(c)
    \/ SetUp(c)
    \/ SetUpFails(c)
    \/ StopServing(c)
    \/ WatcherEnds(c)
    \/ \E s \in On(c) : AcceptStream(s) \/ StartStream(s)

Transaction(s) == Advance(s) \/ Fails(s)

Deadline ==
    \/ \E c \in Connections : AbortConnection(c) \/ AbortWatcher(c)
    \/ \E s \in Streams : AbortStream(s)

Next ==
    \/ Client
    \/ Cancel
    \/ LeaveLoop
    \/ CloseGroup
    \/ \E c \in Connections : Accept(c) \/ Admit(c) \/ Connection(c)
    \/ \E s \in Streams : Transaction(s) \/ CancelStream(s)
    \/ Deadline

Spec == Init /\ [][Next]_vars

\* The tasks of connections go on when they can.  For a closed connection an await
\* of the client fails and one of the upstream has a timeout; that the upstream
\* answers is not assumed, nor that a client does anything.  A loop that is
\* cancelled ends, and its group is closed and aborted.
FairSpec ==
    /\ Spec
    /\ WF_vars(shutdown /\ LeaveLoop)
    /\ WF_vars(CloseGroup)
    /\ WF_vars(Deadline)
    /\ \A c \in Connections :
          WF_vars(Connection(c)) /\ WF_vars(Admit(c)) /\ WF_vars(Accept(c))
    /\ \A s \in Streams : WF_vars(link[Carrier[s]] = "closed" /\ Fails(s))

-----------------------------------------------------------------------------
Stages == {"none", "offered", "taken", "query", "resolve", "body", "upstream",
           "answer", "refuse", "ended"}

\* Every variable has its type.
TypeOK ==
    /\ application \in {"doq", "h3"}
    /\ shutdown \in BOOLEAN
    /\ accepting \in BOOLEAN
    /\ closed \in BOOLEAN
    /\ task \in [Connections -> {"none", "waiting", "ended"} \cup Holding]
    /\ link \in [Connections -> {"none", "incoming", "open", "closed"}]
    /\ watcher \in [Connections -> BOOLEAN]
    /\ stage \in [Streams -> Stages]
    /\ freeConns \in 0..MaxConnections
    /\ freeStreams \in [Connections -> 0..MaxStreams]

\* README.md:385: "max_connections_per_listener bounds every public listener".  No
\* more connections are open than there are permits, whoever refers to them:
\* tasks, watchers or streams that outlive handle_connection.
ConnectionsBounded ==
    shutdown \/ closed \/ Cardinality({c \in Connections : link[c] = "open"}) <= MaxConnections

\* A connection that is open is served: handle_connection never returns and leaves
\* it open in the hands of a watcher or of streams, unless all is cancelled.
OpenConnectionsAreServed ==
    \A c \in Connections : link[c] = "open" => task[c] \in Holding \/ shutdown \/ closed

\* No permit is lost or made up, however a handshake, a connection or a stream ends:
\* what holds one and what may still take one are the limit, of connections and, per
\* connection, of streams ("the in-flight limit applies to multiplexed [...]
\* streams", README.md:385-386).
PermitsBalanced ==
    /\ freeConns + Cardinality(Held) = MaxConnections
    /\ \A c \in Connections :
          freeStreams[c] + Cardinality(RunningOn(c)) = MaxStreams

\* A connection that is closed, by whoever it is, gives everything back: its
\* permit, also when handle_connection waits for a stream permit and cannot
\* see that it is closed, and the transactions that run for it.
DeadConnectionsRelease ==
    \A c \in Connections :
        link[c] = "closed" /\ task[c] \in Holding ~>
            task[c] = "ended" /\ ~watcher[c] /\ RunningOn(c) = {}

\* A listener that is cancelled ends, and so does everything it spawned.
ListenerDrains ==
    shutdown ~> /\ ~accepting
                /\ \A c \in Connections :
                      task[c] \in {"none", "ended"} /\ ~watcher[c] /\ RunningOn(c) = {}
=============================================================================
