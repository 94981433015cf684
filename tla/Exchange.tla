------------------------------ MODULE Exchange ------------------------------
(***************************************************************************)
(* What a client of each listener has done for it: the relay of its        *)
(* connection (DotRelay), the transaction of a stream (DoqTransaction) or  *)
(* an HTTP request (DohTransaction).  A client speaks one protocol; the    *)
(* components of the others are at rest.                                   *)
(*                                                                         *)
(* The exchanges of DoQ and DoH3 run under a QUIC listener: FitsListener   *)
(* says that QuicListener knows every step they take.                      *)
(***************************************************************************)
EXTENDS DotRelay, DoqTransaction, DohTransaction

exchangeVars == <<vars, doqVars, dohVars>>

NoRelay == stage = "cancelled" /\ Fresh
NoTransaction == point = "done" /\ flaw = [e \in Ends |-> 0] /\ DoqFresh
NoRequest ==
    step = "done" /\ DohFresh /\ request = [method |-> "GET", flaws |-> {}, echo |-> {}]

ExchangeInit ==
    \/ protocol = "dot" /\ Init /\ NoTransaction /\ NoRequest
    \/ protocol = "doq" /\ NoRelay /\ DoqInit /\ NoRequest
    \/ NoRelay /\ NoTransaction /\ DohInit

ExchangeNext ==
    \/ protocol = "dot" /\ Next /\ UNCHANGED <<doqVars, dohVars>>
    \/ protocol = "doq" /\ DoqNext /\ UNCHANGED <<vars, dohVars>>
    \/ protocol \in {"doh", "h3"} /\ DohNext /\ UNCHANGED <<vars, doqVars>>

ExchangeSpec == ExchangeInit /\ [][ExchangeNext]_exchangeVars

ExchangeFairSpec == ExchangeSpec /\ Fairness /\ DoqFairness /\ DohFairness

-----------------------------------------------------------------------------
\* Every variable has its type.
ExchangeTypeOK == TypeOK /\ DoqTypeOK /\ DohTypeOK

\* A DoQ transaction ends whatever the two ends do.  An HTTP request does once its
\* head was read, unless it is of DoH and get_client, which may wait for ever for a
\* lock of a full pool, does not return: until it calls that, and from its return on,
\* it does not depend on the client or the upstream.  Of H3, an error response may be
\* left to send.
TransactionsEnd ==
    /\ InTransaction ~> ~InTransaction
    /\ step \in Forwarding \cup {"body"} ~> InGetClient \/ step \in {"refuse", "done"}

\* The metrics have an exchange once: what was recorded is final, also when the answer
\* cannot be delivered after it; a relay that was under way is recorded exactly when
\* it ends by itself, and a request that was forwarded exactly when its listener has
\* a response or an error for the client.
CountedOnce ==
    [][/\ recorded # "nothing" => recorded' = recorded
       /\ counted # "nothing" => counted' = counted
       /\ stage = "relay" /\ stage' # "relay" =>
             (recorded' = "nothing" <=> stage' = "cancelled")
       /\ step \in Forwarding /\ step' \notin Forwarding =>
             (counted' = "nothing" <=> step' = "done" /\ status' = 0)]_exchangeVars

\* The listener, as one connection that is cancelled and one stream of it that has
\* begun.
Stream == "stream"
Connection == "connection"

DoqStage ==
    CASE point \in {"query", "end of query"} -> "query"
      [] point = "reply" -> "answer"
      [] point = "done" -> "ended"
      [] OTHER -> "upstream"

H3Stage ==
    CASE step = "headers" -> "resolve"
      [] step \in {"reply head", "reply data", "reply end"} -> "answer"
      [] step \in {"body", "refuse"} -> step
      [] step = "done" -> "ended"
      [] OTHER -> "upstream"

StreamStage == IF protocol = "doq" THEN DoqStage ELSE H3Stage

ClientIsGone == IF protocol = "doq" THEN hears["client"] = "lost" ELSE ~listens

Listener == INSTANCE QuicListener WITH
    Connections <- {Connection},
    Streams <- {Stream},
    Carrier <- [s \in {Stream} |-> Connection],
    MaxConnections <- 1,
    MaxStreams <- 1,
    application <- protocol,
    shutdown <- TRUE,
    accepting <- TRUE,
    closed <- FALSE,
    task <- [c \in {Connection} |-> "serving"],
    link <- [c \in {Connection} |-> IF ClientIsGone THEN "closed" ELSE "open"],
    watcher <- [c \in {Connection} |-> TRUE],
    stage <- [s \in {Stream} |-> StreamStage],
    freeConns <- 0,
    freeStreams <- [c \in {Connection} |-> IF StreamStage = "ended" THEN 1 ELSE 0]

\* A DoT relay and a DoH request are not under a QUIC listener.
ListenerStep ==
    \/ protocol \notin {"doq", "h3"}
    \/ Listener!Transaction(Stream)
    \/ Listener!CancelStream(Stream)
    \/ Listener!Disconnects(Connection)
    \/ UNCHANGED Listener!vars

\* A step of a transaction or request under a QUIC listener is one of its stream as
\* QuicListener has it, where the client may be lost and all may be cancelled, or
\* changes nothing of it: the stages, which of them can fail or be cancelled, what
\* that does to the connection, and that the permit is back at the end.
FitsListener == [][ListenerStep]_exchangeVars
=============================================================================
