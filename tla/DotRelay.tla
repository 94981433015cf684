------------------------------ MODULE DotRelay ------------------------------
(***************************************************************************)
(* One DNS-over-TLS connection, from the end of the client's handshake:    *)
(* handle_connection and relay_direction of src/src/readers/dot.rs.  It    *)
(* connects to the upstream, and then two relay_direction futures run      *)
(* under try_join!, each a loop of read and write_all, and shutdown at the *)
(* end, every await of which has an idle timer of its own.                 *)
(*                                                                         *)
(* Data is counted in chunks, what one read returns.  Time is counted in   *)
(* ticks, of which IdleTimeout make the timeout; a timer that elapses is   *)
(* served before time goes on.                                             *)
(*                                                                         *)
(* Both sides are tokio-rustls streams, which are external.  Of them the   *)
(* model uses that a write is accepted when part of it is in the stream's  *)
(* buffer, because the socket had no room, and that the buffer is sent by  *)
(* later writes, flush and shutdown; relay_direction does not flush.       *)
(***************************************************************************)
EXTENDS Timeouts

CONSTANT MaxChunks   \* bound: the chunks a peer sends

ASSUME DotRelayAssumption == MaxChunks \in Nat

Peers == {"client", "upstream"}
Directions == {"query", "answer"}
Source(d) == IF d = "query" THEN "client" ELSE "upstream"
Destination(d) == IF d = "query" THEN "upstream" ELSE "client"

VARIABLES
    stage,       \* where handle_connection is, or how it ended
    at,          \* the await each relay_direction is at
    wait,        \* ticks since that await began
    peer,        \* open; fin: it said that it was done; broken, or gone: the
                 \* connection to it is lost, before or after it said so
    produced,    \* chunks the source of each direction sent
    taken,       \* chunks relay_direction read
    flushed,     \* chunks that left the TLS stream to the destination
    told,        \* the destination was sent the end of the stream
    recorded     \* what was recorded in the metrics

vars == <<stage, at, wait, peer, produced, taken, flushed, told, recorded>>

Ended == {"ok", "timeout", "error", "cancelled"}
Lost(p) == peer[p] \in {"broken", "gone"}
Relaying(d) == stage = "relay" /\ at[d] # "done"

\* Something is there to be read: a chunk, the end of the stream, or an error.
Readable(d) == taken[d] < produced[d] \/ peer[Source(d)] # "open"

\* Nothing has been done yet.
Fresh ==
    /\ at = [d \in Directions |-> "read"]
    /\ wait = [d \in Directions |-> 0]
    /\ peer = [p \in Peers |-> "open"]
    /\ produced = [d \in Directions |-> 0]
    /\ taken = [d \in Directions |-> 0]
    /\ flushed = [d \in Directions |-> 0]
    /\ told = [d \in Directions |-> FALSE]
    /\ recorded = "nothing"

Init == stage = "connect" /\ Fresh

-----------------------------------------------------------------------------
\* The peers: the upstream says nothing before there is a connection to it.

Produces(d) ==
    /\ peer[Source(d)] = "open"
    /\ produced[d] < MaxChunks
    /\ d = "answer" => stage = "relay"
    /\ produced' = [produced EXCEPT ![d] = @ + 1]
    /\ UNCHANGED <<stage, at, wait, peer, taken, flushed, told, recorded>>

\* close_notify, or the connection breaks without one.
Leaves(p) ==
    /\ p = "upstream" => stage = "relay"
    /\ ~Lost(p)
    /\ \E to \in IF peer[p] = "open" THEN {"fin", "broken"} ELSE {"gone"} :
          peer' = [peer EXCEPT ![p] = to]
    /\ UNCHANGED <<stage, at, wait, produced, taken, flushed, told, recorded>>

-----------------------------------------------------------------------------
\* Before the relay

\* The rewriter has a target, TCP and TLS to it are up.
Connects ==
    /\ stage = "connect"
    /\ stage' = "relay"
    /\ UNCHANGED <<at, wait, peer, produced, taken, flushed, told, recorded>>

\* No matching domain, or no connection in time: not a request in the metrics.
ConnectFails ==
    /\ stage = "connect"
    /\ \E outcome \in {"timeout", "error"} : stage' = outcome
    /\ UNCHANGED <<at, wait, peer, produced, taken, flushed, told, recorded>>

-----------------------------------------------------------------------------
\* relay_direction

\* The next await, with a new timer.
Await(d, next) ==
    /\ at' = [at EXCEPT ![d] = next]
    /\ wait' = [wait EXCEPT ![d] = 0]

\* Mutant: no look at whether read returned 0.
ReadChunk_AfterTheEnd(d) ==
    /\ Relaying(d) /\ at[d] = "read"
    /\ Readable(d)
    /\ taken' = [taken EXCEPT ![d] = @ + 1]
    /\ Await(d, "write")
    /\ UNCHANGED <<stage, peer, produced, flushed, told, recorded>>

ReadChunk(d) ==
    /\ Relaying(d) /\ at[d] = "read"
    /\ taken[d] < produced[d]
    /\ taken' = [taken EXCEPT ![d] = @ + 1]
    /\ Await(d, "write")
    /\ UNCHANGED <<stage, peer, produced, flushed, told, recorded>>

\* Mutant: an unexpected end of the stream is taken for its end.
ReadEnd_OrBroken(d) ==
    /\ Relaying(d) /\ at[d] = "read"
    /\ taken[d] = produced[d]
    /\ peer[Source(d)] # "open"
    /\ Await(d, "shutdown")
    /\ UNCHANGED <<stage, peer, produced, taken, flushed, told, recorded>>

\* read returns 0.
ReadEnd(d) ==
    /\ Relaying(d) /\ at[d] = "read"
    /\ taken[d] = produced[d]
    /\ peer[Source(d)] \in {"fin", "gone"}
    /\ Await(d, "shutdown")
    /\ UNCHANGED <<stage, peer, produced, taken, flushed, told, recorded>>

\* write_all is through: the TLS stream has accepted the chunk, and sent it
\* except for what the socket had no room for.
WriteChunk(d) ==
    /\ Relaying(d) /\ at[d] = "write"
    /\ \E n \in flushed[d]..taken[d] : flushed' = [flushed EXCEPT ![d] = n]
    /\ Await(d, "read")
    /\ UNCHANGED <<stage, peer, produced, taken, told, recorded>>

\* What the TLS stream kept moves on while a later write or shutdown is polled,
\* and only then.
Flushes(d) ==
    /\ Relaying(d) /\ at[d] \in {"write", "shutdown"}
    /\ flushed[d] < IF at[d] = "write" THEN taken[d] - 1 ELSE taken[d]
    /\ flushed' = [flushed EXCEPT ![d] = @ + 1]
    /\ UNCHANGED <<stage, at, wait, peer, produced, taken, told, recorded>>

\* Mutant: the end of one direction is taken for that of both.
Shutdown_EndsBoth(d) ==
    /\ Relaying(d) /\ at[d] = "shutdown"
    /\ flushed[d] = taken[d]
    /\ told' = [told EXCEPT ![d] = TRUE]
    /\ Await(d, "done")
    /\ stage' = "ok"
    /\ recorded' = "success"
    /\ UNCHANGED <<peer, produced, taken, flushed>>

\* Everything is sent and the destination is told; try_join! is over when both directions are.
Shutdown(d) ==
    /\ Relaying(d) /\ at[d] = "shutdown"
    /\ flushed[d] = taken[d]
    /\ told' = [told EXCEPT ![d] = TRUE]
    /\ Await(d, "done")
    /\ IF \A e \in Directions \ {d} : at[e] = "done"
       THEN stage' = "ok" /\ recorded' = "success"
       ELSE UNCHANGED <<stage, recorded>>
    /\ UNCHANGED <<peer, produced, taken, flushed>>

\* One direction fails: try_join! drops the other, whatever it is doing.
Fails(outcome) ==
    /\ stage' = outcome
    /\ recorded' = "failure"
    /\ UNCHANGED <<at, wait, peer, produced, taken, flushed, told>>

\* Writes to a peer that is lost may succeed for a while, and what it sent
\* before may still be read.
IoError(d) ==
    /\ Relaying(d)
    /\ Lost(IF at[d] = "read" THEN Source(d) ELSE Destination(d))
    /\ Fails("error")

\* Mutant: no timer around writer.shutdown().
TimesOut_NotAtTheEnd(d) ==
    /\ Relaying(d)
    /\ wait[d] = IdleTimeout
    /\ at[d] # "shutdown"
    /\ at[d] = "read" => ~Readable(d)
    /\ Fails("timeout")

\* timeout polls the read first: it elapses only if nothing is there.
TimesOut(d) ==
    /\ Relaying(d)
    /\ wait[d] = IdleTimeout
    /\ at[d] = "read" => ~Readable(d)
    /\ Fails("timeout")

\* The connection's task was told to shut down, and drops the relay.
Cancelled ==
    /\ stage \in {"connect", "relay"}
    /\ stage' = "cancelled"
    /\ UNCHANGED <<at, wait, peer, produced, taken, flushed, told, recorded>>

-----------------------------------------------------------------------------
\* A tick, when no timer is due.
Tick ==
    /\ stage = "relay"
    /\ \A d \in Directions : Relaying(d) => wait[d] < IdleTimeout
    /\ wait' = [d \in Directions |-> IF Relaying(d) THEN wait[d] + 1 ELSE wait[d]]
    /\ UNCHANGED <<stage, at, peer, produced, taken, flushed, told, recorded>>

Relay(d) ==
    \/ ReadChunk(d)
    \/ ReadEnd(d)
    \/ WriteChunk(d)
    \/ Flushes(d)
    \/ Shutdown(d)
    \/ IoError(d)
    \/ TimesOut(d)

Next ==
    \/ \E d \in Directions : Produces(d) \/ Relay(d)
    \/ \E p \in Peers : Leaves(p)
    \/ Connects
    \/ ConnectFails
    \/ Cancelled
    \/ Tick

Spec == Init /\ [][Next]_vars

\* Time goes on, a timer that elapsed is served, and what can be read is read.
\* That a peer takes what is written to it is not assumed, nor that it sends,
\* leaves, or breaks.
Fairness ==
    /\ WF_vars(Tick)
    /\ WF_vars(Connects \/ ConnectFails)
    /\ \A d \in Directions :
          WF_vars(ReadChunk(d) \/ ReadEnd(d) \/ IoError(d) \/ TimesOut(d))

FairSpec == Spec /\ Fairness

\* The same, if moreover both peers take what is written to them.
ReadingSpec ==
    /\ FairSpec
    /\ \A d \in Directions : WF_vars(WriteChunk(d) \/ Flushes(d) \/ Shutdown(d))

-----------------------------------------------------------------------------
\* Every variable has its type.
TypeOK ==
    /\ stage \in {"connect", "relay"} \cup Ended
    /\ at \in [Directions -> {"read", "write", "shutdown", "done"}]
    /\ wait \in [Directions -> 0..IdleTimeout]
    /\ peer \in [Peers -> {"open", "fin", "broken", "gone"}]
    /\ produced \in [Directions -> 0..MaxChunks]
    /\ taken \in [Directions -> 0..MaxChunks]
    /\ flushed \in [Directions -> 0..MaxChunks]
    /\ told \in [Directions -> BOOLEAN]
    /\ recorded \in {"nothing", "success", "failure"}

\* A connection counts as a success exactly if it ended well, and then both peers
\* had said that they were done, and each of the two totals is all that the one
\* sent and the other was sent.
SuccessIsComplete ==
    /\ recorded = "success" <=> stage = "ok"
    /\ stage = "ok" => \A d \in Directions :
          /\ peer[Source(d)] \in {"fin", "gone"}
          /\ told[d]
          /\ taken[d] = produced[d] /\ flushed[d] = produced[d]

\* Each direction is a Pipe, whatever becomes of the other one.
QueryPipe == INSTANCE Pipe
    WITH sent <- produced["query"], finished <- peer["client"] \in {"fin", "gone"},
         received <- flushed["query"], told <- told["query"]

AnswerPipe == INSTANCE Pipe
    WITH sent <- produced["answer"], finished <- peer["upstream"] \in {"fin", "gone"},
         received <- flushed["answer"], told <- told["answer"]

DirectionsArePipes == QueryPipe!Spec /\ AnswerPipe!Spec

\* A relay ends if its peers stop making progress: the bound on chunks makes
\* each of them stop in the end.
RelayEnds == stage = "relay" ~> stage \in Ended

\* README.md:492-493: the timeout is "an idle-I/O timeout, so streamed AXFR/IXFR
\* responses are not capped by a total transfer duration"; the comment above
\* relay_direction (src/src/readers/dot.rs:310-312) says that it "preserves
\* long-running AXFR/IXFR transfers".  An answer to a query, begun and moving
\* within the timeout, is not cut by it.
AnswersAreNotCapped ==
    stage = "timeout" /\ flushed["query"] > 0 /\ flushed["answer"] > 0 =>
        at["answer"] = "done" \/ wait["answer"] = IdleTimeout

\* "A transparent bidirectional relay preserves pipelining and multi-message
\* AXFR/IXFR transactions" (src/src/readers/dot.rs:277-280).  What is left of an
\* answer when write_all has accepted it is sent to a client that is there and
\* reads, also if no later write or shutdown comes to take it along.
AnswersArrive ==
    /\ stage = "relay" /\ at["query"] = "done"
    /\ at["answer"] = "read" /\ flushed["answer"] < taken["answer"]
    ~> \/ flushed["answer"] = taken["answer"]
       \/ at["answer"] # "read"
       \/ Lost("client")
       \/ stage \in {"error", "cancelled"}
=============================================================================
