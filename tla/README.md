# dns-ingress: a verification project

TLA+ modules, TLC configurations and TLAPS proofs about dns-ingress, a proxy
that accepts DNS over TLS, HTTPS, QUIC and HTTP/3, rewrites the hostname the
client asked for (SNI) into the name of an upstream, and forwards the
transaction there over the same protocol. Paths below are those of the
repository, under `src/`.

- [Inventory](#inventory): the components, their state, and what is hard in them
- [Plan](#plan): the modules, done and to come
- [Modules](#modules): how the state and the actions correspond to the code
- [Runs](#runs): what is checked, with which bounds and which fairness
- [Proofs](#proofs): what holds for every value of the constants, and why
- [Findings](#findings): where the code and what is said of it disagree
- [Not modelled](#not-modelled)

## Inventory

| Component | Source | State | Operations | Status |
|---|---|---|---|---|
| Upstream QUIC pools | `src/upstream/quic_pool.rs` | map of authorities to leases (tokio mutex), semaphore, per-lease strong count, H3 `alive` flag and driver task | `get`, `acquire_slot`, `invalidate`, drop of a lease | modelled |
| Upstream QUIC forwarding | `src/upstream/quic.rs` | the query, the frames of the response, the lease it borrows | `forward_quic_stream`, `forward_http3_request` | modelled |
| Task groups | `src/tasks.rs` | `closed`, command channel, JoinSet of the supervisor | `spawn`, `close_and_wait_until`, the supervisor | modelled |
| Application lifecycle | `src/app.rs`, `src/main.rs` | `ready`, `failed`, cancellation token, handles, groups | `start`, `spawn_server`, `shutdown` | modelled as main uses it |
| DoT connections | `src/readers/dot.rs` | two directions of a relay, each with its await and its timer | `handle_connection`, `relay_direction` | modelled |
| QUIC listeners (DoQ, DoH3) | `src/readers/doq.rs`, `src/readers/doh3.rs` | connection semaphore, a stream semaphore per connection, tasks of connections, streams and the unidirectional watcher | `run`, `handle_connection`, the task of a stream | modelled |
| TCP listeners (DoT, DoH, healthcheck) | `src/readers/dot.rs`, `doh.rs`, `healthcheck.rs` | socket, connection semaphore, back-off | `run` | as tasks of the application |
| Upstream HTTP clients (DoH) | `src/upstream/pool.rs` | DashMap of hostnames to clients | `get_client` | modelled |
| DoH request handling | `src/proxy/http.rs`, `src/upstream/http.rs` | a request, its body and its answer while they are collected | `handle_http_request`, `forward_http_request` | modelled |
| Rewriter | `src/rewriters/base.rs`, `src/sni.rs`, `src/rewrite.rs` | list of base domains | `rewrite` | not modelled |
| TLS | `src/tls_utils.rs` | certificates by exact and wildcard name | `resolve` | not modelled |
| Back-off | `src/utils/backoff.rs` | a counter of failed accepts | `next_delay` | not modelled |
| Metrics | `src/metrics.rs` | independent counters | `record_*`, snapshot | not modelled |
| Configuration, logging, errors | `src/config.rs`, `src/logging.rs`, `src/error.rs`, `src/server.rs` | none after start | parse and validate | not modelled |

How they interact. `main` calls `App::start`, which checks the configuration,
creates one `TaskGroup` per listener and one task per listener, and waits on a
oneshot of each for "bound". A listener accepts until the cancellation token
fires, spawns one child per connection into its group, and a connection of DoQ
or DoH3 spawns one child per stream into the same group. Each stream is a
transaction: it borrows a session from a pool that all connections of the
listener share, and gives it back by dropping the lease. `App::shutdown` clears
`ready`, cancels the token, closes all groups with one deadline, and then joins
or aborts the tasks of the listeners; a listener that noticed the cancellation
closes its own group too, with a deadline of its own.

What is hard to test, and what correctness means there:

- *Pools.* Requests for one authority look it up, take a permit, connect and
  publish with other requests, evictions, invalidations, closing connections and
  their own cancellation between any two of these steps. Correct: permits are
  conserved, a session in use is neither closed nor given to another authority,
  a live session is not displaced, and `get` returns.
- *Task groups.* `spawn` races with `close`; children spawn others during the
  drain and may ignore cancellation; the closer may itself be aborted. Correct:
  nothing accepted is lost, a closer that waited leaves nothing behind, children
  get the time they were promised, and closing ends.
- *Lifecycle.* Listeners fail at any moment of `start`, two closers share a
  group, two deadlines run. Correct: `/ready` tells the truth, `start` and
  `shutdown` return, and what still runs after `shutdown` is accounted for.
- *HTTP client map.* Threads interleave between a length check, an eviction and
  an insert, under shard locks. Correct: the map stays near its limit, one
  client per hostname, and a call returns.
- *Transactions.* A query, a body or an answer can break off, stall, be too long
  or wrong at every await, each of which has a timer of its own; the task can be
  cancelled there, and the peer of the other side may be in the middle of
  something. Correct: only whole queries go upstream, a cut answer is neither
  passed off as a whole one nor counted as a success, the status of an HTTP error
  blames the right party, and every await that has a timer ends.
- *Connections.* Two directions of a relay fail, half-close and time out
  independently; streams and a watcher hold handles of a QUIC connection that
  its own task has left; one bad stream closes a connection under the others.
  Correct: a transfer that was cut is not passed on as a whole one, a peer that
  stops is released, an open connection holds a permit, and a closed one gives
  everything back.

`PROJECT.json` lists these as hazards, each at its line, with the properties
that cover it or the reason that none does yet.

## Plan

Done, in this order: `UpstreamCapacity` (what a bounded pool promises) and
`QuicPool`, which implements it, with `QuicPoolProofs`; `TaskGroup` with
`TaskGroupProofs`; `AppLifecycle`, which composes the groups with `App` and the
listeners, with `AppLifecycleProofs`; `HttpClientPool` with `HttpClientPoolProofs`; `Pipe` (what one direction
of a relay promises) and `DotRelay`, which implements it twice, with
`DotRelayProofs`; `QuicListener` with `QuicListenerProofs`; `DoqTransaction` and
`DohTransaction` with `TransactionProofs`; `Exchange`, which composes the relay, the
transaction and the request and shows that those under a QUIC listener take only
the steps `QuicListener` knows, with `ExchangeProofs`.

What composes what:

```
UpstreamCapacity <-refines- QuicPool        TaskGroup <-extends- AppLifecycle
Pipe <-refines (twice)- DotRelay            HttpClientPool
DotRelay, DoqTransaction, DohTransaction <-extends- Exchange -refines-> QuicListener
```

What would come next: the choice of a name by the rewriter and of a certificate,
as operators against reference definitions; `AppLifecycle` over `QuicListener`
instead of anonymous children.

## Modules

### UpstreamCapacity

The contract of a bounded pool, without cache or eviction policy: `reserved` is
the set of slots that count against the capacity, `borrowed` the slot each
request uses. `Reserve` takes capacity only below `Max`, `Borrow` takes a
reserved slot, and a slot leaves `reserved` (`Return`, `Reclaim`, or a cached
session that is replaced in `Borrow`) only when nobody borrows it. It states the
comments above `QuicConnectionPool` and in `QuicConnectionLease`.

### QuicPool

Both pools of `quic_pool.rs`; `DriverFlag` selects how they see that a session
is dead (`close_reason()` for DoQ, the flag the driver clears for H3).

| Model | Code |
|---|---|
| `entries`, `older` | `entries` behind the mutex; the order of `last_used` |
| `free` | `available_permits()` |
| `own`, `lease`, `hand` | the `PoolSlot` a request reserved; the lease it borrows; the entry it evicted and has not dropped |
| `authority`, `status` | whom a slot was reserved for; its connection: none, open, closed (H3: driver not done), dead |
| `pc` | where a request is: one value per point where others can intervene |
| `LookupHit`, `LookupMiss` | the first critical section of `get` |
| `Acquire`, `AcquireFull`, `EvictIdle`, `EvictNothing`, `DropEvicted`, `Reacquire`, `Overloaded` | `acquire_slot`, with `drop(evicted)` after the lock was released |
| `RecheckHit`, `RecheckMiss` | the second critical section |
| `ConnectOk`, `Abandon` | lookup and handshake; failure of them, or the future dropped at an await |
| `PublishHit`, `PublishInsert`, `DropSurplus` | the third critical section, and the drop of a session that came too late |
| `UseFails`, `Invalidate`, `Finish` | the callers in `quic.rs` |
| `ConnectionCloses`, `DriverEnds` | the peer or the network; the driver task of H3 |

A lease identity is one `Arc<PoolSlot>` with the session built under it. Its
strong count is not a variable: it is the number of places that refer to it, and
`LastHeldBy` and `OnlyCached` compute which permits come back when a reference
goes. That is what makes `PermitsConserved` a statement about the code: a permit
held by a clone too many, or returned by the wrong drop, changes the sum.

### TaskGroup

`spawn` is one step, since it does everything under the state lock.
`close_and_wait_until` has three: its critical section (`CloseAgain`,
`CloseUnused`, `CloseFirst`), the send of `Shutdown` after the lock was released
(`SendShutdown`), and the wake-up (`Complete`). The supervisor receives
(`ReceiveSpawn`, `ReceiveShutdown`), aborts at the deadline (`AbortAll`), and
ends (`Complete`, or `EndUnclosed` when every clone of the group was dropped). A
child ends by itself or is aborted and stops at its next await. A deadline is an
event: `DeadlinePasses`.

### AppLifecycle

`EXTENDS TaskGroup`: one group per listener, and two closers, `app` and
`listener`. `app` is the control point of `start` and `shutdown`, `pos` the
listener whose report or handle is awaited, `readiness` the oneshots, `listener`
the task of each listener with the wrapper of `spawn_server` (`erring`,
`failed`). `failed.load()` and `ready.store(true)` are two steps (`CheckFailed`,
`Announce`), as are the two stores of a failing listener (`RecordFailure`,
`RevokeReadiness`), so that they interleave. `AbortHandle` drops a listener's
task at an await: also while it waits for its own group (`CancelCloser`), which
is how a child can survive `shutdown`.

### HttpClientPool

`get_client` as threads execute it. DashMap is external; the three facts used of
it are in the module's head comment. The read lock an iterator keeps is
`ReadLocked`: `if let Some(key) = self.clients.iter().next().map(..)` keeps the
iterator, a temporary of the scrutinee, until the end of the body, in every
edition of Rust.

### Pipe and DotRelay

`Pipe` is one direction between two peers: the receiver has a prefix of what was
sent, and is told that it is the end only when it is. It is the contract of a
relay whose order cannot go wrong, so that data is a number of chunks.

`DotRelay` is one DoT connection from the end of the client's handshake.

| Model | Code |
|---|---|
| `stage`, `recorded` | where `handle_connection` is, how it ended, and what it recorded in the metrics |
| `at`, `wait` | the await each `relay_direction` is at, and the age of the timer around it |
| `produced`, `taken`, `flushed`, `told` | chunks the source sent, the relay read, and that left the TLS stream to the destination; `shutdown` went through |
| `peer` | open, after close_notify, or lost before or after it |
| `Connects`, `ConnectFails` | rewriting the name, TCP and TLS to the upstream |
| `ReadChunk`, `ReadEnd`, `WriteChunk`, `Shutdown` | one await of `relay_direction` that is through |
| `IoError`, `TimesOut` | one that fails: `try_join!` drops the other direction |
| `Flushes` | tokio-rustls (external): its buffer moves while a write or shutdown is polled |
| `Tick` | time, which does not pass a timer that is due |

### DoqTransaction

One transaction of DoQ: `forward_quic_stream`, and what the task of the stream
does with its result.

| Model | Code |
|---|---|
| `point`, `idle` | the await `forward_quic_stream` is at, and the age of the timer around it |
| `put`, `ending` | what each end has put on its stream, in halves of frames (a length, a message), and how it ended it |
| `flaw` | the first half that `read_doq_frame`, `read_doq_query` or the check of the response refuses |
| `read`, `passed`, `finished` | halves read from, and written to, each end; its stream was finished |
| `hears` | the end takes the stream, has stopped it, or its connection is lost |
| `ReadHalf`, `QueryEnds`, `AnswerEnds`, `ReadFails` | `read_exact`, with `FinishedEarly(0)` between two frames |
| `GetsStream`, `GetsNoStream` | `pool.get`, `open_bi` |
| `WriteHalf`, `WriteFails` | `write_all`, and `finish` of the query |
| `Returns` | the return of `forward_quic_stream`, which drops both streams, and the match in `doq.rs:261-282` |
| `DoqTimesOut`, `DoqCancelled` | a timer that elapses; the `select!` with the cancellation |

Of quinn the model uses what its documentation says: dropping a `SendStream`
finishes it. So a transfer that is cut by an error ends with FIN between two
frames, unless the connection is closed first, and a query whose second half was
not written ends with FIN, too. `finish` succeeds also on a stream that the peer
stopped, so that a success says that the answer was accepted for sending, not
that the client has it.

### DohTransaction

One request of DNS over HTTPS, over TCP (`handle_http_request`,
`forward_http_request`) or over QUIC (`handle_request`, `forward_http3_request`):
`protocol` is chosen in `Init`, and the two differ in timers, cancellation and
errors.

| Model | Code |
|---|---|
| `request` | the method, the set of things that are wrong with the head, and the phrases that the URI or host happen to spell |
| `Checks`, `Begins` | the checks of the head, in the order of the code, each with its status in DoH and its text in DoH3 |
| `upload`, `uploadEnd`, `kept` | the body: what the client sent of it, how it ended, what was collected |
| `step`, `since` | the await, and the age of its timer |
| `head`, `download`, `downloadEnd`, `got` | the upstream's answer, likewise |
| `Rejects`, `H3Status`, `Refuses` | an error that ends the request: `doh_error_response`, or `send_error_response`, which looks for phrases in the text before it looks at the type |
| `ForwardFails`, `Forwarded` | the result of the forwarding and what is recorded of it |
| `Replies`, `ReplyFails` | `send_response`, `send_data` and `finish` of DoH3 |
| `InGetClient` | DoH looks for a client of the pool: no await, so that nothing can end it from outside |
| `DohTimesOut`, `DohCancelled` | a timer that elapses; the `select!` of DoH3, or hyper, which may drop a request at any await |

A body is counted in units, of which `Limit` are the most a message has; a body
of no unit stands for one that is shorter than a DNS header.

### Exchange

`EXTENDS DotRelay, DoqTransaction, DohTransaction`: a client speaks one protocol,
chosen in `ExchangeInit`, and the variables of the other components are at rest.
`Listener` is `QuicListener` with one connection and one stream, and `StreamStage`
maps the await a transaction or request is at to the stage of the stream.
`FitsListener` says that every step of theirs is one that `QuicListener` has for
a stream, or changes nothing of it: which await can fail, time out or be
cancelled, which failure closes the connection, and that the permit is back at
the end. `Timeouts` declares the timeout all of them share.

### QuicListener

One listener, DoQ or DoH3 (`application`, chosen in `Init`), with all its
connections and streams.

| Model | Code |
|---|---|
| `accepting` | the accept loop of `run`; the connection that is `"waiting"` is the one it holds while it waits for a permit |
| `task`, `link` | the task of a connection, and the connection itself, which outlives it while anybody has a handle |
| `watcher` | the DoQ task at `accept_uni` |
| `stage` | a stream: offered by the client, taken by `accept_bi` and waiting for a permit, then the await its transaction is at |
| `freeConns`, `freeStreams` | `connection_limit`, and the `stream_limit` of each connection |
| `Accept`, `Admit`, `LeaveLoop` | the awaits of the accept loop; `Admit` spawns, or drops the future if the group is closed |
| `HandshakeOk`, `HandshakeFails`, `SetUp`, `SetUpFails` | the handshake; SNI, rewriting and the watcher (DoQ), the control stream (H3) |
| `AcceptStream`, `StartStream`, `StopServing` | the loop of `handle_connection` |
| `Advance`, `Fails`, `CancelStream` | `forward_quic_stream`, or `process_request` with `send_error_response`, one await at a time |
| `Return`, `GoesTo` | what a task drops when it ends: its permit, its handle |
| `Cancel`, `CloseGroup`, `Abort...` | `App::shutdown` and the supervisor, as `TaskGroup` establishes them |

quinn is external: `LinkAfter` closes a connection with its last handle, and an
accept fails only when the connection is closed. After the connection is gone a
transaction may still run against the upstream, until it has to write or the
upstream times out; its connection permit is already another connection's. So
the transactions of a listener are not bounded by connections times streams;
`DeadConnectionsRelease` says that they end.

### MC modules

`MCQuicPool`, `MCAppLifecycle`, `MCHttpClientPool` and `MCQuicListener` only
define values of constants and symmetry sets. `TaskGroup`, `DotRelay` and
`Exchange` are checked as they are.

## Runs

| Run | Question | Bounds |
|---|---|---|
| `quic_pool_doq` | Permits, cache and sessions in use of the DoQ pool, and the refinement of `UpstreamCapacity` | 4 requests, 2 authorities, 2 permits, 3 leases |
| `quic_pool_h3` | Sessions in use are not evicted, the contract, and that `get` returns, for H3 | 3 requests, 2 authorities, 1 permit, 2 leases |
| `task_group` | What a group promises its spawners, children and closers, and that closing it ends | 1 group, 2 closers, 3 futures |
| `app_lifecycle` | Readiness, what shutdown leaves, and that both return | 2 listeners (one QUIC), 1 future each |
| `app_ready` | Does `/ready` notice that an endpoint is gone? No | as above |
| `app_stop` | Does no child outlive `shutdown`? One can | as above |
| `exchange` | DoT: each direction is a pipe, a success is complete. DoQ: one whole query, a faithful answer. DoH and DoH3: whom the status blames, what is forwarded and counted, and that it is counted once. Everything with a timer ends; what is under a QUIC listener is what it knows | 2 chunks or 2 frames each way, bodies of up to one unit more than the limit, a timeout of 2 ticks |
| `dot_transfer` | Is an answer that moves never cut by a timeout? It can be | 2 chunks each way, a timeout of 2 ticks |
| `dot_flush` | Does an answer that was written arrive? Not always | as above |
| `quic_listener` | Permits, connections nobody serves, closed connections, the end | 2 connections, 3 streams, 1 permit of each kind |
| `http_pool` | How far the map exceeds its limit; one client per hostname | 2 threads, 4 hostnames on 2 shards, limit 2 |
| `http_pool_eviction` | Does a call that evicts go on? No | as above |

Why the bounds are enough. In the pool, requests never wait for one another
except through permits and the map, so what can go wrong needs few actors: one
that connects, one that connects to the same authority, one that evicts, and one
that steals the freed permit. There are more requests than permits, so that
requests are refused, and more leases than permits, so that it is the semaphore
that bounds the pool and not the model. The proofs cover every other size. In a
group, three futures are one spawned before the close, one during and one after,
with a child that spawns another; two closers are all the code has. Two
listeners suffice for the order in which reports and handles are awaited; a
second future per listener was also tried (1.6 million states) and changes
nothing. With two hostnames per shard, a thread in the HTTP pool can meet the
lock another one keeps, or not.

In `DotRelay` `MaxChunks` bounds what a peer sends: two chunks are one that
moves and one that is cut or kept in a buffer, and the proofs do without it.
`IdleTimeout` is the number of ticks of the timeout: with two, a timer can be
young, old or due, so that two directions can differ. In `DoqTransaction` two
frames are a second query, or an answer that can be cut between frames and within
one; in `DohTransaction` a body can be empty, whole, cut and too long, and a head
has any set of flaws it can have at once. In `QuicListener` one
stream waits for the permit of another on the same connection, and one
connection for that of the other; DoQ and DoH3 are both in the one run.

The pool's eviction is the hazard that needs its bounds most. With a single
permit (`quic_pool_h3`) every miss on the other authority is short of one and looks
for something to evict while the only session is in use; with two permits
(`quic_pool_doq`) there is also one to choose. In both, `LiveSessionNotDisplaced`
fails if `acquire_slot` does not ask `is_idle`, or (`quic_pool_doq`) if a connection
is published without a look at what is there.

The types of the groups are checked in `app_lifecycle`, as a part of its `TypeOK`;
those of the HTTP client pool are only proved (`HttpTypes`).

Nothing else is capped: every variable ranges over a finite set by itself,
because requests return their leases and futures, connections and streams live
once.

`CHECK_DEADLOCK FALSE` appears where the system really stops: a group that is
closed, an application that is stopped, an exchange or a listener that has ended,
threads of the HTTP pool that wait for ever.

### Fairness

- `quic_pool_h3`: weak fairness of each request's own steps in `get`. The
  runtime polls a ready task, the mutex and the semaphore are fair queues (the
  code uses `try_acquire` and does not wait on the latter), and the timeout
  around `get` ends a handshake that does not end (`Abandon`). Nothing is
  assumed of how long a transaction keeps its session.
- `task_group`: weak fairness of the supervisor, of the send after the critical
  section, of a deadline and of an aborted child. Children need not end and need
  not stop spawning.
- `app_lifecycle`: the same, for `App`, for a listener while it binds and for
  the wrapper. Not for a listener's reaction to the cancellation (it may be in
  the back-off sleep after a failed accept), nor for the signal.
- `exchange` and `dot_transfer`: time goes on, connecting ends (it has a timeout),
  and what can be read or has timed out is noticed. That a peer sends anything, or
  takes what is written to it, is not assumed, nor that `get_client` of DoH returns:
  it is no await, so that neither a timer nor a cancellation can end it
  (`InGetClient`), and by `http_pool_eviction` it may hang. `TransactionsEnd` says that
  a request which was under way ends, is refused, or is in `get_client`; after
  `get_client` it ends or is refused. `dot_flush` assumes that clients read
  (`ReadingSpec`): the answer stays in the buffer although the client would take
  it.
- `quic_listener`: tasks of connections go on when they can; of streams only
  that an await on a closed connection fails and that one of the upstream has a
  timeout. A cancelled loop ends, and its group is closed and aborted. Neither
  clients nor upstreams need do anything.
- `http_pool_eviction`: strong fairness of each thread's steps, the most an
  operating system and a fair lock can give; the call is stuck all the same.

## Proofs

Eight modules prove, for every value of the constants:

| Theorem | Says |
|---|---|
| `PoolTypeOK` | the types of the pool |
| `PoolPermitsConserved` | available permits and live slots add up to `max_entries` |
| `PoolCacheIsConsistent` | the cache holds sessions of their authority, never a slot in construction |
| `PoolLiveSessionNotDisplaced` | a live session leaves the cache only if nobody borrows it or a request invalidates its authority, and no other one takes its place |
| `PoolKeepsContract` | `QuicPool` implements `UpstreamCapacity` |
| `ContractIsWorthIt`, `PoolCapacityHolds` | what implements `UpstreamCapacity` stays within the capacity and lends only what counts, and so the pools do |
| `GroupTypes` | the types of the groups |
| `GroupNothingBehindShutdown` | nothing accepted is lost behind `Shutdown` |
| `GroupJoinedMeansNoChildren` | a closer that waited leaves no child |
| `GroupChildrenGetTheirGrace` | no child is told to stop before the deadline |
| `GroupOneCloserWaits` | of all who close a group at most one waits for its end |
| `AppTypes` | the types of the application |
| `AppReadyMeansServing` | `/ready` succeeds only while every TCP listener serves |
| `AppCancelledMeansUnready` | readiness is withdrawn before anything is cancelled |
| `AppStoppedAccountsForChildren` | what may still run when `shutdown` has returned |
| `AppImplementsTaskGroup`, `AppGroupsKeepTheirPromises` | `AppLifecycle` implements `TaskGroup`, and so the four promises of a group hold of every listener's |
| `AppReadyUntilShutdown` | once `/ready` succeeds only `shutdown` withdraws it, whatever becomes of the listeners |
| `RelaySuccessIsComplete` | a recorded success is a conversation both peers ended, of which nothing is missing |
| `RelayDirectionsArePipes` | both directions of `DotRelay` implement `Pipe` |
| `PipesAreFaithful`, `RelayIsFaithful` | what implements `Pipe` makes up nothing and never makes a cut transfer look whole, and so a relay does not |
| `ListenerTypeOK` | the types of a listener |
| `ListenerConnectionsBounded` | no more connections are open than there are permits |
| `ListenerOpenConnectionsAreServed` | no connection is left open with nobody serving it |
| `ListenerPermitsBalanced` | the permits of connections and of streams are neither lost nor made up |
| `ExchangeTypes` | the types of relays, transactions and requests |
| `ExchangeSuccessIsComplete`, `ExchangeDirectionsArePipes` | the two theorems of the relay, in the composition |
| `ExchangeOneWholeQuery` | nothing of a DoQ query goes upstream before its FIN |
| `ExchangeAnswersAreRelayed` | a DoQ client has a faultless prefix of the answer, and all of it on success |
| `ExchangeBlameIsRight` | the status of DoH and DoH3 tells who is at fault |
| `ExchangeOnlyAnswersCount` | only whole requests are forwarded, and only whole messages count |
| `ExchangeCountedOnce` | what the metrics have of a relay or request is recorded once, and is final |
| `ExchangeFitsListener` | the exchanges of DoQ and DoH3 take only steps of `QuicListener` |
| `HttpTypes` | the types of the HTTP client pool |
| `HttpSizeWithinRace` | the map exceeds its limit by less than there are threads |
| `HttpOneClientPerName` | calls that use a client for one hostname use the same one |
| `HttpEvictionNeverEnds` | a call that is to evict an entry stays at that point for ever |
| `HttpClientsStay` | no client ever leaves the map |

Assumptions: `QuicPoolAssumption` (`MaxEntries` is a natural number and `None`
is neither a lease nor an authority; the sets may be infinite),
`TaskGroupAssumption` (`Shutdown` is no task), `AppAssumption` (`start` spawns
every listener once; a group has two closers), `TimeoutAssumption` (a timeout of
at least one tick), `DotRelayAssumption`, `DoqAssumption` and `DohAssumption` (any
number of chunks and frames, any positive limit), `HttpClientPoolAssumption` (a positive limit, as `config.rs:417`
demands, finitely many threads, any hostnames and shards) and `QuicListenerAssumption`
(every stream has a connection, both limits are positive, as `config.rs:415-416`
demands; the sets may be infinite).

*The pool.* `PermitsConserved` is not inductive: to know that a drop returns one
permit and no more, one has to know who else refers to the lease. `PoolInv` adds
`Shape` (which of `own`, `lease`, `hand` a request holds follows from `pc`),
`Owned` (a slot not yet published, or evicted and not yet dropped, has one
holder that nobody else can reach), `Lent` (a lease that a request has is up and
of the request's authority) and `Accounted` (the live slots are finitely many, and with the available permits they make `MaxEntries`). `PoolStep` has one
step per action; each shows how `Live` changes (`LiveKept`, `LiveGrows`,
`LiveShrinks`), and the lemmas `PermitTaken` and `PermitsReturn` do the
counting. `LiveSessionNotDisplaced` and the refinement follow step by step: in
`ContractStep` every action of the pool is `Reserve`, `Borrow`, `Return`,
`Reclaim` or a stutter of the contract. What that is worth is proved of the contract
alone, from a count of the reserved slots (`FewerCount`): `CapacityHolds` then holds
of the pool although its proof mentions no action of the pool.

*The groups.* `JoinedMeansNoChildren` needs that when `Complete` fires, nothing
is left in the channel that could become a child, and nothing can be put there.
`Inv` says why, one group at a time: `ChannelInv` (`Shutdown` is last and only in
a closed group; a supervisor that is not running has an empty channel),
`CloserInv` (whoever has still to send `Shutdown` is alone, and found a running
supervisor), `ChildInv` (no child before the supervisor, none after the
wake-up). A step changes one group and leaves the others (`OthersSame`,
`SameKeeps`), so each action is treated for the group it belongs to. That only one
closer waits (`OneWaits`) follows from it: whoever closes first finds the group
open, and so, by `CloserInv`, everybody else still outside.

*The application.* `StepsAreGroupSteps` shows that every step of the application
is one of its groups or leaves them alone, so that what `TaskGroupProofs` knows of
a group holds here as well: its invariant in the proofs, and all that it promises by
the refinement `AppImplementsTaskGroup`. `ReadyMeansServing` needs `ListenerInv` (a listener
that reported that it is bound never fails, and over TCP it serves until all is
cancelled) and `OrderInv` (after the wait of `start` all have reported, and `ready`
is set only between that and `Withdraw`). For `StoppedAccountsForChildren`,
`ClosersInv` says what the two closers know of each other: a closed group has one
that waits or waited for its end, and a listener that is gone no longer waits, and
has given up only if it was aborted, after the deadline.

*The relay.* `SuccessIsComplete` speaks of the moment of success only.
`DirectionInv` says what each direction knows at each of its awaits: at
`"shutdown"` it has read all its source sent and its source said that it was
done; at `"done"` all of it has left and the destination was told. `OutcomeInv`
ties the outcome to both. For the refinement, `StepIsPipeStep` shows that each
action is one step of `Pipe` or a stutter, in both directions at once.

*The transactions.* `TransactionProofs` strengthens the two properties of DoQ by what
each await knows (at `"response"` the whole query was sent, at `"reply"` one
frame, or what is left of it, was read and not yet passed on), and those of DoH by which
variables a step may rely on: `DohInv` ties `kept` and `got` to what was sent,
and `counted` to the step. `ProgressKeeps`, `RejectionKeeps`, `ForwardingFails` and
their like treat the few ways a request can go on, so that an action only has to
be shown to be one of them. `ExchangeProofs` combines the invariants of the three
components, and proves the refinement one action at a time. For `CountedOnce` it
needs of them that nothing is recorded while a relay or a forwarding goes on;
`FailuresCount` and `AnswersCount` are the two ways in which forwarding ends.

*The listener.* That an open connection is served is not inductive: one has to
know that nobody else refers to it before it is served (`Quiet`), so that a task
that gives up early closes it, and that a task that serves it returns only when
it is closed or all is cancelled. `Accounted` counts permits: by `HeldStep` and
`RunningStep` a step moves at most one of each kind, together with its holder.
`ListenerConnectionsBounded` follows from both.

*The HTTP client pool.* All rests on `RemovalIsStuck`: a call that found the map full
keeps the lock it waits for, so that every write is an insert. Then what a call was
given stays in the map (`Shape`), which is `OneClientPerName`, and the map grows by
inserts only. `Bounded` counts those: clients and calls that were told that there is
room are together fewer than the limit and the threads, because whoever is told so
saw the map below its limit. The same fact makes finding 5 one of every instance.

Only model-checked: liveness (`GetReturns`, `CloseEnds`, `StartReturns`,
`ShutdownReturns`, `RelayEnds`, `TransactionsEnd`, `DeadConnectionsRelease`,
`ListenerDrains`), which is out of the prover's reach. The runs that expect a violation
are counterexamples and have nothing to prove; of two of them the safety behind the
counterexample holds of every instance (`AppReadyUntilShutdown`,
`HttpEvictionNeverEnds`).

## Findings

1. `dot_transfer`: each direction of a relay has an idle timer of its own, and
   the timeout of one drops the other. A client that sends its query and then
   only reads is cut after `transaction_timeout_seconds`, in the middle of an
   answer that moves, against `README.md:492-493` ("streamed AXFR/IXFR responses
   are not capped by a total transfer duration").
2. `dot_flush`: `relay_direction` writes to a TLS stream and does not flush it. If
   the socket was full, the end of an answer stays in the stream's buffer while
   the relay waits for the next read, and the idle timeout drops it, against
   `dot.rs:277-280` ("preserves [...] multi-message AXFR/IXFR transactions").
   This rests on the buffering of tokio-rustls, which is external.
3. `app_ready`: an endpoint that is gone ends the accept loop of DoQ and DoH3
   with `Ok`, and only an `Err` withdraws readiness; `README.md:490-492` says
   that `/ready` becomes unavailable when an ingress task exits. By
   `AppReadyUntilShutdown` it never does before `shutdown`: a listener that can fail
   with an `Err` has not reported, and so `/ready` does not succeed yet.
4. `app_stop`: if a listener closes its group before `App` does, `App`'s own
   `close_and_wait_until` returns at once; the listener is aborted at the
   deadline, and `shutdown` returns while children still run, against the
   comment at `src/app.rs:217-219`. They are aborted at the deadline of the
   listener's close, a moment later (`ShutdownReturns` checks that).
5. `http_pool_eviction`: a call that finds the DoH client map full removes an
   entry while its own iterator holds the lock of the entry's shard, and never
   returns. Once the limit is reached no new hostname gets a client.
   `HttpEvictionNeverEnds` proves it of any number of threads, names and shards.

Observations that no run refutes, since no text of the repository says
otherwise, or only in general terms or in a comment:

- A request that misses takes a slot before it connects, so that `max_entries`
  concurrent requests for one cold authority fill the pool and the next one for it
  is refused.
- Any error of framing on an upstream's stream is a `Protocol` error and closes the
  client's DoQ connection under its other streams (`doq.rs:275`).
- The transactions of connections that are closed come on top of the two limits of
  a listener until they end. `DeadConnectionsRelease` says that each ends; nothing
  bounds how many there are at a time.
- `resolve_request` and `send_error_response` of DoH3 have no timer, unlike every
  other await of a transaction: `TransactionsEnd` leaves them out, and only the end
  of the connection ends them (`README.md:388` calls the timeout "a no-progress I/O
  timeout").
- Every error of `forward_http3_request` is wrapped as `Upstream`
  (`doh3.rs:504-513`). So DoH3 reports an upstream that timed out as 502 and
  an overloaded pool as 502 and never as 503, and its 504 means that the client was
  too slow, be it in the body of its own request (`doh3.rs:437-440`), although the
  comment of the type says "Upstream did not make progress before the configured
  deadline" (`error.rs:23`). DoH says 408 of the client and 504 of the upstream.
  `BlameIsRight` states what is left.
- The phrases `send_error_response` looks for may come from the text of an
  upstream error, which quotes the URI with the client's query, so that a failure
  of the upstream can be reported as 413 or 415. `BlameIsRight` exempts that case, and
  so does not catch it.
- DoH3 records a success before it sends the answer, and if that fails, it sends
  an error response on the same stream, after the head of the first.

## Not modelled

- Bytes, names and certificates: a message, an authority or a session is a model
  value. Time is an order of events; durations are not compared.
- The connection permits of the DoT and DoH listeners, which are those of the QUIC
  listeners without streams, and the request permits of DoH. hyper runs the streams
  of an HTTP/2 connection as tasks of its own (`TokioExecutor`, `doh.rs:199`),
  outside the listener's task group, which neither waits for them nor aborts them.
- The rewriter, the choice of a certificate and the delay of the back-off: functions
  of their arguments and of tables that do not change. That a listener does not
  notice the cancellation while it sleeps is in `AppLifecycle`.
- A second `start` on the same `App`, and `start` after `shutdown`: `main` makes
  neither call.
- The delay between the request to abort an H3 driver and its end, in which a
  connection outlives its permit.
- Configuration and logging: they run before anything else does, and
  `StartRefused` stands for their failure. Metrics: counters that are
  independent of one another and of the rest. `src/server.rs`: a starter that
  the application does not use.
- quinn, h3, hyper, rustls, DashMap and tokio are external: the modules use of
  them what their head comments say.
