------------------------------ MODULE QuicPool ------------------------------
(***************************************************************************)
(* The bounded upstream QUIC caches of src/src/upstream/quic_pool.rs:      *)
(* QuicConnectionPool (DoQ) and Http3ConnectionPool (DoH3).  Both have the *)
(* same shape, `get`, `acquire_slot` and `invalidate` over a mutex-guarded *)
(* map and a semaphore of max_entries permits, and differ in how they see  *)
(* that a session is dead: the DoQ pool asks the connection itself         *)
(* (close_reason), the H3 pool reads a flag that a driver task clears some *)
(* time after the connection closed.  DriverFlag selects the H3 variant.   *)
(*                                                                         *)
(* A step is what a request does between two points where another task or  *)
(* thread can intervene: the body of one critical section, one semaphore   *)
(* operation, one drop that happens outside the lock, the end of one await.*)
(*                                                                         *)
(* A lease identity x \in Leases stands for one Arc<PoolSlot> together     *)
(* with the session later built under it.  Its strong count is the number  *)
(* of places that refer to it: the cache, a request that reserved it       *)
(* (own), borrows it (lease) or holds it between evicting and dropping it  *)
(* (hand).  Its permit returns to the semaphore with the last of them.     *)
(***************************************************************************)
EXTENDS Naturals, FiniteSets

CONSTANTS
    Requests,     \* transactions that call the pool (DoQ streams, DoH3 requests)
    Keys,         \* upstream authorities (hostname and port)
    Leases,       \* identities of slots and of the sessions built under them
    MaxEntries,   \* limits.max_upstream_pool_entries
    DriverFlag,   \* TRUE: Http3ConnectionPool; FALSE: QuicConnectionPool
    None          \* no lease, no key

ASSUME QuicPoolAssumption ==
    /\ MaxEntries \in Nat
    /\ DriverFlag \in BOOLEAN
    /\ None \notin Leases
    /\ None \notin Keys

VARIABLES
    pc,           \* where each request is in get / forward
    target,       \* the authority each request asks for
    own,          \* the slot a request reserved and has not published
    lease,        \* the lease a request borrows
    hand,         \* the entry a request evicted and has not dropped yet
    entries,      \* the cache
    older,        \* <<j, k>>: entry j was used less recently than entry k
    free,         \* available permits of the semaphore
    authority,    \* whom a slot was reserved for
    status        \* the connection under a slot

vars == <<pc, target, own, lease, hand, entries, older, free, authority, status>>

-----------------------------------------------------------------------------
\* Reading the state

\* The requests that refer to x, and the leases somebody refers to.
Borrowers(x) == {r \in Requests : x \in {own[r], lease[r], hand[r]}}
Cached(x) == \E k \in Keys : entries[k] = x
Live == {x \in Leases : Cached(x) \/ Borrowers(x) # {}}

\* is_idle: the cache holds the only reference.
IsIdle(x) == Borrowers(x) = {}

\* is_alive (H3: the flag of the driver) or close_reason().is_none() (DoQ).
IsAlive(x) ==
    IF DriverFlag THEN status[x] \in {"open", "closed"} ELSE status[x] = "open"

\* "if let Some(entry) = entries.get_mut(&key) && entry is alive"
Hit(k) == entries[k] # None /\ IsAlive(entries[k])

\* Mutant: the permit tied to each borrower instead of to the shared Arc.
LastHeldBy_EachBorrower(r, x) == {x} \ {None}

\* The leases whose last reference goes when r lets go of x, and when the
\* cache lets go of the entries of the keys K.
LastHeldBy(r, x) == {y \in {x} \ {None} : ~Cached(y) /\ Borrowers(y) \subseteq {r}}
OnlyCached(K) == {x \in {entries[k] : k \in K} \ {None} : IsIdle(x)}

-----------------------------------------------------------------------------
\* Changing it

\* The last reference to the leases in gone is dropped: the connection is
\* closed, the driver aborted and the permit released.
Drop(gone) ==
    /\ free' = free + Cardinality(gone)
    /\ status' = [x \in Leases |-> IF x \in gone THEN "none" ELSE status[x]]
    /\ authority' = [x \in Leases |-> IF x \in gone THEN None ELSE authority[x]]

\* entry.last_used = Instant::now()
Touch(k) ==
    older' = {p \in older : k \notin {p[1], p[2]}}
                \cup {<<j, k>> : j \in {i \in Keys \ {k} : entries[i] # None}}

\* entries.remove / entries.retain
RemoveEntries(K) ==
    /\ entries' = [k \in Keys |-> IF k \in K THEN None ELSE entries[k]]
    /\ older' = {p \in older : p[1] \notin K /\ p[2] \notin K}

Goto(r, from, to) == pc[r] = from /\ pc' = [pc EXCEPT ![r] = to]

-----------------------------------------------------------------------------
Init ==
    /\ pc = [r \in Requests |-> "idle"]
    /\ target = [r \in Requests |-> None]
    /\ own = [r \in Requests |-> None]
    /\ lease = [r \in Requests |-> None]
    /\ hand = [r \in Requests |-> None]
    /\ entries = [k \in Keys |-> None]
    /\ older = {}
    /\ free = MaxEntries
    /\ authority = [x \in Leases |-> None]
    /\ status = [x \in Leases |-> "none"]

\* A transaction asks for a session to the authority k.
Start(r, k) ==
    /\ Goto(r, "idle", "lookup")
    /\ target' = [target EXCEPT ![r] = k]
    /\ UNCHANGED <<own, lease, hand, entries, older, free, authority, status>>

\* First critical section of get: reuse the cached session ...
LookupHit(r) ==
    /\ Goto(r, "lookup", "using")
    /\ Hit(target[r])
    /\ lease' = [lease EXCEPT ![r] = entries[target[r]]]
    /\ Touch(target[r])
    /\ UNCHANGED <<target, own, hand, entries, free, authority, status>>

\* ... or remove the entry, dead or absent, and go for a slot.
LookupMiss(r) ==
    /\ Goto(r, "lookup", "acquire")
    /\ ~Hit(target[r])
    /\ RemoveEntries({target[r]})
    /\ Drop(OnlyCached({target[r]}))
    /\ UNCHANGED <<target, own, lease, hand>>

\* Mutant: a permit taken without asking whether one is available.
TakePermit_Unchecked(r) ==
    /\ \E x \in Leases \ Live :
          /\ own' = [own EXCEPT ![r] = x]
          /\ authority' = [authority EXCEPT ![x] = target[r]]
    /\ free' = free - 1
    /\ UNCHANGED <<target, lease, hand, entries, older, status>>

\* Mutant: the permit bound to `_` and so dropped at once.
TakePermit_DroppedAtOnce(r) ==
    /\ free > 0
    /\ \E x \in Leases \ Live :
          /\ own' = [own EXCEPT ![r] = x]
          /\ authority' = [authority EXCEPT ![x] = target[r]]
    /\ UNCHANGED <<target, lease, hand, entries, older, free, status>>

\* A successful try_acquire_owned, wrapped in a new PoolSlot.
TakePermit(r) ==
    /\ free > 0
    /\ \E x \in Leases \ Live :
          /\ own' = [own EXCEPT ![r] = x]
          /\ authority' = [authority EXCEPT ![x] = target[r]]
    /\ free' = free - 1
    /\ UNCHANGED <<target, lease, hand, entries, older, status>>

\* acquire_slot: the first attempt.
Acquire(r) ==
    /\ Goto(r, "acquire", "recheck")
    /\ TakePermit(r)

AcquireFull(r) ==
    /\ Goto(r, "acquire", "evict")
    /\ free = 0
    /\ UNCHANGED <<target, own, lease, hand, entries, older, free, authority, status>>

\* acquire_slot, the critical section: forget every dead entry, then take the
\* least recently used of the live idle ones out of the map, if there is one.
Dead == {k \in Keys : entries[k] # None /\ ~Hit(k)}

\* Mutant: .filter(is_idle) is dropped, the least recently used entry is evicted.
Evictable_Unasked == {k \in Keys : Hit(k)}

Evictable == {k \in Keys : Hit(k) /\ IsIdle(entries[k])}
LeastRecent(k) == \A j \in Evictable \ {k} : <<k, j>> \in older

EvictIdle(r) ==
    /\ Goto(r, "evict", "evicted")
    /\ \E k \in Evictable :
          /\ LeastRecent(k)
          /\ hand' = [hand EXCEPT ![r] = entries[k]]
          /\ RemoveEntries(Dead \cup {k})
    /\ Drop(OnlyCached(Dead))
    /\ UNCHANGED <<target, own, lease>>

EvictNothing(r) ==
    /\ Goto(r, "evict", "reacquire")
    /\ Evictable = {}
    /\ RemoveEntries(Dead)
    /\ Drop(OnlyCached(Dead))
    /\ UNCHANGED <<target, own, lease, hand>>

\* drop(evicted), after the lock was released: another request may take the
\* permit before this one tries again.
DropEvicted(r) ==
    /\ Goto(r, "evicted", "reacquire")
    /\ hand' = [hand EXCEPT ![r] = None]
    /\ Drop(LastHeldBy(r, hand[r]))
    /\ UNCHANGED <<target, own, lease, entries, older>>

\* acquire_slot: the second attempt ...
Reacquire(r) ==
    /\ Goto(r, "reacquire", "recheck")
    /\ TakePermit(r)

\* Mutant: try again until a permit is there.
Overloaded_Retries(r) ==
    /\ Goto(r, "reacquire", "evict")
    /\ free = 0
    /\ UNCHANGED <<target, own, lease, hand, entries, older, free, authority, status>>

\* ... and DnsProxyError::Overloaded.
Overloaded(r) ==
    /\ Goto(r, "reacquire", "idle")
    /\ free = 0
    /\ target' = [target EXCEPT ![r] = None]
    /\ UNCHANGED <<own, lease, hand, entries, older, free, authority, status>>

\* Second critical section of get: another request may have published a
\* session in the meantime.
RecheckHit(r) ==
    /\ Goto(r, "recheck", "surplus")
    /\ Hit(target[r])
    /\ lease' = [lease EXCEPT ![r] = entries[target[r]]]
    /\ Touch(target[r])
    /\ UNCHANGED <<target, own, hand, entries, free, authority, status>>

RecheckMiss(r) ==
    /\ Goto(r, "recheck", "connect")
    /\ ~Hit(target[r])
    /\ UNCHANGED <<target, own, lease, hand, entries, older, free, authority, status>>

\* lookup_host, connect_quic_upstream and, for H3, h3::client::new.
ConnectOk(r) ==
    /\ Goto(r, "connect", "publish")
    /\ status' = [status EXCEPT ![own[r]] = "open"]
    /\ UNCHANGED <<target, own, lease, hand, entries, older, free, authority>>

\* Any of them fails, or the future is dropped at one of get's awaits: by the
\* timeout around get, or by the abort of the task that runs it.  The session
\* and the slot go with it.
Abandon(r) ==
    /\ pc[r] \in {"lookup", "evict", "recheck", "connect", "publish"}
    /\ pc' = [pc EXCEPT ![r] = "idle"]
    /\ target' = [target EXCEPT ![r] = None]
    /\ own' = [own EXCEPT ![r] = None]
    /\ Drop(LastHeldBy(r, own[r]))
    /\ UNCHANGED <<lease, hand, entries, older>>

\* Third critical section of get: a session published by another request wins ...
PublishHit(r) ==
    /\ Goto(r, "publish", "surplus")
    /\ Hit(target[r])
    /\ lease' = [lease EXCEPT ![r] = entries[target[r]]]
    /\ Touch(target[r])
    /\ UNCHANGED <<target, own, hand, entries, free, authority, status>>

\* Mutant: no look at the entry another request may have published.
PublishInsert_Blindly(r) ==
    /\ Goto(r, "publish", "using")
    /\ entries' = [entries EXCEPT ![target[r]] = own[r]]
    /\ lease' = [lease EXCEPT ![r] = own[r]]
    /\ own' = [own EXCEPT ![r] = None]
    /\ Touch(target[r])
    /\ Drop(OnlyCached({target[r]}))
    /\ UNCHANGED <<target, hand>>

\* ... or the new session is inserted, over a dead one if there is one.
PublishInsert(r) ==
    /\ Goto(r, "publish", "using")
    /\ ~Hit(target[r])
    /\ entries' = [entries EXCEPT ![target[r]] = own[r]]
    /\ lease' = [lease EXCEPT ![r] = own[r]]
    /\ own' = [own EXCEPT ![r] = None]
    /\ Touch(target[r])
    /\ Drop(OnlyCached({target[r]}))
    /\ UNCHANGED <<target, hand>>

\* On a late hit the request's own session and slot are dropped as get
\* returns, after the lock was released.
DropSurplus(r) ==
    /\ Goto(r, "surplus", "using")
    /\ own' = [own EXCEPT ![r] = None]
    /\ Drop(LastHeldBy(r, own[r]))
    /\ UNCHANGED <<target, lease, hand, entries, older>>

-----------------------------------------------------------------------------
\* The callers: forward_quic_stream and forward_http3_request

\* The request fails in a way that makes its caller invalidate the authority.
UseFails(r) ==
    /\ Goto(r, "using", "invalidate")
    /\ UNCHANGED <<target, own, lease, hand, entries, older, free, authority, status>>

\* invalidate removes whatever is cached for the authority by now, which
\* need not be the session that failed.
Invalidate(r) ==
    /\ Goto(r, "invalidate", "failed")
    /\ RemoveEntries({target[r]})
    /\ Drop(OnlyCached({target[r]}))
    /\ UNCHANGED <<target, own, lease, hand>>

\* The transaction ends, with an answer, an error or its task's abort, and
\* drops its lease.
Finish(r) ==
    /\ pc[r] \in {"using", "invalidate", "failed"}
    /\ pc' = [pc EXCEPT ![r] = "idle"]
    /\ target' = [target EXCEPT ![r] = None]
    /\ lease' = [lease EXCEPT ![r] = None]
    /\ Drop(LastHeldBy(r, lease[r]))
    /\ UNCHANGED <<own, hand, entries, older>>

-----------------------------------------------------------------------------
\* The network, and the H3 driver task

\* A connection closes: the peer, its idle timeout or an error of the network.
ConnectionCloses(x) ==
    /\ status[x] = "open"
    /\ status' = [status EXCEPT ![x] = "closed"]
    /\ UNCHANGED <<pc, target, own, lease, hand, entries, older, free, authority>>

\* The driver sees poll_close return and clears the flag.
DriverEnds(x) ==
    /\ DriverFlag
    /\ status[x] = "closed"
    /\ status' = [status EXCEPT ![x] = "dead"]
    /\ UNCHANGED <<pc, target, own, lease, hand, entries, older, free, authority>>

-----------------------------------------------------------------------------
Get(r) ==
    \/ LookupHit(r)
    \/ LookupMiss(r)
    \/ Acquire(r)
    \/ AcquireFull(r)
    \/ EvictIdle(r)
    \/ EvictNothing(r)
    \/ DropEvicted(r)
    \/ Reacquire(r)
    \/ Overloaded(r)
    \/ RecheckHit(r)
    \/ RecheckMiss(r)
    \/ ConnectOk(r)
    \/ Abandon(r)
    \/ PublishHit(r)
    \/ PublishInsert(r)
    \/ DropSurplus(r)

Use(r) ==
    \/ UseFails(r)
    \/ Invalidate(r)
    \/ Finish(r)

Network(x) == ConnectionCloses(x) \/ DriverEnds(x)

Next ==
    \/ \E r \in Requests, k \in Keys : Start(r, k)
    \/ \E r \in Requests : Get(r) \/ Use(r)
    \/ \E x \in Leases : Network(x)

Spec == Init /\ [][Next]_vars

\* The runtime polls every request that can make progress, and the timeout
\* around get ends a lookup or a handshake that does not.  Nothing is assumed
\* of how long a transaction uses its session.
FairSpec == Spec /\ \A r \in Requests : WF_vars(Get(r))

-----------------------------------------------------------------------------
\* Type invariant.

PCs == {"idle", "lookup", "acquire", "evict", "evicted", "reacquire", "recheck",
        "connect", "publish", "surplus", "using", "invalidate", "failed"}

\* Every variable has its type.
TypeOK ==
    /\ pc \in [Requests -> PCs]
    /\ target \in [Requests -> Keys \cup {None}]
    /\ own \in [Requests -> Leases \cup {None}]
    /\ lease \in [Requests -> Leases \cup {None}]
    /\ hand \in [Requests -> Leases \cup {None}]
    /\ entries \in [Keys -> Leases \cup {None}]
    /\ older \subseteq Keys \X Keys
    /\ free \in Nat
    /\ authority \in [Leases -> Keys \cup {None}]
    /\ status \in [Leases -> {"none", "open", "closed", "dead"}]

-----------------------------------------------------------------------------
\* Safety

\* Permits are neither leaked nor minted: whatever is cancelled, evicted,
\* invalidated, refused or superseded by another request, the available ones
\* and the slots still referred to add up to max_entries.
PermitsConserved ==
    /\ Cardinality(Live) <= MaxEntries
    /\ free = MaxEntries - Cardinality(Live)

\* The cache never answers for one authority with a session to another, and
\* never keeps the slot of a request that is still connecting.
CacheIsConsistent ==
    \A k \in Keys : entries[k] # None =>
        /\ authority[entries[k]] = k
        /\ status[entries[k]] # "none"
        /\ \A r \in Requests : entries[k] \notin {own[r], hand[r]}

\* Two requests that connect to one authority at the same time never take the
\* place of each other's live session, and one that is short of a permit never evicts
\* a session that somebody uses, although requests come to it between the failed
\* try_acquire and the lock: a live session leaves the cache only when nobody
\* borrows it, or by the invalidation of its authority.
LiveSessionNotDisplaced ==
    [][\A k \in Keys : Hit(k) /\ entries'[k] # entries[k] =>
          /\ entries'[k] = None
          /\ \/ Borrowers(entries[k]) = {}
             \/ \E r \in Requests : pc[r] = "invalidate" /\ target[r] = k]_vars

-----------------------------------------------------------------------------
\* Liveness

\* Every get returns, with a session or an error, whatever other requests
\* steal between its two attempts to get a permit.
GetReturns ==
    \A r \in Requests :
        pc[r] = "lookup" ~> pc[r] \in {"idle", "using"}

-----------------------------------------------------------------------------
\* Refinement

Contract == INSTANCE UpstreamCapacity
                WITH Slots <- Leases, Max <- MaxEntries,
                     reserved <- Live, borrowed <- lease

\* The pool keeps the contract of a bounded resource.
KeepsContract == Contract!Spec
=============================================================================
