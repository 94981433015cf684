--------------------------- MODULE HttpClientPool ---------------------------
(***************************************************************************)
(* ConnectionPool::get_client of src/src/upstream/pool.rs: one HTTP client *)
(* per rewritten hostname, in a DashMap bounded by max_clients.            *)
(*                                                                         *)
(* get_client does not await, so its calls interleave as threads do.  The  *)
(* DashMap is external: a table of shards, each behind its own lock, of    *)
(* which the code needs three facts.  A lookup and len() wait for nobody   *)
(* that does not itself finish at once.  An iterator keeps the read lock   *)
(* of the shard it stands on for as long as it lives.  remove() and        *)
(* entry() wait for the write lock of the shard of their key.              *)
(***************************************************************************)
EXTENDS Naturals, FiniteSets

CONSTANTS
    Calls,        \* threads that call get_client, again and again
    Names,        \* rewritten hostnames
    Shard,        \* the shard of each name
    MaxClients,   \* limits.max_upstream_pool_entries
    None          \* no name, no client

\* Validation refuses a limit of zero, and a process has finitely many threads.
ASSUME HttpClientPoolAssumption ==
    /\ MaxClients \in Nat \ {0}
    /\ IsFiniteSet(Calls)
    /\ DOMAIN Shard = Names
    /\ None \notin Names \cup Calls

VARIABLES
    pc,        \* where each call is
    name,      \* the hostname it asks for
    victim,    \* the key its iterator stands on
    clients,   \* per hostname, the client: named after the call that made it
    got        \* the client the call returned

vars == <<pc, name, victim, clients, got>>

Size == Cardinality({n \in Names : clients[n] # None})

\* A read lock on shard s that outlives a step.  The iterator of
\* `if let Some(key) = self.clients.iter().next().map(..)` is a temporary of
\* the scrutinee: it is dropped after the body, and so after remove().
ReadLocked(s) == \E c \in Calls : pc[c] = "remove" /\ Shard[victim[c]] = s

Goto(c, from, to) == pc[c] = from /\ pc' = [pc EXCEPT ![c] = to]

Init ==
    /\ pc = [c \in Calls |-> "idle"]
    /\ name = [c \in Calls |-> None]
    /\ victim = [c \in Calls |-> None]
    /\ clients = [n \in Names |-> None]
    /\ got = [c \in Calls |-> None]

Ask(c, n) ==
    /\ Goto(c, "idle", "lookup")
    /\ name' = [name EXCEPT ![c] = n]
    /\ UNCHANGED <<victim, clients, got>>

LookupHit(c) ==
    /\ Goto(c, "lookup", "using")
    /\ clients[name[c]] # None
    /\ got' = [got EXCEPT ![c] = clients[name[c]]]
    /\ UNCHANGED <<name, victim, clients>>

LookupMiss(c) ==
    /\ Goto(c, "lookup", "measure")
    /\ clients[name[c]] = None
    /\ UNCHANGED <<name, victim, clients, got>>

\* Mutant: the limit compared the wrong way at the boundary.
HasRoom_OffByOne(c) ==
    /\ Goto(c, "measure", "insert")
    /\ Size <= MaxClients
    /\ UNCHANGED <<name, victim, clients, got>>

\* len() < max_clients
HasRoom(c) ==
    /\ Goto(c, "measure", "insert")
    /\ Size < MaxClients
    /\ UNCHANGED <<name, victim, clients, got>>

\* Otherwise some entry is to go, whichever iter() yields first.
PickVictim(c) ==
    /\ Goto(c, "measure", "remove")
    /\ Size >= MaxClients
    /\ \E n \in Names : clients[n] # None /\ victim' = [victim EXCEPT ![c] = n]
    /\ UNCHANGED <<name, clients, got>>

\* Mutant: insert replaces what is there.
Stored_Replacing(c) ==
    [clients EXCEPT ![name[c]] = c]

\* What the write puts in the map: remove(&key), or entry(sni).or_insert_with.
Stored(c) ==
    IF clients[name[c]] # None THEN clients ELSE [clients EXCEPT ![name[c]] = c]

Removed(c) == [clients EXCEPT ![victim[c]] = None]

\* Both writes wait for the write lock of the shard of their key.
Write(c) ==
    /\ pc[c] \in {"remove", "insert"}
    /\ ~ReadLocked(Shard[IF pc[c] = "remove" THEN victim[c] ELSE name[c]])
    /\ clients' = IF pc[c] = "remove" THEN Removed(c) ELSE Stored(c)
    /\ pc' = [pc EXCEPT ![c] = IF @ = "remove" THEN "insert" ELSE "read"]
    /\ victim' = [victim EXCEPT ![c] = None]
    /\ UNCHANGED <<name, got>>

\* The second lookup; the client just made if the entry is gone again.
ReadBack(c) ==
    /\ Goto(c, "read", "using")
    /\ got' = [got EXCEPT ![c] =
                  IF clients[name[c]] # None THEN clients[name[c]] ELSE c]
    /\ UNCHANGED <<name, victim, clients>>

Done(c) ==
    /\ Goto(c, "using", "idle")
    /\ name' = [name EXCEPT ![c] = None]
    /\ got' = [got EXCEPT ![c] = None]
    /\ UNCHANGED <<victim, clients>>

GetClient(c) ==
    \/ LookupHit(c)
    \/ LookupMiss(c)
    \/ HasRoom(c)
    \/ PickVictim(c)
    \/ Write(c)
    \/ ReadBack(c)

Next ==
    \E c \in Calls :
        \/ \E n \in Names : Ask(c, n)
        \/ GetClient(c)
        \/ Done(c)

Spec == Init /\ [][Next]_vars

\* A thread runs until it blocks on a lock, and a lock that is free again and
\* again is taken in the end.
FairSpec == Spec /\ \A c \in Calls : SF_vars(GetClient(c))

-----------------------------------------------------------------------------
\* Every variable has its type.
TypeOK ==
    /\ pc \in [Calls -> {"idle", "lookup", "measure", "remove", "insert", "read", "using"}]
    /\ name \in [Calls -> Names \cup {None}]
    /\ victim \in [Calls -> Names \cup {None}]
    /\ clients \in [Names -> Calls \cup {None}]
    /\ got \in [Calls -> Calls \cup {None}]

\* The length check and the insert are not one step, but concurrent misses
\* exceed the limit by less than there are threads.
SizeWithinRace == Size < MaxClients + Cardinality(Calls)

\* Calls that miss on one hostname at the same time end up with one client
\* between them, and so share its keep-alive connections
\* (src/src/upstream/http.rs:30-31), until it is evicted.  It never is: see
\* EvictionEnds.
OneClientPerName ==
    \A c, d \in Calls :
        pc[c] = "using" /\ pc[d] = "using" /\ name[c] = name[d] => got[c] = got[d]

\* What the comment in get_client says of the limit: "bound attacker-controlled
\* rewritten hostnames" by "evicting an arbitrary idle entry"
\* (src/src/upstream/pool.rs:81-83).  A call that finds the map full evicts an
\* entry and goes on.
EvictionEnds ==
    \A c \in Calls : pc[c] = "remove" ~> pc[c] # "remove"
=============================================================================
