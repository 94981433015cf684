-------------------------- MODULE UpstreamCapacity --------------------------
(***************************************************************************)
(* What a bounded upstream connection pool promises, whatever it caches    *)
(* and whomever it evicts: at most Max slots are reserved at any moment,   *)
(* a requester only borrows a slot that is reserved, and a slot is given   *)
(* back to the capacity only when nobody borrows it any more.              *)
(*                                                                         *)
(* This is the contract the comment above QuicConnectionPool states ("a    *)
(* permit is acquired before name resolution or a handshake begins") and   *)
(* the comment inside QuicConnectionLease states ("keep capacity reserved  *)
(* until the final in-flight borrower exits").  QuicPool implements it.    *)
(***************************************************************************)
EXTENDS Naturals, FiniteSets

CONSTANTS
    Requests,   \* the transactions that use the pool
    Slots,      \* identities of slots (one PoolSlot each)
    Max,        \* the capacity
    None        \* "borrows nothing"

VARIABLES
    reserved,   \* the slots that count against the capacity
    borrowed    \* the slot each request borrows

vars == <<reserved, borrowed>>

Unborrowed == {x \in reserved : \A r \in Requests : borrowed[r] # x}

Init ==
    /\ reserved = {}
    /\ borrowed = [r \in Requests |-> None]

\* Capacity is taken before anything is resolved, connected or shared.
Reserve(x) ==
    /\ x \notin reserved
    /\ Cardinality(reserved) < Max
    /\ reserved' = reserved \cup {x}
    /\ UNCHANGED borrowed

\* A request starts to use a reserved slot; slots that nobody uses may be
\* given back in the same step (a cached session it replaces).
Borrow(r, x, gone) ==
    /\ borrowed[r] = None
    /\ gone \subseteq Unborrowed
    /\ x \in reserved \ gone
    /\ borrowed' = [borrowed EXCEPT ![r] = x]
    /\ reserved' = reserved \ gone

\* A request stops using its slot, which is given back at once if the
\* request was its last user and nothing else keeps it.
Return(r, gone) ==
    /\ borrowed[r] # None
    /\ gone \subseteq {x \in {borrowed[r]} :
                          \A q \in Requests \ {r} : borrowed[q] # x}
    /\ borrowed' = [borrowed EXCEPT ![r] = None]
    /\ reserved' = reserved \ gone

\* Slots that nobody uses are given back.
Reclaim(gone) ==
    /\ gone \subseteq Unborrowed
    /\ reserved' = reserved \ gone
    /\ UNCHANGED borrowed

Next ==
    \/ \E x \in Slots : Reserve(x)
    \/ \E r \in Requests, x \in Slots, gone \in SUBSET reserved : Borrow(r, x, gone)
    \/ \E r \in Requests, gone \in SUBSET reserved : Return(r, gone)
    \/ \E gone \in SUBSET reserved : Reclaim(gone)

Spec == Init /\ [][Next]_vars

-----------------------------------------------------------------------------
\* What a client of the contract may rely on: no more than Max slots count, and one
\* that is borrowed counts for as long as it is.
CapacityHolds ==
    /\ Cardinality(reserved) <= Max
    /\ \A r \in Requests : borrowed[r] # None => borrowed[r] \in reserved
=============================================================================
