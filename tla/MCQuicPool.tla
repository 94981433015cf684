----------------------------- MODULE MCQuicPool -----------------------------
(***************************************************************************)
(* Instances of QuicPool for TLC.  There are more lease identities than    *)
(* permits, so that it is the semaphore that bounds the pool and not the   *)
(* model, and more requests than permits, so that requests are refused.    *)
(***************************************************************************)
EXTENDS QuicPool, TLC

Symmetry == Permutations(Requests) \cup Permutations(Keys) \cup Permutations(Leases)
=============================================================================
