-------------------------- MODULE MCHttpClientPool --------------------------
(***************************************************************************)
(* Instances of HttpClientPool for TLC: four hostnames on two shards, more *)
(* than the limit and the race beyond it can hold.                         *)
(***************************************************************************)
EXTENDS HttpClientPool

CONSTANTS n1, n2, n3, n4

FourNames == {n1, n2, n3, n4}
TwoShards == [n \in FourNames |-> IF n \in {n1, n2} THEN 1 ELSE 2]
=============================================================================
