--------------------------- MODULE MCQuicListener ---------------------------
(***************************************************************************)
(* An instance of QuicListener for TLC: a connection with two streams, of  *)
(* which one waits for the permit of the other, and a connection that      *)
(* waits for the permit of the first.                                      *)
(***************************************************************************)
EXTENDS QuicListener, TLC

CONSTANTS c1, c2, s1, s2, s3

MCCarrier == (s1 :> c1) @@ (s2 :> c1) @@ (s3 :> c2)
=============================================================================
