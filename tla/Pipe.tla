-------------------------------- MODULE Pipe --------------------------------
(***************************************************************************)
(* What one direction of a relay promises: the destination receives what   *)
(* the source sent, in order, and is told that this was all only after it  *)
(* was.  A transfer that is cut stops, and never looks like a whole one.   *)
(*                                                                         *)
(* "A transparent bidirectional relay preserves pipelining and             *)
(* multi-message AXFR/IXFR transactions" (src/src/readers/dot.rs:277-280). *)
(***************************************************************************)
EXTENDS Naturals

VARIABLES
    sent,       \* how much the source has sent
    finished,   \* the source has said that this was all
    received,   \* how much the destination has received
    told        \* the destination was told that this was all

vars == <<sent, finished, received, told>>

Init ==
    /\ sent = 0
    /\ finished = FALSE
    /\ received = 0
    /\ told = FALSE

Send ==
    /\ ~finished
    /\ sent' = sent + 1
    /\ UNCHANGED <<finished, received, told>>

Finish ==
    /\ finished' = TRUE
    /\ UNCHANGED <<sent, received, told>>

Deliver ==
    /\ ~told
    /\ \E n \in (received + 1)..sent : received' = n
    /\ UNCHANGED <<sent, finished, told>>

Tell ==
    /\ finished
    /\ received = sent
    /\ told' = TRUE
    /\ UNCHANGED <<sent, finished, received>>

Next == Send \/ Finish \/ Deliver \/ Tell

Spec == Init /\ [][Next]_vars

-----------------------------------------------------------------------------
\* What a destination may rely on: nothing that it has was made up, and when it is
\* told that this was all, the source has said so and nothing is missing.
Faithful ==
    /\ received <= sent
    /\ told => finished /\ received = sent
=============================================================================
