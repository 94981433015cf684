------------------------------ MODULE Timeouts ------------------------------
(***************************************************************************)
(* limits.transaction_timeout_seconds, the timer around every read, write  *)
(* and connect of a transaction: "a no-progress I/O timeout"               *)
(* (README.md:388).  Time is counted in ticks.                             *)
(***************************************************************************)
EXTENDS Naturals

CONSTANT IdleTimeout   \* limits.transaction_timeout_seconds, in ticks

\* Validation refuses a limit of zero.
ASSUME TimeoutAssumption == IdleTimeout \in Nat \ {0}
=============================================================================
