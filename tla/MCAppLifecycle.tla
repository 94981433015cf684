--------------------------- MODULE MCAppLifecycle ---------------------------
(***************************************************************************)
(* Instances of AppLifecycle for TLC: two listeners, the first over TCP.   *)
(***************************************************************************)
EXTENDS AppLifecycle

CONSTANTS doh, doq

TwoListeners == <<doh, doq>>
TwoClosers == {"app", "listener"}
=============================================================================
