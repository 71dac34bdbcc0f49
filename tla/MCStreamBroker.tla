--------------------------- MODULE MCStreamBroker ---------------------------
(***************************************************************************)
(* Small instances of StreamBroker for TLC.                                *)
(***************************************************************************)
EXTENDS StreamBroker, TLC

CONSTANTS c1, c2, c3, p1, p2
=============================================================================
