----------------------------- MODULE MCRequests -----------------------------
(***************************************************************************)
(* A small instance of Requests for TLC.                                   *)
(***************************************************************************)
EXTENDS Requests, TLC

CONSTANTS c1, s1, s2

\* The second session is there to contend for the id.
MCCalls == (Ops \X {s1}) \cup ({"register_session", "twin_create", "twin_close"} \X {s2})
=============================================================================
