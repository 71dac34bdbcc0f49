----------------------------- MODULE MCRuntime -----------------------------
(***************************************************************************)
(* Small instances of Runtime for TLC: a main loop, and a consumer that    *)
(* gathers the components of its dtype.                                    *)
(***************************************************************************)
EXTENDS Runtime, TLC

CONSTANTS main, consumer

MCChildren == [t \in Task |-> IF t = consumer THEN Comp ELSE {}]
=============================================================================
