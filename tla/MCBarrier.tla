----------------------------- MODULE MCBarrier -----------------------------
(***************************************************************************)
(* Small instances of Barrier for TLC.                                     *)
(***************************************************************************)
EXTENDS Barrier, TLC
=============================================================================
