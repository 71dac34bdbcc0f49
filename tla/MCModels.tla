------------------------------ MODULE MCModels ------------------------------
(***************************************************************************)
(* Small instances of Models for TLC.                                      *)
(***************************************************************************)
EXTENDS Models, TLC

CONSTANTS a, i1, i2, d, k1, k2
=============================================================================
