-------------------------- MODULE MCSharedSubtask --------------------------
(***************************************************************************)
(* Small instances of SharedSubtask for TLC.                               *)
(***************************************************************************)
EXTENDS SharedSubtask, TLC

SharedSymmetry ==
    Permutations(Internal) \cup Permutations(Caller \ Internal) \cup Permutations(Key)
=============================================================================
