------------------------------- MODULE Rounds -------------------------------
(***************************************************************************)
(* What a Barrier promises, without permits, versions or wakeups: rounds.  *)
(* In every round each hard stream arrives at most once; a soft stream may *)
(* refresh the round any number of times; the round ends when all hard     *)
(* streams arrived and, if there are soft streams, one of them refreshed.  *)
(*                                                                         *)
(* The loop that ends rounds may break instead of ending one (alive), which*)
(* it can only do where the round could have ended.                        *)
(***************************************************************************)
EXTENDS Naturals

CONSTANTS Hard, Soft

VARIABLES
    round,     \* the number of rounds that ended
    arrived,   \* the hard streams that arrived in this round
    fresh,     \* did a soft stream refresh this round
    alive      \* is the loop that ends rounds alive

vars == <<round, arrived, fresh, alive>>

Init ==
    /\ round = 0
    /\ arrived = {}
    /\ fresh = FALSE
    /\ alive = TRUE

Arrive(h) ==
    /\ h \notin arrived
    /\ arrived' = arrived \cup {h}
    /\ UNCHANGED <<round, fresh, alive>>

Refresh ==
    /\ Soft # {}
    /\ fresh' = TRUE
    /\ UNCHANGED <<round, arrived, alive>>

MayEnd ==
    /\ alive
    /\ arrived = Hard
    /\ Soft # {} => fresh

EndRound ==
    /\ MayEnd
    /\ round' = round + 1
    /\ arrived' = {}
    /\ fresh' = FALSE
    /\ UNCHANGED alive

Break ==
    /\ MayEnd
    /\ Soft # {}
    /\ alive' = FALSE
    /\ fresh' = FALSE
    /\ UNCHANGED <<round, arrived>>

Next ==
    \/ \E h \in Hard : Arrive(h)
    \/ Refresh
    \/ EndRound
    \/ Break

Spec == Init /\ [][Next]_vars
=============================================================================
