---------------------------- MODULE TwinLifecycle ---------------------------
(***************************************************************************)
(* What a host sees of one twin: its state, the error it reports, and      *)
(* whether it is down.  A twin that stops or fails never leaves that state,*)
(* a failure keeps the error that caused it, and a twin that stopped or    *)
(* failed goes down, once and for good.                                    *)
(***************************************************************************)
CONSTANTS
    Error,      \* what may go wrong
    NoError

VARIABLES
    state,       \* "ready", "running", "stopped" or "failed"
    last_error,  \* the error the twin reports
    down         \* has everything the twin runs been torn down

vars == <<state, last_error, down>>

Open == {"ready", "running"}
Terminal == {"stopped", "failed"}

Init ==
    /\ state = "ready"
    /\ last_error = NoError
    /\ down = FALSE

Start ==
    /\ state \in Open
    /\ state' = "running"
    /\ UNCHANGED <<last_error, down>>

Stop ==
    /\ state \in Open
    /\ state' = "stopped"
    /\ UNCHANGED <<last_error, down>>

Fail(e) ==
    /\ state \in Open
    /\ state' = "failed"
    /\ last_error' = e
    /\ UNCHANGED down

\* An error while or after a stopped twin comes down is kept for inspection.
Note(e) ==
    /\ state = "stopped"
    /\ last_error' = e
    /\ UNCHANGED <<state, down>>

\* The last part of the teardown may itself go wrong.
GoDown ==
    /\ state \in Terminal
    /\ ~down
    /\ down' = TRUE
    /\ \/ UNCHANGED last_error
       \/ state = "stopped" /\ last_error' \in Error
    /\ UNCHANGED state

Next ==
    \/ Start
    \/ Stop
    \/ \E e \in Error : Fail(e) \/ Note(e)
    \/ GoDown

Spec == Init /\ [][Next]_vars

\* A twin that stopped or failed does go down.
FairSpec == Spec /\ WF_vars(GoDown)
=============================================================================
