---------------------------- MODULE TwinRegistry ----------------------------
(***************************************************************************)
(* What the service promises about the ids of twins, whichever session and *)
(* client uses them: a twin is registered under its id from its creation   *)
(* until it is closed, no two twins have an id at the same time, and no    *)
(* twin comes back.  That a session closes its twins before it forgets     *)
(* them, and a request the other way round, is left open here.             *)
(***************************************************************************)
CONSTANTS
    Twin,
    Id

VARIABLES
    name,        \* per twin, its id
    known,       \* the twins created so far
    registered,  \* the twins that a call with their id reaches
    closing      \* the twins whose close() has begun, or is over

vars == <<name, known, registered, closing>>

Init ==
    /\ name \in [Twin -> Id]
    /\ known = {}
    /\ registered = {}
    /\ closing = {}

Create(t, i) ==
    /\ t \notin known
    /\ \A u \in registered : name[u] # i
    /\ name' = [name EXCEPT ![t] = i]
    /\ known' = known \cup {t}
    /\ registered' = registered \cup {t}
    /\ UNCHANGED closing

\* A close() begins, once for a twin that can be reached.
Close(t) ==
    /\ t \in registered \ closing
    /\ closing' = closing \cup {t}
    /\ registered' \in {registered, registered \ {t}}
    /\ UNCHANGED <<name, known>>

\* Twins that were not forgotten at once are forgotten in the end.
Forget(T) ==
    /\ T \subseteq registered \cap closing
    /\ registered' = registered \ T
    /\ UNCHANGED <<name, known, closing>>

Next ==
    \/ \E t \in Twin, i \in Id : Create(t, i)
    \/ \E t \in Twin : Close(t)
    \/ \E T \in SUBSET registered : Forget(T)

Spec == Init /\ [][Next]_vars
=============================================================================
