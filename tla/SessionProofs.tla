--------------------------- MODULE SessionProofs ---------------------------
(***************************************************************************)
(* Proofs about Session, for any sessions, twin ids and number of twins.   *)
(***************************************************************************)
EXTENDS Session, TLAPS

(***************************************************************************)
(* The invariant follows a twin from its registration to the end of its    *)
(* close(), and a session through its own close().                         *)
(***************************************************************************)

\* Nothing is known of a twin before it is created.
FreshInv ==
    \A t \in Twin : t > created =>
        /\ init[t] = "none" /\ runtime[t] = "none" /\ infer[t] = "none"
        /\ closing[t] = "no" /\ closer[t] = "none"

\* The registry of a session holds its own twins under their own ids ...
RegistryInv ==
    \A s \in Sid, i \in TwinId : twins[s][i] # NoTwin =>
        LET t == twins[s][i] IN t <= created /\ home[t] = s /\ name[t] = i

\* ... and all of them that nobody closes.
OpenInv == \A t \in Twin : t <= created /\ closing[t] = "no" => Registered(t)

\* A twin that is being closed has a closer, and no way to a runtime any more.
CloseInv ==
    \A t \in Twin :
        /\ closing[t] = "no" <=> closer[t] = "none"
        /\ closing[t] # "no" /\ init[t] # "done" => t \in doomed
        /\ closing[t] = "done" => runtime[t] \in {"none", "down"}

\* The close() of a session: its registered twins are open until it begins, then
\* they are to be closed or are closed by it; in the end no twin is left but
\* those that requests closed, and no engine is handed over any more.
SessionInv ==
    \A s \in Sid :
        /\ active[s] <=> sclose[s] = "open"
        /\ active[s] => \A t \in Twin : Registered(t) /\ home[t] = s => closing[t] = "no"
        /\ sclose[s] # "twins" => todo[s] = {}
        /\ \A t \in todo[s] : t <= created /\ home[t] = s /\ closing[t] = "no"
        /\ sclose[s] = "twins" =>
             \A t \in Twin : Registered(t) /\ home[t] = s =>
                t \in todo[s] \/ closer[t] = "session"
        /\ sclose[s] \in {"draining", "closed"} =>
             \A t \in Twin : t <= created /\ home[t] = s =>
                closer[t] = "request" \/ closing[t] = "done"
        /\ engine[s] = "up" => sclose[s] # "closed"
        /\ engine[s] = "down" => sclose[s] = "closed"

TwinInv ==
    /\ TypeOK
    /\ FreshInv
    /\ RegistryInv
    /\ OpenInv
    /\ CloseInv
    /\ SessionInv
    /\ InferenceCancelled

-----------------------------------------------------------------------------
\* A session with no twins has none to lose.
LEMMA TwinInit == Init => TwinInv
<1> SUFFICES ASSUME Init PROVE TwinInv
  OBVIOUS
<1>1. TypeOK
  BY SessionAssumption DEF Init, TypeOK, Twin, NoTwin
<1>2. \A t \in Twin : ~Registered(t)
  BY <1>1 DEF Init, Registered, TypeOK, Twin, NoTwin
<1> QED
  BY <1>1, <1>2, SessionAssumption
     DEF Init, TwinInv, FreshInv, RegistryInv, OpenInv, CloseInv, SessionInv,
         InferenceCancelled, Twin, NoTwin

\* The state always has its types, and an id is registered in one session.
LEMMA TypeNext == TypeOK /\ RegistryInv /\ [Next]_vars => TypeOK'
<1> SUFFICES ASSUME TypeOK, RegistryInv, [Next]_vars PROVE TypeOK'
  OBVIOUS
<1> USE DEF TypeOK, sessVars, instVars, initVars
<1>1. ASSUME NEW s \in Sid, NEW i \in TwinId, TwinCreate(s, i) PROVE TypeOK'
  BY <1>1, SessionAssumption DEF TwinCreate, Unowned, Twin, NoTwin
<1>2. ASSUME NEW t \in Twin, NEW who \in {"request", "session"}, BeginClose(t, who)
      PROVE  /\ doomed' \subseteq Twin
             /\ infer' \in [Twin -> {"none", "running", "cancelled"}]
             /\ closing' \in [Twin -> {"no", "waiting", "stopping", "done"}]
             /\ closer' \in [Twin -> {"none", "request", "session"}]
  BY <1>2 DEF BeginClose, Cancelled
<1>3. ASSUME NEW s \in Sid, NEW i \in TwinId, TwinClose(s, i) PROVE TypeOK'
  <2>1. twins[s][i] \in Twin
    BY <1>3 DEF TwinClose
  <2> QED
    BY <1>2, <1>3, <2>1 DEF TwinClose
<1>4. ASSUME NEW t \in Twin, InitStep(t) PROVE TypeOK'
  <2>1. CASE InitBegins(t)
    BY <2>1 DEF InitBegins
  <2>2. CASE InitGotEngine(t)
    BY <2>2 DEF InitGotEngine
  <2>3. CASE InitReady(t)
    BY <2>3 DEF InitReady
  <2>4. CASE InitRaises(t)
    BY <2>4 DEF InitRaises, InitFailed
  <2>5. CASE InitTimesOut(t)
    BY <2>5 DEF InitTimesOut, InitFailed
  <2>6. CASE InitCancelled(t)
    <3>1. CASE InitFailed(t)
      BY <3>1 DEF InitFailed
    <3>2. CASE init' = [init EXCEPT ![t] = "done"] /\ ~InitFailed(t)
      BY <2>6, <3>2 DEF InitCancelled
    <3> QED
      BY <2>6, <3>1, <3>2 DEF InitCancelled
  <2> QED
    BY <1>4, <2>1, <2>2, <2>3, <2>4, <2>5, <2>6 DEF InitStep
<1>5. ASSUME NEW t \in Twin, CloseStep(t) PROVE TypeOK'
  <2>1. CASE CloseProceeds(t)
    BY <2>1 DEF CloseProceeds
  <2>2. CASE CloseEnds(t)
    BY <2>2 DEF CloseEnds
  <2> QED
    BY <1>5, <2>1, <2>2 DEF CloseStep, CloseWaited, CloseGivesUp
<1>6. ASSUME NEW t \in Twin,
             RuntimeStops(t) \/ RuntimeDown(t) \/ InferBegins(t) \/ InferEnds(t)
      PROVE  TypeOK'
  <2>1. CASE RuntimeStops(t)
    BY <2>1 DEF RuntimeStops
  <2>2. CASE RuntimeDown(t)
    BY <2>2 DEF RuntimeDown
  <2>3. CASE InferBegins(t)
    BY <2>3 DEF InferBegins
  <2>4. CASE InferEnds(t)
    BY <2>4 DEF InferEnds
  <2> QED
    BY <1>6, <2>1, <2>2, <2>3, <2>4
<1>7. ASSUME NEW s \in Sid,
             EngineFails(s) \/ EngineBuilt(s) \/ EngineDisposed(s)
      PROVE  TypeOK'
  <2>1. CASE EngineFails(s)
    BY <2>1 DEF EngineFails, Raised
  <2>2. CASE EngineBuilt(s)
    BY <2>2 DEF EngineBuilt
  <2>3. CASE EngineDisposed(s)
    BY <2>3 DEF EngineDisposed, Raised
  <2> QED
    BY <1>7, <2>1, <2>2, <2>3
<1>8. ASSUME NEW s \in Sid, SessionClose(s) PROVE TypeOK'
  BY <1>8 DEF SessionClose
<1>9. ASSUME NEW s \in Sid, SessionStep(s) PROVE TypeOK'
  <2>1. ASSUME NEW t \in Twin, SessionClosesTwin(s, t) PROVE TypeOK'
    BY <1>2, <2>1 DEF SessionClosesTwin
  <2>2. CASE SessionDrains(s)
    BY <2>2 DEF SessionDrains, NoTwin
  <2>3. CASE SessionShutsEngine(s)
    BY <2>3 DEF SessionShutsEngine
  <2> QED
    BY <1>9, <2>1, <2>2, <2>3 DEF SessionStep
<1>10. CASE UNCHANGED vars
  BY <1>10 DEF vars
<1> QED
  BY <1>1, <1>3, <1>4, <1>5, <1>6, <1>7, <1>8, <1>9, <1>10 DEF Next

-----------------------------------------------------------------------------
\* A session forgets its twins when all of them are closed, or a request closes them.
LEMMA DrainKeeps ==
    ASSUME TwinInv, TypeOK', NEW s \in Sid, SessionDrains(s)
    PROVE  /\ TwinInv'
           /\ \A t \in Twin : Registered(t)' <=> Registered(t) /\ home[t] # s
           /\ \A t \in Twin : t <= created /\ home[t] = s => closing[t] # "no"
<1> USE DEF instVars, initVars
<1>0. TypeOK /\ FreshInv /\ RegistryInv /\ OpenInv /\ CloseInv /\ SessionInv
  BY DEF TwinInv
<1>1. /\ \A t \in Twin : t # NoTwin
      /\ UNCHANGED <<active, engine, todo, instVars, initVars, runtime, infer, closing, closer>>
      /\ sclose[s] = "twins" /\ todo[s] = {}
  BY DEF SessionDrains, TwinsClosed, Twin, NoTwin
<1>2. \A t \in Twin : Registered(t)' <=> Registered(t) /\ home[t] # s
  BY <1>0, <1>1 DEF SessionDrains, Registered, TypeOK
<1>3. ASSUME NEW t \in Twin, t <= created, home[t] = s
      PROVE  closing[t] # "no" /\ (closer[t] = "request" \/ closing[t] = "done")
  <2>1. closing[t] = "no" => closer[t] = "session"
    BY <1>0, <1>1, <1>3 DEF OpenInv, SessionInv
  <2>2. closing[t] # "no" /\ closer[t] \in {"request", "session"}
    BY <1>0, <2>1 DEF CloseInv, TypeOK
  <2> QED
    BY <1>3, <2>2 DEF SessionDrains, TwinsClosed
<1>4. RegistryInv'
  BY <1>0, <1>1 DEF SessionDrains, RegistryInv, TypeOK
<1>5. OpenInv'
  BY <1>0, <1>1, <1>2, <1>3 DEF OpenInv
<1>6. SessionInv'
  <2> SUFFICES ASSUME NEW r \in Sid PROVE SessionInv!(r)'
    BY DEF SessionInv
  <2>1. CASE r = s
    BY <1>0, <1>1, <1>2, <1>3, <2>1 DEF SessionDrains, SessionInv, TypeOK
  <2>2. CASE r # s
    BY <1>0, <1>1, <1>2, <2>2 DEF SessionDrains, SessionInv, TypeOK
  <2> QED
    BY <2>1, <2>2
<1> QED
  BY <1>1, <1>2, <1>3, <1>4, <1>5, <1>6 DEF TwinInv, FreshInv, CloseInv, InferenceCancelled

-----------------------------------------------------------------------------
\* A new twin is registered, and nobody closes it yet.
LEMMA CreateKeeps ==
    ASSUME TwinInv, TypeOK', NEW s \in Sid, NEW i \in TwinId, TwinCreate(s, i)
    PROVE  TwinInv' /\ \A u \in Twin : Registered(u)' <=> Registered(u) \/ u = created + 1
<1>t. PICK t : t = created + 1
  OBVIOUS
<1>0. TypeOK /\ FreshInv /\ RegistryInv /\ OpenInv /\ CloseInv /\ SessionInv /\ InferenceCancelled
  BY DEF TwinInv
<1>1. /\ t \in Twin /\ t > created /\ t # NoTwin
      /\ \A u \in Twin : u <= t <=> u <= created \/ u = t
  BY <1>0, <1>t DEF TwinCreate, TypeOK, Twin, NoTwin
<1>2. created' = t /\ home'[t] = s /\ name'[t] = i /\ twins'[s][i] = t /\ init'[t] = "new"
  BY <1>0, <1>1, <1>t DEF TwinCreate, TypeOK
<1>3. \A u \in Twin : u # t =>
         home'[u] = home[u] /\ name'[u] = name[u] /\ init'[u] = init[u]
  BY <1>0, <1>1, <1>t DEF TwinCreate, TypeOK
<1>4. \A r \in Sid, j \in TwinId : r # s \/ j # i => twins'[r][j] = twins[r][j]
  BY <1>0 DEF TwinCreate, TypeOK
<1>5. /\ UNCHANGED <<active, engine, sclose, todo, doomed, runtime, infer, closing, closer>>
      /\ active[s] /\ twins[s][i] = NoTwin
  BY DEF TwinCreate, Unowned
<1>n. created \in Nat /\ t \in Nat /\ \A u \in Twin : u \in Nat
  BY <1>0, <1>1 DEF TypeOK, Twin
<1>6. \A u \in Twin : home[u] \in Sid /\ name[u] \in TwinId /\ u # NoTwin
  <2>1. \A u \in Twin : u # NoTwin
    BY DEF Twin, NoTwin
  <2> QED
    BY <1>0, <2>1 DEF TypeOK
<1>7. \A r \in Sid, j \in TwinId : twins[r][j] # t
  BY <1>0, <1>1, <1>n DEF RegistryInv
<1>8. \A u \in Twin : u # t => (Registered(u)' <=> Registered(u))
  BY <1>1, <1>2, <1>3, <1>4, <1>5, <1>6 DEF Registered
<1>9. Registered(t)'
  BY <1>1, <1>2, <1>n DEF Registered
<1>10. ~Registered(t)
  BY <1>1, <1>6, <1>7, <1>n DEF Registered
<1>11. FreshInv'
  BY <1>0, <1>1, <1>2, <1>3, <1>5, <1>n DEF FreshInv
<1>12. RegistryInv'
  <2> SUFFICES ASSUME NEW r \in Sid, NEW j \in TwinId, twins'[r][j] # NoTwin
               PROVE  /\ twins'[r][j] <= created'
                      /\ home'[twins'[r][j]] = r /\ name'[twins'[r][j]] = j
    BY DEF RegistryInv
  <2>1. CASE r = s /\ j = i
    BY <1>1, <1>2, <2>1
  <2>2. CASE r # s \/ j # i
    <3>1. twins'[r][j] = twins[r][j] /\ twins[r][j] \in Twin
      BY <1>0, <1>4, <2>2 DEF TypeOK
    <3>2. twins[r][j] <= created /\ home[twins[r][j]] = r /\ name[twins[r][j]] = j
      BY <1>0, <3>1 DEF RegistryInv
    <3> QED
      BY <1>1, <1>2, <1>3, <1>7, <3>1, <3>2
  <2> QED
    BY <2>1, <2>2
<1>13. OpenInv'
  <2> SUFFICES ASSUME NEW u \in Twin, u <= t, closing[u] = "no", u # t
               PROVE  Registered(u)'
    BY <1>2, <1>5, <1>9 DEF OpenInv
  <2>1. u <= created
    BY <1>1
  <2> QED
    BY <1>0, <1>8, <2>1 DEF OpenInv
<1>14. CloseInv'
  <2>1. closing[t] = "no"
    BY <1>0, <1>1 DEF FreshInv
  <2> QED
    BY <1>0, <1>3, <1>5, <2>1 DEF CloseInv
<1>15. SessionInv'
  <2> SUFFICES ASSUME NEW r \in Sid PROVE SessionInv!(r)'
    BY DEF SessionInv
  <2>1. closing[t] = "no" /\ sclose[s] = "open"
    BY <1>0, <1>1, <1>5 DEF FreshInv, SessionInv
  <2>2. \A u \in Twin : u # t =>
           (u <= created' <=> u <= created) /\ home'[u] = home[u]
           /\ (Registered(u)' <=> Registered(u))
    BY <1>1, <1>2, <1>3, <1>8
  <2>3. todo[r] \subseteq Twin \ {t}
    <3>1. todo[r] \subseteq Twin /\ \A u \in todo[r] : u <= created
      BY <1>0 DEF SessionInv, TypeOK
    <3> QED
      BY <1>1, <1>n, <3>1
  <2>4. CASE r = s
    BY <1>0, <1>5, <2>1, <2>2, <2>3, <2>4 DEF SessionInv
  <2>5. CASE r # s
    BY <1>0, <1>2, <1>5, <2>2, <2>3, <2>5 DEF SessionInv
  <2> QED
    BY <2>4, <2>5
<1>16. InferenceCancelled'
  BY <1>0, <1>5 DEF InferenceCancelled
<1> QED
  BY <1>t, <1>8, <1>9, <1>11, <1>12, <1>13, <1>14, <1>15, <1>16 DEF TwinInv

\* What closes a twin makes it somebody's: nothing else is known to close it.
LEMMA BeginKeeps ==
    ASSUME TwinInv, TypeOK', NEW t \in Twin, t <= created,
           NEW who \in {"request", "session"}, closing[t] = "no",
           BeginClose(t, who), UNCHANGED <<instVars, init, status, runtime>>
    PROVE  /\ FreshInv' /\ CloseInv' /\ InferenceCancelled'
           /\ closing'[t] = "waiting" /\ closer'[t] = who
           /\ \A u \in Twin : u # t => closing'[u] = closing[u] /\ closer'[u] = closer[u]
<1> USE DEF instVars
<1>0. TypeOK /\ FreshInv /\ CloseInv /\ InferenceCancelled
  BY DEF TwinInv
<1>1. /\ closing'[t] = "waiting" /\ closer'[t] = who
      /\ \A u \in Twin : u # t => closing'[u] = closing[u] /\ closer'[u] = closer[u]
  BY <1>0 DEF BeginClose, TypeOK
<1>2. /\ infer'[t] # "running"
      /\ \A u \in Twin : u # t => infer'[u] = infer[u]
  BY <1>0 DEF BeginClose, TypeOK
<1>3. /\ doomed \subseteq doomed' /\ (init[t] # "done" => t \in doomed')
  BY DEF BeginClose, Cancelled
<1>4. FreshInv'
  BY <1>0, <1>1, <1>2 DEF FreshInv, TypeOK, Twin
<1>5. CloseInv'
  BY <1>0, <1>1, <1>3 DEF CloseInv
<1>6. InferenceCancelled'
  BY <1>0, <1>1, <1>2 DEF InferenceCancelled
<1> QED
  BY <1>1, <1>4, <1>5, <1>6

\* A request forgets the twin it closes.
LEMMA CloseKeeps ==
    ASSUME TwinInv, TypeOK', NEW s \in Sid, NEW i \in TwinId, TwinClose(s, i)
    PROVE  /\ TwinInv'
           /\ twins[s][i] \in Twin /\ Registered(twins[s][i])
           /\ closing[twins[s][i]] = "no" /\ closing'[twins[s][i]] = "waiting"
           /\ \A u \in Twin : Registered(u)' <=> Registered(u) /\ u # twins[s][i]
           /\ \A u \in Twin : u # twins[s][i] => closing'[u] = closing[u]
<1>t. PICK t : t = twins[s][i]
  OBVIOUS
<1> USE DEF instVars
<1>0. TypeOK /\ RegistryInv /\ OpenInv /\ SessionInv
  BY DEF TwinInv
<1>1. t \in Twin /\ t # NoTwin /\ t <= created /\ home[t] = s /\ name[t] = i
  <2>1. t \in Twin /\ t # NoTwin
    BY <1>0, <1>t DEF TwinClose, TypeOK
  <2> QED
    BY <1>0, <1>t, <2>1 DEF RegistryInv
<1>2. Registered(t) /\ active[s]
  BY <1>1, <1>t DEF Registered, TwinClose
<1>3. closing[t] = "no"
  BY <1>0, <1>1, <1>2 DEF SessionInv
<1>4. /\ twins'[s][i] = NoTwin
      /\ \A r \in Sid, j \in TwinId : r # s \/ j # i => twins'[r][j] = twins[r][j]
  BY <1>0 DEF TwinClose, TypeOK
<1>5. BeginClose(t, "request") /\ UNCHANGED <<active, engine, sclose, todo, instVars, init, status, runtime>>
  BY <1>t DEF TwinClose
<1>6. /\ FreshInv' /\ CloseInv' /\ InferenceCancelled'
      /\ closing'[t] = "waiting" /\ closer'[t] = "request"
      /\ \A u \in Twin : u # t => closing'[u] = closing[u] /\ closer'[u] = closer[u]
  BY <1>1, <1>3, <1>5, BeginKeeps
<1>7. \A u \in Twin : home[u] \in Sid /\ name[u] \in TwinId /\ u # NoTwin
  <2>1. \A u \in Twin : u # NoTwin
    BY DEF Twin, NoTwin
  <2> QED
    BY <1>0, <2>1 DEF TypeOK
<1>8. \A u \in Twin : Registered(u)' <=> Registered(u) /\ u # t
  <2>1. \A u \in Twin : home[u] = s /\ name[u] = i /\ Registered(u) => u = t
    BY <1>t DEF Registered
  <2> QED
    BY <1>1, <1>4, <1>5, <1>7, <2>1 DEF Registered
<1>9. RegistryInv'
  BY <1>0, <1>4, <1>5 DEF RegistryInv
<1>10. OpenInv'
  BY <1>0, <1>5, <1>6, <1>8 DEF OpenInv
<1>11. SessionInv'
  <2> SUFFICES ASSUME NEW r \in Sid PROVE SessionInv!(r)'
    BY DEF SessionInv
  <2>1. t \notin todo[r] /\ todo[r] \subseteq Twin
    <3>1. todo[r] \subseteq Twin /\ \A u \in todo[r] : home[u] = r
      BY <1>0 DEF SessionInv, TypeOK
    <3>2. todo[s] = {}
      BY <1>0, <1>2 DEF SessionInv
    <3> QED
      BY <1>1, <3>1, <3>2
  <2> QED
    BY <1>0, <1>5, <1>6, <1>8, <2>1 DEF SessionInv
<1>12. TwinInv'
  BY <1>6, <1>9, <1>10, <1>11 DEF TwinInv
<1> QED
  BY <1>t, <1>1, <1>2, <1>3, <1>6, <1>8, <1>12

\* The session's close() takes the twins that are registered when it begins.
LEMMA EndKeeps ==
    ASSUME TwinInv, TypeOK', NEW s \in Sid, SessionClose(s)
    PROVE  TwinInv'
<1> USE DEF instVars, initVars
<1>0. TypeOK /\ FreshInv /\ RegistryInv /\ OpenInv /\ CloseInv /\ SessionInv /\ InferenceCancelled
  BY DEF TwinInv
<1>1. UNCHANGED <<twins, engine, instVars, initVars, runtime, infer, closing, closer>>
  BY DEF SessionClose
<1>2. /\ active[s] /\ ~active'[s] /\ sclose'[s] = "twins"
      /\ todo'[s] = {t \in Twin : Registered(t) /\ home[t] = s}
      /\ \A r \in Sid : r # s =>
            active'[r] = active[r] /\ sclose'[r] = sclose[r] /\ todo'[r] = todo[r]
  BY <1>0 DEF SessionClose, TypeOK
<1>3. \A t \in Twin : /\ Registered(t)' <=> Registered(t)
                      /\ Registered(t) => t <= created
  BY <1>1 DEF Registered
<1>4. FreshInv' /\ RegistryInv' /\ CloseInv' /\ InferenceCancelled'
  BY <1>0, <1>1 DEF FreshInv, RegistryInv, CloseInv, InferenceCancelled
<1>5. OpenInv'
  BY <1>0, <1>1, <1>3 DEF OpenInv
<1>6. SessionInv'
  <2> SUFFICES ASSUME NEW r \in Sid PROVE SessionInv!(r)'
    BY DEF SessionInv
  <2>1. CASE r = s
    <3>1. \A t \in todo'[s] : t <= created /\ home[t] = s /\ closing[t] = "no"
      BY <1>0, <1>2, <1>3 DEF SessionInv
    <3>2. engine[s] # "down"
      BY <1>0, <1>2 DEF SessionInv
    <3> QED
      BY <1>1, <1>2, <1>3, <2>1, <3>1, <3>2
  <2>2. CASE r # s
    BY <1>0, <1>1, <1>2, <1>3, <2>2 DEF SessionInv
  <2> QED
    BY <2>1, <2>2
<1> QED
  BY <1>4, <1>5, <1>6 DEF TwinInv

\* It closes one of them after the other.
LEMMA ClosesKeeps ==
    ASSUME TwinInv, TypeOK', NEW s \in Sid, NEW t \in Twin, SessionClosesTwin(s, t)
    PROVE  TwinInv'
<1> USE DEF instVars
<1>0. TypeOK /\ RegistryInv /\ OpenInv /\ SessionInv
  BY DEF TwinInv
<1>1. t \in todo[s] /\ t <= created /\ home[t] = s /\ closing[t] = "no" /\ sclose[s] = "twins"
  BY <1>0 DEF SessionInv, SessionClosesTwin
<1>2. /\ BeginClose(t, "session")
      /\ UNCHANGED <<active, twins, engine, sclose, instVars, init, status, runtime>>
  BY DEF SessionClosesTwin
<1>3. /\ todo'[s] = todo[s] \ {t}
      /\ \A r \in Sid : r # s => todo'[r] = todo[r] /\ t \notin todo[r]
  BY <1>0, <1>1 DEF SessionClosesTwin, SessionInv, TypeOK
<1>4. /\ FreshInv' /\ CloseInv' /\ InferenceCancelled'
      /\ closing'[t] = "waiting" /\ closer'[t] = "session"
      /\ \A u \in Twin : u # t => closing'[u] = closing[u] /\ closer'[u] = closer[u]
  BY <1>1, <1>2, BeginKeeps
<1>5. \A u \in Twin : Registered(u)' <=> Registered(u)
  BY <1>2 DEF Registered
<1>6. RegistryInv' /\ OpenInv'
  BY <1>0, <1>2, <1>4, <1>5 DEF RegistryInv, OpenInv
<1>7. SessionInv'
  <2> SUFFICES ASSUME NEW r \in Sid PROVE SessionInv!(r)'
    BY DEF SessionInv
  <2>1. CASE r = s
    <3>1. todo[s] \subseteq Twin /\ ~active[s]
      BY <1>0, <1>1 DEF TypeOK, SessionInv
    <3> QED
      BY <1>0, <1>1, <1>2, <1>3, <1>4, <1>5, <2>1, <3>1 DEF SessionInv
  <2>2. CASE r # s
    <3>1. todo[r] \subseteq Twin
      BY <1>0 DEF TypeOK
    <3> QED
      BY <1>0, <1>1, <1>2, <1>3, <1>4, <1>5, <2>2, <3>1 DEF SessionInv
  <2> QED
    BY <2>1, <2>2
<1> QED
  BY <1>4, <1>6, <1>7 DEF TwinInv

\* A step that opens, registers and hands over nothing to a close leaves the
\* registry as it was: a close() in progress goes on, an engine is handed over
\* to an open session only.
LEMMA RegistryStands ==
    ASSUME TwinInv, UNCHANGED <<active, twins, sclose, todo, created, home, name, closer>>,
           \A t \in Twin : /\ closing'[t] = "no" <=> closing[t] = "no"
                           /\ closing[t] = "done" => closing'[t] = "done",
           \A s \in Sid : \/ engine'[s] = engine[s] \/ engine'[s] \notin {"up", "down"}
                          \/ engine'[s] = "up" /\ active[s]
    PROVE  RegistryInv' /\ OpenInv' /\ SessionInv'
<1>0. TypeOK /\ RegistryInv /\ OpenInv /\ SessionInv
  BY DEF TwinInv
<1>1. \A t \in Twin : Registered(t)' <=> Registered(t)
  BY DEF Registered
<1>2. RegistryInv' /\ OpenInv'
  BY <1>0, <1>1 DEF RegistryInv, OpenInv
<1>3. SessionInv'
  <2> SUFFICES ASSUME NEW r \in Sid PROVE SessionInv!(r)'
    BY DEF SessionInv
  <2>1. todo[r] \subseteq Twin
    BY <1>0 DEF TypeOK
  <2>2. /\ engine'[r] = "up" => sclose[r] # "closed"
        /\ engine'[r] = "down" => sclose[r] = "closed"
    BY <1>0 DEF SessionInv
  <2> QED
    BY <1>0, <1>1, <2>1, <2>2 DEF SessionInv
<1> QED
  BY <1>2, <1>3

\* A step of a twin's initialization closes nothing, and a twin once done with it
\* stays so.
LEMMA InitKeeps ==
    ASSUME TwinInv, TypeOK',
           UNCHANGED <<active, twins, sclose, todo, created, home, name, doomed, infer,
                       closing, closer>>,
           \A s \in Sid : \/ engine'[s] = engine[s] \/ engine'[s] \notin {"up", "down"}
                          \/ engine'[s] = "up" /\ active[s],
           \A t \in Twin : /\ init[t] = "none" => init'[t] = "none"
                           /\ init[t] = "done" => init'[t] = "done",
           \A t \in Twin : \/ runtime'[t] = runtime[t]
                           \/ runtime[t] # "none" /\ runtime'[t] = "down"
                           \/ runtime[t] = "up" /\ runtime'[t] = "stopping"
                           \/ init[t] = "stream" /\ t \notin doomed
    PROVE  TwinInv'
<1>0. TypeOK /\ FreshInv /\ CloseInv /\ InferenceCancelled
  BY DEF TwinInv
<1>1. RegistryInv' /\ OpenInv' /\ SessionInv'
  BY RegistryStands
<1>2. FreshInv'
  <2> SUFFICES ASSUME NEW t \in Twin, t > created
               PROVE  init'[t] = "none" /\ runtime'[t] = "none"
    BY <1>0 DEF FreshInv
  <2> QED
    BY <1>0 DEF FreshInv
<1>3. CloseInv'
  <2> SUFFICES ASSUME NEW t \in Twin PROVE CloseInv!(t)'
    BY DEF CloseInv
  <2>1. closing[t] = "done" => runtime'[t] \in {"none", "down"}
    BY <1>0 DEF CloseInv
  <2> QED
    BY <1>0, <2>1 DEF CloseInv
<1>4. InferenceCancelled'
  BY <1>0 DEF InferenceCancelled
<1> QED
  BY <1>1, <1>2, <1>3, <1>4 DEF TwinInv

\* The engine is shut down after the twins are gone.
LEMMA ShutKeeps ==
    ASSUME TwinInv, TypeOK', NEW s \in Sid, SessionShutsEngine(s)
    PROVE  TwinInv'
<1> USE DEF instVars, initVars
<1>0. TypeOK /\ FreshInv /\ RegistryInv /\ OpenInv /\ CloseInv /\ SessionInv /\ InferenceCancelled
  BY DEF TwinInv
<1>1. UNCHANGED <<active, twins, todo, instVars, initVars, runtime, infer, closing, closer>>
  BY DEF SessionShutsEngine
<1>2. /\ sclose[s] = "draining" /\ sclose'[s] = "closed"
      /\ engine'[s] # "up" /\ (engine'[s] = "down" => sclose'[s] = "closed")
      /\ \A r \in Sid : r # s => sclose'[r] = sclose[r] /\ engine'[r] = engine[r]
  BY <1>0 DEF SessionShutsEngine, TypeOK
<1>3. \A t \in Twin : Registered(t)' <=> Registered(t)
  BY <1>1 DEF Registered
<1>4. FreshInv' /\ RegistryInv' /\ CloseInv' /\ InferenceCancelled'
  BY <1>0, <1>1 DEF FreshInv, RegistryInv, CloseInv, InferenceCancelled
<1>5. OpenInv'
  BY <1>0, <1>1, <1>3 DEF OpenInv
<1>6. SessionInv'
  <2> SUFFICES ASSUME NEW r \in Sid PROVE SessionInv!(r)'
    BY DEF SessionInv
  <2>1. CASE r = s
    BY <1>0, <1>1, <1>2, <1>3, <2>1 DEF SessionInv
  <2>2. CASE r # s
    BY <1>0, <1>1, <1>2, <1>3, <2>2 DEF SessionInv
  <2> QED
    BY <2>1, <2>2
<1> QED
  BY <1>4, <1>5, <1>6 DEF TwinInv

\* Every step of a create, a close, the session's end or an inference keeps track
\* of all twins.
LEMMA TwinNext == TwinInv /\ [Next]_vars => TwinInv'
<1> SUFFICES ASSUME TwinInv, [Next]_vars PROVE TwinInv'
  OBVIOUS
<1> USE DEF sessVars, instVars, initVars
<1>0. TypeOK' /\ TypeOK
  BY TypeNext DEF TwinInv
<1>1. ASSUME NEW s \in Sid, NEW i \in TwinId, TwinCreate(s, i) PROVE TwinInv'
  BY <1>0, <1>1, CreateKeeps
<1>2. ASSUME NEW s \in Sid, NEW i \in TwinId, TwinClose(s, i) PROVE TwinInv'
  BY <1>0, <1>2, CloseKeeps
<1>3. ASSUME NEW t \in Twin, InitBegins(t) PROVE TwinInv'
  <2>1. \A s \in Sid : engine'[s] = engine[s] \/ engine'[s] = "building"
    BY <1>0, <1>3 DEF InitBegins, TypeOK
  <2>2. \A u \in Twin : init'[u] = init[u] \/ init[u] = "new"
    BY <1>0, <1>3 DEF InitBegins, TypeOK
  <2> QED
    BY <1>0, <1>3, <2>1, <2>2, InitKeeps DEF InitBegins
<1>4. ASSUME NEW t \in Twin, InitGotEngine(t) PROVE TwinInv'
  <2>1. \A u \in Twin : init'[u] = init[u] \/ init[u] = "engine"
    BY <1>0, <1>4 DEF InitGotEngine, TypeOK
  <2> QED
    BY <1>0, <1>4, <2>1, InitKeeps DEF InitGotEngine
<1>5. ASSUME NEW t \in Twin, InitReady(t) PROVE TwinInv'
  <2>1. \A u \in Twin : u = t \/ (init'[u] = init[u] /\ runtime'[u] = runtime[u])
    BY <1>0, <1>5 DEF InitReady, TypeOK
  <2>2. init[t] = "stream" /\ t \notin doomed
    BY <1>5 DEF InitReady
  <2> QED
    BY <1>0, <1>5, <2>1, <2>2, InitKeeps DEF InitReady
<1>6. ASSUME NEW t \in Twin, InitFailed(t), init[t] \in {"engine", "raising", "stream"}
      PROVE  TwinInv'
  <2>1. \A u \in Twin : init'[u] = init[u] \/ init[u] \in {"engine", "raising", "stream"}
    BY <1>0, <1>6 DEF InitFailed, TypeOK
  <2> QED
    BY <1>0, <1>6, <2>1, InitKeeps DEF InitFailed
<1>7. ASSUME NEW t \in Twin, InitRaises(t) \/ InitTimesOut(t) PROVE TwinInv'
  BY <1>6, <1>7 DEF InitRaises, InitTimesOut
<1>8. ASSUME NEW t \in Twin, InitCancelled(t) PROVE TwinInv'
  <2>1. CASE ~InitFailed(t)
    <3>1. \A u \in Twin : init'[u] = init[u] \/ init[u] = "new"
      BY <1>0, <1>8, <2>1 DEF InitCancelled, TypeOK
    <3> QED
      BY <1>0, <1>8, <2>1, <3>1, InitKeeps DEF InitCancelled
  <2>2. CASE InitFailed(t) /\ init[t] \in {"engine", "raising", "stream"}
    BY <1>6, <2>2
  <2>3. CASE InitFailed(t) /\ init[t] = "new" /\ init' = [init EXCEPT ![t] = "done"]
    BY <1>0, <1>8, <2>3, InitKeeps DEF InitFailed, TypeOK
  <2> QED
    BY <1>8, <2>1, <2>2, <2>3 DEF InitCancelled
<1>9. ASSUME NEW t \in Twin, CloseProceeds(t) PROVE TwinInv'
  <2>1. /\ closing[t] = "waiting" /\ closing'[t] = "stopping"
        /\ \A u \in Twin : u # t => closing'[u] = closing[u] /\ runtime'[u] = runtime[u]
        /\ runtime[t] = "none" <=> runtime'[t] = "none"
    BY <1>0, <1>9 DEF CloseProceeds, TypeOK
  <2>2. RegistryInv' /\ OpenInv' /\ SessionInv'
    BY <1>9, <2>1, RegistryStands DEF CloseProceeds
  <2>3. FreshInv' /\ CloseInv' /\ InferenceCancelled'
    BY <1>9, <2>1 DEF CloseProceeds, TwinInv, FreshInv, CloseInv, InferenceCancelled
  <2> QED
    BY <1>0, <2>2, <2>3 DEF TwinInv
<1>10. ASSUME NEW t \in Twin, CloseEnds(t) PROVE TwinInv'
  <2>1. /\ closing[t] = "stopping" /\ closing'[t] = "done"
        /\ \A u \in Twin : u # t => closing'[u] = closing[u]
        /\ runtime[t] \in {"none", "down"}
    BY <1>0, <1>10 DEF CloseEnds, TypeOK
  <2>2. RegistryInv' /\ OpenInv' /\ SessionInv'
    BY <1>10, <2>1, RegistryStands DEF CloseEnds
  <2>3. FreshInv' /\ CloseInv' /\ InferenceCancelled'
    BY <1>10, <2>1 DEF CloseEnds, TwinInv, FreshInv, CloseInv, InferenceCancelled
  <2> QED
    BY <1>0, <2>2, <2>3 DEF TwinInv
<1>11. ASSUME NEW t \in Twin, RuntimeStops(t) PROVE TwinInv'
  <2>1. \A u \in Twin : \/ runtime'[u] = runtime[u]
                        \/ runtime[u] = "up" /\ runtime'[u] = "stopping"
    BY <1>0, <1>11 DEF RuntimeStops, TypeOK
  <2> QED
    BY <1>0, <1>11, <2>1, InitKeeps DEF RuntimeStops
<1>12. ASSUME NEW t \in Twin, RuntimeDown(t) PROVE TwinInv'
  <2>1. \A u \in Twin : \/ runtime'[u] = runtime[u]
                        \/ runtime[u] # "none" /\ runtime'[u] = "down"
    BY <1>0, <1>12 DEF RuntimeDown, TypeOK
  <2> QED
    BY <1>0, <1>12, <2>1, InitKeeps DEF RuntimeDown
<1>13. ASSUME NEW t \in Twin, InferBegins(t) PROVE TwinInv'
  <2>1. /\ t <= created /\ Registered(t) /\ active[home[t]] /\ home[t] \in Sid
        /\ \A u \in Twin : u # t => infer'[u] = infer[u]
    BY <1>0, <1>13 DEF InferBegins, Callable, Registered, TypeOK
  <2>2. closing[t] = "no"
    BY <2>1 DEF TwinInv, SessionInv
  <2>3. RegistryInv' /\ OpenInv' /\ SessionInv'
    BY <1>13, RegistryStands DEF InferBegins
  <2>4. FreshInv'
    BY <1>0, <1>13, <2>1 DEF InferBegins, TwinInv, FreshInv, TypeOK, Twin
  <2>5. CloseInv' /\ InferenceCancelled'
    BY <1>13, <2>1, <2>2 DEF InferBegins, TwinInv, CloseInv, InferenceCancelled
  <2> QED
    BY <1>0, <2>3, <2>4, <2>5 DEF TwinInv
<1>14. ASSUME NEW t \in Twin, InferEnds(t) PROVE TwinInv'
  <2>1. \A u \in Twin : infer'[u] \in {infer[u], "none"}
    BY <1>0, <1>14 DEF InferEnds, TypeOK
  <2>2. RegistryInv' /\ OpenInv' /\ SessionInv'
    BY <1>14, RegistryStands DEF InferEnds
  <2>3. FreshInv' /\ CloseInv' /\ InferenceCancelled'
    BY <1>14, <2>1 DEF InferEnds, TwinInv, FreshInv, CloseInv, InferenceCancelled
  <2> QED
    BY <1>0, <2>2, <2>3 DEF TwinInv
<1>15. ASSUME NEW s \in Sid, EngineFails(s) \/ EngineDisposed(s) PROVE TwinInv'
  <2>1. \A r \in Sid : engine'[r] \in {engine[r], "none"}
    BY <1>0, <1>15 DEF EngineFails, EngineDisposed, TypeOK
  <2>2. init' = Raised(s)
    BY <1>15 DEF EngineFails, EngineDisposed
  <2>3. \A u \in Twin : init'[u] = init[u] \/ init[u] = "engine"
    BY <2>2 DEF Raised
  <2> QED
    BY <1>0, <1>15, <2>1, <2>3, InitKeeps DEF EngineFails, EngineDisposed
<1>16. ASSUME NEW s \in Sid, EngineBuilt(s) PROVE TwinInv'
  <2>1. \A r \in Sid : \/ engine'[r] \in {engine[r], "disposing"}
                       \/ engine'[r] = "up" /\ active[r]
    BY <1>0, <1>16 DEF EngineBuilt, Wanted, TypeOK
  <2> QED
    BY <1>0, <1>16, <2>1, InitKeeps DEF EngineBuilt
<1>18. ASSUME NEW s \in Sid, SessionClose(s) PROVE TwinInv'
  BY <1>0, <1>18, EndKeeps
<1>19. ASSUME NEW s \in Sid, NEW t \in Twin, SessionClosesTwin(s, t) PROVE TwinInv'
  BY <1>0, <1>19, ClosesKeeps
<1>20. ASSUME NEW s \in Sid, SessionDrains(s) PROVE TwinInv'
  BY <1>0, <1>20, DrainKeeps
<1>21. ASSUME NEW s \in Sid, SessionShutsEngine(s) PROVE TwinInv'
  BY <1>0, <1>21, ShutKeeps
<1>22. CASE UNCHANGED vars
  BY <1>0, <1>22, InitKeeps DEF vars
<1> QED
  BY <1>1, <1>2, <1>3, <1>4, <1>5, <1>7, <1>8, <1>9, <1>10, <1>11, <1>12, <1>13,
     <1>14, <1>15, <1>16, <1>18, <1>19, <1>20, <1>21, <1>22
     DEF Next, InitStep, CloseStep, CloseWaited, CloseGivesUp, SessionStep

-----------------------------------------------------------------------------
(***************************************************************************)
(* The sessions implement TwinRegistry.                                    *)
(***************************************************************************)
LEMMA RegistryInit == Init => R!Init
<1> SUFFICES ASSUME Init PROVE R!Init
  OBVIOUS
<1>1. TwinInv /\ created = 0
  BY TwinInit DEF Init
<1>2. \A t \in Twin : ~Registered(t) /\ closing[t] = "no"
  BY <1>1 DEF Init, Registered, Twin
<1>3. name \in [Twin -> TwinId] /\ 1..created = {}
  BY <1>1 DEF TwinInv, TypeOK
<1> QED
  BY <1>2, <1>3 DEF R!Init

\* What neither creates, closes nor forgets a twin is no step of the registry.
LEMMA RegistryStutters ==
    ASSUME UNCHANGED <<twins, created, home, name>>,
           \A t \in Twin : closing'[t] = "no" <=> closing[t] = "no"
    PROVE  UNCHANGED R!vars
BY DEF R!vars, Registered

\* A twin is created under an id that no registered twin has.
LEMMA RegistryCreates ==
    ASSUME TwinInv, TypeOK', NEW s \in Sid, NEW i \in TwinId, TwinCreate(s, i)
    PROVE  R!Next
<1>t. PICK t : t = created + 1
  OBVIOUS
<1>0. TypeOK
  BY DEF TwinInv
<1>1. t \in Twin /\ t \notin 1..created /\ 1..created' = (1..created) \cup {t}
  BY <1>0, <1>t DEF TwinCreate, TypeOK, Twin
<1>2. ASSUME NEW u \in Twin, Registered(u) PROVE name[u] # i
  <2>1. u # NoTwin
    BY DEF Twin, NoTwin
  <2>2. home[u] \in Sid
    BY <1>0 DEF TypeOK
  <2> QED
    BY <1>2, <2>1, <2>2 DEF TwinCreate, Unowned, Registered
<1>3. \A u \in Twin : Registered(u)' <=> Registered(u) \/ u = t
  BY <1>t, CreateKeeps
<1>4. name' = [name EXCEPT ![t] = i] /\ UNCHANGED closing
  BY <1>t DEF TwinCreate
<1>5. R!Create(t, i)
  <2>1. {u \in Twin : Registered(u)}' = {u \in Twin : Registered(u)} \cup {t}
    BY <1>1, <1>3
  <2> QED
    BY <1>1, <1>2, <1>4, <2>1 DEF R!Create
<1> QED
  BY <1>1, <1>5 DEF R!Next

\* A request closes a registered twin that nobody closes yet, and forgets it.
LEMMA RegistryCloses ==
    ASSUME TwinInv, TypeOK', NEW s \in Sid, NEW i \in TwinId, TwinClose(s, i)
    PROVE  R!Next
<1>t. PICK t : t = twins[s][i]
  OBVIOUS
<1>1. /\ t \in Twin /\ Registered(t) /\ closing[t] = "no" /\ closing'[t] = "waiting"
      /\ \A u \in Twin : Registered(u)' <=> Registered(u) /\ u # t
      /\ \A u \in Twin : u # t => closing'[u] = closing[u]
  BY <1>t, CloseKeeps
<1>2. {u \in Twin : Registered(u)}' = {u \in Twin : Registered(u)} \ {t}
  BY <1>1
<1>3. {u \in Twin : closing[u] # "no"}' = {u \in Twin : closing[u] # "no"} \cup {t}
  BY <1>1
<1>4. UNCHANGED <<name, created>>
  BY DEF TwinClose, instVars
<1>5. R!Close(t)
  BY <1>1, <1>2, <1>3, <1>4 DEF R!Close
<1> QED
  BY <1>1, <1>5 DEF R!Next

\* A session closes a registered twin that nobody closes yet, and keeps it for now.
LEMMA RegistryClosesLast ==
    ASSUME TwinInv, NEW s \in Sid, NEW t \in Twin, SessionClosesTwin(s, t)
    PROVE  R!Next
<1>1. t <= created /\ closing[t] = "no"
  BY DEF TwinInv, SessionInv, SessionClosesTwin
<1>2. Registered(t)
  BY <1>1 DEF TwinInv, OpenInv
<1>3. /\ closing'[t] = "waiting"
      /\ \A u \in Twin : u # t => closing'[u] = closing[u]
  BY DEF TwinInv, TypeOK, SessionClosesTwin, BeginClose
<1>4. UNCHANGED <<name, created>> /\ {u \in Twin : Registered(u)}' = {u \in Twin : Registered(u)}
  BY DEF SessionClosesTwin, instVars, Registered
<1>5. {u \in Twin : closing[u] # "no"}' = {u \in Twin : closing[u] # "no"} \cup {t}
  BY <1>3
<1>6. R!Close(t)
  BY <1>1, <1>2, <1>4, <1>5 DEF R!Close
<1> QED
  BY <1>6 DEF R!Next

\* In the end it forgets its twins, all of which are closed.
LEMMA RegistryForgets ==
    ASSUME TwinInv, TypeOK', NEW s \in Sid, SessionDrains(s)
    PROVE  R!Next
<1>1. PICK T : T = {t \in Twin : Registered(t) /\ home[t] = s}
  OBVIOUS
<1>2. /\ \A t \in Twin : Registered(t)' <=> Registered(t) /\ home[t] # s
      /\ \A t \in Twin : t <= created /\ home[t] = s => closing[t] # "no"
  BY DrainKeeps
<1>3. {t \in Twin : Registered(t)}' = {t \in Twin : Registered(t)} \ T
  BY <1>1, <1>2
<1>4. T \subseteq {t \in Twin : Registered(t)} \cap {t \in Twin : closing[t] # "no"}
  BY <1>1, <1>2 DEF Registered
<1>5. UNCHANGED <<name, created, closing>>
  BY DEF SessionDrains, instVars
<1>6. R!Forget(T)
  BY <1>3, <1>4, <1>5 DEF R!Forget
<1> QED
  BY <1>4, <1>6 DEF R!Next

\* Every step of the sessions is one of the registry, or none.
LEMMA RegistryNext == TwinInv /\ [Next]_vars => [R!Next]_(R!vars)
<1> SUFFICES ASSUME TwinInv, [Next]_vars PROVE R!Next \/ UNCHANGED R!vars
  OBVIOUS
<1> USE DEF sessVars, instVars, initVars
<1>0. TypeOK /\ TypeOK'
  BY TypeNext DEF TwinInv
<1>1. ASSUME NEW s \in Sid, NEW i \in TwinId, TwinCreate(s, i) \/ TwinClose(s, i)
      PROVE  R!Next
  BY <1>0, <1>1, RegistryCreates, RegistryCloses
<1>2. ASSUME NEW s \in Sid, NEW t \in Twin, SessionClosesTwin(s, t) PROVE R!Next
  BY <1>2, RegistryClosesLast
<1>3. ASSUME NEW s \in Sid, SessionDrains(s) PROVE R!Next
  BY <1>0, <1>3, RegistryForgets
<1>4. ASSUME NEW t \in Twin, InitStep(t) PROVE UNCHANGED R!vars
  <2>1. UNCHANGED <<twins, created, home, name, closing>>
    BY <1>4 DEF InitStep, InitBegins, InitGotEngine, InitReady, InitRaises, InitTimesOut,
                InitCancelled, InitFailed
  <2> QED
    BY <2>1, RegistryStutters
<1>5. ASSUME NEW t \in Twin, CloseStep(t) PROVE UNCHANGED R!vars
  <2>1. UNCHANGED <<twins, created, home, name>>
    BY <1>5 DEF CloseStep, CloseWaited, CloseGivesUp, CloseProceeds, CloseEnds
  <2>2. closing[t] # "no" /\ closing'[t] # "no" /\ \A u \in Twin : u # t => closing'[u] = closing[u]
    BY <1>0, <1>5 DEF CloseStep, CloseWaited, CloseGivesUp, CloseProceeds, CloseEnds, TypeOK
  <2> QED
    BY <2>1, <2>2, RegistryStutters
<1>6. ASSUME NEW t \in Twin, RuntimeStops(t) \/ RuntimeDown(t) \/ InferBegins(t) \/ InferEnds(t)
      PROVE  UNCHANGED R!vars
  <2>1. UNCHANGED <<twins, created, home, name, closing>>
    BY <1>6 DEF RuntimeStops, RuntimeDown, InferBegins, InferEnds
  <2> QED
    BY <2>1, RegistryStutters
<1>7. ASSUME NEW s \in Sid,
             \/ EngineFails(s) \/ EngineBuilt(s) \/ EngineDisposed(s)
             \/ SessionClose(s) \/ SessionShutsEngine(s)
      PROVE  UNCHANGED R!vars
  <2>1. UNCHANGED <<twins, created, home, name, closing>>
    BY <1>7 DEF EngineFails, EngineBuilt, EngineDisposed, SessionClose, SessionShutsEngine
  <2> QED
    BY <2>1, RegistryStutters
<1>8. CASE UNCHANGED vars
  BY <1>8, RegistryStutters DEF vars
<1> QED
  BY <1>1, <1>2, <1>3, <1>4, <1>5, <1>6, <1>7, <1>8 DEF Next, SessionStep

-----------------------------------------------------------------------------
\* The inductive invariant.
LEMMA TwinInvariant == Spec => []TwinInv
BY TwinInit, TwinNext, PTL DEF Spec

\* The state has its types, and a twin id is registered in one session at most.
THEOREM TypeCorrect == Spec => []TypeOK
<1>1. TwinInv => TypeOK
  BY DEF TwinInv
<1> QED
  BY <1>1, TwinInvariant, PTL

\* No twin is lost, whichever of its creation, its initialization and the close()
\* of it or of its session come in between one another.
THEOREM TwinsNotLost == Spec => []NoTwinLost
<1>1. TwinInv => NoTwinLost
  <2> SUFFICES ASSUME TwinInv, NEW t \in Twin, Alive(t), ~Registered(t)
               PROVE  closing[t] \in {"waiting", "stopping"}
    BY DEF NoTwinLost, TwinInv
  <2>1. t <= created
    BY DEF TwinInv, FreshInv, Alive, TypeOK, Twin
  <2>2. closing[t] # "no"
    BY <2>1 DEF TwinInv, OpenInv
  <2>3. closing[t] # "done"
    BY <2>2 DEF TwinInv, CloseInv, Alive
  <2> QED
    BY <2>2, <2>3 DEF TwinInv, TypeOK
<1> QED
  BY <1>1, TwinInvariant, PTL

\* The sessions together keep one registry: an id is free for a new twin only when
\* no session has it, each twin is closed once, and it is out of reach only when
\* it is being closed, or closed (twin_create, twin_close, DTSession.close).
THEOREM SessionsImplementRegistry == Spec => ImplementsRegistry
BY TwinInvariant, RegistryInit, RegistryNext, PTL DEF Spec, R!Spec, ImplementsRegistry

\* A closed session has no engine, whenever its build landed.
THEOREM EngineNotStranded == Spec => []NoStrandedEngine
<1>1. TwinInv => NoStrandedEngine
  BY DEF TwinInv, SessionInv, NoStrandedEngine
<1> QED
  BY <1>1, TwinInvariant, PTL

\* An engine is shut down after the twins that use it, but for those of which a
\* request has taken over the close().
THEOREM TwinsDownFirst == Spec => []TwinsBeforeEngine
<1>1. TwinInv => TwinsBeforeEngine
  <2> SUFFICES ASSUME TwinInv, NEW t \in Twin, t <= created,
                      engine[home[t]] = "down", Alive(t)
               PROVE  closer[t] = "request"
    BY DEF TwinsBeforeEngine
  <2>1. closer[t] = "request" \/ closing[t] = "done"
    BY DEF TwinInv, SessionInv, TypeOK
  <2>2. closing[t] # "done"
    BY DEF TwinInv, CloseInv, Alive
  <2> QED
    BY <2>1, <2>2
<1> QED
  BY <1>1, TwinInvariant, PTL

\* An inference that runs in a twin that is being closed was cancelled.
THEOREM InferencesCancelled == Spec => []InferenceCancelled
<1>1. TwinInv => InferenceCancelled
  BY DEF TwinInv
<1> QED
  BY <1>1, TwinInvariant, PTL
=============================================================================
