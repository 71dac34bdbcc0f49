------------------------- MODULE StreamBrokerProofs -------------------------
(***************************************************************************)
(* Proofs about StreamBroker, for any callers and ports, and any number of *)
(* brokers and of failures.                                                *)
(***************************************************************************)
EXTENDS StreamBroker, TLAPS

\* The lock is held by the caller that starts a broker, or by the supervisor from
\* the moment it finds the broker dead.  A caller that starts has made a broker.
LockInv ==
    /\ \A c \in Caller : caller[c] = "starting" <=> lock = c
    /\ supervisor \in {"stopping", "starting"} <=> lock = Supervisor
    /\ lock # Nobody => brokers > 0

\* Broker objects that are not made yet have no thread.
FreshInv == \A b \in Broker : b > brokers => thread[b] = "none"

\* The plugin's broker is the latest one, until the shutdown drops it; then no
\* twin asks for one any more.
LatestInv ==
    /\ down \in {"no", "sessions"} => broker = brokers
    /\ down \in {"stopping", "done"} =>
          \A c \in Caller : caller[c] \notin {"idle", "starting"}

\* Where the first broker was bound is where everything is from then on: what is
\* remembered, what was given away, and what later brokers are told to bind.
Known(p) == 1 \in Broker /\ thread[1] = "reported" /\ port[1] = p

AddressInv ==
    /\ addrs # NoPort => Known(addrs)
    /\ \A c \in Caller : got[c] # NoPort => Known(got[c])
    /\ \A b \in Broker : b \in 2..brokers => Known(conf[b])
    /\ \A b \in Broker : thread[b] = "reported" => port[b] \in Port /\ Known(port[b])

\* Before the shutdown, only the latest broker has a thread at work or a
\* subprocess, which the supervisor can see.  Once the address is known, such a
\* thread is one that the supervisor waits for; and what it stops is down.
Working(b) == thread[b] \in {"queued", "polling"}

LatestWorks ==
    /\ \A b \in Broker : Working(b) \/ proc[b] = "alive" => b = brokers
    /\ \A b \in Broker : proc[b] = "alive" => b \in held
    /\ \A b \in Broker : Working(b) /\ addrs # NoPort => supervisor = "starting"
    /\ supervisor = "stopping" => proc[brokers] # "alive" /\ ~Working(brokers)

BrokerInv ==
    /\ TypeOK
    /\ LockInv
    /\ FreshInv
    /\ LatestInv
    /\ AddressInv
    /\ down = "no" => LatestWorks
-----------------------------------------------------------------------------
\* A service that has not started its broker satisfies the invariant.
LEMMA BrokerInit == Init => BrokerInv
BY BrokerAssumption
   DEF Init, BrokerInv, TypeOK, LockInv, FreshInv, LatestInv, AddressInv, LatestWorks,
       Working, Known, Broker

\* The state always has its types.
LEMMA TypeNext == TypeOK /\ LockInv /\ FreshInv /\ [Next]_vars => TypeOK'
<1> SUFFICES ASSUME TypeOK, LockInv, FreshInv, [Next]_vars PROVE TypeOK'
  OBVIOUS
<1> USE DEF procVars, callVars
<1>0. MaxBrokers \in Nat /\ MaxFails \in Nat
  BY BrokerAssumption
<1> USE DEF TypeOK, LockInv, FreshInv, Broker
<1>1. ASSUME NEW b \in Broker, ThreadSpawns(b) PROVE TypeOK'
  BY <1>0, <1>1 DEF ThreadSpawns
<1>2. ASSUME NEW b \in Broker, ThreadReports(b) PROVE TypeOK'
  BY <1>0, <1>2 DEF ThreadReports
<1>3. ASSUME NEW b \in Broker, ThreadFails(b) PROVE TypeOK'
  BY <1>0, <1>3 DEF ThreadFails, Reaped
<1>4. ASSUME NEW b \in Broker, ProcDies(b) PROVE TypeOK'
  BY <1>0, <1>4 DEF ProcDies
<1>5. ASSUME NEW c \in Caller, CallerStarts(c) PROVE TypeOK'
  BY <1>0, <1>5 DEF CallerStarts, Launch
<1>6. ASSUME NEW c \in Caller, CallerStarted(c) PROVE TypeOK'
  <2>1. brokers \in Broker
    BY <1>0, <1>6, BrokerAssumption DEF CallerStarted
  <2> QED
    BY <1>0, <1>6, <2>1 DEF CallerStarted, Arm
<1>7. ASSUME NEW c \in Caller, CallerReturns(c) PROVE TypeOK'
  BY <1>0, <1>7 DEF CallerReturns, Arm
<1>8. ASSUME NEW c \in Caller, CallerFails(c) PROVE TypeOK'
  BY <1>0, <1>8 DEF CallerFails
<1>9. CASE SupervisorFinds
  BY <1>0, <1>9 DEF SupervisorFinds, IsAlive
<1>10. CASE SupervisorRespawns
  BY <1>0, <1>10 DEF SupervisorRespawns, Launch, Address
<1>11. CASE SupervisorSucceeds
  <2>1. brokers \in Broker
    BY <1>0, <1>11, BrokerAssumption DEF SupervisorSucceeds
  <2> QED
    BY <1>0, <1>11, <2>1 DEF SupervisorSucceeds
<1>12. CASE SupervisorFails
  BY <1>0, <1>12 DEF SupervisorFails, AfterFailure
<1>13. CASE ShutdownBegins
  BY <1>0, <1>13 DEF ShutdownBegins
<1>14. CASE ShutdownClosed
  BY <1>0, <1>14 DEF ShutdownClosed, Stopped
<1>15. CASE ShutdownEnds
  BY <1>0, <1>15 DEF ShutdownEnds
<1>16. CASE UNCHANGED vars
  BY <1>0, <1>16 DEF vars
<1> QED
  BY <1>1, <1>2, <1>3, <1>4, <1>5, <1>6, <1>7, <1>8, <1>9, <1>10, <1>11, <1>12, <1>13, <1>14, <1>15, <1>16
     DEF Next, ThreadStep, SupervisorStep

-----------------------------------------------------------------------------
\* Every step of the supervisor and of a broker's threads keeps the invariant.
LEMMA BrokerNext == BrokerInv /\ [Next]_vars => BrokerInv'
<1> SUFFICES ASSUME BrokerInv, [Next]_vars PROVE BrokerInv'
  OBVIOUS
<1> USE DEF procVars, callVars
<1>0. TypeOK /\ TypeOK'
  BY TypeNext DEF BrokerInv
<1> USE BrokerAssumption
<1> USE DEF TypeOK, BrokerInv, LockInv, FreshInv, LatestInv, AddressInv, LatestWorks,
            Known, Working, Broker
<1>1. ASSUME NEW b \in Broker, ThreadSpawns(b) PROVE BrokerInv'
  <2>1. /\ \A a \in Broker : a # b => thread'[a] = thread[a] /\ proc'[a] = proc[a]
        /\ thread[b] = "queued" /\ thread'[b] = "polling" /\ proc'[b] = "alive"
        /\ held' = held \cup {b}
    BY <1>0, <1>1 DEF ThreadSpawns
  <2>2. LockInv' /\ FreshInv' /\ LatestInv'
    BY <1>0, <1>1, <2>1 DEF ThreadSpawns
  <2>3. AddressInv'
    <3>1. \A a \in Broker : thread'[a] = "reported" <=> thread[a] = "reported"
      BY <2>1
    <3> QED
      BY <1>0, <1>1, <3>1 DEF ThreadSpawns
  <2>4. down = "no" => LatestWorks'
    BY <1>0, <1>1, <2>1 DEF ThreadSpawns
  <2> QED
    BY <1>0, <1>1, <2>2, <2>3, <2>4 DEF ThreadSpawns
<1>2. ASSUME NEW b \in Broker, ThreadReports(b) PROVE BrokerInv'
  BY <1>0, <1>2 DEF ThreadReports
<1>3. ASSUME NEW b \in Broker, ThreadFails(b) PROVE BrokerInv'
  <2>1. /\ \A a \in Broker : a # b => thread'[a] = thread[a] /\ proc'[a] = proc[a]
        /\ thread[b] = "polling" /\ thread'[b] = "raised" /\ proc'[b] = "dead"
        /\ held' = held \ {b}
    BY <1>0, <1>3 DEF ThreadFails, Reaped
  <2>2. LockInv' /\ FreshInv' /\ LatestInv'
    BY <1>0, <1>3, <2>1 DEF ThreadFails
  <2>3. AddressInv'
    <3>1. \A a \in Broker : thread'[a] = "reported" <=> thread[a] = "reported"
      BY <2>1
    <3> QED
      BY <1>0, <1>3, <3>1 DEF ThreadFails
  <2>4. down = "no" => LatestWorks'
    BY <1>0, <1>3, <2>1 DEF ThreadFails
  <2> QED
    BY <1>0, <1>3, <2>2, <2>3, <2>4 DEF ThreadFails
<1>4. ASSUME NEW b \in Broker, ProcDies(b) PROVE BrokerInv'
  BY <1>0, <1>4 DEF ProcDies
<1>5. ASSUME NEW c \in Caller, CallerStarts(c) PROVE BrokerInv'
  BY <1>0, <1>5 DEF CallerStarts, Launch
<1>6. ASSUME NEW c \in Caller, CallerStarted(c) PROVE BrokerInv'
  BY <1>0, <1>6 DEF CallerStarted, Arm
<1>7. ASSUME NEW c \in Caller, CallerReturns(c) PROVE BrokerInv'
  BY <1>0, <1>7 DEF CallerReturns, Arm
<1>8. ASSUME NEW c \in Caller, CallerFails(c) PROVE BrokerInv'
  BY <1>0, <1>8 DEF CallerFails
<1>9. CASE SupervisorFinds
  BY <1>0, <1>9 DEF SupervisorFinds, IsAlive
<1>10. CASE SupervisorRespawns
  BY <1>0, <1>10 DEF SupervisorRespawns, Launch, Address
<1>11. CASE SupervisorSucceeds
  BY <1>0, <1>11 DEF SupervisorSucceeds
<1>12. CASE SupervisorFails
  BY <1>0, <1>12 DEF SupervisorFails, AfterFailure
<1>13. CASE ShutdownBegins
  BY <1>0, <1>13 DEF ShutdownBegins
<1>14. CASE ShutdownClosed
  BY <1>0, <1>14 DEF ShutdownClosed, Stopped
<1>15. CASE ShutdownEnds
  BY <1>0, <1>15 DEF ShutdownEnds
<1>16. CASE UNCHANGED vars
  BY <1>0, <1>16 DEF vars
<1> QED
  BY <1>1, <1>2, <1>3, <1>4, <1>5, <1>6, <1>7, <1>8, <1>9, <1>10, <1>11, <1>12, <1>13, <1>14, <1>15, <1>16
     DEF Next, ThreadStep, SupervisorStep

-----------------------------------------------------------------------------
\* The inductive invariant.
LEMMA BrokerInvariant == Spec => []BrokerInv
BY BrokerInit, BrokerNext, PTL DEF Spec

\* The state of the plugin's broker has its types.
THEOREM TypeCorrect == Spec => []TypeOK
<1>1. BrokerInv => TypeOK
  BY DEF BrokerInv
<1> QED
  BY <1>1, BrokerInvariant, PTL

\* Before the shutdown there is one broker at most, however starts are cancelled,
\* fail, or die.
THEOREM BrokerUnique == Spec => []OneBroker
<1>1. BrokerInv => OneBroker
  BY DEF BrokerInv, LatestWorks, Working, OneBroker, Up
<1> QED
  BY <1>1, BrokerInvariant, PTL

\* A broker that comes later is where the twins look for it.
THEOREM AddressesKept == Spec => []AddressesStable
<1>1. BrokerInv => AddressesStable
  BY DEF BrokerInv, AddressInv, Known, AddressesStable
<1> QED
  BY <1>1, BrokerInvariant, PTL
=============================================================================
