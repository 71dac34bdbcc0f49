---------------------------- MODULE StreamBroker ----------------------------
(***************************************************************************)
(* The stream broker that a plugin embeds: PluginDT.stream_addresses(),    *)
(* _supervise() and shutdown() of plugin.py, and the ZMQ_BrokerProcess of  *)
(* streaming.py, a subprocess started and stopped on a worker thread.      *)
(*                                                                         *)
(* A Caller is the initialization of one twin.  The plugin's tasks share   *)
(* an event loop and take turns by _stream_lock; a thread runs on when the *)
(* task that awaits it is cancelled.  Broker numbers the ZMQ_BrokerProcess *)
(* objects, Port the addresses a broker may be bound to.  A task that      *)
(* holds the lock while a broker starts has created the latest of them.    *)
(***************************************************************************)
EXTENDS Naturals, FiniteSets

CONSTANTS
    Caller,
    Port,
    NoPort,      \* no address known; as a configuration: any free port
    Nobody,
    Supervisor,
    MaxBrokers,  \* bound: brokers created
    MaxFails     \* bound: starts that fail, and processes that die

ASSUME BrokerAssumption ==
    /\ NoPort \notin Port
    /\ Nobody \notin Caller /\ Supervisor \notin Caller /\ Nobody # Supervisor
    /\ MaxBrokers \in Nat /\ MaxFails \in Nat

Broker == 1..MaxBrokers

VARIABLES
    lock,       \* who holds _stream_lock
    broker,     \* _stream_broker; 0 for None
    addrs,      \* _stream_addrs
    brokers,    \* the number of broker objects so far
    conf,       \* per broker, the address it is told to bind
    thread,     \* per broker, where its _start() is
    held,       \* the brokers whose _proc is set
    proc,       \* per broker, its subprocess
    port,       \* per broker, the address it bound
    caller,     \* per caller, where its stream_addresses() is
    got,        \* per caller, the address it was given
    supervisor, \* where _supervise() is
    down,       \* where shutdown() is
    fails       \* failures so far

procVars == <<brokers, conf, thread, held, proc, port>>
callVars == <<caller, got>>
vars == <<lock, broker, addrs, procVars, callVars, supervisor, down, fails>>

Init ==
    /\ lock = Nobody
    /\ broker = 0
    /\ addrs = NoPort
    /\ brokers = 0
    /\ conf = [b \in Broker |-> NoPort]
    /\ thread = [b \in Broker |-> "none"]
    /\ held = {}
    /\ proc = [b \in Broker |-> "none"]
    /\ port = [b \in Broker |-> NoPort]
    /\ caller = [c \in Caller |-> "idle"]
    /\ got = [c \in Caller |-> NoPort]
    /\ supervisor = "off"
    /\ down = "no"
    /\ fails = 0

-----------------------------------------------------------------------------
\* A new ZMQ_BrokerProcess(a) and the call of its start(), which hands over to
\* a worker thread.
Launch(a) ==
    /\ brokers < MaxBrokers
    /\ brokers' = brokers + 1
    /\ broker' = brokers'
    /\ conf' = [conf EXCEPT ![brokers'] = a]
    /\ thread' = [thread EXCEPT ![brokers'] = "queued"]

\* _start(): spawn the subprocess ...
ThreadSpawns(b) ==
    /\ thread[b] = "queued"
    /\ thread' = [thread EXCEPT ![b] = "polling"]
    /\ held' = held \cup {b}
    /\ proc' = [proc EXCEPT ![b] = "alive"]
    /\ UNCHANGED <<lock, broker, addrs, brokers, conf, port, callVars, supervisor,
                   down, fails>>

\* ... and wait for the address it bound ...
ThreadReports(b) ==
    /\ thread[b] = "polling"
    /\ proc[b] = "alive"
    /\ \E p \in IF conf[b] = NoPort THEN Port ELSE {conf[b]} :
         port' = [port EXCEPT ![b] = p]
    /\ thread' = [thread EXCEPT ![b] = "reported"]
    /\ UNCHANGED <<lock, broker, addrs, brokers, conf, held, proc, callVars,
                   supervisor, down, fails>>

\* ... or give up: take the subprocess down again and raise.
Reaped_not(b) == proc    \* mutant: the subprocess of a failed start is left alone
Reaped(b) == [proc EXCEPT ![b] = "dead"]

ThreadFails(b) ==
    /\ thread[b] = "polling"
    /\ IF proc[b] = "alive" THEN fails < MaxFails /\ fails' = fails + 1
                            ELSE UNCHANGED fails
    /\ thread' = [thread EXCEPT ![b] = "raised"]
    /\ held' = held \ {b}
    /\ proc' = Reaped(b)
    /\ UNCHANGED <<lock, broker, addrs, brokers, conf, port, callVars, supervisor, down>>

\* The subprocess dies.
ProcDies(b) ==
    /\ proc[b] = "alive"
    /\ fails < MaxFails
    /\ fails' = fails + 1
    /\ proc' = [proc EXCEPT ![b] = "dead"]
    /\ UNCHANGED <<lock, broker, addrs, brokers, conf, thread, held, port, callVars,
                   supervisor, down>>

IsAlive(b) == b \in held /\ proc[b] = "alive"

\* stop() of broker b.
Stopped(b) ==
    /\ held' = held \ {b}
    /\ proc' = IF b \in held THEN [proc EXCEPT ![b] = "dead"] ELSE proc

-----------------------------------------------------------------------------
Arm == supervisor' = IF supervisor = "off" THEN "watching" ELSE supervisor

\* stream_addresses(): start the broker if there is none ...
CallerStarts(c) ==
    /\ caller[c] = "idle"
    /\ lock = Nobody
    /\ broker = 0
    /\ Launch(NoPort)
    /\ lock' = c
    /\ caller' = [caller EXCEPT ![c] = "starting"]
    /\ UNCHANGED <<addrs, held, proc, port, got, supervisor, down, fails>>

\* ... return its address when it has one ...
CallerStarted(c) ==
    /\ caller[c] = "starting"
    /\ thread[brokers] = "reported"
    /\ addrs' = port[brokers]
    /\ got' = [got EXCEPT ![c] = port[brokers]]
    /\ caller' = [caller EXCEPT ![c] = "returned"]
    /\ lock' = Nobody
    /\ Arm
    /\ UNCHANGED <<broker, procVars, down, fails>>

\* ... or the one known from before.
CallerReturns(c) ==
    /\ caller[c] = "idle"
    /\ lock = Nobody
    /\ broker # 0
    /\ got' = [got EXCEPT ![c] = addrs]
    /\ caller' = [caller EXCEPT ![c] = "returned"]
    /\ Arm
    /\ UNCHANGED <<lock, broker, addrs, procVars, down, fails>>

\* The start raised, or the twin's initialization is cancelled meanwhile.
CallerFails(c) ==
    /\ caller[c] = "starting"
    /\ \/ thread[brokers] = "raised" /\ caller' = [caller EXCEPT ![c] = "failed"]
       \/ caller' = [caller EXCEPT ![c] = "cancelled"]
    /\ lock' = Nobody
    /\ UNCHANGED <<broker, addrs, procVars, got, supervisor, down, fails>>

-----------------------------------------------------------------------------
\* _supervise(): a round that finds the broker dead.  It raises, to be logged
\* and tried again, where the address is not known.
SupervisorFinds ==
    /\ supervisor = "watching"
    /\ lock = Nobody
    /\ broker # 0 /\ ~IsAlive(broker)
    /\ addrs # NoPort
    /\ lock' = Supervisor
    /\ supervisor' = "stopping"
    /\ UNCHANGED <<broker, addrs, procVars, callVars, down, fails>>

\* The remains of the old broker are gone: start a new one where it was.
Address_configured == NoPort    \* mutant: where the configuration says
Address == addrs

SupervisorRespawns ==
    /\ supervisor = "stopping"
    /\ addrs # NoPort
    /\ Launch(Address)
    /\ supervisor' = "starting"
    /\ held' = held \ {brokers}
    /\ UNCHANGED <<lock, addrs, proc, port, callVars, down, fails>>

SupervisorSucceeds ==
    /\ supervisor = "starting"
    /\ thread[brokers] = "reported"
    /\ addrs' = port[brokers]
    /\ lock' = Nobody
    /\ supervisor' = "watching"
    /\ UNCHANGED <<broker, procVars, callVars, down, fails>>

\* The start raised: logged, to be tried again.
AfterFailure_ends == "ended"    \* mutant: the exception ends the supervisor
AfterFailure == "watching"

SupervisorFails ==
    /\ \/ supervisor = "starting" /\ thread[brokers] = "raised"
       \/ supervisor = "stopping" /\ addrs = NoPort
    /\ lock' = Nobody
    /\ supervisor' = AfterFailure
    /\ UNCHANGED <<broker, addrs, procVars, callVars, down, fails>>

-----------------------------------------------------------------------------
\* shutdown(): cancel the supervisor, wherever it is ...
ShutdownBegins ==
    /\ down = "no"
    /\ down' = "sessions"
    /\ supervisor' = "off"
    /\ lock' = IF lock = Supervisor THEN Nobody ELSE lock
    /\ UNCHANGED <<broker, addrs, procVars, callVars, fails>>

\* ... close all sessions, which cancels the initializations of their twins ...
ShutdownClosed ==
    /\ down = "sessions"
    /\ caller' = [c \in Caller |->
                    IF caller[c] \in {"idle", "starting"} THEN "cancelled" ELSE caller[c]]
    /\ lock' = IF lock \in Caller THEN Nobody ELSE lock
    /\ broker' = 0
    /\ Stopped(broker)
    /\ down' = "stopping"
    /\ UNCHANGED <<addrs, brokers, conf, thread, port, got, supervisor, fails>>

\* ... and stop the broker.
ShutdownEnds ==
    /\ down = "stopping"
    /\ addrs' = NoPort
    /\ down' = "done"
    /\ UNCHANGED <<lock, broker, procVars, callVars, supervisor, fails>>

-----------------------------------------------------------------------------
ThreadStep(b) == ThreadSpawns(b) \/ ThreadReports(b) \/ ThreadFails(b)

SupervisorStep ==
    SupervisorFinds \/ SupervisorRespawns \/ SupervisorSucceeds \/ SupervisorFails

Next ==
    \/ \E b \in Broker : ThreadStep(b) \/ ProcDies(b)
    \/ \E c \in Caller :
         CallerStarts(c) \/ CallerStarted(c) \/ CallerReturns(c) \/ CallerFails(c)
    \/ SupervisorStep
    \/ ShutdownBegins \/ ShutdownClosed \/ ShutdownEnds

Spec == Init /\ [][Next]_vars

\* Threads run and starts are bounded by their timeout, so that each reports or
\* fails; the supervisor wakes up again and again.
Fairness ==
    /\ \A b \in Broker : WF_vars(ThreadStep(b))
    /\ \A c \in Caller : WF_vars(CallerStarted(c) \/ CallerFails(c))
    /\ WF_vars(SupervisorStep)

FairSpec == Spec /\ Fairness

-----------------------------------------------------------------------------
\* Types of the state.
TypeOK ==
    /\ lock \in Caller \cup {Supervisor, Nobody}
    /\ broker \in 0..brokers
    /\ addrs \in Port \cup {NoPort}
    /\ brokers \in 0..MaxBrokers
    /\ conf \in [Broker -> Port \cup {NoPort}]
    /\ thread \in [Broker -> {"none", "queued", "polling", "reported", "raised"}]
    /\ held \subseteq 1..brokers
    /\ proc \in [Broker -> {"none", "alive", "dead"}]
    /\ port \in [Broker -> Port \cup {NoPort}]
    /\ caller \in [Caller -> {"idle", "starting", "returned", "failed", "cancelled"}]
    /\ got \in [Caller -> Port \cup {NoPort}]
    /\ supervisor \in {"off", "watching", "stopping", "starting"}
    /\ down \in {"no", "sessions", "stopping", "done"}
    /\ fails \in 0..MaxFails

\* A subprocess there is, or one that a thread is about to spawn.
Up(b) == proc[b] = "alive" \/ thread[b] = "queued"

\* One broker (stream_addresses, _supervise, _start): however starts fail, are
\* cancelled or repeated, there are no two of them before the shutdown.
OneBroker ==
    /\ TypeOK
    /\ down = "no" => \A a, b \in Broker : Up(a) /\ Up(b) => a = b

\* Addresses are stable (_supervise): the address of every twin that was given
\* one is where any later broker is bound.
AddressesStable ==
    \A c \in Caller, b \in Broker :
        got[c] # NoPort /\ thread[b] = "reported" => port[b] = got[c]

\* The supervisor brings back a broker whose address is known.
BrokerRespawns ==
    (addrs # NoPort /\ ~IsAlive(broker)) ~>
        (IsAlive(broker) \/ down # "no")
=============================================================================
