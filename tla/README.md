# DigitalTwinFramework: a TLA+ model

This directory models the concurrent core of the DigitalTwinFramework
(`src/src/digitaltwin`) in TLA+. TLC checks small instances; TLAPS proves every
safety property that TLC checks on them for instances of any size.

- [Inventory](#inventory): the system's parts, and what makes each correct
- [Modules](#modules): which module models what, and how
- [Runs](#runs): what TLC checks, within which bounds, under which fairness
- [Proofs](#proofs): what is proved, from what, and how
- [Observations](#observations): where the code and its documentation part
- [Not modelled](#not-modelled) and [Plan](#plan)

To check a module, `tlc -config MCBarrier.cfg MCBarrier`; to check the proofs,
`tlapm BarrierProofs.tla`.

## Inventory

A *twin* is a graph of components (tasks, investigators, agents) that exchange
typed items. A *runtime* executes one twin on an asyncio event loop. A service
plugin hosts twins in *sessions*, all on the loop of the host, and embeds one
stream *broker*, a subprocess through which twins and sensors exchange items.
Within one process everything is cooperative: a step runs from one `await` that
suspends to the next. Threads appear only where a subprocess is started or
stopped, real processes only as the broker.

| Component | State it keeps | Operations | Talks to |
|---|---|---|---|
| Barrier (`components.py`) | stream versions, round counter, semaphore, condition, soft windows, output queues | `add_dtype`, `put`, `get`, `run` | dataflow: consumers put and get |
| Runtime lifecycle (`runtime.py`) | state, last error, running tasks, the teardown task | `start`, `stop`, graph verbs, `_task_done`, `_record_error`, `_teardown`, `get_inference` | stream client (its failure, its close), session |
| Dataflow (`runtime.py`) | dtype queues, barrier chains, what consumers hold | `_put_to_dtype_queue`, `_launch_consumer`, `_launch_b_consumer`, `_barrier_consumer`, `add_barrier` | barrier, components, stream client |
| Shared sub-tasks (`runtime.py`, `lru.py`) | LRU cache of futures | `fetch_wrapper`, `put_item`, `fetch_item` | agents' calls, host requests, teardown |
| Sessions (`service/session.py`) | twin registry, engine and its build, the state of each twin's creation and closing | `twin_create`, `twin_close`, `_init_twin`, `engine`, inference, `close` | runtime, plugin, broker |
| Embedded broker (`service/plugin.py`, `streaming.py`) | broker object, addresses, supervisor task, lock, threads, subprocess | `stream_addresses`, `_supervise`, `shutdown`, `start`, `stop` | initializations of twins |
| Agents and models (`runtime.py`, `components.py`) | published models, selector, investigators, who has which sub-task | `publish_new_model`, `update_model_selector`, `start_investigator`, `register_shared_subtask`, inference | runtime |
| Stream client (`streaming.py`) | subscriptions, callbacks, connection, receive loop | connect, subscribe, unsubscribe, publish, close | broker, runtime |
| Plugin routes and service client (`service/plugin.py`, `client.py`) | open sessions, requests under way, what a client waits for | `register_session`, `create_twin`, `wait_ready`, `twin_list`, `twin_close`, the verbs | sessions |
| Data join (`runtime.py`) | a one-place queue per input | put, take all | dataflow |
| Wire format, codecs, configuration, printing | none | see [Not modelled](#not-modelled) | |

What is hard, and what correctness means:

- **Barrier.** Producers, the round loop and consumers interleave at every
  suspension; permits are counted by a semaphore that several streams share.
  Each round must take one item of each hard stream, no soft value may be lost
  or doubled, and no producer may sleep through its wakeup.
- **Runtime.** Failures, calls of `stop()`, late tasks and the bounded teardown
  race. There must be one teardown; nothing may escape it; the first failure is
  the one reported; `stop()` must return whatever tasks do.
- **Dataflow.** An item changes hands five times or more between tasks. None may be
  lost or overtaken, and dtypes behind a barrier must stay in step.
- **Shared sub-tasks.** Futures are cached before they are done; they may be
  evicted or cancelled while others wait for them. One computation per key, and
  none that nobody waits for.
- **Sessions.** A twin can be closed while it initializes, a session while its
  engine is being built, and both waits are bounded. No twin or engine may be
  left behind where no call reaches it.
- **Broker.** Starts run on threads that outlive the task that awaits them; they
  fail; the subprocess dies. There must be one broker, and its address must not
  move once a twin has it.
- **Agents and models.** Main loops publish whenever they like, while inferences
  select and wait. An inference must run with the model that goes with its
  selection, it must not wait for what has happened already, and the sub-task of a
  label must have one cache, whoever was started first.
- **Stream client.** Subscriptions are recorded before they are made, and the
  making may wait for the connection while the client is closed, or the caller
  cancelled; sockets and broker may lose items at any time. A feed must have one
  callback and get its items in order and once, feeds of one topic the same ones, a
  closed client nothing, and a loop that ends must not end in silence.
- **Requests.** Answers get lost, clients repeat, and a request they gave up comes
  late, after a close or beside another session's create. One twin per id; an
  answer of `ready` must be about the twin that the client can then call; a
  call must end, also if what it asks for does not.

## Modules

| Module | Models | Notes |
|---|---|---|
| `Barrier` | class `Barrier` | every operation; streams may be registered late (`Late`) |
| `Rounds` | what a barrier promises | abstract; `Barrier!ImplementsRounds` is the refinement |
| `Runtime` | class `DTRuntime`: lifecycle, tasks, teardown | components are opaque invocations |
| `TwinLifecycle` | what a host sees of a twin | abstract; `Runtime!ImplementsLifecycle` is the refinement |
| `SharedSubtask` | `register_shared_subtask` and `LRUCache` | one wrapper |
| `Session` | `DTSession`, `TwinInstance`, the plugin's check of ids | a runtime is what `TwinLifecycle` says of it |
| `TwinRegistry` | what the service promises of ids | abstract; refined by `Session!ImplementsRegistry` and `Requests!ImplementsRegistry` |
| `StreamBroker` | `PluginDT`'s broker handling, `ZMQ_BrokerProcess` | threads and subprocess included |
| `Dataflow` | queues, consumers, barrier chains | of a barrier it uses what `Rounds` promises |
| `Models` | `RuntimeAPI`, the inference branches of `_run_component` | one agent, investigators of both kinds |
| `StreamClient` | `PubSubClient`, `ZMQ_PS_Client` | sockets and broker as the client sees them, losses included |
| `Requests` | `DTClient`, the routes of `PluginDT`, the verbs of `DTSession` | one twin id; a twin is what a client can tell of it |
| `MC*` | instances for TLC | |
| `BarrierProofs`, `RuntimeProofs`, `SessionProofs`, `StreamBrokerProofs`, `RequestsProofs`, `StreamClientProofs`, `DataflowProofs` | theorems about the module of that name | |
| `AgentProofs` | theorems about `Models` and `SharedSubtask` | extends both, which share no name |

Composition: `Dataflow` stands on `Rounds`, which `Barrier` implements;
`Session` stands on `TwinLifecycle`, which `Runtime` implements; `Requests` takes
initialization, teardown and closing as steps that `Session` and `Runtime` detail,
and relies on the bounds that `InitEnds` and `CloseReturns` state. The two tell of
the same registry, at different levels of detail: both implement `TwinRegistry`, in
which an id has one twin at a time, a twin is closed once, and it is out of reach
only when its close has begun. `Session` maps the registered twins of all its ids
to it; in `Requests` there is one id, and a twin that is closed no longer has a
`closing` of its own, so that the mapping adds those whose state is closed. So each level is
checked against the interface of the level below, and that interface against the
code. `PROJECT.json` maps each definition to the lines it translates.

State and actions follow the code by name. Where an operation suspends it is
split, and only there:

- **Barrier.** `put` of a hard stream is `HardPut`, which ends at once or goes to
  sleep, and `HardResume` after a wakeup. `run` is `RunBegin`, up to the first
  permit it waits for, then one `RunRound` per round. The condition's lock is
  never held across a suspension that yields, hence never contended. A round that
  meets a soft stream without values is `RunRaises`: streams are processed in
  the order of registration, so that any subset of the others may have emitted.
- **Runtime.** `_teardown` is a task with four places to be: scheduled, waiting
  for the cancelled tasks (`asyncio.wait` with a timeout), closing the stream
  client (another timeout), done. A cancelled task may end, raise, or ignore it.
  `asyncio.gather` is modelled by what it does: it raises with the first child
  that fails and leaves the others alone; cancelled, it cancels its children.
- **SharedSubtask.** Cancelling a task that awaits a future cancels the future;
  that is how `await fut` behaves, and everything that awaits it sees the result.
- **Session.** `_init_twin` suspends for the engine, shared by the session's
  twins, and for the stream; a build may land at any later time, or never.
  `close` of a twin waits a bounded time for what it cancelled, then stops the
  runtime.
- **StreamBroker.** `start()` is a task that awaits a thread. The thread has
  steps of its own (`ThreadSpawns`, `ThreadReports`, `ThreadFails`) and goes on
  when the task is cancelled.
- **Dataflow.** Per dtype one `_launch_consumer`, one `_launch_b_consumer`, and
  per further barrier one `_barrier_consumer`; each holds at most one item.
- **Models.** `Event.wait()` does not suspend if the event is set. So `Choose`,
  the selector's answer, goes on to the inference in the same step if the
  investigator has published, and `ModelArrives` is a step of its own only if not.
  A publication without arguments sets the event and leaves `None` behind
  (`Bare`), which the call of the inference task does not take.
- **StreamClient.** A feed is a dtype or a (channel, dtype) pair; several feeds may
  share a topic. Calls before the connection are `parked` at `is_running` and
  `woken` together; each goes on later (`Resume`), and may find the client
  closed. `close()` is `Close`, up to the wait for the cancelled loop, and
  `CloseEnds`, which is also what happens when the closer itself is cancelled. An
  item may be lost although its topic is known to the broker, as the sockets are
  PUB and SUB ones, which drop what is beyond their high-water mark, and the broker may
  die with it. Whether it will be lost is decided when it is sent (`Send`): nobody
  could tell a later loss from that. `BrokerDies` takes the subscriptions along,
  which `Propagate` brings to the respawned broker; `conn` stays as it is, since the
  sockets reconnect by themselves. Each feed decodes by itself (`Bad`).
- **Requests.** A request is on its way, with its handler, answered or lost. A
  client waits for one and may give it up; given up, it goes on without a reader.
  A route is one step up to its first suspension, hence the scan for an id's
  owner and the insertion are one (`TwinCreate`), and the id is free before the
  twin is down (`TwinClose`). A handler that holds an inference cancels it at its
  timeout, or finds it cancelled by a close; `wait_for` then still waits for the task
  (`at = "cancelled"`), and the answer goes out when that ends (`Inferred`), which
  is not certain.

History variables (`teardowns`, `used`, `late`, `done`, `told`, `latest`,
`blind`) record what happened; no
guard reads them. A barrier's output queue is what it `emitted` less what was
`taken`.

## Runs

Passing runs:

| Run | Question | States |
|---|---|---|
| `barrier_rounds` | Are outputs in lockstep, permits exact? Do held puts complete? Does `Barrier` implement `Rounds`? | 346k |
| `barrier_join` | Do windows stay exact and wakeups arrive, if streams join late? | 232k |
| `runtime` | A teardown that nothing escapes, one reported failure, bounded `stop()`; does `Runtime` implement `TwinLifecycle`? | 369k |
| `shared` | Is the cache LRU, a key computed once, no computation orphaned? | 145k |
| `session` | No twin out of reach, twins before engine, no engine stranded, inferences cancelled, creation and closing bounded? Does `Session` implement `TwinRegistry`? | 54k |
| `broker` | One broker at a stable address, which comes back? | 34k |
| `dataflow` | Is the pipeline exact, aligned, lossless, sequential and live? | 39k |
| `models` | One cache per label, the right model for each inference, and an end of each? | 233k |
| `stream_client` | One callback per feed, items once and in order, nothing in a closed client, is what is received delivered? | 421k |
| `requests` | One twin per id, `ready` means callable, does every call end? Does `Requests` implement `TwinRegistry`? | 174k |

The types of a module's state are checked with the first of its invariants, but for
`Runtime`, where `StopJoins` has them.

Runs that end in a violation, each of a sentence the repository says:
`runtime_siblings` and `models_latest`; see [Observations](#observations).

**Bounds.** They are constants, or the number of elements of a set.

- *Barrier*: two streams of each kind, because permits go wrong between two of
  a kind (a second soft put in a round, a fast hard stream beside a slow one);
  three rounds, so that windows repeat and a put can be held in a round after
  one it was held in; windows of two values. With late streams two rounds
  suffice: before and after joining. That instance contains the one without
  late streams too, as a late stream may be registered before the loop begins.
- *Runtime*: a task that runs a main loop and a consumer of two components: two
  independent sources of failure, and a sibling for a failing component. One
  caller of `stop()` besides the failures that tear down on their own; what
  several callers do to each other is proved for any number (`TeardownSafe`,
  `StopAlwaysJoins`).
- *Shared*: four calls, two inside the twin, of three keys with a cache of two:
  the fourth call can tell LRU from order of insertion.
- *Session*: two twins in one session: conflicts are between two twins, a twin
  and its session, or a twin and its successor. Sessions share nothing but the
  ids, and `Requests` has two sessions that contend for one.
- *Broker*: three callers (the first starts, the second waits for the lock, the
  third comes when the first failed), four brokers, three failures.
- *Dataflow*: two dtypes, two barriers, two items each: one item can wait at a
  barrier while its successor travels, and one dtype can be a round ahead.

- *Models*: an agent with one investigator, one more in the graph, two
  inferences of which one holds up a consumer; two publications each, so that the
  model can change between selection and inference; two registrations.
- *StreamClient*: a channel with two feeds, of which an item reaches both, and a
  topic with a feed that is unsubscribed, cancelled and subscribed again. Of the
  channel's three items one feed cannot decode one; three, so that there is one
  before and one after a loss. One waiting subscription per feed; a publication
  waits on the topic only, since one on the channel adds no more than another sender
  does. The broker may die any number of times.
- *Requests*: one client, which is enough to race itself: one request given up and
  one awaited. Two sessions for the conflict about the id; two twins in sequence,
  so that a late request meets its twin's successor. The second session is only
  registered, created and closed in. Timeouts are the default, as for `None`, or
  infinite; a number that a client gives is like the default.

TLC bounds the counters by guards: `MaxItems`, `MaxWindow`, `MaxTwins`,
`MaxBrokers`, `MaxFails`, `MaxBarriers`, `MaxModels`, `MaxTasks`, `MaxCalls`,
`MaxLate`. Where all bounds are used up, or a
system has nothing more to do, the behaviour ends, so these runs do not ask for
deadlocks; `runtime` does, for a twin can always be asked to start or add.

**Fairness** is weak, and of single activities:

- The event loop runs what is ready: `run()`, woken puts, consumers, the
  teardown, done-callbacks.
- Waits with a timeout end: the teardown's, those of `_init_twin` and `close`, a
  broker's start, a host's wait for an inference, a client's for an answer.
- The client's activities go on: what is on the wire is received, a loop that
  ended is noticed, a call of `close()` returns. A request is handled or lost.
- *Not* assumed: that a task ends or minds its cancellation (`Runtime`), that an
  engine build or an inference ends (`Session`, `Requests`), that anybody
  publishes a model (`Models`), that a connection is made or an item sent
  (`StreamClient`). Hence `StopReturns`, `InitEnds` and `CloseReturns` rest on the
  timeouts alone. So does the first part of `CallsEnd`: a handler answers, or its
  inference is cancelled, unless the timeout is infinite and nobody closes the twin.
  A client has its answer only when the cancelled inference ends, since the handler
  waits for it; the second part of `CallsEnd` assumes that it does.
- Assumed of the environment, where the property says so: `HeldPutCompletes`
  needs every stream to keep delivering, `ItemsArrive` that the other dtypes
  delivered as many and that components come to an end, `BrokerRespawns` that
  failures are finitely many, `InferenceEnds` that the selector and the
  investigators have published at some time, and that selection and inference
  tasks return.

## Proofs

Every invariant and every action property that a run checks, but for the two that
the code violates, is a theorem; so is the safety part of each refinement. No
theorem bounds the instance: tasks, sessions, clients, dtypes and keys are any sets,
streams any finite set, bounds any numbers.

Few of the properties are inductive. Each component has one invariant that is
(`RoundInv`, `LifeInv`, ...), the conjunction of the properties and of what makes
them inductive; windows and wakeups of a barrier have one each of their own. TLC
checked them on the instances of the runs before they were proved. A proof has a
step per action, and the theorems about invariants are consequences. Each module
also proves its `TypeOK`.

**`BarrierProofs`**

- `RoundsSafe` (`PermitsExact`) and `AlwaysLockstep`, if no streams are late
  (`Late = {}`).
- `RoundsComplete`, under the same condition: the round counter moves by one, and
  only over complete rounds.
- `BarrierImplementsRounds`: `Late = {} /\ Spec => ImplementsRounds`.
- `WindowsAlwaysExact` and `WakeupsNeverLost`, for streams that join at any time.

That rounds are complete rests on counting: the loop waits for as many permits as
there are streams, and one permit is there per hard stream that arrived, plus all
soft ones or none. `RoundInv` adds what makes the counts conclusive: the loop's
`quota` is the number of streams, each hard stream is in this round or the one
before it, and when the soft permits are there some soft stream has a new value.
`ReadyMeansAll` draws the conclusion: enough permits means that all hard streams
arrived and that the soft permits are there. The lemma is false with late
streams, where `quota` is stale; so is `RoundComplete` (see Observations).
`RoundComplete` is an action property that no run checks by itself:
`ImplementsRounds`, which one does, says it of the abstract counter. Windows
and wakeups do not need complete rounds. `WindowInv` says where the window being
collected begins, which depends on whether it is still a repetition;
`WakeupInv` adds that only registered streams wait.

**`RuntimeProofs`**

- `TeardownSafe`: `OneTeardown`, `NoTaskEscapes`, `DownMeansDown`.
- `StopAlwaysJoins`: `stop()` returns only after the teardown, for any number of
  callers.
- `CancellationReaches`: what live consumers gather is cancelled with them.
- `FirstFailureOwns`: a failed twin stays failed, with its first error.
- `RuntimeImplementsLifecycle`: `Spec` implements `TwinLifecycle`'s `Spec`.

`LifeInv` relates the stages of the teardown to who holds the tasks: until it
runs, `running_tasks` holds all that are alive; once it has cancelled them,
`running_tasks` stays empty and the live ones are `dying`; when it is closing,
those still alive are `abandoned`. `TypeOK` needs `OneTeardown` with it: that
`teardowns` is at most 1 is no matter of types.

**`SessionProofs`**

- `TwinsNotLost`, `EngineNotStranded`, `TwinsDownFirst`, `InferencesCancelled`.
- `SessionsImplementRegistry`: `Spec` implements `TwinRegistry`'s `Spec`.

`TwinInv` follows a twin from creation to closing. A twin nobody closes is
registered (`OpenInv`); one that is being closed has a closer, and an
initialization under way is `doomed` (`CloseInv`); a session's close has still to
do, or has begun, all twins registered there (`SessionInv`). The exception in
`TwinsBeforeEngine` is the case of `SessionInv` that cannot be removed: a twin whose
`closer` is a request. The refinement has a lemma per step of the registry: a create
finds no registered twin with the id, as whoever is registered stands under its own
session and id (`RegistryInv`); a close, of a request or a session, finds a twin
that nobody closes (`SessionInv`); what a session forgets in the end is closed.

**`StreamBrokerProofs`**

- `BrokerUnique` and `AddressesKept`.

The two need each other. That there is one broker rests on the supervisor
stopping the old one, which it finds by what it holds (`LatestWorks`), and on who
has the lock (`LockInv`). That a caller which is let in does not start another one
rests on the address being known, and every address known is the one that the
first broker's thread reported (`AddressInv`).

**`RequestsProofs`**

- `OneTwinAlways` and `ReadyIsCallable`, through any losses, repetitions and delays.
- `RequestsImplementRegistry`: `Spec` implements `TwinRegistry`'s `Spec`.

`HandlerInv` says what a suspended close has taken with it: its twin is closing, no
other handler closes that twin, and the id is free (`twin_close`) or still taken
by a session that is gone (`unregister_session`). `ReadyInv` says of every answer
on its way, and not only of the one a client acts upon, that a twin it calls ready
was ready; late answers would break it otherwise. That late and repeated closes are
one close in the registry is `OneTwinPerId`: a twin that an open session knows is
not being closed; that the end of a close forgets the right twin is `HandlerInv`.

**`AgentProofs`**

- Of `Models`: `OneCacheAlways` and `ModelAlwaysInTime`. The invariant `ModelsInv`
  adds that an inference which waits has the selector's arguments or was selected
  before there was a model (`WaitsRight`), that an event is set exactly if there was
  a publication, and that nobody has the sub-task whom the agent did not start.
- Of `SharedSubtask`: `CacheAlwaysLRU`, `NothingOrphaned`, `KeyComputedOnce`.
  `CacheIsLRU` is inductive, and proved by where an entry goes: a hit moves one to
  the end, a miss appends one and may drop the first. `KeyComputedOnce` counts: if
  no more keys were used than fit, then a full cache holds all of them, so that
  nothing is evicted and every call's future is still in the cache (`FitsInv`).

**`StreamClientProofs`**

- `SubscribedExactlyOnce`, `ItemsAlwaysInOrder`, `ItemsAlwaysOnce`,
  `ClosedStaysClosed`.

`ClientInv` adds who may wait when (`WaitInv`: before the connection all calls are
parked, after it none), that what is on the wire was published, in this order
(`WireInv`), and that who got items has a callback still (`GotInv`). From the last it
follows that feeds of a topic agree (`SiblingsAgree`, the last conjunct of
`ItemsOnce`): what a feed receives goes to all that got items before, and is newer than
all those. That nothing is lost between sender and receiver is not claimed, because
the code does not see to it.

**`DataflowProofs`**

- `PipelineAlwaysExact`, `RoundsAlwaysAligned`, `OneItemAtATime`.

Of the items, `LineExact` says that the places of the way (queue, barriers,
components) partition what was taken, older items further on. Each action moves
one item from the front of one place to the end of the next, takes or drops it;
the lemmas about such moves are stated once for any places. Of the rounds,
`SameRound` says that when the last barrier's round is over, it will have let pass
the same number of each dtype, and that all who listen do so at the last
barrier. `OneRoute`: a dtype goes behind the barriers once and for all.

**Assumptions** are those the modules state of their constants
(`StreamAssumption`, `RuntimeAssumption`, ...), about the shape of the instance:
bounds are numbers, streams are finitely many, a component invocation belongs to
one consumer, what stands for nobody or nothing is none of the somebodies, feeds
and topics are different things, there is a session and an id. TLC evaluates
them on each instance.

**Only model-checked:** what must happen eventually, under fairness
(`HeldPutCompletes`, `StopReturns`, `InitEnds`, `CloseReturns`, `BrokerRespawns`,
`ItemsArrive`, `ReceivedArrives`, `InferenceEnds`, `CallsEnd`, and the fairness of
`TwinLifecycle` in `ImplementsLifecycle`), since the prover has no rules for
`ENABLED`.

## Observations

Where the code does something other than its documentation says. The first
two are runs that TLC ends with a counterexample. The others were met while
modelling; where a formula is given, one can add it to the module named and check
it with that component's configuration.

1. *Siblings of a failed component run on* (`runtime_siblings`).
   `asyncio.gather` (`runtime.py:1303`) leaves them running, in no task set, and
   the teardown never cancels them; `stop()` "Cancels every task the runtime
   owns" (`:632`).
2. *An inference without its model* (`models_latest`). The agent's branch reads
   the investigator's `model_kwargs` (`runtime.py:1255`) before it waits for a
   publication (`:1262`): selected before the first one, an inference runs with
   empty arguments, against "use latest model published by investigator"
   (`components.py:329`). `ModelInTime` states exactly this exception; an
   investigator of the graph reads after the wait (`:1219`).
3. *An inference without a bound.* "the service-side wait is always bounded"
   (`session.py:371`), but of the numbers only those `<= 0` are replaced (`:373`):
   `float('inf')` is a timeout that never comes.
   `\A r \in Slot : Held(r, "get_inference") ~> ~Held(r, "get_inference")` fails in
   `Requests`; `CallsEnd` states exactly this exception.
4. *A bound that waits.* `asyncio.wait_for` (`session.py:382`) cancels the
   inference at its timeout and waits until it has ended; if it ignores its
   cancellation, the handler stays, and with it the client. Without its premise the
   second part of `CallsEnd` fails.
5. *The barrier loop can end by itself.* One soft put releases the permits of all
   soft streams; a round that completes before one of them has had a value
   raises IndexError (`components.py:485`), against "Runs until cancelled"
   (`:458`). `run_pc # "failed"` fails in `Barrier`.
6. *One host timeout can end a consumer of the twin.* The shared future is
   awaited unshielded (`runtime.py:452`); the consumer ends as cancelled, which
   `_task_done` ignores, and the twin runs on without it.
   `twin = "running" => \A c \in Internal : call[c] # "cancelled"` fails in
   `SharedSubtask`.
7. *A failed first start cannot be repaired.* `_stream_broker` is set before the
   start that may fail (`plugin.py:273`); afterwards callers are handed `None`
   for addresses (`:280`) and the supervisor unpacks that `None` in every round
   (`:303`), against "Respawn the stream broker if it dies." (`:283`).
8. *Barrier, hard streams.* "block all output until item is received"
   (`components.py:355`): an item goes out at once (`:434`); only the next
   one is held. `\A g, h \in Hard : Len(emitted[g]) <= sent[h]` fails.
9. *Barrier, soft streams.* "will output latest seen value when other streams
   resolve" (`:356`): a round also waits for a new value of some soft stream
   (`:411`). With fairness for hard streams only, the loop stalls.
10. *Barrier, late streams.* The number of permits is read when a round starts
   (`:470`); a stream registered later contributes permits that were not counted,
   and the round ends before a hard stream that was there delivered anything.
   If `Late` is not empty, `RoundComplete` fails, also for `Hard \ Late` alone.
11. *Inference on a dead twin.* `get_inference` (`runtime.py:993`) does not look at
   the state, against "a twin which is being torn down starts no new work"
   (`:722`). `[][Down => ~(infer # "running" /\ infer' = "running")]_vars` fails.
12. *The graph of a stopped twin.* `add_data_join` and `add_data_split_task`
    (`:1070`, `:1088`) do not call `_check_mutable`, against "both terminal states
    are terminal for the graph as well" (`:792`).
    `[][(state \in Terminal) => graph' = graph]_vars` fails.
13. *Evicted while pending.* "concurrent invocations wait for the same cache
    entry" (`runtime.py:409`) only while the entry is in the cache; `put_item`
    evicts pending futures too (`lru.py:86`). `ComputedOnce` without its premise
    fails.
14. *Session close beside twin_close.* "Stop every twin, then shut the engines
    down" (`session.py:468`) holds for the twins that are registered; one that
    a concurrent `twin_close` unregistered may still be coming down.
    `TwinsBeforeEngine` states exactly this exception.
15. *twin_close repeated.* A second call reports closed while the first still
    tears the twin down (`session.py:223`).
16. *Ids used again.* The id is free from that moment, so a new twin can bring up
    a stream client in the namespace of the old one, against "globally
    unique" (`plugin.py:163`).
17. *A broker after shutdown.* The thread of a cancelled start spawns its
    subprocess after `shutdown` found nothing to stop (`streaming.py:295-309`).
    `down = "done" => \A b \in Broker : ~Up(b)` fails.
18. *Dropped although needed.* `_put_to_dtype_queue` drops an item whose dtype has
    neither queue nor component (`runtime.py:1319`), also if a barrier waits
    for it, which then never completes a round.
    `[][dropped' # dropped => barriers = 0]_vars` fails in `Dataflow`.
19. *Late barriers are bypassed once.* The last barrier is looked up before the
    wait (`runtime.py:1343`), and items that were under way are overtaken; hence
    `RoundsAligned` and the order that `PipelineExact` states are about chains that
    were complete before items travelled; the rest is about all.
20. *Published without arguments.* `publish_new_model()` stores `None` for the
    arguments (`runtime.py:299`) and sets the event; the inference then raises
    TypeError at `**None` (`:1219`, `:1263`), which ends the twin if it was for a
    queued item. The callback
    of the same call gets `{}` instead (`:306`).
21. *An answer of None.* An inference task that returns `None` means no output for
    an investigator of the graph (`runtime.py:1220`) and an assertion error for an
    agent (`:1270`), which ends the twin.
22. *A sub-task registered too early.* It is copied to the investigators that are
    started (`runtime.py:458`), and `start_investigator` copies none (`:341`): one
    that is started later raises ValueError at its first call.
23. *Output that is input.* Children's callbacks for `ON_OUTPUT`, "send all output
    emitted by the agent" (`runtime.py:270`), are called with the input (`:1278`).
24. *Subscribed twice after all.* A feed unsubscribed while its subscription waits
    for the connection, and subscribed again, gets two callbacks, against "so I
    don't repeat" (`streaming.py:586`). `\A f \in Feed : callbacks[f] <= 1` fails in
    `StreamClient`.
25. *Feeds that share a channel.* To unsubscribe one of them removes the topic with
    the callbacks of all (`streaming.py:690`, `:476`); the others stay recorded and
    can therefore not be subscribed again. `SubscribedOnce` is about feeds whose
    topic is left alone.
26. *Waiting for a connection that never comes.* `connect()` fails, or `close()`
    comes first: `is_running` is not set, and who waits for it (`streaming.py:445`,
    `:463`) is not told. `(parked[f] > 0) ~> (parked[f] = 0)` fails for every feed.
27. *Losses are silent.* What a socket drops at its high-water mark
    (`streaming.py:449`), or a dying broker takes along, is lost, and neither side is
    told: "a respawn is invisible above this line" (`plugin.py:287`), and so is the
    gap it leaves. `[][\A t \in known : sent'[t] # sent[t] => wire' # wire]_vars` fails
    in `StreamClient`; `ItemsOnce` says what is kept nevertheless.
28. *close() may raise.* If the receive loop has ended by an error, `close()` awaits
    the ended task and raises that error (`streaming.py:495`), after releasing
    everything.

## Not modelled

- *ORBIT* (sessions' base class, HTTP), *asyncflow* (the execution engine) and
  *ZeroMQ* are not in the repository. An engine is built at any time or never;
  sessions are there from the start, and the host closes each once; whether the
  host cancels the handler of a request is open, and not modelled.
- Components' own code: an invocation returns, raises, is cancelled, or goes on.
- `freeze` of a sub-task's arguments is a key; payloads are numbers or absent.
- Stand-alone broker, sockets, codecs, wire format, configuration, printing of
  graphs: I/O or pure functions without shared state.
- In `Dataflow`: soft barriers within chains, barriers that span some of the
  dtypes, subscriptions of persistent components. The data join pairs n-th with
  n-th items by construction; it holds back a consumer from the third item on,
  which is more than the chains of this model bear in TLC.
- In `Models`: the callbacks of `subscribe_to_topic` and `model_publish_cb`; they
  are tasks of the runtime and change none of this state.
- In `StreamClient`: how the respawned broker and its clients find each other again,
  and when; it may take any time, or forever. `close()` during `connect()`. `connect_stream_client` hands
  out a client only when it is connected, so that nobody can.
- In `Requests`: the validation and decoding of bodies and the check of versions,
  which refuse a request before it changes anything; `describe` and
  `admin/sessions`, which only read; the cancellation of handlers by the host. The
  host's registry of sessions is external: what happens to a sid between
  `unregister_session` and the end of that call is modelled as a reattach.

Out of reach of the proofs, and left to TLC: liveness under fairness, and what is
ENABLED.

## Plan

Done: `Barrier` with `Rounds`, `Runtime` with `TwinLifecycle`, `SharedSubtask`,
`Session` and `Requests` with `TwinRegistry`, `StreamBroker`, `Dataflow`, `Models`,
`StreamClient`, and for each of them the proofs of its safety properties.

Next, in this order:

1. `Dataflow`: the join in an instance of its own, and subscriptions of persistent
   components, registered before or after their consumers.
2. The cancellation of request handlers by the host, in `Session`.
