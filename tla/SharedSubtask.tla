--------------------------- MODULE SharedSubtask ---------------------------
(***************************************************************************)
(* One shared sub-task of an agent: the memoising wrapper built by         *)
(* RuntimeAPI.register_shared_subtask and the LRUCache of lru.py it keeps. *)
(*                                                                         *)
(* The cache holds futures, stored before they are done, so that calls     *)
(* with the same arguments (a Key) share one computation.  Neither lock is *)
(* ever held across a suspension, so the wrapper is one step up to its     *)
(* "await fut".  A future is named after the call that created it.         *)
(*                                                                         *)
(* Internal calls come from components that a consumer task of the twin    *)
(* runs; the others from inference requests of the host, under a timeout.  *)
(*                                                                         *)
(* The names are its own, so that it can be extended beside Models.        *)
(***************************************************************************)
EXTENDS Naturals, FiniteSets, SequencesExt

CONSTANTS
    Caller,     \* the calls of the wrapper
    Internal,   \* those made inside the twin's own tasks
    Key,        \* their frozen arguments
    NoKey,
    MaxSize     \* lru_size

ASSUME SharedAssumption ==
    /\ Internal \subseteq Caller
    /\ MaxSize \in Nat
    /\ NoKey \notin Key

VARIABLES
    call,      \* per call: "idle", "waiting", or how it ended
    waits,     \* per call, the future it awaits
    future,    \* per future: "none", "pending", or its outcome
    doomed,    \* futures that were cancelled and have not ended
    arg,       \* per call, its key
    cache,     \* the cached items [key, fut], the least recently used first
    used,      \* history: the keys of all calls so far
    twin,      \* the state of the twin the agent belongs to
    torn       \* has its teardown cancelled the twin's tasks

subtaskVars == <<call, waits, future, doomed, arg, cache, used, twin, torn>>

Outcome == {"value", "error", "cancelled"}

SubtaskInit ==
    /\ call = [c \in Caller |-> "idle"]
    /\ waits = [c \in Caller |-> c]
    /\ future = [c \in Caller |-> "none"]
    /\ doomed = {}
    /\ arg = [c \in Caller |-> NoKey]
    /\ cache = <<>>
    /\ used = <<>>
    /\ twin = "running"
    /\ torn = FALSE

Cached_done(k) ==    \* mutant: only finished results are cached
    \E i \in DOMAIN cache : cache[i].key = k /\ future[cache[i].fut] # "pending"
Cached(k) == \E i \in DOMAIN cache : cache[i].key = k
Place(k) == CHOOSE i \in DOMAIN cache : cache[i].key = k
Item(k) == cache[Place(k)]

\* LRUCache.fetch_item: the key becomes the most recently used.
Touched_not(k) == cache    \* mutant: eviction in order of insertion
Touched(k) == Append(RemoveAt(cache, Place(k)), Item(k))

\* LRUCache.put_item of a new key: the oldest one goes if there are too many.
Inserted(item) ==
    IF Len(cache) + 1 > MaxSize THEN Tail(Append(cache, item)) ELSE Append(cache, item)

\* fetch_wrapper() up to its await: the cached future, or a new one.
Invoke(c, k) ==
    /\ call[c] = "idle"
    /\ call' = [call EXCEPT ![c] = "waiting"]
    /\ arg' = [arg EXCEPT ![c] = k]
    /\ used' = Append(used, k)
    /\ \/ /\ Cached(k)
          /\ cache' = Touched(k)
          /\ waits' = [waits EXCEPT ![c] = Item(k).fut]
          /\ UNCHANGED future
       \/ /\ ~Cached(k)
          /\ cache' = Inserted([key |-> k, fut |-> c])
          /\ future' = [future EXCEPT ![c] = "pending"]
          /\ waits' = [waits EXCEPT ![c] = c]
    /\ UNCHANGED <<doomed, twin, torn>>

\* The computation ends: it returns, raises, or minds having been cancelled.
FutureEnds(f) ==
    /\ future[f] = "pending"
    /\ \E o \in {"value", "error"} \cup (IF f \in doomed THEN {"cancelled"} ELSE {}) :
         future' = [future EXCEPT ![f] = o]
    /\ doomed' = doomed \ {f}
    /\ UNCHANGED <<call, waits, arg, cache, used, twin, torn>>

\* Cancelling a task that awaits a future cancels that future; the task goes on
\* with whatever the future then yields.
Cancel(C) ==
    doomed' = doomed \cup {f \in Caller : /\ future[f] = "pending"
                                       /\ \E c \in C : call[c] = "waiting" /\ waits[c] = f}

\* Mutant: the caller leaves a shielded future behind.
TimesOut_shielded(c) ==
    /\ c \notin Internal
    /\ call[c] = "waiting"
    /\ call' = [call EXCEPT ![c] = "cancelled"]
    /\ UNCHANGED <<waits, future, doomed, arg, cache, used, twin, torn>>

\* The host's timeout for a call from outside.
TimesOut(c) ==
    /\ c \notin Internal
    /\ call[c] = "waiting"
    /\ Cancel({c})
    /\ UNCHANGED <<call, waits, future, arg, cache, used, twin, torn>>

TwinStops ==
    /\ twin = "running"
    /\ twin' = "stopped"
    /\ UNCHANGED <<call, waits, future, doomed, arg, cache, used, torn>>

\* The teardown of a twin that stopped or failed cancels its tasks.
TwinCancels ==
    /\ twin # "running"
    /\ ~torn
    /\ torn' = TRUE
    /\ Cancel(Internal)
    /\ UNCHANGED <<call, waits, future, arg, cache, used, twin>>

\* A call resumes with the outcome of its future.  In a task of the twin, an
\* error fails the twin (_task_done), a cancellation ends the task unnoticed.
Resume(c) ==
    /\ call[c] = "waiting"
    /\ future[waits[c]] \in Outcome
    /\ call' = [call EXCEPT ![c] = future[waits[c]]]
    /\ twin' = IF c \in Internal /\ future[waits[c]] = "error" /\ twin = "running"
               THEN "failed" ELSE twin
    /\ UNCHANGED <<waits, future, doomed, arg, cache, used, torn>>

SubtaskNext ==
    \/ \E c \in Caller : \/ \E k \in Key : Invoke(c, k)
                       \/ FutureEnds(c) \/ TimesOut(c) \/ Resume(c)
    \/ TwinStops
    \/ TwinCancels

SubtaskSpec == SubtaskInit /\ [][SubtaskNext]_subtaskVars

-----------------------------------------------------------------------------
\* Types of the state.
SubtaskTypeOK ==
    /\ call \in [Caller -> {"idle", "waiting"} \cup Outcome]
    /\ waits \in [Caller -> Caller]
    /\ future \in [Caller -> {"none", "pending"} \cup Outcome]
    /\ doomed \subseteq Caller
    /\ arg \in [Caller -> Key \cup {NoKey}]
    /\ cache \in Seq([key : Key, fut : Caller]) /\ Len(cache) <= MaxSize
    /\ used \in Seq(Key)
    /\ twin \in {"running", "stopped", "failed"}
    /\ torn \in BOOLEAN

\* The last use of key k was before that of l.
Before(k, l) ==
    \E j \in DOMAIN used : used[j] = l /\ \A i \in DOMAIN used : used[i] = k => i < j

CachedKeys == {cache[i].key : i \in DOMAIN cache}

\* The cache is LRU (fetch_item, put_item): after any calls it holds keys in the
\* order of their last use; and if it does not hold all keys ever used, it is full
\* of those used after the others.
CacheIsLRU ==
    /\ SubtaskTypeOK
    /\ CachedKeys \subseteq ToSet(used)
    /\ \A i, j \in DOMAIN cache : i < j => Before(cache[i].key, cache[j].key)
    /\ \A k \in ToSet(used) \ CachedKeys :
          Len(cache) = MaxSize /\ \A l \in CachedKeys : Before(k, l)

\* A computation in progress is always awaited (fetch_wrapper): cancelling those
\* who wait is enough to cancel it, so that a teardown, which knows nothing of
\* these futures, leaves none running that no task is waiting for.
NoOrphans ==
    \A f \in Caller : future[f] = "pending" =>
        \E c \in Caller : call[c] = "waiting" /\ waits[c] = f

\* One computation per key (fetch_wrapper), until there have been more keys than
\* the cache holds: whoever calls, concurrently or later, gets the one future,
\* whatever became of it.
ComputedOnce ==
    Cardinality(ToSet(used)) <= MaxSize =>
        \A c, d \in Caller :
            call[c] # "idle" /\ call[d] # "idle" /\ arg[c] = arg[d] => waits[c] = waits[d]
=============================================================================
