# SimGear in TLA+

SimGear is the library under FlightGear: threads and queues, downloads of
scenery, the subsystems a simulator is made of, properties, scripting, and much
rendering. This directory holds TLA+ models of the parts of it in which steps of
several actors meet, configurations that check the models with TLC, and proofs
that TLAPS checks. Paths below are relative to `src/simgear/` unless they begin
with `src/`.

 1. [The system](#1-the-system)
 2. [The modules](#2-the-modules)
 3. [The runs](#3-the-runs)
 4. [Fairness](#4-fairness)
 5. [The proofs](#5-the-proofs)
 6. [Where code and comments disagree](#6-where-code-and-comments-disagree)
 7. [What is not modelled](#7-what-is-not-modelled)
 8. [Plan](#8-plan)

To run a model: `tlc -config TerraSync.cfg MCTerraSync`; to check proofs:
`tlapm TerraSync_proofs.tla`.

## 1. The system

The program runs a main loop on one thread. Every frame it calls
`SGSubsystemMgr::update` (and with it every subsystem) and polls the HTTP
client, the package root and the sockets. The library adds threads of its own:
the TerraSync worker, the BVH pager, the host name resolver, the log thread and
the exclusive thread on which Nasal may collect garbage while the frame is drawn.

Components with a life of their own, what they keep, and what is hard about them:

| component | state | operations | hard behaviour | correct when |
|---|---|---|---|---|
| `threads/SGThread`, `SGQueue` | a sticky ready flag, a deque, a mutex | wait, signal, broadcast; push, pop, clear | unlock and relock under a `lock_guard`, a notify that is skipped | mutual exclusion; no item lost, no wakeup lost |
| `SGExclusiveThread`, `nasal/NasalEmesaryInterface` | two flags under two mutexes, `_terminated`, two `_started` | release, awaitCompletion, terminate, ensure_running; five notifications | work handed over to a thread that is leaving | work done once handed over, waits return |
| `scene/tsync/terrasync` | two deques, `_stop`/`_running`, four sync slots | update, reinit, start, stop, scheduleTile...; the worker's loop | start and stop race with a thread that blocks on two different queues | stop returns, nothing is forgotten, threads start clean |
| `structure/subsystem_mgr` | groups of members with a state and a position, a name cache | bind, init, incrementalInit, postinit, shutdown, unbind, add, remove, get_subsystem | members that come and go between and during phases, groups in groups, exceptions | every member gets its calls in turn, what is removed is forgotten by the cache |
| `io/HTTPRepository` | active and queued requests, tasks, directories, hash cache | update, process, every answer to a request | callbacks that finish requests and start others; raw pointers in tasks | a clean end means the tree is in step; `isDoingSync` becomes false |
| `io/HTTPClient`, `HTTPRequest` | pending, connected and cancelled requests | makeRequest, cancelRequest, update | cancellation from inside a callback | each request answers once |
| `io/raw_socket` (resolver) | cache of addresses, a thread | lookup, lookupSync, cleanup | cache walked while the lock is given up | every name is looked up, cleanup returns |
| `debug/logstream` | queue of entries, entries kept at startup, callbacks | log, the thread's loop, stop, startLog, configuration | every configuration change stops and restarts the thread | each callback gets each entry once and in order, stop waits for the last word |
| `bvh/BVHPager` | request and result queues, list of nodes with use stamps that wrap | use, setUseStamp, update, start, stop | a result that arrives after its node has expired; an empty queue that is waited on | what is requested is loaded, what is unused expires and nothing else |
| `structure/event_mgr` | two heaps of timers, the timer that runs | addTask, addEvent, removeTask, init, shutdown, update | callbacks that add and remove timers, themselves too, and throw | what runs is what was asked for, once per interval |
| `emesary/Transmitter` | recipients, depth, pending deletions | Register, DeRegister, NotifyAll | reentrancy, a second thread | each recipient notified once |
| `package/Root`, `Catalog`, `Install` | queues of refreshes and installs, delegates | scheduleToUpdate, finishInstall... | results that come after a cancel | each install finishes once |
| `props` | tree, listeners, ties | setValue, add/removeChangeListener | listeners that remove listeners | a removed listener is not called |

How they interact: TerraSync's worker is an `SGThread` that takes items from an
`SGBlockingDeque` and gives each to an `HTTPRepository` driven by an
`HTTPClient` of its own; the log thread and the pager take theirs from an
`SGBlockingQueue`; `NasalMainLoopRecipient` turns notifications of the global
transmitter into calls of the exclusive thread; TerraSync is itself a subsystem
of the manager. `PROJECT.json` lists every component, the ones below that are
not modelled included, and every hazard at the line where it bites.

## 2. The modules

Every definition is translated from the code named in `PROJECT.json` ("map").

**`SGWaitCondition`** (`threads/SGThread.cxx:97-175`) is the condition variable
as steps of threads: `pc[t]` says where a thread is, `owner` who holds the
caller's mutex, `ready` is the flag. A critical section of the condition's own
mutex is one step: nothing else can see its middle. `signal` raises the flag and
notifies only if it was down; the notify comes after the unlock, so it is a step
of its own. The standard library (mutex, spurious wakeups, notify) is external.
The thread that calls wait holds its mutex: `Relock` takes it back.

**`SGWaitConditionUse`** is a program that uses the condition in every way there
is: waits with and without a time limit, any mixture of signal and broadcast.

**`SGBlockingDeque`** (`threads/SGQueue.hxx`) is `SGBlockingDeque`, which has all
that `SGBlockingQueue` has, on top of `SGWaitCondition`: the same steps, one per
call of the condition. `unused`, `taken` and `dropped` are history. Its abstract
specification is **`AtomicDeque`**: each call takes effect at one instant. The
refinement mapping calls a call "done" from its effect to its return.

**`SGExclusiveThread`** (`threads/SGThread.cxx:178-268` with
`nasal/NasalEmesaryInterface.cxx:60-125`) has one action per access to the two
atomics that the other thread could see in between. The main loop outside the
repository is any sequence of notifications; `inOrder` tells the well-behaved
one apart.

**`TerraSync`** (`scene/tsync/terrasync.cxx`) has two program counters, `main`
and `worker`. The calls of the main thread are broken where the other thread can
see them: `stop` is `StopClear`, `StopRunning` or `StopNotRunning`, `StopPush`,
`Join`; `isDirActive` is three looks at three places. The worker goes from
`Begin` (sets `_running`) through `FindServer`, `UpdateHttp`, the drain with its
two unlocked halves, the slots one after the other, to `Settle` and the sleep
`Unpark` ends. The deques are one step a call, as `SGBlockingDeque` was shown to
be. A repository is "busy until it is done, or has failed in one of the ways the
slot tells apart". A sync of any slot can fail to begin (`BeginSyncFails`): the
path of a tile is no good (`terrasync.cxx:715`), `update()` throws (`:662`), or an
OSM tile is not there to be had (`CannotSync`); the slot then keeps its queue and
is passed over. `pending` and `failed` are history.

**`SGSubsystemMgr`** (`structure/subsystem_mgr.cxx`) is single-threaded, so a call
is a step, and a group that the program got from `get_group` can be asked to add,
replace or remove a member behind the manager's back (`AddToGroup`, `Replace`,
`RemoveFromGroup`), the manager's own groups included. `life[s]` remembers the
last call a subsystem was given and becomes `"wrong"` when one comes out of turn
(`Turns`). `gstate` and `initPosition` are `_state` and `_initPosition` of each
group, of the groups inside groups too. `Join` is `set_subsystem`, `Leave` is
`remove_subsystem` with the destruction of what left; `Throws` is an exception out
of the i-th member, which leaves everything before it done and the state of the
group as it was. The cache tells "entry" from "stale": an entry whose object is
gone. What a subsystem looks up while it is told to shut down is part of the
removal (`LookedUpAgain`); `LookedUp` are the names that are looked up at all.
`interrupted` and `aside` are history: the program has changed something in the
middle of a phase, or a phase threw; and the names whose object left without the
manager having been asked to remove that name.

**`HTTPRepository`** (`io/HTTPRepository.cxx`, on top of **`HTTPClient`**, the
table of requests of `io/HTTPClient.cxx`) runs on one thread, but deep inside one
another's callbacks. `stack` is what remains to be done of the call that runs:
an answer (`GotIndex`, `NoIndex`, `GotFile`, ...) changes its entry and pushes
what it calls, and each step does the head of the stack: `get` is `StartRequest`,
`fail` is `FailedToUpdateChild`, `cancel` is `Cancel`, `finished` is
`FinishedRequest`, `refresh` is `UpdateChildren`, which asks for all
that is to be updated (`UpdateAllChildren`) or stops at a child that cannot be
hashed (`CannotHashChild`), and so on. A file or an index
is its version. `Above[e]` is the path of an entry, the least set that holds it
and, with an entry, its directory; `failures` is a bag, as the code only counts
them, looks for a path and removes it. `Update` is a call of an owner like
TerraSync, which drops a repository that has given up
(`scene/tsync/terrasync.cxx:627`): after a sync that was abandoned it does not
call `update()` while anything of that sync is left (section 6). Its abstract
specification is **`RepositorySync`**, what `TerraSync` relies on.

**`LogStream`** (`debug/logstream.cxx`) has the queue (a `SGBlockingQueue`, one
step a call), the thread with what it took last and how many callbacks have had
it, and one thread that configures, by `PauseThread`: `Pause`, `Join`, the change,
`Resume`. Entries are numbered. `stop()` logs its marker as anything else is
logged, so log deltas can change its priority, and the thread then takes it for an
entry (`LogMarker`): `deltas` says whether they do, and is chosen in `Init`.
`seen`, `due`, `since` are history.

**`BVHPager`** (`bvh/BVHPager.cxx`): the main thread's `use` (`UseListed`,
`UseRequested`), `SetUseStamp`, `update` (`Update`, `Insert` for each result,
`Inserted`, `Expire`), `start`, `stop`; the loader with the wait on its queue as
steps. Use stamps are numbers modulo `2 * Half`, the sign bit is "at least
`Half`". `age` and `lag` are history: what the stamps stand for, unwrapped.

**`SGEventMgr`** (`structure/event_mgr.cxx`) holds the actions of the event
manager. `table` is the heap of each queue (a set, of which a smallest is taken);
the timer that runs is in `current` and in no heap. **`MainLoop`** EXTENDS it with
what calls it (`structure/subsystem_mgr.cxx:397-432,852-891`): a group with or
without a fixed update time, a member with a minimum step that may be suspended
and throw. Callbacks and the other subsystems call anything (`Call`). `wanted`
and `gap` are history.

**`Resolver`** (`io/raw_socket.cxx:59-177`) EXTENDS `SGWaitCondition`: lock,
unlock and wait are its steps. The cache is a map from hosts, numbered in its
order, to "absent", "needed" or what came of the lookup; `Ahead` is what is left
of the worker's traversal, the entry it skips after a lookup not included.

The `MC*` modules give the constants small values. The `*_proofs` modules hold
theorems. A definition that follows the comment "Mutant" is a plausible mistake in
the code the definition after it models: put in its place, it violates a property
(`PROJECT.json`, "mutants").

## 3. The runs

| run | instance | what it shows |
|---|---|---|
| `wait_condition` | two waiters, two signallers, `MaxSignals` = 3 | a raised flag is not slept through, and is taken |
| `deque` | two producers, one consumer, two items, one clear | no item lost or doubled, no lost wakeup, implements `AtomicDeque` with its liveness |
| `exclusive_thread` | no constants: the whole state space | an awaited frame is alone; no sleep through a change; waits end when notifications are in order; terminate always returns; work handed over is done |
| `terrasync` | a terrain tile, an OSM tile, the airports and models every start asks for; `MaxErrors` = 2, `MaxRequests` = 2, `MaxToggles` = 1 | the handshake of stop, clean starts, every request accounted for, the worker sleeps only without work or behind a sync that failed to begin |
| `terrasync_live` | what a start asks for and a terrain tile, one request; one error, one toggle | stop returns, an enabled TerraSync runs again, items get their turn unless they are behind a sync that failed to begin |
| `subsystems` | two groups, one plain subsystem and one group with a member in the first, one subsystem in the second | calls come in turn, nobody is left out, what the manager removes by name is not found in its cache again, step-by-step initialisation ends |
| `repository` | a root with a file and a directory, and in that a directory, an archive and a directory that is to go; two requests at a time, two failures abandon | the queue is throttled and never stranded; active requests are under way; tasks have their directory; a clean end means in step; a sync ends; the verdict stands (`RepositorySync`) |
| `repository_destroy` | the same | finding: requests stay in the client when the repository is deleted |
| `log_stream` | two callbacks, three entries, one thread that is not created; with and without log deltas | each callback gets its entries once and in order; changes do not meet the thread; stop waits for the last word; a change ends where no delta moves the marker |
| `pager` | two nodes, stamps modulo 4, expiry 1, one request pending at most | what is requested is loaded or will be; exactly the unused expires; uses are answered, stop returns |
| `main_loop` | two repeating tasks and one event, frames of 0 to 2 units, fixed update time 0 or 2, minimum step 2 | what is scheduled is what was asked for; once per interval; each task gets its turn |
| `resolver` | two callers, three hosts | the worker does not sleep on work, every host is looked up, cleanup returns |

Why the bounds are enough. *Wait condition:* `MaxSignals` = 3 lets two signals
meet a flag that is up and a third come after it was consumed; two waiters are
needed for one to take the flag the other was notified for. *Deque:* two items are
needed for the push that finds the flag up. Items are never reused, which makes
the instance finite and lets `ExactlyOnce` be stated. *TerraSync:* every loop of
the worker visits all four slots; Airports and Models share slot 1, so one of them
queues behind the other; every slot can fail to begin a sync, the OSM tile also
because its server has none, and a data directory's slot behaves as the tile's
does, so no run asks for one; two requests let one arrive during a sync; one
toggle lets TerraSync be disabled and, with `reinit` and the pause after errors,
started again. `MaxErrors` is the program's property of that name, counted up to
its value and no further. *Subsystems:* the first group has two members, so that
one can be initialised before the other comes or goes, one of them is a group; the
second group is there so that the manager's own position moves; one name of a
group and one inside it are looked up, so that a name goes with the group around
it. *Repository:* more entries than requests at a time, so that some wait; two
directories in one directory, one of them not in its new index: after a sync with
the old index both have objects, and the one is removed while the other waits for
its task; limits of 5, 16 and 16 in the code are 2, all of them reached. *Log
stream:* `MaxLogged` = 3 lets one entry be kept, one be with the thread and one be
behind a marker; two callbacks, one of them from the start or none. `MaxUnborn`
counts the threads that cannot be created. With deltas a `stop()` never returns,
so the safety properties then hold up to the first change. *Pager:* two bits of
stamp wrap after a few steps; with `Expiry` = 1 the stamp may run `MaxLag` = 2
ahead between updates, which reaches the last value the sign bit tells right;
`MaxPending` bounds the queue, so that it can be empty and not. *Main loop:* a
minimum step of 2 makes members skip frames of 1; `MaxElapsed` is beyond every
delay and interval; one exception is tolerated, the second suspends. *Resolver:*
three hosts, so that the entry that is skipped, the one looked up and one that is
marked meanwhile differ; a fourth adds no case.

Deadlock is checked in `subsystems`, `main_loop` and `pager`, where some call is
always possible. The other systems stop legitimately: every consumer may wait for
ever when nothing more is pushed, a bounded program has no call left to make, a
deleted TerraSync does nothing, the log and the resolver end with the program.

## 4. Fairness

- A thread in the middle of a call is scheduled again: `WF` of each thread's
  steps. Nobody is obliged to begin a call, to signal, to push, to log or to send
  a notification: no fairness on those.
- A thread that waits for a `std::mutex` gets it in the end although others take
  it again and again: `SF` of `Lock` and `Relock` in `SGBlockingDeque`, of the
  worker's steps and of each caller's in `Resolver`. The
  standard does not promise it, implementations and their schedulers provide it.
  In `SGExclusiveThread` and `TerraSync` a critical section is one step, or two
  with the mutex free again whatever the other thread does next, and `WF` of
  each thread suffices.
- TerraSync: `update` is called every frame (`WF_vars(Update)`), time passes, a
  repository does not sync for ever (`SF` of `FinishSync` for each slot; `SF`
  because the worker looks at the slot only once per loop), and neither
  the creation of a thread nor that of the directory fails for ever (`SF` of
  `StartThread` and `StartAllowed`). Failing for ever is allowed for everything
  else: servers that are never found, syncs that always fail.
- Subsystems: a program that has begun to initialise step by step calls
  `incrementalInit` again (`WF`), which FlightGear's main loop does every frame.
- Repository: a call that runs goes on (`WF` of `Continue`), `process` is called
  and the client polled again and again (TerraSync's worker does both in each of
  its loops, `SF` since calls alternate), every request is answered, with a
  failure if need be, and an archive comes to an end.
- Log stream: the log thread is scheduled and a change that has begun goes on.
- Pager: the loader is scheduled, and the program calls `update` again and again,
  as `BVHPager.hxx` asks for (`SF`: between other calls).
- Main loop: a frame goes on, callbacks return or throw, and the frames are not
  all of them paused (`SF` of a frame that takes time).
- Spurious wakeups may happen at any time and need not happen.

## 5. The proofs

All theorems hold for every value of the constants under the assumption named in
the module (`NoThreadAssumption`, `UseAssumption`, `DequeAssumption`,
`TerraSyncAssumption`, `SubsystemAssumption`, `LogStreamAssumption`,
`ResolverAssumption`, `PagerAssumption`, `EventMgrAssumption`,
`MainLoopAssumption`, `RepositoryAssumption`), which say only that different names
are different, that bounds and times are natural numbers; for the pager, that
`expiry` and the advance of the stamp between two updates are within half the
range of the stamps; and for the repository, that limits are at least 1 and the
entries are finitely many and a tree: every path comes to the root, and no entry
is on the path of its own directory.

**`Threads_proofs`**, the deque: `DequeTypeOK`, `DequeMutualExclusion`,
`DequeExactlyOnce`, `DequeImplementsAtomicSteps`, and `DequeNoLostWakeup` (for one
consumer). `MutualExclusion` is inductive only together with the types and with
`Roles` (who can be at which step): that is `SyncInv`, which does not mention
items. The types of the data follow under it (`DataInv`). `NoLostWakeup` needs
both: an item arrives only with a push, a push goes on to signal, and the flag
goes down only in the hands of the one consumer, who then is no longer waiting.
`ExactlyOnce` does not say that an item that was dropped is not pushed again or
that two producers hold different items; `OnceInv` says that an item is at every
moment in exactly one of five places. The refinement is the safety half of
`ImplementsAtomicDeque`: every step is one of the atomic deque or a stutter,
because a thread is in a call exactly from its beginning to its return (`InCall`).

The condition by itself: `UseTypeCorrect` and `NobodySleepsThroughASignal`, for
any number of threads that wait and signal. The property is inductive as it
stands, with the types; one lemma (`MovesOn`) serves every step of one thread that
does not raise the flag.

The exclusive thread: `ExclusiveTypesHold`, `ExclusiveNoSleepThroughChange`,
`ExclusiveAwaitedFrameIsAlone`. It has no constants and TLC explores all of it; what
the proof adds is why: the flags take turns (`FlagsTakeTurns`), one of them is up
at most (`OneFlag`), and a frame that has waited finds its work given back and
hands none over before it ends (`AloneAtRest`). Together they are inductive.

**`TerraSync_proofs`**: `TerraSyncTypeOK`, `TerraSyncStopHandshake`,
`TerraSyncStartsClean`, `TerraSyncAccountsForRequests`,
`TerraSyncSleepsWithoutWork`. `ControlInv` joins the handshake, the clean start and
`HandsEmpty` (drain holds an item only between its two halves), each of which
needs the others; `DataInv` types the queues and slots under it.
`EveryRequestAccountedFor` is inductive under both: the lemmas about `Requests`
say how the number of requests in a sequence changes with an item at either end
(a bijection of positions, no induction). That the worker sleeps without work
needs the progress of its loop (`LoopInv`): an item is queued in its own slot, and
the slots behind the loop are served: they sync, are empty, or have failed to
begin.

**`SGSubsystemMgr_proofs`**: `TypeCorrect`, `CallsComeInTurn`, `NoneIsLeftOut`,
`RemovalLeavesNoDeadEntry`, for any number of groups, subsystems and groups inside
them. `LifeCycle` says nothing of how a group knows what to tell whom, so the
inductive invariant `IInv` does: the state of a group, and for a bound group its
position, determine what each member was told last (`MembersTold`, `Expected`); a
group inside a group is in the state it was told of, and has begun step-by-step
initialisation only if the group around it has (`SubGroupsFollow`); positions stay
in their lists (`PositionsInRange`); the states of the manager's groups follow the
phase (`PhaseInv`). The types and what the cache remembers (`TypeInv`) hold
whatever the program does: an entry is dead only for a name that left with the
group around it, or through a group, and has not been removed by the manager since
(`RemovedIsForgotten`); the rest (`InStep`) as long as it is not `interrupted`.
One lemma serves all the phases (`SweepKeeps`: telling a set of groups the same
keeps the invariant); the step of `incrementalInit`, the member that joins and the
member that leaves have one each. `IInv` was first checked with TLC on the
instance of `subsystems`.

**`LogStream_proofs`**: `TypeCorrect`, `EachEntryOnce`, `ChangesExclusive`,
`LastWord`, for any callbacks and any number of entries. The queue holds what has
been logged after the entry the thread took last, in order, with markers in
between, and each callback's entries are a run of numbers (`DataInv`); the
callbacks are different ones and owed something (`CallbackInv`); what is kept is
the run since startup logging was switched (`SavedInv`), so that a callback that
is given what is kept goes on where the thread left off; where the thread and
the configuring thread can be at once, and that the marker being waited for is
queued behind everything logged before, unless deltas move it (`ThreadInv`,
`StopInv`). Runs are
functions, so that appending to one is a lemma and no induction is needed.

**`Resolver_proofs`**: `TypeCorrect`, `ResolverNeverSleepsOnWork`, for any callers
and hosts. After a lookup the traversal of the cache passes over its first entry
(`Skipped`). If that is needed it was marked since the traversal began, so a
signal is there that the wait has not consumed (`SkippedIsPoked`); a traversal
that comes to the end has therefore nothing behind it, or the flag to keep it
awake (`WaitsForNothing`). That there is a first entry, the least host, is a use
of well-founded induction on the numbers. `Roles` and `AsleepIsNotified` say who
can be where, as for the deque.

**`BVHPager_proofs`**: `TypeCorrect`, `PagerExpiresExactlyTheUnused`,
`PagerLosesNoRequest`, for any nodes and any width of the use stamps. Expiry
decides by the sign bit of a difference of stamps and stops at the first node in
use, so the invariant (`ExpiryInv`) says what a stamp is, the age of its node
back from the stamp of the pager modulo the range, that no age exceeds `expiry`
by more than the stamp has come since the last update (`StampsAreAges`), and that
the list is ordered by age and has every node once (`ListOrdered`). For the
requests, the null request is the last one and a thread that ends leaves nothing
behind (`StopComesLast`), so what is listed is at every moment in one of the two
queues, in the loader's hands, or there (`NothingLost`).

**`MainLoop_proofs`**: `TypeCorrect`, `QueuesHoldWhatWasAskedFor`,
`OncePerInterval`, for any tasks, intervals, delays and frame times. What is
scheduled needs `NamesInPlace`: a name is in its own queue, once at most, and a
repeating task that runs is not also waiting. For the pace, `Pending` is the time
that has passed and that a task's queue has not been told yet: kept back by the
member, in the frame under way, or the real time that the second queue gets when
the first is done. What is left of a waiting timer, plus the time since the task
ran, less what is pending, is an interval at least (`InTime`), and time that
passes, is skipped, handed over or told changes none of that sum.

**`HTTPRepository_proofs`**: `TypeCorrect`, `RequestsAreThrottled`,
`NoTaskOutlivesItsDirectory`, `RepositoryAndClientAgree`,
`RepositoryKeepsItsPromise` (the refinement of `RepositorySync`, all of it: that
specification has no fairness) and `ACleanSyncIsInStep`, for any tree, any two
versions of it, any limits, and any order of answers. What has to be ruled out is
that a callback, at some depth of the call stack, meets what an earlier one has
left. The inductive invariant `IInv` has these parts:

- `Typed`: which calls can be above which on the stack (`Shape`). `process` and the
  destructor are outermost, a task is taken out of the queue when all it has led
  to is done, requests are cancelled by the destructor or by a sync that gives up.
  Without it a `finished` might come before what its answer has yet to schedule,
  and the sync would end early.
- `Lists`: nothing is listed twice, and what is being finished is listed and has
  been answered.
- `Order`: an entry is to be asked for, to be looked into, a task, queued or under
  way, one of these at a time, and while anything is to be done for it nothing is
  for what is inside it. What has been done and is still listed has nothing left
  to do inside it, unless it is being looked into. This is why removing an orphan with all
  inside takes no directory from under a task (`TasksHaveTheirDirectory`), and
  why a second look at a directory does not ask for an entry again.
- `Accounts`, `Cancels`, `Quiet`: every active request is under way or being
  finished, but for the one an exception has left behind; each is cancelled
  once; nothing is left when no sync is going on and none has failed. `Quiet` is
  what an `update()` after an abandoned sync would break.
- `Content`: what is on disk is in a directory that is; what is asked for is in
  the index of its directory; and in a sync that nothing has taken apart, a
  directory is in step with its index but for what is still to be done or has
  failed, for it, for a directory it is in, or for a child that was asked for
  (`Excused`, `Settled`). At the end of a clean sync nothing is to be done and
  nothing has failed, so everything is settled.

The parts need one another: removal of orphans keeps `Content` only because of
`Order`, and `Order` is kept by a finished request only because of `Accounts`.
The lemmas come first: paths (what is inside what, by least closed sets instead
of induction), lists without repetition, the stack; then what a change of the
lists does to each part (`ContentStands`, `ContentOfAnswer`, `ContentOfChildren`),
then one lemma for each action. `IInv` was first checked with TLC, on trees that
`repository` has and on others.

Model-checked only: every liveness property (`FlagGetsConsumed`, `AwaitEnds`,
`TerminateReturns`, `WorkIsDone`, `StopReturns`, `RunsWhenEnabled`,
`ItemsGetTheirTurn`, `InitEnds`, `SyncEnds`, `PauseEnds`,
`RequestsAndStopAreAnswered`, `TasksRun`, `LookupsAndCleanupEnd`) and the
fairness of `AtomicDeque`: temporal proofs under fairness are out of the prover's
reach. Every other property of a passing run is a theorem.

## 6. Where code and comments disagree

One has a run that shows it and an entry under "findings":

- *Requests that outlive their repository.* The destructor cancels a copy of the
  active requests; each cancellation finishes its request, which starts a queued
  one, and that one stays in the client with pointers into directories that are
  gone (`io/HTTPRepository.cxx:1402,1494`). `io/test_repository.cxx:735` expects
  the client to be empty.

For the following the models have a definition that TLC refutes; add it to the
configuration named to see the trace (no run has it):

- *A broadcast that wakes one* (`BroadcastWakesAll`, a `PROPERTY` for
  `WaitCondition.cfg`). All waiters are notified, the first to test the flag takes
  it and the others sleep on; `threads/SGThread.hxx:130` says that all are woken.
- *A signal that is kept* (`NothingHappensUnwaited`, the same). With nobody waiting
  the flag stays up and the next wait returns at once; `SGThread.hxx:123,131` say
  that nothing happens. `SGBlockingQueue` depends on neither.
- *Two consumers on one deque* (`BlocksOnlyWhenEmpty`, `Deque.cfg` with
  `MCOneProducer` and `MCTwoConsumers`). Two pushes before the first consumer has
  tested the flag are one notify; `threads/SGQueue.hxx:270` says the deque blocks
  when no items are available. No use in the library has two consumers.
- *A wait that never ends* (`AwaitAlwaysEnds`, `Exclusive.cfg`). `terminate()`
  without a thread leaves `_terminated` up; the next thread ends at once and
  `awaitCompletion` waits for ever (`threads/SGThread.cxx:220,253`).
- *A stop that is slept through* (`StopEndsTheThread`, a `PROPERTY` for
  `TSLive.cfg`). `stop()` pushes an item to wake the thread
  (`scene/tsync/terrasync.cxx:397`), and a thread woken by it sees `_stop`; only
  where the item is drained into a slot by a thread past that test, and the start of
  that sync fails, the thread goes back to sleep and `stop()` joins for ever. It
  takes an `update()` that throws, which the repository's does not do today.
- *The Stop item as a directory* (`StopIsNoDirectory`, `TerraSync.cfg`). A worker
  past its test of `_stop` drains the Stop item and syncs the directory `""`
  (`scene/tsync/terrasync.cxx:822,905`).
- *Deleted while running* (`DeletedAfterRun`, `TerraSync.cfg`). `stop()` does not
  join a thread that has not set `_running` yet, and the destructor goes on
  (`terrasync.cxx:394`).
- *Removed without shutdown* (`MembersTransitionCorrectly`, `Subsystems.cfg`). A
  group in the middle of step-by-step initialisation says it is bound; a member it
  has initialised is removed without `shutdown()`
  (`structure/subsystem_mgr.cxx:710`). The same property fails for a member added
  between shutdown and unbind, which is not bound and then unbound, and for one
  replaced by name, which is dropped without either.
- *A dead pointer in the cache* (`NoDeadPointerInCache`, `Subsystems.cfg`). When a
  group leaves, only its own name is cleared; its members are found and cached
  again while they are shut down (`subsystem_mgr.cxx:706`). And a member that is
  removed or replaced through a group from the public `get_group`
  (`subsystem_mgr.hxx:565`), one of the manager's own included, stays in the
  manager's cache: `get_subsystem` then returns a pointer to what is gone. Hence
  the property of the run speaks of removal by the manager only.
- *A marker that does not end the log thread* (`MarkerEndsTheThread`, a `PROPERTY`
  for `LogStream.cfg`). `stop()` logs "a special marker value, which will cause the
  thread to wakeup, and then exit" (`debug/logstream.cxx:306-308`); with
  `SG_LOG_DELTAS='=1'`, which `debug/logdelta.hxx:31-32` gives as an example,
  its priority is not the one that `run()` compares with (`logstream.cxx:280`): the
  callbacks are given the entry "done" and `stop()` does not return.
- *Loaded nodes that cannot expire* (`LoadedNodesCanExpire`, `Pager.cfg`). A node
  that expires while it is being loaded is filled by the next `update`, when it
  is no longer in the list that `bvh/BVHPager.cxx:173` keeps "so that they can
  expire"; it stays loaded until it is used again.

One is left out of the model by the guard of `Update`:

- *An update after a sync that gave up.* `failedToUpdateChild` cancels the active
  requests from deep inside a callback, and when the last one is finished
  `isUpdating` goes down, although its callers may go on to ask for more children
  (`io/HTTPRepository.cxx:1532-1551`). An `update()` at that moment would start on
  top of that: an entry could be asked for twice, and a task be run whose
  directory has been deleted. It showed when the proof of
  `TasksHaveTheirDirectory` failed. `HTTPRepository.hxx` does not forbid it; TerraSync, its owner,
  and the tests do not do it: they drop the object once `isDoingSync` is false.

Seen while modelling, present in the models, and excepted from the properties
where they would fail:

- `isDirActive` misses the directory that `drainWaitingTiles` holds in a local
  variable, and finds one whose slot failed to start it, which is no longer queued
  but still the slot's current item (`terrasync.cxx:654,904`); `terrasync.hxx:61`
  promises the contrary of the first. The cost is one request too many, or one
  that is not made. What is queued behind a sync that failed to begin stays so
  until something else wakes the worker (`SleepsBehindFailure`).
- The work that `terminate()` hands over to a thread that is already leaving is
  done by the next one, in a frame that does not wait for it.
- `removeTask` before `init()` does nothing, as the queues "have all been cleared"
  (`structure/event_mgr.cxx:94-99`); tasks may have been added before, and run. A
  repeating task whose callback throws is lost (`:149`); one that calls
  `shutdown()` is put back into the queue that was cleared (`:154-157`).
- After an exception a member's `elapsed_sec` is kept
  (`structure/subsystem_mgr.cxx:867-871`), so that time the event manager has
  counted is counted again. `exceptionCount` is never reset (`:876`): a subsystem
  that is resumed is suspended again at its next exception.
- With a fixed update time the remainder is taken of this frame's time, not of
  the sum with the remainder before (`:404-407`): time is lost, and with frames
  shorter than a quarter of the step members are never updated. The real-time
  queue is advanced by the same property in each loop.
- The resolver's traversal skips the first entry after a lookup
  (`io/raw_socket.cxx:153`); the flag that its `lookup` raised, kept since, brings
  the thread round again. A lookup that failed is stored as an address (`:148`).
  `lookupSync` of a host that another caller has marked returns without an address
  (`:124`).
- `startLog` ignores what `start()` returns (`debug/logstream.cxx:253`): the marker
  the next `stop()` leaves behind ends the thread that comes after.

## 7. What is not modelled

Of the modelled components: in `subsystem_mgr` reinit, delegates, the destructor,
calls back into the manager other than lookups, and the order of members within
one phase (members do not see one another in the model); in `terrasync` the choice
of a server, statistics, the property nodes written by `update`, the tarball
filter of airports; in `HTTPRepository` the filter, copying of installed children,
the file of hashes, exceptions inside tasks, a write that fails without saying so
(`io/HTTPRepository.cxx:1336`), and an index that someone deletes or edits on disk
(the date sent with a request is that of the index as received, so that a 304
means it is the server's); in `HTTPClient` libcurl and the contents of requests;
in `logstream` the test of levels before an entry is made, formatting, deltas that
change while the program runs, and two threads that configure at once (nothing
keeps them apart, `debug/logstream.cxx:298`); in `MainLoop` exceptions other than
`sg_exception`: `bad_alloc` is caught and not counted, and any other leaves the
frame (`structure/subsystem_mgr.cxx:872-882`); in `event_mgr` the arithmetic of
doubles (times are whole numbers) and several tasks of one name; in `raw_socket`
the creation of the resolver, which two first callers could do twice, and the
sockets; `SGLockedQueue`, a queue under a mutex without a user. Plain flags that
two threads touch without a lock are taken as atomic.

Of the rest: rendering (scene graph, canvas, sky, materials) belongs to
OpenSceneGraph's frame; `math`, `magvar`, `ephemeris`, `environment`, `bucket`
are numerical; XML, METAR, tar and binary readers are parsers; the Nasal
interpreter and `3rdparty` are vendored. They make up most of the code: what is
modelled is small beside it, and is where the threads and callbacks meet. Each is
listed under "components" with its reason.

## 8. Plan

What would come next, in this order:

1. **`Transmitter`** (`emesary`): reentrant registration, recipients that leave
   while they are notified; then a second thread.
2. **`PackageRoot`**: queues of refreshes and installs, results after a cancel.
3. **`StateMachine`**, **property listeners** that remove listeners.
4. Proofs about these, as they come: every safety property that a run checks now
   is a theorem.

Twelve runs is what stays readable here; as components come, the runs of finished
components make room.
