------------------------------ MODULE TerraSync ------------------------------
(***************************************************************************)
(* SGTerraSync and its WorkerThread (simgear/scene/tsync/terrasync.cxx).   *)
(*                                                                         *)
(* Two threads.  The main thread calls update() every frame, asks for      *)
(* directories and starts and stops the worker; the worker moves the       *)
(* requested items from waitingTiles to four slots, each of which syncs    *)
(* one directory at a time through a HTTPRepository.  They share           *)
(*   - waitingTiles and _freshTiles, two SGBlockingDeques: one step a call,*)
(*     which is what SGBlockingDeque implements;                           *)
(*   - _stop, _running, _state, guarded by _stateLock;                     *)
(*   - the slots, which isDirActive reads under _stateLock and the worker  *)
(*     writes without it.                                                  *)
(*                                                                         *)
(* An item is identified by its directory, as isDirActive does; its type   *)
(* follows from it.  A HTTPRepository is "busy until it is done, with one  *)
(* of three results".  Transfer statistics are left out.                   *)
(***************************************************************************)
EXTENDS Integers, Sequences, FiniteSets

CONSTANTS Tiles, OsmTiles, DataDirs,   \* the directories one can ask for
          Airports, Models,            \* asked for at every start
          Stop,                        \* SyncItem(), of type Stop, and "no item"
          MaxErrors,                   \* the max-errors property
          MaxRequests, MaxToggles      \* bounds: calls of the main thread

Dirs == Tiles \cup OsmTiles \cup DataDirs
Items == Dirs \cup {Airports, Models, Stop}

ASSUME TerraSyncAssumption ==
    /\ Airports \notin Dirs /\ Models \notin Dirs /\ Stop \notin Dirs
    /\ Airports # Models /\ Airports # Stop /\ Models # Stop
    /\ Tiles \cap (OsmTiles \cup DataDirs) = {} /\ OsmTiles \cap DataDirs = {}
    /\ MaxErrors \in Nat \ {0}
    /\ MaxRequests \in Nat /\ MaxToggles \in Nat

VARIABLES
    enabled, paused,    \* the enabled property; _retryTime lies ahead
    requests, toggles,  \* bounds: calls made
    main,               \* where the main thread is
    caller, after,      \* where it goes when reinit, and when stop, returns
    dir,                \* the directory it is asking about
    sawRunning,         \* worker_running in update
    started,            \* SGThread::_started
    running, stop,      \* _running, _stop
    server, osm,        \* _state._hasServer; _osmCityServer is not empty
    errors,             \* _state._consecutive_errors, capped at MaxErrors
    busyFlag,           \* _state._busy
    waiting,            \* waitingTiles
    fresh,              \* _freshTiles is not empty: update pops them all
    slots,              \* _syncSlots; `failed' is history: its last start failed
    worker, next, k,    \* where the worker is; drain's `next'; the loop's slot
    pending             \* history: requests neither reported nor dropped

env == <<enabled, paused, requests, toggles>>
mainLocal == <<caller, after, dir, sawRunning>>
control == <<started, running, stop>>
state == <<server, osm, errors, busyFlag>>
items == <<waiting, fresh, slots, pending>>
workerLocal == <<worker, next, k>>
vars == <<env, main, mainLocal, control, state, items, workerLocal>>

SlotIds == 0 .. 3

SlotOf(i) ==
    CASE i \in Tiles    -> 0
      [] i \in DataDirs -> 2
      [] i \in OsmTiles -> 3
      [] OTHER          -> 1

EmptySlot == [current |-> Stop, busy |-> FALSE, queue |-> <<>>, failed |-> FALSE]

InSeq(i, s) == \E n \in DOMAIN s : s[n] = i

(* How many of a sequence of items are requests.                           *)
Requests(s) == Cardinality({n \in DOMAIN s : s[n] # Stop})

(* Whether there is a server for OSM tiles matters only if there are any.  *)
OsmServer == IF OsmTiles = {} THEN {FALSE} ELSE BOOLEAN

Init ==
    /\ enabled = TRUE /\ paused = FALSE /\ requests = 0 /\ toggles = 0
    /\ main = "idle" /\ caller = "idle" /\ after = "idle"
    /\ dir = Stop /\ sawRunning = FALSE
    /\ started = FALSE /\ running = FALSE /\ stop = FALSE
    /\ server = FALSE /\ osm = FALSE /\ errors = 0 /\ busyFlag = FALSE
    /\ waiting = <<>> /\ fresh = FALSE /\ pending = 0
    /\ slots = [s \in SlotIds |-> EmptySlot]
    /\ worker = "none" /\ next = Stop /\ k = 0

-----------------------------------------------------------------------------
(* The main thread outside a call.  A call's own variables are reset when  *)
(* it returns.                                                             *)

GoMain(from, to) == main = from /\ main' = to

Toggle ==
    /\ main = "idle"
    /\ toggles < MaxToggles /\ toggles' = toggles + 1
    /\ enabled' = ~enabled
    /\ UNCHANGED <<paused, requests, main, mainLocal, control, state, items, workerLocal>>

RetryTimePasses ==
    /\ paused /\ paused' = FALSE
    /\ UNCHANGED <<enabled, requests, toggles, main, mainLocal, control, state, items,
                   workerLocal>>

(* update(): the status of the worker is read once.                        *)
Update ==
    /\ \/ /\ (enabled /\ ~paused) = running
          /\ GoMain("idle", "errors")
          /\ UNCHANGED caller
       \/ /\ (enabled /\ ~paused) # running
          /\ GoMain("idle", "reinit")
          /\ caller' = "errors"
    /\ sawRunning' = running
    /\ UNCHANGED <<after, dir, env, control, state, items, workerLocal>>

(* init() and reinit(), called from outside.                               *)
CallReinit ==
    /\ GoMain("idle", "reinit")
    /\ toggles < MaxToggles /\ toggles' = toggles + 1
    /\ caller' = "idle"
    /\ UNCHANGED <<after, dir, sawRunning, enabled, paused, requests, control, state,
                   items, workerLocal>>

(* shutdown() and unbind(), and the destructor of the worker.              *)
CallStop(then) ==
    /\ GoMain("idle", "stop")
    /\ toggles < MaxToggles /\ toggles' = toggles + 1
    /\ after' = then
    /\ UNCHANGED <<caller, dir, sawRunning, enabled, paused, requests, control, state,
                   items, workerLocal>>

Shutdown == CallStop("idle")

Delete == CallStop("deleted")

-----------------------------------------------------------------------------
(* reinit(): it looks at the property itself, not at update's retry time,  *)
(* and stops the worker before it starts it.                               *)

ReinitRunning ==
    /\ enabled /\ running
    /\ GoMain("reinit", caller)
    /\ caller' = "idle"
    /\ UNCHANGED <<after, dir, sawRunning, env, control, state, items, workerLocal>>

ReinitStop ==
    /\ ~(enabled /\ running)
    /\ GoMain("reinit", "stop")
    /\ after' = IF enabled THEN "start" ELSE caller
    /\ caller' = IF enabled THEN caller ELSE "idle"
    /\ UNCHANGED <<dir, sawRunning, env, control, state, items, workerLocal>>

(* setHTTPServer and the other settings; then start() returns early if     *)
(* the worker runs, or if the local directory is no good.                  *)
StartRefused ==
    /\ GoMain("start", caller)
    /\ osm' \in OsmServer
    /\ caller' = "idle"
    /\ UNCHANGED <<after, dir, sawRunning, env, control, server, errors, busyFlag, items,
                   workerLocal>>

StartAllowed ==
    /\ GoMain("start", "start_thread")
    /\ ~running
    /\ osm' \in OsmServer
    /\ UNCHANGED <<mainLocal, env, control, server, errors, busyFlag, items, workerLocal>>

(* The result of SGThread::start is ignored: false if the thread was       *)
(* started before, or if it cannot be created.                             *)
(* Mutant: the stop flag keeps its value.                                  *)
ResetKeepsStop ==
    /\ GoMain("start_thread", "request_airports")
    /\ server' = FALSE /\ errors' = 0 /\ busyFlag' = FALSE
    /\ UNCHANGED <<running, stop, osm, mainLocal, env, items, next, k>>

ResetState ==
    /\ GoMain("start_thread", "request_airports")
    /\ stop' = FALSE
    /\ server' = FALSE /\ errors' = 0 /\ busyFlag' = FALSE
    /\ UNCHANGED <<running, osm, mainLocal, env, items, next, k>>

StartThread ==
    /\ ResetState
    /\ ~started /\ started' = TRUE
    /\ worker' = "starting"

StartNoThread == ResetState /\ UNCHANGED <<started, worker>>

(* request(): the newest request is served first.                          *)
PushRequest(i) ==
    /\ waiting' = <<i>> \o waiting
    /\ pending' = pending + (IF i = Stop THEN 0 ELSE 1)

RequestAirports ==
    /\ GoMain("request_airports", "request_models")
    /\ PushRequest(Airports)
    /\ UNCHANGED <<mainLocal, env, control, state, fresh, slots, workerLocal>>

RequestModels ==
    /\ GoMain("request_models", caller)
    /\ PushRequest(Models)
    /\ caller' = "idle"
    /\ UNCHANGED <<after, dir, sawRunning, env, control, state, fresh, slots, workerLocal>>

-----------------------------------------------------------------------------
(* WorkerThread::stop().                                                   *)

StopClear ==
    /\ GoMain("stop", "stop_test")
    /\ waiting' = <<>>
    /\ pending' = pending - Requests(waiting)
    /\ UNCHANGED <<mainLocal, env, control, state, fresh, slots, workerLocal>>

StopNotRunning ==
    /\ ~running
    /\ GoMain("stop_test", after)
    /\ after' = "idle"
    /\ UNCHANGED <<caller, dir, sawRunning, env, control, state, items, workerLocal>>

StopRunning ==
    /\ running
    /\ GoMain("stop_test", "stop_push")
    /\ stop' = TRUE
    /\ UNCHANGED <<mainLocal, env, started, running, state, items, workerLocal>>

(* Mutant: the thread is not woken.                                        *)
StopNoPush ==
    /\ GoMain("stop_push", "join")
    /\ UNCHANGED <<mainLocal, env, control, state, items, workerLocal>>

StopPush ==
    /\ GoMain("stop_push", "join")
    /\ PushRequest(Stop)
    /\ UNCHANGED <<mainLocal, env, control, state, fresh, slots, workerLocal>>

(* The requests a slot holds: what it is syncing and its queue.            *)
Held(s) == Requests(s.queue) + (IF s.busy /\ s.current # Stop THEN 1 ELSE 0)

(* Mutant: the slots are not cleared.                                      *)
JoinKeepsSlots ==
    /\ GoMain("join", after)
    /\ worker = "done" /\ worker' = "none"
    /\ started' = FALSE
    /\ after' = "idle"
    /\ UNCHANGED <<caller, dir, sawRunning, env, running, stop, state, items, next, k>>

Join ==
    /\ GoMain("join", after)
    /\ worker = "done" /\ worker' = "none"
    /\ started' = FALSE
    /\ slots' = [s \in SlotIds |-> EmptySlot]
    /\ pending' = pending - (Held(slots[0]) + Held(slots[1]) + Held(slots[2]) + Held(slots[3]))
    /\ after' = "idle"
    /\ UNCHANGED <<caller, dir, sawRunning, env, running, stop, state, waiting, fresh, next, k>>

-----------------------------------------------------------------------------
(* The rest of update(): too many errors pause the worker for a while, and *)
(* the new tiles are popped.                                               *)

TooManyErrors ==
    /\ sawRunning /\ errors >= MaxErrors
    /\ GoMain("errors", "stop")
    /\ after' = "back_off"
    /\ sawRunning' = FALSE
    /\ UNCHANGED <<caller, dir, env, control, state, items, workerLocal>>

BackOff ==
    /\ GoMain("back_off", "fresh")
    /\ paused' = TRUE
    /\ UNCHANGED <<enabled, requests, toggles, mainLocal, control, state, items, workerLocal>>

FewErrors ==
    /\ ~(sawRunning /\ errors >= MaxErrors)
    /\ GoMain("errors", "fresh")
    /\ sawRunning' = FALSE
    /\ UNCHANGED <<caller, after, dir, env, control, state, items, workerLocal>>

PopFresh ==
    /\ GoMain("fresh", "idle")
    /\ fresh' = FALSE
    /\ UNCHANGED <<mainLocal, env, control, state, waiting, slots, pending, workerLocal>>

-----------------------------------------------------------------------------
(* syncAreaByPath and scheduleDataDir, one directory at a time: it is      *)
(* requested unless isDirActive finds it in waitingTiles, as the current   *)
(* item of its slot, or in the slot's queue, looking in this order.        *)

CallRequest(d) ==
    /\ requests < MaxRequests /\ requests' = requests + 1
    /\ running
    /\ GoMain("idle", "ask_waiting")
    /\ dir' = d
    /\ UNCHANGED <<caller, after, sawRunning, enabled, paused, toggles, control, state,
                   items, workerLocal>>

Ask(from, found, to) ==
    /\ GoMain(from, IF found THEN "idle" ELSE to)
    /\ dir' = IF found THEN Stop ELSE dir
    /\ UNCHANGED <<caller, after, sawRunning, env, control, state, items, workerLocal>>

AskWaiting == Ask("ask_waiting", InSeq(dir, waiting), "ask_current")

AskCurrent == Ask("ask_current", slots[SlotOf(dir)].current = dir, "ask_queue")

AskQueue == Ask("ask_queue", InSeq(dir, slots[SlotOf(dir)].queue), "request")

Request ==
    /\ GoMain("request", "idle")
    /\ PushRequest(dir)
    /\ dir' = Stop
    /\ UNCHANGED <<caller, after, sawRunning, env, control, state, fresh, slots, workerLocal>>
-----------------------------------------------------------------------------
(* The worker: run() and runInternal().  Once the object is deleted, what  *)
(* a thread left behind does is undefined, and not modelled.               *)

GoWorker(from, to) ==
    /\ main # "deleted"
    /\ worker = from /\ worker' = to

Begin ==
    /\ GoWorker("starting", "loop")
    /\ running' = TRUE
    /\ UNCHANGED <<env, main, mainLocal, started, stop, state, items, next, k>>

(* while (!_stop), and the test after HTTP::Client::update.                *)
LeaveLoop ==
    /\ stop
    /\ GoWorker("loop", "leaving")
    /\ UNCHANGED <<env, main, mainLocal, control, state, items, next, k>>

End ==
    /\ GoWorker("leaving", "done")
    /\ running' = FALSE
    /\ UNCHANGED <<env, main, mainLocal, started, stop, state, items, next, k>>

OneMoreError == errors' = IF errors < MaxErrors THEN errors + 1 ELSE errors

FindServer ==
    /\ ~stop /\ ~server
    /\ GoWorker("loop", "loop")
    /\ osm' \in OsmServer
    /\ \/ server' = TRUE /\ errors' = 0
       \/ OneMoreError /\ UNCHANGED server
    /\ UNCHANGED <<busyFlag, env, main, mainLocal, control, items, next, k>>

UpdateHttp ==
    /\ ~stop /\ server
    /\ GoWorker("loop", "drain")
    /\ UNCHANGED <<env, main, mainLocal, control, state, items, next, k>>

(* drainWaitingTiles: empty() and pop_front() are two calls of the deque.  *)
DrainEmpty ==
    /\ waiting = <<>>
    /\ GoWorker("drain", "slot")
    /\ UNCHANGED <<env, main, mainLocal, control, state, items, next, k>>

(* Mutant: one item is left.                                               *)
DrainAllButOne ==
    /\ Len(waiting) > 1
    /\ GoWorker("drain", "take")
    /\ UNCHANGED <<env, main, mainLocal, control, state, items, next, k>>

DrainNotEmpty ==
    /\ waiting # <<>>
    /\ GoWorker("drain", "take")
    /\ UNCHANGED <<env, main, mainLocal, control, state, items, next, k>>

(* Mutant: the item stays in the deque.                                    *)
TakeKeeps ==
    /\ waiting # <<>>
    /\ GoWorker("take", "place")
    /\ next' = Head(waiting)
    /\ UNCHANGED <<env, main, mainLocal, control, state, items, k>>

TakeWaiting ==
    /\ waiting # <<>>
    /\ GoWorker("take", "place")
    /\ next' = Head(waiting)
    /\ waiting' = Tail(waiting)
    /\ UNCHANGED <<env, main, mainLocal, control, state, fresh, slots, pending, k>>

PlaceInSlot ==
    /\ GoWorker("place", "drain")
    /\ slots' = [slots EXCEPT ![SlotOf(next)].queue = Append(@, next)]
    /\ next' = Stop
    /\ UNCHANGED <<env, main, mainLocal, control, state, waiting, fresh, pending, k>>

-----------------------------------------------------------------------------
(* updateSyncSlot, for the slots 0 to 3 in turn.                           *)

AdvanceSlot ==
    /\ GoWorker("slot", IF k = 3 THEN "settle" ELSE "slot")
    /\ k' = (k + 1) % 4

Reported(i) ==
    /\ fresh' = TRUE
    /\ pending' = pending - (IF i = Stop THEN 0 ELSE 1)

SyncGoesOn ==
    /\ slots[k].busy
    /\ AdvanceSlot
    /\ UNCHANGED <<env, main, mainLocal, control, state, items, next>>

(* fail(): an OSM tile is no error where there is no server for it.        *)
CountFailure(i) == IF ~osm /\ i \in OsmTiles THEN UNCHANGED errors ELSE OneMoreError

(* The repository is done: updated(), notFound() or fail().  The slot goes *)
(* on to its next item in the same call.                                   *)
FinishSync ==
    /\ slots[k].busy
    /\ GoWorker("slot", "slot")
    /\ \/ errors' = 0
       \/ UNCHANGED errors
       \/ CountFailure(slots[k].current)
    /\ Reported(slots[k].current)
    /\ slots' = [slots EXCEPT ![k].busy = FALSE, ![k].current = Stop]
    /\ UNCHANGED <<env, main, mainLocal, control, server, osm, busyFlag, waiting, next, k>>

NextInSlot(begun) ==
    slots' = [slots EXCEPT ![k] = [current |-> Head(@.queue), busy |-> begun,
                                   queue |-> Tail(@.queue), failed |-> ~begun]]

(* An OSM tile without a server; any other start succeeds or not: a bad    *)
(* tile path, an exception from the repository's update.                   *)
CannotSync(i) == i \in OsmTiles /\ ~osm

BeginSync ==
    /\ ~slots[k].busy /\ slots[k].queue # <<>>
    /\ ~CannotSync(Head(slots[k].queue))
    /\ AdvanceSlot
    /\ NextInSlot(TRUE)
    /\ UNCHANGED <<env, main, mainLocal, control, state, waiting, fresh, pending, next>>

(* The slot stays idle, with this item as its current one, and its queue   *)
(* is not looked at again in this call.                                    *)
BeginSyncFails ==
    /\ ~slots[k].busy /\ slots[k].queue # <<>>
    /\ AdvanceSlot
    /\ NextInSlot(FALSE)
    /\ CountFailure(Head(slots[k].queue))
    /\ Reported(Head(slots[k].queue))
    /\ UNCHANGED <<env, main, mainLocal, control, server, osm, busyFlag, waiting, next>>

SlotIdle ==
    /\ ~slots[k].busy /\ slots[k].queue = <<>>
    /\ AdvanceSlot
    /\ UNCHANGED <<env, main, mainLocal, control, state, items, next>>

(* Mutant: the last slot decides.                                          *)
LastSlotBusy == slots[3].busy

AnySlotBusy == \E s \in SlotIds : slots[s].busy

Settle ==
    /\ GoWorker("settle", IF AnySlotBusy THEN "loop" ELSE "park")
    /\ busyFlag' = AnySlotBusy
    /\ UNCHANGED <<env, main, mainLocal, control, server, osm, errors, items, next, k>>

(* waitOnNotEmpty.                                                         *)
Unpark ==
    /\ waiting # <<>>
    /\ GoWorker("park", "loop")
    /\ UNCHANGED <<env, main, mainLocal, control, state, items, next, k>>

-----------------------------------------------------------------------------
(* What a thread does once it is called; the calls themselves are the      *)
(* program's, apart from update, which its main loop makes every frame.    *)
MainStep ==
    \/ ReinitRunning \/ ReinitStop \/ StartRefused \/ StartAllowed
    \/ StartThread \/ StartNoThread \/ RequestAirports \/ RequestModels
    \/ StopClear \/ StopNotRunning \/ StopRunning \/ StopPush \/ Join
    \/ TooManyErrors \/ BackOff \/ FewErrors \/ PopFresh
    \/ AskWaiting \/ AskCurrent \/ AskQueue \/ Request

Call ==
    \/ Toggle \/ CallReinit \/ Shutdown \/ Delete
    \/ \E d \in Dirs : CallRequest(d)

WorkerStep ==
    \/ Begin \/ LeaveLoop \/ End \/ FindServer \/ UpdateHttp
    \/ DrainEmpty \/ DrainNotEmpty \/ TakeWaiting \/ PlaceInSlot
    \/ SyncGoesOn \/ FinishSync \/ BeginSync \/ BeginSyncFails \/ SlotIdle
    \/ Settle \/ Unpark

Next == Update \/ RetryTimePasses \/ Call \/ MainStep \/ WorkerStep

Spec == Init /\ [][Next]_vars
(* The scheduler carries on both threads; update is called every frame,    *)
(* time passes, a repository does not sync for ever, and neither does the  *)
(* creation of a thread or of its directory fail for ever.                 *)
Fairness ==
    /\ WF_vars(MainStep) /\ WF_vars(Update) /\ WF_vars(WorkerStep)
    /\ WF_vars(RetryTimePasses)
    /\ \A s \in {SlotOf(i) : i \in Items} : SF_vars(FinishSync /\ k = s)
    /\ SF_vars(StartAllowed) /\ SF_vars(StartThread)

FairSpec == Spec /\ Fairness

-----------------------------------------------------------------------------
MainPC ==
    {"idle", "reinit", "start", "start_thread", "request_airports", "request_models",
     "stop", "stop_test", "stop_push", "join", "errors", "back_off", "fresh",
     "ask_waiting", "ask_current", "ask_queue", "request", "deleted"}

(* The thread between _running = true and _running = false.                *)
Live == {"loop", "drain", "take", "place", "slot", "settle", "park", "leaving"}

WorkerPC == Live \cup {"none", "starting", "done"}

SlotType == [current : Items, busy : BOOLEAN, queue : Seq(Items), failed : BOOLEAN]

(* The type invariant.                                                     *)
TypeOK ==
    /\ enabled \in BOOLEAN /\ paused \in BOOLEAN
    /\ requests \in Nat /\ toggles \in Nat
    /\ main \in MainPC
    /\ caller \in {"idle", "errors"}
    /\ after \in {"idle", "errors", "start", "back_off", "deleted"}
    /\ dir \in Dirs \cup {Stop} /\ sawRunning \in BOOLEAN
    /\ started \in BOOLEAN /\ running \in BOOLEAN /\ stop \in BOOLEAN
    /\ server \in BOOLEAN /\ osm \in BOOLEAN /\ busyFlag \in BOOLEAN
    /\ errors \in 0 .. MaxErrors
    /\ waiting \in Seq(Items) /\ fresh \in BOOLEAN /\ pending \in Int
    /\ slots \in [SlotIds -> SlotType]
    /\ worker \in WorkerPC /\ next \in Items /\ k \in SlotIds

(* stop() and the thread agree: a thread ends only when told to, stop()    *)
(* waits only for a thread that runs and has been told, and a thread       *)
(* starts with the flag down, although start() resets the flag also when   *)
(* the thread was started before (terrasync.cxx:389-466, 568-581).         *)
StopHandshake ==
    /\ running <=> worker \in Live
    /\ started <=> worker # "none"
    /\ worker \in {"leaving", "done"} => stop
    /\ worker = "starting" => ~stop
    /\ main \in {"stop_push", "join"} => stop /\ worker \notin {"none", "starting"}
    /\ (stop /\ worker # "none") => main \in {"stop_push", "join"}

(* A thread starts on empty slots and with its counters reset: nothing is  *)
(* left of an earlier one, nor of a start() that found the thread started  *)
(* already (terrasync.cxx:407-410, 458-463).                               *)
StartsClean ==
    /\ worker \in {"none", "starting"} =>
          next = Stop /\ \A s \in SlotIds : slots[s] = EmptySlot
    /\ worker = "starting" => errors = 0 /\ ~server /\ ~busyFlag

(* A request is in one place: waiting, in drain's hands, queued in a slot  *)
(* or being synced, until it is reported to the main thread once or        *)
(* dropped by stop() (terrasync.cxx:392, 407-410, 583-681, 900-909).       *)
EveryRequestAccountedFor ==
    pending = Requests(waiting) + (IF next = Stop THEN 0 ELSE 1)
                + Held(slots[0]) + Held(slots[1]) + Held(slots[2]) + Held(slots[3])

(* The worker goes to sleep on waitingTiles only when no slot has work,    *)
(* except for what is queued behind an item that failed to start           *)
(* (terrasync.cxx:654-671, 847-852).                                       *)
SleepsOnlyWithoutWork ==
    worker = "park" =>
        \A s \in SlotIds : ~slots[s].busy /\ (slots[s].queue # <<>> => slots[s].failed)

(* What a slot that failed to start its item leaves behind when the worker *)
(* sleeps: items in its queue, and the Stop item, which is there too or is *)
(* itself what failed; only a push to waitingTiles brings the worker back. *)
SleepsBehindFailure(s) == worker = "park" /\ waiting = <<>> /\ slots[s].failed

(* stop() returns: the thread it joins comes to its end wherever the stop  *)
(* finds it, in pop_front on a deque that stop() has just emptied too;     *)
(* but not if the Stop item was drained behind an item that failed to      *)
(* start, or failed itself (terrasync.cxx:389-405, 654-671, 903-904).      *)
StopReturns == (main = "join") ~> (main # "join" \/ SleepsBehindFailure(SlotOf(Stop)))

(* What was asked for does not stay queued for ever, unless TerraSync is   *)
(* disabled or the worker sleeps on it after a failure to start: its sync  *)
(* begins, or fails to, or stop() drops it (terrasync.cxx:634-671,         *)
(* 839-853, 900-909).                                                      *)
Queued(i) == InSeq(i, waiting) \/ next = i \/ InSeq(i, slots[SlotOf(i)].queue)

ItemsGetTheirTurn == \A i \in Dirs \cup {Airports} :
    Queued(i) ~> \/ ~Queued(i) \/ ~enabled \/ main = "deleted"
                 \/ SleepsBehindFailure(SlotOf(i))

(* After a pause for too many errors, and after every stop, an enabled     *)
(* TerraSync runs again (terrasync.cxx:1118-1127, 1148-1155).              *)
RunsWhenEnabled == (enabled /\ main # "deleted") ~> (running \/ ~enabled \/ main = "deleted")

-----------------------------------------------------------------------------
(* What the comments say and the code does not do.                         *)

(* terrasync.cxx:397: "set stop flag and wake up the thread with an empty  *)
(* request".  The request wakes it at most once, and the thread can go     *)
(* back to sleep with the flag set.                                        *)
StopEndsTheThread == (main = "join") ~> worker \in {"leaving", "done", "none"}

(* terrasync.cxx:92, of SyncItem::Stop: "special item indicating to stop   *)
(* the SVNThread".  It is never synced as if it were a directory.          *)
StopIsNoDirectory == \A s \in SlotIds : slots[s].busy => slots[s].current # Stop

(* SGThread.hxx:59-60: "its illegal to simply delete a thread - it must    *)
(* return from its run() function."                                        *)
DeletedAfterRun == main = "deleted" => worker = "none"
=============================================================================
