------------------------- MODULE SGExclusiveThread --------------------------
(***************************************************************************)
(* SGExclusiveThread (simgear/threads/SGThread.cxx), the thread that works *)
(* for the main loop one frame at a time, and NasalMainLoopRecipient       *)
(* (simgear/nasal/NasalEmesaryInterface.cxx), the one user it has: it      *)
(* turns the notifications of the main loop into calls of the thread.      *)
(*                                                                         *)
(* The main loop hands the frame's work over with dataReady, guarded by    *)
(* mutex_, and gets it back with complete, guarded by Cmutex_; both are    *)
(* atomics that the other side also reads under its own mutex.  A critical *)
(* section is one step up to its second access of an atomic: mutex_ is     *)
(* held while main is in the middle of release, Cmutex_ while the worker   *)
(* is in the middle of setCompletion.                                      *)
(*                                                                         *)
(* The main loop is external: inOrder says whether it sends Started and    *)
(* Stopped in turns, and Begin and End in turns between them.              *)
(***************************************************************************)

VARIABLES
    inOrder,         \* does the main loop keep to the order?
    main,            \* where the main loop is
    after,           \* where it goes when release returns
    phase,           \* the last notification: "stopped", "started" or "frame"
    active, canWait, \* the recipient's configuration
    own, base,       \* SGExclusiveThread::_started and SGThread::_started
    terminated,      \* _terminated
    dataReady, complete, processRunning,
    worker,          \* where the thread is
    alone            \* history: the frame began with a wait for the thread that has ended

config == <<inOrder, active, canWait>>
flags == <<dataReady, complete>>
life == <<own, base, terminated>>
exclusiveVars == <<main, after, phase, config, life, flags, processRunning, worker, alone>>

ExclusiveInit ==
    /\ inOrder \in BOOLEAN
    /\ main = "idle" /\ after = "idle" /\ phase = "stopped"
    /\ active = FALSE /\ canWait = FALSE
    /\ own = FALSE /\ base = FALSE /\ terminated = FALSE
    /\ dataReady = FALSE /\ complete = TRUE
    /\ processRunning = FALSE
    /\ worker = "none" /\ alone = FALSE

-----------------------------------------------------------------------------
(* The main loop's notifications.                                          *)

Notified(from, to) == (inOrder => phase = from) /\ phase' = to

(* ensure_running: the thread's own _started hides the one of SGThread,    *)
(* which start() looks at, and the result of start() is ignored.           *)
EnsureRunning ==
    \/ own /\ UNCHANGED <<own, base, worker>>
    \/ ~own /\ own' = TRUE /\ base /\ UNCHANGED <<base, worker>>
    \/ ~own /\ own' = TRUE /\ ~base /\ base' = TRUE /\ worker' = "starting"
    \/ ~own /\ own' = TRUE /\ ~base /\ UNCHANGED <<base, worker>>

Started ==
    /\ main = "idle" /\ Notified("stopped", "started")
    /\ EnsureRunning
    /\ UNCHANGED <<main, after, config, terminated, flags, processRunning, alone>>

Begin ==
    /\ main = "idle" /\ Notified("started", "frame")
    /\ main' = IF processRunning /\ active /\ canWait THEN "await" ELSE "idle"
    /\ alone' = FALSE
    /\ UNCHANGED <<after, config, life, flags, processRunning, worker>>

End ==
    /\ main = "idle" /\ Notified("frame", "started")
    /\ main' = IF active /\ processRunning THEN "release" ELSE "idle"
    /\ after' = "idle"
    /\ alone' = FALSE
    /\ UNCHANGED <<config, life, flags, processRunning, worker>>

(* terminate(), on Stopped and when the recipient is destroyed.            *)
Terminate(then) ==
    /\ main = "idle" /\ Notified("started", "stopped")
    /\ main' = "release" /\ after' = then
    /\ terminated' = TRUE
    /\ alone' = FALSE
    /\ UNCHANGED <<config, own, base, flags, processRunning, worker>>

Stopped == Terminate("join")

Configure ==
    /\ main = "idle"
    /\ active' \in BOOLEAN /\ canWait' \in BOOLEAN
    /\ UNCHANGED <<inOrder, main, after, phase, life, flags, processRunning, worker, alone>>

-----------------------------------------------------------------------------
(* The calls of the main loop.                                             *)

MutexFree == main \notin {"release_complete", "release_data"}
CMutexFree == worker # "completing"

MainGoes(from, to) == main = from /\ main' = to

(* release(), under mutex_.                                                *)
ReleaseNotFinished ==
    /\ ~complete
    /\ MainGoes("release", after)
    /\ UNCHANGED <<after, phase, config, life, flags, processRunning, worker, alone>>

ReleaseBegins ==
    /\ complete
    /\ MainGoes("release", "release_complete")
    /\ UNCHANGED <<after, phase, config, life, flags, processRunning, worker, alone>>

ReleaseComplete ==
    /\ MainGoes("release_complete", "release_data")
    /\ complete' = FALSE
    /\ UNCHANGED <<after, phase, config, life, dataReady, processRunning, worker, alone>>

(* Mutant: the thread is not notified.                                     *)
ReleaseSilently ==
    /\ MainGoes("release_data", after)
    /\ dataReady' = TRUE
    /\ UNCHANGED <<after, phase, config, life, complete, processRunning, worker, alone>>

ReleaseData ==
    /\ MainGoes("release_data", after)
    /\ dataReady' = TRUE
    /\ worker' = IF worker = "asleep" THEN "wait" ELSE worker
    /\ UNCHANGED <<after, phase, config, life, complete, processRunning, alone>>

(* Mutant: the wait takes any wakeup for the completion.                   *)
AwaitAtOnce ==
    /\ CMutexFree
    /\ MainGoes("await", "idle")
    /\ alone' = TRUE
    /\ UNCHANGED <<after, phase, config, life, flags, processRunning, worker>>

(* awaitCompletion(), under Cmutex_.                                       *)
AwaitReturns ==
    /\ CMutexFree /\ complete
    /\ MainGoes("await", "idle")
    /\ alone' = TRUE
    /\ UNCHANGED <<after, phase, config, life, flags, processRunning, worker>>

AwaitSleeps ==
    /\ CMutexFree /\ ~complete
    /\ MainGoes("await", "await_asleep")
    /\ UNCHANGED <<after, phase, config, life, flags, processRunning, worker, alone>>

(* SGThread::join().                                                       *)
Join ==
    /\ base => worker = "done"
    /\ MainGoes("join", "idle")
    /\ base' = FALSE
    /\ worker' = IF base THEN "none" ELSE worker
    /\ UNCHANGED <<after, phase, config, own, terminated, flags, processRunning, alone>>

-----------------------------------------------------------------------------
(* The thread: run().                                                      *)

GoWorker(from, to) ==
    /\ worker = from /\ worker' = to
    /\ UNCHANGED <<after, phase, config, base, alone>>

RunBegins ==
    /\ GoWorker("starting", "loop")
    /\ processRunning' = TRUE
    /\ UNCHANGED <<main, own, terminated, flags>>

(* Mutant: the loop does not look at _terminated.                          *)
LoopForever ==
    /\ GoWorker("loop", "wait")
    /\ UNCHANGED <<main, own, terminated, flags, processRunning>>

LoopGoesOn ==
    /\ ~terminated
    /\ GoWorker("loop", "wait")
    /\ UNCHANGED <<main, own, terminated, flags, processRunning>>

(* wait(), under mutex_.                                                   *)
WaitReturns ==
    /\ MutexFree /\ dataReady
    /\ GoWorker("wait", "process")
    /\ UNCHANGED <<main, own, terminated, flags, processRunning>>

WaitSleeps ==
    /\ MutexFree /\ ~dataReady
    /\ GoWorker("wait", "asleep")
    /\ UNCHANGED <<main, own, terminated, flags, processRunning>>

(* process(), and the first half of setCompletion() under Cmutex_.         *)
ProcessEnds ==
    /\ GoWorker("process", "completing")
    /\ dataReady' = FALSE
    /\ UNCHANGED <<main, own, terminated, complete, processRunning>>

(* Mutant: nobody is told.                                                 *)
CompleteSilently ==
    /\ GoWorker("completing", "loop")
    /\ complete' = TRUE
    /\ UNCHANGED <<main, own, terminated, dataReady, processRunning>>

SetCompletion ==
    /\ GoWorker("completing", "loop")
    /\ complete' = TRUE
    /\ main' = IF main = "await_asleep" THEN "await" ELSE main
    /\ UNCHANGED <<own, terminated, dataReady, processRunning>>

(* The end of run(): three flags, one after the other.                     *)
RunStops ==
    /\ terminated
    /\ GoWorker("loop", "ending")
    /\ processRunning' = FALSE
    /\ UNCHANGED <<main, own, terminated, flags>>

(* Mutant: the flag stays up.                                              *)
KeepTerminated ==
    /\ GoWorker("ending", "ended")
    /\ UNCHANGED <<main, own, terminated, flags, processRunning>>

ResetTerminated ==
    /\ GoWorker("ending", "ended")
    /\ terminated' = FALSE
    /\ UNCHANGED <<main, own, flags, processRunning>>

ResetStarted ==
    /\ GoWorker("ended", "done")
    /\ own' = FALSE
    /\ UNCHANGED <<main, terminated, flags, processRunning>>

WakeSpontaneously ==
    \/ /\ worker = "asleep" /\ worker' = "wait"
       /\ UNCHANGED <<main, after, phase, config, life, flags, processRunning, alone>>
    \/ /\ main = "await_asleep" /\ main' = "await"
       /\ UNCHANGED <<after, phase, config, life, flags, processRunning, worker, alone>>

-----------------------------------------------------------------------------
Notification == Started \/ Begin \/ End \/ Stopped \/ Configure

MainStep ==
    \/ ReleaseNotFinished \/ ReleaseBegins \/ ReleaseComplete \/ ReleaseData
    \/ AwaitReturns \/ AwaitSleeps \/ Join

WorkerStep ==
    \/ RunBegins \/ LoopGoesOn \/ WaitReturns \/ WaitSleeps
    \/ ProcessEnds \/ SetCompletion
    \/ RunStops \/ ResetTerminated \/ ResetStarted

ExclusiveNext == Notification \/ MainStep \/ WorkerStep \/ WakeSpontaneously

ExclusiveSpec == ExclusiveInit /\ [][ExclusiveNext]_exclusiveVars

(* Both threads are scheduled.  The main loop need not send anything.      *)
ExclusiveFairSpec == ExclusiveSpec /\ WF_exclusiveVars(MainStep) /\ WF_exclusiveVars(WorkerStep)

-----------------------------------------------------------------------------
MainPC == {"idle", "await", "await_asleep", "release", "release_complete", "release_data", "join"}
WorkerPC == {"none", "starting", "loop", "wait", "asleep", "process", "completing",
             "ending", "ended", "done"}

(* The type invariant.                                                     *)
ExclusiveTypeOK ==
    /\ inOrder \in BOOLEAN
    /\ main \in MainPC /\ after \in {"idle", "join"}
    /\ phase \in {"stopped", "started", "frame"}
    /\ active \in BOOLEAN /\ canWait \in BOOLEAN
    /\ own \in BOOLEAN /\ base \in BOOLEAN /\ terminated \in BOOLEAN
    /\ dataReady \in BOOLEAN /\ complete \in BOOLEAN /\ processRunning \in BOOLEAN
    /\ worker \in WorkerPC /\ alone \in BOOLEAN

(* The flags take turns although each is written under the other one's     *)
(* mutex: none of the four exchanges finds the value it reports as a       *)
(* failure, and process() runs only on work that was handed over and not   *)
(* given back (SGThread.cxx:191-198, 232-236).                             *)
FlagsTakeTurns ==
    /\ main = "release_complete" => complete /\ ~dataReady
    /\ main = "release_data" => ~complete /\ ~dataReady
    /\ worker = "process" => dataReady /\ ~complete
    /\ worker = "completing" => ~dataReady /\ ~complete
    /\ main \in {"release_complete", "release_data"} => worker \notin {"process", "completing"}

(* Neither side sleeps through the change it waits for (SGThread.cxx:199,  *)
(* 203-208, 217-221, 237).                                                 *)
NoSleepThroughChange ==
    /\ worker = "asleep" => ~dataReady
    /\ main = "await_asleep" => ~complete

(* The main loop gets to go on with its frame, when it keeps to the order  *)
(* (NasalEmesaryInterface.cxx:76-83).                                      *)
AwaitEnds == (inOrder /\ main = "await") ~> (main = "idle")

(* terminate() returns, whatever the thread is doing and in any order of   *)
(* notifications: release() skips a thread that is busy, and the thread    *)
(* must see _terminated by itself (SGThread.cxx:242-256).                  *)
TerminateReturns == (main = "join") ~> (main = "idle")

(* Work that is handed over is done and given back while there is a        *)
(* thread, when the main loop keeps to the order (SGThread.cxx:242-246).   *)
WorkIsDone == (inOrder /\ dataReady /\ base) ~> (complete \/ ~base)

(* SGThread.hxx:147-148: "it has the ability to synchronise such that the  *)
(* caller can await the processing to finish".  A frame that has waited    *)
(* for the thread has it at rest: what the main loop does in the frame is  *)
(* not mixed with the work (SGThread.cxx:214-238).                         *)
AwaitedFrameIsAlone == alone => worker \notin {"process", "completing"}

-----------------------------------------------------------------------------
(* What the comments say and the code does not do.                         *)

(* SGThread.hxx:147-148: "it has the ability to synchronise such that the  *)
(* caller can await the processing to finish", here for a main loop that   *)
(* may send Stopped twice, or before Started.                              *)
AwaitAlwaysEnds == (main = "await") ~> (main = "idle")
=============================================================================
