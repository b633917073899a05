------------------------------ MODULE MainLoop ------------------------------
(***************************************************************************)
(* A frame of the main loop: SGSubsystemGroup::update and Member::update   *)
(* (simgear/structure/subsystem_mgr.cxx) for the group that the event      *)
(* manager is a member of.  The group may have a fixed update time; the    *)
(* member may have a minimum step, be suspended, and throw, and is         *)
(* suspended when it has thrown too often.  The other members call the     *)
(* event manager, before its update and after it.                          *)
(*                                                                         *)
(* Times are whole numbers of a unit.                                      *)
(***************************************************************************)
EXTENDS SGEventMgr

CONSTANTS FrameTimes,      \* what update() is called with, 0 when paused
          FixedTimes,      \* _fixedUpdateTime, 0 for none
          MinStep,         \* min_step_sec
          MaxExceptions,   \* SG_MAX_SUBSYSTEM_EXCEPTIONS
          MaxElapsed       \* bound: elapsed_sec is counted up to this

ASSUME MainLoopAssumption ==
    /\ FrameTimes \subseteq Nat /\ FixedTimes \subseteq Nat
    /\ MinStep \in Nat /\ MaxExceptions \in Nat /\ MaxElapsed \in Nat

VARIABLES fixed,        \* _fixedUpdateTime
          remainder,    \* _updateTimeRemainder
          elapsed,      \* elapsed_sec
          suspended,    \* _suspended
          exceptions,   \* exceptionCount, up to the number that suspends
          frame         \* where update() is, the loops that are left, the delta
                        \* for members, the value of the real-time property

loopVars == <<fixed, remainder, elapsed, suspended, exceptions, frame>>
vars == <<evtVars, loopVars>>

AtMost(x, most) == IF x < most THEN x ELSE most

Init ==
    /\ EvtInit
    /\ fixed \in FixedTimes /\ remainder = 0
    /\ elapsed = 0 /\ suspended = FALSE /\ exceptions = 0
    /\ frame = [pc |-> "idle", loops |-> 0, delta |-> 0, real |-> 0]

-----------------------------------------------------------------------------
(* SGMiscd::roundToInt(local / fixed), and not below zero.                 *)
Loops(local) == IF local < 0 THEN 0 ELSE (2 * local + fixed) \div (2 * fixed)

(* SGSubsystemGroup::update.  What is left over is counted from the time   *)
(* of this frame: what was left over before it is forgotten.               *)
Frame(time, real) ==
    /\ frame.pc = "idle"
    /\ IF time > 0 /\ fixed > 0
       THEN LET loops == Loops(time + remainder)
            IN /\ frame' = [pc |-> "before", loops |-> loops, delta |-> fixed, real |-> real]
               /\ remainder' = time - loops * fixed
       ELSE /\ frame' = [pc |-> "before", loops |-> 1, delta |-> time, real |-> real]
            /\ UNCHANGED remainder
    /\ gap' = [n \in Names |->
                 AtMost(gap[n] + IF n \in SimTime THEN time ELSE real, Interval[n])]
    /\ UNCHANGED <<table, current, inited, shutdown, evt, wanted,
                   fixed, elapsed, suspended, exceptions>>

FrameEnds ==
    /\ frame.pc = "before" /\ frame.loops = 0
    /\ frame' = [pc |-> "idle", loops |-> 0, delta |-> 0, real |-> 0]
    /\ UNCHANGED <<evtVars, fixed, remainder, elapsed, suspended, exceptions>>

-----------------------------------------------------------------------------
(* Member::update, in each loop of updateMembers.                          *)
NextLoop == frame' = [frame EXCEPT !.pc = "before", !.loops = @ - 1]

AtMember == frame.pc = "before" /\ frame.loops > 0
NowElapsed == AtMost(elapsed + frame.delta, MaxElapsed)

Skip ==
    /\ AtMember
    /\ elapsed' = NowElapsed
    /\ NowElapsed < MinStep \/ suspended
    /\ NextLoop
    /\ UNCHANGED <<evtVars, fixed, remainder, suspended, exceptions>>

Update ==
    /\ AtMember
    /\ elapsed' = NowElapsed
    /\ NowElapsed >= MinStep /\ ~suspended
    /\ frame' = [frame EXCEPT !.pc = "events"]
    /\ UpdateBegins(NowElapsed)
    /\ UNCHANGED <<fixed, remainder, suspended, exceptions>>

(* Mutant: the time that was handed to the subsystem is kept.              *)
UpdatedKeepsTime ==
    /\ frame.pc = "events" /\ UpdateEnds
    /\ NextLoop
    /\ UNCHANGED <<fixed, remainder, elapsed, suspended, exceptions>>

Updated ==
    /\ frame.pc = "events" /\ UpdateEnds
    /\ elapsed' = 0
    /\ NextLoop
    /\ UNCHANGED <<fixed, remainder, suspended, exceptions>>

(* An sg_exception, which is caught and counted: elapsed_sec is kept.      *)
(* (bad_alloc is caught and not counted, and any other exception leaves    *)
(* the frame and the loop: neither is modelled.)                           *)
Threw ==
    /\ frame.pc = "events" /\ CallbackThrows
    /\ exceptions' = AtMost(exceptions + 1, MaxExceptions + 1)
    /\ suspended' = (suspended \/ exceptions + 1 > MaxExceptions)
    /\ NextLoop
    /\ UNCHANGED <<fixed, remainder, elapsed>>

InEvents == RunTimer \/ CallbackReturns \/ SimDone(frame.real)

-----------------------------------------------------------------------------
(* Who calls the event manager: the main program between frames, the other *)
(* members in a frame, and the callbacks.                                  *)
Call ==
    /\ frame.pc # "events" \/ evt.pc = "callback"
    /\ (\E n \in Names : Add(n) \/ RemoveTask(n)) \/ Shutdown
    /\ UNCHANGED loopVars

(* The life of the manager, and suspend(), resume(), between frames.       *)
Initialise == frame.pc = "idle" /\ InitMgr /\ UNCHANGED loopVars

SetSuspended ==
    /\ frame.pc = "idle"
    /\ suspended' = ~suspended
    /\ UNCHANGED <<evtVars, fixed, remainder, elapsed, exceptions, frame>>

NewFrame(time) == Frame(time, IF time = 0 THEN 1 ELSE time)

InFrame == FrameEnds \/ Skip \/ Update \/ Updated \/ Threw \/ (InEvents /\ UNCHANGED loopVars)

Next == (\E time \in FrameTimes : NewFrame(time)) \/ InFrame \/ Call \/ Initialise \/ SetSuspended

(* Frames come one after another and are not all of them paused; a frame   *)
(* goes on, and so does each callback.                                     *)
Fairness ==
    /\ SF_vars(\E time \in FrameTimes \ {0} : NewFrame(time))
    /\ WF_vars(InFrame)

Spec == Init /\ [][Next]_vars /\ Fairness

-----------------------------------------------------------------------------
TypeOK ==
    /\ \A q \in Queues : table[q] \subseteq [name : Names, left : Int]
    /\ current \in [Queues -> [name : Names, repeat : BOOLEAN] \cup {NoTimer}]
    /\ inited \in BOOLEAN /\ shutdown \in BOOLEAN
    /\ evt \in [pc : {"out", "queue", "callback"}, queue : Queues]
    /\ wanted \in [Names -> {"no", "yes", "moot"}]
    /\ gap \in [Names -> Nat]
    /\ fixed \in FixedTimes /\ remainder \in Int
    /\ elapsed \in Nat /\ suspended \in BOOLEAN
    /\ exceptions \in 0 .. MaxExceptions + 1
    /\ frame \in [pc : {"idle", "before", "events"}, loops : Nat, delta : Nat, real : Nat]

(* A repeating task runs at most once per interval, of the time that the   *)
(* frames were given, although its member may skip frames, be suspended    *)
(* and catch up.  Not so with a fixed update time, or when an exception    *)
(* makes the manager count the same time twice (see CallbackThrows).       *)
RunsOncePerInterval ==
    [][\A n \in Repeating :
          fixed = 0 /\ evt.pc = "queue" /\ evt'.pc = "callback"
              /\ current'[evt.queue].name = n
            => gap[n] >= Interval[n]]_vars

(* A task that has been added runs in the end, unless it is removed or the *)
(* event manager is suspended: no task, however short its interval, keeps  *)
(* a frame from ending or another from its turn.                           *)
TasksRun ==
    \A n \in Names :
        wanted[n] = "yes" ~> \/ wanted[n] # "yes"
                             \/ Running.name = n
                             \/ suspended
=============================================================================
