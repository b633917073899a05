----------------------------- MODULE SGEventMgr -----------------------------
(***************************************************************************)
(* The event manager (simgear/structure/event_mgr.cxx): one queue of       *)
(* timers in simulated time and one in real time.  A timer that has been   *)
(* taken out to run is the queue's _current_timer; while its callback runs *)
(* any other operation may be called, and the callback may throw.          *)
(*                                                                         *)
(* An entry holds the time that is left, the difference of its `pri' and   *)
(* the queue's _now: all that is compared.  The heap is what std::pop_heap *)
(* and std::push_heap make of it, a set of which a smallest can be taken.  *)
(* The time unit stands for any positive time, the 1e-6 of add() included. *)
(* A name stands for one task, added again only when it is not scheduled.  *)
(***************************************************************************)
EXTENDS Integers

CONSTANTS Names,
          SimTime,      \* the names of tasks in simulated time
          Repeating,    \* the names added with addTask, the others with addEvent
          Interval,     \* the intervals and the delays they are added with
          Delay

ASSUME EventMgrAssumption ==
    /\ "" \notin Names
    /\ SimTime \subseteq Names /\ Repeating \subseteq Names
    /\ Interval \in [Names -> Nat] /\ Delay \in [Names -> Nat]

VARIABLES table,      \* _table of each queue
          current,    \* _current_timer of each queue
          inited, shutdown,
          evt,        \* update(): "out" of it, in the loop of a queue, in a callback
          wanted,     \* history: what the program has asked for, by name; "moot"
                      \* when a fault of the manager has been met (see below)
          gap         \* history: time since the task ran, up to its interval

evtVars == <<table, current, inited, shutdown, evt, wanted, gap>>

Queues == {"sim", "rt"}
QueueOf(n) == IF n \in SimTime THEN "sim" ELSE "rt"
NoTimer == [name |-> "", repeat |-> FALSE]

Waiting(n) == {e \in table[QueueOf(n)] : e.name = n}
Running == IF evt.pc = "callback" THEN current[evt.queue] ELSE NoTimer
Scheduled(n) == Waiting(n) # {} \/ (Running.name = n /\ Running.repeat)

EvtInit ==
    /\ table = [q \in Queues |-> {}]
    /\ current = [q \in Queues |-> NoTimer]
    /\ inited = FALSE /\ shutdown = FALSE
    /\ evt = [pc |-> "out", queue |-> "sim"]
    /\ wanted = [n \in Names |-> "no"]
    /\ gap = [n \in Names |-> Interval[n]]

-----------------------------------------------------------------------------
(* What other code calls, from a callback too.                             *)

(* Mutant: an interval or a delay of zero stays zero.                      *)
Unclamped(time) == time

Clamped(time) == IF time = 0 THEN 1 ELSE time

Inserted(q, n, time) == [table EXCEPT ![q] = @ \cup {[name |-> n, left |-> time]}]

Add(n) ==
    /\ ~Scheduled(n)
    /\ ~shutdown
    /\ table' = Inserted(QueueOf(n), n, Clamped(Delay[n]))
    /\ wanted' = [wanted EXCEPT ![n] = "yes"]
    /\ gap' = [gap EXCEPT ![n] = Interval[n]]
    /\ UNCHANGED <<current, inited, shutdown, evt>>

(* Mutant: a timer that runs is not looked for.                            *)
RemoveTaskWaiting(n) ==
    /\ IF inited
       THEN /\ table' = [table EXCEPT ![QueueOf(n)] = @ \ Waiting(n)]
            /\ wanted' = [wanted EXCEPT ![n] = "no"]
       ELSE /\ wanted' = [wanted EXCEPT ![n] = IF Scheduled(n) THEN "moot" ELSE "no"]
            /\ UNCHANGED table
    /\ UNCHANGED <<current, inited, shutdown, evt, gap>>

(* removeTask: a manager that is not initialised takes it that its queues  *)
(* are empty.  What is left in _current_timer by a callback that has       *)
(* thrown is found as well.                                                *)
RemoveTask(n) ==
    /\ IF inited
       THEN /\ table' = [table EXCEPT ![QueueOf(n)] = @ \ Waiting(n)]
            /\ current' = [q \in Queues |->
                             IF q = QueueOf(n) /\ Waiting(n) = {} /\ current[q].name = n
                             THEN [current[q] EXCEPT !.repeat = FALSE] ELSE current[q]]
            /\ wanted' = [wanted EXCEPT ![n] = "no"]
       ELSE /\ wanted' = [wanted EXCEPT ![n] = IF Scheduled(n) THEN "moot" ELSE "no"]
            /\ UNCHANGED <<table, current>>
    /\ UNCHANGED <<inited, shutdown, evt, gap>>

InitMgr ==
    /\ ~inited
    /\ inited' = TRUE /\ shutdown' = FALSE
    /\ UNCHANGED <<table, current, evt, wanted, gap>>

(* The queues are cleared; a timer that runs is in neither, and goes back  *)
(* when its callback returns.                                              *)
Shutdown ==
    /\ inited' = FALSE /\ shutdown' = TRUE
    /\ table' = [q \in Queues |-> {}]
    /\ wanted' = [n \in Names |-> IF Running.name = n /\ Running.repeat THEN "moot" ELSE "no"]
    /\ UNCHANGED <<current, evt, gap>>

-----------------------------------------------------------------------------
(* update() and SGTimerQueue::update.                                      *)

Later(q, delta) == [table EXCEPT ![q] = {[e EXCEPT !.left = @ - delta] : e \in table[q]}]

UpdateBegins(delta) ==
    /\ evt.pc = "out"
    /\ table' = Later("sim", delta)
    /\ evt' = [pc |-> "queue", queue |-> "sim"]
    /\ UNCHANGED <<current, inited, shutdown, wanted, gap>>

Due(q) == {e \in table[q] : e.left <= 0 /\ \A f \in table[q] : e.left <= f.left}

RunTimer ==
    /\ evt.pc = "queue"
    /\ \E e \in Due(evt.queue) :
          /\ current' = [current EXCEPT ![evt.queue] =
                           [name |-> e.name, repeat |-> e.name \in Repeating]]
          /\ table' = [table EXCEPT ![evt.queue] = @ \ {e}]
          /\ wanted' = IF e.name \in Repeating THEN wanted ELSE [wanted EXCEPT ![e.name] = "no"]
          /\ gap' = [gap EXCEPT ![e.name] = 0]
    /\ evt' = [evt EXCEPT !.pc = "callback"]
    /\ UNCHANGED <<inited, shutdown>>

CallbackReturns ==
    /\ evt.pc = "callback"
    /\ table' = IF Running.repeat
                THEN Inserted(evt.queue, Running.name, Clamped(Interval[Running.name]))
                ELSE table
    /\ current' = [current EXCEPT ![evt.queue] = NoTimer]
    /\ evt' = [evt EXCEPT !.pc = "queue"]
    /\ UNCHANGED <<inited, shutdown, wanted, gap>>

(* The exception leaves update(): the timer is not put back, and the time  *)
(* that has passed for the queue will be counted again.                    *)
CallbackThrows ==
    /\ evt.pc = "callback"
    /\ evt' = [pc |-> "out", queue |-> "sim"]
    /\ wanted' = IF Running.repeat THEN [wanted EXCEPT ![Running.name] = "moot"] ELSE wanted
    /\ gap' = Interval
    /\ UNCHANGED <<table, current, inited, shutdown>>

(* The real-time queue comes second, with the value of a property.         *)
SimDone(realTime) ==
    /\ evt = [pc |-> "queue", queue |-> "sim"] /\ Due("sim") = {}
    /\ table' = Later("rt", realTime)
    /\ evt' = [pc |-> "queue", queue |-> "rt"]
    /\ UNCHANGED <<current, inited, shutdown, wanted, gap>>

UpdateEnds ==
    /\ evt = [pc |-> "queue", queue |-> "rt"] /\ Due("rt") = {}
    /\ evt' = [pc |-> "out", queue |-> "sim"]
    /\ UNCHANGED <<table, current, inited, shutdown, wanted, gap>>

-----------------------------------------------------------------------------
(* What will run is what has been asked for: no task that has been removed *)
(* or cleared is scheduled, and none is lost, whatever a callback does to  *)
(* itself and to others.  Three faults are left out ("moot"): a repeating  *)
(* task is lost when its callback throws, removeTask does nothing before   *)
(* init(), a task that shuts the manager down is put back afterwards.      *)
ScheduledIsWhatWasAskedFor ==
    \A n \in Names : /\ wanted[n] = "no" => ~Scheduled(n)
                     /\ wanted[n] = "yes" => Scheduled(n)
=============================================================================
