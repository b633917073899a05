--------------------------- MODULE MainLoop_proofs ---------------------------
(***************************************************************************)
(* The event manager runs what was asked for, and a repeating task at most *)
(* once per interval, for any tasks, intervals and frame times, although   *)
(* its callbacks call it and its member skips frames and catches up.       *)
(***************************************************************************)
EXTENDS MainLoop, TLAPS

Entries == [name : Names, left : Int]

EvtType ==
    /\ table \in [Queues -> SUBSET Entries]
    /\ current \in [Queues -> [name : Names, repeat : BOOLEAN] \cup {NoTimer}]
    /\ inited \in BOOLEAN /\ shutdown \in BOOLEAN
    /\ evt \in [pc : {"out", "queue", "callback"}, queue : Queues]
    /\ wanted \in [Names -> {"no", "yes", "moot"}]
    /\ gap \in [Names -> Nat]

Frames == [pc : {"idle", "before", "events"}, loops : Nat, delta : Nat, real : Nat]

LoopType ==
    /\ fixed \in FixedTimes /\ remainder \in Int
    /\ elapsed \in Nat /\ suspended \in BOOLEAN
    /\ exceptions \in 0 .. MaxExceptions + 1
    /\ frame \in Frames /\ (frame.pc = "events" => frame.loops > 0)

(* A name is in its own queue and once at most; a repeating task that runs *)
(* is not in its queue.                                                    *)
NamesInPlace ==
    /\ \A q \in Queues : \A e \in table[q] :
          QueueOf(e.name) = q /\ \A f \in table[q] : f.name = e.name => f = e
    /\ evt.pc = "callback" =>
          /\ Running.name \in Names /\ QueueOf(Running.name) = evt.queue
          /\ Running.repeat => Waiting(Running.name) = {}

TaskInv == EvtType /\ NamesInPlace /\ ScheduledIsWhatWasAskedFor

-----------------------------------------------------------------------------
LEMMA QueueFacts == "sim" # "rt" /\ \A n : QueueOf(n) \in Queues
BY DEF Queues, QueueOf

LEMMA ClampedType == ASSUME NEW t \in Nat PROVE Clamped(t) \in Nat /\ Clamped(t) >= t
BY DEF Clamped

LEMMA TimesType == ASSUME NEW n \in Names PROVE Interval[n] \in Nat /\ Delay[n] \in Nat
BY EventMgrAssumption

(* An entry is put into its queue.                                         *)
LEMMA InsertedFacts ==
    ASSUME EvtType, NEW n \in Names, NEW t \in Int
    PROVE  /\ Inserted(QueueOf(n), n, t) \in [Queues -> SUBSET Entries]
           /\ \A q \in Queues : Inserted(QueueOf(n), n, t)[q]
                 = IF q = QueueOf(n) THEN table[q] \cup {[name |-> n, left |-> t]} ELSE table[q]
<1>1. [name |-> n, left |-> t] \in Entries /\ QueueOf(n) \in Queues
  BY QueueFacts DEF Entries
<1>2. QED
  BY <1>1 DEF EvtType, Inserted

(* Time passes for a queue: its entries come closer and are the same.      *)
LEMMA LaterFacts ==
    ASSUME EvtType, NEW q \in Queues, NEW delta \in Int
    PROVE  /\ Later(q, delta) \in [Queues -> SUBSET Entries]
           /\ \A p \in Queues \ {q} : Later(q, delta)[p] = table[p]
           /\ Later(q, delta)[q] = {[name |-> e.name, left |-> e.left - delta] : e \in table[q]}
<1>1. ASSUME NEW e \in table[q]
      PROVE  /\ e \in Entries
             /\ [e EXCEPT !.left = @ - delta] = [name |-> e.name, left |-> e.left - delta]
             /\ [name |-> e.name, left |-> e.left - delta] \in Entries
  <2>1. e \in Entries
    BY DEF EvtType
  <2>2. QED
    BY <2>1 DEF Entries
<1>2. {[e EXCEPT !.left = @ - delta] : e \in table[q]}
         = {[name |-> e.name, left |-> e.left - delta] : e \in table[q]}
  <2>1. \A e \in table[q] : [e EXCEPT !.left = @ - delta] = [name |-> e.name, left |-> e.left - delta]
    BY <1>1
  <2>2. QED
    BY <2>1, Zenon
<1>3. {[e EXCEPT !.left = @ - delta] : e \in table[q]} \in SUBSET Entries
  BY <1>1, <1>2
<1>4. QED
  BY <1>2, <1>3 DEF EvtType, Later

-----------------------------------------------------------------------------
(* The operations.                                                         *)

LEMMA AddKeeps == ASSUME TaskInv, NEW n \in Names, Add(n) PROVE TaskInv'
<1> DEFINE new == [name |-> n, left |-> Clamped(Delay[n])]
<1>1. Clamped(Delay[n]) \in Int /\ ~Scheduled(n) /\ EvtType
  BY TimesType, ClampedType DEF TaskInv, Add
<1>2. /\ table' \in [Queues -> SUBSET Entries]
      /\ \A q \in Queues : table'[q] = IF q = QueueOf(n) THEN table[q] \cup {new} ELSE table[q]
  BY <1>1, InsertedFacts DEF Add
<1>3. /\ UNCHANGED <<current, inited, shutdown, evt>>
      /\ wanted' = [wanted EXCEPT ![n] = "yes"] /\ gap' = [gap EXCEPT ![n] = Interval[n]]
  BY DEF Add
<1>4. EvtType'
  BY <1>1, <1>2, <1>3, TimesType DEF EvtType, Queues
<1>5. Waiting(n) = {}
  BY <1>1 DEF Scheduled
<1>6. NamesInPlace'
  <2>1. \A q \in Queues : \A e \in table'[q] :
           QueueOf(e.name) = q /\ \A f \in table'[q] : f.name = e.name => f = e
    <3>1. new.name = n
      OBVIOUS
    <3>2. \A e \in table[QueueOf(n)] : e.name # n
      BY <1>5 DEF Waiting
    <3> HIDE DEF new
    <3>3. QED
      BY <1>2, <3>1, <3>2 DEF TaskInv, NamesInPlace
  <2>2. Running' = Running
    BY <1>3 DEF Running
  <2>3. evt.pc = "callback" /\ Running.repeat => Running.name # n
    BY <1>1 DEF Scheduled
  <2>4. \A m \in Names \ {n} : Waiting(m)' = Waiting(m)
    BY <1>2, QueueFacts DEF Waiting
  <2>5. QED
    BY <1>3, <2>1, <2>2, <2>3, <2>4 DEF TaskInv, NamesInPlace
<1>7. ScheduledIsWhatWasAskedFor'
  <2>1. Waiting(n)' # {}
    <3>1. new \in table'[QueueOf(n)] /\ new.name = n
      BY <1>2, QueueFacts
    <3>2. QED
      BY <3>1 DEF Waiting
  <2>2. \A m \in Names \ {n} : Waiting(m)' = Waiting(m)
    BY <1>2, QueueFacts DEF Waiting
  <2>3. Running' = Running /\ \A m \in Names : wanted'[m] = IF m = n THEN "yes" ELSE wanted[m]
    BY <1>1, <1>3 DEF Running, EvtType
  <2>4. QED
    BY <2>1, <2>2, <2>3 DEF TaskInv, ScheduledIsWhatWasAskedFor, Scheduled
<1>8. QED
  BY <1>4, <1>6, <1>7 DEF TaskInv

LEMMA RemoveKeeps == ASSUME TaskInv, NEW n \in Names, RemoveTask(n) PROVE TaskInv'
<1>1. UNCHANGED <<inited, shutdown, evt, gap>> /\ EvtType
  BY DEF RemoveTask, TaskInv
<1>2. CASE ~inited
  <2>1. /\ UNCHANGED <<table, current>>
        /\ wanted' = [wanted EXCEPT ![n] = IF Scheduled(n) THEN "moot" ELSE "no"]
    BY <1>2 DEF RemoveTask
  <2>2. EvtType' /\ NamesInPlace'
    BY <1>1, <2>1 DEF EvtType, TaskInv, NamesInPlace, Running, Waiting, Queues
  <2>3. \A m \in Names : Scheduled(m)' <=> Scheduled(m)
    BY <1>1, <2>1 DEF Scheduled, Waiting, Running
  <2>4. \A m \in Names : wanted'[m] = IF m = n THEN IF Scheduled(n) THEN "moot" ELSE "no" ELSE wanted[m]
    BY <1>1, <2>1 DEF EvtType
  <2>5. QED
    BY <2>2, <2>3, <2>4 DEF TaskInv, ScheduledIsWhatWasAskedFor
<1>3. CASE inited
  <2>1. /\ table' = [table EXCEPT ![QueueOf(n)] = @ \ Waiting(n)]
        /\ current' = [q \in Queues |->
                         IF q = QueueOf(n) /\ Waiting(n) = {} /\ current[q].name = n
                         THEN [current[q] EXCEPT !.repeat = FALSE] ELSE current[q]]
        /\ wanted' = [wanted EXCEPT ![n] = "no"]
    BY <1>3 DEF RemoveTask
  <2>2. /\ table' \in [Queues -> SUBSET Entries]
        /\ \A q \in Queues : table'[q] = IF q = QueueOf(n) THEN table[q] \ Waiting(n) ELSE table[q]
    BY <1>1, <2>1, QueueFacts DEF EvtType
  <2>3. \A q \in Queues : [current[q] EXCEPT !.repeat = FALSE] \in
                             [name : Names, repeat : BOOLEAN] \cup {NoTimer}
    <3>1. ASSUME NEW c \in [name : Names, repeat : BOOLEAN]
          PROVE  [c EXCEPT !.repeat = FALSE] \in [name : Names, repeat : BOOLEAN]
      OBVIOUS
    <3>2. ASSUME NEW c \in [name : {""}, repeat : {FALSE}]
          PROVE  [c EXCEPT !.repeat = FALSE] = c
      OBVIOUS
    <3>3. NoTimer \in [name : {""}, repeat : {FALSE}]
      BY DEF NoTimer
    <3>4. QED
      BY <1>1, <3>1, <3>2, <3>3 DEF EvtType
  <2>4. EvtType'
    BY <1>1, <2>1, <2>2, <2>3 DEF EvtType
  <2>5. Waiting(n)' = {} /\ \A m \in Names \ {n} : Waiting(m)' = Waiting(m)
    BY <2>2, QueueFacts DEF Waiting
  <2>6. evt.pc = "callback" =>
           /\ Running'.name = Running.name
           /\ Running'.repeat <=> Running.repeat /\ ~(Running.name = n /\ Waiting(n) = {})
    <3>1. SUFFICES ASSUME evt.pc = "callback"
                   PROVE  /\ Running'.name = Running.name
                          /\ Running'.repeat <=> Running.repeat /\ ~(Running.name = n /\ Waiting(n) = {})
      OBVIOUS
    <3>2. /\ evt.queue \in Queues /\ Running = current[evt.queue] /\ Running' = current'[evt.queue]
          /\ Running \in [name : Names, repeat : BOOLEAN] \cup {NoTimer}
          /\ Running.name = n => evt.queue = QueueOf(n)
      BY <1>1, <3>1 DEF EvtType, Running, TaskInv, NamesInPlace
    <3>3. QED
      BY <2>1, <3>2 DEF NoTimer
  <2>7. NamesInPlace'
    <3>1. \A q \in Queues : \A e \in table'[q] :
             QueueOf(e.name) = q /\ \A f \in table'[q] : f.name = e.name => f = e
      BY <2>2 DEF TaskInv, NamesInPlace
    <3>2. QED
      BY <1>1, <2>5, <2>6, <3>1 DEF TaskInv, NamesInPlace
  <2>8. Running.name = n /\ Running.repeat => evt.pc = "callback" /\ Waiting(n) = {}
    BY EventMgrAssumption DEF Running, NoTimer, TaskInv, NamesInPlace
  <2>9. evt.pc # "callback" => Running' = NoTimer /\ Running = NoTimer
    BY <1>1 DEF Running
  <2>10. \A m \in Names : wanted'[m] = IF m = n THEN "no" ELSE wanted[m]
    BY <1>1, <2>1 DEF EvtType
  <2>11. ScheduledIsWhatWasAskedFor'
    BY <2>5, <2>6, <2>8, <2>9, <2>10, EventMgrAssumption
       DEF TaskInv, ScheduledIsWhatWasAskedFor, Scheduled, NoTimer
  <2>12. QED
    BY <2>4, <2>7, <2>11 DEF TaskInv
<1>4. QED
  BY <1>2, <1>3

LEMMA ShutdownKeeps == ASSUME TaskInv, Shutdown PROVE TaskInv'
<1>1. /\ inited' = FALSE /\ shutdown' = TRUE
      /\ table' = [q \in Queues |-> {}]
      /\ wanted' = [n \in Names |-> IF Running.name = n /\ Running.repeat THEN "moot" ELSE "no"]
      /\ UNCHANGED <<current, evt, gap>>
  BY DEF Shutdown
<1>2. EvtType'
  BY <1>1 DEF TaskInv, EvtType
<1>3. Running' = Running /\ \A n \in Names : Waiting(n)' = {}
  BY <1>1, QueueFacts DEF Running, Waiting
<1>4. NamesInPlace'
  BY <1>1, <1>3 DEF TaskInv, NamesInPlace
<1>5. ScheduledIsWhatWasAskedFor'
  BY <1>1, <1>3 DEF ScheduledIsWhatWasAskedFor, Scheduled
<1>6. QED
  BY <1>2, <1>4, <1>5 DEF TaskInv

LEMMA InitMgrKeeps == ASSUME TaskInv, InitMgr PROVE TaskInv'
<1>1. UNCHANGED <<table, current, evt, wanted, gap>> /\ inited' \in BOOLEAN /\ shutdown' \in BOOLEAN
  BY DEF InitMgr
<1>2. QED
  BY <1>1 DEF TaskInv, EvtType, NamesInPlace, ScheduledIsWhatWasAskedFor, Scheduled, Waiting,
              Running, Queues

(* The steps of update() in which time passes for one queue.               *)
LEMMA TimeKeeps ==
    ASSUME TaskInv, NEW q \in Queues, NEW delta \in Int, table' = Later(q, delta),
           evt.pc # "callback", evt' \in [pc : {"queue"}, queue : Queues],
           UNCHANGED <<current, inited, shutdown, wanted, gap>>
    PROVE  TaskInv'
<1>1. /\ table' \in [Queues -> SUBSET Entries]
      /\ \A p \in Queues \ {q} : table'[p] = table[p]
      /\ table'[q] = {[name |-> e.name, left |-> e.left - delta] : e \in table[q]}
  BY LaterFacts DEF TaskInv
<1>2. EvtType'
  BY <1>1 DEF TaskInv, EvtType
<1>3. Running' = NoTimer /\ Running = NoTimer /\ evt'.pc # "callback"
  BY DEF Running
<1>4. \A n \in Names : Waiting(n)' = {} <=> Waiting(n) = {}
  <2>1. ASSUME NEW n \in Names, QueueOf(n) = q PROVE Waiting(n)' = {} <=> Waiting(n) = {}
    <3>1. \A e \in table[q] : [name |-> e.name, left |-> e.left - delta].name = e.name
      OBVIOUS
    <3>2. (\E e \in table'[q] : e.name = n) <=> \E e \in table[q] : e.name = n
      BY <1>1, <3>1
    <3>3. QED
      BY <2>1, <3>2 DEF Waiting
  <2>2. ASSUME NEW n \in Names, QueueOf(n) # q PROVE Waiting(n)' = Waiting(n)
    BY <1>1, <2>2, QueueFacts DEF Waiting
  <2>3. QED
    BY <2>1, <2>2
<1>5. NamesInPlace'
  <2>1. \A p \in Queues : \A e \in table'[p] :
           QueueOf(e.name) = p /\ \A f \in table'[p] : f.name = e.name => f = e
    <3>1. ASSUME NEW e \in table'[q], NEW f \in table'[q]
          PROVE  QueueOf(e.name) = q /\ (f.name = e.name => f = e)
      <4>1. PICK d \in table[q] : e = [name |-> d.name, left |-> d.left - delta]
        BY <1>1
      <4>2. PICK g \in table[q] : f = [name |-> g.name, left |-> g.left - delta]
        BY <1>1
      <4>3. e.name = d.name /\ f.name = g.name
        BY <4>1, <4>2
      <4>4. QED
        BY <4>1, <4>2, <4>3 DEF TaskInv, NamesInPlace
    <3>2. QED
      BY <1>1, <3>1 DEF TaskInv, NamesInPlace
  <2>2. QED
    BY <1>3, <2>1 DEF NamesInPlace
<1>6. ScheduledIsWhatWasAskedFor'
  BY <1>3, <1>4 DEF TaskInv, ScheduledIsWhatWasAskedFor, Scheduled
<1>7. QED
  BY <1>2, <1>5, <1>6 DEF TaskInv

LEMMA RunTimerKeeps == ASSUME TaskInv, RunTimer PROVE TaskInv'
<1> DEFINE q == evt.queue
<1>1. PICK e \in Due(q) :
         /\ current' = [current EXCEPT ![q] = [name |-> e.name, repeat |-> e.name \in Repeating]]
         /\ table' = [table EXCEPT ![q] = @ \ {e}]
         /\ wanted' = IF e.name \in Repeating THEN wanted ELSE [wanted EXCEPT ![e.name] = "no"]
         /\ gap' = [gap EXCEPT ![e.name] = 0]
  BY DEF RunTimer
<1>2. /\ evt.pc = "queue" /\ evt' = [evt EXCEPT !.pc = "callback"] /\ UNCHANGED <<inited, shutdown>>
  BY DEF RunTimer
<1>3. EvtType /\ q \in Queues /\ e \in table[q] /\ e \in Entries /\ e.name \in Names
  BY DEF TaskInv, EvtType, Due, Entries
<1>4. evt'.pc = "callback" /\ evt'.queue = q
  BY <1>2, <1>3 DEF EvtType
<1> HIDE DEF q
<1>5. EvtType'
  <2>1. table' \in [Queues -> SUBSET Entries] /\ gap' \in [Names -> Nat]
    BY <1>1, <1>3 DEF EvtType
  <2>2. wanted' \in [Names -> {"no", "yes", "moot"}]
    BY <1>1, <1>3 DEF EvtType
  <2>3. [name |-> e.name, repeat |-> e.name \in Repeating] \in [name : Names, repeat : BOOLEAN]
    BY <1>3
  <2>4. current' \in [Queues -> [name : Names, repeat : BOOLEAN] \cup {NoTimer}]
    BY <1>1, <1>3, <2>3 DEF EvtType
  <2>5. evt' \in [pc : {"out", "queue", "callback"}, queue : Queues]
    BY <1>2, <1>3 DEF EvtType
  <2>6. QED
    BY <1>2, <1>3, <2>1, <2>2, <2>4, <2>5 DEF EvtType
<1>6. Running = NoTimer /\ Running'.name = e.name /\ (Running'.repeat <=> e.name \in Repeating)
  <2> DEFINE t == [name |-> e.name, repeat |-> e.name \in Repeating]
  <2>1. Running' = current'[q]
    BY <1>4 DEF Running
  <2>2. current'[q] = t
    BY <1>1, <1>3 DEF EvtType
  <2>3. Running = NoTimer
    BY <1>2 DEF Running
  <2>4. t.name = e.name /\ t.repeat = (e.name \in Repeating)
    OBVIOUS
  <2>5. Running'.name = t.name /\ Running'.repeat = t.repeat
    BY <2>1, <2>2
  <2> HIDE DEF t
  <2>6. QED
    BY <2>3, <2>4, <2>5
<1>7. QueueOf(e.name) = q /\ \A f \in table[q] : f.name = e.name => f = e
  BY <1>3 DEF TaskInv, NamesInPlace
<1>8. \A p \in Queues : table'[p] = IF p = q THEN table[p] \ {e} ELSE table[p]
  BY <1>1, <1>3 DEF EvtType
<1>9. /\ Waiting(e.name)' = {} /\ Waiting(e.name) # {}
      /\ \A n \in Names \ {e.name} : Waiting(n)' = Waiting(n)
  BY <1>3, <1>7, <1>8, QueueFacts DEF Waiting
<1>10. NamesInPlace'
  <2>1. \A p \in Queues : \A d \in table'[p] :
           QueueOf(d.name) = p /\ \A f \in table'[p] : f.name = d.name => f = d
    BY <1>8 DEF TaskInv, NamesInPlace
  <2>2. Running'.name = e.name /\ QueueOf(e.name) = evt'.queue /\ Waiting(e.name)' = {}
    BY <1>4, <1>6, <1>7, <1>9
  <2>3. Running'.name \in Names /\ QueueOf(Running.name)' = evt'.queue
    BY <1>3, <2>2 DEF QueueOf
  <2>4. Waiting(Running.name)' = {}
    BY <2>2 DEF Waiting, QueueOf
  <2>5. QED
    BY <2>1, <2>3, <2>4 DEF NamesInPlace
<1>11. ScheduledIsWhatWasAskedFor'
  <2>1. /\ wanted[e.name] # "no"
        /\ \A n \in Names \ {e.name} : /\ wanted[n] = "no" => ~Scheduled(n)
                                       /\ wanted[n] = "yes" => Scheduled(n)
    BY <1>3, <1>9 DEF TaskInv, ScheduledIsWhatWasAskedFor, Scheduled
  <2>2. \A n \in Names \ {e.name} : wanted'[n] = wanted[n] /\ (Scheduled(n)' <=> Scheduled(n))
    BY <1>1, <1>3, <1>6, <1>9, EventMgrAssumption DEF EvtType, Scheduled, NoTimer
  <2>3. CASE e.name \in Repeating
    BY <1>1, <1>6, <2>1, <2>2, <2>3 DEF ScheduledIsWhatWasAskedFor, Scheduled
  <2>4. CASE e.name \notin Repeating
    <3>1. wanted'[e.name] = "no" /\ ~Scheduled(e.name)'
      BY <1>1, <1>3, <1>6, <1>9, <2>4 DEF EvtType, Scheduled
    <3>2. QED
      BY <2>1, <2>2, <3>1 DEF ScheduledIsWhatWasAskedFor
  <2>5. QED
    BY <2>3, <2>4
<1>12. QED
  BY <1>5, <1>10, <1>11 DEF TaskInv

LEMMA CallbackReturnsKeeps == ASSUME TaskInv, CallbackReturns PROVE TaskInv'
<1>n. PICK n \in Names : n = Running.name
  BY DEF TaskInv, NamesInPlace, CallbackReturns
<1>1. /\ table' = IF Running.repeat
                  THEN Inserted(evt.queue, n, Clamped(Interval[n])) ELSE table
      /\ current' = [current EXCEPT ![evt.queue] = NoTimer]
      /\ UNCHANGED <<inited, shutdown, wanted, gap>>
      /\ evt.pc = "callback" /\ evt' = [evt EXCEPT !.pc = "queue"]
  BY <1>n DEF CallbackReturns
<1>2. /\ EvtType /\ evt.queue = QueueOf(n) /\ evt.queue \in Queues
      /\ Running.repeat => Waiting(n) = {}
      /\ evt'.pc = "queue" /\ evt' \in [pc : {"out", "queue", "callback"}, queue : Queues]
  BY <1>n, <1>1 DEF TaskInv, EvtType, NamesInPlace
<1>3. Running' = NoTimer
  BY <1>2 DEF Running
<1>4. current' \in [Queues -> [name : Names, repeat : BOOLEAN] \cup {NoTimer}]
  BY <1>1, <1>2 DEF EvtType
<1>5. NoTimer.repeat = FALSE
  BY DEF NoTimer
<1>6. CASE ~Running.repeat
  <2>1. table' = table
    BY <1>1, <1>6
  <2>2. \A m \in Names : Scheduled(m)' <=> Scheduled(m)
    BY <1>3, <1>5, <1>6, <2>1 DEF Scheduled, Waiting, NoTimer
  <2>3. EvtType'
    BY <1>1, <1>2, <1>4, <2>1 DEF EvtType
  <2>4. NamesInPlace'
    BY <1>2, <2>1 DEF TaskInv, NamesInPlace
  <2>5. ScheduledIsWhatWasAskedFor'
    BY <1>1, <2>2 DEF TaskInv, ScheduledIsWhatWasAskedFor
  <2>6. QED
    BY <2>3, <2>4, <2>5 DEF TaskInv
<1>7. CASE Running.repeat
  <2> DEFINE new == [name |-> n, left |-> Clamped(Interval[n])]
  <2>1. Clamped(Interval[n]) \in Int
    BY <1>2, TimesType, ClampedType
  <2>0. table' = Inserted(QueueOf(n), n, Clamped(Interval[n]))
    BY <1>1, <1>2, <1>7
  <2>2. /\ table' \in [Queues -> SUBSET Entries]
        /\ \A q \in Queues : table'[q] = IF q = QueueOf(n) THEN table[q] \cup {new} ELSE table[q]
    BY <1>2, <2>0, <2>1, InsertedFacts
  <2>3. new.name = n
    OBVIOUS
  <2>4. \A e \in table[QueueOf(n)] : e.name # n
    BY <1>2, <1>7 DEF Waiting
  <2> HIDE DEF new
  <2>5. NamesInPlace'
    <3>1. \A q \in Queues : \A e \in table'[q] :
             QueueOf(e.name) = q /\ \A f \in table'[q] : f.name = e.name => f = e
      BY <2>2, <2>3, <2>4, <1>2 DEF TaskInv, NamesInPlace
    <3>2. QED
      BY <1>2, <3>1 DEF NamesInPlace
  <2>6. Waiting(n)' # {} /\ \A m \in Names \ {n} : Waiting(m)' = Waiting(m)
    <3>1. new \in table'[QueueOf(n)]
      BY <1>2, <2>2
    <3>2. QED
      BY <1>2, <2>2, <2>3, <3>1, QueueFacts DEF Waiting
  <2>7. \A m \in Names : Scheduled(m)' <=> Scheduled(m)
    BY <1>n, <1>3, <1>5, <1>7, <2>6 DEF Scheduled, NoTimer
  <2>8. EvtType'
    BY <1>1, <1>2, <1>4, <2>2 DEF EvtType
  <2>9. ScheduledIsWhatWasAskedFor'
    BY <1>1, <2>7 DEF TaskInv, ScheduledIsWhatWasAskedFor
  <2>10. QED
    BY <2>5, <2>8, <2>9 DEF TaskInv
<1>8. QED
  BY <1>6, <1>7

LEMMA CallbackThrowsKeeps == ASSUME TaskInv, CallbackThrows PROVE TaskInv'
<1>n. PICK n \in Names : n = Running.name
  BY DEF TaskInv, NamesInPlace, CallbackThrows
<1>1. /\ evt.pc = "callback" /\ evt' = [pc |-> "out", queue |-> "sim"]
      /\ wanted' = IF Running.repeat THEN [wanted EXCEPT ![n] = "moot"] ELSE wanted
      /\ gap' = Interval /\ UNCHANGED <<table, current, inited, shutdown>>
  BY <1>n DEF CallbackThrows
<1>2. EvtType
  BY DEF TaskInv
<1>3. /\ evt'.pc = "out" /\ evt' \in [pc : {"out", "queue", "callback"}, queue : Queues]
      /\ Running' = NoTimer /\ NoTimer.repeat = FALSE
  BY <1>1, QueueFacts DEF Queues, Running, NoTimer
<1>4. wanted' \in [Names -> {"no", "yes", "moot"}]
  BY <1>1, <1>2 DEF EvtType
<1>5. EvtType'
  BY <1>1, <1>2, <1>3, <1>4, EventMgrAssumption DEF EvtType
<1>6. NamesInPlace'
  BY <1>1, <1>3 DEF TaskInv, NamesInPlace
<1>7. \A m \in Names : Waiting(m)' = Waiting(m)
  BY <1>1 DEF Waiting
<1>8. ASSUME NEW m \in Names
      PROVE  (wanted'[m] = "no" => ~Scheduled(m)') /\ (wanted'[m] = "yes" => Scheduled(m)')
  <2>1. CASE m = n /\ Running.repeat
    BY <1>1, <1>2, <2>1 DEF EvtType
  <2>2. CASE ~(m = n /\ Running.repeat)
    <3>1. wanted'[m] = wanted[m]
      BY <1>1, <1>2, <2>2 DEF EvtType
    <3>2. Scheduled(m)' <=> Scheduled(m)
      BY <1>n, <1>3, <1>7, <2>2 DEF Scheduled, NoTimer
    <3>3. QED
      BY <3>1, <3>2 DEF TaskInv, ScheduledIsWhatWasAskedFor
  <2>3. QED
    BY <2>1, <2>2
<1>9. QED
  BY <1>5, <1>6, <1>8 DEF TaskInv, ScheduledIsWhatWasAskedFor

-----------------------------------------------------------------------------
(* The main loop.                                                          *)

LEMMA AtMostType == ASSUME NEW x \in Nat, NEW y \in Nat
                    PROVE  AtMost(x, y) \in Nat /\ AtMost(x, y) <= y /\ AtMost(x, y) <= x
BY DEF AtMost

Inv == TaskInv /\ LoopType

LEMMA ElapsedType == ASSUME LoopType PROVE NowElapsed \in Nat
<1>1. elapsed + frame.delta \in Nat
  BY DEF LoopType, Frames
<1>2. QED
  BY <1>1, MainLoopAssumption, AtMostType DEF NowElapsed

LEMMA LoopsType == ASSUME NEW local \in Int, LoopType, fixed > 0 PROVE Loops(local) \in Nat
<1>1. fixed \in Nat
  BY MainLoopAssumption DEF LoopType
<1>2. CASE local < 0
  BY <1>2 DEF Loops
<1>3. CASE local >= 0
  <2>1. 2 * local + fixed \in Nat /\ 2 * fixed \in Nat \ {0}
    BY <1>1, <1>3
  <2>2. \A a \in Nat, b \in Nat \ {0} : a \div b \in Nat
    OBVIOUS
  <2>3. (2 * local + fixed) \div (2 * fixed) \in Nat
    BY <2>1, <2>2
  <2>4. QED
    BY <1>3, <2>3 DEF Loops
<1>4. QED
  BY <1>2, <1>3

LEMMA FrameKeeps ==
    ASSUME Inv, NEW time \in Nat, NEW real \in Nat, Frame(time, real)
    PROVE  Inv'
<1>1. /\ gap' = [n \in Names |-> AtMost(gap[n] + IF n \in SimTime THEN time ELSE real, Interval[n])]
      /\ UNCHANGED <<table, current, inited, shutdown, evt, wanted, fixed, elapsed, suspended, exceptions>>
  BY DEF Frame
<1>2. gap' \in [Names -> Nat]
  <2>1. ASSUME NEW n \in Names
        PROVE  AtMost(gap[n] + IF n \in SimTime THEN time ELSE real, Interval[n]) \in Nat
    <3>1. gap[n] + (IF n \in SimTime THEN time ELSE real) \in Nat
      BY DEF Inv, TaskInv, EvtType
    <3>2. QED
      BY <3>1, AtMostType, TimesType
  <2>2. QED
    BY <1>1, <2>1
<1>3. TaskInv'
  BY <1>1, <1>2 DEF Inv, TaskInv, EvtType, NamesInPlace, ScheduledIsWhatWasAskedFor, Scheduled,
                    Waiting, Running
<1>4. LoopType /\ fixed \in Nat
  BY MainLoopAssumption DEF Inv, LoopType
<1>5. CASE time > 0 /\ fixed > 0
  <2> DEFINE loops == Loops(time + remainder)
  <2>1. loops \in Nat
    BY <1>4, <1>5, LoopsType DEF LoopType
  <2>2. /\ frame' = [pc |-> "before", loops |-> loops, delta |-> fixed, real |-> real]
        /\ remainder' = time - loops * fixed
    BY <1>5 DEF Frame
  <2> HIDE DEF loops
  <2>3. remainder' \in Int
    BY <1>4, <2>1, <2>2
  <2>4. LoopType'
    BY <1>1, <1>4, <2>1, <2>2, <2>3 DEF LoopType, Frames
  <2>5. QED
    BY <1>3, <2>4 DEF Inv
<1>6. CASE ~(time > 0 /\ fixed > 0)
  <2>1. frame' = [pc |-> "before", loops |-> 1, delta |-> time, real |-> real]
        /\ UNCHANGED remainder
    BY <1>6 DEF Frame
  <2>2. LoopType'
    BY <1>1, <1>4, <2>1 DEF LoopType, Frames
  <2>3. QED
    BY <1>3, <2>2 DEF Inv
<1>7. QED
  BY <1>5, <1>6

LEMMA NextLoopType ==
    ASSUME LoopType, NextLoop, frame.loops > 0
    PROVE  frame' \in Frames /\ frame'.pc = "before"
<1>1. frame \in Frames /\ frame.loops - 1 \in Nat
  BY DEF LoopType, Frames
<1>2. QED
  BY <1>1 DEF NextLoop, Frames

LEMMA SameTasks == ASSUME TaskInv, UNCHANGED evtVars PROVE TaskInv'
BY DEF TaskInv, EvtType, NamesInPlace, ScheduledIsWhatWasAskedFor, Scheduled, Waiting, Running,
       Queues, evtVars

LEMMA SkipKeeps == ASSUME Inv, Skip PROVE Inv'
<1>1. TaskInv' /\ UNCHANGED <<fixed, remainder, suspended, exceptions>>
  BY SameTasks DEF Skip, Inv
<1>2. frame' \in Frames /\ frame'.pc = "before"
  BY NextLoopType DEF Skip, AtMember, Inv
<1>3. elapsed' \in Nat
  BY ElapsedType DEF Skip, Inv
<1>4. QED
  BY <1>1, <1>2, <1>3 DEF Inv, LoopType

LEMMA UpdateKeeps == ASSUME Inv, Update PROVE Inv'
<1>1. /\ frame' = [frame EXCEPT !.pc = "events"] /\ frame.loops > 0
      /\ UpdateBegins(NowElapsed) /\ elapsed' = NowElapsed
      /\ UNCHANGED <<fixed, remainder, suspended, exceptions>>
  BY DEF Update, AtMember
<1>2. NowElapsed \in Nat
  BY ElapsedType DEF Inv
<1>3. frame' \in Frames /\ frame'.loops > 0
  BY <1>1 DEF Inv, LoopType, Frames
<1>4. TaskInv'
  <2>1. /\ evt.pc = "out" /\ table' = Later("sim", NowElapsed)
        /\ evt' = [pc |-> "queue", queue |-> "sim"]
        /\ UNCHANGED <<current, inited, shutdown, wanted, gap>>
    BY <1>1 DEF UpdateBegins
  <2>2. "sim" \in Queues /\ NowElapsed \in Int
    BY <1>2 DEF Queues
  <2>3. QED
    BY <2>1, <2>2, TimeKeeps DEF Inv
<1>5. QED
  BY <1>1, <1>2, <1>3, <1>4 DEF Inv, LoopType

LEMMA UpdatedKeeps == ASSUME Inv, Updated PROVE Inv'
<1>1. /\ evt.pc = "queue" /\ evt' = [pc |-> "out", queue |-> "sim"]
      /\ UNCHANGED <<table, current, inited, shutdown, wanted, gap>>
      /\ UNCHANGED <<fixed, remainder, suspended, exceptions>> /\ elapsed' = 0
  BY DEF Updated, UpdateEnds
<1>2. TaskInv'
  <2>1. Running' = NoTimer /\ Running = NoTimer /\ evt'.pc = "out" /\ evt'.queue \in Queues
    BY <1>1 DEF Running, Queues
  <2>2. EvtType'
    BY <1>1, <2>1 DEF Inv, TaskInv, EvtType
  <2>3. NamesInPlace'
    BY <1>1, <2>1 DEF Inv, TaskInv, NamesInPlace
  <2>4. \A n \in Names : Scheduled(n)' <=> Scheduled(n)
    BY <1>1, <2>1 DEF Scheduled, Waiting
  <2>5. QED
    BY <1>1, <2>2, <2>3, <2>4 DEF Inv, TaskInv, ScheduledIsWhatWasAskedFor
<1>3. frame' \in Frames /\ frame'.pc = "before"
  BY NextLoopType DEF Updated, Inv, LoopType
<1>4. QED
  BY <1>1, <1>2, <1>3 DEF Inv, LoopType

LEMMA ThrewKeeps == ASSUME Inv, Threw PROVE Inv'
<1>1. TaskInv' /\ UNCHANGED <<fixed, remainder, elapsed>>
  BY CallbackThrowsKeeps DEF Threw, Inv
<1>2. frame' \in Frames /\ frame'.pc = "before"
  BY NextLoopType DEF Threw, Inv, LoopType
<1>3. exceptions' \in 0 .. MaxExceptions + 1 /\ suspended' \in BOOLEAN
  <2>1. exceptions + 1 \in Nat /\ MaxExceptions + 1 \in Nat
    BY MainLoopAssumption DEF Inv, LoopType
  <2>2. exceptions' \in Nat /\ exceptions' <= MaxExceptions + 1
    BY <2>1, AtMostType DEF Threw
  <2>3. QED
    BY <2>1, <2>2, MainLoopAssumption DEF Threw
<1>4. QED
  BY <1>1, <1>2, <1>3 DEF Inv, LoopType

LEMMA EventsKeep == ASSUME Inv, InEvents, UNCHANGED loopVars PROVE Inv'
<1>1. TaskInv'
  <2>1. CASE RunTimer
    BY <2>1, RunTimerKeeps DEF Inv
  <2>2. CASE CallbackReturns
    BY <2>2, CallbackReturnsKeeps DEF Inv
  <2>3. CASE SimDone(frame.real)
    <3>1. /\ evt.pc = "queue" /\ table' = Later("rt", frame.real)
          /\ evt' = [pc |-> "queue", queue |-> "rt"]
          /\ UNCHANGED <<current, inited, shutdown, wanted, gap>>
      BY <2>3 DEF SimDone
    <3>2. "rt" \in Queues /\ frame.real \in Int
      BY DEF Queues, Inv, LoopType, Frames
    <3>3. QED
      BY <3>1, <3>2, TimeKeeps DEF Inv
  <2>4. QED
    BY <2>1, <2>2, <2>3 DEF InEvents
<1>2. QED
  BY <1>1 DEF Inv, LoopType, loopVars

LEMMA Initially == Init => Inv
<1> SUFFICES ASSUME Init PROVE Inv
  OBVIOUS
<1>1. Running = NoTimer /\ \A n \in Names : ~Scheduled(n)
  <2>1. \A n \in Names : QueueOf(n) \in Queues /\ "sim" \in Queues
    BY QueueFacts DEF Queues
  <2>2. QED
    BY <2>1 DEF Init, EvtInit, Running, Scheduled, Waiting, NoTimer
<1>2. EvtType
  BY EventMgrAssumption DEF Init, EvtInit, EvtType, Queues
<1>3. NamesInPlace
  BY DEF Init, EvtInit, NamesInPlace
<1>4. ScheduledIsWhatWasAskedFor
  BY <1>1 DEF Init, EvtInit, ScheduledIsWhatWasAskedFor
<1>5. LoopType
  <2>1. [pc |-> "idle", loops |-> 0, delta |-> 0, real |-> 0] \in Frames
    BY DEF Frames
  <2>2. 0 \in 0 .. MaxExceptions + 1
    BY MainLoopAssumption
  <2>3. frame \in Frames /\ frame.pc = "idle"
    BY <2>1 DEF Init
  <2>4. fixed \in FixedTimes /\ remainder \in Int /\ elapsed \in Nat
    BY DEF Init
  <2>5. suspended \in BOOLEAN /\ exceptions \in 0 .. MaxExceptions + 1
    BY <2>2, Zenon DEF Init
  <2>6. QED
    BY <2>3, <2>4, <2>5 DEF LoopType
<1>6. QED
  BY <1>2, <1>3, <1>4, <1>5 DEF Inv, TaskInv

LEMMA Inductive == Inv /\ [Next]_vars => Inv'
<1> SUFFICES ASSUME Inv, [Next]_vars PROVE Inv'
  OBVIOUS
<1>1. CASE \E time \in FrameTimes : NewFrame(time)
  <2>1. PICK time \in FrameTimes : NewFrame(time)
    BY <1>1
  <2>2. time \in Nat /\ (IF time = 0 THEN 1 ELSE time) \in Nat
    BY MainLoopAssumption
  <2>3. QED
    BY <2>1, <2>2, FrameKeeps DEF NewFrame
<1>2. CASE FrameEnds
  BY <1>2, SameTasks DEF FrameEnds, Inv, LoopType, Frames
<1>3. CASE Skip
  BY <1>3, SkipKeeps
<1>4. CASE Update
  BY <1>4, UpdateKeeps
<1>5. CASE Updated
  BY <1>5, UpdatedKeeps
<1>6. CASE Threw
  BY <1>6, ThrewKeeps
<1>7. CASE InEvents /\ UNCHANGED loopVars
  BY <1>7, EventsKeep
<1>8. CASE Call
  <2>1. TaskInv'
    BY <1>8, AddKeeps, RemoveKeeps, ShutdownKeeps DEF Call, Inv
  <2>2. QED
    BY <1>8, <2>1 DEF Call, Inv, LoopType, loopVars
<1>9. CASE Initialise
  BY <1>9, InitMgrKeeps DEF Initialise, Inv, LoopType, loopVars
<1>10. CASE SetSuspended
  BY <1>10, SameTasks DEF SetSuspended, Inv, LoopType
<1>11. CASE UNCHANGED vars
  BY <1>11, SameTasks DEF vars, Inv, LoopType, loopVars
<1>12. QED
  BY <1>1, <1>2, <1>3, <1>4, <1>5, <1>6, <1>7, <1>8, <1>9, <1>10, <1>11 DEF Next, InFrame

LEMMA AlwaysInv == Spec => []Inv
BY Initially, Inductive, PTL DEF Spec

(* No call from a callback, no time step and no exception makes the queues *)
(* hold anything but what was asked for (SGEventMgr::removeTask,           *)
(* SGTimerQueue::update, SGEventMgr::shutdown).                            *)
THEOREM QueuesHoldWhatWasAskedFor == Spec => []ScheduledIsWhatWasAskedFor
<1>1. Inv => ScheduledIsWhatWasAskedFor
  BY DEF Inv, TaskInv
<1>2. QED
  BY <1>1, AlwaysInv, PTL

(* Every variable keeps its type: the remainder of a fixed update time may *)
(* be negative, what is left of a timer too, nothing else.                 *)
THEOREM TypeCorrect == Spec => []TypeOK
<1>1. Inv => TypeOK
  BY DEF Inv, TaskInv, EvtType, LoopType, Frames, Entries, TypeOK
<1>2. QED
  BY <1>1, AlwaysInv, PTL

-----------------------------------------------------------------------------
(* A repeating task at most once per interval.                             *)

(* The time that has passed and that a task's queue has not been told yet. *)
Pending(n) ==
    CASE frame.pc = "idle" -> IF n \in SimTime THEN elapsed ELSE 0
      [] frame.pc = "before" ->
            IF n \in SimTime THEN elapsed + (IF frame.loops > 0 THEN frame.delta ELSE 0)
            ELSE IF frame.loops > 0 THEN frame.real ELSE 0
      [] frame.pc = "events" ->
            IF n \in SimTime \/ evt.queue = "rt" THEN 0 ELSE frame.real

(* What is left of a waiting timer, the time since the task ran included,  *)
(* is an interval at least when the queue has been told everything.        *)
InTime(n, left) ==
    gap[n] >= Interval[n] \/ left + gap[n] - Pending(n) >= Clamped(Interval[n])

Pace ==
    /\ fixed = 0
    /\ frame.pc = "events" <=> evt.pc # "out"
    /\ frame.pc # "idle" => frame.loops <= 1
    /\ \A n \in Names : \A e \in Waiting(n) : InTime(n, e.left)

LEMMA PendingType == ASSUME Inv, NEW n \in Names PROVE Pending(n) \in Nat
BY DEF Inv, LoopType, Frames, Pending

LEMMA NumbersType ==
    ASSUME Inv, NEW n \in Names
    PROVE  /\ gap[n] \in Nat /\ Interval[n] \in Nat
           /\ Clamped(Interval[n]) \in Nat /\ Clamped(Interval[n]) >= Interval[n]
           /\ Pending(n) \in Nat
           /\ \A e \in Waiting(n) : e.left \in Int /\ e \in table[QueueOf(n)] /\ e.name = n
<1>1. \A e \in table[QueueOf(n)] : e \in Entries
  BY QueueFacts DEF Inv, TaskInv, EvtType
<1>2. QED
  BY <1>1, PendingType, TimesType, ClampedType DEF Inv, TaskInv, EvtType, Waiting, Entries

(* A timer that waits as it did, and has not come closer than time has     *)
(* been told.                                                              *)
LEMMA StaysInTime ==
    ASSUME Inv, Inv', NEW n \in Names, NEW d \in Waiting(n), NEW left \in Int, InTime(n, d.left),
           gap[n] >= Interval[n] => gap'[n] >= Interval[n],
           left + gap'[n] - Pending(n)' >= d.left + gap[n] - Pending(n)
    PROVE  InTime(n, left)'
<1>1. gap[n] \in Nat /\ Pending(n) \in Nat /\ d.left \in Int /\ Clamped(Interval[n]) \in Nat
  BY NumbersType
<1>2. gap'[n] \in Nat /\ Pending(n)' \in Nat
  BY DEF Inv, TaskInv, EvtType, LoopType, Frames, Pending
<1>3. Clamped(Interval[n])' = Clamped(Interval[n])
  BY DEF Clamped
<1>4. QED
  BY <1>1, <1>2, <1>3 DEF InTime

LEMMA CallsKeepPace == ASSUME Inv, Inv', Pace, Call PROVE Pace'
<1>1. UNCHANGED loopVars /\ UNCHANGED evt /\ \A n \in Names : Pending(n)' = Pending(n)
  BY DEF Call, Add, RemoveTask, Shutdown, loopVars, Pending
<1>2. ASSUME NEW n \in Names, NEW e \in Waiting(n)' PROVE InTime(n, e.left)'
  <2>1. CASE gap'[n] >= Interval[n]
    BY <2>1 DEF InTime
  <2>2. CASE e \in Waiting(n) /\ gap'[n] = gap[n]
    BY <1>1, <2>2 DEF Pace, InTime, Clamped
  <2>3. CASE \E m \in Names : Add(m)
    <3>1. PICK m \in Names : Add(m)
      BY <2>3
    <3>2. CASE m = n
      BY <3>1, <3>2, <2>1, NumbersType DEF Add, Inv, TaskInv, EvtType
    <3>3. CASE m # n
      <4>1. gap'[n] = gap[n]
        BY <3>1, <3>3 DEF Add, Inv, TaskInv, EvtType
      <4>2. \A q \in Queues : table'[q] =
               IF q = QueueOf(m) THEN table[q] \cup {[name |-> m, left |-> Clamped(Delay[m])]}
               ELSE table[q]
        <5>1. Clamped(Delay[m]) \in Int /\ EvtType
          BY TimesType, ClampedType DEF Inv, TaskInv
        <5>2. table' = Inserted(QueueOf(m), m, Clamped(Delay[m]))
          BY <3>1 DEF Add
        <5>3. QED
          BY <5>1, <5>2, InsertedFacts
      <4>3. e \in Waiting(n)
        <5>1. e \in table'[QueueOf(n)] /\ e.name = n /\ QueueOf(n) \in Queues
          BY QueueFacts DEF Waiting
        <5>2. [name |-> m, left |-> Clamped(Delay[m])].name = m
          OBVIOUS
        <5>3. e \in table[QueueOf(n)]
          BY <3>3, <4>2, <5>1, <5>2
        <5>4. QED
          BY <5>1, <5>3 DEF Waiting
      <4>4. QED
        BY <2>2, <4>1, <4>3
    <3>4. QED
      BY <3>2, <3>3
  <2>4. CASE Shutdown
    BY <2>4, QueueFacts DEF Shutdown, Waiting
  <2>5. CASE \E m \in Names : RemoveTask(m)
    <3>1. PICK m \in Names : RemoveTask(m)
      BY <2>5
    <3>2. gap' = gap /\ table'[QueueOf(n)] \subseteq table[QueueOf(n)]
      BY <3>1, QueueFacts DEF RemoveTask, Inv, TaskInv, EvtType
    <3>3. QED
      BY <2>2, <3>2 DEF Waiting
  <2>6. QED
    BY <2>3, <2>4, <2>5 DEF Call
<1>3. QED
  BY <1>1, <1>2 DEF Pace, loopVars

(* Time that passes is counted in the gap and in what the queue has not    *)
(* been told.                                                              *)
LEMMA FrameKeepsPace ==
    ASSUME Inv, Inv', Pace, NEW time \in Nat, NEW real \in Nat, Frame(time, real)
    PROVE  Pace'
<1>1. /\ frame.pc = "idle" /\ fixed = 0
      /\ frame' = [pc |-> "before", loops |-> 1, delta |-> time, real |-> real]
      /\ UNCHANGED <<table, evt, fixed, elapsed>>
      /\ gap' = [n \in Names |-> AtMost(gap[n] + IF n \in SimTime THEN time ELSE real, Interval[n])]
  BY DEF Frame, Pace
<1>2. ASSUME NEW n \in Names, NEW e \in Waiting(n)' PROVE InTime(n, e.left)'
  <2> DEFINE passed == IF n \in SimTime THEN time ELSE real
  <2>1. e \in Waiting(n) /\ InTime(n, e.left)
    BY <1>1 DEF Waiting, Pace
  <2>2. Pending(n)' = Pending(n) + passed
    BY <1>1 DEF Pending, Inv, LoopType, Frames
  <2>3. gap'[n] = AtMost(gap[n] + passed, Interval[n]) /\ passed \in Nat
    BY <1>1
  <2> HIDE DEF passed
  <2>4. /\ gap[n] \in Nat /\ Interval[n] \in Nat /\ Pending(n) \in Nat /\ e.left \in Int
        /\ Clamped(Interval[n]) \in Nat
    BY <2>1, NumbersType
  <2>5. CASE gap[n] + passed >= Interval[n]
    <3>1. gap'[n] >= Interval[n]
      BY <2>3, <2>4, <2>5 DEF AtMost
    <3>2. QED
      BY <3>1 DEF InTime
  <2>6. CASE gap[n] + passed < Interval[n]
    <3>1. gap'[n] = gap[n] + passed
      BY <2>3, <2>4, <2>6 DEF AtMost
    <3>2. e.left + gap'[n] - Pending(n)' >= e.left + gap[n] - Pending(n)
      BY <2>2, <2>3, <2>4, <3>1
    <3>3. gap[n] >= Interval[n] => gap'[n] >= Interval[n]
      BY <2>3, <2>4, <3>1
    <3>4. QED
      BY <2>1, <2>4, <3>2, <3>3, StaysInTime
  <2>7. QED
    BY <2>3, <2>4, <2>5, <2>6
<1>3. evt.pc = "out"
  BY <1>1 DEF Pace, Inv, LoopType
<1>4. QED
  BY <1>1, <1>2, <1>3 DEF Pace

(* Steps in which the timers and the gaps stay and no more is pending.     *)
LEMMA LessPendingKeepsPace ==
    ASSUME Inv, Inv', Pace, UNCHANGED <<table, gap, fixed>>,
           frame'.pc = "events" <=> evt'.pc # "out",
           frame'.pc # "idle" => frame'.loops <= 1,
           \A n \in Names : Pending(n)' <= Pending(n)
    PROVE  Pace'
<1>1. ASSUME NEW n \in Names, NEW e \in Waiting(n)' PROVE InTime(n, e.left)'
  <2>1. e \in Waiting(n) /\ InTime(n, e.left)
    BY DEF Waiting, Pace
  <2>2. e.left \in Int /\ gap[n] \in Nat /\ Pending(n) \in Nat
    BY <2>1, NumbersType
  <2>3. Pending(n)' \in Nat /\ Pending(n)' <= Pending(n)
    BY DEF Inv, LoopType, Frames, Pending
  <2>4. e.left + gap'[n] - Pending(n)' >= e.left + gap[n] - Pending(n)
    BY <2>2, <2>3
  <2>5. QED
    BY <2>1, <2>2, <2>4, StaysInTime
<1>2. QED
  BY <1>1 DEF Pace

(* The steps in which a queue is told of time that was pending.            *)
LEMMA ToldKeepsPace ==
    ASSUME Inv, Inv', Pace, NEW q \in Queues, NEW delta \in Nat,
           table' = Later(q, delta), UNCHANGED <<gap, fixed>>,
           frame'.pc = "events" <=> evt'.pc # "out",
           frame'.pc # "idle" => frame'.loops <= 1,
           \A n \in Names : Pending(n)' <= Pending(n) - (IF QueueOf(n) = q THEN delta ELSE 0)
    PROVE  Pace'
<1>1. /\ \A p \in Queues \ {q} : table'[p] = table[p]
      /\ table'[q] = {[name |-> e.name, left |-> e.left - delta] : e \in table[q]}
  BY LaterFacts DEF Inv, TaskInv
<1>2. ASSUME NEW n \in Names, NEW e \in Waiting(n)' PROVE InTime(n, e.left)'
  <2>1. PICK d \in Waiting(n) : e.left = d.left - (IF QueueOf(n) = q THEN delta ELSE 0)
    <3>1. CASE QueueOf(n) = q
      <4>1. e \in table'[q] /\ e.name = n
        BY <3>1 DEF Waiting
      <4>2. PICK d \in table[q] : e = [name |-> d.name, left |-> d.left - delta]
        BY <1>1, <4>1
      <4>3. e.name = d.name /\ e.left = d.left - delta
        BY <4>2
      <4>4. d \in Waiting(n)
        BY <3>1, <4>1, <4>3 DEF Waiting
      <4>5. QED
        BY <3>1, <4>3, <4>4
    <3>2. CASE QueueOf(n) # q
      <4>1. e \in Waiting(n)
        BY <1>1, <3>2, QueueFacts DEF Waiting
      <4>2. e.left = e.left - 0
        BY <4>1, NumbersType
      <4>3. QED
        BY <3>2, <4>1, <4>2
    <3>3. QED
      BY <3>1, <3>2
  <2>2. InTime(n, d.left) /\ d.left \in Int /\ gap[n] \in Nat /\ Pending(n) \in Nat
    BY NumbersType DEF Pace
  <2>3. Pending(n)' \in Nat
    BY DEF Inv, LoopType, Frames, Pending
  <2>4. e.left \in Int /\ e.left + gap'[n] - Pending(n)' >= d.left + gap[n] - Pending(n)
    BY <2>1, <2>2, <2>3
  <2>5. QED
    BY <2>2, <2>4, StaysInTime
<1>3. QED
  BY <1>2 DEF Pace

LEMMA RunTimerKeepsPace == ASSUME Inv, Inv', Pace, RunTimer, UNCHANGED loopVars PROVE Pace'
<1> DEFINE q == evt.queue
<1>1. /\ evt.pc = "queue" /\ evt' = [evt EXCEPT !.pc = "callback"]
      /\ \E e \in Due(q) : table' = [table EXCEPT ![q] = @ \ {e}] /\ gap' = [gap EXCEPT ![e.name] = 0]
  BY DEF RunTimer
<1>2. PICK e \in Due(q) : table' = [table EXCEPT ![q] = @ \ {e}] /\ gap' = [gap EXCEPT ![e.name] = 0]
  BY <1>1
<1>3. q \in Queues /\ evt'.pc = "callback" /\ evt'.queue = q
  BY <1>1 DEF Inv, TaskInv, EvtType
<1>4. e \in table[q] /\ e \in Entries /\ e.name \in Names /\ QueueOf(e.name) = q
  BY <1>3 DEF Due, Inv, TaskInv, EvtType, NamesInPlace, Entries
<1>5. \A n \in Names : Pending(n)' = Pending(n)
  BY <1>3 DEF Pending, loopVars
<1> HIDE DEF q
<1>6. ASSUME NEW n \in Names, NEW d \in Waiting(n)' PROVE InTime(n, d.left)'
  <2>1. d \in Waiting(n) /\ n # e.name
    <3>1. d \in table'[QueueOf(n)] /\ d.name = n
      BY DEF Waiting
    <3>2. d \in table[QueueOf(n)] /\ (QueueOf(n) = q => d # e)
      BY <1>2, <1>3, <3>1, QueueFacts DEF Inv, TaskInv, EvtType
    <3>3. n = e.name => d = e
      BY <1>3, <1>4, <3>1, <3>2 DEF Inv, TaskInv, NamesInPlace
    <3>4. QED
      BY <1>4, <3>1, <3>2, <3>3 DEF Waiting
  <2>2. gap'[n] = gap[n]
    BY <1>2, <2>1 DEF Inv, TaskInv, EvtType
  <2>3. QED
    BY <1>5, <2>1, <2>2 DEF Pace, InTime, Clamped
<1>7. QED
  BY <1>1, <1>3, <1>6 DEF Pace, loopVars

LEMMA CallbackReturnsKeepsPace ==
    ASSUME Inv, Inv', Pace, CallbackReturns, UNCHANGED loopVars PROVE Pace'
<1>m. PICK m \in Names : m = Running.name
  BY DEF Inv, TaskInv, NamesInPlace, CallbackReturns
<1> DEFINE new == [name |-> m, left |-> Clamped(Interval[m])]
<1>1. /\ evt.pc = "callback" /\ evt' = [evt EXCEPT !.pc = "queue"] /\ gap' = gap
      /\ table' = IF Running.repeat
                  THEN Inserted(evt.queue, m, Clamped(Interval[m])) ELSE table
  BY <1>m DEF CallbackReturns
<1>2. evt.queue = QueueOf(m) /\ evt'.pc = "queue" /\ evt'.queue = evt.queue
  BY <1>m, <1>1 DEF Inv, TaskInv, EvtType, NamesInPlace
<1>3. frame.pc = "events" /\ \A n \in Names : Pending(n)' = Pending(n)
  BY <1>1, <1>2 DEF Pace, Pending, loopVars
<1>4. Pending(m) = 0
  BY <1>2, <1>3 DEF Pending, QueueOf
<1>5. ASSUME NEW n \in Names, NEW d \in Waiting(n)' PROVE InTime(n, d.left)'
  <2>1. CASE d \in Waiting(n)
    BY <1>1, <1>3, <2>1 DEF Pace, InTime, Clamped
  <2>2. CASE d \notin Waiting(n)
    <3>1. Running.repeat
      BY <1>1, <2>2 DEF Waiting
    <3>2. table' = Inserted(QueueOf(m), m, Clamped(Interval[m]))
      BY <1>1, <1>2, <3>1
    <3>3. Clamped(Interval[m]) \in Int /\ EvtType
      BY TimesType, ClampedType DEF Inv, TaskInv
    <3>4. \A p \in Queues : table'[p] = IF p = QueueOf(m) THEN table[p] \cup {new} ELSE table[p]
      BY <3>2, <3>3, InsertedFacts
    <3>5. d \in table'[QueueOf(n)] /\ d.name = n /\ QueueOf(n) \in Queues
      BY QueueFacts DEF Waiting
    <3>6. d = new
      BY <2>2, <3>4, <3>5 DEF Waiting
    <3>7. n = m /\ d.left = Clamped(Interval[n])
      BY <3>5, <3>6
    <3>8. /\ gap[n] \in Nat /\ Clamped(Interval[n]) \in Nat
          /\ Clamped(Interval[n]) + gap[n] - 0 >= Clamped(Interval[n])
      BY NumbersType
    <3>9. gap'[n] = gap[n] /\ Pending(n)' = 0
      BY <1>1, <1>3, <1>4, <3>7
    <3>10. QED
      BY <3>7, <3>8, <3>9 DEF InTime, Clamped
  <2>3. QED
    BY <2>1, <2>2
<1>6. QED
  BY <1>2, <1>3, <1>5 DEF Pace, loopVars

LEMMA ThrewKeepsPace == ASSUME Inv, Inv', Pace, Threw PROVE Pace'
<1>1. frame.pc = "events" /\ frame.loops <= 1 /\ frame \in Frames /\ frame.loops > 0
  BY DEF Threw, Pace, Inv, LoopType
<1>2. frame'.pc = "before" /\ frame'.loops <= 1
  BY <1>1 DEF Threw, NextLoop, Frames
<1>3. evt'.pc = "out" /\ gap' = Interval /\ UNCHANGED fixed
  BY DEF Threw, CallbackThrows
<1>4. ASSUME NEW n \in Names, NEW d \in Waiting(n)' PROVE InTime(n, d.left)'
  BY <1>3, NumbersType DEF InTime
<1>5. QED
  BY <1>2, <1>3, <1>4 DEF Pace

LEMMA PaceInductive == Inv /\ Inv' /\ Pace /\ [Next]_vars => Pace'
<1> SUFFICES ASSUME Inv, Inv', Pace, [Next]_vars PROVE Pace'
  OBVIOUS
<1> USE DEF vars
<1>1. CASE \E time \in FrameTimes : NewFrame(time)
  <2>1. PICK time \in FrameTimes : NewFrame(time)
    BY <1>1
  <2>2. time \in Nat /\ (IF time = 0 THEN 1 ELSE time) \in Nat
    BY MainLoopAssumption
  <2>3. QED
    BY <2>1, <2>2, FrameKeepsPace DEF NewFrame
<1>2. CASE FrameEnds
  <2>1. /\ frame.pc = "before" /\ frame.loops = 0
        /\ frame' = [pc |-> "idle", loops |-> 0, delta |-> 0, real |-> 0]
        /\ UNCHANGED <<table, gap, evt, fixed, elapsed>>
    BY <1>2 DEF FrameEnds, evtVars
  <2>2. frame'.pc = "idle"
    BY <2>1
  <2>3. \A n \in Names : Pending(n)' <= Pending(n)
    BY <2>1, <2>2 DEF Pending, Inv, LoopType, Frames
  <2>4. QED
    BY <2>1, <2>2, <2>3, LessPendingKeepsPace DEF Pace
<1>3. CASE Skip
  <2>1. /\ frame.pc = "before" /\ frame.loops > 0 /\ frame.loops <= 1 /\ frame \in Frames
        /\ elapsed' = NowElapsed /\ NextLoop /\ UNCHANGED <<table, gap, evt, fixed>>
    BY <1>3 DEF Skip, AtMember, evtVars, Pace, Inv, LoopType
  <2>2. frame'.pc = "before" /\ frame'.loops = 0
    BY <2>1 DEF NextLoop, Frames
  <2>3. NowElapsed <= elapsed + frame.delta /\ NowElapsed \in Nat
    BY AtMostType, ElapsedType, MainLoopAssumption DEF NowElapsed, Inv, LoopType, Frames
  <2>4. \A n \in Names : Pending(n)' <= Pending(n)
    BY <2>1, <2>2, <2>3 DEF Pending, Frames
  <2>5. QED
    BY <2>1, <2>2, <2>4, LessPendingKeepsPace DEF Pace
<1>4. CASE Update
  <2>1. /\ frame.pc = "before" /\ frame.loops > 0 /\ frame.loops <= 1 /\ frame \in Frames
        /\ frame' = [frame EXCEPT !.pc = "events"]
        /\ table' = Later("sim", NowElapsed) /\ evt' = [pc |-> "queue", queue |-> "sim"]
        /\ UNCHANGED <<gap, fixed>>
    BY <1>4 DEF Update, UpdateBegins, AtMember, Pace, Inv, LoopType
  <2>2. /\ frame'.pc = "events" /\ frame'.loops <= 1 /\ frame'.real = frame.real
        /\ evt'.pc = "queue" /\ evt'.queue = "sim"
    BY <2>1 DEF Frames
  <2>3. NowElapsed <= elapsed + frame.delta /\ NowElapsed \in Nat /\ elapsed \in Nat
    BY AtMostType, ElapsedType, MainLoopAssumption DEF NowElapsed, Inv, LoopType, Frames
  <2>4. \A n \in Names :
           Pending(n)' <= Pending(n) - (IF QueueOf(n) = "sim" THEN NowElapsed ELSE 0)
    BY <2>1, <2>2, <2>3, QueueFacts DEF Pending, Frames, QueueOf
  <2>5. "sim" \in Queues
    BY DEF Queues
  <2>6. QED
    BY <2>1, <2>2, <2>3, <2>4, <2>5, ToldKeepsPace
<1>5. CASE Updated
  <2>1. /\ frame.pc = "events" /\ frame.loops <= 1 /\ frame \in Frames /\ NextLoop /\ elapsed' = 0
        /\ evt' = [pc |-> "out", queue |-> "sim"] /\ UNCHANGED <<table, gap, fixed>>
        /\ frame.loops > 0
    BY <1>5 DEF Updated, UpdateEnds, Pace, Inv, LoopType
  <2>2. frame'.pc = "before" /\ frame'.loops = 0 /\ evt'.pc = "out"
    BY <2>1 DEF NextLoop, Frames
  <2>3. \A n \in Names : Pending(n)' <= Pending(n)
    <3>1. \A n \in Names : Pending(n)' = 0
      BY <2>1, <2>2 DEF Pending
    <3>2. QED
      BY <3>1, PendingType
  <2>4. QED
    BY <2>1, <2>2, <2>3, LessPendingKeepsPace
<1>6. CASE Threw
  BY <1>6, ThrewKeepsPace
<1>7. CASE InEvents /\ UNCHANGED loopVars
  <2>1. CASE RunTimer
    BY <1>7, <2>1, RunTimerKeepsPace
  <2>2. CASE CallbackReturns
    BY <1>7, <2>2, CallbackReturnsKeepsPace
  <2>3. CASE SimDone(frame.real)
    <3>1. /\ evt = [pc |-> "queue", queue |-> "sim"] /\ evt' = [pc |-> "queue", queue |-> "rt"]
          /\ table' = Later("rt", frame.real) /\ gap' = gap
      BY <2>3 DEF SimDone
    <3>2. frame.pc = "events" /\ frame.loops <= 1 /\ frame.real \in Nat /\ frame' = frame
      BY <1>7, <3>1 DEF Pace, Inv, LoopType, Frames, loopVars
    <3>3. \A n \in Names :
             Pending(n)' <= Pending(n) - (IF QueueOf(n) = "rt" THEN frame.real ELSE 0)
      BY <3>1, <3>2, QueueFacts DEF Pending, QueueOf
    <3>4. "rt" \in Queues
      BY DEF Queues
    <3>5. QED
      BY <1>7, <3>1, <3>2, <3>3, <3>4, ToldKeepsPace DEF loopVars
  <2>4. QED
    BY <1>7, <2>1, <2>2, <2>3 DEF InEvents
<1>8. CASE Call
  BY <1>8, CallsKeepPace
<1>9. CASE Initialise \/ SetSuspended \/ UNCHANGED vars
  <2>1. UNCHANGED <<table, gap, evt, fixed, frame, elapsed>>
    BY <1>9 DEF Initialise, InitMgr, SetSuspended, evtVars, loopVars
  <2>2. \A n \in Names : Pending(n)' = Pending(n)
    BY <2>1 DEF Pending
  <2>3. \A n \in Names : Pending(n)' <= Pending(n)
    BY <2>2, PendingType
  <2>4. QED
    BY <2>1, <2>3, LessPendingKeepsPace DEF Pace
<1>10. QED
  BY <1>1, <1>2, <1>3, <1>4, <1>5, <1>6, <1>7, <1>8, <1>9 DEF Next, InFrame

(* With no fixed update time, no repeating task runs before its interval   *)
(* has passed: SGTimerQueue::update counts each time once, and             *)
(* Member::update hands over all that it has kept back, once.              *)
THEOREM OncePerInterval == Spec => RunsOncePerInterval
<1> DEFINE Step == \A n \in Repeating :
                      fixed = 0 /\ evt.pc = "queue" /\ evt'.pc = "callback"
                          /\ current'[evt.queue].name = n
                        => gap[n] >= Interval[n]
<1>1. Init => (fixed = 0 => Pace)
  <2>1. ASSUME Init, NEW n \in Names PROVE Waiting(n) = {}
    BY <2>1, QueueFacts DEF Init, EvtInit, Waiting
  <2>2. Init => frame.pc = "idle" /\ evt.pc = "out"
    BY DEF Init, EvtInit
  <2>3. QED
    BY <2>1, <2>2 DEF Pace
<1>2. Inv /\ Inv' /\ (fixed = 0 => Pace) /\ [Next]_vars => (fixed = 0 => Pace)'
  <2>1. [Next]_vars => fixed' = fixed
    BY DEF Next, NewFrame, Frame, InFrame, FrameEnds, Skip, Update, Updated, Threw, Call,
           Initialise, SetSuspended, loopVars, vars
  <2>2. QED
    BY <2>1, PaceInductive
<1>3. Inv /\ (fixed = 0 => Pace) /\ [Next]_vars => [Step]_vars
  <2> SUFFICES ASSUME Inv, fixed = 0 => Pace, Next,
                      NEW n \in Repeating, fixed = 0, evt.pc = "queue", evt'.pc = "callback",
                      current'[evt.queue].name = n
               PROVE  gap[n] >= Interval[n]
    BY DEF Next
  <2>1. RunTimer
    BY DEF Next, NewFrame, Frame, InFrame, FrameEnds, Skip, Update, Updated, Threw, Call,
           Initialise, SetSuspended, InEvents, UpdateBegins, UpdateEnds, CallbackThrows,
           CallbackReturns, SimDone, Add, RemoveTask, Shutdown, InitMgr, evtVars
  <2>2. PICK e \in Due(evt.queue) :
           current' = [current EXCEPT ![evt.queue] =
                         [name |-> e.name, repeat |-> e.name \in Repeating]]
    BY <2>1 DEF RunTimer
  <2>3. evt.queue \in Queues /\ e \in table[evt.queue] /\ e.left <= 0
    BY <2>2 DEF Inv, TaskInv, EvtType, Due
  <2>4. e.name = n /\ n \in Names /\ QueueOf(n) = evt.queue
    <3>1. current'[evt.queue] = [name |-> e.name, repeat |-> e.name \in Repeating]
      BY <2>2, <2>3 DEF Inv, TaskInv, EvtType
    <3>2. current'[evt.queue].name = e.name
      BY <3>1
    <3>3. QED
      BY <2>3, <3>2, EventMgrAssumption DEF Inv, TaskInv, NamesInPlace
  <2>5. e \in Waiting(n)
    BY <2>3, <2>4 DEF Waiting
  <2>6. frame.pc = "events" /\ Pending(n) = 0
    BY <2>4 DEF Pace, Pending, QueueOf
  <2>7. InTime(n, e.left)
    BY <2>4, <2>5 DEF Pace
  <2>8. QED
    BY <2>3, <2>4, <2>5, <2>6, <2>7, NumbersType DEF InTime
<1>4. QED
  BY <1>1, <1>2, <1>3, AlwaysInv, PTL DEF Spec, RunsOncePerInterval
=============================================================================
