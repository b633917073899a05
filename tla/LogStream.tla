------------------------------ MODULE LogStream ------------------------------
(***************************************************************************)
(* The log stream (simgear/debug/logstream.cxx).  Any thread logs, which   *)
(* pushes an entry into a queue; a thread of the stream's own takes them   *)
(* out and calls every callback with each.  Whoever changes the callbacks  *)
(* stops the thread first: a marker is pushed, the thread ends at it, and  *)
(* it is started again afterwards.  What was logged while startup logging  *)
(* is on is kept, for the callbacks that come later.                       *)
(*                                                                         *)
(* The queue is an SGBlockingQueue, with one consumer: it is atomic here   *)
(* (see SGBlockingDeque).  Entries are numbered in the order in which they *)
(* are pushed.  One thread changes the configuration; nothing in the code  *)
(* would keep two apart.                                                   *)
(***************************************************************************)
EXTENDS Naturals, Sequences

CONSTANTS Callbacks,   \* the LogCallback objects
          MaxLogged,   \* bound: entries logged
          MaxUnborn    \* bound: threads that cannot be created

ASSUME LogStreamAssumption == MaxLogged \in Nat /\ MaxUnborn \in Nat

VARIABLES queue,      \* m_entries
          running,    \* m_isRunning
          startup,    \* m_startupLogging
          saved,      \* m_startupEntries
          callbacks,  \* m_callbacks, in order
          thread,     \* the log thread: where it is, the entry it took last
                      \* from the queue, how many callbacks have had it
          conf,       \* who configures: where it is, what it wants,
                      \* and (history) what had been logged when it called stop()
          logged,     \* entries pushed so far
          unborn,     \* threads that could not be created
          deltas,     \* SG_LOG_DELTAS moves the priority of the marker
          seen,       \* history: the entries each callback has been given
          since,      \* history: the first entry startup logging has kept
          due         \* history: the first entry owed to each callback,
                      \* 0 while it has not been added

vars == <<queue, running, startup, saved, callbacks, thread, conf, logged, unborn,
          deltas, seen, since, due>>

Marker == 0      \* the entry with the file name "done" and its own priority

Installed == {callbacks[i] : i \in DOMAIN callbacks}

(* Entries `from` to `to`, in order.                                       *)
Run(from, to) == [n \in 1 .. to + 1 - from |-> from + n - 1]

(* The first entry that has not been through the test of m_startupLogging. *)
Unkept == IF thread.pc = "keep" THEN thread.entry ELSE thread.entry + 1

Init ==
    /\ queue = <<>> /\ logged = 0 /\ unborn = 0 /\ deltas \in BOOLEAN
    /\ running = FALSE
    /\ startup = FALSE /\ saved = <<>> /\ since = 1
    /\ callbacks \in {<<>>} \cup {<<c>> : c \in Callbacks}
    /\ thread = [pc |-> "none", entry |-> 0, given |-> 0]
    /\ conf = [pc |-> "resume", op |-> "levels", mark |-> 0]
    /\ seen = [c \in Callbacks |-> <<>>]
    /\ due = [c \in Callbacks |-> IF c \in Installed THEN 1 ELSE 0]

-----------------------------------------------------------------------------
(* Any thread.                                                             *)

Log ==
    /\ conf.pc # "over" /\ logged < MaxLogged
    /\ logged' = logged + 1
    /\ queue' = Append(queue, logged + 1)
    /\ UNCHANGED <<running, startup, saved, callbacks, thread, conf, unborn,
                   seen, since, due, deltas>>

-----------------------------------------------------------------------------
(* The log thread: run().                                                  *)

Pop ==
    /\ thread.pc = "pop" /\ queue # <<>>
    /\ queue' = Tail(queue)
    /\ thread' = IF Head(queue) = Marker THEN [thread EXCEPT !.pc = "ended"]
                 ELSE [pc |-> "keep", entry |-> Head(queue), given |-> 0]
    /\ UNCHANGED <<running, startup, saved, callbacks, conf, logged, unborn,
                   seen, since, due, deltas>>

(* Mutant: the entry is kept as if startup logging were always on.         *)
KeepAlways ==
    /\ thread.pc = "keep"
    /\ saved' = Append(saved, thread.entry)
    /\ thread' = [thread EXCEPT !.pc = "deliver"]
    /\ UNCHANGED <<queue, running, startup, callbacks, conf, logged, unborn,
                   seen, since, due, deltas>>

Keep ==
    /\ thread.pc = "keep"
    /\ saved' = IF startup THEN Append(saved, thread.entry) ELSE saved
    /\ thread' = [thread EXCEPT !.pc = "deliver"]
    /\ UNCHANGED <<queue, running, startup, callbacks, conf, logged, unborn,
                   seen, since, due, deltas>>

Deliver ==
    /\ thread.pc = "deliver" /\ thread.given < Len(callbacks)
    /\ LET c == callbacks[thread.given + 1]
       IN seen' = [seen EXCEPT ![c] = Append(@, thread.entry)]
    /\ thread' = [thread EXCEPT !.given = @ + 1]
    /\ UNCHANGED <<queue, running, startup, saved, callbacks, conf, logged,
                   unborn, since, due, deltas>>

Delivered ==
    /\ thread.pc = "deliver" /\ thread.given >= Len(callbacks)
    /\ thread' = [thread EXCEPT !.pc = "pop"]
    /\ UNCHANGED <<queue, running, startup, saved, callbacks, conf, logged,
                   unborn, seen, since, due, deltas>>

Thread == Pop \/ Keep \/ Deliver \/ Delivered

-----------------------------------------------------------------------------
(* Who configures.                                                         *)

Ops == {"add", "remove", "clear", "levels", "shutdown"}

(* Mutant: the thread is told to end and not waited for.                   *)
PauseWithoutJoin(op) ==
    /\ conf.pc = "idle" /\ running
    /\ queue' = Append(queue, Marker)
    /\ conf' = [pc |-> "change", op |-> op, mark |-> logged]
    /\ UNCHANGED <<running, startup, saved, callbacks, thread, logged, unborn,
                   seen, since, due, deltas>>

(* Mutant: the marker overtakes what is in the queue.                      *)
PauseAtOnce(op) ==
    /\ conf.pc = "idle" /\ running
    /\ queue' = <<Marker>> \o queue
    /\ conf' = [pc |-> "join", op |-> op, mark |-> logged]
    /\ UNCHANGED <<running, startup, saved, callbacks, thread, logged, unborn,
                   seen, since, due, deltas>>

(* Mutant: no marker.                                                      *)
PauseUnmarked(op) ==
    /\ conf.pc = "idle" /\ running
    /\ conf' = [pc |-> "join", op |-> op, mark |-> logged]
    /\ UNCHANGED <<queue, running, startup, saved, callbacks, thread, logged,
                   unborn, seen, since, due, deltas>>

(* log() translates the priority of what it is given: the marker, when a   *)
(* delta has moved its priority, is an entry like any other.               *)
LogMarker ==
    \/ ~deltas /\ queue' = Append(queue, Marker) /\ UNCHANGED logged
    \/ deltas /\ queue' = Append(queue, logged + 1) /\ logged' = logged + 1

(* PauseThread: stop() ...                                                 *)
Pause(op) ==
    /\ conf.pc = "idle" /\ running
    /\ LogMarker
    /\ conf' = [pc |-> "join", op |-> op, mark |-> logged]
    /\ UNCHANGED <<running, startup, saved, callbacks, thread, unborn, seen, since,
                   due, deltas>>

Join ==
    /\ conf.pc = "join" /\ thread.pc \in {"none", "ended"}
    /\ running' = FALSE
    /\ thread' = [thread EXCEPT !.pc = "none"]
    /\ conf' = [conf EXCEPT !.pc = "change"]
    /\ UNCHANGED <<queue, startup, saved, callbacks, logged, unborn, seen,
                   since, due, deltas>>

(* ... the change ...                                                      *)
Changed == conf' = [conf EXCEPT !.pc = "resume"]

AddCallback(c) ==
    /\ conf.pc = "change" /\ conf.op = "add"
    /\ due[c] = 0
    /\ callbacks' = Append(callbacks, c)
    /\ seen' = [seen EXCEPT ![c] = saved]
    /\ due' = [due EXCEPT ![c] = IF startup THEN since ELSE Unkept]
    /\ Changed
    /\ UNCHANGED <<queue, running, startup, saved, thread, logged, unborn,
                   since, deltas>>

RemoveCallback(c) ==
    /\ conf.pc = "change" /\ conf.op = "remove"
    /\ \/ /\ c \notin Installed
          /\ UNCHANGED callbacks
       \/ \E k \in DOMAIN callbacks :
             /\ callbacks[k] = c
             /\ callbacks' = [i \in 1 .. Len(callbacks) - 1 |->
                                callbacks[IF i < k THEN i ELSE i + 1]]
    /\ Changed
    /\ UNCHANGED <<queue, running, startup, saved, thread, logged, unborn, seen,
                   since, due, deltas>>

RemoveCallbacks ==
    /\ conf.pc = "change" /\ conf.op = "clear"
    /\ callbacks' = <<>>
    /\ Changed
    /\ UNCHANGED <<queue, running, startup, saved, thread, logged, unborn, seen,
                   since, due, deltas>>

SetLogLevels ==
    /\ conf.pc = "change" /\ conf.op = "levels"
    /\ Changed
    /\ UNCHANGED <<queue, running, startup, saved, callbacks, thread, logged,
                   unborn, seen, since, due, deltas>>

(* ... and startLog(), which does not look at what start() returns.        *)
Resume ==
    /\ conf.pc = "resume"
    /\ running' = TRUE
    /\ \/ /\ thread' = [thread EXCEPT !.pc = "pop"]
          /\ UNCHANGED unborn
       \/ /\ unborn < MaxUnborn
          /\ unborn' = unborn + 1
          /\ UNCHANGED thread
    /\ conf' = [conf EXCEPT !.pc = "idle", !.mark = 0]
    /\ UNCHANGED <<queue, startup, saved, callbacks, logged, seen, since, due,
                   deltas>>

(* shutdownLogging, ~logstream: stop(), and everything is gone; the pause  *)
(* that removeCallbacks takes on the way finds nothing to stop.            *)
Shutdown ==
    /\ conf.pc = "change" /\ conf.op = "shutdown"
    /\ callbacks' = <<>> /\ saved' = <<>>
    /\ conf' = [conf EXCEPT !.pc = "over"]
    /\ UNCHANGED <<queue, running, startup, thread, logged, unborn, seen, since,
                   due, deltas>>

(* setStartupLoggingEnabled, without a pause.                              *)
SetStartupLogging ==
    /\ conf.pc = "idle"
    /\ startup' = ~startup
    /\ saved' = <<>>
    /\ since' = Unkept
    /\ UNCHANGED <<queue, running, callbacks, thread, conf, logged, unborn,
                   seen, due, deltas>>

(* A callback object is added once.                                        *)
Wanted == {op \in Ops : op = "add" => \E c \in Callbacks : due[c] = 0}

Configure ==
    \/ \E op \in Wanted : Pause(op)
    \/ SetStartupLogging

Finish ==
    \/ Join
    \/ \E c \in Callbacks : AddCallback(c) \/ RemoveCallback(c)
    \/ RemoveCallbacks \/ SetLogLevels \/ Shutdown
    \/ Resume

Next == Log \/ Thread \/ Configure \/ Finish

(* The log thread is scheduled, and a change that has begun is finished.   *)
Fairness == WF_vars(Thread) /\ WF_vars(Finish)

Spec == Init /\ [][Next]_vars /\ Fairness

-----------------------------------------------------------------------------
ThreadStates == [pc : {"none", "pop", "keep", "deliver", "ended"}, entry : Nat, given : Nat]
ConfStates == [pc : {"idle", "join", "change", "resume", "over"}, op : Ops, mark : Nat]

TypeOK ==
    /\ queue \in Seq(Nat) /\ saved \in Seq(Nat)
    /\ running \in BOOLEAN /\ startup \in BOOLEAN /\ deltas \in BOOLEAN
    /\ callbacks \in Seq(Callbacks)
    /\ thread \in ThreadStates
    /\ conf \in ConfStates
    /\ logged \in Nat /\ unborn \in Nat /\ since \in Nat
    /\ seen \in [Callbacks -> Seq(Nat)]
    /\ due \in [Callbacks -> Nat]

(* The last entry the callback in place i has been given.                  *)
GivenTo(i) ==
    IF thread.pc \in {"keep", "deliver"} /\ thread.given < i THEN thread.entry - 1
    ELSE thread.entry

(* A callback is given every entry from the first that is due to it (for   *)
(* one that is added while startup logging is on, the first one kept),     *)
(* each once, in the order in which they were logged, whatever changes of  *)
(* the configuration come in between; the queue holds the rest, in order.  *)
EachEntryOnceInOrder ==
    /\ \A i \in DOMAIN callbacks : seen[callbacks[i]] = Run(due[callbacks[i]], GivenTo(i))
    /\ \A i, j \in DOMAIN queue :
          i < j /\ queue[i] # Marker /\ queue[j] # Marker => queue[i] < queue[j]
    /\ {queue[i] : i \in DOMAIN queue} \ {Marker} = thread.entry + 1 .. logged

(* While the callbacks or their levels are changed, and the entries kept   *)
(* are replayed on another thread, the log thread is not there to use them.*)
ChangesAreExclusive ==
    conf.pc = "change" => thread.pc = "none"

(* stop() returns when all that was logged before it has been given to the *)
(* callbacks (the last words before an exit), unless a thread could not be *)
(* created: the marker of the next stop() then ends the thread after that. *)
StoppedAfterTheLastWord ==
    conf.pc = "change" /\ unborn = 0 =>
        /\ \A c \in Installed : due[c] + Len(seen[c]) > conf.mark
        /\ \A i \in DOMAIN queue : queue[i] # Marker

(* A change of the configuration comes to its end, as long as no delta     *)
(* moves the marker: not even a thread that could not be created keeps it  *)
(* from that, nor the marker the next stop() leaves behind then.           *)
Changing == conf.pc \in {"join", "change", "resume"}
Rests == conf.pc \in {"idle", "over"}

PauseEnds == ~deltas /\ Changing ~> Rests

-----------------------------------------------------------------------------
(* A comment against the code.                                             *)

(* "log a special marker value, which will cause the thread to wakeup, and *)
(* then exit" (logstream.cxx:306): with SG_LOG_DELTAS='=1', the example of *)
(* logdelta.hxx:31, it is given to the callbacks as the entry "done", the  *)
(* thread goes on, and stop() waits for it for ever.  TLC finds this       *)
(* violated with the instance of LogStream.cfg.                            *)
MarkerEndsTheThread == Changing ~> Rests
=============================================================================
