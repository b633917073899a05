------------------------------ MODULE Resolver ------------------------------
(***************************************************************************)
(* The host name resolver (simgear/io/raw_socket.cxx).  lookup() marks a   *)
(* host as needed in a cache and pokes a thread, which looks up what is    *)
(* needed, without the lock, and waits for more; lookupSync() looks up in  *)
(* the caller's thread; at exit cleanup() tells the thread to end and      *)
(* joins it.                                                               *)
(*                                                                         *)
(* The lock and the wait condition are the steps of SGWaitCondition.       *)
(* Hosts are numbered in the order of the map.  The resolver has been      *)
(* created and its thread started by the first call of instance().         *)
(***************************************************************************)
EXTENDS SGWaitCondition

CONSTANTS Callers,     \* threads that look hosts up
          Cleaner,     \* the thread that runs cleanup()
          Worker,      \* the resolver's own thread
          MaxHost      \* hosts are 1 .. MaxHost

ASSUME ResolverAssumption ==
    /\ MaxHost \in Nat
    /\ Threads = Callers \cup {Cleaner, Worker}
    /\ Cleaner \notin Callers /\ Worker \notin Callers \cup {Cleaner}

Hosts == 1 .. MaxHost

VARIABLES cache,     \* _cache: "absent", "needed" (NULL), or what came of the lookup
          done,      \* _done
          job        \* the host each thread is concerned with, 0 for none; of the
                     \* worker, the host it has looked up in this traversal

vars == <<condVars, cache, done, job>>

Init ==
    /\ owner = NoThread /\ ready = FALSE
    /\ pc = [t \in Threads |-> IF t = Worker THEN "start" ELSE "idle"]
    /\ cache = [h \in Hosts |-> "absent"]
    /\ done = FALSE
    /\ job = [t \in Threads |-> 0]

Cached == {h \in Hosts : cache[h] # "absent"}
Needed == {h \in Hosts : cache[h] = "needed"}
Least(hosts) == CHOOSE h \in hosts : \A g \in hosts : h <= g

Outcomes == {"found", "failed"}

-----------------------------------------------------------------------------
(* run().                                                                  *)

(* What the traversal has before it: everything at first, and after a      *)
(* lookup what follows begin(), which the loop increments at once.         *)
Ahead == IF job[Worker] = 0 THEN Needed ELSE {h \in Needed : h # Least(Cached)}

RunBegins ==
    /\ LockMutex(Worker, "start", "locked")
    /\ UNCHANGED <<cache, done, job>>

(* while (!_done), when the lock has been taken or wait() has returned.    *)
TestDone ==
    /\ pc[Worker] = "locked"
    /\ IF done
       THEN UnlockMutex(Worker, "locked", "ended")
       ELSE Goto(Worker, "traverse") /\ UNCHANGED <<owner, ready>>
    /\ job' = [job EXCEPT ![Worker] = 0]
    /\ UNCHANGED <<cache, done>>

LookUp ==
    /\ Ahead # {}
    /\ UnlockMutex(Worker, "traverse", "resolving")
    /\ job' = [job EXCEPT ![Worker] = Least(Ahead)]
    /\ UNCHANGED <<cache, done>>

LookedUp ==
    /\ LockMutex(Worker, "resolving", "resolved")
    /\ UNCHANGED <<cache, done, job>>

(* The address is stored whether or not the lookup has failed.             *)
Store ==
    /\ pc[Worker] = "resolved"
    /\ \E outcome \in Outcomes : cache' = [cache EXCEPT ![job[Worker]] = outcome]
    /\ Goto(Worker, "traverse")
    /\ UNCHANGED <<owner, ready, done, job>>

Wait ==
    /\ Ahead = {}
    /\ UnlockMutex(Worker, "traverse", "check")
    /\ UNCHANGED <<cache, done, job>>

InWait ==
    /\ \/ Proceed(Worker) \/ FallAsleep(Worker) \/ Relock(Worker)
    /\ UNCHANGED <<cache, done, job>>

Disturbance == SpuriousWakeup(Worker) /\ UNCHANGED <<cache, done, job>>

Run == RunBegins \/ TestDone \/ LookUp \/ LookedUp \/ Store \/ Wait \/ InWait

-----------------------------------------------------------------------------
(* lookup(host) and lookupSync(host).                                      *)

Lookup(c, h, at) ==
    /\ LockMutex(c, "idle", at)
    /\ job' = [job EXCEPT ![c] = h]
    /\ UNCHANGED <<cache, done>>

(* Mutant: the thread is poked by the first host it is given only.         *)
MarkSecondSilently(c) ==
    /\ pc[c] = "lookup"
    /\ IF cache[job[c]] = "absent"
       THEN /\ cache' = [cache EXCEPT ![job[c]] = "needed"]
            /\ Goto(c, IF Cached = {} THEN "signal" ELSE "signalled")
       ELSE /\ Goto(c, "signalled")
            /\ UNCHANGED cache
    /\ UNCHANGED <<owner, ready, done, job>>

Mark(c) ==
    /\ pc[c] = "lookup"
    /\ IF cache[job[c]] = "absent"
       THEN /\ cache' = [cache EXCEPT ![job[c]] = "needed"]
            /\ Goto(c, "signal")
       ELSE /\ Goto(c, "signalled")
            /\ UNCHANGED cache
    /\ UNCHANGED <<owner, ready, done, job>>

Poke(t) ==
    /\ Signal(t) \/ NotifyOne(t)
    /\ UNCHANGED <<cache, done, job>>

(* The lock is given up for the lookup, unless the host is in the cache,   *)
(* be it as one that is still needed.                                      *)
LookupSync(c) ==
    /\ pc[c] = "lookupSync"
    /\ IF cache[job[c]] = "absent" THEN UnlockMutex(c, "lookupSync", "resolving")
       ELSE Goto(c, "signalled") /\ UNCHANGED <<owner, ready>>
    /\ UNCHANGED <<cache, done, job>>

SyncRelock(c) ==
    /\ c # Worker
    /\ LockMutex(c, "resolving", "resolved")
    /\ UNCHANGED <<cache, done, job>>

(* What has become of the entry in the meantime is not looked at.          *)
SyncStore(c) ==
    /\ c # Worker /\ pc[c] = "resolved"
    /\ \/ cache' = [cache EXCEPT ![job[c]] = "found"]
       \/ UNCHANGED cache
    /\ Goto(c, "signalled")
    /\ UNCHANGED <<owner, ready, done, job>>

Return(t) ==
    /\ UnlockMutex(t, "signalled", IF t = Cleaner THEN "join" ELSE "idle")
    /\ job' = [job EXCEPT ![t] = 0]
    /\ UNCHANGED <<cache, done>>

-----------------------------------------------------------------------------
(* cleanup().                                                              *)

Cleanup ==
    /\ LockMutex(Cleaner, "idle", "shutdown")
    /\ UNCHANGED <<cache, done, job>>

(* Mutant: _done is set and nobody told.                                   *)
ShutdownSilently ==
    /\ pc[Cleaner] = "shutdown"
    /\ done' = TRUE
    /\ Goto(Cleaner, "signalled")
    /\ UNCHANGED <<owner, ready, cache, job>>

Shutdown ==
    /\ pc[Cleaner] = "shutdown"
    /\ done' = TRUE
    /\ Goto(Cleaner, "signal")
    /\ UNCHANGED <<owner, ready, cache, job>>

Join ==
    /\ pc[Cleaner] = "join" /\ pc[Worker] = "ended"
    /\ Goto(Cleaner, "over")
    /\ UNCHANGED <<owner, ready, cache, done, job>>

Call(c) == \E h \in Hosts : Lookup(c, h, "lookup") \/ Lookup(c, h, "lookupSync")

InCall(t) == Mark(t) \/ Poke(t) \/ LookupSync(t) \/ SyncRelock(t) \/ SyncStore(t) \/ Return(t)

Next ==
    \/ Run \/ Disturbance
    \/ \E c \in Callers : Call(c)
    \/ \E t \in Callers \cup {Cleaner} : InCall(t)
    \/ Cleanup \/ Shutdown \/ Join

(* Threads run, lookups end, and a thread that wants the lock again and    *)
(* again when it is free gets it.                                          *)
Fairness ==
    /\ SF_vars(Run)
    /\ \A t \in Callers \cup {Cleaner} : SF_vars(InCall(t))
    /\ WF_vars(Shutdown) /\ WF_vars(Join)

Spec == Init /\ [][Next]_vars /\ Fairness

-----------------------------------------------------------------------------
TypeOK ==
    /\ owner \in Threads \cup {NoThread} /\ ready \in BOOLEAN
    /\ pc \in [Threads -> {"idle", "start", "locked", "ended", "traverse", "resolving",
                           "resolved", "check", "asleep", "relock", "lookup", "lookupSync",
                           "signal", "notify_one", "signalled", "shutdown", "join", "over"}]
    /\ cache \in [Hosts -> {"absent", "needed"} \cup Outcomes]
    /\ done \in BOOLEAN
    /\ job \in [Threads -> Hosts \cup {0}]

(* The thread does not sleep while a host is needed or it is to end: what  *)
(* its traversal skips after a lookup has come with a signal since, which  *)
(* the condition remembers.                                                *)
NeverSleepsOnWork ==
    pc[Worker] = "asleep" /\ ~(\E t \in Threads : pc[t] \in {"signal", "notify_one"})
        => Needed = {} /\ ~done

(* Every host that lookup() has marked gets an address, unless the program *)
(* exits; and then cleanup() returns, whatever the thread is doing.        *)
LookupsAndCleanupEnd ==
    /\ \A h \in Hosts : cache[h] = "needed" ~> cache[h] \in Outcomes \/ done
    /\ done ~> pc[Cleaner] = "over"
=============================================================================
