--------------------------- MODULE Resolver_proofs ---------------------------
(***************************************************************************)
(* The resolver does not sleep on work, for any callers and hosts.  What   *)
(* the traversal passes over after a lookup is the first entry of the      *)
(* cache (`Skipped'): if it is needed it was marked since, and a signal    *)
(* that the wait has not consumed is there to show for it.                 *)
(***************************************************************************)
EXTENDS Resolver, TLAPS, WellFoundedInduction

Roles ==
    /\ pc[Worker] \in {"start", "locked", "ended", "traverse", "resolving", "resolved",
                       "check", "asleep", "relock"}
    /\ \A t \in Threads \ {Worker} : pc[t] \notin {"check", "asleep", "check_timed",
                                                   "asleep_timed", "relock", "start",
                                                   "traverse", "locked", "ended"}

(* The flag that the worker will find when it waits is up, or about to be. *)
WillBePoked == ready \/ \E t \in Threads : pc[t] = "signal"

(* The entry that a restarted traversal passes over.                       *)
Skipped(h) == h \in Needed /\ \A g \in Cached : h <= g

InTraversal == {"traverse", "resolving", "resolved"}

SkippedIsPoked ==
    pc[Worker] \in InTraversal /\ job[Worker] # 0 =>
        \A h \in Hosts :
           Skipped(h) /\ (pc[Worker] = "traverse" \/ h # job[Worker]) => WillBePoked

WaitsForNothing ==
    pc[Worker] \in {"check", "asleep"} /\ Needed # {} => WillBePoked

EndIsPoked ==
    done => WillBePoked \/ pc[Worker] \in {"relock", "locked", "ended"}

AsleepIsNotified ==
    pc[Worker] = "asleep" /\ ready => \E t \in Threads : pc[t] = "notify_one"

Inv == TypeOK /\ Roles /\ SkippedIsPoked /\ WaitsForNothing /\ EndIsPoked /\ AsleepIsNotified

-----------------------------------------------------------------------------
(* A set of hosts that is not empty has a least one.                       *)
LEMMA LeastOf ==
    ASSUME NEW S, S \subseteq Hosts, S # {}
    PROVE  Least(S) \in S /\ \A g \in S : Least(S) <= g
<1>1. S \subseteq Nat
  BY ResolverAssumption DEF Hosts
<1>2. PICK h \in S : \A g \in S : ~(<<g, h>> \in OpToRel(<, Nat))
  BY <1>1, NatLessThanWellFounded, WFMin, Zenon
<1>3. \A g \in S : ~(g < h)
  BY <1>1, <1>2 DEF OpToRel
<1>4. \A g \in S : h <= g
  BY <1>1, <1>3
<1>5. QED
  BY <1>4 DEF Least

LEMMA InitInv == Init => Inv
BY ResolverAssumption, NoThreadAssumption
   DEF Init, Inv, TypeOK, Roles, SkippedIsPoked, WaitsForNothing, EndIsPoked,
       AsleepIsNotified, InTraversal, Needed, Outcomes

-----------------------------------------------------------------------------
(* What a thread other than the worker does.                               *)

(* A step that leaves the cache and the worker where they are, that takes  *)
(* no thread from "signal" to anything else and none from "notify_one".    *)
LEMMA Harmless ==
    ASSUME Inv, TypeOK', Roles',
           pc'[Worker] = pc[Worker], job'[Worker] = job[Worker],
           Needed' \subseteq Needed, Cached \subseteq Cached', Cached' \subseteq Hosts,
           done' = done, ready' = ready,
           \A t \in Threads : pc[t] \in {"signal", "notify_one"} => pc'[t] = pc[t]
    PROVE  Inv'
<1>1. WillBePoked => WillBePoked'
  BY DEF WillBePoked
<1>2. \A h : Skipped(h)' => Skipped(h)
  BY DEF Skipped
<1>3. SkippedIsPoked'
  BY <1>1, <1>2 DEF Inv, SkippedIsPoked
<1>4. WaitsForNothing' /\ EndIsPoked'
  BY <1>1 DEF Inv, WaitsForNothing, EndIsPoked
<1>5. AsleepIsNotified'
  BY DEF Inv, AsleepIsNotified
<1>6. QED
  BY <1>3, <1>4, <1>5 DEF Inv

(* A step that ends at "signal" is right whatever else it did.             *)
LEMMA Signalling ==
    ASSUME Inv, TypeOK', Roles', NEW t \in Threads, pc'[t] = "signal",
           pc'[Worker] = pc[Worker], ready' = ready,
           \A u \in Threads : pc[u] = "notify_one" => pc'[u] = pc[u]
    PROVE  Inv'
<1>1. WillBePoked'
  BY DEF WillBePoked
<1>2. AsleepIsNotified'
  BY DEF Inv, AsleepIsNotified
<1>3. QED
  BY <1>1, <1>2 DEF Inv, SkippedIsPoked, WaitsForNothing, EndIsPoked

LEMMA CacheFacts == Cached \subseteq Hosts /\ Needed \subseteq Cached
BY DEF Cached, Needed

LEMMA CallKeeps ==
    ASSUME Inv, NEW c \in Callers, Call(c)
    PROVE  Inv'
<1>1. PICK h \in Hosts : Lookup(c, h, "lookup") \/ Lookup(c, h, "lookupSync")
  BY DEF Call
<1>2. c \in Threads /\ c # Worker /\ Worker \in Threads
  BY ResolverAssumption
<1>3. TypeOK' /\ Roles'
  BY <1>1, <1>2 DEF Inv, TypeOK, Roles, Lookup, LockMutex, Goto
<1>4. pc'[Worker] = pc[Worker] /\ job'[Worker] = job[Worker]
  BY <1>1, <1>2 DEF Inv, TypeOK, Lookup, LockMutex, Goto
<1>5. \A t \in Threads : pc[t] \in {"signal", "notify_one"} => pc'[t] = pc[t]
  BY <1>1, <1>2 DEF Inv, TypeOK, Lookup, LockMutex, Goto
<1>6. Needed' = Needed /\ Cached' = Cached /\ done' = done /\ ready' = ready
  BY <1>1 DEF Lookup, LockMutex, Needed, Cached
<1>7. QED
  BY <1>3, <1>4, <1>5, <1>6, CacheFacts, Harmless

LEMMA MarkKeeps ==
    ASSUME Inv, NEW c \in Threads \ {Worker}, Mark(c)
    PROVE  Inv'
<1> USE DEF Mark, Goto, Outcomes
<1>1. Worker \in Threads
  BY ResolverAssumption
<1>2. TypeOK' /\ Roles'
  BY <1>1 DEF Inv, TypeOK, Roles
<1>3. pc'[Worker] = pc[Worker] /\ job' = job /\ done' = done /\ ready' = ready
  BY <1>1 DEF Inv, TypeOK
<1>4. \A t \in Threads \ {c} : pc'[t] = pc[t]
  BY DEF Inv, TypeOK
<1>5. pc[c] = "lookup"
  OBVIOUS
<1>6. CASE cache[job[c]] = "absent"
  <2>1. pc'[c] = "signal"
    BY <1>6 DEF Inv, TypeOK
  <2>2. QED
    BY <2>1, <1>2, <1>3, <1>4, <1>5, Signalling
<1>7. CASE cache[job[c]] # "absent"
  <2>1. Needed' = Needed /\ Cached' = Cached
    BY <1>7 DEF Needed, Cached
  <2>2. QED
    BY <2>1, <1>2, <1>3, <1>4, <1>5, CacheFacts, Harmless
<1>8. QED
  BY <1>6, <1>7

LEMMA ShutdownKeeps ==
    ASSUME Inv, Shutdown
    PROVE  Inv'
<1>1. Worker \in Threads /\ Cleaner \in Threads /\ Cleaner # Worker
  BY ResolverAssumption
<1>2. TypeOK' /\ Roles'
  BY <1>1 DEF Inv, TypeOK, Roles, Shutdown, Goto
<1>3. /\ pc'[Worker] = pc[Worker] /\ pc'[Cleaner] = "signal" /\ ready' = ready
      /\ \A u \in Threads : pc[u] = "notify_one" => pc'[u] = pc[u]
  BY <1>1 DEF Inv, TypeOK, Shutdown, Goto
<1>4. QED
  BY <1>1, <1>2, <1>3, Signalling

LEMMA PokeKeeps ==
    ASSUME Inv, NEW c \in Threads \ {Worker}, Poke(c)
    PROVE  Inv'
<1>1. Worker \in Threads
  BY ResolverAssumption
<1>2. CASE Signal(c)
  <2> USE <1>2 DEF Poke, Signal, SetReady, Goto
  <2>1. TypeOK' /\ Roles'
    BY <1>1 DEF Inv, TypeOK, Roles
  <2>2. WillBePoked'
    BY DEF WillBePoked
  <2>3. pc'[Worker] = pc[Worker] /\ (~ready => pc'[c] = "notify_one")
    BY <1>1 DEF Inv, TypeOK
  <2>4. \A u \in Threads : pc[u] = "notify_one" => pc'[u] = "notify_one"
    BY DEF Inv, TypeOK
  <2>5. AsleepIsNotified'
    BY <2>3, <2>4 DEF Inv, AsleepIsNotified
  <2>6. QED
    BY <2>1, <2>2, <2>5 DEF Inv, SkippedIsPoked, WaitsForNothing, EndIsPoked
<1>3. CASE NotifyOne(c)
  <2> USE <1>3 DEF Poke, NotifyOne, Goto, Sleeping, Awoken
  <2>1. CASE pc[Worker] = "asleep"
    <3>1. pc' = [pc EXCEPT ![c] = "signalled", ![Worker] = "check"]
      BY <1>1, <2>1 DEF Inv, TypeOK, Roles
    <3>2. TypeOK' /\ Roles'
      BY <1>1, <3>1 DEF Inv, TypeOK, Roles
    <3>3. WillBePoked => WillBePoked'
      BY <3>1, <2>1 DEF WillBePoked, Inv, TypeOK
    <3>4. pc'[Worker] = "check"
      BY <1>1, <3>1 DEF Inv, TypeOK
    <3>5. Needed' = Needed /\ done' = done
      BY DEF Needed
    <3>6. QED
      BY <2>1, <3>2, <3>3, <3>4, <3>5
         DEF Inv, SkippedIsPoked, WaitsForNothing, EndIsPoked, AsleepIsNotified, InTraversal
  <2>2. CASE pc[Worker] # "asleep"
    <3>1. pc' = [pc EXCEPT ![c] = "signalled"]
      BY <1>1, <2>2 DEF Inv, TypeOK, Roles
    <3>2. TypeOK' /\ Roles'
      BY <1>1, <3>1 DEF Inv, TypeOK, Roles
    <3>3. WillBePoked => WillBePoked'
      BY <3>1 DEF WillBePoked, Inv, TypeOK
    <3>4. pc'[Worker] = pc[Worker] /\ job' = job /\ done' = done
      BY <1>1, <3>1 DEF Inv, TypeOK
    <3>5. Needed' = Needed /\ \A h : Skipped(h)' = Skipped(h)
      BY DEF Needed, Cached, Skipped
    <3>6. QED
      BY <2>2, <3>2, <3>3, <3>4, <3>5
         DEF Inv, SkippedIsPoked, WaitsForNothing, EndIsPoked, AsleepIsNotified
  <2>3. QED
    BY <2>1, <2>2
<1>4. QED
  BY <1>2, <1>3 DEF Poke

(* The other steps of a call, and of cleanup().                            *)
LEMMA OthersKeep ==
    ASSUME Inv, NEW c \in Threads \ {Worker},
           \/ LookupSync(c) \/ SyncRelock(c) \/ SyncStore(c) \/ Return(c)
           \/ c = Cleaner /\ (Cleanup \/ Join)
    PROVE  Inv'
<1> USE DEF LookupSync, SyncRelock, SyncStore, Return, Cleanup, Join, LockMutex, UnlockMutex,
            Goto, Outcomes
<1>1. Worker \in Threads
  BY ResolverAssumption
<1>2. TypeOK'
  BY <1>1 DEF Inv, TypeOK
<1>3. Roles'
  BY <1>1 DEF Inv, TypeOK, Roles
<1>4. pc'[Worker] = pc[Worker] /\ job'[Worker] = job[Worker] /\ done' = done /\ ready' = ready
  BY <1>1 DEF Inv, TypeOK
<1>5. \A t \in Threads : pc[t] \in {"signal", "notify_one"} => pc'[t] = pc[t]
  BY DEF Inv, TypeOK
<1>6. Needed' \subseteq Needed /\ Cached \subseteq Cached' /\ Cached' \subseteq Hosts
  BY DEF Inv, TypeOK, Needed, Cached
<1>7. QED
  BY <1>2, <1>3, <1>4, <1>5, <1>6, Harmless

-----------------------------------------------------------------------------
(* The worker.                                                             *)

LEMMA AheadFacts ==
    /\ Ahead \subseteq Hosts
    /\ Ahead # {} => Least(Ahead) \in Ahead
    /\ \A h \in Hosts : Skipped(h) => Least(Cached) = h /\ Least(Needed) = h
<1>1. Ahead \subseteq Hosts
  BY DEF Ahead, Needed
<1>2. ASSUME NEW h \in Hosts, Skipped(h)
      PROVE  Least(Cached) = h /\ Least(Needed) = h
  <2>1. h \in Cached /\ h \in Needed /\ (\A g \in Cached : h <= g) /\ \A g \in Needed : h <= g
    BY <1>2, CacheFacts DEF Skipped
  <2>2. Least(Cached) \in Hosts /\ Least(Cached) <= h /\ Least(Needed) \in Hosts /\ Least(Needed) <= h
    BY <2>1, CacheFacts, LeastOf
  <2>3. h <= Least(Cached) /\ h <= Least(Needed)
    BY <2>1, CacheFacts, LeastOf
  <2>4. QED
    BY <2>2, <2>3, ResolverAssumption DEF Hosts
<1>3. QED
  BY <1>1, <1>2, LeastOf

(* The steps that neither look at the cache nor change it.                 *)
LEMMA WorkerMovesKeep ==
    ASSUME Inv, RunBegins \/ TestDone \/ LookedUp \/ InWait \/ Disturbance
    PROVE  Inv'
<1> USE DEF RunBegins, TestDone, LookedUp, InWait, Disturbance, Proceed, FallAsleep, Relock,
            SpuriousWakeup, LockMutex, UnlockMutex, Goto, Checking, Sleeping, Awoken
<1>1. Worker \in Threads
  BY ResolverAssumption
<1>2. TypeOK' /\ Roles'
  BY <1>1 DEF Inv, TypeOK, Roles
<1>3. \A t \in Threads \ {Worker} : pc'[t] = pc[t]
  BY DEF Inv, TypeOK
<1>4. Needed' = Needed /\ done' = done /\ \A h : Skipped(h)' = Skipped(h)
  BY DEF Needed, Cached, Skipped
<1>5. pc[Worker] # "signal" /\ pc'[Worker] # "signal" /\ pc[Worker] # "notify_one"
  BY <1>2 DEF Inv, Roles
<1>6. WillBePoked => WillBePoked' \/ pc'[Worker] = "relock"
  BY <1>1, <1>3, <1>5 DEF WillBePoked, Inv, TypeOK, Roles
<1>7. SkippedIsPoked'
  BY <1>1, <1>4, <1>6 DEF Inv, TypeOK, Roles, SkippedIsPoked, InTraversal
<1>8. WaitsForNothing'
  BY <1>1, <1>4, <1>6 DEF Inv, TypeOK, Roles, WaitsForNothing
<1>9. EndIsPoked'
  BY <1>1, <1>4, <1>6 DEF Inv, TypeOK, Roles, EndIsPoked
<1>10. AsleepIsNotified'
  BY <1>1, <1>3, <1>5 DEF Inv, TypeOK, Roles, AsleepIsNotified
<1>11. QED
  BY <1>2, <1>7, <1>8, <1>9, <1>10 DEF Inv

LEMMA LookUpKeeps ==
    ASSUME Inv, LookUp
    PROVE  Inv'
<1> USE DEF LookUp, UnlockMutex, Goto
<1>1. Worker \in Threads
  BY ResolverAssumption
<1>2. Least(Ahead) \in Hosts
  BY AheadFacts
<1>3. TypeOK' /\ Roles'
  BY <1>1, <1>2 DEF Inv, TypeOK, Roles
<1>4. WillBePoked => WillBePoked'
  BY <1>1 DEF Inv, TypeOK, WillBePoked
<1>5. Needed' = Needed /\ done' = done /\ \A h : Skipped(h)' = Skipped(h)
  BY DEF Needed, Cached, Skipped
<1>6. pc[Worker] = "traverse" /\ pc'[Worker] = "resolving" /\ job'[Worker] = Least(Ahead)
  BY <1>1 DEF Inv, TypeOK
<1>7. SkippedIsPoked'
  <2>1. SUFFICES ASSUME NEW h \in Hosts, Skipped(h), h # Least(Ahead)
                 PROVE  WillBePoked'
    BY <1>5, <1>6 DEF SkippedIsPoked
  <2>2. job[Worker] # 0
    BY <2>1, AheadFacts DEF Ahead
  <2>3. QED
    BY <1>4, <1>6, <2>1, <2>2 DEF Inv, SkippedIsPoked, InTraversal
<1>8. WaitsForNothing' /\ EndIsPoked' /\ AsleepIsNotified'
  BY <1>4, <1>5, <1>6 DEF Inv, WaitsForNothing, EndIsPoked, AsleepIsNotified
<1>9. QED
  BY <1>3, <1>7, <1>8 DEF Inv

LEMMA StoreKeeps ==
    ASSUME Inv, Store
    PROVE  Inv'
<1> USE DEF Store, Goto, Outcomes
<1>1. Worker \in Threads
  BY ResolverAssumption
<1>2. TypeOK' /\ Roles'
  BY <1>1 DEF Inv, TypeOK, Roles
<1>3. WillBePoked => WillBePoked'
  BY <1>1 DEF Inv, TypeOK, WillBePoked
<1>4. pc[Worker] = "resolved" /\ pc'[Worker] = "traverse" /\ job' = job /\ done' = done
  BY <1>1 DEF Inv, TypeOK
<1>5. Cached \subseteq Cached' /\ Needed' \subseteq Needed \ {job[Worker]}
  BY DEF Inv, TypeOK, Cached, Needed
<1>6. \A h \in Hosts : Skipped(h)' => Skipped(h) /\ h # job[Worker]
  BY <1>5 DEF Skipped
<1>7. SkippedIsPoked'
  BY <1>3, <1>4, <1>6 DEF Inv, SkippedIsPoked, InTraversal
<1>8. WaitsForNothing' /\ EndIsPoked' /\ AsleepIsNotified'
  BY <1>3, <1>4 DEF Inv, WaitsForNothing, EndIsPoked, AsleepIsNotified
<1>9. QED
  BY <1>2, <1>7, <1>8 DEF Inv

LEMMA WaitKeeps ==
    ASSUME Inv, Wait
    PROVE  Inv'
<1> USE DEF Wait, UnlockMutex, Goto
<1>1. Worker \in Threads
  BY ResolverAssumption
<1>2. TypeOK' /\ Roles'
  BY <1>1 DEF Inv, TypeOK, Roles
<1>3. WillBePoked => WillBePoked'
  BY <1>1 DEF Inv, TypeOK, WillBePoked
<1>4. pc[Worker] = "traverse" /\ pc'[Worker] = "check" /\ Needed' = Needed /\ done' = done
  BY <1>1 DEF Inv, TypeOK, Needed
<1>5. ASSUME Needed # {}
      PROVE  WillBePoked
  <2>1. job[Worker] # 0
    BY <1>5 DEF Ahead
  <2>2. Needed \subseteq {Least(Cached)}
    BY <2>1 DEF Ahead
  <2>3. Least(Cached) \in Hosts /\ Skipped(Least(Cached))
    BY <1>5, <2>2, CacheFacts, LeastOf DEF Skipped
  <2>4. QED
    BY <1>4, <2>1, <2>3 DEF Inv, SkippedIsPoked, InTraversal
<1>6. SkippedIsPoked' /\ WaitsForNothing' /\ EndIsPoked' /\ AsleepIsNotified'
  BY <1>3, <1>4, <1>5
     DEF Inv, SkippedIsPoked, WaitsForNothing, EndIsPoked, AsleepIsNotified, InTraversal
<1>7. QED
  BY <1>2, <1>6 DEF Inv

-----------------------------------------------------------------------------
LEMMA StepInv == Inv /\ [Next]_vars => Inv'
<1>1. SUFFICES ASSUME Inv, [Next]_vars
               PROVE  Inv'
  OBVIOUS
<1>2. \A c \in Callers \cup {Cleaner} : c \in Threads \ {Worker}
  BY ResolverAssumption
<1>3. CASE Run \/ Disturbance
  BY <1>1, <1>3, WorkerMovesKeep, LookUpKeeps, StoreKeeps, WaitKeeps DEF Run
<1>4. CASE \E c \in Callers : Call(c)
  BY <1>1, <1>4, CallKeeps
<1>5. CASE \E t \in Callers \cup {Cleaner} : InCall(t)
  BY <1>1, <1>2, <1>5, MarkKeeps, PokeKeeps, OthersKeep DEF InCall
<1>6. CASE Cleanup \/ Shutdown \/ Join
  BY <1>1, <1>2, <1>6, ShutdownKeeps, OthersKeep
<1>7. CASE UNCHANGED vars
  BY <1>1, <1>7 DEF vars, condVars, Inv, TypeOK, Roles, SkippedIsPoked, WaitsForNothing, EndIsPoked,
              AsleepIsNotified, WillBePoked, Skipped, Needed, Cached
<1>8. QED
  BY <1>1, <1>3, <1>4, <1>5, <1>6, <1>7 DEF Next

LEMMA InvAlways == Spec => []Inv
BY InitInv, StepInv, PTL DEF Spec

(* Every variable keeps its type; the worker and the callers keep to their *)
(* own parts of the code.                                                  *)
THEOREM TypeCorrect == Spec => []TypeOK
<1>1. Inv => TypeOK
  BY DEF Inv
<1>2. QED
  BY <1>1, InvAlways, PTL

(* The worker never sleeps while a host is needed or it is to end, unless  *)
(* the caller that will wake it is about to, however many callers there    *)
(* are and whatever its traversal skips (raw_socket.cxx:135-160).          *)
THEOREM ResolverNeverSleepsOnWork == Spec => []NeverSleepsOnWork
<1>1. Inv => NeverSleepsOnWork
  BY DEF Inv, NeverSleepsOnWork, WaitsForNothing, EndIsPoked, AsleepIsNotified, WillBePoked
<1>2. QED
  BY <1>1, InvAlways, PTL
=============================================================================
