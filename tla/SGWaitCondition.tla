--------------------------- MODULE SGWaitCondition ---------------------------
(***************************************************************************)
(* SGWaitCondition (simgear/threads/SGThread.cxx): a condition variable    *)
(* that remembers a signal in an auto-reset flag `ready' and is used with  *)
(* a mutex of its caller.  This module holds the steps a thread takes in   *)
(* wait, signal and broadcast; SGWaitConditionUse and SGBlockingDeque are  *)
(* the programs made of them.                                              *)
(*                                                                         *)
(* A critical section of the private mutex _mtx is one step.  A thread     *)
(* inside std::condition_variable is "asleep": it leaves by a notify, by   *)
(* a spurious wakeup or, in the timed form, by its timeout, and tests      *)
(* `ready' again.                                                          *)
(***************************************************************************)
EXTENDS Naturals

CONSTANTS Threads,    \* the threads that use the condition
          NoThread    \* "nobody", as the owner of the mutex

ASSUME NoThreadAssumption == NoThread \notin Threads

VARIABLES owner,      \* the thread that holds the caller's mutex
          ready,      \* SGWaitCondition::ready
          pc          \* where each thread stands

condVars == <<owner, ready, pc>>

Checking == {"check", "check_timed"}        \* about to test `ready'
Sleeping == {"asleep", "asleep_timed"}      \* inside _condition
Notifying == {"notify_one", "notify_all"}   \* ready is set, notify is next

(* The positions of a thread inside this class, and "locked": the caller   *)
(* owns its mutex, before a wait or after it has returned.                 *)
CondPC == Checking \cup Sleeping \cup Notifying
             \cup {"locked", "relock", "signal", "broadcast", "signalled"}

Goto(t, l) == pc' = [pc EXCEPT ![t] = l]

LockMutex(t, from, to) ==
    /\ pc[t] = from
    /\ owner = NoThread
    /\ owner' = t
    /\ Goto(t, to)
    /\ UNCHANGED ready

UnlockMutex(t, from, to) ==
    /\ pc[t] = from
    /\ owner = t
    /\ owner' = NoThread
    /\ Goto(t, to)
    /\ UNCHANGED ready

-----------------------------------------------------------------------------
(* wait(mutex) and wait(mutex, msec).                                      *)

EnterWait(t) == UnlockMutex(t, "locked", "check")

EnterTimedWait(t) == UnlockMutex(t, "locked", "check_timed")

(* Mutant: the flag is not reset.                                          *)
ProceedKeepsFlag(t) ==
    /\ pc[t] \in Checking
    /\ ready
    /\ Goto(t, "relock")
    /\ UNCHANGED <<owner, ready>>

(* The predicate holds: the signal is consumed.                            *)
Proceed(t) ==
    /\ pc[t] \in Checking
    /\ ready
    /\ ready' = FALSE
    /\ Goto(t, "relock")
    /\ UNCHANGED owner

FallAsleep(t) ==
    /\ pc[t] \in Checking
    /\ ~ready
    /\ Goto(t, IF pc[t] = "check" THEN "asleep" ELSE "asleep_timed")
    /\ UNCHANGED <<owner, ready>>

Awoken(l) == CASE l = "asleep"       -> "check"
               [] l = "asleep_timed" -> "check_timed"
               [] OTHER              -> l

SpuriousWakeup(t) ==
    /\ pc[t] \in Sleeping
    /\ Goto(t, Awoken(pc[t]))
    /\ UNCHANGED <<owner, ready>>

(* wait_for gives up; the flag is reset all the same, also when a signal   *)
(* has set it since.                                                       *)
TimeOut(t) ==
    /\ pc[t] = "asleep_timed"
    /\ ready' = FALSE
    /\ Goto(t, "relock")
    /\ UNCHANGED owner

Relock(t) == LockMutex(t, "relock", "locked")

-----------------------------------------------------------------------------
(* signal() and broadcast(): both notify only when they set the flag.      *)

(* Mutant: the test of `waiting' is inverted.                              *)
SetReadyInverted(t, from, notify) ==
    /\ pc[t] = from
    /\ ready' = TRUE
    /\ Goto(t, IF ready THEN notify ELSE "signalled")
    /\ UNCHANGED owner

SetReady(t, from, notify) ==
    /\ pc[t] = from
    /\ ready' = TRUE
    /\ Goto(t, IF ready THEN "signalled" ELSE notify)
    /\ UNCHANGED owner

Signal(t) == SetReady(t, "signal", "notify_one")

Broadcast(t) == SetReady(t, "broadcast", "notify_all")

NotifyOne(t) ==
    /\ pc[t] = "notify_one"
    /\ \/ /\ \A w \in Threads : pc[w] \notin Sleeping
          /\ Goto(t, "signalled")
       \/ \E w \in Threads :
             /\ pc[w] \in Sleeping
             /\ pc' = [pc EXCEPT ![t] = "signalled", ![w] = Awoken(pc[w])]
    /\ UNCHANGED <<owner, ready>>

NotifyAll(t) ==
    /\ pc[t] = "notify_all"
    /\ pc' = [w \in Threads |-> IF w = t THEN "signalled" ELSE Awoken(pc[w])]
    /\ UNCHANGED <<owner, ready>>

-----------------------------------------------------------------------------
(* No wakeup is lost inside the condition: if the flag is up and somebody  *)
(* sleeps, then a notify is still to come or some thread is on its way to  *)
(* test the flag.                                                          *)
WakeupInFlight ==
    (ready /\ \E w \in Threads : pc[w] \in Sleeping)
        => \E t \in Threads : pc[t] \in Notifying \cup Checking
=============================================================================
