------------------------- MODULE SGWaitConditionUse --------------------------
(***************************************************************************)
(* Threads that use one SGWaitCondition in every way its interface allows: *)
(* Waiters lock their mutex and wait, with or without a timeout;           *)
(* Signallers signal or broadcast, without holding the mutex.              *)
(***************************************************************************)
EXTENDS SGWaitCondition, FiniteSets

CONSTANTS Waiters, Signallers,
          MaxSignals   \* bound: calls of signal and broadcast

ASSUME UseAssumption == /\ Threads = Waiters \cup Signallers
                        /\ Waiters \cap Signallers = {}
                        /\ MaxSignals \in Nat

VARIABLES signals      \* bound: signal and broadcast sections executed

useVars == <<owner, ready, pc, signals>>

UseInit ==
    /\ owner = NoThread
    /\ ready = FALSE
    /\ pc = [t \in Threads |-> "idle"]
    /\ signals = 0

Acquire(w) == LockMutex(w, "idle", "locked") /\ UNCHANGED signals

Release(w) == UnlockMutex(w, "locked", "idle") /\ UNCHANGED signals

Wait(w) == (EnterWait(w) \/ EnterTimedWait(w)) /\ UNCHANGED signals

Consume(w) == Proceed(w) /\ UNCHANGED signals

Sleep(w) ==
    /\ FallAsleep(w) \/ TimeOut(w) \/ Relock(w)
    /\ UNCHANGED signals

WakeSpuriously(w) == SpuriousWakeup(w) /\ UNCHANGED signals

CallSignal(s) ==
    /\ pc[s] = "idle"
    /\ signals + Cardinality({t \in Signallers : pc[t] \in {"signal", "broadcast"}}) < MaxSignals
    /\ \E call \in {"signal", "broadcast"} : Goto(s, call)
    /\ UNCHANGED <<owner, ready, signals>>

SetFlag(s) ==
    /\ Signal(s) \/ Broadcast(s)
    /\ signals' = signals + 1

Notify(s) == (NotifyOne(s) \/ NotifyAll(s)) /\ UNCHANGED signals

Return(s) ==
    /\ pc[s] = "signalled"
    /\ Goto(s, "idle")
    /\ UNCHANGED <<owner, ready, signals>>

WaiterNext(w) ==
    Acquire(w) \/ Release(w) \/ Wait(w) \/ Consume(w) \/ Sleep(w) \/ WakeSpuriously(w)

SignallerNext(s) == CallSignal(s) \/ SetFlag(s) \/ Notify(s) \/ Return(s)

UseNext == (\E w \in Waiters : WaiterNext(w)) \/ (\E s \in Signallers : SignallerNext(s))

UseSpec == UseInit /\ [][UseNext]_useVars

(* A thread that is inside the condition keeps running: it tests the flag, *)
(* is woken, and finishes a signal it has begun.  Nobody is obliged to     *)
(* begin a wait or a signal, and a wakeup without a notify is not promised.*)
UseFairness ==
    /\ \A w \in Waiters :
          WF_useVars(Consume(w)) /\ WF_useVars(Sleep(w)) /\ WF_useVars(Release(w))
    /\ \A s \in Signallers :
          WF_useVars(SetFlag(s)) /\ WF_useVars(Notify(s)) /\ WF_useVars(Return(s))

UseFairSpec == UseSpec /\ UseFairness
-----------------------------------------------------------------------------
UsePC == CondPC \cup {"idle"}

(* The type invariant.                                                     *)
UseTypeOK ==
    /\ owner \in Waiters \cup {NoThread}
    /\ ready \in BOOLEAN
    /\ pc \in [Threads -> UsePC]
    /\ signals \in Nat

(* A raised flag does not leave every waiter asleep: signal skips the      *)
(* notify when the flag was up already (SGThread.cxx:152-158), and that is *)
(* safe because an earlier notify is still under way or a waiter is about  *)
(* to test the flag.                                                       *)
NoSleepThroughSignal == WakeupInFlight

(* A raised flag and a sleeping waiter do not stay together for ever.      *)
FlagGetsConsumed == (ready /\ \E w \in Waiters : pc[w] \in Sleeping) ~> ~ready

-----------------------------------------------------------------------------
(* What the comments say and the code does not do.                         *)

WaitsFor(w) == pc[w] \in Checking \cup Sleeping

(* SGThread.hxx:130, of broadcast: "Wake all threads waiting on this       *)
(* condition variable."  They are all notified, and the first to test the  *)
(* flag takes it from the others, who go back to sleep.                    *)
BroadcastWakesAll ==
    \A w \in Waiters :
        (WaitsFor(w) /\ \E s \in Signallers : pc[s] = "notify_all") ~> ~WaitsFor(w)

(* SGThread.hxx:123 and 131: "Nothing happens if no threads are waiting."  *)
(* The flag stays up, and the next wait returns at once.                   *)
NothingHappensUnwaited ==
    [][(\A w \in Waiters : ~WaitsFor(w)) /\ (\E s \in Signallers : SetFlag(s))
          => ready' = ready]_useVars
=============================================================================
