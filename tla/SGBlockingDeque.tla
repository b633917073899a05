--------------------------- MODULE SGBlockingDeque ---------------------------
(***************************************************************************)
(* SGBlockingDeque and SGBlockingQueue (simgear/threads/SGQueue.hxx): a    *)
(* std::deque behind a mutex, and a SGWaitCondition `not_empty' on which   *)
(* the retrieving calls wait.  SGBlockingQueue is the same code with       *)
(* push = push_back and pop = pop_front.                                   *)
(*                                                                         *)
(* A thread moves  idle -> lock -> locked -> (its effect) -> unlock ->     *)
(* idle; a push signals while it still owns the mutex, and a retrieving    *)
(* call that finds nothing goes through the wait of SGWaitCondition and    *)
(* looks again.  Every public call that changes state is an action; empty, *)
(* size, front and copy are the one call "read".                           *)
(***************************************************************************)
EXTENDS SGWaitCondition, Sequences, FiniteSets

CONSTANTS Producers,   \* threads that push, clear and read
          Consumers,   \* threads that retrieve and read
          Items,       \* the items; each is pushed at most once
          NoItem,
          MaxClears    \* bound: calls of clear

ASSUME DequeAssumption == /\ Threads = Producers \cup Consumers
                          /\ Producers \cap Consumers = {}
                          /\ NoItem \notin Items
                          /\ MaxClears \in Nat

VARIABLES queue,       \* the items, front first
          call,        \* the call a thread is in, or "none"
          item,        \* the item it pushes, or has retrieved
          unused,      \* bound: items not pushed yet
          taken,       \* history: items each consumer has retrieved
          dropped,     \* history: items clear() has discarded
          clears       \* bound: calls of clear made

dequeVars == <<queue, call, item, unused, taken, dropped, clears>>
vars == <<owner, ready, pc, queue, call, item, unused, taken, dropped, clears>>

Pushing == {"push_front", "push_back"}
Popping == {"pop_front", "pop_back"}
Retrieving == Popping \cup {"waitOnNotEmpty"}

Content == {queue[i] : i \in DOMAIN queue}

Init ==
    /\ owner = NoThread
    /\ ready = FALSE
    /\ pc = [t \in Threads |-> "idle"]
    /\ queue = <<>>
    /\ call = [t \in Threads |-> "none"]
    /\ item = [t \in Threads |-> NoItem]
    /\ unused = Items
    /\ taken = [c \in Consumers |-> {}]
    /\ dropped = {}
    /\ clears = 0

-----------------------------------------------------------------------------
(* Calls begin.                                                            *)

BeginCall(t, c, i) ==
    /\ pc[t] = "idle"
    /\ Goto(t, "lock")
    /\ call' = [call EXCEPT ![t] = c]
    /\ item' = [item EXCEPT ![t] = i]
    /\ UNCHANGED <<owner, ready, queue, taken, dropped>>

BeginPush(p) ==
    /\ \E c \in Pushing, i \in unused :
          BeginCall(p, c, i) /\ unused' = unused \ {i}
    /\ UNCHANGED clears

BeginClear(p) ==
    /\ clears < MaxClears
    /\ clears' = clears + 1
    /\ BeginCall(p, "clear", NoItem)
    /\ UNCHANGED unused

BeginRead(t) == BeginCall(t, "read", NoItem) /\ UNCHANGED <<unused, clears>>

BeginRetrieve(c) ==
    /\ \E r \in Retrieving : BeginCall(c, r, NoItem)
    /\ UNCHANGED <<unused, clears>>

Lock(t) == LockMutex(t, "lock", "locked") /\ UNCHANGED dequeVars

Unlock(t) ==
    /\ UnlockMutex(t, "unlock", "idle")
    /\ call' = [call EXCEPT ![t] = "none"]
    /\ UNCHANGED <<queue, item, unused, taken, dropped, clears>>

-----------------------------------------------------------------------------
(* The effects, each by the thread that owns the mutex.                    *)

PushFront(p) ==
    /\ pc[p] = "locked" /\ call[p] = "push_front"
    /\ queue' = <<item[p]>> \o queue
    /\ Goto(p, "signal")
    /\ UNCHANGED <<owner, ready, call, item, unused, taken, dropped, clears>>

(* Mutant: the push does not signal.                                       *)
PushBackNoSignal(p) ==
    /\ pc[p] = "locked" /\ call[p] = "push_back"
    /\ queue' = Append(queue, item[p])
    /\ Goto(p, "unlock")
    /\ UNCHANGED <<owner, ready, call, item, unused, taken, dropped, clears>>

PushBack(p) ==
    /\ pc[p] = "locked" /\ call[p] = "push_back"
    /\ queue' = Append(queue, item[p])
    /\ Goto(p, "signal")
    /\ UNCHANGED <<owner, ready, call, item, unused, taken, dropped, clears>>

(* not_empty.signal(), inside the push.                                    *)
SignalNotEmpty(p) == (Signal(p) \/ NotifyOne(p)) /\ UNCHANGED dequeVars

Signalled(p) ==
    /\ pc[p] = "signalled"
    /\ Goto(p, "unlock")
    /\ UNCHANGED <<owner, ready, queue, call, item, unused, taken, dropped, clears>>

Clear(p) ==
    /\ pc[p] = "locked" /\ call[p] = "clear"
    /\ queue' = <<>>
    /\ dropped' = dropped \cup Content
    /\ Goto(p, "unlock")
    /\ UNCHANGED <<owner, ready, call, item, unused, taken, clears>>

Read(t) ==
    /\ pc[t] = "locked" /\ call[t] = "read"
    /\ Goto(t, "unlock")
    /\ UNCHANGED <<owner, ready, queue, call, item, unused, taken, dropped, clears>>

(* while (queue.empty()) not_empty.wait(mutex): the thread comes back to   *)
(* "locked" and tests again.                                               *)
WaitNotEmpty(c) ==
    /\ pc[c] = "locked" /\ call[c] \in Retrieving
    /\ queue = <<>>
    /\ EnterWait(c)
    /\ UNCHANGED dequeVars

Take(c, i, rest) ==
    /\ pc[c] = "locked"
    /\ queue # <<>>
    /\ queue' = rest
    /\ item' = [item EXCEPT ![c] = i]
    /\ taken' = [taken EXCEPT ![c] = @ \cup {i}]
    /\ Goto(c, "unlock")
    /\ UNCHANGED <<owner, ready, call, unused, dropped, clears>>

(* Mutant: the item stays in the queue.                                    *)
PopFrontKeeps(c) == call[c] = "pop_front" /\ Take(c, Head(queue), queue)

PopFront(c) == call[c] = "pop_front" /\ Take(c, Head(queue), Tail(queue))

PopBack(c) ==
    /\ call[c] = "pop_back"
    /\ Take(c, queue[Len(queue)], SubSeq(queue, 1, Len(queue) - 1))

(* Mutant: one test of the queue, not a loop.                              *)
FoundWithoutTest(c) ==
    /\ pc[c] = "locked" /\ call[c] = "waitOnNotEmpty"
    /\ Goto(c, "unlock")
    /\ UNCHANGED <<owner, ready, queue, call, item, unused, taken, dropped, clears>>

FoundNotEmpty(c) ==
    /\ pc[c] = "locked" /\ call[c] = "waitOnNotEmpty"
    /\ queue # <<>>
    /\ Goto(c, "unlock")
    /\ UNCHANGED <<owner, ready, queue, call, item, unused, taken, dropped, clears>>

-----------------------------------------------------------------------------
BeginNext(t) ==
    \/ t \in Producers /\ (BeginPush(t) \/ BeginClear(t))
    \/ t \in Consumers /\ BeginRetrieve(t)
    \/ BeginRead(t)

EffectNext(t) ==
    \/ PushFront(t) \/ PushBack(t) \/ Clear(t) \/ Read(t)
    \/ PopFront(t) \/ PopBack(t) \/ FoundNotEmpty(t)

SyncNext(t) ==
    \/ Lock(t) \/ Unlock(t) \/ SignalNotEmpty(t) \/ Signalled(t)
    \/ WaitNotEmpty(t)
    \/ (Proceed(t) \/ FallAsleep(t) \/ Relock(t)) /\ UNCHANGED dequeVars

(* A call, once begun, is carried on by the scheduler.                     *)
Step(t) == EffectNext(t) \/ SyncNext(t)

Spurious(t) == SpuriousWakeup(t) /\ UNCHANGED dequeVars

Next == \E t \in Threads : BeginNext(t) \/ Step(t) \/ Spurious(t)

Spec == Init /\ [][Next]_vars

(* Every thread inside a call keeps running, and std::mutex lets a thread  *)
(* that waits for it in at last although others lock and unlock it again   *)
(* and again.  Nobody is obliged to begin a call.                          *)
FairSpec ==
    /\ Spec
    /\ \A t \in Threads :
          /\ WF_vars(Step(t))
          /\ SF_vars((Lock(t) \/ Relock(t)) /\ Step(t))

-----------------------------------------------------------------------------
Critical == {"locked", "signal", "notify_one", "signalled", "unlock"}
Waiting == {"check", "asleep", "relock"}
DequePC == {"idle", "lock"} \cup Critical \cup Waiting

(* The type invariant.                                                     *)
TypeOK ==
    /\ owner \in Threads \cup {NoThread}
    /\ ready \in BOOLEAN
    /\ pc \in [Threads -> DequePC]
    /\ queue \in Seq(Items)
    /\ call \in [Threads -> Pushing \cup Retrieving \cup {"clear", "read", "none"}]
    /\ item \in [Threads -> Items \cup {NoItem}]
    /\ unused \subseteq Items
    /\ taken \in [Consumers -> SUBSET Items]
    /\ dropped \subseteq Items
    /\ clears \in Nat

(* Two threads are never both inside the critical section, even though     *)
(* wait unlocks the mutex under its lock_guard and locks it again before   *)
(* the guard's scope ends (SGQueue.hxx:355-368, SGThread.cxx:97-125).      *)
MutualExclusion == \A t \in Threads : pc[t] \in Critical <=> owner = t

(* An item some thread has begun to push and not yet stored.               *)
InFlight == {item[p] : p \in {q \in Producers :
                call[q] \in Pushing /\ pc[q] \in {"lock", "locked"}}}

(* No item is lost or handed out twice: once pushed it is in the queue at  *)
(* one place, or was retrieved by one consumer, or discarded by clear().   *)
ExactlyOnce ==
    /\ \A i, j \in DOMAIN queue : queue[i] = queue[j] => i = j
    /\ \A c \in Consumers :
          /\ taken[c] \cap (Content \cup dropped \cup InFlight \cup unused) = {}
          /\ \A d \in Consumers \ {c} : taken[c] \cap taken[d] = {}
    /\ Content \cap (dropped \cup InFlight \cup unused) = {}
    /\ Items = unused \cup InFlight \cup Content \cup dropped
                  \cup UNION {taken[c] : c \in Consumers}

(* The reason why the sticky flag makes the queue work with one consumer:  *)
(* if it is in wait and has not consumed the flag while there is an item,  *)
(* then the flag is up or its producer is just about to raise it           *)
(* (SGQueue.hxx:313-318, SGThread.cxx:110-114).                            *)
NoLostWakeup ==
    \A c \in Consumers :
        (pc[c] \in {"check", "asleep"} /\ queue # <<>>)
            => (ready \/ \E p \in Producers : pc[p] = "signal")

(* Every call takes effect at one instant: the deque implements the atomic *)
(* one.  This includes that a retrieving call whose item is there returns  *)
(* (SGQueue.hxx:269-412).                                                  *)
Abstract == INSTANCE AtomicDeque WITH
    done <- [t \in Threads |-> pc[t] \in {"signal", "notify_one", "signalled", "unlock"}]

ImplementsAtomicDeque == Abstract!Spec

(* What SGQueue.hxx:269-270 says: "A guarded deque blocks threads trying   *)
(* to retrieve items when none are available", so none sleeps for ever     *)
(* over an item.  With two consumers the second of two pushes may find the *)
(* flag still up, and one consumer is never woken.                         *)
BlocksOnlyWhenEmpty ==
    \A c \in Consumers :
        (pc[c] = "asleep" /\ queue # <<>>) ~> (pc[c] # "asleep" \/ queue = <<>>)
=============================================================================
