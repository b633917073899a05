--------------------------- MODULE Threads_proofs ----------------------------
(***************************************************************************)
(* Theorems about the classes of simgear/threads, each on its own:         *)
(* SGBlockingDeque, SGWaitCondition as SGWaitConditionUse has it, and      *)
(* SGExclusiveThread.  The deque and the use of the condition are two      *)
(* programs that extend SGWaitCondition; the assumption of each only names *)
(* the roles of its own threads.                                           *)
(*                                                                         *)
(* For the deque, for every set of producers and items: the mutex protocol *)
(* of wait keeps the critical sections apart, no item is lost or handed    *)
(* out twice, every step is one of the atomic deque or none, and with one  *)
(* consumer no wakeup is lost.  The proof separates the synchronisation    *)
(* variables, whose invariant does not mention the items, from the data.   *)
(***************************************************************************)
EXTENDS SGBlockingDeque, SGWaitConditionUse, SGExclusiveThread, TLAPS, SequenceTheorems

AllCalls == Pushing \cup Retrieving \cup {"clear", "read", "none"}

SyncType ==
    /\ owner \in Threads \cup {NoThread}
    /\ ready \in BOOLEAN
    /\ pc \in [Threads -> DequePC]
    /\ call \in [Threads -> AllCalls]

(* Producers never wait and consumers never signal.                        *)
Roles ==
    /\ \A p \in Producers : pc[p] \notin Waiting /\ call[p] \notin Retrieving
    /\ \A c \in Consumers : /\ pc[c] \notin {"signal", "notify_one", "signalled"}
                            /\ call[c] \notin Pushing \cup {"clear"}

SyncInv == SyncType /\ MutualExclusion /\ Roles

DataType ==
    /\ queue \in Seq(Items)
    /\ item \in [Threads -> Items \cup {NoItem}]
    /\ unused \subseteq Items
    /\ taken \in [Consumers -> SUBSET Items]
    /\ dropped \subseteq Items
    /\ clears \in Nat

(* A thread that pushes has an item.                                       *)
ItemGiven == \A t \in Threads : call[t] \in Pushing => item[t] \in Items

DataInv == DataType /\ ItemGiven

-----------------------------------------------------------------------------
LEMMA InitSync == Init => SyncInv
<1> SUFFICES ASSUME Init PROVE SyncInv
    OBVIOUS
<1>1. SyncType
  BY DEF Init, SyncType, DequePC, AllCalls
<1>2. MutualExclusion
  BY NoThreadAssumption DEF Init, MutualExclusion, Critical
<1>3. Roles
  BY DequeAssumption DEF Init, Roles, Waiting, Pushing, Popping, Retrieving
<1> QED BY <1>1, <1>2, <1>3 DEF SyncInv

LEMMA NextSync == SyncInv /\ [Next]_vars => SyncInv'
<1> SUFFICES ASSUME SyncInv, [Next]_vars PROVE SyncInv'
    OBVIOUS
<1> USE DequeAssumption, NoThreadAssumption
        DEF SyncInv, SyncType, MutualExclusion, Roles, DequePC, Critical, Waiting,
            AllCalls, Pushing, Popping, Retrieving, Goto
<1>1. CASE UNCHANGED vars
  BY <1>1 DEF vars
<1>2. ASSUME NEW t \in Threads, BeginNext(t) PROVE SyncInv'
  BY <1>2 DEF BeginNext, BeginPush, BeginClear, BeginRetrieve, BeginRead, BeginCall
<1>3. ASSUME NEW t \in Threads, EffectNext(t) PROVE SyncInv'
  <2>1. pc[t] = "locked" /\ UNCHANGED <<owner, ready, call>>
    BY <1>3 DEF EffectNext, PushFront, PushBack, Clear, Read, PopFront, PopBack,
                FoundNotEmpty, Take
  <2>2. \/ pc' = [pc EXCEPT ![t] = "unlock"]
        \/ call[t] \in Pushing /\ pc' = [pc EXCEPT ![t] = "signal"]
    BY <1>3 DEF EffectNext, PushFront, PushBack, Clear, Read, PopFront, PopBack,
                FoundNotEmpty, Take
  <2> QED BY <2>1, <2>2
<1>4. ASSUME NEW t \in Threads, SyncNext(t) PROVE SyncInv'
  <2>1. CASE Lock(t) \/ Unlock(t)
    BY <2>1 DEF Lock, Unlock, LockMutex, UnlockMutex, dequeVars
  <2>2. CASE SignalNotEmpty(t) /\ Signal(t)
    BY <2>2 DEF SignalNotEmpty, Signal, SetReady, dequeVars
  <2>3. CASE SignalNotEmpty(t) /\ NotifyOne(t)
    <3>1. pc[t] = "notify_one" /\ UNCHANGED <<owner, ready, call>>
      BY <2>3 DEF SignalNotEmpty, NotifyOne, Signal, SetReady, dequeVars
    <3>2. CASE pc' = [pc EXCEPT ![t] = "signalled"]
      BY <3>1, <3>2
    <3>3. ASSUME NEW w \in Threads, pc[w] \in Sleeping,
                 pc' = [pc EXCEPT ![t] = "signalled", ![w] = Awoken(pc[w])]
          PROVE  SyncInv'
      <4>1. pc[w] = "asleep" /\ w # t
        BY <3>1, <3>3 DEF Sleeping
      <4>2. pc' = [pc EXCEPT ![t] = "signalled", ![w] = "check"]
        BY <3>3, <4>1 DEF Awoken
      <4> QED BY <3>1, <4>1, <4>2
    <3> QED BY <2>3, <3>1, <3>2, <3>3 DEF NotifyOne
  <2>4. CASE Signalled(t)
    BY <2>4 DEF Signalled
  <2>5. CASE WaitNotEmpty(t)
    BY <2>5 DEF WaitNotEmpty, EnterWait, UnlockMutex, dequeVars
  <2>6. CASE (Proceed(t) \/ FallAsleep(t) \/ Relock(t)) /\ UNCHANGED dequeVars
    <3>1. UNCHANGED call /\ (t \in Producers => pc[t] \notin Waiting)
      BY <2>6 DEF dequeVars
    <3>2. CASE Proceed(t)
      BY <3>1, <3>2 DEF Proceed, Checking
    <3>3. CASE FallAsleep(t)
      <4>1. pc[t] = "check" /\ pc' = [pc EXCEPT ![t] = "asleep"]
        BY <3>3 DEF FallAsleep, Checking
      <4> QED BY <3>1, <3>3, <4>1 DEF FallAsleep
    <3>4. CASE Relock(t)
      BY <3>1, <3>4 DEF Relock, LockMutex
    <3> QED BY <2>6, <3>2, <3>3, <3>4
  <2> QED BY <1>4, <2>1, <2>2, <2>3, <2>4, <2>5, <2>6 DEF SyncNext, SignalNotEmpty
<1>5. ASSUME NEW t \in Threads, Spurious(t) PROVE SyncInv'
  BY <1>5 DEF Spurious, SpuriousWakeup, Sleeping, Awoken, dequeVars
<1> QED BY <1>1, <1>2, <1>3, <1>4, <1>5 DEF Next, Step

(* The critical sections of the deque exclude each other, for any number   *)
(* of threads on both sides (SGQueue.hxx:293-412).                         *)
THEOREM DequeMutualExclusion == Spec => []MutualExclusion
<1>1. SyncInv => MutualExclusion
  BY DEF SyncInv
<1> QED BY <1>1, InitSync, NextSync, PTL DEF Spec

-----------------------------------------------------------------------------
LEMMA InitData == Init => DataInv
<1> SUFFICES ASSUME Init PROVE DataInv
    OBVIOUS
<1>1. queue \in Seq(Items)
  BY DEF Init
<1>2. item \in [Threads -> Items \cup {NoItem}] /\ taken \in [Consumers -> SUBSET Items]
  BY DEF Init
<1>3. unused \subseteq Items /\ dropped \subseteq Items /\ clears \in Nat
  BY DEF Init
<1>4. ItemGiven
  BY DEF Init, ItemGiven, Pushing
<1> QED BY <1>1, <1>2, <1>3, <1>4 DEF DataInv, DataType

LEMMA NextData == SyncInv /\ DataInv /\ [Next]_vars => DataInv'
<1> SUFFICES ASSUME SyncInv, DataInv, [Next]_vars PROVE DataInv'
    OBVIOUS
<1>0. /\ call \in [Threads -> AllCalls]
      /\ \A c \in Producers : call[c] \notin Retrieving
  BY DEF SyncInv, SyncType, Roles
<1> USE DequeAssumption, <1>0
        DEF DataInv, DataType, ItemGiven, AllCalls, Pushing, Popping, Retrieving
<1>1. CASE UNCHANGED vars
  BY <1>1 DEF vars
<1>2. ASSUME NEW t \in Threads, BeginNext(t) PROVE DataInv'
  BY <1>2 DEF BeginNext, BeginPush, BeginClear, BeginRetrieve, BeginRead, BeginCall
<1>3. ASSUME NEW t \in Threads, EffectNext(t) PROVE DataInv'
  <2>1. CASE PushFront(t)
    <3>1. <<item[t]>> \o queue \in Seq(Items)
      BY <2>1 DEF PushFront
    <3> QED BY <2>1, <3>1 DEF PushFront
  <2>2. CASE PushBack(t)
    <3>1. Append(queue, item[t]) \in Seq(Items)
      BY <2>2 DEF PushBack
    <3> QED BY <2>2, <3>1 DEF PushBack
  <2>3. CASE Clear(t)
    <3>1. Content \subseteq Items /\ <<>> \in Seq(Items)
      BY DEF Content
    <3> QED BY <2>3, <3>1 DEF Clear
  <2>4. CASE Read(t) \/ FoundNotEmpty(t)
    BY <2>4 DEF Read, FoundNotEmpty
  <2>5. ASSUME NEW i \in Items, NEW rest \in Seq(Items), t \in Consumers, Take(t, i, rest)
        PROVE  DataInv'
    BY <2>5 DEF Take
  <2>6. CASE PopFront(t) \/ PopBack(t)
    <3>1. t \in Consumers /\ queue # <<>>
      BY <2>6 DEF PopFront, PopBack, Take
    <3>2. Head(queue) \in Items /\ Tail(queue) \in Seq(Items)
      BY <3>1
    <3>3. queue[Len(queue)] \in Items /\ SubSeq(queue, 1, Len(queue) - 1) \in Seq(Items)
      BY <3>1
    <3> QED BY <2>5, <2>6, <3>1, <3>2, <3>3 DEF PopFront, PopBack
  <2> QED BY <1>3, <2>1, <2>2, <2>3, <2>4, <2>6 DEF EffectNext
<1>4. ASSUME NEW t \in Threads, SyncNext(t) \/ Spurious(t) PROVE DataInv'
  <2>1. CASE Unlock(t)
    BY <2>1 DEF Unlock
  <2>2. CASE ~Unlock(t)
    BY <1>4, <2>2 DEF SyncNext, Lock, SignalNotEmpty, Signalled, WaitNotEmpty, Spurious,
                      dequeVars
  <2> QED BY <2>1, <2>2
<1> QED BY <1>1, <1>2, <1>3, <1>4 DEF Next, Step

(* Every variable keeps its type (SGQueue.hxx:269-430).                    *)
THEOREM DequeTypeOK == Spec => []TypeOK
<1>1. SyncInv /\ DataInv => TypeOK
  BY DEF SyncInv, DataInv, SyncType, DataType, TypeOK, AllCalls
<1> QED BY <1>1, InitSync, NextSync, InitData, NextData, PTL DEF Spec
-----------------------------------------------------------------------------
(* With a single consumer, a wait that has not seen the flag yet while an  *)
(* item is there finds the flag up, or a push that is about to raise it.   *)
LEMMA NextWakeup ==
    ASSUME NEW c, Consumers = {c}, SyncInv, NoLostWakeup, [Next]_vars
    PROVE  NoLostWakeup'
<1> USE DequeAssumption
        DEF SyncInv, SyncType, Roles, NoLostWakeup, DequePC, Critical, Waiting, Goto
<1>1. CASE UNCHANGED vars
  BY <1>1 DEF vars
<1>2. ASSUME NEW t \in Threads, BeginNext(t) PROVE NoLostWakeup'
  BY <1>2 DEF BeginNext, BeginPush, BeginClear, BeginRetrieve, BeginRead, BeginCall
<1>3. ASSUME NEW t \in Threads, EffectNext(t) PROVE NoLostWakeup'
  <2>1. CASE PushFront(t) \/ PushBack(t)
    <3>1. pc' = [pc EXCEPT ![t] = "signal"] /\ call[t] \in Pushing
      BY <2>1 DEF PushFront, PushBack, Pushing
    <3>2. t \in Producers
      BY <3>1
    <3> QED BY <3>1, <3>2
  <2>2. CASE Clear(t)
    BY <2>2 DEF Clear
  <2>3. CASE Read(t) \/ FoundNotEmpty(t)
    BY <2>3 DEF Read, FoundNotEmpty
  <2>4. CASE PopFront(t) \/ PopBack(t)
    <3>1. t = c /\ pc' = [pc EXCEPT ![t] = "unlock"]
      BY <2>4 DEF PopFront, PopBack, Take, Retrieving, Popping
    <3> QED BY <3>1
  <2> QED BY <1>3, <2>1, <2>2, <2>3, <2>4 DEF EffectNext
<1>4. ASSUME NEW t \in Threads, SyncNext(t) PROVE NoLostWakeup'
  <2>1. CASE Lock(t) \/ Unlock(t) \/ Signalled(t)
    BY <2>1 DEF Lock, Unlock, LockMutex, UnlockMutex, Signalled, dequeVars
  <2>2. CASE SignalNotEmpty(t) /\ Signal(t)
    BY <2>2 DEF SignalNotEmpty, Signal, SetReady, dequeVars
  <2>3. CASE SignalNotEmpty(t) /\ NotifyOne(t)
    <3>1. pc[t] = "notify_one" /\ UNCHANGED <<ready, queue>>
      BY <2>3 DEF SignalNotEmpty, NotifyOne, Signal, SetReady, dequeVars
    <3>2. CASE pc' = [pc EXCEPT ![t] = "signalled"]
      BY <3>1, <3>2
    <3>3. ASSUME NEW w \in Threads, pc[w] \in Sleeping,
                 pc' = [pc EXCEPT ![t] = "signalled", ![w] = Awoken(pc[w])]
          PROVE  NoLostWakeup'
      BY <3>1, <3>3 DEF Sleeping, Awoken
    <3> QED BY <2>3, <3>1, <3>2, <3>3 DEF NotifyOne
  <2>4. CASE WaitNotEmpty(t)
    BY <2>4 DEF WaitNotEmpty, dequeVars
  <2>5. CASE (Proceed(t) \/ FallAsleep(t) \/ Relock(t)) /\ UNCHANGED dequeVars
    <3>1. CASE Proceed(t)
      <4>1. pc[t] = "check" /\ pc' = [pc EXCEPT ![t] = "relock"]
        BY <3>1 DEF Proceed, Checking
      <4>2. t = c
        BY <4>1
      <4> QED BY <4>1, <4>2
    <3>2. CASE FallAsleep(t) \/ Relock(t)
      BY <2>5, <3>2 DEF FallAsleep, Relock, LockMutex, Checking, dequeVars
    <3> QED BY <2>5, <3>1, <3>2
  <2> QED BY <1>4, <2>1, <2>2, <2>3, <2>4, <2>5 DEF SyncNext, SignalNotEmpty
<1>5. ASSUME NEW t \in Threads, Spurious(t) PROVE NoLostWakeup'
  BY <1>5 DEF Spurious, SpuriousWakeup, Sleeping, Awoken, dequeVars
<1> QED BY <1>1, <1>2, <1>3, <1>4, <1>5 DEF Next, Step

(* A queue with one consumer loses no wakeup, whatever the number of       *)
(* producers and however push and clear interleave with the wait           *)
(* (SGQueue.hxx:313-368, SGThread.cxx:97-159).                             *)
THEOREM DequeNoLostWakeup ==
    ASSUME NEW c, Consumers = {c}
    PROVE  Spec => []NoLostWakeup
<1>1. Init => NoLostWakeup
  BY DEF Init, NoLostWakeup
<1>2. SyncInv /\ NoLostWakeup /\ [Next]_vars => NoLostWakeup'
  BY NextWakeup
<1> QED BY <1>1, <1>2, InitSync, NextSync, PTL DEF Spec
-----------------------------------------------------------------------------
(* An item is unused, in flight with one producer, at one place in the     *)
(* queue, dropped, or taken by one consumer.                               *)
Holders == {q \in Producers : call[q] \in Pushing /\ pc[q] \in {"lock", "locked"}}

Once(inFlight, content) ==
    /\ unused \cap (inFlight \cup content \cup dropped) = {}
    /\ inFlight \cap (content \cup dropped) = {}
    /\ content \cap dropped = {}
    /\ \A c \in Consumers :
          /\ taken[c] \cap (content \cup dropped \cup inFlight \cup unused) = {}
          /\ \A d \in Consumers \ {c} : taken[c] \cap taken[d] = {}
    /\ Items = unused \cup inFlight \cup content \cup dropped
                  \cup UNION {taken[c] : c \in Consumers}

Injective(s) == \A i, j \in DOMAIN s : s[i] = s[j] => i = j

OnceInv ==
    /\ Injective(queue)
    /\ \A p, q \in Holders : item[p] = item[q] => p = q
    /\ Once(InFlight, Content)

InSeq(s) == {s[i] : i \in DOMAIN s}

LEMMA InFlightIsHeld == InFlight = {item[p] : p \in Holders}
BY DEF InFlight, Holders

LEMMA FrontAdded ==
    ASSUME NEW s \in Seq(Items), NEW i \in Items, Injective(s), i \notin InSeq(s)
    PROVE  Injective(<<i>> \o s) /\ InSeq(<<i>> \o s) = InSeq(s) \cup {i}
<1> DEFINE new == <<i>> \o s
<1>1. /\ Len(s) \in Nat /\ DOMAIN s = 1 .. Len(s)
      /\ DOMAIN new = 1 .. Len(s) + 1 /\ new[1] = i
      /\ \A k \in 2 .. Len(s) + 1 : new[k] = s[k - 1] /\ k - 1 \in 1 .. Len(s)
  OBVIOUS
<1> HIDE DEF new
<1>2. Injective(new)
  <2>1. ASSUME NEW k \in 2 .. Len(s) + 1 PROVE new[k] # new[1]
    BY <1>1 DEF InSeq
  <2>2. ASSUME NEW k \in 2 .. Len(s) + 1, NEW l \in 2 .. Len(s) + 1, new[k] = new[l]
        PROVE  k = l
    <3>1. k - 1 = l - 1
      BY <1>1, <2>2 DEF Injective
    <3>2. QED
      BY <3>1
  <2>3. \A k \in DOMAIN new : k = 1 \/ k \in 2 .. Len(s) + 1
    BY <1>1
  <2>4. QED
    BY <2>1, <2>2, <2>3 DEF Injective
<1>3. ASSUME NEW k \in 1 .. Len(s) PROVE s[k] \in InSeq(new)
  <2>1. k + 1 \in 2 .. Len(s) + 1 /\ k + 1 \in DOMAIN new /\ new[k + 1] = s[k]
    BY <1>1
  <2>2. QED
    BY <2>1 DEF InSeq
<1>4. i \in InSeq(new)
  BY <1>1 DEF InSeq
<1>5. ASSUME NEW k \in DOMAIN new PROVE new[k] \in InSeq(s) \cup {i}
  BY <1>1 DEF InSeq
<1>6. InSeq(s) \cup {i} \subseteq InSeq(new)
  BY <1>1, <1>3, <1>4 DEF InSeq
<1>7. InSeq(new) \subseteq InSeq(s) \cup {i}
  BY <1>5 DEF InSeq
<1>8. QED
  BY <1>2, <1>6, <1>7 DEF new

LEMMA BackAdded ==
    ASSUME NEW s \in Seq(Items), NEW i \in Items, Injective(s), i \notin InSeq(s)
    PROVE  Injective(Append(s, i)) /\ InSeq(Append(s, i)) = InSeq(s) \cup {i}
<1> DEFINE new == Append(s, i)
<1>1. /\ Len(s) \in Nat /\ DOMAIN s = 1 .. Len(s)
      /\ DOMAIN new = 1 .. Len(s) + 1 /\ new[Len(s) + 1] = i
      /\ \A k \in 1 .. Len(s) : new[k] = s[k]
  OBVIOUS
<1> HIDE DEF new
<1>2. Injective(new) /\ InSeq(new) = InSeq(s) \cup {i}
  BY <1>1 DEF Injective, InSeq
<1>3. QED
  BY <1>2 DEF new

LEMMA FrontTaken ==
    ASSUME NEW s \in Seq(Items), s # <<>>, Injective(s)
    PROVE  /\ Head(s) \in InSeq(s) /\ Tail(s) \in Seq(Items)
           /\ Injective(Tail(s)) /\ InSeq(Tail(s)) = InSeq(s) \ {Head(s)}
<1> DEFINE new == Tail(s)
<1>1. /\ Len(s) \in Nat \ {0} /\ DOMAIN s = 1 .. Len(s) /\ Head(s) = s[1]
      /\ DOMAIN new = 1 .. Len(s) - 1 /\ new \in Seq(Items)
      /\ \A k \in 1 .. Len(s) - 1 : new[k] = s[k + 1] /\ k + 1 \in 1 .. Len(s)
  OBVIOUS
<1> HIDE DEF new
<1>2. Injective(new)
  <2>1. SUFFICES ASSUME NEW k \in DOMAIN new, NEW l \in DOMAIN new, new[k] = new[l]
                 PROVE  k = l
    BY DEF Injective
  <2>2. k + 1 = l + 1
    BY <1>1, <2>1 DEF Injective
  <2>3. QED
    BY <1>1, <2>2
<1>3. ASSUME NEW k \in DOMAIN s, k # 1 PROVE s[k] \in InSeq(new)
  <2>1. k - 1 \in 1 .. Len(s) - 1 /\ new[k - 1] = s[k]
    BY <1>1, <1>3
  <2>2. QED
    BY <1>1, <2>1 DEF InSeq
<1>4. ASSUME NEW k \in DOMAIN new PROVE new[k] \in InSeq(s) /\ new[k] # s[1]
  <2>1. k + 1 \in DOMAIN s /\ k + 1 # 1 /\ 1 \in DOMAIN s /\ new[k] = s[k + 1]
    BY <1>1
  <2>2. QED
    BY <2>1 DEF InSeq, Injective
<1>5. InSeq(new) = InSeq(s) \ {Head(s)}
  <2>1. ASSUME NEW e \in InSeq(s), e # Head(s) PROVE e \in InSeq(new)
    BY <1>1, <1>3, <2>1 DEF InSeq
  <2>2. ASSUME NEW e \in InSeq(new) PROVE e \in InSeq(s) /\ e # Head(s)
    BY <1>1, <1>4, <2>2 DEF InSeq
  <2>3. QED
    BY <2>1, <2>2
<1>6. Head(s) \in InSeq(s)
  BY <1>1 DEF InSeq
<1>7. QED
  BY <1>1, <1>2, <1>5, <1>6 DEF new

LEMMA BackTaken ==
    ASSUME NEW s \in Seq(Items), s # <<>>, Injective(s)
    PROVE  /\ s[Len(s)] \in InSeq(s) /\ SubSeq(s, 1, Len(s) - 1) \in Seq(Items)
           /\ Injective(SubSeq(s, 1, Len(s) - 1))
           /\ InSeq(SubSeq(s, 1, Len(s) - 1)) = InSeq(s) \ {s[Len(s)]}
<1> DEFINE new == SubSeq(s, 1, Len(s) - 1)
<1>1. /\ Len(s) \in Nat \ {0} /\ DOMAIN s = 1 .. Len(s)
      /\ DOMAIN new = 1 .. Len(s) - 1 /\ new \in Seq(Items)
      /\ \A k \in 1 .. Len(s) - 1 : new[k] = s[k]
  OBVIOUS
<1> HIDE DEF new
<1>2. Injective(new)
  BY <1>1 DEF Injective
<1>3. ASSUME NEW k \in DOMAIN s, k # Len(s) PROVE s[k] \in InSeq(new)
  <2>1. k \in 1 .. Len(s) - 1 /\ new[k] = s[k]
    BY <1>1, <1>3
  <2>2. QED
    BY <1>1, <2>1 DEF InSeq
<1>4. ASSUME NEW k \in DOMAIN new PROVE new[k] \in InSeq(s) /\ new[k] # s[Len(s)]
  <2>1. k \in DOMAIN s /\ k # Len(s) /\ Len(s) \in DOMAIN s /\ new[k] = s[k]
    BY <1>1
  <2>2. QED
    BY <2>1 DEF InSeq, Injective
<1>5. InSeq(new) = InSeq(s) \ {s[Len(s)]}
  <2>1. ASSUME NEW e \in InSeq(s), e # s[Len(s)] PROVE e \in InSeq(new)
    BY <1>1, <1>3, <2>1 DEF InSeq
  <2>2. ASSUME NEW e \in InSeq(new) PROVE e \in InSeq(s) /\ e # s[Len(s)]
    BY <1>1, <1>4, <2>2 DEF InSeq
  <2>3. QED
    BY <2>1, <2>2
<1>6. s[Len(s)] \in InSeq(s)
  BY <1>1 DEF InSeq
<1>7. QED
  BY <1>1, <1>2, <1>5, <1>6 DEF new

LEMMA InitOnce == Init => OnceInv
<1>1. SUFFICES ASSUME Init PROVE OnceInv
  OBVIOUS
<1>2. Holders = {} /\ Content = {} /\ DOMAIN queue = {}
  BY <1>1, DequeAssumption DEF Init, Holders, Content, Pushing
<1>3. InFlight = {} /\ UNION {taken[c] : c \in Consumers} = {}
  BY <1>1, <1>2, InFlightIsHeld DEF Init
<1>4. QED
  BY <1>1, <1>2, <1>3 DEF Init, OnceInv, Once, Injective

(* What moves an item, and nothing else does.                              *)
LEMMA PushOnce ==
    ASSUME SyncInv, DataInv, OnceInv, NEW p \in Threads, PushFront(p) \/ PushBack(p)
    PROVE  OnceInv'
<1>1. p \in Holders /\ item[p] \in Items /\ queue \in Seq(Items)
  BY DequeAssumption DEF SyncInv, Roles, DataInv, DataType, ItemGiven, Holders, PushFront,
                         PushBack, Pushing
<1>2. item[p] \in InFlight /\ item[p] \notin Content
  BY <1>1, InFlightIsHeld DEF OnceInv, Once
<1>3. Injective(queue') /\ Content' = Content \cup {item[p]}
  <2>1. Injective(queue) /\ item[p] \notin InSeq(queue)
    BY <1>2 DEF OnceInv, Content, InSeq
  <2>2. queue' = <<item[p]>> \o queue \/ queue' = Append(queue, item[p])
    BY DEF PushFront, PushBack
  <2>3. Injective(queue') /\ InSeq(queue') = InSeq(queue) \cup {item[p]}
    <3>1. /\ Injective(<<item[p]>> \o queue)
          /\ InSeq(<<item[p]>> \o queue) = InSeq(queue) \cup {item[p]}
      BY <1>1, <2>1, FrontAdded
    <3>2. /\ Injective(Append(queue, item[p]))
          /\ InSeq(Append(queue, item[p])) = InSeq(queue) \cup {item[p]}
      BY <1>1, <2>1, BackAdded
    <3>3. QED
      BY <2>2, <3>1, <3>2
  <2>4. QED
    BY <2>3 DEF Content, InSeq
<1>4. /\ pc' = [pc EXCEPT ![p] = "signal"]
      /\ UNCHANGED <<call, item, unused, taken, dropped>>
  BY DEF PushFront, PushBack, Goto
<1>5. Holders' = Holders \ {p}
  BY <1>4, DequeAssumption DEF Holders, SyncInv, SyncType
<1>6. InFlight' = InFlight \ {item[p]}
  BY <1>1, <1>4, <1>5, InFlightIsHeld DEF OnceInv, InFlight, Holders
<1>7. Once(InFlight', Content')
  BY <1>2, <1>3, <1>6 DEF OnceInv, Once
<1>8. QED
  BY <1>3, <1>4, <1>5, <1>7 DEF OnceInv, Once

LEMMA ClearOnce ==
    ASSUME SyncInv, DataInv, OnceInv, NEW p \in Threads, Clear(p)
    PROVE  OnceInv'
<1>1. /\ pc' = [pc EXCEPT ![p] = "unlock"] /\ call[p] = "clear"
      /\ UNCHANGED <<call, item, unused, taken>>
      /\ queue' = <<>> /\ dropped' = dropped \cup Content
  BY DEF Clear, Goto
<1>2. Holders' = Holders
  BY <1>1, DequeAssumption DEF Holders, SyncInv, SyncType, Pushing
<1>3. InFlight' = InFlight /\ Content' = {} /\ Injective(queue')
  BY <1>1, <1>2, InFlightIsHeld DEF InFlight, Holders, Content, Injective
<1>4. QED
  BY <1>1, <1>2, <1>3 DEF OnceInv, Once

LEMMA TakeOnce ==
    ASSUME SyncInv, DataInv, OnceInv, NEW t \in Threads, PopFront(t) \/ PopBack(t)
    PROVE  OnceInv'
<1>1. t \in Consumers /\ queue # <<>> /\ queue \in Seq(Items)
  BY DequeAssumption DEF SyncInv, Roles, DataInv, DataType, PopFront, PopBack, Take,
                         Retrieving, Popping
<1>2. PICK i \in Content, rest \in Seq(Items) :
         /\ Take(t, i, rest) /\ Injective(rest) /\ InSeq(rest) = Content \ {i}
  BY <1>1, FrontTaken, BackTaken DEF OnceInv, Content, InSeq, PopFront, PopBack
<1>3. /\ queue' = rest /\ item' = [item EXCEPT ![t] = i]
      /\ taken' = [taken EXCEPT ![t] = @ \cup {i}]
      /\ pc' = [pc EXCEPT ![t] = "unlock"] /\ UNCHANGED <<call, unused, dropped>>
  BY <1>2 DEF Take, Goto
<1>4. t \notin Producers
  BY <1>1, DequeAssumption
<1>5. Holders' = Holders /\ \A p \in Holders : item'[p] = item[p]
  BY <1>3, <1>4, DequeAssumption DEF Holders, SyncInv, SyncType, DataInv, DataType
<1>6. InFlight' = InFlight
  BY <1>5, InFlightIsHeld DEF InFlight, Holders
<1>7. Content' = Content \ {i} /\ Injective(queue')
  BY <1>2, <1>3 DEF Content, InSeq
<1>8. \A c \in Consumers : taken'[c] = IF c = t THEN taken[c] \cup {i} ELSE taken[c]
  BY <1>1, <1>3 DEF DataInv, DataType
<1>9. UNION {taken'[c] : c \in Consumers} = {i} \cup UNION {taken[c] : c \in Consumers}
  BY <1>1, <1>8
<1>10. Once(InFlight, Content)'
  <2>1. i \in Content /\ Once(InFlight, Content)
    BY <1>2 DEF OnceInv
  <2>2. UNCHANGED <<unused, dropped>>
    BY <1>3
  <2>3. \A c \in Consumers :
           /\ taken'[c] \cap (Content' \cup dropped \cup InFlight \cup unused) = {}
           /\ \A d \in Consumers \ {c} : taken'[c] \cap taken'[d] = {}
    <3>1. ASSUME NEW c \in Consumers
          PROVE  taken'[c] \cap (Content' \cup dropped \cup InFlight \cup unused) = {}
      <4>1. taken[c] \cap (Content \cup dropped \cup InFlight \cup unused) = {}
        BY <2>1 DEF Once
      <4>2. i \notin Content' \cup dropped \cup InFlight \cup unused
        BY <1>7, <2>1 DEF Once
      <4>3. QED
        BY <1>7, <1>8, <4>1, <4>2
    <3>2. ASSUME NEW c \in Consumers, NEW d \in Consumers \ {c}
          PROVE  taken'[c] \cap taken'[d] = {}
      <4>1. taken[c] \cap taken[d] = {} /\ i \notin taken[c] /\ i \notin taken[d]
        BY <2>1 DEF Once
      <4>2. QED
        BY <1>8, <4>1
    <3>3. QED
      BY <3>1, <3>2
  <2>4. QED
    BY <1>6, <1>7, <1>9, <2>1, <2>2, <2>3 DEF Once
<1>11. QED
  BY <1>5, <1>7, <1>10 DEF OnceInv

LEMMA BeginOnce ==
    ASSUME SyncInv, DataInv, OnceInv, NEW t \in Threads, BeginNext(t)
    PROVE  OnceInv'
<1>1. /\ pc[t] = "idle" /\ pc' = [pc EXCEPT ![t] = "lock"]
      /\ UNCHANGED <<queue, taken, dropped>>
  BY DEF BeginNext, BeginPush, BeginClear, BeginRead, BeginRetrieve, BeginCall, Goto
<1>2. CASE t \in Producers /\ BeginPush(t)
  <2>1. PICK c \in Pushing, i \in unused :
           /\ call' = [call EXCEPT ![t] = c] /\ item' = [item EXCEPT ![t] = i]
           /\ unused' = unused \ {i}
    BY <1>2 DEF BeginPush, BeginCall
  <2>2. /\ Holders' = Holders \cup {t} /\ t \notin Holders
        /\ item'[t] = i /\ \A p \in Holders : item'[p] = item[p]
    BY <1>1, <1>2, <2>1, DequeAssumption
       DEF Holders, SyncInv, SyncType, DataInv, DataType, AllCalls
  <2>3. InFlight' = InFlight \cup {i} /\ Content' = Content
    BY <1>1, <2>2, InFlightIsHeld DEF InFlight, Holders, Content
  <2>4. i \notin InFlight
    BY <2>1 DEF OnceInv, Once
  <2>5. \A p, q \in Holders' : item'[p] = item'[q] => p = q
    BY <2>2, <2>4, InFlightIsHeld DEF OnceInv
  <2>6. QED
    BY <1>1, <2>1, <2>3, <2>5 DEF OnceInv, Once
<1>3. CASE BeginClear(t) \/ BeginRead(t) \/ BeginRetrieve(t)
  <2>1. PICK c \in {"clear", "read"} \cup Retrieving :
           call' = [call EXCEPT ![t] = c] /\ item' = [item EXCEPT ![t] = NoItem]
    BY <1>3 DEF BeginClear, BeginRead, BeginRetrieve, BeginCall
  <2>2. /\ Holders' = Holders /\ unused' = unused
        /\ \A p \in Holders : item'[p] = item[p]
    BY <1>1, <1>3, <2>1, DequeAssumption
       DEF Holders, SyncInv, SyncType, DataInv, DataType, AllCalls, Retrieving, Popping,
           Pushing, BeginClear, BeginRead, BeginRetrieve
  <2>3. InFlight' = InFlight /\ Content' = Content
    BY <1>1, <2>2, InFlightIsHeld DEF InFlight, Holders, Content
  <2>4. QED
    BY <1>1, <2>2, <2>3 DEF OnceInv, Once
<1>4. QED
  BY <1>2, <1>3 DEF BeginNext

(* The other steps move no item.                                           *)
LEMMA QuietOnce ==
    ASSUME SyncInv, DataInv, OnceInv, UNCHANGED <<queue, item, unused, taken, dropped>>,
           Holders' = Holders
    PROVE  OnceInv'
<1>1. InFlight' = InFlight /\ Content' = Content
  BY InFlightIsHeld DEF InFlight, Holders, Content
<1>2. QED
  BY <1>1 DEF OnceInv, Once

LEMMA NextOnce == SyncInv /\ DataInv /\ OnceInv /\ [Next]_vars => OnceInv'
<1>1. SUFFICES ASSUME SyncInv, DataInv, OnceInv, [Next]_vars PROVE OnceInv'
  OBVIOUS
<1> USE DequeAssumption
<1>2. CASE UNCHANGED vars
  BY <1>1, <1>2, QuietOnce DEF vars, Holders
<1>3. ASSUME NEW t \in Threads, EffectNext(t) PROVE OnceInv'
  <2>1. CASE Read(t) \/ FoundNotEmpty(t)
    <3>1. /\ pc' = [pc EXCEPT ![t] = "unlock"] /\ call[t] \notin Pushing
          /\ UNCHANGED <<call, queue, item, unused, taken, dropped>>
      BY <2>1 DEF Read, FoundNotEmpty, Goto, Pushing
    <3>2. Holders' = Holders
      BY <1>1, <3>1 DEF Holders, SyncInv, SyncType
    <3>3. QED
      BY <1>1, <3>1, <3>2, QuietOnce
  <2>2. QED
    BY <1>1, <1>3, <2>1, PushOnce, ClearOnce, TakeOnce DEF EffectNext
<1>4. ASSUME NEW t \in Threads, SyncNext(t) \/ Spurious(t) PROVE OnceInv'
  <2>1. UNCHANGED <<queue, item, unused, taken, dropped>>
    BY <1>4 DEF SyncNext, Spurious, Lock, Unlock, SignalNotEmpty, Signalled, WaitNotEmpty,
                dequeVars
  <2>2. Holders' = Holders
    <3> USE DEF Holders, SyncInv, SyncType, Roles, Waiting, Goto
    <3>1. CASE Lock(t) \/ Unlock(t)
      BY <1>1, <3>1 DEF Lock, Unlock, LockMutex, UnlockMutex, dequeVars, Pushing
    <3>2. CASE SignalNotEmpty(t) /\ Signal(t)
      BY <1>1, <3>2 DEF SignalNotEmpty, Signal, SetReady, dequeVars
    <3>3. CASE SignalNotEmpty(t) /\ NotifyOne(t)
      <4>1. pc[t] = "notify_one" /\ UNCHANGED call
        BY <3>3 DEF SignalNotEmpty, NotifyOne, Signal, SetReady, dequeVars
      <4>2. CASE pc' = [pc EXCEPT ![t] = "signalled"]
        BY <1>1, <4>1, <4>2
      <4>3. ASSUME NEW w \in Threads, pc[w] \in Sleeping,
                   pc' = [pc EXCEPT ![t] = "signalled", ![w] = Awoken(pc[w])]
            PROVE  Holders' = Holders
        BY <1>1, <4>1, <4>3 DEF Sleeping, Awoken
      <4>4. QED
        BY <3>3, <4>1, <4>2, <4>3 DEF NotifyOne
    <3>4. CASE Signalled(t)
      BY <1>1, <3>4 DEF Signalled
    <3>5. CASE WaitNotEmpty(t)
      BY <1>1, <3>5 DEF WaitNotEmpty, EnterWait, UnlockMutex, dequeVars, Retrieving, Popping, Pushing
    <3>6. CASE (Proceed(t) \/ FallAsleep(t) \/ Relock(t)) /\ UNCHANGED dequeVars
      <4>1. t \notin Producers
        BY <1>1, <3>6 DEF Proceed, FallAsleep, Relock, LockMutex, Checking, dequeVars, DequePC, Critical
      <4>2. QED
        BY <1>1, <3>6, <4>1 DEF Proceed, FallAsleep, Relock, LockMutex, dequeVars
    <3>7. CASE Spurious(t)
      BY <1>1, <3>7 DEF Spurious, SpuriousWakeup, Sleeping, Awoken, dequeVars
    <3>8. QED
      BY <1>4, <3>1, <3>2, <3>3, <3>4, <3>5, <3>6, <3>7 DEF SyncNext, SignalNotEmpty
  <2>3. QED
    BY <1>1, <2>1, <2>2, QuietOnce
<1>5. QED
  BY <1>1, <1>2, <1>3, <1>4, BeginOnce DEF Next, Step

(* No item is lost or handed out twice, for any number of producers,       *)
(* consumers and items, whatever clear() throws away (SGQueue.hxx:293-412).*)
THEOREM DequeExactlyOnce == Spec => []ExactlyOnce
<1>1. OnceInv => ExactlyOnce
  BY DEF OnceInv, Once, Injective, ExactlyOnce
<1>2. QED
  BY <1>1, InitSync, NextSync, InitData, NextData, InitOnce, NextOnce, PTL DEF Spec
-----------------------------------------------------------------------------
(* The deque implements the atomic one, step for step.                     *)

(* A thread is in a call from its beginning to its return.                 *)
InCall == \A t \in Threads : pc[t] = "idle" <=> call[t] = "none"

Effected == {"signal", "notify_one", "signalled", "unlock"}
Done == [t \in Threads |-> pc[t] \in Effected]

LEMMA InitImplements == Init => Abstract!Init /\ InCall
<1>1. SUFFICES ASSUME Init PROVE Abstract!Init /\ InCall
  OBVIOUS
<1>2. Done = [t \in Threads |-> FALSE]
  <2>1. \A t \in Threads : pc[t] = "idle"
    BY <1>1 DEF Init
  <2>2. \A t \in Threads : ~(pc[t] \in Effected)
    BY <2>1 DEF Effected
  <2>3. ASSUME NEW t \in Threads PROVE (pc[t] \in Effected) = FALSE
    <3>1. ~(pc[t] \in Effected)
      BY <2>2
    <3>2. QED
      BY <3>1
  <2>4. QED
    BY <2>3, Zenon DEF Done
<1>3. QED
  BY <1>1, <1>2 DEF Init, Abstract!Init, InCall, Done, Effected

(* A step that moves a thread between two positions on the same side of    *)
(* its effect is none of the atomic deque.                                 *)
LEMMA Stutters ==
    ASSUME UNCHANGED <<queue, call, item>>,
           \A t \in Threads : pc'[t] \in Effected <=> pc[t] \in Effected,
           \A t \in Threads : pc'[t] = "idle" <=> pc[t] = "idle",
           InCall
    PROVE  InCall' /\ UNCHANGED Abstract!vars
<1>1. Done' = Done
  BY DEF Done
<1>2. QED
  BY <1>1 DEF InCall, Abstract!vars, Done, Effected

LEMMA BeginImplements ==
    ASSUME SyncInv, DataInv, InCall, NEW t \in Threads, BeginNext(t)
    PROVE  InCall' /\ Abstract!Begin(t)
<1>1. PICK c \in AllCalls \ {"none"}, i \in Items \cup {NoItem} :
         /\ c \in Pushing <=> i # NoItem
         /\ BeginCall(t, c, i)
  BY DequeAssumption DEF BeginNext, BeginPush, BeginClear, BeginRead, BeginRetrieve,
                         AllCalls, Pushing, Retrieving, Popping, DataInv, DataType
<1>2. /\ pc[t] = "idle" /\ pc' = [pc EXCEPT ![t] = "lock"]
      /\ call' = [call EXCEPT ![t] = c] /\ item' = [item EXCEPT ![t] = i] /\ queue' = queue
  BY <1>1 DEF BeginCall, Goto
<1>3. InCall' /\ Done' = Done /\ call[t] = "none"
  BY <1>1, <1>2 DEF SyncInv, SyncType, InCall, Done, Effected
<1>4. c \in Abstract!Calls /\ (c \in Abstract!Pushing <=> i # NoItem)
  BY <1>1 DEF AllCalls, Pushing, Retrieving, Popping, Abstract!Calls, Abstract!Pushing,
              Abstract!Retrieving, Abstract!Popping
<1>5. QED
  BY <1>2, <1>3, <1>4 DEF Abstract!Begin, Done, Effected

LEMMA EffectImplements ==
    ASSUME SyncInv, DataInv, InCall, NEW t \in Threads, EffectNext(t)
    PROVE  InCall' /\ Abstract!Effect(t)
<1>1. PICK l \in Effected : pc[t] = "locked" /\ pc' = [pc EXCEPT ![t] = l] /\ call' = call
  BY DEF EffectNext, PushFront, PushBack, Clear, Read, PopFront, PopBack, FoundNotEmpty,
         Take, Goto, Effected
<1>2. InCall' /\ call[t] # "none" /\ ~Done[t] /\ Done' = [Done EXCEPT ![t] = TRUE]
  BY <1>1 DEF SyncInv, SyncType, InCall, Done, Effected
<1>3. call[t] \in Abstract!Retrieving => queue # <<>>
  BY DEF EffectNext, PushFront, PushBack, Clear, Read, PopFront, PopBack, FoundNotEmpty,
         Take, Abstract!Retrieving, Abstract!Popping
<1>4. /\ queue' = CASE call[t] = "push_front" -> <<item[t]>> \o queue
                    [] call[t] = "push_back"  -> Append(queue, item[t])
                    [] call[t] = "pop_front"  -> Tail(queue)
                    [] call[t] = "pop_back"   -> SubSeq(queue, 1, Len(queue) - 1)
                    [] call[t] = "clear"      -> <<>>
                    [] OTHER                  -> queue
      /\ item' = CASE call[t] = "pop_front" -> [item EXCEPT ![t] = Head(queue)]
                   [] call[t] = "pop_back"  -> [item EXCEPT ![t] = queue[Len(queue)]]
                   [] OTHER                 -> item
  <2>1. CASE PushFront(t)
    BY <2>1 DEF PushFront
  <2>2. CASE PushBack(t)
    BY <2>2 DEF PushBack
  <2>3. CASE Clear(t)
    BY <2>3 DEF Clear
  <2>4. CASE Read(t) \/ FoundNotEmpty(t)
    BY <2>4 DEF Read, FoundNotEmpty
  <2>5. CASE PopFront(t)
    BY <2>5 DEF PopFront, Take
  <2>6. CASE PopBack(t)
    BY <2>6 DEF PopBack, Take
  <2>7. QED
    BY <2>1, <2>2, <2>3, <2>4, <2>5, <2>6 DEF EffectNext
<1>5. QED
  BY <1>1, <1>2, <1>3, <1>4 DEF Abstract!Effect, Done, Effected

LEMMA UnlockImplements ==
    ASSUME SyncInv, DataInv, InCall, NEW t \in Threads, Unlock(t)
    PROVE  InCall' /\ Abstract!Return(t)
<1>1. /\ pc[t] = "unlock" /\ pc' = [pc EXCEPT ![t] = "idle"]
      /\ call' = [call EXCEPT ![t] = "none"] /\ UNCHANGED <<queue, item>>
  BY DEF Unlock, UnlockMutex, Goto
<1>2. InCall' /\ Done[t] /\ Done' = [Done EXCEPT ![t] = FALSE]
  <2>1. \A u \in Threads : /\ pc'[u] = IF u = t THEN "idle" ELSE pc[u]
                           /\ call'[u] = IF u = t THEN "none" ELSE call[u]
    BY <1>1 DEF SyncInv, SyncType
  <2>2. InCall'
    BY <2>1 DEF InCall
  <2>3. Done[t]
    BY <1>1 DEF Done, Effected
  <2>4. Done' = [Done EXCEPT ![t] = FALSE]
    <3>1. \A u \in Threads : pc'[u] \in Effected <=> u # t /\ pc[u] \in Effected
      BY <2>1 DEF Effected
    <3>2. Done \in [Threads -> BOOLEAN] /\ Done' \in [Threads -> BOOLEAN]
      BY DEF Done
    <3>3. \A u \in Threads : Done'[u] <=> u # t /\ Done[u]
      BY <3>1 DEF Done
    <3>4. QED
      BY <3>2, <3>3
  <2>5. QED
    BY <2>2, <2>3, <2>4
<1>3. QED
  BY <1>1, <1>2 DEF Abstract!Return, Done, Effected

LEMMA SyncImplements ==
    ASSUME SyncInv, DataInv, InCall, NEW t \in Threads,
           (SyncNext(t) /\ ~Unlock(t)) \/ Spurious(t)
    PROVE  InCall' /\ UNCHANGED Abstract!vars
<1>1. UNCHANGED <<queue, call, item>>
  BY DEF SyncNext, Spurious, Lock, SignalNotEmpty, Signalled, WaitNotEmpty, dequeVars
<1>2. pc \in [Threads -> DequePC]
  BY DEF SyncInv, SyncType
<1>3. \A u \in Threads : /\ pc'[u] \in Effected <=> pc[u] \in Effected
                         /\ pc'[u] = "idle" <=> pc[u] = "idle"
  <2> USE DEF Effected, Goto
  <2>1. CASE Lock(t) \/ Signalled(t) \/ WaitNotEmpty(t)
    BY <1>2, <2>1 DEF Lock, LockMutex, Signalled, WaitNotEmpty, EnterWait, UnlockMutex
  <2>2. CASE Signal(t)
    BY <1>2, <2>2 DEF Signal, SetReady
  <2>3. CASE NotifyOne(t)
    <3>1. pc[t] = "notify_one"
      BY <2>3 DEF NotifyOne
    <3>2. CASE pc' = [pc EXCEPT ![t] = "signalled"]
      BY <1>2, <3>1, <3>2
    <3>3. ASSUME NEW w \in Threads, pc[w] \in Sleeping,
                 pc' = [pc EXCEPT ![t] = "signalled", ![w] = Awoken(pc[w])]
          PROVE  \A u \in Threads : /\ pc'[u] \in Effected <=> pc[u] \in Effected
                                    /\ pc'[u] = "idle" <=> pc[u] = "idle"
      BY <1>2, <3>1, <3>3 DEF Sleeping, Awoken
    <3>4. QED
      BY <2>3, <3>2, <3>3 DEF NotifyOne
  <2>4. CASE Proceed(t) \/ FallAsleep(t) \/ Relock(t)
    BY <1>2, <2>4 DEF Proceed, FallAsleep, Relock, LockMutex, Checking
  <2>5. CASE Spurious(t)
    BY <1>2, <2>5 DEF Spurious, SpuriousWakeup, Sleeping, Awoken
  <2>6. QED
    BY <2>1, <2>2, <2>3, <2>4, <2>5 DEF SyncNext, SignalNotEmpty
<1>4. QED
  BY <1>1, <1>3, Stutters

LEMMA NextImplements ==
    SyncInv /\ DataInv /\ InCall /\ [Next]_vars => InCall' /\ [Abstract!Next]_(Abstract!vars)
<1>1. SUFFICES ASSUME SyncInv, DataInv, InCall, [Next]_vars
               PROVE  InCall' /\ [Abstract!Next]_(Abstract!vars)
  OBVIOUS
<1>2. CASE UNCHANGED vars
  BY <1>1, <1>2, Stutters DEF vars
<1>3. ASSUME NEW t \in Threads, BeginNext(t) \/ Step(t) \/ Spurious(t)
      PROVE  InCall' /\ (Abstract!Begin(t) \/ Abstract!Effect(t) \/ Abstract!Return(t)
                            \/ UNCHANGED Abstract!vars)
  BY <1>1, <1>3, BeginImplements, EffectImplements, UnlockImplements, SyncImplements DEF Step
<1>4. QED
  BY <1>1, <1>2, <1>3 DEF Next, Abstract!Next

(* Every call takes effect at one instant between its beginning and its    *)
(* return, for any threads: the steps of the deque are those of the atomic *)
(* one, or change nothing of it (SGQueue.hxx:293-412).  That the calls     *)
(* come to an end is left to the model checker.                            *)
THEOREM DequeImplementsAtomicSteps ==
    Spec => Abstract!Init /\ [][Abstract!Next]_(Abstract!vars)
BY InitImplements, NextImplements, InitSync, NextSync, InitData, NextData, PTL DEF Spec
-----------------------------------------------------------------------------
(* The condition by itself, for any number of threads that wait and signal *)
(* in any way: no waiter sleeps through a signal.                          *)
UseInv == UseTypeOK /\ WakeupInFlight

(* A step of a thread that leaves the flag alone or lets it down, and does *)
(* not go to sleep past it.                                                *)
LEMMA MovesOn ==
    ASSUME UseTypeOK, WakeupInFlight, NEW t \in Threads, NEW l \in UsePC, Goto(t, l),
           ready' => ready,
           ready' => l \notin Sleeping,
           pc[t] \in Checking \cup Notifying => ~ready' \/ l \in Checking \cup Notifying
    PROVE  pc' \in [Threads -> UsePC] /\ WakeupInFlight'
<1>1. pc' \in [Threads -> UsePC] /\ \A u \in Threads : pc'[u] = IF u = t THEN l ELSE pc[u]
  BY DEF UseTypeOK, Goto
<1>2. ASSUME ready', NEW w \in Threads, pc'[w] \in Sleeping
      PROVE  \E u \in Threads : pc'[u] \in Notifying \cup Checking
  <2>1. ready /\ pc[w] \in Sleeping
    BY <1>1, <1>2
  <2>2. PICK u \in Threads : pc[u] \in Notifying \cup Checking
    BY <2>1 DEF WakeupInFlight
  <2>3. pc'[u] \in Notifying \cup Checking
    BY <1>1, <1>2, <2>2
  <2>4. QED
    BY <2>3
<1>3. QED
  BY <1>1, <1>2 DEF WakeupInFlight

LEMMA InitUse == UseInit => UseInv
<1>1. SUFFICES ASSUME UseInit PROVE UseInv
  OBVIOUS
<1>2. UseTypeOK
  BY <1>1 DEF UseInit, UseTypeOK, UsePC
<1>3. WakeupInFlight
  BY <1>1 DEF UseInit, WakeupInFlight
<1>4. QED
  BY <1>2, <1>3 DEF UseInv

(* The steps of a waiter.                                                  *)
LEMMA WaiterKeeps == ASSUME UseInv, NEW w \in Waiters, WaiterNext(w) PROVE UseInv'
<1> USE DEF UsePC, CondPC, Checking, Sleeping, Notifying
<1>1. w \in Threads /\ UseTypeOK /\ WakeupInFlight
  BY UseAssumption DEF UseInv
<1>2. CASE Acquire(w) \/ Release(w) \/ Wait(w)
  <2>1. PICK l \in {"locked", "idle", "check", "check_timed"} :
           /\ Goto(w, l) /\ pc[w] \in {"idle", "locked"}
           /\ owner' \in {w, NoThread} /\ UNCHANGED <<ready, signals>>
    BY <1>2 DEF Acquire, Release, Wait, EnterWait, EnterTimedWait, LockMutex, UnlockMutex
  <2>2. pc' \in [Threads -> UsePC] /\ WakeupInFlight'
    BY <1>1, <2>1, MovesOn
  <2>3. QED
    BY <2>1, <2>2 DEF UseInv, UseTypeOK
<1>3. CASE Consume(w)
  <2>1. Goto(w, "relock") /\ ready /\ ~ready' /\ UNCHANGED <<owner, signals>>
    BY <1>3 DEF Consume, Proceed
  <2>2. pc' \in [Threads -> UsePC] /\ WakeupInFlight'
    BY <1>1, <2>1, MovesOn
  <2>3. ready' \in BOOLEAN
    BY <1>3 DEF Consume, Proceed
  <2>4. QED
    BY <2>1, <2>2, <2>3 DEF UseInv, UseTypeOK
<1>4. CASE Sleep(w)
  <2>1. CASE FallAsleep(w) /\ UNCHANGED signals
    <3>1. PICK l \in {"asleep", "asleep_timed"} : Goto(w, l) /\ ~ready /\ UNCHANGED <<owner, ready>>
      BY <2>1 DEF FallAsleep
    <3>2. pc' \in [Threads -> UsePC] /\ WakeupInFlight'
      BY <1>1, <3>1, MovesOn
    <3>3. QED
      BY <2>1, <3>1, <3>2 DEF UseInv, UseTypeOK
  <2>2. CASE TimeOut(w) /\ UNCHANGED signals
    <3>1. Goto(w, "relock") /\ ready' = FALSE /\ owner' = owner
      BY <2>2 DEF TimeOut
    <3>2. pc' \in [Threads -> UsePC] /\ WakeupInFlight'
      BY <1>1, <3>1, MovesOn
    <3>3. QED
      BY <2>2, <3>1, <3>2 DEF UseInv, UseTypeOK
  <2>3. CASE Relock(w) /\ UNCHANGED signals
    <3>1. Goto(w, "locked") /\ pc[w] = "relock" /\ owner' = w /\ ready' = ready
      BY <2>3 DEF Relock, LockMutex
    <3>2. pc' \in [Threads -> UsePC] /\ WakeupInFlight'
      BY <1>1, <3>1, MovesOn
    <3>3. QED
      BY <2>3, <3>1, <3>2 DEF UseInv, UseTypeOK
  <2>4. QED
    BY <1>4, <2>1, <2>2, <2>3 DEF Sleep
<1>5. CASE WakeSpuriously(w)
  <2>1. PICK l \in {"check", "check_timed"} : Goto(w, l) /\ UNCHANGED <<owner, ready, signals>>
    BY <1>5 DEF WakeSpuriously, SpuriousWakeup, Awoken
  <2>2. pc' \in [Threads -> UsePC] /\ WakeupInFlight'
    BY <1>1, <2>1, MovesOn
  <2>3. QED
    BY <2>1, <2>2 DEF UseInv, UseTypeOK
<1>6. QED
  BY <1>2, <1>3, <1>4, <1>5 DEF WaiterNext

(* The steps of a signaller.  One that raises the flag goes on to notify;  *)
(* a notify leaves nobody asleep, or a waiter that looks at the flag.      *)
LEMMA SignallerKeeps == ASSUME UseInv, NEW s \in Signallers, SignallerNext(s) PROVE UseInv'
<1> USE DEF UsePC, CondPC, Checking, Sleeping, Notifying
<1>1. s \in Threads /\ UseTypeOK /\ WakeupInFlight
  BY UseAssumption DEF UseInv
<1>2. CASE CallSignal(s) \/ Return(s)
  <2>1. PICK l \in {"signal", "broadcast", "idle"} :
           /\ Goto(s, l) /\ pc[s] \in {"idle", "signalled"}
           /\ UNCHANGED <<owner, ready, signals>>
    BY <1>2 DEF CallSignal, Return
  <2>2. pc' \in [Threads -> UsePC] /\ WakeupInFlight'
    BY <1>1, <2>1, MovesOn
  <2>3. QED
    BY <2>1, <2>2 DEF UseInv, UseTypeOK
<1>3. CASE SetFlag(s)
  <2>1. PICK notify \in {"notify_one", "notify_all"} :
           /\ pc[s] \in {"signal", "broadcast"} /\ ready' = TRUE
           /\ Goto(s, IF ready THEN "signalled" ELSE notify)
           /\ owner' = owner /\ signals' = signals + 1
    BY <1>3 DEF SetFlag, Signal, Broadcast, SetReady
  <2>2. pc' \in [Threads -> UsePC] /\ WakeupInFlight'
    <3>1. CASE ready
      <4>1. Goto(s, "signalled")
        BY <2>1, <3>1
      <4>2. QED
        BY <1>1, <2>1, <3>1, <4>1, MovesOn
    <3>2. CASE ~ready
      <4>1. pc' \in [Threads -> UsePC] /\ pc'[s] = notify
        BY <1>1, <2>1, <3>2 DEF Goto, UseTypeOK
      <4>2. QED
        BY <1>1, <4>1 DEF WakeupInFlight
    <3>3. QED
      BY <3>1, <3>2
  <2>3. QED
    BY <2>1, <2>2 DEF UseInv, UseTypeOK
<1>4. CASE Notify(s)
  <2>1. UNCHANGED <<owner, ready, signals>>
    BY <1>4 DEF Notify, NotifyOne, NotifyAll
  <2>2. pc' \in [Threads -> UsePC] /\ WakeupInFlight'
    <3>1. CASE Goto(s, "signalled") /\ \A w \in Threads : pc[w] \notin Sleeping
      BY <1>1, <3>1 DEF Goto, UseTypeOK, WakeupInFlight
    <3>2. ASSUME NEW w \in Threads, pc[w] \in Sleeping, pc[s] \notin Sleeping,
                 pc' = [pc EXCEPT ![s] = "signalled", ![w] = Awoken(pc[w])]
          PROVE  pc' \in [Threads -> UsePC] /\ WakeupInFlight'
      <4>1. Awoken(pc[w]) \in Checking
        BY <3>2 DEF Awoken
      <4>2. pc' \in [Threads -> UsePC] /\ pc'[w] \in Checking
        BY <1>1, <3>2, <4>1 DEF UseTypeOK
      <4>3. QED
        BY <4>2 DEF WakeupInFlight
    <3>3. CASE NotifyAll(s)
      <4>1. \A l \in UsePC : Awoken(l) \in UsePC /\ Awoken(l) \notin Sleeping
        BY DEF Awoken
      <4>2. pc' = [w \in Threads |-> IF w = s THEN "signalled" ELSE Awoken(pc[w])]
        BY <3>3 DEF NotifyAll
      <4>3. pc' \in [Threads -> UsePC] /\ \A w \in Threads : pc'[w] \notin Sleeping
        BY <1>1, <4>1, <4>2 DEF UseTypeOK
      <4>4. QED
        BY <4>3 DEF WakeupInFlight
    <3>4. QED
      BY <1>4, <3>1, <3>2, <3>3 DEF Notify, NotifyOne
  <2>3. QED
    BY <2>1, <2>2 DEF UseInv, UseTypeOK
<1>5. QED
  BY <1>2, <1>3, <1>4 DEF SignallerNext

LEMMA UseInvAlways == UseSpec => []UseInv
<1>1. UseInv /\ UNCHANGED useVars => UseInv'
  BY DEF UseInv, UseTypeOK, WakeupInFlight, useVars
<1>2. UseInv /\ [UseNext]_useVars => UseInv'
  BY <1>1, WaiterKeeps, SignallerKeeps DEF UseNext
<1>3. QED
  BY <1>2, InitUse, PTL DEF UseSpec

(* Every variable keeps its type.                                          *)
THEOREM UseTypeCorrect == UseSpec => []UseTypeOK
<1>1. UseInv => UseTypeOK
  BY DEF UseInv
<1>2. QED
  BY <1>1, UseInvAlways, PTL

(* While the flag is up no waiter sleeps for whom nothing is on its way,   *)
(* although signal() skips the notify when the flag was up already.        *)
THEOREM NobodySleepsThroughASignal == UseSpec => []NoSleepThroughSignal
<1>1. UseInv => NoSleepThroughSignal
  BY DEF UseInv, NoSleepThroughSignal
<1>2. QED
  BY <1>1, UseInvAlways, PTL

-----------------------------------------------------------------------------
(* The exclusive thread.  At most one of the two flags is up, and a frame  *)
(* that has waited for the thread finds its work given back and hands none *)
(* over before it ends.                                                    *)
OneFlag == ~(dataReady /\ complete)

AloneAtRest == alone => main = "idle" /\ complete

ExclusiveInv ==
    /\ ExclusiveTypeOK /\ FlagsTakeTurns /\ NoSleepThroughChange
    /\ OneFlag /\ AloneAtRest

LEMMA InitExclusive == ExclusiveInit => ExclusiveInv
  BY DEF ExclusiveInit, ExclusiveInv, ExclusiveTypeOK, FlagsTakeTurns, NoSleepThroughChange,
         OneFlag, AloneAtRest, MainPC, WorkerPC

LEMMA NextExclusive == ExclusiveInv /\ [ExclusiveNext]_exclusiveVars => ExclusiveInv'
<1> SUFFICES ASSUME ExclusiveInv, [ExclusiveNext]_exclusiveVars PROVE ExclusiveInv'
  OBVIOUS
<1> USE DEF ExclusiveInv, ExclusiveTypeOK, FlagsTakeTurns, NoSleepThroughChange, OneFlag,
            AloneAtRest, MainPC, WorkerPC, config, flags, life, exclusiveVars
<1>1. CASE UNCHANGED exclusiveVars
  BY <1>1
<1>2. CASE Notification
  <2>1. CASE Started
    <3>1. own' \in BOOLEAN /\ base' \in BOOLEAN
      BY <2>1 DEF Started, EnsureRunning
    <3>2. worker' \in {worker, "starting"}
      BY <2>1 DEF Started, EnsureRunning
    <3> QED BY <2>1, <3>1, <3>2 DEF Started, Notified
  <2>2. CASE Begin
    <3>1. alone' \in BOOLEAN
      BY <2>2 DEF Begin
    <3> QED BY <2>2, <3>1 DEF Begin, Notified
  <2>3. CASE End
    <3>1. alone' \in BOOLEAN
      BY <2>3 DEF End
    <3> QED BY <2>3, <3>1 DEF End, Notified
  <2>4. CASE Stopped
    BY <2>4 DEF Stopped, Terminate, Notified
  <2>5. CASE Configure
    BY <2>5 DEF Configure
  <2> QED BY <1>2, <2>1, <2>2, <2>3, <2>4, <2>5 DEF Notification
<1>3. CASE MainStep
  <2>1. CASE ReleaseNotFinished
    BY <2>1 DEF ReleaseNotFinished, MainGoes
  <2>2. CASE ReleaseBegins
    BY <2>2 DEF ReleaseBegins, MainGoes
  <2>3. CASE ReleaseComplete
    <3>1. complete' \in BOOLEAN
      BY <2>3 DEF ReleaseComplete
    <3> QED BY <2>3, <3>1 DEF ReleaseComplete, MainGoes
  <2>4. CASE ReleaseData
    BY <2>4 DEF ReleaseData, MainGoes
  <2>5. CASE AwaitReturns
    BY <2>5 DEF AwaitReturns, MainGoes, CMutexFree
  <2>6. CASE AwaitSleeps
    BY <2>6 DEF AwaitSleeps, MainGoes, CMutexFree
  <2>7. CASE Join
    <3>1. base' \in BOOLEAN
      BY <2>7 DEF Join
    <3> QED BY <2>7, <3>1 DEF Join, MainGoes
  <2> QED BY <1>3, <2>1, <2>2, <2>3, <2>4, <2>5, <2>6, <2>7 DEF MainStep
<1>4. CASE WorkerStep
  <2>1. CASE RunBegins
    BY <2>1 DEF RunBegins, GoWorker
  <2>2. CASE LoopGoesOn
    BY <2>2 DEF LoopGoesOn, GoWorker
  <2>3. CASE WaitReturns
    BY <2>3 DEF WaitReturns, GoWorker, MutexFree
  <2>4. CASE WaitSleeps
    BY <2>4 DEF WaitSleeps, GoWorker, MutexFree
  <2>5. CASE ProcessEnds
    <3>1. dataReady' \in BOOLEAN
      BY <2>5 DEF ProcessEnds
    <3> QED BY <2>5, <3>1 DEF ProcessEnds, GoWorker
  <2>6. CASE SetCompletion
    BY <2>6 DEF SetCompletion, GoWorker
  <2>7. CASE RunStops
    <3>1. processRunning' \in BOOLEAN
      BY <2>7 DEF RunStops
    <3> QED BY <2>7, <3>1 DEF RunStops, GoWorker
  <2>8. CASE ResetTerminated
    <3>1. terminated' \in BOOLEAN
      BY <2>8 DEF ResetTerminated
    <3> QED BY <2>8, <3>1 DEF ResetTerminated, GoWorker
  <2>9. CASE ResetStarted
    <3>1. own' \in BOOLEAN
      BY <2>9 DEF ResetStarted
    <3> QED BY <2>9, <3>1 DEF ResetStarted, GoWorker
  <2> QED BY <1>4, <2>1, <2>2, <2>3, <2>4, <2>5, <2>6, <2>7, <2>8, <2>9 DEF WorkerStep
<1>5. CASE WakeSpontaneously
  BY <1>5 DEF WakeSpontaneously
<1> QED BY <1>1, <1>2, <1>3, <1>4, <1>5 DEF ExclusiveNext

(* The exclusive thread keeps its types (SGThread.cxx:178-268).            *)
THEOREM ExclusiveTypesHold == ExclusiveSpec => []ExclusiveTypeOK
<1>1. ExclusiveInv => ExclusiveTypeOK
  BY DEF ExclusiveInv
<1> QED BY <1>1, InitExclusive, NextExclusive, PTL DEF ExclusiveSpec

(* Neither the main loop nor the thread sleeps through the change it waits *)
(* for, although complete and dataReady are written under two different    *)
(* mutexes and in any order of notifications (SGThread.cxx:189-238).       *)
THEOREM ExclusiveNoSleepThroughChange == ExclusiveSpec => []NoSleepThroughChange
<1>1. ExclusiveInv => NoSleepThroughChange
  BY DEF ExclusiveInv
<1> QED BY <1>1, InitExclusive, NextExclusive, PTL DEF ExclusiveSpec

(* A frame that has waited for the thread shares its time with no work,    *)
(* neither its own nor what terminate() has left behind                    *)
(* (SGThread.cxx:214-256).                                                 *)
THEOREM ExclusiveAwaitedFrameIsAlone == ExclusiveSpec => []AwaitedFrameIsAlone
<1>1. ExclusiveInv => AwaitedFrameIsAlone
  BY DEF ExclusiveInv, AloneAtRest, FlagsTakeTurns, AwaitedFrameIsAlone
<1> QED BY <1>1, InitExclusive, NextExclusive, PTL DEF ExclusiveSpec
=============================================================================
