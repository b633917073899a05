-------------------------- MODULE TerraSync_proofs --------------------------
(***************************************************************************)
(* Theorems about TerraSync, for every set of directories and every bound: *)
(* the handshake of stop() and the worker, the clean start, the types,     *)
(* that requests are accounted for, that the worker sleeps without work.   *)
(*                                                                         *)
(* The handshake needs nothing of the items; its invariant comes first and *)
(* the types of the data follow under it; the rest needs both.             *)
(***************************************************************************)
EXTENDS TerraSync, TLAPS, SequenceTheorems, FiniteSetTheorems, FunctionTheorems

ControlType ==
    /\ main \in MainPC
    /\ caller \in {"idle", "errors"}
    /\ after \in {"idle", "errors", "start", "back_off", "deleted"}
    /\ started \in BOOLEAN /\ running \in BOOLEAN /\ stop \in BOOLEAN
    /\ worker \in WorkerPC

(* drainWaitingTiles holds an item only between its two calls.             *)
HandsEmpty == worker # "place" => next = Stop

ControlInv == ControlType /\ StopHandshake /\ HandsEmpty /\ StartsClean

LEMMA InitControl == Init => ControlInv
  BY DEF Init, ControlInv, ControlType, StopHandshake, HandsEmpty, StartsClean, MainPC,
         WorkerPC, Live

(* The steps of the main thread that leave the worker alone.               *)
LEMMA MainControl == ControlInv /\ (Update \/ RetryTimePasses \/ Call \/ MainStep) => ControlInv'
<1> SUFFICES ASSUME ControlInv, Update \/ RetryTimePasses \/ Call \/ MainStep
             PROVE  ControlInv'
    OBVIOUS
<1> USE DEF ControlInv, ControlType, StopHandshake, HandsEmpty, StartsClean, MainPC, WorkerPC,
            Live, GoMain, control, state, items, workerLocal, mainLocal, env
<1>1. CASE Update \/ RetryTimePasses \/ Call
  BY <1>1 DEF Update, RetryTimePasses, Call, Toggle, CallReinit, Shutdown, Delete,
              CallStop, CallRequest
<1>2. CASE ReinitRunning \/ ReinitStop \/ StartRefused \/ StartAllowed
  BY <1>2 DEF ReinitRunning, ReinitStop, StartRefused, StartAllowed
<1>3. CASE StartThread
  BY <1>3 DEF StartThread, ResetState
<1>4. CASE StartNoThread
  BY <1>4 DEF StartNoThread, ResetState
<1>5. CASE RequestAirports \/ RequestModels \/ Request
  BY <1>5 DEF RequestAirports, RequestModels, Request
<1>6. CASE StopClear \/ StopNotRunning \/ StopPush
  BY <1>6 DEF StopClear, StopNotRunning, StopPush
<1>7. CASE StopRunning
  BY <1>7 DEF StopRunning
<1>8. CASE Join
  BY <1>8 DEF Join
<1>9. CASE TooManyErrors \/ BackOff \/ FewErrors \/ PopFresh
  BY <1>9 DEF TooManyErrors, BackOff, FewErrors, PopFresh
<1>10. CASE AskWaiting \/ AskCurrent \/ AskQueue
  BY <1>10 DEF AskWaiting, AskCurrent, AskQueue, Ask
<1> QED BY <1>1, <1>2, <1>3, <1>4, <1>5, <1>6, <1>7, <1>8, <1>9, <1>10 DEF MainStep

LEMMA WorkerControl == ControlInv /\ WorkerStep => ControlInv'
<1> SUFFICES ASSUME ControlInv, WorkerStep PROVE ControlInv'
    OBVIOUS
<1> USE DEF ControlInv, ControlType, StopHandshake, HandsEmpty, StartsClean, MainPC, WorkerPC,
            Live, GoWorker, control, state, items, workerLocal, mainLocal, env
<1>1. CASE Begin \/ LeaveLoop \/ End
  <2>1. CASE Begin
    BY <2>1 DEF Begin
  <2>2. CASE LeaveLoop
    BY <2>2 DEF LeaveLoop
  <2>3. CASE End
    BY <2>3 DEF End
  <2> QED BY <1>1, <2>1, <2>2, <2>3
<1>2. CASE FindServer \/ UpdateHttp \/ DrainEmpty \/ DrainNotEmpty \/ Settle \/ Unpark
  BY <1>2 DEF FindServer, UpdateHttp, DrainEmpty, DrainNotEmpty, Settle, Unpark
<1>3. CASE TakeWaiting \/ PlaceInSlot
  BY <1>3 DEF TakeWaiting, PlaceInSlot
<1>4. CASE SyncGoesOn \/ FinishSync \/ BeginSync \/ BeginSyncFails \/ SlotIdle
  <2>1. /\ worker = "slot" /\ worker' \in {"slot", "settle"}
        /\ UNCHANGED <<main, mainLocal, control, next>>
    BY <1>4 DEF SyncGoesOn, FinishSync, BeginSync, BeginSyncFails, SlotIdle, AdvanceSlot
  <2> QED BY <2>1
<1> QED BY <1>1, <1>2, <1>3, <1>4 DEF WorkerStep

LEMMA NextControl == ControlInv /\ [Next]_vars => ControlInv'
<1>1. ControlInv /\ UNCHANGED vars => ControlInv'
  BY DEF ControlInv, ControlType, StopHandshake, HandsEmpty, StartsClean, vars, control,
         state, items, workerLocal, mainLocal, env
<1> QED BY <1>1, MainControl, WorkerControl DEF Next

LEMMA AlwaysControl == Spec => []ControlInv
  BY InitControl, NextControl, PTL DEF Spec

(* stop() and the thread agree at every step, whoever races: a thread that *)
(* was told to stop is joined before another is started, and one that      *)
(* starts has not been told (terrasync.cxx:389-466, 568-581).              *)
THEOREM TerraSyncStopHandshake == Spec => []StopHandshake
<1>1. ControlInv => StopHandshake
  BY DEF ControlInv
<1> QED BY <1>1, AlwaysControl, PTL

(* A thread starts with empty slots, nothing in drain's hands, no errors   *)
(* counted, no server found and not busy (terrasync.cxx:407-410, 458-463). *)
THEOREM TerraSyncStartsClean == Spec => []StartsClean
<1>1. ControlInv => StartsClean
  BY DEF ControlInv
<1> QED BY <1>1, AlwaysControl, PTL

-----------------------------------------------------------------------------
(* The types of the data, under the invariant of the control.              *)
DataType ==
    /\ enabled \in BOOLEAN /\ paused \in BOOLEAN
    /\ requests \in Nat /\ toggles \in Nat
    /\ dir \in Dirs \cup {Stop} /\ sawRunning \in BOOLEAN
    /\ server \in BOOLEAN /\ osm \in BOOLEAN /\ busyFlag \in BOOLEAN
    /\ errors \in 0 .. MaxErrors
    /\ fresh \in BOOLEAN /\ k \in SlotIds

ItemType == waiting \in Seq(Items) /\ next \in Items /\ slots \in [SlotIds -> SlotType]

(* Where it asks about a directory, there is one.                          *)
DirGiven ==
    main \in {"ask_waiting", "ask_current", "ask_queue", "request"} => dir \in Dirs

DataInv == DataType /\ ItemType /\ DirGiven /\ pending \in Int

LEMMA RequestsAreCounted == ASSUME NEW s \in Seq(Items) PROVE Requests(s) \in Nat
<1> DEFINE R == {n \in DOMAIN s : s[n] # Stop}
<1>1. IsFiniteSet(1 .. Len(s))
  BY FS_Interval
<1>2. IsFiniteSet(R)
  BY <1>1, FS_Subset
<1> QED BY <1>2, FS_CardinalityType DEF Requests

LEMMA HeldIsCounted == ASSUME NEW s \in SlotType PROVE Held(s) \in Nat
  BY RequestsAreCounted DEF SlotType, Held

LEMMA HasSlot == ASSUME NEW i PROVE SlotOf(i) \in SlotIds
  BY DEF SlotOf, SlotIds

LEMMA InitData == Init => DataInv
<1> SUFFICES ASSUME Init PROVE DataInv
    OBVIOUS
<1>1. DataType /\ DirGiven /\ pending \in Int
  BY TerraSyncAssumption DEF Init, DataType, DirGiven, SlotIds
<1>2. EmptySlot \in SlotType
  BY DEF EmptySlot, SlotType, Items
<1>3. ItemType
  BY <1>2 DEF Init, ItemType, Items
<1> QED BY <1>1, <1>3 DEF DataInv

LEMMA MainData ==
    ControlInv /\ DataInv /\ (Update \/ RetryTimePasses \/ Call \/ MainStep) => DataInv'
<1> SUFFICES ASSUME ControlInv, DataInv, Update \/ RetryTimePasses \/ Call \/ MainStep
             PROVE  DataInv'
    OBVIOUS
<1>0. ControlType
  BY DEF ControlInv
<1> USE <1>0 DEF DataInv, GoMain, control, state, items, workerLocal, mainLocal, env
<1>1. CASE Update \/ RetryTimePasses \/ Call
  <2> USE <1>1 DEF Update, RetryTimePasses, Call, Toggle, CallReinit, Shutdown, Delete,
                   CallStop, CallRequest
  <2>1. UNCHANGED <<waiting, next, slots, pending>>
    OBVIOUS
  <2>2. ItemType' /\ pending' \in Int
    BY <2>1 DEF ItemType
  <2>3. UNCHANGED <<server, osm, busyFlag, errors, fresh, k>>
    OBVIOUS
  <2>4. enabled' \in BOOLEAN /\ paused' \in BOOLEAN /\ sawRunning' \in BOOLEAN
    <3>1. /\ enabled' \in {enabled, ~enabled} /\ paused' \in {paused, FALSE}
          /\ sawRunning' \in {sawRunning, running}
      OBVIOUS
    <3> QED BY <3>1 DEF ControlType, DataType
  <2>6. requests' \in Nat /\ toggles' \in Nat
    <3>1. requests' \in {requests, requests + 1} /\ toggles' \in {toggles, toggles + 1}
      OBVIOUS
    <3> QED BY <3>1 DEF DataType
  <2>5. dir' \in Dirs \cup {Stop} /\ DirGiven'
    BY DEF ControlType, DataType, DirGiven
  <2> QED BY <2>2, <2>3, <2>4, <2>5, <2>6 DEF DataType
<1>2. CASE ReinitRunning \/ ReinitStop \/ StartRefused \/ StartAllowed
  BY <1>2 DEF ReinitRunning, ReinitStop, StartRefused, StartAllowed, OsmServer, ControlType,
              DataType, ItemType, DirGiven
<1>3. CASE StartThread \/ StartNoThread
  <2>1. ItemType' /\ DirGiven' /\ pending' \in Int
    BY <1>3 DEF StartThread, StartNoThread, ResetState, ItemType, DirGiven
  <2>2. 0 \in 0 .. MaxErrors
    BY TerraSyncAssumption
  <2> QED BY <1>3, <2>1, <2>2 DEF StartThread, StartNoThread, ResetState, DataType
<1>4. CASE RequestAirports \/ RequestModels \/ Request \/ StopPush
  <2>1. PICK i \in Items : PushRequest(i)
    BY <1>4 DEF RequestAirports, RequestModels, Request, StopPush, Items, DirGiven
  <2>2. ItemType'
    <3>1. waiting' \in Seq(Items)
      BY <2>1 DEF PushRequest, ItemType
    <3> QED BY <1>4, <3>1 DEF RequestAirports, RequestModels, Request, StopPush, ItemType
  <2>3. pending' \in Int
    BY <2>1 DEF PushRequest
  <2>4. DataType' /\ DirGiven'
    BY <1>4 DEF RequestAirports, RequestModels, Request, StopPush, DataType, DirGiven,
                ControlType
  <2> QED BY <2>2, <2>3, <2>4
<1>5. CASE StopClear
  <2>1. Requests(waiting) \in Nat
    BY RequestsAreCounted DEF ItemType
  <2>2. pending' \in Int
    BY <1>5, <2>1 DEF StopClear
  <2>3. ItemType'
    BY <1>5 DEF StopClear, ItemType
  <2> QED BY <1>5, <2>2, <2>3 DEF StopClear, DataType, DirGiven
<1>6. CASE StopNotRunning \/ StopRunning
  BY <1>6 DEF StopNotRunning, StopRunning, ControlType, DataType, ItemType, DirGiven
<1>7. CASE Join
  <2>1. \A s \in SlotIds : Held(slots[s]) \in Nat
    BY HeldIsCounted DEF ItemType
  <2>2. pending' \in Int
    BY <1>7, <2>1 DEF Join, SlotIds
  <2>3. EmptySlot \in SlotType
    BY DEF EmptySlot, SlotType, Items
  <2>4. ItemType'
    BY <1>7, <2>3 DEF Join, ItemType
  <2> QED BY <1>7, <2>2, <2>4 DEF Join, ControlType, DataType, DirGiven
<1>8. CASE TooManyErrors \/ BackOff \/ FewErrors \/ PopFresh
  <2>1. ItemType' /\ DirGiven' /\ pending' \in Int
    BY <1>8 DEF TooManyErrors, BackOff, FewErrors, PopFresh, ItemType, DirGiven
  <2>2. /\ UNCHANGED <<enabled, requests, toggles, dir, state, k>>
        /\ paused' \in {paused, TRUE} /\ fresh' \in {fresh, FALSE}
        /\ sawRunning' \in {sawRunning, FALSE}
    BY <1>8 DEF TooManyErrors, BackOff, FewErrors, PopFresh
  <2>3. paused' \in BOOLEAN
    BY <2>2, paused \in BOOLEAN DEF DataType
  <2>5. fresh' \in BOOLEAN /\ sawRunning' \in BOOLEAN
    BY <2>2 DEF DataType
  <2>4. UNCHANGED <<server, osm, errors, busyFlag>>
    BY <2>2
  <2> QED BY <2>1, <2>2, <2>3, <2>4, <2>5 DEF DataType
<1>9. CASE AskWaiting \/ AskCurrent \/ AskQueue
  BY <1>9 DEF AskWaiting, AskCurrent, AskQueue, Ask, DataType, ItemType, DirGiven
<1> QED BY <1>1, <1>2, <1>3, <1>4, <1>5, <1>6, <1>7, <1>8, <1>9 DEF MainStep

LEMMA WorkerData == DataInv /\ WorkerStep => DataInv'
<1> SUFFICES ASSUME DataInv, WorkerStep PROVE DataInv'
    OBVIOUS
<1> USE DEF DataInv, GoWorker, control, state, items, workerLocal, mainLocal, env
<1>0. \A j \in SlotIds : (j + 1) % 4 \in SlotIds
  BY DEF SlotIds
<1>1. CASE Begin \/ LeaveLoop \/ End \/ UpdateHttp \/ DrainEmpty \/ DrainNotEmpty \/ Unpark
  BY <1>1 DEF Begin, LeaveLoop, End, UpdateHttp, DrainEmpty, DrainNotEmpty, Unpark,
              DataType, ItemType, DirGiven
<1>2. CASE FindServer
  <2>1. ItemType' /\ DirGiven' /\ pending' \in Int
    BY <1>2 DEF FindServer, ItemType, DirGiven
  <2>2. (errors' = 0 /\ server' = TRUE) \/ (OneMoreError /\ UNCHANGED server)
    BY <1>2 DEF FindServer
  <2>3. errors' \in 0 .. MaxErrors
    BY <2>2, TerraSyncAssumption DEF OneMoreError, DataType
  <2>4. server' \in BOOLEAN
    BY <2>2 DEF DataType
  <2> QED BY <1>2, <2>1, <2>3, <2>4 DEF FindServer, OsmServer, DataType
<1>3. CASE Settle
  BY <1>3 DEF Settle, AnySlotBusy, DataType, ItemType, DirGiven
<1>4. CASE TakeWaiting
  <2>1. waiting' \in Seq(Items) /\ next' \in Items
    BY <1>4 DEF TakeWaiting, ItemType
  <2> QED BY <1>4, <2>1 DEF TakeWaiting, DataType, ItemType, DirGiven
<1>5. CASE PlaceInSlot
  <2>1. SlotOf(next) \in SlotIds
    BY HasSlot
  <2>2. slots[SlotOf(next)] \in SlotType /\ next \in Items
    BY <2>1 DEF ItemType
  <2>3. Append(slots[SlotOf(next)].queue, next) \in Seq(Items)
    BY <2>2 DEF SlotType
  <2>4. [slots[SlotOf(next)] EXCEPT !.queue = Append(@, next)] \in SlotType
    BY <2>2, <2>3 DEF SlotType
  <2>5. slots' \in [SlotIds -> SlotType]
    BY <1>5, <2>1, <2>4 DEF PlaceInSlot, ItemType
  <2> QED BY <1>5, <2>5 DEF PlaceInSlot, DataType, ItemType, DirGiven, Items
<1>6. CASE SyncGoesOn \/ SlotIdle
  <2>1. ItemType' /\ DirGiven' /\ pending' \in Int
    BY <1>6 DEF SyncGoesOn, SlotIdle, ItemType, DirGiven
  <2>2. k' \in SlotIds
    BY <1>0, <1>6 DEF SyncGoesOn, SlotIdle, AdvanceSlot, DataType
  <2> QED BY <1>6, <2>1, <2>2 DEF SyncGoesOn, SlotIdle, DataType
<1>7. CASE FinishSync
  <2>1. slots' \in [SlotIds -> SlotType]
    BY <1>7 DEF FinishSync, ItemType, SlotType, Items
  <2>2. errors' \in 0 .. MaxErrors
    BY <1>7, TerraSyncAssumption DEF FinishSync, CountFailure, OneMoreError, DataType
  <2>3. fresh' = TRUE /\ pending' \in Int
    BY <1>7 DEF FinishSync, Reported, DataType
  <2> QED BY <1>7, <2>1, <2>2, <2>3 DEF FinishSync, DataType, ItemType, DirGiven
<1>8. CASE BeginSync \/ BeginSyncFails
  <2>1. PICK b \in BOOLEAN : NextInSlot(b)
    BY <1>8 DEF BeginSync, BeginSyncFails
  <2>2. k \in SlotIds /\ slots[k] \in SlotType /\ slots[k].queue # <<>>
    BY <1>8 DEF BeginSync, BeginSyncFails, DataType, ItemType
  <2>3. Head(slots[k].queue) \in Items /\ Tail(slots[k].queue) \in Seq(Items)
    BY <2>2 DEF SlotType
  <2>4. slots' \in [SlotIds -> SlotType]
    BY <2>1, <2>2, <2>3 DEF NextInSlot, ItemType, SlotType
  <2>5. fresh' \in BOOLEAN /\ pending' \in Int
    <3>1. /\ fresh' \in {fresh, TRUE}
          /\ pending' \in {pending, pending - 0, pending - 1}
      BY <1>8 DEF BeginSync, BeginSyncFails, Reported
    <3>2. fresh' \in BOOLEAN
      BY <3>1 DEF DataType
    <3> QED BY <3>1, <3>2
  <2>6. k' \in SlotIds
    BY <1>0, <1>8, <2>2 DEF BeginSync, BeginSyncFails, AdvanceSlot
  <2>7. ItemType' /\ DirGiven'
    BY <1>8, <2>4 DEF BeginSync, BeginSyncFails, ItemType, DirGiven
  <2>8. errors' \in 0 .. MaxErrors
    <3>1. UNCHANGED errors \/ OneMoreError
      BY <1>8 DEF BeginSync, BeginSyncFails, CountFailure
    <3> QED BY <3>1, TerraSyncAssumption DEF OneMoreError, DataType
  <2> QED BY <1>8, <2>5, <2>6, <2>7, <2>8 DEF BeginSync, BeginSyncFails, DataType
<1> QED BY <1>1, <1>2, <1>3, <1>4, <1>5, <1>6, <1>7, <1>8 DEF WorkerStep

LEMMA NextData == ControlInv /\ DataInv /\ [Next]_vars => DataInv'
<1>1. DataInv /\ UNCHANGED vars => DataInv'
  BY DEF DataInv, DataType, ItemType, DirGiven, vars, control, state, items, workerLocal,
         mainLocal, env
<1> QED BY <1>1, MainData, WorkerData DEF Next

(* The variables keep their types, whatever the two threads do to the      *)
(* queue and the slots at the same time (terrasync.cxx:583-661, 900-909).  *)
THEOREM TerraSyncTypeOK == Spec => []TypeOK
<1>1. ControlInv /\ DataInv => TypeOK
  BY DEF ControlInv, ControlType, DataInv, DataType, ItemType, TypeOK
<1> QED BY <1>1, AlwaysControl, InitData, NextData, PTL DEF Spec

-----------------------------------------------------------------------------
(* How many requests there are in a sequence that gets or loses an item.   *)

One(i) == IF i = Stop THEN 0 ELSE 1

Places(s) == {n \in DOMAIN s : s[n] # Stop}

LEMMA PlacesFinite == ASSUME NEW s \in Seq(Items)
                      PROVE  IsFiniteSet(Places(s)) /\ Places(s) \subseteq 1 .. Len(s)
<1>1. DOMAIN s = 1 .. Len(s)
  OBVIOUS
<1>2. IsFiniteSet(1 .. Len(s)) /\ Places(s) \subseteq 1 .. Len(s)
  BY <1>1, FS_Interval DEF Places
<1> QED BY <1>2, FS_Subset

LEMMA RequestsOfNone == Requests(<<>>) = 0
<1>1. {n \in DOMAIN <<>> : <<>>[n] # Stop} = {}
  OBVIOUS
<1> QED BY <1>1, FS_EmptySet DEF Requests

LEMMA RequestsShifted ==
    ASSUME NEW s \in Seq(Items), NEW t \in Seq(Items), Len(t) = Len(s) + 1,
           \A n \in 1 .. Len(s) : t[n + 1] = s[n]
    PROVE  Requests(t) = One(t[1]) + Requests(s)
<1> DEFINE shift == [n \in Places(s) |-> n + 1]
           rest == Places(t) \ {1}
<1>1. /\ Places(s) \subseteq 1 .. Len(s) /\ IsFiniteSet(Places(s))
      /\ Places(t) \subseteq 1 .. Len(t) /\ IsFiniteSet(Places(t)) /\ Len(s) \in Nat
  BY PlacesFinite
<1>2. \A n \in 1 .. Len(s) : n \in Places(s) <=> n + 1 \in Places(t)
  BY DEF Places
<1>3. shift \in [Places(s) -> rest]
  BY <1>1, <1>2
<1>4. \A a, b \in Places(s) : shift[a] = shift[b] => a = b
  BY <1>1
<1>5. \A m \in rest : \E n \in Places(s) : shift[n] = m
  <2>1. SUFFICES ASSUME NEW m \in rest PROVE \E n \in Places(s) : shift[n] = m
    OBVIOUS
  <2>2. m - 1 \in 1 .. Len(s) /\ (m - 1) + 1 = m
    BY <1>1
  <2>3. m - 1 \in Places(s)
    BY <1>2, <2>2
  <2> QED BY <2>2, <2>3
<1>6. shift \in Bijection(Places(s), rest)
  <2> HIDE DEF shift, rest
  <2> QED BY <1>3, <1>4, <1>5, Fun_IsBij
<1>7. Cardinality(rest) = Cardinality(Places(s))
  <2> HIDE DEF shift, rest
  <2>1. ExistsBijection(Places(s), rest)
    BY <1>6 DEF ExistsBijection
  <2> QED BY <1>1, <2>1, FS_Bijection
<1>8. Cardinality(rest) = IF 1 \in Places(t) THEN Cardinality(Places(t)) - 1
                          ELSE Cardinality(Places(t))
  BY <1>1, FS_RemoveElement
<1>9. 1 \in Places(t) <=> t[1] # Stop
  BY <1>1 DEF Places
<1>10. Cardinality(Places(t)) \in Nat
  BY <1>1, FS_CardinalityType
<1>11. Requests(s) = Cardinality(Places(s)) /\ Requests(t) = Cardinality(Places(t))
  BY DEF Requests, Places
<1> QED BY <1>7, <1>8, <1>9, <1>10, <1>11 DEF One

LEMMA RequestsOfPushed == ASSUME NEW s \in Seq(Items), NEW i \in Items
                          PROVE  Requests(<<i>> \o s) = One(i) + Requests(s)
<1>1. <<i>> \in Seq(Items) /\ Len(<<i>>) = 1 /\ <<i>>[1] = i /\ Len(s) \in Nat
  OBVIOUS
<1>2. /\ <<i>> \o s \in Seq(Items) /\ Len(<<i>> \o s) = Len(s) + 1
      /\ \A n \in 1 .. 1 + Len(s) : (<<i>> \o s)[n] = IF n <= 1 THEN <<i>>[n] ELSE s[n - 1]
  BY <1>1, ConcatProperties
<1>3. (<<i>> \o s)[1] = i /\ \A n \in 1 .. Len(s) : (<<i>> \o s)[n + 1] = s[n]
  BY <1>1, <1>2
<1> HIDE DEF One
<1> QED BY <1>2, <1>3, RequestsShifted

LEMMA RequestsOfTail == ASSUME NEW s \in Seq(Items), s # <<>>
                        PROVE  Requests(s) = One(Head(s)) + Requests(Tail(s))
<1>1. /\ Tail(s) \in Seq(Items) /\ Len(Tail(s)) = Len(s) - 1
      /\ \A n \in 1 .. Len(Tail(s)) : Tail(s)[n] = s[n + 1]
  BY HeadTailProperties
<1>2. Len(s) = Len(Tail(s)) + 1 /\ Head(s) = s[1]
  BY <1>1
<1> QED BY <1>1, <1>2, RequestsShifted

LEMMA RequestsOfAppended == ASSUME NEW s \in Seq(Items), NEW i \in Items
                            PROVE  Requests(Append(s, i)) = Requests(s) + One(i)
<1> DEFINE t == Append(s, i)  last == Len(s) + 1
<1>1. /\ t \in Seq(Items) /\ Len(t) = last /\ t[last] = i /\ \A n \in 1 .. Len(s) : t[n] = s[n]
      /\ Len(s) \in Nat
  BY AppendProperties
<1>2. Places(t) = Places(s) \cup (IF i = Stop THEN {} ELSE {last})
  <2>1. DOMAIN t = 1 .. last /\ DOMAIN s = 1 .. Len(s)
    BY <1>1
  <2> HIDE DEF t
  <2> QED BY <1>1, <2>1 DEF Places
<1>3. last \notin Places(s) /\ IsFiniteSet(Places(s))
  BY <1>1, PlacesFinite
<1>4. Cardinality(Places(s) \cup {last}) = Cardinality(Places(s)) + 1
  BY <1>3, FS_AddElement
<1>5. Requests(s) = Cardinality(Places(s)) /\ Requests(t) = Cardinality(Places(t))
  BY DEF Requests, Places
<1>6. Cardinality(Places(s)) \in Nat
  BY <1>3, FS_CardinalityType
<1> HIDE DEF t, last
<1>7. Requests(t) = Requests(s) + One(i)
  <2>1. CASE i = Stop
    <3>1. Places(t) = Places(s) /\ One(i) = 0
      BY <1>2, <2>1 DEF One
    <3> QED BY <1>5, <1>6, <3>1
  <2>2. CASE i # Stop
    <3>1. Places(t) = Places(s) \cup {last} /\ One(i) = 1
      BY <1>2, <2>2 DEF One
    <3> QED BY <1>4, <1>5, <1>6, <3>1
  <2> QED BY <2>1, <2>2
<1> QED BY <1>7 DEF t

-----------------------------------------------------------------------------
(* Every request is accounted for, at every step.                          *)

InSlots == Held(slots[0]) + Held(slots[1]) + Held(slots[2]) + Held(slots[3])

LEMMA NumbersOfRequests ==
    ASSUME DataInv
    PROVE  /\ Requests(waiting) \in Nat /\ pending \in Int /\ One(next) \in Nat
           /\ \A s \in SlotIds : Held(slots[s]) \in Nat
BY RequestsAreCounted, HeldIsCounted DEF DataInv, ItemType, One

LEMMA SumsAgree ==
    ASSUME NEW a \in Int, NEW b \in Int, NEW h0 \in Int, NEW h1 \in Int, NEW h2 \in Int, NEW h3 \in Int
    PROVE  a + b + h0 + h1 + h2 + h3 = a + b + (h0 + h1 + h2 + h3)
OBVIOUS

LEMMA Accounts ==
    ASSUME DataInv
    PROVE  EveryRequestAccountedFor <=> pending = Requests(waiting) + One(next) + InSlots
<1>1. Held(slots[0]) \in Int /\ Held(slots[1]) \in Int /\ Held(slots[2]) \in Int /\ Held(slots[3]) \in Int
  BY NumbersOfRequests DEF SlotIds
<1>2. Requests(waiting) \in Int /\ One(next) \in Int
  BY NumbersOfRequests
<1>3. EveryRequestAccountedFor <=>
        pending = Requests(waiting) + One(next) + Held(slots[0]) + Held(slots[1])
                    + Held(slots[2]) + Held(slots[3])
  BY DEF EveryRequestAccountedFor, One
<1> QED BY <1>1, <1>2, <1>3, SumsAgree DEF InSlots

LEMMA AccountsAfter ==
    ASSUME DataInv'
    PROVE  EveryRequestAccountedFor' <=> pending' = Requests(waiting)' + One(next)' + InSlots'
<1>1. /\ 0 \in SlotIds /\ 1 \in SlotIds /\ 2 \in SlotIds /\ 3 \in SlotIds
      /\ waiting' \in Seq(Items) /\ slots' \in [SlotIds -> SlotType]
  BY DEF SlotIds, DataInv, ItemType
<1>2. Requests(waiting') \in Int /\ One(next') \in Int
  BY <1>1, RequestsAreCounted DEF One
<1>3. Held(slots'[0]) \in Int /\ Held(slots'[1]) \in Int /\ Held(slots'[2]) \in Int /\ Held(slots'[3]) \in Int
  BY <1>1, HeldIsCounted
<1>4. EveryRequestAccountedFor' <=>
        pending' = Requests(waiting') + One(next') + Held(slots'[0]) + Held(slots'[1])
                    + Held(slots'[2]) + Held(slots'[3])
  BY DEF EveryRequestAccountedFor, One, Requests, Held
<1>5. /\ Requests(waiting)' = Requests(waiting') /\ One(next)' = One(next')
      /\ InSlots' = Held(slots'[0]) + Held(slots'[1]) + Held(slots'[2]) + Held(slots'[3])
  BY DEF Requests, One, InSlots, Held
<1> QED BY <1>2, <1>3, <1>4, <1>5, SumsAgree

LEMMA TailIsCounted == ASSUME NEW s \in Seq(Items), s # <<>> PROVE Requests(Tail(s)) \in Nat
<1>1. Tail(s) \in Seq(Items)
  BY HeadTailProperties
<1> QED BY <1>1, RequestsAreCounted

(* A step that changes one slot.                                           *)
LEMMA OneSlotChanges ==
    ASSUME DataInv, NEW s \in SlotIds, NEW new, slots' = [slots EXCEPT ![s] = new], Held(new) \in Nat
    PROVE  InSlots' = InSlots - Held(slots[s]) + Held(new)
<1>1. \A j \in SlotIds : Held(slots[j]) \in Nat /\ slots'[j] = IF j = s THEN new ELSE slots[j]
  BY NumbersOfRequests DEF DataInv, ItemType
<1>2. \A j \in SlotIds : Held(slots'[j]) = IF j = s THEN Held(new) ELSE Held(slots[j])
  BY <1>1
<1>3. InSlots' = Held(slots'[0]) + Held(slots'[1]) + Held(slots'[2]) + Held(slots'[3])
  BY DEF InSlots, Held, Requests
<1>4. 0 \in SlotIds /\ 1 \in SlotIds /\ 2 \in SlotIds /\ 3 \in SlotIds /\ s \in 0 .. 3
  BY DEF SlotIds
<1>5. CASE s = 0
  BY <1>1, <1>2, <1>3, <1>4, <1>5 DEF InSlots
<1>6. CASE s = 1
  BY <1>1, <1>2, <1>3, <1>4, <1>6 DEF InSlots
<1>7. CASE s = 2
  BY <1>1, <1>2, <1>3, <1>4, <1>7 DEF InSlots
<1>8. CASE s = 3
  BY <1>1, <1>2, <1>3, <1>4, <1>8 DEF InSlots
<1> QED BY <1>4, <1>5, <1>6, <1>7, <1>8

LEMMA SameAccounts ==
    ASSUME EveryRequestAccountedFor, UNCHANGED <<waiting, next, slots, pending>>
    PROVE  EveryRequestAccountedFor'
BY DEF EveryRequestAccountedFor, Requests, Held

LEMMA MainAccounts ==
    ASSUME ControlInv, DataInv, DataInv', EveryRequestAccountedFor,
           Update \/ RetryTimePasses \/ Call \/ MainStep
    PROVE  EveryRequestAccountedFor'
<1> USE DEF GoMain, control, state, items, workerLocal, mainLocal, env
<1>1. CASE Update \/ RetryTimePasses \/ Call
  <2>1. UNCHANGED <<waiting, next, slots, pending>>
    BY <1>1 DEF Update, RetryTimePasses, Call, Toggle, CallReinit, Shutdown, Delete,
                CallStop, CallRequest
  <2> QED BY <2>1, SameAccounts
<1>2. CASE StopClear
  <2>1. waiting' = <<>> /\ pending' = pending - Requests(waiting) /\ UNCHANGED <<slots, next>>
    BY <1>2 DEF StopClear
  <2>2. Requests(waiting)' = 0 /\ InSlots' = InSlots
    BY <2>1, RequestsOfNone DEF InSlots, Held, Requests
  <2>3. InSlots \in Nat
    BY NumbersOfRequests DEF InSlots, SlotIds
  <2>4. pending = Requests(waiting) + One(next) + InSlots /\ One(next)' = One(next)
    BY <2>1, Accounts DEF One
  <2>5. pending' = Requests(waiting)' + One(next)' + InSlots'
    BY <2>1, <2>2, <2>3, <2>4, NumbersOfRequests
  <2> QED BY <2>5, AccountsAfter
<1>3. CASE RequestAirports \/ RequestModels \/ Request \/ StopPush
  <2>1. PICK i \in Items : PushRequest(i)
    BY <1>3 DEF RequestAirports, RequestModels, Request, StopPush, Items, DataInv, DirGiven
  <2>2. waiting' = <<i>> \o waiting /\ pending' = pending + One(i) /\ UNCHANGED <<slots, next>>
    BY <1>3, <2>1 DEF PushRequest, One, RequestAirports, RequestModels, Request, StopPush
  <2>3. Requests(waiting)' = Requests(waiting')
    BY DEF Requests
  <2>4. Requests(waiting') = One(i) + Requests(waiting)
    BY <2>2, RequestsOfPushed DEF DataInv, ItemType
  <2>5. InSlots' = InSlots /\ One(next)' = One(next)
    BY <2>2 DEF InSlots, Held, Requests, One
  <2>6. InSlots \in Nat /\ One(i) \in Nat
    BY NumbersOfRequests DEF InSlots, SlotIds, One
  <2>7. pending = Requests(waiting) + One(next) + InSlots
    BY Accounts
  <2>8. pending' = Requests(waiting)' + One(next)' + InSlots'
    BY <2>2, <2>3, <2>4, <2>5, <2>6, <2>7, NumbersOfRequests
  <2> QED BY <2>8, AccountsAfter
<1>4. CASE Join
  <2>1. /\ waiting' = waiting /\ next' = next /\ pending' = pending - InSlots
        /\ slots' = [s \in SlotIds |-> EmptySlot] /\ worker = "done"
    BY <1>4 DEF Join, InSlots
  <2>2. Held(EmptySlot) = 0
    BY RequestsOfNone DEF Held, EmptySlot
  <2>3. InSlots' = 0
    <3>1. InSlots' = Held(slots'[0]) + Held(slots'[1]) + Held(slots'[2]) + Held(slots'[3])
      BY DEF InSlots, Held, Requests
    <3> QED BY <2>1, <2>2, <3>1 DEF SlotIds
  <2>4. pending = Requests(waiting) + One(next) + InSlots /\ InSlots \in Nat
    BY Accounts, NumbersOfRequests DEF InSlots, SlotIds
  <2>5. Requests(waiting)' = Requests(waiting) /\ One(next)' = One(next)
    BY <2>1 DEF Requests, One
  <2>6. pending' = Requests(waiting)' + One(next)' + InSlots'
    BY <2>1, <2>3, <2>4, <2>5, NumbersOfRequests
  <2> QED BY <2>6, AccountsAfter
<1>5. CASE MainStep /\ ~(StopClear \/ RequestAirports \/ RequestModels \/ Request \/ StopPush \/ Join)
  <2>1. UNCHANGED <<waiting, next, slots, pending>>
    BY <1>5 DEF MainStep, ReinitRunning, ReinitStop, StartRefused, StartAllowed, StartThread,
                StartNoThread, ResetState, StopNotRunning, StopRunning, TooManyErrors, BackOff,
                FewErrors, PopFresh, AskWaiting, AskCurrent, AskQueue, Ask
  <2> QED BY <2>1, SameAccounts
<1> QED BY <1>1, <1>2, <1>3, <1>4, <1>5

LEMMA WorkerAccounts ==
    ASSUME ControlInv, DataInv, DataInv', EveryRequestAccountedFor, WorkerStep
    PROVE  EveryRequestAccountedFor'
<1> USE DEF GoWorker, control, state, items, workerLocal, mainLocal, env
<1>0. pending = Requests(waiting) + One(next) + InSlots /\ InSlots \in Nat
  BY Accounts, NumbersOfRequests DEF InSlots, SlotIds
<1>p. (pending' = Requests(waiting)' + One(next)' + InSlots') => EveryRequestAccountedFor'
  BY AccountsAfter
<1>1. CASE TakeWaiting
  <2>1. /\ waiting # <<>> /\ next' = Head(waiting) /\ waiting' = Tail(waiting) /\ next = Stop
        /\ UNCHANGED <<slots, pending>>
    BY <1>1 DEF TakeWaiting, ControlInv, HandsEmpty
  <2>2. Requests(waiting) = One(Head(waiting)) + Requests(Tail(waiting))
    BY <2>1, RequestsOfTail DEF DataInv, ItemType
  <2>3. Requests(waiting)' = Requests(Tail(waiting)) /\ One(next)' = One(Head(waiting)) /\ InSlots' = InSlots
    BY <2>1 DEF Requests, One, InSlots, Held
  <2>4. One(next) = 0 /\ One(Head(waiting)) \in Nat /\ Requests(Tail(waiting)) \in Nat
    BY <2>1, TailIsCounted DEF One, DataInv, ItemType
  <2> QED BY <1>0, <1>p, <2>1, <2>2, <2>3, <2>4
<1>2. CASE PlaceInSlot
  <2> DEFINE s == SlotOf(next)
             new == [slots[s] EXCEPT !.queue = Append(@, next)]
  <2>1. /\ slots' = [slots EXCEPT ![s].queue = Append(@, next)] /\ next' = Stop
        /\ UNCHANGED <<waiting, pending>>
    BY <1>2 DEF PlaceInSlot
  <2>2. s \in SlotIds /\ slots[s] \in SlotType /\ next \in Items /\ slots' = [slots EXCEPT ![s] = new]
    BY <2>1, HasSlot DEF DataInv, ItemType
  <2>3. /\ new.queue = Append(slots[s].queue, next) /\ new.busy = slots[s].busy
        /\ new.current = slots[s].current /\ slots[s].queue \in Seq(Items)
    BY <2>2 DEF SlotType
  <2>4. Requests(new.queue) = Requests(slots[s].queue) + One(next)
    BY <2>2, <2>3, RequestsOfAppended
  <2>5. Requests(slots[s].queue) \in Nat /\ One(next) \in Nat
    BY <2>3, RequestsAreCounted DEF One
  <2> HIDE DEF new, s
  <2>6. Held(new) = Held(slots[s]) + One(next) /\ Held(new) \in Nat
    BY <2>3, <2>4, <2>5 DEF Held
  <2>7. InSlots' = InSlots - Held(slots[s]) + Held(new)
    BY <2>2, <2>6, OneSlotChanges
  <2>8. Held(slots[s]) \in Nat
    BY <2>2, NumbersOfRequests
  <2>9. Requests(waiting)' = Requests(waiting) /\ One(next)' = 0
    BY <2>1 DEF Requests, One
  <2> QED BY <1>0, <1>p, <2>1, <2>5, <2>6, <2>7, <2>8, <2>9, NumbersOfRequests
<1>3. CASE FinishSync
  <2> DEFINE new == [slots[k] EXCEPT !.busy = FALSE, !.current = Stop]
  <2>1. /\ slots' = [slots EXCEPT ![k].busy = FALSE, ![k].current = Stop] /\ slots[k].busy
        /\ pending' = pending - One(slots[k].current) /\ UNCHANGED <<waiting, next>>
    BY <1>3 DEF FinishSync, Reported, One
  <2>2. k \in SlotIds /\ slots[k] \in SlotType
    BY DEF DataInv, DataType, ItemType
  <2>3. slots' = [slots EXCEPT ![k] = new]
    BY <2>1, <2>2 DEF DataInv, ItemType
  <2>4. new.queue = slots[k].queue /\ new.busy = FALSE /\ slots[k].queue \in Seq(Items)
    BY <2>2 DEF SlotType
  <2> HIDE DEF new
  <2>5. Requests(slots[k].queue) \in Nat
    BY <2>4, RequestsAreCounted
  <2>6. /\ Held(slots[k]) = Held(new) + One(slots[k].current) /\ Held(new) \in Nat
        /\ One(slots[k].current) \in Nat
    BY <2>1, <2>4, <2>5 DEF Held, One
  <2>7. InSlots' = InSlots - Held(slots[k]) + Held(new)
    BY <2>2, <2>3, <2>6, OneSlotChanges
  <2>8. Requests(waiting)' = Requests(waiting) /\ One(next)' = One(next)
    BY <2>1 DEF Requests, One
  <2> QED BY <1>0, <1>p, <2>1, <2>6, <2>7, <2>8, NumbersOfRequests
<1>4. CASE BeginSync \/ BeginSyncFails
  <2>1. PICK b \in BOOLEAN :
           /\ NextInSlot(b)
           /\ pending' = pending - (IF b THEN 0 ELSE One(Head(slots[k].queue)))
    <3>1. CASE BeginSync
      <4>1. NextInSlot(TRUE)
        BY <3>1 DEF BeginSync
      <4>2. pending' = pending
        BY <3>1 DEF BeginSync
      <4>3. pending - 0 = pending
        BY DEF DataInv
      <4> QED BY <4>1, <4>2, <4>3
    <3>2. CASE BeginSyncFails
      BY <3>2 DEF BeginSyncFails, Reported, One
    <3> QED BY <1>4, <3>1, <3>2
  <2> DEFINE head == Head(slots[k].queue)
             new == [current |-> head, busy |-> b, queue |-> Tail(slots[k].queue),
                     failed |-> ~b]
  <2>2. /\ k \in SlotIds /\ slots[k] \in SlotType /\ slots[k].queue # <<>> /\ ~slots[k].busy
        /\ slots[k].queue \in Seq(Items) /\ UNCHANGED <<waiting, next>>
    BY <1>4 DEF BeginSync, BeginSyncFails, DataInv, DataType, ItemType, SlotType
  <2>3. slots' = [slots EXCEPT ![k] = new]
    BY <2>1, <2>2 DEF NextInSlot, DataInv, ItemType
  <2>4. /\ Requests(slots[k].queue) = One(head) + Requests(Tail(slots[k].queue))
        /\ Requests(Tail(slots[k].queue)) \in Nat /\ One(head) \in Nat
    BY <2>2, RequestsOfTail, TailIsCounted DEF One
  <2>5. new.queue = Tail(slots[k].queue) /\ new.current = head /\ (new.busy <=> b)
    OBVIOUS
  <2> HIDE DEF new, head
  <2>6. Held(slots[k]) = One(head) + Requests(Tail(slots[k].queue))
    BY <2>2, <2>4 DEF Held
  <2>7. Held(new) = Requests(Tail(slots[k].queue)) + (IF b THEN One(head) ELSE 0)
    BY <2>4, <2>5 DEF Held, One
  <2>8. Held(new) \in Nat
    BY <2>4, <2>7
  <2>9. InSlots' = InSlots - Held(slots[k]) + Held(new)
    BY <2>2, <2>3, <2>8, OneSlotChanges
  <2>10. Requests(waiting)' = Requests(waiting) /\ One(next)' = One(next)
    BY <2>2 DEF Requests, One
  <2>11. pending' = pending - (IF b THEN 0 ELSE One(head))
    BY <2>1 DEF head
  <2> QED BY <1>0, <1>p, <2>4, <2>6, <2>7, <2>9, <2>10, <2>11, NumbersOfRequests
<1>5. CASE Begin \/ LeaveLoop \/ End \/ FindServer \/ UpdateHttp \/ DrainEmpty \/ DrainNotEmpty
           \/ SyncGoesOn \/ SlotIdle \/ Settle \/ Unpark
  <2>1. UNCHANGED <<waiting, next, slots, pending>>
    BY <1>5 DEF Begin, LeaveLoop, End, FindServer, UpdateHttp, DrainEmpty, DrainNotEmpty,
                SyncGoesOn, SlotIdle, Settle, Unpark, AdvanceSlot
  <2> QED BY <2>1, SameAccounts
<1> QED BY <1>1, <1>2, <1>3, <1>4, <1>5 DEF WorkerStep

(* No request is lost or reported twice, whoever races: each that was made *)
(* and neither reported nor dropped by stop() is waiting, in drain's hands *)
(* or in its slot (terrasync.cxx:392, 407-410, 583-681, 900-909).          *)
THEOREM TerraSyncAccountsForRequests == Spec => []EveryRequestAccountedFor
<1>1. Init => EveryRequestAccountedFor
  <2> SUFFICES ASSUME Init PROVE EveryRequestAccountedFor
    OBVIOUS
  <2>1. Held(EmptySlot) = 0 /\ Requests(waiting) = 0
    BY RequestsOfNone DEF Held, EmptySlot, Init
  <2> QED BY <2>1 DEF Init, EveryRequestAccountedFor, SlotIds
<1>2. ControlInv /\ DataInv /\ DataInv' /\ EveryRequestAccountedFor /\ [Next]_vars
        => EveryRequestAccountedFor'
  <2>1. UNCHANGED vars => UNCHANGED <<waiting, next, slots, pending>>
    BY DEF vars, items, workerLocal
  <2> QED BY <2>1, SameAccounts, MainAccounts, WorkerAccounts DEF Next
<1> QED BY <1>1, <1>2, AlwaysControl, InitData, NextData, PTL DEF Spec

-----------------------------------------------------------------------------
(* The worker sleeps only without work.                                    *)

(* updateSyncSlot has nothing more to do for a slot: it syncs, its queue   *)
(* is empty, or an item failed to start.                                   *)
Served(s) == slots[s].busy \/ slots[s].queue = <<>> \/ slots[s].failed

(* The loop over the slots has served those that are behind it.            *)
LoopInv ==
    /\ worker # "slot" => k = 0
    /\ worker = "slot" => \A s \in SlotIds : s < k => Served(s)
    /\ worker \in {"settle", "park"} => \A s \in SlotIds : Served(s)
    /\ worker = "park" => \A s \in SlotIds : ~slots[s].busy

LEMMA SameLoop == ASSUME LoopInv, UNCHANGED <<slots, worker, k>> PROVE LoopInv'
BY DEF LoopInv, Served

LEMMA MainLoopInv ==
    ASSUME ControlInv, DataInv, LoopInv, Update \/ RetryTimePasses \/ Call \/ MainStep
    PROVE  LoopInv'
<1> USE DEF GoMain, control, state, items, workerLocal, mainLocal, env
<1>1. CASE StartThread
  <2>1. slots' = slots /\ k' = k /\ worker = "none" /\ worker' = "starting"
    BY <1>1 DEF StartThread, ResetState, ControlInv, StopHandshake
  <2> QED BY <2>1 DEF LoopInv
<1>2. CASE Join
  <2>1. worker = "done" /\ worker' = "none" /\ slots' = [s \in SlotIds |-> EmptySlot] /\ k' = k
    BY <1>2 DEF Join
  <2> QED BY <2>1 DEF LoopInv
<1>3. CASE Update \/ RetryTimePasses \/ Call
  <2>1. UNCHANGED <<slots, worker, k>>
    BY <1>3 DEF Update, RetryTimePasses, Call, Toggle, CallReinit, Shutdown, Delete,
                CallStop, CallRequest
  <2> QED BY <2>1, SameLoop
<1>4. CASE MainStep /\ ~(StartThread \/ Join)
  <2>1. UNCHANGED <<slots, worker, k>>
    BY <1>4 DEF MainStep, ReinitRunning, ReinitStop, StartRefused, StartAllowed,
                StartNoThread, ResetState, StopNotRunning, StopRunning, StopClear, StopPush,
                RequestAirports, RequestModels, Request, TooManyErrors, BackOff,
                FewErrors, PopFresh, AskWaiting, AskCurrent, AskQueue, Ask
  <2> QED BY <2>1, SameLoop
<1> QED BY <1>1, <1>2, <1>3, <1>4

(* A step of the loop at slot j that leaves the other slots alone.         *)
LEMMA LoopAdvances ==
    ASSUME DataInv, LoopInv, worker = "slot", NEW j \in SlotIds, j = k, AdvanceSlot, Served(j)',
           \A s \in SlotIds \ {j} : slots'[s] = slots[s]
    PROVE  LoopInv'
<1>1. k' = (j + 1) % 4 /\ worker' = IF j = 3 THEN "settle" ELSE "slot"
  BY DEF AdvanceSlot, GoWorker
<1>2. \A s \in SlotIds : s < j \/ s = j => Served(s)'
  BY DEF LoopInv, Served
<1>4. CASE j = 3
  <2>1. k' = 0 /\ worker' = "settle" /\ \A s \in SlotIds : Served(s)'
    BY <1>1, <1>2, <1>4 DEF SlotIds
  <2> QED BY <2>1 DEF LoopInv
<1>5. CASE j # 3
  <2>1. k' = j + 1 /\ worker' = "slot" /\ \A s \in SlotIds : s < j + 1 => Served(s)'
    BY <1>1, <1>2, <1>5 DEF SlotIds
  <2> QED BY <2>1 DEF LoopInv
<1> QED BY <1>4, <1>5

LEMMA WorkerLoopInv ==
    ASSUME DataInv, LoopInv, WorkerStep PROVE LoopInv'
<1> USE DEF GoWorker, control, state, items, workerLocal, mainLocal, env
<1>t. k \in SlotIds /\ slots \in [SlotIds -> SlotType] /\ slots[k] \in SlotType
  BY DEF DataInv, DataType, ItemType
<1>j. PICK j \in SlotIds : j = k
  BY <1>t
<1>1. CASE SyncGoesOn \/ SlotIdle
  <2>1. worker = "slot" /\ AdvanceSlot /\ slots' = slots /\ Served(k)
    BY <1>1 DEF SyncGoesOn, SlotIdle, AdvanceSlot, Served
  <2>2. Served(j)'
    BY <1>j, <2>1 DEF Served
  <2> QED BY <1>j, <2>1, <2>2, LoopAdvances
<1>2. CASE BeginSync \/ BeginSyncFails
  <2>1. PICK b \in BOOLEAN : NextInSlot(b)
    BY <1>2 DEF BeginSync, BeginSyncFails
  <2>2. worker = "slot" /\ AdvanceSlot
    BY <1>2 DEF BeginSync, BeginSyncFails, AdvanceSlot
  <2>3. /\ slots'[j].busy = b /\ slots'[j].failed = ~b
        /\ \A s \in SlotIds \ {j} : slots'[s] = slots[s]
    BY <1>t, <1>j, <2>1 DEF NextInSlot
  <2>4. Served(j)'
    BY <2>3 DEF Served
  <2> QED BY <1>j, <2>2, <2>3, <2>4, LoopAdvances
<1>3. CASE FinishSync
  <2>1. /\ worker = "slot" /\ worker' = "slot" /\ k' = k
        /\ slots' = [slots EXCEPT ![k].busy = FALSE, ![k].current = Stop]
    BY <1>3 DEF FinishSync
  <2>2. /\ \A s \in SlotIds \ {k} : slots'[s] = slots[s]
        /\ slots'[k].queue = slots[k].queue
    BY <1>t, <2>1 DEF SlotType
  <2>3. \A s \in SlotIds : s < k => s # k /\ Served(s)'
    BY <1>t, <2>1, <2>2 DEF LoopInv, Served, SlotIds
  <2> QED BY <2>1, <2>3 DEF LoopInv
<1>4. CASE PlaceInSlot
  <2>1. worker = "place" /\ worker' = "drain" /\ k' = k
    BY <1>4 DEF PlaceInSlot
  <2> QED BY <2>1 DEF LoopInv
<1>5. CASE Settle
  <2>1. /\ worker = "settle" /\ UNCHANGED <<slots, k>> /\ worker' \in {"loop", "park"}
        /\ worker' = "park" => \A s \in SlotIds : ~slots[s].busy
    BY <1>5 DEF Settle, AnySlotBusy
  <2> QED BY <2>1 DEF LoopInv, Served
<1>6. CASE DrainEmpty
  <2>1. worker = "drain" /\ worker' = "slot" /\ UNCHANGED <<slots, k>>
    BY <1>6 DEF DrainEmpty
  <2>2. k' = 0 /\ \A s \in SlotIds : ~(s < 0)
    BY <2>1 DEF LoopInv, SlotIds
  <2> QED BY <2>1, <2>2 DEF LoopInv
<1>7. CASE Begin \/ LeaveLoop \/ End \/ FindServer \/ UpdateHttp \/ DrainNotEmpty \/ TakeWaiting
           \/ Unpark
  <2>1. /\ worker # "slot" /\ worker' \notin {"slot", "settle", "park"} /\ UNCHANGED <<slots, k>>
    BY <1>7 DEF Begin, LeaveLoop, End, FindServer, UpdateHttp, DrainNotEmpty, TakeWaiting, Unpark
  <2> QED BY <2>1 DEF LoopInv
<1> QED BY <1>1, <1>2, <1>3, <1>4, <1>5, <1>6, <1>7 DEF WorkerStep

(* The worker does not sleep on waitingTiles while a slot syncs or has     *)
(* anything queued, except behind an item that failed to start             *)
(* (terrasync.cxx:654-671, 847-852).                                       *)
THEOREM TerraSyncSleepsWithoutWork == Spec => []SleepsOnlyWithoutWork
<1>1. Init => LoopInv
  BY DEF Init, LoopInv
<1>2. ControlInv /\ DataInv /\ LoopInv /\ [Next]_vars => LoopInv'
  <2>1. UNCHANGED vars => UNCHANGED <<slots, worker, k>>
    BY DEF vars, items, workerLocal
  <2> QED BY <2>1, SameLoop, MainLoopInv, WorkerLoopInv DEF Next
<1>3. LoopInv => SleepsOnlyWithoutWork
  BY DEF LoopInv, Served, SleepsOnlyWithoutWork
<1> QED BY <1>1, <1>2, <1>3, AlwaysControl, InitData, NextData, PTL DEF Spec
=============================================================================
