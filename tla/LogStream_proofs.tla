--------------------------- MODULE LogStream_proofs ---------------------------
(***************************************************************************)
(* Theorems about LogStream, for any callbacks and any bounds: changes of  *)
(* the configuration are exclusive, each callback is given each entry once *)
(* and in order, and stop() returns after the last word.                   *)
(*                                                                         *)
(* The entries in the queue increase and are those after the last one the  *)
(* thread took (Ordered), so that the head that is not a marker is the     *)
(* next entry; what a callback has seen, and what startup logging has      *)
(* kept, are runs that end at the thread's entry.                          *)
(***************************************************************************)
EXTENDS LogStream, TLAPS, SequenceTheorems

Elements(q) == {q[i] : i \in DOMAIN q}

(* The entries of q are after + 1 to upTo, in order, markers aside.        *)
Ordered(q, after, upTo) ==
    /\ \A i, j \in DOMAIN q :
          i < j /\ q[i] # Marker /\ q[j] # Marker => q[i] < q[j]
    /\ Elements(q) \ {Marker} = after + 1 .. upTo

SeenInv ==
    \A i \in DOMAIN callbacks : seen[callbacks[i]] = Run(due[callbacks[i]], GivenTo(i))

ThreadInv ==
    /\ thread.entry <= logged
    /\ thread.pc \in {"keep", "deliver"} => thread.entry >= 1
    /\ thread.pc = "keep" => thread.given = 0
    /\ conf.pc \in {"change", "resume", "over"} => thread.pc = "none"

CallbackInv ==
    /\ \A i, j \in DOMAIN callbacks : i # j => callbacks[i] # callbacks[j]
    /\ \A i \in DOMAIN callbacks : due[callbacks[i]] \in 1 .. GivenTo(i) + 1

SavedInv ==
    /\ since \in 1 .. Unkept
    /\ conf.pc # "over" => saved = IF startup THEN Run(since, Unkept - 1) ELSE <<>>

Unmarked == \A i \in DOMAIN queue : queue[i] # Marker

(* While every thread could be created there is a marker in the queue only *)
(* while stop() waits, with what was logged before stop() ahead of it, and *)
(* none where deltas move it: a thread does not end then.                  *)
StopInv ==
    unborn = 0 =>
      /\ conf.mark <= logged
      /\ conf.pc \in {"idle", "join"} => thread.pc # "none"
      /\ conf.pc = "join" /\ thread.pc # "ended" /\ ~deltas =>
            \E m \in DOMAIN queue :
               /\ queue[m] = Marker
               /\ \A i \in DOMAIN queue : i < m => queue[i] # Marker
               /\ \A i \in DOMAIN queue : i > m => queue[i] # Marker /\ queue[i] > conf.mark
      /\ conf.pc # "join" \/ deltas => thread.pc # "ended"
      /\ conf.pc # "join" \/ thread.pc = "ended" \/ deltas => Unmarked
      /\ conf.pc = "change" \/ thread.pc = "ended" => thread.entry >= conf.mark

DataInv ==
    /\ ThreadInv /\ CallbackInv /\ SavedInv /\ StopInv
    /\ SeenInv /\ Ordered(queue, thread.entry, logged)

Inv == TypeOK /\ DataInv

-----------------------------------------------------------------------------
(* Runs and queues.                                                        *)

LEMMA RunType == ASSUME NEW from \in Nat, NEW to \in Nat, from \in 1 .. to + 1
                 PROVE  /\ Run(from, to) \in Seq(Nat)
                        /\ Len(Run(from, to)) = to + 1 - from
  BY DEF Run

LEMMA RunEmpty == ASSUME NEW n \in Nat PROVE Run(n + 1, n) = <<>>
  BY DEF Run

LEMMA RunGrows == ASSUME NEW from \in Nat, NEW to \in Nat, from \in 1 .. to + 1
                  PROVE  Append(Run(from, to), to + 1) = Run(from, to + 1)
<1> DEFINE s == Run(from, to)
<1>1. s \in Seq(Nat) /\ Len(s) = to + 1 - from
  BY RunType
<1>2. Append(s, to + 1) = [n \in 1 .. Len(s) + 1 |-> IF n = Len(s) + 1 THEN to + 1 ELSE s[n]]
  BY <1>1
<1>3. \A n \in 1 .. to + 2 - from : n # to + 2 - from => s[n] = from + n - 1
  BY DEF Run
<1> QED BY <1>1, <1>2, <1>3 DEF Run

LEMMA OrderedEntry ==
    ASSUME NEW q \in Seq(Nat), NEW a \in Nat, NEW b \in Nat, a <= b, Ordered(q, a, b)
    PROVE  Ordered(Append(q, b + 1), a, b + 1)
<1> DEFINE r == Append(q, b + 1)
<1>1. /\ r \in Seq(Nat) /\ Len(r) = Len(q) + 1
      /\ \A i \in DOMAIN q : r[i] = q[i]
      /\ r[Len(q) + 1] = b + 1
      /\ DOMAIN r = DOMAIN q \cup {Len(q) + 1} /\ DOMAIN q = 1 .. Len(q)
  OBVIOUS
<1>2. Elements(r) = Elements(q) \cup {b + 1}
  BY <1>1 DEF Elements
<1>3. Elements(r) \ {Marker} = a + 1 .. b + 1
  BY <1>2 DEF Ordered, Marker
<1>4. \A i \in DOMAIN q : q[i] # Marker => q[i] < b + 1
  <2>1. \A i \in DOMAIN q : q[i] \in Elements(q)
    BY DEF Elements
  <2> QED BY <2>1 DEF Ordered
<1>5. ASSUME NEW i \in DOMAIN r, NEW j \in DOMAIN r, i < j, r[i] # Marker, r[j] # Marker
      PROVE  r[i] < r[j]
  BY <1>1, <1>4, <1>5 DEF Ordered
<1> QED BY <1>3, <1>5 DEF Ordered

LEMMA OrderedMarker ==
    ASSUME NEW q \in Seq(Nat), NEW a \in Nat, NEW b \in Nat, Ordered(q, a, b)
    PROVE  Ordered(Append(q, Marker), a, b)
<1> DEFINE r == Append(q, Marker)
<1>1. /\ Len(r) = Len(q) + 1
      /\ \A i \in DOMAIN q : r[i] = q[i]
      /\ r[Len(q) + 1] = Marker
      /\ DOMAIN r = DOMAIN q \cup {Len(q) + 1} /\ DOMAIN q = 1 .. Len(q)
  BY DEF Marker
<1>2. Elements(r) = Elements(q) \cup {Marker}
  BY <1>1 DEF Elements
<1> QED BY <1>1, <1>2 DEF Ordered

LEMMA OrderedTail ==
    ASSUME NEW q \in Seq(Nat), NEW a \in Nat, NEW b \in Nat, Ordered(q, a, b), q # <<>>
    PROVE  /\ Head(q) = Marker => Ordered(Tail(q), a, b)
           /\ Head(q) # Marker => /\ Head(q) = a + 1 /\ a + 1 <= b
                                  /\ Ordered(Tail(q), a + 1, b)
<1> DEFINE r == Tail(q)
<1>1. /\ Len(r) = Len(q) - 1 /\ r \in Seq(Nat)
      /\ \A i \in DOMAIN r : r[i] = q[i + 1] /\ i + 1 \in DOMAIN q
      /\ DOMAIN r = 1 .. Len(q) - 1 /\ DOMAIN q = 1 .. Len(q)
      /\ Head(q) = q[1] /\ 1 \in DOMAIN q /\ Head(q) \in Nat
  OBVIOUS
<1>2. \A i \in DOMAIN q : i = 1 \/ (i - 1 \in DOMAIN r /\ r[i - 1] = q[i])
  BY <1>1
<1>3. Elements(q) = Elements(r) \cup {Head(q)}
  <2>1. \A i \in DOMAIN q : q[i] \in Elements(q)
    BY DEF Elements
  <2>2. \A i \in DOMAIN r : r[i] \in Elements(r)
    BY DEF Elements
  <2>3. \A e \in Elements(q) : \E i \in DOMAIN q : e = q[i]
    BY DEF Elements
  <2>4. \A e \in Elements(r) : \E i \in DOMAIN r : e = r[i]
    BY DEF Elements
  <2>5. \A e \in Elements(q) : e \in Elements(r) \cup {Head(q)}
    <3>1. ASSUME NEW i \in DOMAIN q PROVE q[i] \in Elements(r) \cup {q[1]}
      BY <1>2, <2>2
    <3> QED BY <1>1, <2>3, <3>1
  <2>6. \A e \in Elements(r) \cup {Head(q)} : e \in Elements(q)
    BY <1>1, <2>1, <2>4
  <2> HIDE DEF r
  <2> QED BY <2>5, <2>6
<1>4. \A i, j \in DOMAIN r :
          i < j /\ r[i] # Marker /\ r[j] # Marker => r[i] < r[j]
  BY <1>1 DEF Ordered
<1>5. CASE Head(q) = Marker
  BY <1>3, <1>4, <1>5 DEF Ordered
<1>6. CASE Head(q) # Marker
  <2>1. \A e \in Elements(r) : e # Marker => Head(q) < e
    <3>1. \A i \in DOMAIN r : r[i] # Marker => q[1] < r[i]
      BY <1>1, <1>6 DEF Ordered
    <3>2. \A e \in Elements(r) : \E i \in DOMAIN r : e = r[i]
      BY DEF Elements
    <3> QED BY <1>1, <3>1, <3>2
  <2>2. Head(q) \in a + 1 .. b
    BY <1>3, <1>6 DEF Ordered
  <2>3. a + 1 \in Elements(q) /\ a + 1 # Marker
    BY <2>2 DEF Ordered, Marker
  <2>4. Head(q) = a + 1
    BY <2>1, <2>2, <2>3, <1>3, <1>1
  <2>5. Elements(r) \ {Marker} = a + 2 .. b
    BY <1>3, <2>1, <2>2, <2>4, <1>6 DEF Ordered
  <2> QED BY <1>4, <1>6, <2>2, <2>4, <2>5 DEF Ordered
<1> QED BY <1>5, <1>6

-----------------------------------------------------------------------------
LEMMA InitInv == Init => Inv
<1> SUFFICES ASSUME Init PROVE Inv
    OBVIOUS
<1>1. /\ callbacks \in Seq(Callbacks)
      /\ \A i, j \in DOMAIN callbacks : i = j
  <2>1. CASE callbacks = <<>>
    BY <2>1
  <2>2. ASSUME NEW c \in Callbacks, callbacks = <<c>>
        PROVE  callbacks \in Seq(Callbacks) /\ DOMAIN callbacks = {1}
    BY <2>2
  <2> QED BY <2>1, <2>2 DEF Init
<1>2. \A i \in DOMAIN callbacks :
          callbacks[i] \in Callbacks /\ callbacks[i] \in Installed
  BY <1>1 DEF Installed
<1>3. \A i \in DOMAIN callbacks : due[callbacks[i]] = 1 /\ seen[callbacks[i]] = <<>>
  BY <1>2 DEF Init
<1>4. TypeOK
  <2>1. <<>> \in Seq(Nat)
    OBVIOUS
  <2>2. seen \in [Callbacks -> Seq(Nat)] /\ due \in [Callbacks -> Nat]
    BY <2>1 DEF Init
  <2>3. thread \in ThreadStates
    BY DEF Init, ThreadStates
  <2>4. conf \in ConfStates
    BY DEF Init, ConfStates, Ops
  <2> QED BY <1>1, <2>1, <2>2, <2>3, <2>4 DEF Init, TypeOK
<1>5. Run(1, 0) = <<>>
  BY RunEmpty
<1>6. ThreadInv /\ StopInv /\ SavedInv
  BY <1>5 DEF Init, ThreadInv, StopInv, SavedInv, Unmarked, Unkept
<1>7. CallbackInv /\ SeenInv
  <2>1. \A i \in DOMAIN callbacks : GivenTo(i) = 0
    BY DEF Init, GivenTo
  <2> QED BY <1>1, <1>3, <1>5, <2>1 DEF CallbackInv, SeenInv
<1>8. Ordered(queue, thread.entry, logged)
  BY DEF Init, Ordered, Elements, Marker
<1> QED BY <1>4, <1>6, <1>7, <1>8 DEF Inv, DataInv

LEMMA ThreadMoves ==
    /\ \A t \in ThreadStates :
         /\ t.entry \in Nat /\ t.given \in Nat
         /\ \A p \in {"none", "pop", "keep", "deliver", "ended"} :
               [t EXCEPT !.pc = p] \in ThreadStates
         /\ [t EXCEPT !.given = @ + 1] \in ThreadStates
    /\ \A e \in Nat : [pc |-> "keep", entry |-> e, given |-> 0] \in ThreadStates
  BY DEF ThreadStates

LEMMA ConfMoves ==
    /\ \A c \in ConfStates :
         /\ c.mark \in Nat
         /\ \A p \in {"idle", "join", "change", "resume", "over"} :
               [c EXCEPT !.pc = p] \in ConfStates
         /\ [c EXCEPT !.pc = "idle", !.mark = 0] \in ConfStates
    /\ \A op \in Ops, n \in Nat : [pc |-> "join", op |-> op, mark |-> n] \in ConfStates
  BY DEF ConfStates

LEMMA UnkeptType == thread \in ThreadStates => Unkept \in Nat
<1> SUFFICES ASSUME thread \in ThreadStates PROVE Unkept \in Nat
    OBVIOUS
<1>1. thread.entry \in Nat
  BY ThreadMoves
<1> QED BY <1>1 DEF Unkept

LEMMA WithoutType ==
    ASSUME NEW s \in Seq(Callbacks), NEW k \in DOMAIN s
    PROVE  [i \in 1 .. Len(s) - 1 |-> s[IF i < k THEN i ELSE i + 1]] \in Seq(Callbacks)
<1>1. Len(s) - 1 \in Nat
  OBVIOUS
<1>2. \A i \in 1 .. Len(s) - 1 : s[IF i < k THEN i ELSE i + 1] \in Callbacks
  OBVIOUS
<1> QED BY <1>1, <1>2

LEMMA NextType == TypeOK /\ CallbackInv /\ [Next]_vars => TypeOK'
<1> SUFFICES ASSUME TypeOK, CallbackInv, [Next]_vars PROVE TypeOK'
    OBVIOUS
<1> USE DEF TypeOK
<1>1. CASE Log
  BY <1>1 DEF Log
<1>2. CASE Pop
  <2>1. queue # <<>> => Head(queue) \in Nat /\ Tail(queue) \in Seq(Nat)
    OBVIOUS
  <2>2. thread' \in ThreadStates
    <3>1. CASE Head(queue) = Marker
      BY <1>2, <3>1, ThreadMoves DEF Pop
    <3>2. CASE Head(queue) # Marker
      BY <1>2, <2>1, <3>2, ThreadMoves DEF Pop
    <3> QED BY <3>1, <3>2
  <2> QED BY <1>2, <2>1, <2>2 DEF Pop
<1>3. CASE Keep
  <2>1. thread.entry \in Nat
    BY ThreadMoves
  <2>2. thread' \in ThreadStates
    BY <1>3, ThreadMoves DEF Keep
  <2> QED BY <1>3, <2>1, <2>2 DEF Keep
<1>4. CASE Deliver
  <2>1. thread.entry \in Nat
    BY ThreadMoves
  <2>2. thread.given \in Nat /\ thread.given < Len(callbacks) => callbacks[thread.given + 1] \in Callbacks
    OBVIOUS
  <2>3. \A c \in Callbacks : Append(seen[c], thread.entry) \in Seq(Nat)
    BY <2>1
  <2>4. seen' \in [Callbacks -> Seq(Nat)]
    BY <1>4, <2>2, <2>3, ThreadMoves DEF Deliver
  <2>5. thread' \in ThreadStates
    BY <1>4, ThreadMoves DEF Deliver
  <2> QED BY <1>4, <2>4, <2>5 DEF Deliver
<1>5. CASE Delivered
  <2>1. thread' \in ThreadStates
    BY <1>5, ThreadMoves DEF Delivered
  <2> QED BY <1>5, <2>1 DEF Delivered
<1>6. ASSUME NEW op \in Wanted, Pause(op) PROVE TypeOK'
  <2>1. queue' \in Seq(Nat) /\ logged' \in Nat
    <3>1. logged \in Nat /\ logged + 1 \in Nat
      OBVIOUS
    <3>2. Append(queue, Marker) \in Seq(Nat)
      BY DEF Marker
    <3>3. Append(queue, logged + 1) \in Seq(Nat)
      BY <3>1
    <3>4. \/ queue' = Append(queue, Marker) /\ logged' = logged
          \/ queue' = Append(queue, logged + 1) /\ logged' = logged + 1
      BY <1>6 DEF Pause, LogMarker
    <3> HIDE DEF TypeOK
    <3> QED BY <3>1, <3>2, <3>3, <3>4
  <2>2. conf' \in ConfStates
    BY <1>6, ConfMoves DEF Pause, Wanted
  <2> QED BY <1>6, <2>1, <2>2 DEF Pause
<1>7. CASE SetStartupLogging
  <2>1. since' \in Nat
    BY <1>7, UnkeptType DEF SetStartupLogging
  <2> QED BY <1>7, <2>1 DEF SetStartupLogging
<1>8. CASE Join
  <2>1. thread' \in ThreadStates
    BY <1>8, ThreadMoves DEF Join
  <2>2. conf' \in ConfStates
    BY <1>8, ConfMoves DEF Join
  <2> QED BY <1>8, <2>1, <2>2 DEF Join
<1>9. ASSUME NEW c \in Callbacks, AddCallback(c) PROVE TypeOK'
  <2>1. Unkept \in Nat
    BY UnkeptType
  <2>2. conf' \in ConfStates
    BY <1>9, ConfMoves DEF AddCallback, Changed
  <2> QED BY <1>9, <2>1, <2>2 DEF AddCallback
<1>10. ASSUME NEW c \in Callbacks, RemoveCallback(c) PROVE TypeOK'
  <2>1. callbacks' \in Seq(Callbacks)
    BY <1>10, WithoutType DEF RemoveCallback
  <2>2. conf' \in ConfStates
    BY <1>10, ConfMoves DEF RemoveCallback, Changed
  <2> QED BY <1>10, <2>1, <2>2 DEF RemoveCallback
<1>11. CASE RemoveCallbacks
  <2>1. conf' \in ConfStates
    BY <1>11, ConfMoves DEF RemoveCallbacks, Changed
  <2> QED BY <1>11, <2>1 DEF RemoveCallbacks
<1>12. CASE SetLogLevels
  <2>1. conf' \in ConfStates
    BY <1>12, ConfMoves DEF SetLogLevels, Changed
  <2> QED BY <1>12, <2>1 DEF SetLogLevels
<1>13. CASE Shutdown
  <2>1. conf' \in ConfStates
    BY <1>13, ConfMoves DEF Shutdown
  <2> QED BY <1>13, <2>1 DEF Shutdown
<1>14. CASE Resume
  <2>1. thread' \in ThreadStates
    BY <1>14, ThreadMoves DEF Resume
  <2>2. conf' \in ConfStates
    BY <1>14, ConfMoves DEF Resume
  <2> QED BY <1>14, <2>1, <2>2 DEF Resume
<1>15. CASE UNCHANGED vars
  BY <1>15 DEF vars
<1> QED BY <1>1, <1>2, <1>3, <1>4, <1>5, <1>6, <1>7, <1>8, <1>9, <1>10, <1>11,
           <1>12, <1>13, <1>14, <1>15 DEF Next, Thread, Configure, Finish

-----------------------------------------------------------------------------
(* The callbacks and what they have seen, when neither changes.            *)
LEMMA SameSeen ==
    CallbackInv /\ SeenInv /\ UNCHANGED <<callbacks, thread, due, seen>> =>
        CallbackInv' /\ SeenInv'
  BY DEF CallbackInv, SeenInv, GivenTo

LEMMA SameSaved ==
    SavedInv /\ conf.pc # "over" /\ UNCHANGED <<since, saved, startup, Unkept>> => SavedInv'
  BY DEF SavedInv

LEMMA LogInv == Inv /\ Log => DataInv'
<1> SUFFICES ASSUME Inv, Log
             PROVE  DataInv'
    OBVIOUS
<1>1. /\ thread.entry \in Nat /\ logged \in Nat /\ thread.entry <= logged
      /\ queue \in Seq(Nat) /\ conf.mark \in Nat
  BY ThreadMoves, ConfMoves DEF Inv, DataInv, TypeOK, ThreadInv
<1>2. ThreadInv'
  BY <1>1 DEF Inv, DataInv, Log, ThreadInv
<1>3. CallbackInv' /\ SeenInv'
  BY SameSeen DEF Inv, DataInv, Log
<1>4. SavedInv'
  BY DEF Inv, DataInv, SavedInv, Log, Unkept
<1>5. Ordered(queue, thread.entry, logged)'
  BY <1>1, OrderedEntry DEF Inv, DataInv, Log
<1>6. StopInv'
  <2> SUFFICES ASSUME unborn = 0 PROVE StopInv'
      BY DEF Log, StopInv
  <2>1. /\ \A i \in DOMAIN queue : i \in DOMAIN queue' /\ queue'[i] = queue[i]
        /\ \A i \in DOMAIN queue' : i \in DOMAIN queue \/ queue'[i] = logged + 1
        /\ \A i \in DOMAIN queue' : i \in Nat
        /\ \A i \in DOMAIN queue, j \in DOMAIN queue' : j \notin DOMAIN queue => i < j
    BY <1>1 DEF Log
  <2>2. logged + 1 # Marker /\ logged + 1 > conf.mark
    BY <1>1 DEF Inv, DataInv, StopInv, Marker
  <2>3. Unmarked => Unmarked'
    BY <2>1, <2>2 DEF Unmarked
  <2>4. UNCHANGED <<conf, thread, unborn, deltas>> /\ conf'.mark <= logged'
    BY <1>1 DEF Log, Inv, DataInv, StopInv
  <2>5. ASSUME conf.pc = "join" /\ thread.pc # "ended" /\ ~deltas
        PROVE  \E m \in DOMAIN queue' :
                  /\ queue'[m] = Marker
                  /\ \A i \in DOMAIN queue' : i < m => queue'[i] # Marker
                  /\ \A i \in DOMAIN queue' : i > m => queue'[i] # Marker /\ queue'[i] > conf.mark
    <3>1. PICK m \in DOMAIN queue :
             /\ queue[m] = Marker
             /\ \A i \in DOMAIN queue : i < m => queue[i] # Marker
             /\ \A i \in DOMAIN queue : i > m => queue[i] # Marker /\ queue[i] > conf.mark
      BY <2>5 DEF Inv, DataInv, StopInv
    <3> QED BY <2>1, <2>2, <3>1
  <2> QED BY <2>3, <2>4, <2>5 DEF Inv, DataInv, StopInv
<1> QED BY <1>2, <1>3, <1>4, <1>5, <1>6 DEF DataInv

LEMMA PopInv == Inv /\ Pop => DataInv'
<1> SUFFICES ASSUME Inv, Pop
             PROVE  DataInv'
    OBVIOUS
<1>1. /\ thread.entry \in Nat /\ logged \in Nat /\ thread.entry <= logged
      /\ queue \in Seq(Nat) /\ conf.mark \in Nat /\ queue # <<>>
      /\ Head(queue) \in Nat
  <2>1. /\ thread \in ThreadStates /\ conf \in ConfStates
        /\ logged \in Nat /\ thread.entry <= logged
        /\ queue \in Seq(Nat) /\ queue # <<>>
    BY DEF Inv, DataInv, TypeOK, ThreadInv, Pop
  <2>2. thread.entry \in Nat /\ conf.mark \in Nat
    BY <2>1, ThreadMoves, ConfMoves
  <2> QED BY <2>1, <2>2
<1>2. /\ Head(queue) = Marker => Ordered(Tail(queue), thread.entry, logged)
      /\ Head(queue) # Marker => /\ Head(queue) = thread.entry + 1
                                 /\ thread.entry + 1 <= logged
                                 /\ Ordered(Tail(queue), thread.entry + 1, logged)
  BY <1>1, OrderedTail DEF Inv, DataInv
<1>3. /\ thread.pc = "pop"
      /\ thread' = IF Head(queue) = Marker THEN [thread EXCEPT !.pc = "ended"]
                   ELSE [pc |-> "keep", entry |-> Head(queue), given |-> 0]
      /\ queue' = Tail(queue)
      /\ UNCHANGED <<running, startup, saved, callbacks, conf, logged, unborn,
                     seen, since, due, deltas>>
  BY DEF Pop
<1>4. thread \in ThreadStates
  BY DEF Inv, DataInv, TypeOK
<1>5. CASE Head(queue) = Marker
  <2>1. thread'.pc = "ended" /\ thread'.entry = thread.entry /\ thread'.given = thread.given
    BY <1>3, <1>4, <1>5 DEF ThreadStates
  <2>2. ThreadInv'
    BY <1>1, <1>3, <2>1 DEF Inv, DataInv, ThreadInv
  <2>3. \A i : GivenTo(i)' = thread.entry /\ GivenTo(i) = thread.entry
    BY <1>3, <2>1 DEF GivenTo
  <2>4. CallbackInv' /\ SeenInv'
    BY <1>3, <2>3 DEF Inv, DataInv, CallbackInv, SeenInv
  <2>5. SavedInv'
    BY <1>3, <2>1 DEF Inv, DataInv, SavedInv, Unkept
  <2>6. Ordered(queue, thread.entry, logged)'
    BY <1>2, <1>3, <1>5, <2>1
  <2>7. StopInv'
    <3> SUFFICES ASSUME unborn = 0 PROVE StopInv'
        BY <1>3 DEF StopInv
    <3>1. 1 \in DOMAIN queue /\ queue[1] = Marker
      BY <1>1, <1>5
    <3>2. conf.pc = "join" /\ ~deltas
      BY <1>3, <3>1 DEF Inv, DataInv, StopInv, Unmarked
    <3>3. PICK m \in DOMAIN queue :
             /\ queue[m] = Marker
             /\ \A i \in DOMAIN queue : i < m => queue[i] # Marker
             /\ \A i \in DOMAIN queue : i > m => queue[i] # Marker /\ queue[i] > conf.mark
      BY <1>3, <3>2 DEF Inv, DataInv, StopInv
    <3>4. m = 1
      BY <1>1, <3>1, <3>3
    <3>5. \A i \in DOMAIN queue' : /\ i + 1 \in DOMAIN queue /\ i + 1 > 1
                                   /\ queue'[i] = queue[i + 1]
      BY <1>1, <1>3
    <3>6. \A i \in DOMAIN queue' : queue'[i] # Marker /\ queue'[i] > conf.mark
      BY <3>3, <3>4, <3>5
    <3>7. Unmarked'
      BY <3>6 DEF Unmarked
    <3>8. thread.entry >= conf.mark
      <4>1. CASE thread.entry = logged
        BY <4>1, <1>1 DEF Inv, DataInv, StopInv
      <4>2. CASE thread.entry < logged
        <5>1. thread.entry + 1 \in Elements(queue')
          BY <1>1, <1>2, <1>3, <1>5, <4>2 DEF Ordered
        <5>2. PICK i \in DOMAIN queue' : queue'[i] = thread.entry + 1
          BY <5>1 DEF Elements
        <5> QED BY <1>1, <3>6, <5>2
      <4> QED BY <4>1, <4>2, <1>1
    <3> QED BY <1>3, <2>1, <3>2, <3>7, <3>8 DEF Inv, DataInv, StopInv
  <2> QED BY <2>2, <2>4, <2>5, <2>6, <2>7 DEF DataInv
<1>6. CASE Head(queue) # Marker
  <2>1. thread'.pc = "keep" /\ thread'.entry = thread.entry + 1 /\ thread'.given = 0
    BY <1>2, <1>3, <1>6
  <2>2. ThreadInv'
    BY <1>1, <1>2, <1>3, <1>6, <2>1 DEF Inv, DataInv, ThreadInv
  <2>3. \A i \in DOMAIN callbacks : GivenTo(i)' = thread.entry /\ GivenTo(i) = thread.entry
    <3>1. \A i \in DOMAIN callbacks : i \in Nat /\ 0 < i
      BY DEF Inv, DataInv, TypeOK
    <3> QED BY <1>1, <1>3, <2>1, <3>1 DEF GivenTo
  <2>4. CallbackInv' /\ SeenInv'
    BY <1>3, <2>3 DEF Inv, DataInv, CallbackInv, SeenInv
  <2>5. SavedInv'
    BY <1>1, <1>3, <2>1 DEF Inv, DataInv, SavedInv, Unkept
  <2>6. Ordered(queue, thread.entry, logged)'
    BY <1>2, <1>3, <1>6, <2>1
  <2>7. StopInv'
    <3> SUFFICES ASSUME unborn = 0 PROVE StopInv'
        BY <1>3 DEF StopInv
    <3>1. 1 \in DOMAIN queue /\ queue[1] # Marker
      BY <1>1, <1>6
    <3>2. \A i \in DOMAIN queue' : /\ i + 1 \in DOMAIN queue /\ i \in Nat
                                   /\ queue'[i] = queue[i + 1]
      BY <1>1, <1>3
    <3>3. Unmarked => Unmarked'
      BY <3>2 DEF Unmarked
    <3>4. ASSUME conf.pc = "join", ~deltas
          PROVE  \E m \in DOMAIN queue' :
                    /\ queue'[m] = Marker
                    /\ \A i \in DOMAIN queue' : i < m => queue'[i] # Marker
                    /\ \A i \in DOMAIN queue' : i > m => queue'[i] # Marker /\ queue'[i] > conf.mark
      <4>1. PICK m \in DOMAIN queue :
               /\ queue[m] = Marker
               /\ \A i \in DOMAIN queue : i < m => queue[i] # Marker
               /\ \A i \in DOMAIN queue : i > m => queue[i] # Marker /\ queue[i] > conf.mark
        BY <1>3, <3>4 DEF Inv, DataInv, StopInv
      <4>2. m - 1 \in DOMAIN queue' /\ m \in Nat
        BY <1>1, <1>3, <3>1, <4>1
      <4> QED BY <3>2, <4>1, <4>2
    <3>5. conf.pc # "change" /\ thread.pc = "pop" /\ thread'.pc = "keep"
      BY <1>3, <2>1 DEF Inv, DataInv, ThreadInv
    <3> QED BY <1>1, <1>3, <3>3, <3>4, <3>5 DEF Inv, DataInv, StopInv
  <2> QED BY <2>2, <2>4, <2>5, <2>6, <2>7 DEF DataInv
<1> QED BY <1>5, <1>6

LEMMA ThreadStepInv == Inv /\ (Keep \/ Deliver \/ Delivered) => DataInv'
<1> SUFFICES ASSUME Inv, Keep \/ Deliver \/ Delivered PROVE DataInv'
    OBVIOUS
<1> USE DEF Inv, DataInv
<1>1. /\ thread \in ThreadStates /\ thread.entry \in Nat /\ thread.given \in Nat
      /\ callbacks \in Seq(Callbacks) /\ DOMAIN callbacks = 1 .. Len(callbacks)
      /\ \A i \in DOMAIN callbacks : i \in Nat /\ 0 < i /\ callbacks[i] \in Callbacks
  <2>1. thread \in ThreadStates /\ callbacks \in Seq(Callbacks)
    BY DEF TypeOK
  <2>2. thread.entry \in Nat /\ thread.given \in Nat
    BY <2>1, ThreadMoves
  <2>3. DOMAIN callbacks = 1 .. Len(callbacks)
    BY <2>1
  <2>4. \A i \in DOMAIN callbacks : i \in Nat /\ 0 < i /\ callbacks[i] \in Callbacks
    BY <2>1
  <2> QED BY <2>1, <2>2, <2>3, <2>4
<1>2. /\ thread.pc \in {"keep", "deliver"} /\ thread'.entry = thread.entry
      /\ thread'.pc \in {"deliver", "pop"}
      /\ UNCHANGED <<queue, logged, conf, unborn, callbacks, since, startup, due, deltas>>
  BY <1>1 DEF Keep, Deliver, Delivered, ThreadStates
<1>3. ThreadInv'
  BY <1>2 DEF ThreadInv
<1>4. StopInv'
  BY <1>2 DEF StopInv, Unmarked
<1>5. Ordered(queue, thread.entry, logged)'
  BY <1>2
<1>6. CASE Keep
  <2>1. thread'.pc = "deliver" /\ thread'.given = 0 /\ thread.given = 0 /\ thread.pc = "keep"
    BY <1>1, <1>6 DEF Keep, ThreadStates, ThreadInv
  <2>2. \A i : GivenTo(i)' = GivenTo(i)
    BY <1>2, <2>1 DEF GivenTo
  <2>3. CallbackInv' /\ SeenInv'
    BY <1>2, <1>6, <2>2 DEF CallbackInv, SeenInv, Keep
  <2>4. Unkept = thread.entry /\ Unkept' = thread.entry + 1
    BY <1>2, <2>1 DEF Unkept
  <2>5. startup => saved' = Run(since, thread.entry)
    <3> SUFFICES ASSUME startup PROVE saved' = Run(since, thread.entry)
        OBVIOUS
    <3>1. thread.entry >= 1 /\ conf.pc # "over"
      BY <2>1 DEF ThreadInv
    <3>2. saved = Run(since, thread.entry - 1) /\ since \in 1 .. thread.entry
      BY <2>4, <3>1 DEF SavedInv
    <3>3. saved' = Append(saved, thread.entry)
      BY <1>6 DEF Keep
    <3>4. thread.entry - 1 \in Nat /\ since \in Nat /\ since \in 1 .. (thread.entry - 1) + 1
      BY <1>1, <3>1, <3>2
    <3>5. Append(Run(since, thread.entry - 1), (thread.entry - 1) + 1)
             = Run(since, (thread.entry - 1) + 1)
      BY <3>4, RunGrows
    <3>6. (thread.entry - 1) + 1 = thread.entry
      BY <1>1
    <3> QED BY <3>2, <3>3, <3>5, <3>6
  <2>6. ~startup => saved' = saved
    BY <1>6 DEF Keep
  <2>7. SavedInv'
    BY <1>1, <1>2, <2>4, <2>5, <2>6 DEF SavedInv
  <2> QED BY <1>3, <1>4, <1>5, <2>3, <2>7
<1>7. CASE Deliver
  <2> PICK g \in DOMAIN callbacks : g = thread.given + 1
      BY <1>1, <1>7 DEF Deliver
  <2>1. /\ thread'.pc = "deliver" /\ thread'.given = g /\ thread.pc = "deliver"
        /\ g = thread.given + 1 /\ g \in Nat
        /\ seen' = [seen EXCEPT ![callbacks[g]] = Append(@, thread.entry)]
        /\ saved' = saved
    BY <1>1, <1>7 DEF Deliver, ThreadStates
  <2>2. \A i \in DOMAIN callbacks : i # g => GivenTo(i)' = GivenTo(i)
    BY <1>1, <1>2, <2>1 DEF GivenTo
  <2>3. GivenTo(g)' = thread.entry /\ GivenTo(g) = thread.entry - 1
    BY <1>1, <1>2, <2>1 DEF GivenTo
  <2>4. thread.entry >= 1
    BY <2>1 DEF ThreadInv
  <2>5. CallbackInv'
    BY <1>1, <1>2, <2>1, <2>2, <2>3, <2>4 DEF CallbackInv
  <2>6. \A i \in DOMAIN callbacks : i # g =>
            seen'[callbacks[i]] = seen[callbacks[i]]
    BY <1>1, <2>1 DEF CallbackInv, TypeOK
  <2>7. seen'[callbacks[g]] = Run(due[callbacks[g]], thread.entry)
    <3>1. seen[callbacks[g]] = Run(due[callbacks[g]], thread.entry - 1)
      BY <2>1, <2>3 DEF SeenInv
    <3>2. seen'[callbacks[g]] = Append(seen[callbacks[g]], thread.entry)
      BY <1>1, <2>1 DEF TypeOK
    <3>3. thread.entry - 1 \in Nat /\ due[callbacks[g]] \in Nat
          /\ due[callbacks[g]] \in 1 .. (thread.entry - 1) + 1
      BY <1>1, <2>1, <2>3, <2>4 DEF CallbackInv
    <3>4. Append(Run(due[callbacks[g]], thread.entry - 1), (thread.entry - 1) + 1)
             = Run(due[callbacks[g]], (thread.entry - 1) + 1)
      BY <3>3, RunGrows
    <3>5. (thread.entry - 1) + 1 = thread.entry
      BY <1>1
    <3> QED BY <3>1, <3>2, <3>4, <3>5
  <2>8. SeenInv'
    BY <1>2, <2>2, <2>3, <2>6, <2>7 DEF SeenInv
  <2>9. SavedInv'
    BY <1>2, <2>1 DEF SavedInv, Unkept
  <2> QED BY <1>3, <1>4, <1>5, <2>5, <2>8, <2>9
<1>8. CASE Delivered
  <2>1. /\ thread'.pc = "pop" /\ thread.pc = "deliver"
        /\ UNCHANGED <<seen, saved>>
        /\ thread.given >= Len(callbacks)
    BY <1>1, <1>8 DEF Delivered, ThreadStates
  <2>2. \A i \in DOMAIN callbacks : GivenTo(i)' = GivenTo(i)
    BY <1>1, <1>2, <2>1 DEF GivenTo
  <2>3. CallbackInv' /\ SeenInv'
    BY <1>2, <2>1, <2>2 DEF CallbackInv, SeenInv
  <2>4. SavedInv'
    BY <1>2, <2>1 DEF SavedInv, Unkept
  <2> QED BY <1>3, <1>4, <1>5, <2>3, <2>4
<1> QED BY <1>6, <1>7, <1>8

-----------------------------------------------------------------------------
(* Who configures.                                                         *)

LEMMA PauseInv == ASSUME NEW op \in Ops, Inv, Pause(op) PROVE DataInv'
<1> USE DEF Inv, DataInv
<1>1. /\ queue \in Seq(Nat) /\ logged \in Nat /\ thread.entry \in Nat
  BY ThreadMoves DEF TypeOK
<1>2. /\ conf.pc = "idle" /\ conf'.pc = "join" /\ conf'.mark = logged
      /\ \/ ~deltas /\ queue' = Append(queue, Marker) /\ logged' = logged
         \/ deltas /\ queue' = Append(queue, logged + 1) /\ logged' = logged + 1
      /\ UNCHANGED <<startup, saved, callbacks, thread, unborn, seen, since, due, deltas>>
  BY DEF Pause, LogMarker
<1>3. ThreadInv'
  BY <1>1, <1>2 DEF ThreadInv
<1>4. CallbackInv' /\ SeenInv'
  BY <1>2, SameSeen
<1>5. SavedInv'
  BY <1>2 DEF SavedInv, Unkept
<1>6. Ordered(queue, thread.entry, logged)'
  <2>1. thread.entry <= logged
    BY DEF ThreadInv
  <2> QED BY <1>1, <1>2, <2>1, OrderedMarker, OrderedEntry
<1>7. StopInv'
  <2> SUFFICES ASSUME unborn = 0 PROVE StopInv'
      BY <1>2 DEF StopInv
  <2>1. thread.pc # "none" /\ thread.pc # "ended" /\ Unmarked
    BY <1>2 DEF StopInv
  <2>2. /\ DOMAIN queue' = 1 .. Len(queue) + 1 /\ Len(queue) \in Nat
        /\ queue'[Len(queue) + 1] = IF deltas THEN logged + 1 ELSE Marker
        /\ \A i \in DOMAIN queue' : i < Len(queue) + 1 =>
              i \in DOMAIN queue /\ queue'[i] = queue[i]
    BY <1>1, <1>2 DEF Marker
  <2>3. ~deltas =>
         \E m \in DOMAIN queue' :
           /\ queue'[m] = Marker
           /\ \A i \in DOMAIN queue' : i < m => queue'[i] # Marker
           /\ \A i \in DOMAIN queue' : i > m => queue'[i] # Marker /\ queue'[i] > conf'.mark
    <3>1. Len(queue) + 1 \in DOMAIN queue'
      BY <2>2
    <3>2. \A i \in DOMAIN queue' : i <= Len(queue) + 1
      BY <2>2
    <3> QED BY <3>1, <3>2, <2>1, <2>2 DEF Unmarked
  <2>4. deltas => Unmarked'
    <3>1. logged + 1 # Marker
      BY <1>1 DEF Marker
    <3>2. \A i \in DOMAIN queue' : i < Len(queue) + 1 \/ i = Len(queue) + 1
      BY <2>2
    <3> QED BY <2>1, <2>2, <3>1, <3>2 DEF Unmarked
  <2> QED BY <1>1, <1>2, <2>1, <2>3, <2>4 DEF StopInv
<1> QED BY <1>3, <1>4, <1>5, <1>6, <1>7

LEMMA SetStartupLoggingInv == Inv /\ SetStartupLogging => DataInv'
<1> SUFFICES ASSUME Inv, SetStartupLogging PROVE DataInv'
    OBVIOUS
<1> USE DEF Inv, DataInv
<1>1. /\ conf.pc = "idle" /\ saved' = <<>> /\ since' = Unkept
      /\ UNCHANGED <<queue, callbacks, thread, conf, logged, unborn, seen, due, deltas>>
  BY DEF SetStartupLogging
<1>2. ThreadInv' /\ StopInv' /\ Ordered(queue, thread.entry, logged)'
  BY <1>1 DEF ThreadInv, StopInv, Unmarked
<1>3. CallbackInv' /\ SeenInv'
  BY <1>1, SameSeen
<1>4. Unkept \in Nat /\ Unkept >= 1
  <2>1. thread.entry \in Nat
    BY ThreadMoves DEF TypeOK
  <2> QED BY <2>1 DEF Unkept, ThreadInv
<1>5. Run(Unkept, Unkept - 1) = <<>>
  <2>1. Unkept - 1 \in Nat /\ (Unkept - 1) + 1 = Unkept
    BY <1>4
  <2> QED BY <2>1, RunEmpty
<1>6. Unkept' = Unkept
  BY <1>1 DEF Unkept
<1>7. SavedInv'
  BY <1>1, <1>4, <1>5, <1>6 DEF SavedInv
<1> QED BY <1>2, <1>3, <1>7

LEMMA JoinInv == Inv /\ Join => DataInv'
<1> SUFFICES ASSUME Inv, Join PROVE DataInv'
    OBVIOUS
<1> USE DEF Inv, DataInv
<1>1. thread \in ThreadStates /\ conf \in ConfStates
  BY DEF TypeOK
<1>2. /\ conf.pc = "join" /\ conf'.pc = "change" /\ conf'.mark = conf.mark
      /\ thread.pc \in {"none", "ended"} /\ thread'.pc = "none"
      /\ thread'.entry = thread.entry /\ thread'.given = thread.given
      /\ UNCHANGED <<queue, startup, saved, callbacks, logged, unborn, seen, since, due, deltas>>
  BY <1>1 DEF Join, ThreadStates, ConfStates
<1>3. ThreadInv'
  BY <1>2 DEF ThreadInv
<1>4. \A i : GivenTo(i)' = GivenTo(i)
  BY <1>2 DEF GivenTo
<1>5. CallbackInv' /\ SeenInv'
  BY <1>2, <1>4 DEF CallbackInv, SeenInv
<1>6. SavedInv'
  BY <1>2 DEF SavedInv, Unkept
<1>7. StopInv'
  <2> SUFFICES ASSUME unborn = 0 PROVE StopInv'
      BY <1>2 DEF StopInv
  <2>1. Unmarked /\ thread.entry >= conf.mark /\ conf.mark <= logged
    BY <1>2 DEF StopInv
  <2> QED BY <1>2, <2>1 DEF StopInv, Unmarked
<1> QED BY <1>2, <1>3, <1>5, <1>6, <1>7

(* Between stop() and startLog() there is no thread, and every callback is *)
(* up to the last entry that was taken.                                    *)
LEMMA Stopped ==
    ASSUME Inv, conf.pc \in {"change", "resume"}
    PROVE  /\ thread.pc = "none" /\ thread.entry \in Nat
           /\ Unkept = thread.entry + 1
           /\ \A i : GivenTo(i) = thread.entry
           /\ callbacks \in Seq(Callbacks)
           /\ DOMAIN callbacks = 1 .. Len(callbacks)
           /\ \A i \in DOMAIN callbacks : callbacks[i] \in Callbacks
<1> USE DEF Inv, DataInv
<1>1. thread.pc = "none"
  BY DEF ThreadInv
<1>2. thread.entry \in Nat
  BY ThreadMoves DEF TypeOK
<1>3. callbacks \in Seq(Callbacks)
  BY DEF TypeOK
<1>4. DOMAIN callbacks = 1 .. Len(callbacks) /\ \A i \in DOMAIN callbacks : callbacks[i] \in Callbacks
  BY <1>3
<1> QED BY <1>1, <1>2, <1>3, <1>4 DEF Unkept, GivenTo

(* A change that concerns the callbacks alone: the rest stays as it was.   *)
LEMMA ChangeInv ==
    ASSUME Inv, conf.pc = "change",
           conf' = [conf EXCEPT !.pc = "resume"],
           UNCHANGED <<queue, startup, saved, thread, logged, unborn, since, deltas>>
    PROVE  /\ ThreadInv' /\ SavedInv' /\ StopInv'
           /\ Ordered(queue, thread.entry, logged)'
           /\ \A i : GivenTo(i)' = thread.entry
<1> USE DEF Inv, DataInv
<1>1. conf'.pc = "resume" /\ conf'.mark = conf.mark
  BY DEF TypeOK, ConfStates
<1>2. ThreadInv' /\ SavedInv' /\ Ordered(queue, thread.entry, logged)'
  BY <1>1 DEF ThreadInv, SavedInv, Unkept
<1>3. StopInv'
  BY <1>1 DEF StopInv, Unmarked, ThreadInv
<1>4. \A i : GivenTo(i)' = thread.entry
  BY Stopped DEF GivenTo
<1> QED BY <1>2, <1>3, <1>4

LEMMA AddCallbackInv == ASSUME NEW c \in Callbacks, Inv, AddCallback(c) PROVE DataInv'
<1> DEFINE first == IF startup THEN since ELSE Unkept
<1>1. /\ conf.pc = "change" /\ conf' = [conf EXCEPT !.pc = "resume"]
      /\ due[c] = 0
      /\ callbacks' = Append(callbacks, c)
      /\ seen' = [seen EXCEPT ![c] = saved]
      /\ due' = [due EXCEPT ![c] = first]
      /\ UNCHANGED <<queue, startup, saved, thread, logged, unborn, since, deltas>>
  BY DEF AddCallback, Changed
<1>2. /\ ThreadInv' /\ SavedInv' /\ StopInv'
      /\ Ordered(queue, thread.entry, logged)'
      /\ \A i : GivenTo(i)' = thread.entry
  BY <1>1, ChangeInv
<1>3. /\ thread.entry \in Nat /\ Unkept = thread.entry + 1
      /\ \A i : GivenTo(i) = thread.entry
      /\ callbacks \in Seq(Callbacks)
      /\ DOMAIN callbacks = 1 .. Len(callbacks)
      /\ \A i \in DOMAIN callbacks : callbacks[i] \in Callbacks
  BY <1>1, Stopped
<1>4. seen \in [Callbacks -> Seq(Nat)] /\ due \in [Callbacks -> Nat]
  BY DEF Inv, TypeOK
<1>5. first \in 1 .. thread.entry + 1 /\ saved = Run(first, thread.entry)
  <2>1. since \in 1 .. Unkept /\ saved = IF startup THEN Run(since, Unkept - 1) ELSE <<>>
    BY <1>1 DEF Inv, DataInv, SavedInv
  <2>2. Unkept - 1 = thread.entry
    BY <1>3
  <2>3. Run(thread.entry + 1, thread.entry) = <<>>
    BY <1>3, RunEmpty
  <2> QED BY <1>3, <2>1, <2>2, <2>3
<1> HIDE DEF first
<1>6. \A i \in DOMAIN callbacks : callbacks[i] # c
  BY <1>1, <1>3 DEF Inv, DataInv, CallbackInv
<1>7. /\ seen'[c] = saved /\ due'[c] = first
      /\ \A i \in DOMAIN callbacks : /\ seen'[callbacks[i]] = seen[callbacks[i]]
                                    /\ due'[callbacks[i]] = due[callbacks[i]]
  BY <1>1, <1>3, <1>4, <1>6
<1>8. \A i \in DOMAIN callbacks' :
          \/ i \in DOMAIN callbacks /\ callbacks'[i] = callbacks[i]
          \/ i = Len(callbacks) + 1 /\ callbacks'[i] = c
  BY <1>1, <1>3
<1>9. CallbackInv'
  <2>1. \A i, j \in DOMAIN callbacks' : i # j => callbacks'[i] # callbacks'[j]
    BY <1>6, <1>8 DEF Inv, DataInv, CallbackInv
  <2>2. ASSUME NEW i \in DOMAIN callbacks'
        PROVE  due'[callbacks'[i]] \in 1 .. thread.entry + 1
    BY <1>3, <1>5, <1>7, <1>8 DEF Inv, DataInv, CallbackInv
  <2> QED BY <1>2, <2>1, <2>2 DEF CallbackInv
<1>10. SeenInv'
  <2>1. ASSUME NEW i \in DOMAIN callbacks'
        PROVE  seen'[callbacks'[i]] = Run(due'[callbacks'[i]], thread.entry)
    BY <1>3, <1>5, <1>7, <1>8 DEF Inv, DataInv, SeenInv
  <2> QED BY <1>2, <2>1 DEF SeenInv
<1> QED BY <1>2, <1>9, <1>10 DEF DataInv

LEMMA RemoveCallbackInv == ASSUME NEW c \in Callbacks, Inv, RemoveCallback(c) PROVE DataInv'
<1>1. /\ conf.pc = "change" /\ conf' = [conf EXCEPT !.pc = "resume"]
      /\ UNCHANGED <<queue, startup, saved, thread, logged, unborn, since, seen, due, deltas>>
  BY DEF RemoveCallback, Changed
<1>2. /\ ThreadInv' /\ SavedInv' /\ StopInv'
      /\ Ordered(queue, thread.entry, logged)'
      /\ \A i : GivenTo(i)' = thread.entry
  BY <1>1, ChangeInv
<1>3. /\ \A i : GivenTo(i) = thread.entry
      /\ callbacks \in Seq(Callbacks)
      /\ DOMAIN callbacks = 1 .. Len(callbacks)
  BY <1>1, Stopped
<1>4. CASE callbacks' = callbacks
  BY <1>1, <1>2, <1>3, <1>4 DEF Inv, DataInv, CallbackInv, SeenInv
<1>5. ASSUME NEW k \in DOMAIN callbacks,
             callbacks' = [i \in 1 .. Len(callbacks) - 1 |->
                             callbacks[IF i < k THEN i ELSE i + 1]]
      PROVE  CallbackInv' /\ SeenInv'
  <2> DEFINE old(i) == IF i < k THEN i ELSE i + 1
  <2>1. DOMAIN callbacks' = 1 .. Len(callbacks) - 1
    BY <1>5
  <2>2. \A i \in DOMAIN callbacks' : old(i) \in DOMAIN callbacks /\ callbacks'[i] = callbacks[old(i)]
    BY <1>3, <1>5
  <2>3. \A i, j \in DOMAIN callbacks' : i # j => old(i) # old(j)
    BY <1>3, <2>1
  <2> HIDE DEF old
  <2>4. CallbackInv'
    BY <1>1, <1>2, <1>3, <2>2, <2>3 DEF Inv, DataInv, CallbackInv
  <2>5. SeenInv'
    BY <1>1, <1>2, <1>3, <2>2 DEF Inv, DataInv, SeenInv
  <2> QED BY <2>4, <2>5
<1>6. CallbackInv' /\ SeenInv'
  BY <1>4, <1>5, <1>1, <1>2, <1>3 DEF RemoveCallback, Inv, DataInv, CallbackInv, SeenInv
<1> QED BY <1>2, <1>6 DEF DataInv

LEMMA OtherChangesInv == Inv /\ (RemoveCallbacks \/ SetLogLevels \/ Shutdown) => DataInv'
<1> SUFFICES ASSUME Inv, RemoveCallbacks \/ SetLogLevels \/ Shutdown PROVE DataInv'
    OBVIOUS
<1>1. CASE RemoveCallbacks
  <2>1. /\ conf.pc = "change" /\ conf' = [conf EXCEPT !.pc = "resume"] /\ callbacks' = <<>>
        /\ UNCHANGED <<queue, startup, saved, thread, logged, unborn, since, deltas>>
    BY <1>1 DEF RemoveCallbacks, Changed
  <2>2. CallbackInv' /\ SeenInv'
    BY <2>1 DEF CallbackInv, SeenInv
  <2> QED BY <2>1, <2>2, ChangeInv DEF DataInv
<1>2. CASE SetLogLevels
  <2>1. /\ conf.pc = "change" /\ conf' = [conf EXCEPT !.pc = "resume"]
        /\ UNCHANGED <<queue, startup, saved, callbacks, thread, logged, unborn, seen, since, due, deltas>>
    BY <1>2 DEF SetLogLevels, Changed
  <2>2. CallbackInv' /\ SeenInv'
    BY <2>1, SameSeen DEF Inv, DataInv
  <2> QED BY <2>1, <2>2, ChangeInv DEF DataInv
<1>3. CASE Shutdown
  <2>1. conf \in ConfStates
    BY DEF Inv, TypeOK
  <2>2. /\ conf.pc = "change" /\ conf'.pc = "over" /\ conf'.mark = conf.mark
        /\ callbacks' = <<>> /\ saved' = <<>>
        /\ UNCHANGED <<queue, startup, thread, logged, unborn, seen, since, due, deltas>>
    BY <1>3, <2>1 DEF Shutdown, ConfStates
  <2>3. CallbackInv' /\ SeenInv'
    BY <2>2 DEF CallbackInv, SeenInv
  <2>4. ThreadInv' /\ SavedInv' /\ Ordered(queue, thread.entry, logged)'
    BY <2>2 DEF Inv, DataInv, ThreadInv, SavedInv, Unkept
  <2>5. StopInv'
    BY <2>2 DEF Inv, DataInv, StopInv, Unmarked, ThreadInv
  <2> QED BY <2>3, <2>4, <2>5 DEF DataInv
<1> QED BY <1>1, <1>2, <1>3

LEMMA ResumeInv == Inv /\ Resume => DataInv'
<1> SUFFICES ASSUME Inv, Resume PROVE DataInv'
    OBVIOUS
<1> USE DEF Inv, DataInv
<1>1. thread \in ThreadStates /\ conf \in ConfStates /\ logged \in Nat /\ unborn \in Nat
  BY DEF TypeOK
<1>2. thread.pc = "none" /\ thread.entry \in Nat
  BY Stopped DEF Resume
<1>3. /\ conf.pc = "resume" /\ conf'.pc = "idle" /\ conf'.mark = 0
      /\ thread'.pc \in {"none", "pop"} /\ thread'.entry = thread.entry
      /\ unborn' = 0 => unborn = 0 /\ thread'.pc = "pop"
      /\ UNCHANGED <<queue, startup, saved, callbacks, logged, seen, since, due, deltas>>
  BY <1>1, <1>2 DEF Resume, ThreadStates, ConfStates
<1>4. ThreadInv' /\ SavedInv' /\ Ordered(queue, thread.entry, logged)'
  BY <1>2, <1>3 DEF ThreadInv, SavedInv, Unkept
<1>5. \A i : GivenTo(i)' = GivenTo(i)
  BY <1>2, <1>3 DEF GivenTo
<1>6. CallbackInv' /\ SeenInv'
  BY <1>3, <1>5 DEF CallbackInv, SeenInv
<1>7. StopInv'
  BY <1>1, <1>3 DEF StopInv, Unmarked
<1> QED BY <1>4, <1>6, <1>7

LEMMA StutterInv == Inv /\ UNCHANGED vars => DataInv'
<1> SUFFICES ASSUME Inv, UNCHANGED vars PROVE DataInv'
    OBVIOUS
<1> USE DEF Inv, DataInv, vars
<1>1. CallbackInv' /\ SeenInv'
  BY SameSeen
<1>2. ThreadInv' /\ SavedInv' /\ StopInv' /\ Ordered(queue, thread.entry, logged)'
  BY DEF ThreadInv, SavedInv, StopInv, Unkept, Unmarked
<1> QED BY <1>1, <1>2

LEMMA NextInv == Inv /\ [Next]_vars => Inv'
<1> SUFFICES ASSUME Inv, [Next]_vars PROVE Inv'
    OBVIOUS
<1>1. TypeOK'
  BY NextType DEF Inv, DataInv
<1>2. DataInv'
  <2>1. ASSUME NEW op \in Wanted, Pause(op) PROVE DataInv'
    BY <2>1, PauseInv DEF Wanted
  <2>2. ASSUME NEW c \in Callbacks, AddCallback(c) \/ RemoveCallback(c) PROVE DataInv'
    BY <2>2, AddCallbackInv, RemoveCallbackInv
  <2> QED BY <2>1, <2>2, LogInv, PopInv, ThreadStepInv, SetStartupLoggingInv, JoinInv,
             OtherChangesInv, ResumeInv, StutterInv DEF Next, Thread, Configure, Finish
<1> QED BY <1>1, <1>2 DEF Inv

LEMMA SpecInv == Spec => []Inv
  BY InitInv, NextInv, PTL DEF Spec

-----------------------------------------------------------------------------
(* The variables keep their types: the configuration never leaves a thread *)
(* or an entry in a state that run() does not know.                        *)
THEOREM TypeCorrect == Spec => []TypeOK
<1>1. Inv => TypeOK
  BY DEF Inv
<1> QED BY <1>1, SpecInv, PTL

(* The callbacks, their levels and the entries kept are changed and        *)
(* replayed only while there is no log thread.                             *)
THEOREM ChangesExclusive == Spec => []ChangesAreExclusive
<1>1. Inv => ChangesAreExclusive
  BY DEF Inv, DataInv, ThreadInv, ChangesAreExclusive
<1> QED BY <1>1, SpecInv, PTL

(* Whatever is reconfigured while entries are logged, a callback is given  *)
(* each entry that is due to it once and in order.                         *)
THEOREM EachEntryOnce == Spec => []EachEntryOnceInOrder
<1>1. Inv => EachEntryOnceInOrder
  BY DEF Inv, DataInv, SeenInv, Ordered, Elements, EachEntryOnceInOrder
<1> QED BY <1>1, SpecInv, PTL

(* While every thread could be created, stop() returns after every entry   *)
(* that was logged before it has been given to the callbacks.              *)
THEOREM LastWord == Spec => []StoppedAfterTheLastWord
<1>1. ASSUME Inv PROVE StoppedAfterTheLastWord
  <2> SUFFICES ASSUME conf.pc = "change", unborn = 0
               PROVE  /\ \A c \in Installed : due[c] + Len(seen[c]) > conf.mark
                      /\ Unmarked
      BY DEF StoppedAfterTheLastWord, Unmarked
  <2>1. thread.entry >= conf.mark /\ Unmarked
    BY <1>1 DEF Inv, DataInv, StopInv
  <2>2. /\ thread.entry \in Nat /\ \A i : GivenTo(i) = thread.entry
        /\ conf.mark \in Nat
    BY <1>1, Stopped, ConfMoves DEF Inv, TypeOK
  <2>3. ASSUME NEW i \in DOMAIN callbacks
        PROVE  due[callbacks[i]] + Len(seen[callbacks[i]]) > conf.mark
    <3>1. /\ seen[callbacks[i]] = Run(due[callbacks[i]], thread.entry)
          /\ due[callbacks[i]] \in 1 .. thread.entry + 1
      BY <1>1, <2>2 DEF Inv, DataInv, SeenInv, CallbackInv
    <3>2. Len(seen[callbacks[i]]) = thread.entry + 1 - due[callbacks[i]]
      <4>1. due[callbacks[i]] \in Nat
        BY <2>2, <3>1
      <4> QED BY <2>2, <3>1, <4>1, RunType
    <3> QED BY <2>1, <2>2, <3>1, <3>2
  <2> QED BY <2>1, <2>3 DEF Installed
<1> QED BY <1>1, SpecInv, PTL
=============================================================================
