------------------------ MODULE SGSubsystemMgr_proofs -------------------------
(***************************************************************************)
(* Theorems about SGSubsystemMgr, for any number of groups, subsystems and *)
(* groups among them: what the manager removes by name is forgotten by its *)
(* cache, every subsystem gets its calls in turn, and none is left out.    *)
(*                                                                         *)
(* The invariant says that the state of a group tells what each of its     *)
(* members has been told, that a group inside a group has the state it was *)
(* told of, and that the states of the manager's groups follow the phase.  *)
(***************************************************************************)
EXTENDS SGSubsystemMgr, TLAPS, SequenceTheorems

(* What a group's state and position say of the i-th member's last call.   *)
Expected(st, pos, i) ==
    CASE st = "invalid" -> {"add"}
      [] st = "bind"    -> IF i <= pos THEN {"init"} ELSE {"bind"}
      [] st = "unbind"  -> {"add", "unbind"}
      [] OTHER          -> {st}

MembersTold ==
    /\ \A g \in Groups : \A i \in 1 .. Len(members[g]) :
          life[members[g][i]] \in Expected(gstate[g], initPosition[g], i)
    /\ \A s \in Subs : s \notin In(Home[s]) => life[s] = "remove"

(* A group that is a member is in the state it was told of.                *)
StateOf(l) == IF l \in {"add", "remove"} THEN "invalid" ELSE l
SubGroupsFollow ==
    \A h \in SubGroups :
        /\ gstate[h] = StateOf(life[h])
        /\ initPosition[h] >= 0 => Attached(h) /\ initPosition[Home[h]] >= 0

PositionsInRange ==
    \A g \in Groups : gstate[g] = "bind" => initPosition[g] <= Len(members[g])

AllGroups(st) == \A g \in Top : gstate[g] = st
AtStart == mgrPosition = 0 /\ \A g \in Top : initPosition[g] = -1

PhaseInv ==
    /\ phase = "created" => AllGroups("invalid") /\ AtStart
    /\ phase = "bound" => AllGroups("bind") /\ AtStart
    /\ phase = "initing" =>
          /\ \A g \in Top : gstate[g] = IF g < mgrPosition THEN "init" ELSE "bind"
          /\ \A g \in Top : g > mgrPosition => initPosition[g] = -1
    /\ phase = "inited" => AllGroups("init")
    /\ phase = "running" => AllGroups("postinit")
    /\ phase = "down" => (AllGroups("shutdown") \/ AllGroups("bind")) /\ AtStart
    /\ phase = "unbound" => AllGroups("unbind") /\ AtStart
    /\ phase # "failed"

ListsOK ==
    /\ members \in [Groups -> Seq(Subs)]
    /\ \A g \in Groups : \A i \in 1 .. Len(members[g]) : Home[members[g][i]] = g
    /\ \A g \in Groups : \A i, j \in 1 .. Len(members[g]) : members[g][i] = members[g][j] => i = j

StatesOK ==
    /\ gstate \in [Groups -> States]
    /\ initPosition \in [Groups -> Nat \cup {-1}]
    /\ mgrPosition \in 0 .. MAX_GROUPS
    /\ cache \in [Subs -> {"none", "entry", "stale"}]
    /\ phase \in {"created", "bound", "initing", "inited", "running", "down", "unbound", "failed"}
    /\ life \in [Subs -> Calls \cup {"wrong"}]
    /\ interrupted \in BOOLEAN
    /\ aside \subseteq Subs

(* What holds whatever the program does, and what holds as long as it      *)
(* changes nothing in the middle of a phase.                               *)
TypeInv == ListsOK /\ StatesOK /\ RemovedIsForgotten
InStep == MembersTold /\ SubGroupsFollow /\ PositionsInRange /\ PhaseInv
IInv == TypeInv /\ (~interrupted => InStep)

-----------------------------------------------------------------------------
(* Facts about lists and about what the helpers return.                    *)

LEMMA GroupFacts ==
    /\ Top \subseteq Int /\ Top \cap SubGroups = {} /\ Top \cap Subs = {}
    /\ SubGroups \subseteq Subs
    /\ \A s \in Subs : Home[s] \in Groups
    /\ \A h \in SubGroups : Home[h] \in Top /\ h \in Groups
    /\ \A g \in Groups : g \in Top \/ g \in SubGroups
BY SubsystemAssumption DEF Top, Groups

LEMMA ToldType == \A l, c : Told(l, c) \in {c, "wrong"}
BY DEF Told

LEMMA InIsHome == ASSUME ListsOK, NEW g \in Groups, NEW s \in In(g) PROVE s \in Subs /\ Home[s] = g
BY DEF ListsOK, In

LEMMA AppendList ==
    ASSUME ListsOK, NEW g \in Groups, NEW s \in Subs, s \notin In(g), Home[s] = g,
           members' = [members EXCEPT ![g] = Append(@, s)]
    PROVE  ListsOK'
<1>1. members[g] \in Seq(Subs) /\ Append(members[g], s) \in Seq(Subs)
  BY DEF ListsOK
<1>2. /\ Len(Append(members[g], s)) = Len(members[g]) + 1
      /\ \A i \in 1 .. Len(members[g]) : Append(members[g], s)[i] = members[g][i]
      /\ Append(members[g], s)[Len(members[g]) + 1] = s
  BY <1>1
<1>3. members' \in [Groups -> Seq(Subs)]
  BY <1>1 DEF ListsOK
<1>4. \A k \in Groups : \A i \in 1 .. Len(members'[k]) : Home[members'[k][i]] = k
  BY <1>1, <1>2 DEF ListsOK
<1>5. \A k \in Groups : \A i, j \in 1 .. Len(members'[k]) : members'[k][i] = members'[k][j] => i = j
  BY <1>1, <1>2 DEF ListsOK, In
<1> QED BY <1>3, <1>4, <1>5 DEF ListsOK

Distinct(list) == \A i, j \in 1 .. Len(list) : list[i] = list[j] => i = j
Contains(list, s) == \E i \in 1 .. Len(list) : list[i] = s

\* e is list without s: what is left is still there, none further back than before.
IsWithout(e, list, s) ==
    /\ e \in Seq(Subs)
    /\ Len(e) = Len(list) - 1
    /\ \A k \in 1 .. Len(list) - 1 :
          e[k] # s /\ \E i \in 1 .. Len(list) : i >= k /\ e[k] = list[i]
    /\ \A i, j \in 1 .. Len(list) - 1 : e[i] = e[j] => i = j
    /\ \A i \in 1 .. Len(list) : list[i] # s => \E k \in 1 .. Len(list) - 1 : e[k] = list[i]

LEMMA EraseFacts ==
    ASSUME NEW list \in Seq(Subs), NEW s, Contains(list, s), Distinct(list)
    PROVE  IsWithout(Erase(list, s), list, s)
<1> DEFINE at == CHOOSE i \in 1 .. Len(list) : list[i] = s
           e == [k \in 1 .. Len(list) - 1 |-> IF k < at THEN list[k] ELSE list[k + 1]]
<1>1. at \in 1 .. Len(list) /\ list[at] = s
  BY DEF Contains
<1>2. Erase(list, s) = e
  BY DEF Erase
<1>3. Len(list) \in Nat /\ Len(list) - 1 \in Nat
  BY <1>1
<1> HIDE DEF at
<1>4. \A k \in 1 .. Len(list) - 1 : e[k] \in Subs
  BY <1>1, <1>3
<1>5. e \in Seq(Subs) /\ Len(e) = Len(list) - 1
  <2>1. e \in [1 .. Len(list) - 1 -> Subs] /\ DOMAIN e = 1 .. Len(list) - 1
    BY <1>4
  <2>2. e \in Seq(Subs)
    BY <2>1, <1>3, SeqDef
  <2> QED BY <2>1, <2>2, <1>3, LenProperties
<1>6. \A k \in 1 .. Len(list) - 1 : e[k] # s /\ \E i \in 1 .. Len(list) : i >= k /\ e[k] = list[i]
  BY <1>1, <1>3 DEF Distinct
<1>7. \A i, j \in 1 .. Len(list) - 1 : e[i] = e[j] => i = j
  BY <1>1, <1>3 DEF Distinct
<1>8. \A i \in 1 .. Len(list) : list[i] # s => \E k \in 1 .. Len(list) - 1 : e[k] = list[i]
  <2> TAKE i \in 1 .. Len(list)
  <2> HAVE list[i] # s
  <2>1. CASE i < at
    BY <2>1, <1>1, <1>3
  <2>2. CASE i > at
    <3>1. i - 1 \in 1 .. Len(list) - 1 /\ ~(i - 1 < at) /\ e[i - 1] = list[i]
      BY <2>2, <1>1, <1>3
    <3> QED BY <3>1
  <2> QED BY <2>1, <2>2, <1>1
<1> HIDE DEF e
<1> QED BY <1>2, <1>5, <1>6, <1>7, <1>8 DEF IsWithout

-----------------------------------------------------------------------------
(* Types and the cache, which hold whatever the program does.              *)

LEMMA TellAllType ==
    ASSUME StatesOK, NEW S, NEW call \in Calls
    PROVE  TellAll(S, call) \in [Subs -> Calls \cup {"wrong"}]
BY ToldType DEF TellAll, StatesOK

LEMMA CatchUpType ==
    ASSUME NEW l \in Calls \cup {"wrong"}, NEW st
    PROVE  CatchUp(l, st) \in Calls \cup {"wrong"}
BY ToldType DEF CatchUp, Calls

LEMMA JoinType ==
    ASSUME TypeInv, NEW g \in Groups, NEW s \in Subs, Join(g, s), UNCHANGED <<cache, aside>>
    PROVE  TypeInv'
<1> USE DEF TypeInv
<1>1. ListsOK'
  BY AppendList DEF Join
<1>2. Told(life[s], "add") \in Calls \cup {"wrong"}
  BY ToldType DEF Calls
<1>3. life' \in [Subs -> Calls \cup {"wrong"}]
  <2> SUFFICES ASSUME NEW x \in Subs PROVE life'[x] \in Calls \cup {"wrong"} /\ life' \in [Subs -> {life'[y] : y \in Subs}]
    BY DEF Join
  <2> life[x] \in Calls \cup {"wrong"}
    BY DEF StatesOK
  <2> QED BY <1>2, CatchUpType DEF Join
<1>4. gstate' \in [Groups -> States]
  BY DEF Join, StatesOK
<1>5. StatesOK'
  BY <1>3, <1>4 DEF Join, StatesOK
<1> QED BY <1>1, <1>5 DEF RemovedIsForgotten

LEMMA LeaveType ==
    ASSUME TypeInv, NEW s \in Subs, Leave(s)
    PROVE  /\ ListsOK'
           /\ cache' \in [Subs -> {"none", "entry", "stale"}] /\ aside' \subseteq Subs => StatesOK'
<1> USE DEF TypeInv
<1> DEFINE g == Home[s]
<1>1. g \in Groups /\ members[g] \in Seq(Subs)
  BY GroupFacts DEF ListsOK
<1>2. Contains(members[g], s)
  BY <1>1 DEF Leave, In, Contains
<1>3. Distinct(members[g])
  BY <1>1 DEF ListsOK, Distinct
<1> HIDE DEF g
<1> DEFINE e == Erase(members[g], s)
<1>4. IsWithout(e, members[g], s)
  BY <1>1, <1>2, <1>3, EraseFacts
<1>5. members' = [k \in Groups |-> CASE k = g -> e [] k = s -> <<>> [] OTHER -> members[k]]
  BY DEF Leave, g
<1>6. ListsOK'
  <2> HIDE DEF e
  <2>0. Len(<<>>) = 0
    OBVIOUS
  <2>1. \A k \in Groups : (members'[k] = e /\ k = g) \/ members'[k] = <<>> \/ members'[k] = members[k]
    BY <1>5
  <2>2. members' \in [Groups -> Seq(Subs)]
    BY <1>4, <1>5, <2>1 DEF ListsOK, IsWithout
  <2>3. \A i \in 1 .. Len(e) : Home[e[i]] = g
    BY <1>1, <1>4 DEF ListsOK, IsWithout
  <2>4. \A k \in Groups : \A i \in 1 .. Len(members'[k]) : Home[members'[k][i]] = k
    BY <2>0, <2>1, <2>3 DEF ListsOK
  <2>5. \A i, j \in 1 .. Len(e) : e[i] = e[j] => i = j
    BY <1>4 DEF IsWithout
  <2>6. \A k \in Groups : \A i, j \in 1 .. Len(members'[k]) : members'[k][i] = members'[k][j] => i = j
    BY <2>0, <2>1, <2>5 DEF ListsOK
  <2> QED BY <2>2, <2>4, <2>6 DEF ListsOK
<1>7. life' \in [Subs -> Calls \cup {"wrong"}]
  <2>1. \A l : Told(l, "remove") \in Calls \cup {"wrong"}
    BY ToldType DEF Calls
  <2> QED BY <2>1 DEF Leave, StatesOK
<1>8. gstate' \in [Groups -> States] /\ initPosition' \in [Groups -> Nat \cup {-1}]
  BY DEF Leave, StatesOK, States
<1> QED BY <1>6, <1>7, <1>8 DEF StatesOK, Leave

LEMMA SweepType ==
    ASSUME TypeInv, NEW S, NEW D, NEW call \in {"bind", "init", "postinit", "shutdown", "unbind"},
           life' = TellAll(S, call),
           gstate' = [g \in Groups |-> IF g \in D THEN call ELSE gstate[g]]
    PROVE  /\ life' \in [Subs -> Calls \cup {"wrong"}]
           /\ gstate' \in [Groups -> States]
<1>1. call \in Calls /\ call \in States
  BY DEF Calls, States
<1> QED BY <1>1, TellAllType DEF TypeInv, StatesOK

LEMMA MembersKept ==
    ASSUME TypeInv, members' = members
    PROVE  ListsOK'
BY DEF TypeInv, ListsOK

LEMMA CacheKept ==
    ASSUME TypeInv, UNCHANGED <<cache, aside>>
    PROVE  RemovedIsForgotten' /\ aside' \subseteq Subs /\ cache' \in [Subs -> {"none", "entry", "stale"}]
BY DEF TypeInv, StatesOK, RemovedIsForgotten

LEMMA PositionType ==
    ASSUME TypeInv, NEW g \in Groups
    PROVE  Position(g) \in Nat
BY DEF TypeInv, StatesOK, Position

LEMMA IncrementalInitType ==
    ASSUME TypeInv, IncrementalInit
    PROVE  TypeInv'
<1>1. ListsOK' /\ RemovedIsForgotten' /\ aside' \subseteq Subs /\ cache' \in [Subs -> {"none", "entry", "stale"}]
  BY MembersKept, CacheKept DEF IncrementalInit
<1>2. CASE mgrPosition = MAX_GROUPS /\ UNCHANGED <<gstate, initPosition, mgrPosition, life>> /\ phase' = "inited"
  BY <1>1, <1>2 DEF IncrementalInit, TypeInv, StatesOK
<1>3. CASE mgrPosition < MAX_GROUPS /\ phase' = "initing" /\ (GroupDone(mgrPosition) \/ GroupGoesOn(mgrPosition))
  <2> DEFINE g == mgrPosition
             c == Current(g)
  <2>1. MAX_GROUPS \in Nat \ {0} /\ g \in Int /\ g >= 0
    BY SubsystemAssumption DEF TypeInv, StatesOK
  <2>2. g \in Groups /\ g \in Top /\ g + 1 \in 0 .. MAX_GROUPS
    BY <2>1, <1>3 DEF Groups, Top
  <2>3. Position(g) \in Nat /\ Position(g) + 1 \in Nat \cup {-1}
    BY <2>2, PositionType
  <2>4. "init" \in Calls /\ "init" \in States
    BY DEF Calls, States
  <2>5. mgrPosition' \in 0 .. MAX_GROUPS
    BY <1>3, <2>2 DEF GroupDone, GroupGoesOn, TypeInv, StatesOK
  <2>6. CASE GroupDone(g)
    BY <1>1, <1>3, <2>4, <2>5, <2>6 DEF GroupDone, IncrementalInit, TypeInv, StatesOK
  <2>7. CASE MemberInits(g)
    <3>1. life' \in [Subs -> Calls \cup {"wrong"}]
      BY <2>4, <2>7, TellAllType DEF MemberInits, TypeInv
    <3>2. initPosition' \in [Groups -> Nat \cup {-1}]
      BY <2>3, <2>7 DEF MemberInits, TypeInv, StatesOK
    <3>3. gstate' \in [Groups -> States]
      BY <2>4, <2>7 DEF MemberInits, TypeInv, StatesOK
    <3> QED BY <1>1, <1>3, <2>5, <3>1, <3>2, <3>3 DEF IncrementalInit, TypeInv, StatesOK
  <2>8. CASE MemberGroupDone(g)
    <3>1. life' \in [Subs -> Calls \cup {"wrong"}]
      BY <2>4, <2>8, TellAllType DEF MemberGroupDone, TypeInv
    <3>2. initPosition' \in [Groups -> Nat \cup {-1}]
      BY <2>3, <2>8 DEF MemberGroupDone, TypeInv, StatesOK
    <3>3. gstate' \in [Groups -> States]
      BY <2>4, <2>8 DEF MemberGroupDone, TypeInv, StatesOK
    <3> QED BY <1>1, <1>3, <2>5, <3>1, <3>2, <3>3 DEF IncrementalInit, TypeInv, StatesOK
  <2>9. CASE MemberGroupGoesOn(g)
    <3>1. life' \in [Subs -> Calls \cup {"wrong"}]
      BY <2>4, <2>9, TellAllType DEF MemberGroupGoesOn, TypeInv
    <3>2. c \in Groups /\ Position(c) \in Nat
      BY <2>9, PositionType DEF MemberGroupGoesOn, Groups
    <3>3. initPosition' \in [Groups -> Nat \cup {-1}]
      BY <2>3, <2>9, <3>2 DEF MemberGroupGoesOn, TypeInv, StatesOK
    <3> QED BY <1>1, <1>3, <2>5, <2>9, <3>1, <3>3 DEF MemberGroupGoesOn, IncrementalInit, TypeInv, StatesOK
  <2> QED BY <1>3, <2>6, <2>7, <2>8, <2>9 DEF GroupGoesOn
<1> QED BY <1>2, <1>3 DEF IncrementalInit

LEMMA InsideSubs == ASSUME TypeInv, NEW s \in Subs PROVE Inside(s) \subseteq Subs
BY InIsHome, GroupFacts DEF Inside, TypeInv, Groups

LEMMA TypeNext == TypeInv /\ [Next]_vars => TypeInv'
<1> SUFFICES ASSUME TypeInv, [Next]_vars PROVE TypeInv'
  OBVIOUS
<1>0. StatesOK
  BY DEF TypeInv
<1>1. CASE Bind
  BY <1>0, <1>1, SweepType, MembersKept, CacheKept DEF Bind, TypeInv, StatesOK
<1>2. CASE InitAll
  BY <1>0, <1>2, SweepType, MembersKept, CacheKept DEF InitAll, TypeInv, StatesOK
<1>3. CASE IncrementalInit
  BY <1>3, IncrementalInitType
<1>4. CASE Postinit
  BY <1>0, <1>4, SweepType, MembersKept, CacheKept DEF Postinit, TypeInv, StatesOK
<1>5. CASE Shutdown
  <2>1. 0 \in 0 .. MAX_GROUPS
    BY SubsystemAssumption
  <2>2. initPosition' \in [Groups -> Nat \cup {-1}]
    BY <1>0, <1>5 DEF Shutdown, StatesOK
  <2> QED BY <1>0, <1>5, <2>1, <2>2, SweepType, MembersKept, CacheKept DEF Shutdown, TypeInv, StatesOK
<1>6. CASE Unbind
  BY <1>0, <1>6, SweepType, MembersKept, CacheKept DEF Unbind, TypeInv, StatesOK
<1>7. CASE SomeMemberThrows
  <2>1. PICK call \in {"bind", "init"} : \E g, i, j : Throws(call, g, i, j)
    BY <1>7 DEF SomeMemberThrows, BindThrows, InitThrows
  <2>2. PICK S, D : /\ life' = TellAll(S, call)
                    /\ gstate' = [k \in Groups |-> IF k \in D THEN call ELSE gstate[k]]
    BY <2>1 DEF Throws
  <2>3. life' \in [Subs -> Calls \cup {"wrong"}] /\ gstate' \in [Groups -> States]
    BY <2>2, SweepType
  <2> QED BY <1>0, <2>1, <2>3, MembersKept, CacheKept DEF Throws, TypeInv, StatesOK
<1>8. CASE RemoveUnknown
  BY <1>0, <1>8, MembersKept DEF RemoveUnknown, TypeInv, StatesOK, RemovedIsForgotten
<1>9. ASSUME NEW s \in Subs, Add(s) PROVE TypeInv'
  BY <1>9, JoinType, GroupFacts DEF Add
<1>10. ASSUME NEW s \in Subs, AddToGroup(s) PROVE TypeInv'
  BY <1>10, JoinType, GroupFacts DEF AddToGroup
<1>11. ASSUME NEW s \in Subs, Replace(s) PROVE TypeInv'
  <2>1. \A l : Told(l, "add") \in Calls \cup {"wrong"} /\ Told(l, "remove") \in Calls \cup {"wrong"}
    BY ToldType DEF Calls
  <2>2. life' \in [Subs -> Calls \cup {"wrong"}]
    <3> SUFFICES ASSUME NEW x \in Subs PROVE life'[x] \in Calls \cup {"wrong"} /\ life' \in [Subs -> {life'[y] : y \in Subs}]
      BY <1>11 DEF Replace
    <3> QED BY <1>0, <1>11, <2>1, CatchUpType DEF Replace, StatesOK
  <2>3. cache' \in [Subs -> {"none", "entry", "stale"}]
    BY <1>0, <1>11 DEF Replace, Stale, StatesOK
  <2>4. aside' \subseteq Subs /\ RemovedIsForgotten'
    <3>1. \A x \in Subs : cache'[x] = "stale" => x \in aside \cup Inside(s)
      BY <1>11 DEF Replace, Stale, TypeInv, RemovedIsForgotten
    <3>2. aside' = StillCached(aside \cup Inside(s))
      BY <1>11 DEF Replace
    <3> QED BY <3>1, <3>2, <1>0, InsideSubs DEF StillCached, RemovedIsForgotten, StatesOK, TypeInv
  <2>5. gstate' \in [Groups -> States] /\ initPosition' \in [Groups -> Nat \cup {-1}]
    BY <1>0, <1>11 DEF Replace, StatesOK, States
  <2>6. interrupted' \in BOOLEAN
    BY <1>0, <1>11 DEF Replace, StatesOK
  <2>7. ListsOK'
    <3>1. Len(<<>>) = 0 /\ <<>> \in Seq(Subs)
      OBVIOUS
    <3>2. \A k \in Groups : members'[k] = <<>> \/ members'[k] = members[k]
      BY <1>11 DEF Replace
    <3>3. members' \in [Groups -> Seq(Subs)]
      BY <1>11, <3>1, <3>2 DEF Replace, TypeInv, ListsOK
    <3> QED BY <3>1, <3>2, <3>3 DEF TypeInv, ListsOK
  <2> QED BY <1>0, <1>11, <2>2, <2>3, <2>4, <2>5, <2>6, <2>7 DEF Replace, TypeInv, StatesOK
<1>12. ASSUME NEW s \in Subs, Remove(s) PROVE TypeInv'
  <2>1. PICK again \in SUBSET (Inside(s) \ {s}) :
           cache' = [x \in Subs |-> IF x \in again THEN "stale" ELSE "none"]
    BY <1>12 DEF Remove, LookedUpAgain
  <2>2. aside' = StillCached(Inside(s) \ {s})
    BY <1>12 DEF Remove
  <2>3. aside' \subseteq Subs /\ RemovedIsForgotten'
    BY <2>1, <2>2, InsideSubs DEF StillCached, RemovedIsForgotten, TypeInv
  <2> QED BY <1>12, <2>1, <2>3, LeaveType DEF Remove, TypeInv
<1>13. ASSUME NEW s \in Subs, RemoveFromGroup(s) PROVE TypeInv'
  <2>1. PICK again \in SUBSET Inside(s) :
           cache' = [x \in Subs |-> IF x \in again THEN "stale" ELSE Stale(Inside(s), cache)[x]]
    BY <1>13 DEF RemoveFromGroup, LookedUpAgain
  <2>2. aside' = StillCached(aside \cup Inside(s))
    BY <1>13 DEF RemoveFromGroup
  <2>3. cache' \in [Subs -> {"none", "entry", "stale"}]
    BY <1>0, <2>1 DEF Stale, StatesOK
  <2>4. \A x \in Subs : cache'[x] = "stale" => x \in aside \cup Inside(s)
    BY <2>1 DEF Stale, TypeInv, RemovedIsForgotten
  <2>5. aside' \subseteq Subs /\ RemovedIsForgotten'
    BY <1>0, <2>2, <2>4, InsideSubs DEF StillCached, RemovedIsForgotten, StatesOK, TypeInv
  <2> QED BY <1>13, <2>3, <2>5, LeaveType DEF RemoveFromGroup, TypeInv
<1>14. ASSUME NEW s \in Subs, Lookup(s) PROVE TypeInv'
  BY <1>0, <1>14, MembersKept DEF Lookup, TypeInv, StatesOK, RemovedIsForgotten
<1>15. CASE UNCHANGED vars
  BY <1>0, <1>15, MembersKept DEF vars, TypeInv, StatesOK, RemovedIsForgotten
<1> QED BY <1>1, <1>2, <1>3, <1>4, <1>5, <1>6, <1>7, <1>8, <1>9, <1>10, <1>11, <1>12, <1>13, <1>14, <1>15 DEF Next

LEMMA TypeInit == Init => TypeInv
<1>1. Init => ListsOK
  BY DEF Init, ListsOK
<1>2. Init => StatesOK /\ RemovedIsForgotten
  <2> SUFFICES ASSUME Init PROVE StatesOK /\ RemovedIsForgotten
    OBVIOUS
  <2>1. mgrPosition \in 0 .. MAX_GROUPS
    BY SubsystemAssumption DEF Init
  <2>2. initPosition \in [Groups -> Nat \cup {-1}]
    BY DEF Init
  <2> QED BY <2>1, <2>2 DEF Init, StatesOK, States, Calls, RemovedIsForgotten
<1> QED BY <1>1, <1>2 DEF TypeInv

(* A dead object stays in the manager's cache only if it left without being *)
(* named to the manager: taken out or replaced at its group, or gone with  *)
(* the group it was in.  What remove() takes out by name is forgotten.     *)
THEOREM RemovalLeavesNoDeadEntry == Spec => []RemovedIsForgotten
BY TypeInit, TypeNext, PTL DEF Spec, TypeInv

-----------------------------------------------------------------------------
(* A phase of the manager told to the members of the groups in D.          *)

LEMMA Placed ==
    ASSUME TypeInv, NEW g \in Groups, NEW i \in 1 .. Len(members[g])
    PROVE  /\ members[g][i] \in Subs /\ Home[members[g][i]] = g /\ members[g][i] \in In(g)
           /\ \A k \in Groups : members[g][i] \in In(k) => k = g
<1>1. members[g] \in Seq(Subs)
  BY DEF TypeInv, ListsOK
<1>2. members[g][i] \in Subs /\ members[g][i] \in In(g)
  BY <1>1 DEF In
<1> QED BY <1>2, InIsHome DEF TypeInv

LEMMA Found ==
    ASSUME TypeInv, NEW g \in Groups, NEW s \in In(g)
    PROVE  \E i \in 1 .. Len(members[g]) : members[g][i] = s
<1>1. members[g] \in Seq(Subs)
  BY DEF TypeInv, ListsOK
<1> QED BY <1>1 DEF In

\* What tells all the members of the groups in D, and those groups, the same.
Sweeps(D, call) ==
    /\ D \subseteq Groups
    /\ \A h \in SubGroups : h \in D <=> Attached(h) /\ Home[h] \in D
    /\ \A g \in D : \A s \in In(g) : Told(life[s], call) = call
    /\ members' = members
    /\ life' = TellAll(Within(D), call)
    /\ gstate' = [g \in Groups |-> IF g \in D THEN call ELSE gstate[g]]

LEMMA SweepKeeps ==
    ASSUME TypeInv, MembersTold, SubGroupsFollow, PositionsInRange,
           NEW D, NEW call \in {"bind", "init", "postinit", "shutdown", "unbind"}, Sweeps(D, call),
           \/ initPosition' = initPosition
           \/ initPosition' = [g \in Groups |-> IF g \in D THEN -1 ELSE initPosition[g]],
           call = "bind" => \A g \in D : initPosition'[g] = -1
    PROVE  MembersTold' /\ SubGroupsFollow' /\ PositionsInRange'
<1> USE DEF Sweeps
<1>1. \A g \in Groups : initPosition'[g] = initPosition[g] \/ (g \in D /\ initPosition'[g] = -1)
  OBVIOUS
<1>2. \A s \in Subs : s \in Within(D) <=> Home[s] \in D /\ s \in In(Home[s])
  BY InIsHome, GroupFacts DEF Within, TypeInv
<1>3. \A s \in Subs : life'[s] = IF Home[s] \in D /\ s \in In(Home[s]) THEN call ELSE life[s]
  BY <1>2 DEF TellAll
<1>4. \A g \in Groups : gstate'[g] = IF g \in D THEN call ELSE gstate[g]
  OBVIOUS
<1>5. MembersTold'
  <2>1. ASSUME NEW g \in Groups, NEW i \in 1 .. Len(members[g])
        PROVE  life'[members[g][i]] \in Expected(gstate'[g], initPosition'[g], i)
    <3>1. members[g][i] \in Subs /\ Home[members[g][i]] = g /\ members[g][i] \in In(g)
      BY Placed
    <3>2. CASE g \in D
      <4>1. life'[members[g][i]] = call /\ gstate'[g] = call
        BY <1>3, <1>4, <3>1, <3>2
      <4> QED BY <4>1, <3>2 DEF Expected
    <3>3. CASE g \notin D
      BY <1>1, <1>3, <1>4, <3>1, <3>3 DEF MembersTold
    <3> QED BY <3>2, <3>3
  <2>2. \A s \in Subs : s \notin In(Home[s]) => life'[s] = "remove"
    BY <1>3 DEF MembersTold
  <2> QED BY <2>1, <2>2 DEF MembersTold, In
<1>6. SubGroupsFollow'
  <2> SUFFICES ASSUME NEW h \in SubGroups
               PROVE  /\ gstate'[h] = StateOf(life'[h])
                      /\ initPosition'[h] >= 0 => Attached(h) /\ initPosition'[Home[h]] >= 0
    BY DEF SubGroupsFollow, Attached, In
  <2>1. h \in Groups /\ h \in Subs /\ Home[h] \in Groups
    BY GroupFacts
  <2>2. h \in D <=> Home[h] \in D /\ h \in In(Home[h])
    BY DEF Attached
  <2>3. gstate'[h] = StateOf(life'[h])
    BY <1>3, <1>4, <2>1, <2>2 DEF StateOf, SubGroupsFollow
  <2>4. ASSUME initPosition'[h] >= 0 PROVE Attached(h) /\ initPosition'[Home[h]] >= 0
    <3>1. initPosition'[h] = initPosition[h]
      BY <1>1, <2>1, <2>4
    <3>2. Attached(h) /\ initPosition[Home[h]] >= 0
      BY <3>1, <2>4 DEF SubGroupsFollow
    <3>3. CASE initPosition' = initPosition
      BY <3>2, <3>3
    <3>4. CASE initPosition' = [g \in Groups |-> IF g \in D THEN -1 ELSE initPosition[g]]
      BY <3>2, <3>4, <2>1, <2>4
    <3> QED BY <3>3, <3>4
  <2> QED BY <2>3, <2>4
<1>7. PositionsInRange'
  <2> SUFFICES ASSUME NEW g \in Groups, gstate'[g] = "bind" PROVE initPosition'[g] <= Len(members[g])
    BY DEF PositionsInRange
  <2>1. Len(members[g]) \in Nat
    BY DEF TypeInv, ListsOK
  <2>2. CASE g \in D
    BY <1>4, <2>1, <2>2
  <2>3. CASE g \notin D
    BY <1>1, <1>4, <2>3 DEF PositionsInRange
  <2> QED BY <2>2, <2>3
<1> QED BY <1>5, <1>6, <1>7

\* What the states of the manager's groups say of every group they contain.
LEMMA AllTold ==
    ASSUME TypeInv, MembersTold, SubGroupsFollow,
           NEW st \in {"bind", "init", "postinit", "shutdown"}, AllGroups(st), st = "bind" => AtStart,
           NEW g \in Called
    PROVE  /\ gstate[g] = st
           /\ st = "bind" => initPosition[g] = -1
           /\ \A s \in In(g) : life[s] = st
<1>1. ASSUME NEW k \in Groups, gstate[k] = st, st = "bind" => initPosition[k] = -1
      PROVE  \A s \in In(k) : life[s] = st
  <2> SUFFICES ASSUME NEW s \in In(k) PROVE life[s] = st
    OBVIOUS
  <2>1. PICK i \in 1 .. Len(members[k]) : members[k][i] = s
    BY Found
  <2>2. life[s] \in Expected(gstate[k], initPosition[k], i)
    BY <2>1 DEF MembersTold
  <2> QED BY <2>2, <1>1 DEF Expected
<1>2. CASE g \in Top
  <2>1. gstate[g] = st /\ (st = "bind" => initPosition[g] = -1)
    BY <1>2 DEF AllGroups, AtStart
  <2> QED BY <1>1, <1>2, <2>1 DEF Groups
<1>3. CASE g \in SubGroups
  <2>1. g \in Subs /\ g \in Groups /\ Home[g] \in Top /\ Home[g] \in Groups /\ g \in In(Home[g])
    BY <1>3, GroupFacts DEF Called, Attached, Groups
  <2>2. gstate[Home[g]] = st /\ (st = "bind" => initPosition[Home[g]] = -1)
    BY <2>1 DEF AllGroups, AtStart
  <2>3. life[g] = st
    BY <1>1, <2>1, <2>2
  <2>4. gstate[g] = st
    BY <1>3, <2>3 DEF SubGroupsFollow, StateOf
  <2>5. st = "bind" => initPosition[g] = -1
    BY <1>3, <2>1, <2>2 DEF SubGroupsFollow, TypeInv, StatesOK
  <2> QED BY <1>1, <2>1, <2>4, <2>5
<1> QED BY <1>2, <1>3, GroupFacts DEF Called

LEMMA AllFresh ==
    ASSUME TypeInv, MembersTold, SubGroupsFollow,
           AllGroups("invalid") \/ AllGroups("unbind"), AtStart, NEW g \in Called
    PROVE  /\ gstate[g] \in {"invalid", "unbind"}
           /\ initPosition[g] = -1
           /\ \A s \in In(g) : life[s] \in {"add", "unbind"}
<1>1. ASSUME NEW k \in Groups, gstate[k] \in {"invalid", "unbind"}
      PROVE  \A s \in In(k) : life[s] \in {"add", "unbind"}
  <2> SUFFICES ASSUME NEW s \in In(k) PROVE life[s] \in {"add", "unbind"}
    OBVIOUS
  <2>1. PICK i \in 1 .. Len(members[k]) : members[k][i] = s
    BY Found
  <2>2. life[s] \in Expected(gstate[k], initPosition[k], i)
    BY <2>1 DEF MembersTold
  <2> QED BY <2>2, <1>1 DEF Expected
<1>2. CASE g \in Top
  BY <1>1, <1>2 DEF AllGroups, AtStart, Groups
<1>3. CASE g \in SubGroups
  <2>1. g \in Subs /\ g \in Groups /\ Home[g] \in Top /\ Home[g] \in Groups /\ g \in In(Home[g])
    BY <1>3, GroupFacts DEF Called, Attached, Groups
  <2>2. gstate[Home[g]] \in {"invalid", "unbind"} /\ initPosition[Home[g]] = -1
    BY <2>1 DEF AllGroups, AtStart
  <2>3. life[g] \in {"add", "unbind"}
    BY <1>1, <2>1, <2>2
  <2>4. gstate[g] \in {"invalid", "unbind"}
    BY <1>3, <2>3 DEF SubGroupsFollow, StateOf
  <2>5. initPosition[g] = -1
    BY <1>3, <2>1, <2>2 DEF SubGroupsFollow, TypeInv, StatesOK
  <2> QED BY <1>1, <2>1, <2>4, <2>5
<1> QED BY <1>2, <1>3, GroupFacts DEF Called

LEMMA CalledSweeps ==
    /\ Called \subseteq Groups /\ Top \subseteq Called
    /\ \A h \in SubGroups : h \in Called <=> Attached(h) /\ Home[h] \in Called
BY GroupFacts DEF Called, Attached, Groups

-----------------------------------------------------------------------------
(* Every action keeps InStep, unless it changes something in mid-phase.    *)

LEMMA BindInStep == ASSUME TypeInv, InStep, Bind PROVE InStep'
<1> USE DEF InStep
<1>1. (AllGroups("invalid") \/ AllGroups("unbind")) /\ AtStart
  BY DEF Bind, PhaseInv
<1>2. \A g \in Called : initPosition[g] = -1 /\ \A s \in In(g) : Told(life[s], "bind") = "bind"
  BY <1>1, AllFresh DEF Told, Turns
<1>3. Sweeps(Called, "bind")
  BY <1>2, CalledSweeps DEF Bind, Sweeps
<1>4. MembersTold' /\ SubGroupsFollow' /\ PositionsInRange'
  BY <1>2, <1>3, SweepKeeps DEF Bind
<1>5. PhaseInv'
  BY <1>1, CalledSweeps DEF Bind, PhaseInv, AllGroups, AtStart
<1> QED BY <1>4, <1>5

LEMMA InitAllInStep == ASSUME TypeInv, InStep, InitAll PROVE InStep'
<1> USE DEF InStep
<1>1. AllGroups("bind") /\ AtStart
  BY DEF InitAll, PhaseInv
<1>2. \A g \in Called : \A s \in In(g) : Told(life[s], "init") = "init"
  BY <1>1, AllTold DEF Told, Turns
<1>3. Sweeps(Called, "init")
  BY <1>2, CalledSweeps DEF InitAll, Sweeps
<1>4. MembersTold' /\ SubGroupsFollow' /\ PositionsInRange'
  BY <1>3, SweepKeeps DEF InitAll
<1>5. PhaseInv'
  BY <1>1, CalledSweeps DEF InitAll, PhaseInv, AllGroups
<1> QED BY <1>4, <1>5

LEMMA PostinitInStep == ASSUME TypeInv, InStep, Postinit PROVE InStep'
<1> USE DEF InStep
<1>1. AllGroups("init")
  BY DEF Postinit, PhaseInv
<1>2. \A g \in Called : \A s \in In(g) : Told(life[s], "postinit") = "postinit"
  BY <1>1, AllTold DEF Told, Turns
<1>3. Sweeps(Called, "postinit")
  BY <1>2, CalledSweeps DEF Postinit, Sweeps
<1>4. MembersTold' /\ SubGroupsFollow' /\ PositionsInRange'
  BY <1>3, SweepKeeps DEF Postinit
<1>5. PhaseInv'
  BY <1>1, CalledSweeps DEF Postinit, PhaseInv, AllGroups
<1> QED BY <1>4, <1>5

\* A group stops at its own state, and the groups inside it with it: all or none.
LEMMA ReachedSweeps ==
    ASSUME TypeInv, NEW st, NEW above, \A g \in Called : gstate[g] = st
    PROVE  Reached(above) = IF st \in above THEN Called ELSE {}
<1>1. \A h \in SubGroups : h \in Called => Home[h] \in Called
  BY CalledSweeps
<1> QED BY <1>1 DEF Reached

LEMMA ShutdownInStep == ASSUME TypeInv, InStep, Shutdown, ~interrupted' PROVE InStep'
<1> USE DEF InStep
<1> DEFINE down == Reached(Inited)
<1>0. phase \in {"bound", "inited", "running"} /\ phase' = "down" /\ members' = members
  BY DEF Shutdown, PhaseInv
<1>1. PICK st \in {"bind", "init", "postinit"} : AllGroups(st) /\ (st = "bind" => AtStart)
  BY <1>0 DEF PhaseInv
<1>2. \A g \in Called : gstate[g] = st /\ \A s \in In(g) : life[s] = st
  BY <1>1, AllTold
<1>3. down = IF st = "bind" THEN {} ELSE Called
  <2>1. down = IF st \in Inited THEN Called ELSE {}
    BY <1>2, ReachedSweeps
  <2> QED BY <2>1, <1>1 DEF Inited
<1>4. /\ life' = TellAll(Within(down), "shutdown")
      /\ gstate' = [g \in Groups |-> IF g \in down THEN "shutdown" ELSE gstate[g]]
      /\ initPosition' = [g \in Groups |-> IF g \in down THEN -1 ELSE initPosition[g]]
      /\ mgrPosition' = 0
  BY DEF Shutdown
<1> HIDE DEF down
<1>5. \A g \in down : \A s \in In(g) : Told(life[s], "shutdown") = "shutdown"
  BY <1>1, <1>2, <1>3 DEF Told, Turns
<1>6. MembersTold' /\ SubGroupsFollow' /\ PositionsInRange'
  <2>1. CASE st = "bind"
    <3>1. down = {} /\ Within(down) = {}
      BY <1>3, <2>1 DEF Within
    <3>2. life' = life /\ gstate' = gstate /\ initPosition' = initPosition
      BY <1>4, <3>1 DEF TellAll, TypeInv, StatesOK
    <3> QED BY <1>0, <3>2 DEF MembersTold, SubGroupsFollow, PositionsInRange, In, Attached
  <2>2. CASE st # "bind"
    <3>1. Sweeps(down, "shutdown")
      BY <1>0, <1>3, <1>4, <1>5, <2>2, CalledSweeps DEF Sweeps
    <3> QED BY <1>4, <3>1, SweepKeeps
  <2> QED BY <2>1, <2>2
<1>7. PhaseInv'
  <2>1. AtStart'
    BY <1>1, <1>3, <1>4, CalledSweeps DEF AtStart, Groups
  <2>2. AllGroups("shutdown")' \/ AllGroups("bind")'
    BY <1>1, <1>3, <1>4, CalledSweeps DEF AllGroups, Groups
  <2> QED BY <1>0, <2>1, <2>2 DEF PhaseInv
<1> QED BY <1>6, <1>7

LEMMA UnbindInStep == ASSUME TypeInv, InStep, Unbind PROVE InStep'
<1> USE DEF InStep
<1> DEFINE free == Reached(Bound)
<1>1. PICK st \in {"bind", "shutdown"} : AllGroups(st) /\ AtStart
  BY DEF Unbind, PhaseInv
<1>2. \A g \in Called : gstate[g] = st /\ \A s \in In(g) : life[s] = st
  BY <1>1, AllTold
<1>3. free = Called
  <2>1. free = IF st \in Bound THEN Called ELSE {}
    BY <1>2, ReachedSweeps
  <2> QED BY <2>1, <1>1 DEF Bound
<1>4. /\ life' = TellAll(Within(free), "unbind")
      /\ gstate' = [g \in Groups |-> IF g \in free THEN "unbind" ELSE gstate[g]]
      /\ phase' = "unbound"
      /\ members' = members /\ initPosition' = initPosition /\ mgrPosition' = mgrPosition
  BY DEF Unbind
<1> HIDE DEF free
<1>5. \A g \in free : \A s \in In(g) : Told(life[s], "unbind") = "unbind"
  BY <1>1, <1>2, <1>3 DEF Told, Turns
<1>6. Sweeps(free, "unbind")
  BY <1>3, <1>4, <1>5, CalledSweeps DEF Sweeps
<1>7. MembersTold' /\ SubGroupsFollow' /\ PositionsInRange'
  BY <1>4, <1>6, SweepKeeps
<1>8. PhaseInv'
  BY <1>1, <1>3, <1>4, CalledSweeps DEF PhaseInv, AllGroups, AtStart
<1> QED BY <1>7, <1>8

\* The member a bound group initialises next: those before it are done.
LEMMA NextMember ==
    ASSUME TypeInv, MembersTold, PositionsInRange, NEW g \in Groups, gstate[g] = "bind", ~Exhausted(g)
    PROVE  /\ Position(g) + 1 \in 1 .. Len(members[g])
           /\ Current(g) = members[g][Position(g) + 1]
           /\ Current(g) \in In(g) /\ Current(g) \in Subs /\ Home[Current(g)] = g
           /\ life[Current(g)] = "bind"
           /\ Told(life[Current(g)], "init") = "init"
           /\ \A i \in 1 .. Len(members[g]) :
                 i # Position(g) + 1 =>
                     /\ members[g][i] # Current(g)
                     /\ life[members[g][i]] \in Expected("bind", Position(g) + 1, i)
                     /\ life[members[g][i]] \in Expected("bind", Position(g), i)
<1>1. members[g] \in Seq(Subs) /\ Len(members[g]) \in Nat /\ members[g] # <<>>
  BY DEF Exhausted, TypeInv, ListsOK
<1>2. Len(members[g]) > 0
  BY <1>1
<1>3. initPosition[g] \in Nat \cup {-1} /\ initPosition[g] < Len(members[g])
  BY <1>1 DEF Exhausted, TypeInv, StatesOK
<1>4. Position(g) \in Nat /\ Position(g) < Len(members[g])
  BY <1>1, <1>2, <1>3 DEF Position
<1>5. \A i \in 1 .. Len(members[g]) : i <= initPosition[g] <=> i <= Position(g)
  BY <1>1, <1>3 DEF Position
<1>6. Position(g) + 1 \in 1 .. Len(members[g])
  BY <1>1, <1>4
<1>7. Current(g) = members[g][Position(g) + 1]
  BY DEF Current
<1>8. Current(g) \in In(g) /\ Current(g) \in Subs /\ Home[Current(g)] = g
  BY <1>6, <1>7, Placed
<1>9. ~(Position(g) + 1 <= initPosition[g])
  BY <1>4, <1>5, <1>6
<1>10. life[Current(g)] = "bind"
  BY <1>6, <1>7, <1>9 DEF MembersTold, Expected
<1>11. ASSUME NEW i \in 1 .. Len(members[g]), i # Position(g) + 1
       PROVE  /\ members[g][i] # Current(g)
              /\ life[members[g][i]] \in Expected("bind", Position(g) + 1, i)
              /\ life[members[g][i]] \in Expected("bind", Position(g), i)
  <2>1. members[g][i] # Current(g)
    BY <1>6, <1>7, <1>11 DEF TypeInv, ListsOK
  <2>2. i <= Position(g) + 1 <=> i <= Position(g)
    BY <1>1, <1>4, <1>11
  <2>3. life[members[g][i]] \in Expected("bind", initPosition[g], i)
    BY DEF MembersTold
  <2> QED BY <1>5, <2>1, <2>2, <2>3 DEF Expected
<1> QED BY <1>6, <1>7, <1>8, <1>10, <1>11 DEF Told, Turns

\* A group whose members are all done may be told so.
LEMMA ExhaustedTold ==
    ASSUME TypeInv, MembersTold, NEW g \in Groups, gstate[g] = "bind", Exhausted(g),
           NEW i \in 1 .. Len(members[g])
    PROVE  life[members[g][i]] = "init"
<1>1. members[g] \in Seq(Subs) /\ Len(members[g]) \in Nat /\ Len(<<>>) = 0
  BY DEF TypeInv, ListsOK
<1>2. initPosition[g] \in Nat \cup {-1} /\ initPosition[g] >= Len(members[g])
  BY <1>1 DEF Exhausted, TypeInv, StatesOK
<1>3. i <= initPosition[g]
  BY <1>1, <1>2
<1> QED BY <1>3 DEF MembersTold, Expected

LEMMA IncrementalInitInStep == ASSUME TypeInv, InStep, IncrementalInit PROVE InStep'
<1> USE DEF InStep
<1> DEFINE g == mgrPosition
<1>1. MAX_GROUPS \in Nat \ {0} /\ g \in Int /\ g >= 0 /\ g <= MAX_GROUPS
  BY SubsystemAssumption DEF TypeInv, StatesOK
<1>2. /\ \A k \in Top : gstate[k] = IF k < g THEN "init" ELSE "bind"
      /\ \A k \in Top : k > g => initPosition[k] = -1
  BY <1>1 DEF IncrementalInit, PhaseInv, AllGroups, AtStart, Top
<1>3. members' = members
  BY DEF IncrementalInit
<1>4. CASE mgrPosition = MAX_GROUPS /\ UNCHANGED <<gstate, initPosition, mgrPosition, life>> /\ phase' = "inited"
  <2>1. AllGroups("init")'
    BY <1>1, <1>2, <1>4 DEF AllGroups, Top
  <2>2. PhaseInv'
    BY <2>1, <1>4 DEF PhaseInv
  <2> QED BY <1>3, <1>4, <2>2 DEF MembersTold, SubGroupsFollow, PositionsInRange, In, Attached
<1>5. CASE mgrPosition < MAX_GROUPS /\ phase' = "initing" /\ (GroupDone(mgrPosition) \/ GroupGoesOn(mgrPosition))
  <2>1. g \in Top /\ g \in Groups /\ g \notin SubGroups /\ gstate[g] = "bind"
    BY <1>1, <1>2, <1>5, GroupFacts DEF Top, Groups
  <2> HIDE DEF g
  <2>2. CASE GroupDone(g)
    <3>1. /\ gstate' = [gstate EXCEPT ![g] = "init"] /\ Exhausted(g)
          /\ mgrPosition' = g + 1 /\ initPosition' = initPosition /\ life' = life
      BY <2>2 DEF GroupDone, g
    <3>2. MembersTold'
      <4>1. ASSUME NEW k \in Groups, NEW i \in 1 .. Len(members[k])
            PROVE  life[members[k][i]] \in Expected(gstate'[k], initPosition[k], i)
        <5>1. CASE k = g
          BY <2>1, <3>1, <5>1, ExhaustedTold DEF TypeInv, StatesOK, Expected
        <5>2. CASE k # g
          BY <3>1, <5>2 DEF MembersTold, TypeInv, StatesOK
        <5> QED BY <5>1, <5>2
      <4> QED BY <1>3, <3>1, <4>1 DEF MembersTold, In
    <3>3. SubGroupsFollow'
      BY <1>3, <2>1, <3>1, GroupFacts DEF SubGroupsFollow, In, Attached, TypeInv, StatesOK
    <3>4. PositionsInRange'
      BY <1>3, <3>1 DEF PositionsInRange, TypeInv, StatesOK
    <3>5. PhaseInv'
      BY <1>1, <1>2, <1>5, <2>1, <3>1, GroupFacts DEF PhaseInv, TypeInv, StatesOK, Top, g
    <3> QED BY <3>2, <3>3, <3>4, <3>5
  <2>3. CASE GroupGoesOn(g)
    <3> DEFINE c == Current(g)
    <3>0. ~Exhausted(g) /\ mgrPosition' = g
      BY <2>3 DEF GroupGoesOn, g
    <3>1. /\ Position(g) + 1 \in 1 .. Len(members[g]) /\ c = members[g][Position(g) + 1]
          /\ c \in In(g) /\ c \in Subs /\ Home[c] = g /\ life[c] = "bind"
          /\ Told(life[c], "init") = "init"
          /\ \A i \in 1 .. Len(members[g]) :
                 i # Position(g) + 1 =>
                     /\ members[g][i] # c
                     /\ life[members[g][i]] \in Expected("bind", Position(g) + 1, i)
                     /\ life[members[g][i]] \in Expected("bind", Position(g), i)
      BY <2>1, <3>0, NextMember
    <3>2. Position(g) \in Nat /\ Len(members[g]) \in Nat
      BY <2>1, PositionType DEF TypeInv, ListsOK
    <3> HIDE DEF c
    <3>3. CASE MemberInits(g) \/ MemberGroupDone(g)
      <4>1. /\ life' = [s \in Subs |-> IF s = c THEN "init" ELSE life[s]]
            /\ initPosition' = [initPosition EXCEPT ![g] = Position(g) + 1]
        BY <3>1, <3>3 DEF MemberInits, MemberGroupDone, TellAll, c
      <4>2. \A k \in Groups : gstate'[k] = IF k = c THEN "init" ELSE gstate[k]
        <5>1. CASE MemberInits(g)
          BY <3>1, <5>1, GroupFacts DEF MemberInits, c
        <5>2. CASE MemberGroupDone(g)
          BY <5>2 DEF MemberGroupDone, TypeInv, StatesOK, c
        <5> QED BY <3>3, <5>1, <5>2
      <4>3. c # g /\ c \notin Top
        BY <2>1, <3>1, GroupFacts
      <4>4. c \in Groups => c \in SubGroups /\ gstate[c] = "bind" /\ Exhausted(c)
        <5>1. c \in Groups => c \in SubGroups
          BY <4>3, GroupFacts
        <5>2. c \in SubGroups => gstate[c] = "bind"
          BY <3>1 DEF SubGroupsFollow, StateOf
        <5>3. c \in SubGroups => Exhausted(c)
          BY <3>3 DEF MemberInits, MemberGroupDone, c
        <5> QED BY <5>1, <5>2, <5>3
      <4>5. \A k \in Groups : initPosition'[k] = IF k = g THEN Position(g) + 1 ELSE initPosition[k]
        BY <4>1 DEF TypeInv, StatesOK
      <4>6. ASSUME NEW k \in Groups, NEW i \in 1 .. Len(members[k])
            PROVE  life'[members[k][i]] \in Expected(gstate'[k], initPosition'[k], i)
        <5>0. members[k][i] \in Subs /\ Home[members[k][i]] = k
          BY Placed
        <5>1. CASE k = g /\ i = Position(g) + 1
          <6>1. life'[members[k][i]] = "init" /\ gstate'[k] = "bind" /\ initPosition'[k] = i
            BY <2>1, <3>1, <4>1, <4>2, <4>3, <4>5, <5>0, <5>1
          <6> QED BY <6>1, <5>1, <3>2 DEF Expected
        <5>2. CASE k = g /\ i # Position(g) + 1
          <6>1. gstate'[k] = "bind" /\ initPosition'[k] = Position(g) + 1
            BY <2>1, <4>2, <4>3, <4>5, <5>2
          <6>2. life'[members[k][i]] = life[members[k][i]]
            BY <3>1, <4>1, <5>0, <5>2
          <6> QED BY <3>1, <5>2, <6>1, <6>2
        <5>3. CASE k # g
          <6>1. life'[members[k][i]] = life[members[k][i]] /\ initPosition'[k] = initPosition[k]
            BY <3>1, <4>1, <4>5, <5>0, <5>3
          <6>2. CASE k = c
            <7>1. life[members[k][i]] = "init" /\ gstate'[k] = "init"
              BY <4>2, <4>4, <6>2, ExhaustedTold
            <7> QED BY <6>1, <7>1 DEF Expected
          <6>3. CASE k # c
            BY <4>2, <6>1, <6>3 DEF MembersTold
          <6> QED BY <6>2, <6>3
        <5> QED BY <5>1, <5>2, <5>3
      <4>7. \A s \in Subs : s \notin In(Home[s]) => life'[s] = "remove"
        BY <3>1, <4>1 DEF MembersTold
      <4>8. MembersTold'
        BY <1>3, <4>6, <4>7 DEF MembersTold, In
      <4>9. ASSUME NEW h \in SubGroups
            PROVE  /\ gstate'[h] = StateOf(life'[h])
                   /\ initPosition'[h] >= 0 => Attached(h) /\ initPosition'[Home[h]] >= 0
        <5>1. h \in Groups /\ h \in Subs /\ Home[h] \in Groups /\ h # g
          BY <2>1, GroupFacts
        <5>2. gstate'[h] = StateOf(life'[h])
          BY <4>1, <4>2, <5>1 DEF SubGroupsFollow, StateOf
        <5>3. initPosition'[h] = initPosition[h]
          BY <4>5, <5>1
        <5>4. initPosition[Home[h]] >= 0 => initPosition'[Home[h]] >= 0
          BY <3>2, <4>5, <5>1
        <5> QED BY <5>2, <5>3, <5>4 DEF SubGroupsFollow
      <4>10. SubGroupsFollow'
        BY <1>3, <4>9 DEF SubGroupsFollow, In, Attached
      <4>11. PositionsInRange'
        BY <1>3, <3>1, <3>2, <4>2, <4>5 DEF PositionsInRange
      <4>12. PhaseInv'
        BY <1>1, <1>2, <1>5, <2>1, <3>0, <4>2, <4>3, <4>5, GroupFacts DEF PhaseInv, Groups
      <4> QED BY <4>8, <4>10, <4>11, <4>12
    <3>4. CASE MemberGroupGoesOn(g)
      <4> DEFINE d == Current(c)
      <4>1. c \in SubGroups /\ c \in Groups /\ ~Exhausted(c) /\ gstate' = gstate
        BY <3>4, GroupFacts DEF MemberGroupGoesOn, c
      <4>2. gstate[c] = "bind" /\ c # g
        BY <2>1, <3>1, <4>1 DEF SubGroupsFollow, StateOf
      <4>3. /\ Position(c) + 1 \in 1 .. Len(members[c]) /\ d = members[c][Position(c) + 1]
            /\ d \in In(c) /\ d \in Subs /\ Home[d] = c /\ life[d] = "bind"
            /\ Told(life[d], "init") = "init"
            /\ \A i \in 1 .. Len(members[c]) :
                   i # Position(c) + 1 =>
                       members[c][i] # d /\ life[members[c][i]] \in Expected("bind", Position(c) + 1, i)
        BY <4>1, <4>2, NextMember
      <4>4. Position(c) \in Nat /\ Len(members[c]) \in Nat
        BY <4>1, PositionType DEF TypeInv, ListsOK
      <4> HIDE DEF d
      <4>5. /\ life' = [s \in Subs |-> IF s = d THEN "init" ELSE life[s]]
            /\ initPosition' = [initPosition EXCEPT ![g] = Position(g), ![c] = Position(c) + 1]
        BY <3>4, <4>3 DEF MemberGroupGoesOn, TellAll, c, d
      <4>6. \A k \in Groups : initPosition'[k] = CASE k = g -> Position(g) [] k = c -> Position(c) + 1
                                                   [] OTHER -> initPosition[k]
        BY <4>2, <4>5 DEF TypeInv, StatesOK
      <4>7. d \notin SubGroups /\ d \notin Groups
        BY <4>1, <4>3, GroupFacts
      <4>8. ASSUME NEW k \in Groups, NEW i \in 1 .. Len(members[k])
            PROVE  life'[members[k][i]] \in Expected(gstate'[k], initPosition'[k], i)
        <5>0. members[k][i] \in Subs /\ Home[members[k][i]] = k
          BY Placed
        <5>1. CASE k = c /\ i = Position(c) + 1
          <6>1. life'[members[k][i]] = "init" /\ gstate'[k] = "bind" /\ initPosition'[k] = i
            BY <4>1, <4>2, <4>3, <4>5, <4>6, <5>0, <5>1
          <6> QED BY <6>1, <5>1, <4>4 DEF Expected
        <5>2. CASE k = c /\ i # Position(c) + 1
          <6>1. gstate'[k] = "bind" /\ initPosition'[k] = Position(c) + 1
            BY <4>1, <4>2, <4>6, <5>2
          <6>2. life'[members[k][i]] = life[members[k][i]]
            BY <4>3, <4>5, <5>0, <5>2
          <6> QED BY <4>3, <5>2, <6>1, <6>2
        <5>3. CASE k = g
          <6>1. gstate'[k] = "bind" /\ initPosition'[k] = Position(g) /\ life'[members[k][i]] = life[members[k][i]]
            BY <2>1, <4>1, <4>2, <4>3, <4>5, <4>6, <5>0, <5>3
          <6>2. CASE i = Position(g) + 1
            BY <3>1, <3>2, <5>3, <6>1, <6>2 DEF Expected
          <6>3. CASE i # Position(g) + 1
            BY <3>1, <5>3, <6>1, <6>3
          <6> QED BY <6>2, <6>3
        <5>4. CASE k # g /\ k # c
          <6>1. gstate'[k] = gstate[k] /\ initPosition'[k] = initPosition[k] /\ life'[members[k][i]] = life[members[k][i]]
            BY <4>1, <4>3, <4>5, <4>6, <5>0, <5>4
          <6> QED BY <6>1 DEF MembersTold
        <5> QED BY <5>1, <5>2, <5>3, <5>4
      <4>9. \A s \in Subs : s \notin In(Home[s]) => life'[s] = "remove"
        BY <4>3, <4>5 DEF MembersTold
      <4>10. MembersTold'
        BY <1>3, <4>8, <4>9 DEF MembersTold, In
      <4>11. ASSUME NEW h \in SubGroups
             PROVE  /\ gstate'[h] = StateOf(life'[h])
                    /\ initPosition'[h] >= 0 => Attached(h) /\ initPosition'[Home[h]] >= 0
        <5>1. h \in Groups /\ h \in Subs /\ Home[h] \in Top /\ Home[h] \in Groups /\ h # g /\ c \notin Top
          BY <2>1, <3>1, GroupFacts
        <5>2. gstate'[h] = StateOf(life'[h])
          BY <4>1, <4>5, <4>7, <5>1 DEF SubGroupsFollow
        <5>3. CASE h = c
          BY <3>1, <3>2, <4>2, <4>6, <5>1, <5>2, <5>3 DEF Attached
        <5>4. CASE h # c
          <6>1. initPosition'[h] = initPosition[h] /\ Home[h] # c
            BY <4>6, <5>1, <5>4
          <6>2. initPosition[Home[h]] >= 0 => initPosition'[Home[h]] >= 0
            BY <3>2, <4>6, <5>1, <6>1
          <6> QED BY <5>2, <6>1, <6>2 DEF SubGroupsFollow
        <5> QED BY <5>3, <5>4
      <4>12. SubGroupsFollow'
        BY <1>3, <4>11 DEF SubGroupsFollow, In, Attached
      <4>13. PositionsInRange'
        BY <1>3, <3>1, <3>2, <4>1, <4>3, <4>4, <4>6 DEF PositionsInRange
      <4>14. PhaseInv'
        <5>1. c \notin Top
          BY <4>1, GroupFacts
        <5> QED BY <1>1, <1>2, <1>5, <2>1, <3>0, <4>1, <4>6, <5>1, GroupFacts DEF PhaseInv, Groups
      <4> QED BY <4>10, <4>12, <4>13, <4>14
    <3> QED BY <2>3, <3>3, <3>4 DEF GroupGoesOn
  <2> QED BY <1>5, <2>2, <2>3 DEF g
<1> QED BY <1>4, <1>5 DEF IncrementalInit

LEMMA Telling ==
    /\ Told("remove", "add") = "add"
    /\ Told("add", "bind") = "bind" /\ Told("bind", "init") = "init" /\ Told("init", "postinit") = "postinit"
    /\ Told("init", "shutdown") = "shutdown" /\ Told("postinit", "shutdown") = "shutdown"
    /\ Told("bind", "unbind") = "unbind" /\ Told("shutdown", "unbind") = "unbind"
    /\ Told("add", "remove") = "remove" /\ Told("unbind", "remove") = "remove"
BY DEF Told, Turns

\* What a late member, or one a group brings along, has been told in the end.
LEMMA LateMember ==
    ASSUME NEW st \in States, st # "shutdown"
    PROVE  CatchUp("add", st) = IF st \in {"bind", "init", "postinit"} THEN st ELSE "add"
BY Telling DEF CatchUp, States

LEMMA JoinInStep ==
    ASSUME TypeInv, InStep, NEW g \in Groups, NEW s \in Subs, Join(g, s), ~interrupted'
    PROVE  InStep'
<1> USE DEF InStep
<1> DEFINE st == gstate[g]
           new == CatchUp("add", st)
<1>1. st \in States /\ st # "shutdown" /\ s \notin In(g) /\ Home[s] = g
  BY DEF Join, TypeInv, StatesOK
<1>2. new = IF st \in {"bind", "init", "postinit"} THEN st ELSE "add"
  BY <1>1, LateMember
<1>3. members[g] \in Seq(Subs) /\ Len(members[g]) \in Nat
  BY DEF TypeInv, ListsOK
<1>4. /\ \A k \in Groups : k # g => members'[k] = members[k]
      /\ Len(members'[g]) = Len(members[g]) + 1
      /\ \A i \in 1 .. Len(members[g]) : members'[g][i] = members[g][i]
      /\ members'[g][Len(members[g]) + 1] = s
  <2>1. members' = [members EXCEPT ![g] = Append(members[g], s)]
    BY DEF Join
  <2>2. members'[g] = Append(members[g], s) /\ \A k \in Groups : k # g => members'[k] = members[k]
    BY <2>1 DEF TypeInv, ListsOK
  <2> QED BY <1>3, <2>2, AppendProperties
<1>5. life[s] = "remove" /\ (s \in SubGroups => gstate[s] = "invalid" /\ initPosition[s] = -1)
  <2>1. life[s] = "remove"
    BY <1>1 DEF MembersTold
  <2>2. s \in SubGroups => s \in Groups /\ ~Attached(s)
    BY <1>1, GroupFacts DEF Attached
  <2> QED BY <2>1, <2>2 DEF SubGroupsFollow, StateOf, TypeInv, StatesOK
<1>6. s \in SubGroups => \A x \in In(s) : life[x] = "add" /\ x # s /\ x \in Subs /\ Home[x] = s
  <2> SUFFICES ASSUME s \in SubGroups, NEW x \in In(s) PROVE life[x] = "add" /\ x # s /\ x \in Subs /\ Home[x] = s
    OBVIOUS
  <2>1. s \in Groups /\ x \in Subs /\ Home[x] = s /\ Home[s] \in Top /\ s \notin Top
    BY GroupFacts, InIsHome DEF TypeInv
  <2>2. PICK i \in 1 .. Len(members[s]) : members[s][i] = x
    BY <2>1, Found
  <2> QED BY <1>5, <2>1, <2>2 DEF MembersTold, Expected
<1>7. \A x \in Subs : life'[x] = IF x = s \/ (s \in SubGroups /\ x \in In(s)) THEN new ELSE life[x]
  BY <1>5, <1>6, Telling DEF Join
<1>8. \A k \in Groups : gstate'[k] = IF k = s /\ st \in {"bind", "init", "postinit"} THEN st ELSE gstate[k]
  BY DEF Join
<1>9. initPosition' = initPosition /\ mgrPosition' = mgrPosition /\ phase' = phase
  BY DEF Join
<1>10. s \notin Top /\ (s \in Groups => s \in SubGroups) /\ s # g
  <2>1. s \notin Top /\ (s \in Groups => s \in SubGroups)
    BY GroupFacts
  <2>2. s \in SubGroups => Home[s] \in Top
    BY GroupFacts
  <2> QED BY <1>1, <2>1, <2>2
<1> HIDE DEF new, st
<1>11. ASSUME NEW k \in Groups, NEW i \in 1 .. Len(members'[k])
       PROVE  life'[members'[k][i]] \in Expected(gstate'[k], initPosition[k], i)
  <2>1. CASE k = g /\ i = Len(members[g]) + 1
    <3>1. life'[members'[k][i]] = new /\ gstate'[k] = st
      BY <1>4, <1>7, <1>8, <1>10, <2>1 DEF st
    <3>2. st = "bind" => ~(i <= initPosition[g])
      BY <1>3, <2>1 DEF st, PositionsInRange, TypeInv, StatesOK
    <3> QED BY <1>1, <1>2, <2>1, <3>1, <3>2 DEF Expected, States
  <2>2. CASE k = s
    <3>1. s \in SubGroups /\ members'[k] = members[k] /\ i \in 1 .. Len(members[k])
      BY <1>4, <1>10, <2>2
    <3>2. members[k][i] \in In(s) /\ members[k][i] \in Subs
      BY <2>2, <3>1, Placed
    <3>3. life'[members'[k][i]] = new
      BY <1>7, <3>1, <3>2
    <3>4. gstate'[k] = IF st \in {"bind", "init", "postinit"} THEN st ELSE "invalid"
      BY <1>5, <1>8, <2>2, <3>1
    <3>5. initPosition[k] = -1
      BY <1>5, <2>2, <3>1
    <3> QED BY <1>2, <3>3, <3>4, <3>5 DEF Expected
  <2>3. CASE k # s /\ ~(k = g /\ i = Len(members[g]) + 1)
    <3>1. i \in 1 .. Len(members[k]) /\ members'[k][i] = members[k][i]
      BY <1>3, <1>4, <2>3
    <3>2. members[k][i] \in Subs /\ members[k][i] # s /\ ~(s \in SubGroups /\ members[k][i] \in In(s))
      BY <1>1, <1>6, <2>3, <3>1, Placed
    <3>3. life'[members'[k][i]] = life[members[k][i]] /\ gstate'[k] = gstate[k]
      BY <1>7, <1>8, <2>3, <3>1, <3>2
    <3> QED BY <3>1, <3>3 DEF MembersTold
  <2> QED BY <2>1, <2>2, <2>3
<1>12. \A k \in Groups : In(k)' = IF k = g THEN In(g) \cup {s} ELSE In(k)
  <2>1. members'[g] \in Seq(Subs)
    BY <1>3, AppendProperties DEF Join, TypeInv, ListsOK
  <2>2. In(g)' = In(g) \cup {s}
    <3>1. \A x \in In(g)' : x \in In(g) \cup {s}
      BY <1>3, <1>4, <2>1 DEF In
    <3>2. \A x \in In(g) \cup {s} : x \in In(g)'
      BY <1>3, <1>4, <2>1 DEF In
    <3> QED BY <3>1, <3>2
  <2> QED BY <1>4, <2>2 DEF In
<1>13. \A x \in Subs : x \notin In(Home[x])' => life'[x] = "remove"
  <2> SUFFICES ASSUME NEW x \in Subs, x \notin In(Home[x])' PROVE life'[x] = "remove"
    OBVIOUS
  <2>1. Home[x] \in Groups
    BY GroupFacts
  <2>2. x # s /\ x \notin In(Home[x])
    BY <1>1, <1>12, <2>1
  <2>3. ~(s \in SubGroups /\ x \in In(s))
    BY <1>6, <2>2
  <2> QED BY <1>7, <2>2, <2>3 DEF MembersTold
<1>14. MembersTold'
  BY <1>9, <1>11, <1>13 DEF MembersTold
<1>15. SubGroupsFollow'
  <2> SUFFICES ASSUME NEW h \in SubGroups
               PROVE  /\ gstate'[h] = StateOf(life'[h])
                      /\ initPosition[h] >= 0 => Attached(h)' /\ initPosition[Home[h]] >= 0
    BY <1>9 DEF SubGroupsFollow
  <2>1. h \in Groups /\ h \in Subs /\ Home[h] \in Groups /\ ~(s \in SubGroups /\ h \in In(s))
    BY <1>6, GroupFacts
  <2>2. gstate'[h] = StateOf(life'[h])
    BY <1>2, <1>5, <1>7, <1>8, <2>1 DEF SubGroupsFollow, StateOf
  <2>3. Attached(h) => Attached(h)'
    BY <1>12, <2>1 DEF Attached
  <2> QED BY <2>2, <2>3 DEF SubGroupsFollow
<1>16. PositionsInRange'
  <2> SUFFICES ASSUME NEW k \in Groups, gstate'[k] = "bind" PROVE initPosition[k] <= Len(members'[k])
    BY <1>9 DEF PositionsInRange
  <2>1. Len(members[k]) \in Nat /\ initPosition[k] \in Nat \cup {-1}
    BY DEF TypeInv, ListsOK, StatesOK
  <2>2. CASE k = s
    BY <1>4, <1>5, <1>10, <2>1, <2>2
  <2>3. CASE k # s
    <3>1. initPosition[k] <= Len(members[k])
      BY <1>8, <2>3 DEF PositionsInRange
    <3> QED BY <1>4, <2>1, <3>1
  <2> QED BY <2>2, <2>3
<1>17. PhaseInv'
  <2>1. \A k \in Top : gstate'[k] = gstate[k]
    BY <1>8, <1>10 DEF Groups
  <2> QED BY <1>9, <2>1 DEF PhaseInv, AllGroups, AtStart
<1> QED BY <1>14, <1>15, <1>16, <1>17

LEMMA ReplaceInStep ==
    ASSUME TypeInv, InStep, NEW s \in Subs, Replace(s), ~interrupted'
    PROVE  InStep'
<1> USE DEF InStep
<1> DEFINE h == Home[s]
<1>1. /\ h \in Groups /\ s \in In(h) /\ gstate[h] \in {"invalid", "unbind"}
      /\ UNCHANGED <<mgrPosition, phase>>
      /\ \A k \in Groups : members'[k] = IF k = s THEN <<>> ELSE members[k]
      /\ \A k \in Groups : gstate'[k] = IF k = s THEN "invalid" ELSE gstate[k]
      /\ \A k \in Groups : initPosition'[k] = IF k = s THEN -1 ELSE initPosition[k]
  BY GroupFacts DEF Replace, TypeInv, StatesOK
<1>2. s \notin Top /\ (s \in Groups <=> s \in SubGroups) /\ s # h
  BY <1>1, GroupFacts
<1>3. PICK i \in 1 .. Len(members[h]) : members[h][i] = s
  BY <1>1, Found
<1>4. life[s] \in {"add", "unbind"}
  <2>1. life[s] \in Expected(gstate[h], initPosition[h], i)
    BY <1>1, <1>3 DEF MembersTold
  <2> QED BY <1>1, <2>1 DEF Expected
<1>5. CatchUp(Told(Told(life[s], "remove"), "add"), gstate[h]) = "add"
  BY <1>1, <1>4, Telling DEF CatchUp
<1>6. s \in SubGroups => \A x \in In(s) : x \in Subs /\ Home[x] = s /\ x # s /\ Told(life[x], "remove") = "remove"
  <2> SUFFICES ASSUME s \in SubGroups, NEW x \in In(s)
               PROVE  x \in Subs /\ Home[x] = s /\ x # s /\ Told(life[x], "remove") = "remove"
    OBVIOUS
  <2>1. s \in Groups /\ x \in Subs /\ Home[x] = s /\ x # s
    BY <1>2, InIsHome DEF TypeInv
  <2>2. PICK j \in 1 .. Len(members[s]) : members[s][j] = x
    BY <2>1, Found
  <2>3. gstate[s] \in {"invalid", "unbind"}
    BY <1>4 DEF SubGroupsFollow, StateOf
  <2>4. life[x] \in {"add", "unbind"}
    BY <2>1, <2>2, <2>3 DEF MembersTold, Expected
  <2> QED BY <2>1, <2>4, Telling
<1>7. \A x \in Subs : life'[x] = IF x = s THEN "add"
                                ELSE IF s \in SubGroups /\ x \in In(s) THEN "remove" ELSE life[x]
  BY <1>5, <1>6 DEF Replace, Inside
<1> HIDE DEF h
<1>8. ASSUME NEW k \in Groups, NEW j \in 1 .. Len(members'[k])
      PROVE  life'[members'[k][j]] \in Expected(gstate'[k], initPosition'[k], j)
  <2>1. Len(<<>>) = 0
    OBVIOUS
  <2>2. k # s /\ members'[k] = members[k] /\ gstate'[k] = gstate[k] /\ initPosition'[k] = initPosition[k]
    BY <1>1, <2>1
  <2>3. members[k][j] \in Subs /\ Home[members[k][j]] = k
    BY <2>2, Placed
  <2>4. CASE members[k][j] = s
    BY <1>1, <1>7, <2>2, <2>3, <2>4 DEF Expected, h
  <2>5. CASE members[k][j] # s
    BY <1>6, <1>7, <2>2, <2>3, <2>5 DEF MembersTold
  <2> QED BY <2>4, <2>5
<1>9. /\ s \in Groups => In(s)' = {}
      /\ \A k \in Groups : k # s => In(k)' = In(k)
  <2>1. DOMAIN <<>> = {}
    OBVIOUS
  <2> QED BY <1>1, <2>1 DEF In
<1>10. \A x \in Subs : x \notin In(Home[x])' => life'[x] = "remove"
  <2> SUFFICES ASSUME NEW x \in Subs, x \notin In(Home[x])', ~(s \in SubGroups /\ x \in In(s))
               PROVE  life'[x] = "remove"
    BY <1>6, <1>7
  <2>1. Home[x] \in Groups
    BY GroupFacts
  <2>2. x \notin In(Home[x])
    BY <1>2, <1>9, <2>1
  <2>3. x # s
    BY <1>1, <2>2 DEF h
  <2> QED BY <1>7, <2>2, <2>3 DEF MembersTold
<1>11. MembersTold'
  BY <1>8, <1>10 DEF MembersTold
<1>12. SubGroupsFollow'
  <2> SUFFICES ASSUME NEW g \in SubGroups
               PROVE  /\ gstate'[g] = StateOf(life'[g])
                      /\ initPosition'[g] >= 0 => Attached(g)' /\ initPosition'[Home[g]] >= 0
    BY DEF SubGroupsFollow
  <2>1. g \in Groups /\ g \in Subs /\ Home[g] \in Top /\ Home[g] \in Groups
    BY GroupFacts
  <2>2. CASE g = s
    BY <1>1, <1>7, <2>1, <2>2 DEF StateOf
  <2>3. CASE g # s
    <3>1. life'[g] = life[g] /\ gstate'[g] = gstate[g] /\ initPosition'[g] = initPosition[g]
      BY <1>1, <1>2, <1>6, <1>7, <2>1, <2>3
    <3>2. initPosition'[Home[g]] = initPosition[Home[g]]
      BY <1>1, <1>2, <2>1
    <3>3. Attached(g) => Attached(g)'
      BY <1>2, <1>9, <2>1 DEF Attached
    <3> QED BY <3>1, <3>2, <3>3 DEF SubGroupsFollow
  <2> QED BY <2>2, <2>3
<1>13. PositionsInRange'
  BY <1>1 DEF PositionsInRange
<1>14. PhaseInv'
  <2>1. \A k \in Top : k \in Groups /\ gstate'[k] = gstate[k] /\ initPosition'[k] = initPosition[k]
    BY <1>1, <1>2 DEF Groups
  <2> QED BY <1>1, <2>1 DEF PhaseInv, AllGroups, AtStart
<1> QED BY <1>11, <1>12, <1>13, <1>14

\* What a member that leaves, alone or with its group, has been told in the end.
LEMMA EarlyMember ==
    ASSUME NEW st \in States, NEW l, NEW pos, NEW i, l \in Expected(st, pos, i), st = "bind" => ~(i <= pos)
    PROVE  Told(WindDown(l, st), "remove") = "remove"
BY Telling DEF Expected, WindDown, States

LEMMA EarlyMemberInside ==
    ASSUME NEW st \in States, NEW own \in States, own = st \/ (st = "unbind" /\ own = "invalid"),
           NEW l, NEW pos, NEW i, l \in Expected(own, pos, i), own = "bind" => ~(i <= pos)
    PROVE  Told(WindDownInside(l, st, own), "remove") = "remove"
<1>1. CASE st \in {"init", "postinit"}
  <2>1. l = st /\ own = st
    BY <1>1 DEF Expected
  <2> QED BY <1>1, <2>1, Telling DEF WindDownInside, Inited, Bound
<1>2. CASE st = "bind"
  <2>1. l = st /\ own = st
    BY <1>2 DEF Expected
  <2> QED BY <1>2, <2>1, Telling DEF WindDownInside, Inited, Bound
<1>3. CASE st = "shutdown"
  <2>1. l = st /\ own = st
    BY <1>3 DEF Expected
  <2> QED BY <1>3, <2>1, Telling DEF WindDownInside, Inited, Bound
<1>4. CASE st \in {"invalid", "unbind"}
  <2>1. l \in {"add", "unbind"}
    BY <1>4 DEF Expected
  <2> QED BY <1>4, <2>1, Telling DEF WindDownInside
<1> QED BY <1>1, <1>2, <1>3, <1>4 DEF States

LEMMA LeaveInStep ==
    ASSUME TypeInv, InStep, NEW s \in Subs, Leave(s), ~interrupted'
    PROVE  InStep'
<1> USE DEF InStep
<1> DEFINE g == Home[s]
           st == gstate[g]
           own == gstate[s]
           e == Erase(members[g], s)
<1>1. g \in Groups /\ s \in In(g) /\ st \in States /\ (st = "bind" => initPosition[g] = -1)
  <2>1. g \in Groups /\ s \in In(g) /\ ~MidInit(g)
    BY GroupFacts DEF Leave
  <2>2. st \in States /\ initPosition[g] \in Nat \cup {-1}
    BY <2>1 DEF TypeInv, StatesOK
  <2> QED BY <2>1, <2>2 DEF MidInit
<1>2. s \notin Top /\ (s \in Groups <=> s \in SubGroups) /\ s # g
  <2>1. s \notin Top /\ (s \in Groups <=> s \in SubGroups)
    BY GroupFacts
  <2>2. s \in SubGroups => Home[s] \in Top
    BY GroupFacts
  <2> QED BY <1>1, <2>1, <2>2
<1>3. PICK at \in 1 .. Len(members[g]) : members[g][at] = s
  BY <1>1, Found
<1>4. life[s] \in Expected(st, initPosition[g], at) /\ (st = "bind" => ~(at <= initPosition[g]))
  BY <1>1, <1>3 DEF MembersTold
<1>5. Told(WindDown(life[s], st), "remove") = "remove"
  BY <1>1, <1>4, EarlyMember
<1>6. s \in SubGroups =>
        /\ own \in States
        /\ own = st \/ (st = "unbind" /\ own = "invalid")
        /\ own = "bind" => initPosition[s] = -1
  <2> SUFFICES ASSUME s \in SubGroups
               PROVE  /\ own \in States
                      /\ own = st \/ (st = "unbind" /\ own = "invalid")
                      /\ own = "bind" => initPosition[s] = -1
    OBVIOUS
  <2>1. own = StateOf(life[s]) /\ (initPosition[s] >= 0 => initPosition[g] >= 0)
    BY DEF SubGroupsFollow
  <2>2. own \in States /\ initPosition[s] \in Nat \cup {-1}
    BY <1>2 DEF TypeInv, StatesOK
  <2>3. own = st \/ (st = "unbind" /\ own = "invalid")
    BY <1>1, <1>4, <2>1 DEF Expected, StateOf, States
  <2>4. own = "bind" => initPosition[s] = -1
    BY <1>1, <2>1, <2>2, <2>3
  <2> QED BY <2>2, <2>3, <2>4
<1> HIDE DEF g, st, own, e
<1>7. s \in SubGroups => \A x \in In(s) :
         /\ x \in Subs /\ Home[x] = s /\ x # s
         /\ Told(WindDownInside(life[x], st, own), "remove") = "remove"
  <2> SUFFICES ASSUME s \in SubGroups, NEW x \in In(s)
               PROVE  /\ x \in Subs /\ Home[x] = s /\ x # s
                      /\ Told(WindDownInside(life[x], st, own), "remove") = "remove"
    OBVIOUS
  <2>1. s \in Groups /\ x \in Subs /\ Home[x] = s /\ x # s
    BY <1>2, InIsHome DEF TypeInv, g
  <2>2. PICK i \in 1 .. Len(members[s]) : members[s][i] = x
    BY <2>1, Found
  <2>3. life[x] \in Expected(own, initPosition[s], i)
    BY <2>1, <2>2 DEF MembersTold, own
  <2>4. own = "bind" => ~(i <= initPosition[s])
    BY <1>6
  <2> QED BY <1>1, <1>6, <2>1, <2>3, <2>4, EarlyMemberInside
<1>8. \A x \in Subs : life'[x] = IF x = s \/ (s \in SubGroups /\ x \in In(s)) THEN "remove" ELSE life[x]
  BY <1>5, <1>7 DEF Leave, Inside, g, st, own
<1>9. /\ \A k \in Groups : gstate'[k] = IF k = s THEN "invalid" ELSE gstate[k]
      /\ \A k \in Groups : initPosition'[k] = IF k = s THEN -1 ELSE initPosition[k]
      /\ mgrPosition' = mgrPosition /\ phase' = phase
  BY DEF Leave
<1>10. members[g] \in Seq(Subs) /\ Len(members[g]) \in Nat /\ Len(<<>>) = 0
  BY <1>1 DEF TypeInv, ListsOK
<1>11. IsWithout(e, members[g], s)
  <2>1. Contains(members[g], s)
    BY <1>3 DEF Contains
  <2>2. Distinct(members[g])
    BY <1>1 DEF TypeInv, ListsOK, Distinct
  <2> QED BY <1>10, <2>1, <2>2, EraseFacts DEF e
<1>12. /\ members'[g] = e
       /\ s \in Groups => members'[s] = <<>>
       /\ \A k \in Groups : k # g /\ k # s => members'[k] = members[k]
  BY <1>1, <1>2 DEF Leave, g, e
<1>13. ASSUME NEW k \in Groups, NEW i \in 1 .. Len(members'[k])
       PROVE  life'[members'[k][i]] \in Expected(gstate'[k], initPosition'[k], i)
  <2>1. CASE k = g
    <3>1. members'[k] = e /\ i \in 1 .. Len(members[g]) - 1
      BY <1>11, <1>12, <2>1 DEF IsWithout
    <3>2. PICK j \in 1 .. Len(members[g]) : e[i] = members[g][j] /\ j >= i
      BY <1>11, <3>1 DEF IsWithout
    <3>3. e[i] # s
      BY <1>11, <3>1 DEF IsWithout
    <3>4. members[g][j] \in Subs /\ Home[members[g][j]] = g
      BY <1>1, Placed
    <3>5. life'[e[i]] = life[members[g][j]]
      BY <1>2, <1>7, <1>8, <3>2, <3>3, <3>4
    <3>6. life[members[g][j]] \in Expected(st, initPosition[g], j)
      BY <1>1 DEF MembersTold, st
    <3>7. life[members[g][j]] \in Expected(st, initPosition[g], i)
      BY <1>1, <3>1, <3>6 DEF Expected
    <3> QED BY <1>2, <1>9, <2>1, <3>1, <3>5, <3>7 DEF st
  <2>2. CASE k = s
    BY <1>2, <1>10, <1>12, <2>2
  <2>3. CASE k # g /\ k # s
    <3>1. members'[k] = members[k] /\ gstate'[k] = gstate[k] /\ initPosition'[k] = initPosition[k]
      BY <1>9, <1>12, <2>3
    <3>2. members[k][i] \in Subs /\ Home[members[k][i]] = k
      BY <3>1, Placed
    <3>3. life'[members[k][i]] = life[members[k][i]]
      BY <1>7, <1>8, <2>3, <3>2 DEF g
    <3> QED BY <3>1, <3>3 DEF MembersTold
  <2> QED BY <2>1, <2>2, <2>3
<1>14. /\ In(g)' = In(g) \ {s}
       /\ s \in Groups => In(s)' = {}
       /\ \A k \in Groups : k # g /\ k # s => In(k)' = In(k)
  <2>1. members'[g] = e /\ e \in Seq(Subs) /\ Len(e) = Len(members[g]) - 1
    BY <1>1, <1>11, <1>12 DEF IsWithout
  <2>2. \A x \in In(g)' : x \in In(g) /\ x # s
    BY <1>10, <1>11, <2>1 DEF In, IsWithout
  <2>3. ASSUME NEW x \in In(g), x # s PROVE x \in In(g)'
    <3>1. PICK i \in 1 .. Len(members[g]) : members[g][i] = x
      BY <1>1, Found
    <3>2. PICK k \in 1 .. Len(members[g]) - 1 : e[k] = x
      BY <1>11, <2>3, <3>1 DEF IsWithout
    <3>3. DOMAIN e = 1 .. Len(members[g]) - 1
      BY <2>1, LenProperties
    <3> QED BY <2>1, <3>2, <3>3 DEF In
  <2>4. s \in Groups => In(s)' = {}
    <3>1. s \in Groups => members'[s] = <<>>
      BY <1>2, <1>12
    <3>2. DOMAIN <<>> = {}
      OBVIOUS
    <3> QED BY <3>1, <3>2 DEF In
  <2>5. \A k \in Groups : k # g /\ k # s => In(k)' = In(k)
    BY <1>12 DEF In
  <2>6. In(g)' = In(g) \ {s}
    BY <2>2, <2>3
  <2> QED BY <2>4, <2>5, <2>6
<1>15. \A x \in Subs : x \notin In(Home[x])' => life'[x] = "remove"
  <2> SUFFICES ASSUME NEW x \in Subs, x \notin In(Home[x])', x # s, ~(s \in SubGroups /\ x \in In(s))
               PROVE  life'[x] = "remove"
    BY <1>8
  <2>1. Home[x] \in Groups
    BY GroupFacts
  <2>2. x \notin In(Home[x])
    BY <1>2, <1>14, <2>1
  <2> QED BY <1>8, <2>2 DEF MembersTold
<1>16. MembersTold'
  BY <1>13, <1>15 DEF MembersTold
<1>17. SubGroupsFollow'
  <2> SUFFICES ASSUME NEW h \in SubGroups
               PROVE  /\ gstate'[h] = StateOf(life'[h])
                      /\ initPosition'[h] >= 0 => Attached(h)' /\ initPosition'[Home[h]] >= 0
    BY DEF SubGroupsFollow
  <2>1. h \in Groups /\ h \in Subs /\ Home[h] \in Top /\ Home[h] \in Groups
    BY GroupFacts
  <2>2. CASE h = s
    BY <1>8, <1>9, <2>1, <2>2 DEF StateOf
  <2>3. CASE h # s
    <3>1. life'[h] = life[h] /\ gstate'[h] = gstate[h] /\ initPosition'[h] = initPosition[h]
      BY <1>2, <1>7, <1>8, <1>9, <2>1, <2>3
    <3>2. initPosition'[Home[h]] = initPosition[Home[h]]
      BY <1>2, <1>9, <2>1
    <3>3. Attached(h) => Attached(h)'
      BY <1>2, <1>14, <2>1, <2>3 DEF Attached
    <3> QED BY <3>1, <3>2, <3>3 DEF SubGroupsFollow
  <2> QED BY <2>2, <2>3
<1>18. PositionsInRange'
  <2> SUFFICES ASSUME NEW k \in Groups, gstate'[k] = "bind" PROVE initPosition'[k] <= Len(members'[k])
    BY DEF PositionsInRange
  <2>1. k # s /\ gstate[k] = "bind" /\ initPosition'[k] = initPosition[k]
    BY <1>9
  <2>2. CASE k = g
    <3>1. Len(members'[k]) \in Nat
      BY <1>10, <1>11, <1>12, <2>2 DEF IsWithout
    <3> QED BY <1>1, <2>1, <2>2, <3>1 DEF st
  <2>3. CASE k # g
    BY <1>12, <2>1, <2>3 DEF PositionsInRange
  <2> QED BY <2>2, <2>3
<1>19. PhaseInv'
  <2>1. \A k \in Top : k \in Groups /\ gstate'[k] = gstate[k] /\ initPosition'[k] = initPosition[k]
    BY <1>2, <1>9 DEF Groups
  <2> QED BY <1>9, <2>1 DEF PhaseInv, AllGroups, AtStart
<1> QED BY <1>16, <1>17, <1>18, <1>19

\* An action that leaves alone all that InStep speaks of.
LEMMA QuietInStep ==
    ASSUME InStep, UNCHANGED <<members, gstate, initPosition, mgrPosition, phase, life>>
    PROVE  InStep'
BY DEF InStep, MembersTold, SubGroupsFollow, PositionsInRange, PhaseInv, AllGroups, AtStart, In, Attached

LEMMA InStepNext == TypeInv /\ (~interrupted => InStep) /\ [Next]_vars => (~interrupted => InStep)'
<1> SUFFICES ASSUME TypeInv, ~interrupted => InStep, [Next]_vars, ~interrupted' PROVE InStep'
  OBVIOUS
<1>1. CASE Bind
  BY <1>1, BindInStep DEF Bind
<1>2. CASE InitAll
  BY <1>2, InitAllInStep DEF InitAll
<1>3. CASE IncrementalInit
  BY <1>3, IncrementalInitInStep DEF IncrementalInit
<1>4. CASE Postinit
  BY <1>4, PostinitInStep DEF Postinit
<1>5. CASE Shutdown
  BY <1>5, ShutdownInStep DEF Shutdown
<1>6. CASE Unbind
  BY <1>6, UnbindInStep DEF Unbind
<1>7. CASE SomeMemberThrows
  BY <1>7 DEF SomeMemberThrows, BindThrows, InitThrows, Throws
<1>8. CASE RemoveUnknown
  BY <1>8, QuietInStep DEF RemoveUnknown
<1>9. ASSUME NEW s \in Subs, Add(s) \/ AddToGroup(s) PROVE InStep'
  <2>1. Join(Home[s], s) /\ Home[s] \in Groups
    BY <1>9, GroupFacts DEF Add, AddToGroup
  <2>2. ~interrupted
    BY <2>1 DEF Join
  <2> QED BY <2>1, <2>2, JoinInStep
<1>10. ASSUME NEW s \in Subs, Replace(s) PROVE InStep'
  <2>1. ~interrupted
    BY <1>10 DEF Replace
  <2> QED BY <1>10, <2>1, ReplaceInStep
<1>11. ASSUME NEW s \in Subs, Remove(s) \/ RemoveFromGroup(s) PROVE InStep'
  <2>1. Leave(s)
    BY <1>11 DEF Remove, RemoveFromGroup
  <2>2. ~interrupted
    BY <2>1 DEF Leave
  <2> QED BY <2>1, <2>2, LeaveInStep
<1>12. ASSUME NEW s \in Subs, Lookup(s) PROVE InStep'
  BY <1>12, QuietInStep DEF Lookup
<1>13. CASE UNCHANGED vars
  BY <1>13, QuietInStep DEF vars
<1> QED BY <1>1, <1>2, <1>3, <1>4, <1>5, <1>6, <1>7, <1>8, <1>9, <1>10, <1>11, <1>12, <1>13 DEF Next

LEMMA InStepInit == Init => InStep
<1> SUFFICES ASSUME Init PROVE InStep
  OBVIOUS
<1>1. MembersTold /\ PositionsInRange
  BY DEF Init, MembersTold, PositionsInRange
<1>2. SubGroupsFollow
  BY GroupFacts DEF Init, SubGroupsFollow, StateOf
<1>3. PhaseInv
  BY DEF Init, PhaseInv, AllGroups, AtStart, Groups
<1> QED BY <1>1, <1>2, <1>3 DEF InStep

LEMMA Invariant == Spec => []IInv
<1>1. Init => IInv
  BY TypeInit, InStepInit DEF IInv
<1>2. IInv /\ [Next]_vars => IInv'
  BY TypeNext, InStepNext DEF IInv
<1> QED BY <1>1, <1>2, PTL DEF Spec

-----------------------------------------------------------------------------
(* What follows for the program.                                           *)

(* Every variable keeps its type; each member is in one list, once; and    *)
(* the position of step-by-step initialisation stays within the list.      *)
THEOREM TypeCorrect == Spec => []TypeOK
<1>1. IInv => TypeOK
  BY DEF IInv, TypeInv, InStep, ListsOK, StatesOK, PositionsInRange, TypeOK
<1> QED BY <1>1, Invariant, PTL

(* As long as the program changes nothing in the middle of a phase, no     *)
(* subsystem is told anything out of turn: added late, removed early or    *)
(* inside a group that is itself added or removed.                         *)
THEOREM CallsComeInTurn == Spec => []LifeCycle
<1>1. IInv => LifeCycle
  <2> SUFFICES ASSUME IInv, ~interrupted, NEW s \in Subs PROVE life[s] # "wrong"
    BY DEF LifeCycle
  <2>1. TypeInv /\ MembersTold
    BY DEF IInv, InStep
  <2>2. CASE s \notin In(Home[s])
    BY <2>1, <2>2 DEF MembersTold
  <2>3. CASE s \in In(Home[s])
    <3>1. Home[s] \in Groups /\ gstate[Home[s]] \in States
      BY <2>1, GroupFacts DEF TypeInv, StatesOK
    <3>2. PICK i \in 1 .. Len(members[Home[s]]) : members[Home[s]][i] = s
      BY <2>1, <2>3, <3>1, Found
    <3>3. life[s] \in Expected(gstate[Home[s]], initPosition[Home[s]], i)
      BY <2>1, <3>1, <3>2 DEF MembersTold
    <3> QED BY <3>1, <3>3 DEF Expected, States
  <2> QED BY <2>2, <2>3
<1> QED BY <1>1, Invariant, PTL

(* ... and none is left out: every subsystem the manager can find has been *)
(* through the phase the manager has been through.                         *)
THEOREM NoneIsLeftOut == Spec => []NobodyLeftOut
<1>1. IInv => NobodyLeftOut
  <2> SUFFICES ASSUME IInv, ~interrupted, NEW s \in Subs, Findable(s)
               PROVE  /\ phase = "bound" => life[s] = "bind"
                      /\ phase = "inited" => life[s] = "init"
                      /\ phase = "running" => life[s] = "postinit"
                      /\ phase = "unbound" => life[s] \in {"unbind", "add"}
    BY DEF NobodyLeftOut
  <2>1. TypeInv /\ MembersTold /\ SubGroupsFollow /\ PhaseInv
    BY DEF IInv, InStep
  <2>2. Home[s] \in Called /\ s \in In(Home[s])
    BY GroupFacts DEF Findable, Called
  <2>3. phase = "bound" => life[s] = "bind"
    BY <2>1, <2>2, AllTold DEF PhaseInv
  <2>4. phase = "inited" => life[s] = "init"
    BY <2>1, <2>2, AllTold DEF PhaseInv
  <2>5. phase = "running" => life[s] = "postinit"
    BY <2>1, <2>2, AllTold DEF PhaseInv
  <2>6. phase = "unbound" => life[s] \in {"unbind", "add"}
    BY <2>1, <2>2, AllFresh DEF PhaseInv
  <2> QED BY <2>3, <2>4, <2>5, <2>6
<1> QED BY <1>1, Invariant, PTL
=============================================================================
