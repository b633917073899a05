--------------------------- MODULE SGSubsystemMgr ---------------------------
(***************************************************************************)
(* The subsystem manager and its groups (structure/subsystem_mgr.cxx): who *)
(* is told to bind, init, postinit, shutdown and unbind, and when.         *)
(*                                                                         *)
(* The manager holds MAX_GROUPS groups; a member of a group may itself be  *)
(* a group, one level deep here.  The program calls the manager phase by   *)
(* phase and may add, remove and look up subsystems at any time between    *)
(* two calls.  Everything runs on one thread, so a call is one step; what  *)
(* a subsystem looks up while it is being called is part of that step.     *)
(* A subsystem that answers INIT_CONTINUE changes nothing: a stutter.      *)
(***************************************************************************)
EXTENDS Integers, Sequences

CONSTANTS
    MAX_GROUPS,     \* groups of the manager
    Subs,           \* names of subsystems
    SubGroups,      \* those that are groups themselves
    Home,           \* the group each subsystem is added to: a number or a SubGroup
    LookedUp        \* the names the program looks up

Top == 0 .. MAX_GROUPS - 1
Groups == Top \cup SubGroups

ASSUME SubsystemAssumption ==
    /\ MAX_GROUPS \in Nat \ {0}
    /\ SubGroups \subseteq Subs
    /\ Home \in [Subs -> Groups]
    /\ \A h \in SubGroups : Home[h] \in Top
    /\ Subs \cap Int = {}
    /\ LookedUp \subseteq Subs

VARIABLES
    members,        \* _members of every group, by name
    gstate,         \* _state of every group
    initPosition,   \* _initPosition of every group
    mgrPosition,    \* _initPosition of the manager
    cache,          \* _subsystemNameCache: no entry, an entry, an entry whose object is gone
    phase,          \* the last phase the program asked of the manager
    life,           \* the last call each subsystem was given, "wrong" once one came out of turn
    interrupted,    \* history: the program changed something in the middle of a phase
    aside           \* history: the names in the cache of what left other than by its own name
                    \* through the manager

vars == <<members, gstate, initPosition, mgrPosition, cache, phase, life, interrupted, aside>>

States == {"invalid", "bind", "init", "postinit", "shutdown", "unbind"}
Calls == {"add", "bind", "init", "postinit", "shutdown", "unbind", "remove"}

TypeOK ==
    /\ members \in [Groups -> Seq(Subs)]
    /\ \A g \in Groups : \A i \in 1 .. Len(members[g]) : Home[members[g][i]] = g
    /\ \A g \in Groups : \A i, j \in 1 .. Len(members[g]) : members[g][i] = members[g][j] => i = j
    /\ gstate \in [Groups -> States]
    /\ initPosition \in [Groups -> Nat \cup {-1}]
    /\ \A g \in Groups : ~interrupted /\ gstate[g] = "bind" => initPosition[g] <= Len(members[g])
    /\ mgrPosition \in 0 .. MAX_GROUPS
    /\ cache \in [Subs -> {"none", "entry", "stale"}]
    /\ phase \in {"created", "bound", "initing", "inited", "running", "down", "unbound", "failed"}
    /\ life \in [Subs -> Calls \cup {"wrong"}]
    /\ interrupted \in BOOLEAN
    /\ aside \subseteq Subs

Init ==
    /\ members = [g \in Groups |-> <<>>]
    /\ gstate = [g \in Groups |-> "invalid"]
    /\ initPosition = [g \in Groups |-> -1]
    /\ mgrPosition = 0
    /\ cache = [s \in Subs |-> "none"]
    /\ phase = "created"
    /\ life = [s \in Subs |-> "remove"]
    /\ interrupted = FALSE
    /\ aside = {}

-----------------------------------------------------------------------------
(* The turns a subsystem's calls may come in: subsystem_mgr.hxx documents  *)
(* bind before init, postinit after it, shutdown for what was initialised, *)
(* unbind just before the removal.                                         *)
Turns ==
    {<<"remove", "add">>, <<"add", "bind">>, <<"unbind", "bind">>, <<"bind", "init">>,
     <<"init", "postinit">>, <<"init", "shutdown">>, <<"postinit", "shutdown">>,
     <<"bind", "unbind">>, <<"shutdown", "unbind">>,
     <<"add", "remove">>, <<"unbind", "remove">>}

Told(l, call) == IF <<l, call>> \in Turns THEN call ELSE "wrong"

TellAll(S, call) == [s \in Subs |-> IF s \in S THEN Told(life[s], call) ELSE life[s]]

In(g) == {members[g][i] : i \in DOMAIN members[g]}
Inside(s) == {s} \cup (IF s \in SubGroups THEN In(s) ELSE {})
Within(gs) == UNION {In(g) : g \in gs}

\* A group inside the manager, and a subsystem the manager can find.
Attached(g) == g \in SubGroups => g \in In(Home[g])
Findable(s) == s \in In(Home[s]) /\ Attached(Home[s])

Bound == {"bind", "init", "postinit", "shutdown", "unbind"}     \* _state >= State::BIND
Inited == {"init", "postinit", "shutdown", "unbind"}            \* _state >= State::INIT

\* Mutant: a late member is initialised without being bound.
CatchUpUnbound(l, st) == IF st \in {"init", "postinit"} THEN Told(l, "init") ELSE l

\* The calls of a member that joins a group (set_subsystem) ...
CatchUp(l, st) ==
    CASE st = "bind"     -> Told(l, "bind")
      [] st = "init"     -> Told(Told(l, "bind"), "init")
      [] st = "postinit" -> Told(Told(Told(l, "bind"), "init"), "postinit")
      [] OTHER           -> l

\* ... and of one that leaves it (remove_subsystem), before its removal.
WindDown(l, st) ==
    CASE st = "bind" \/ st = "shutdown"  -> Told(l, "unbind")
      [] st \in {"init", "postinit"}     -> Told(Told(l, "shutdown"), "unbind")
      [] OTHER                           -> l

\* A group that is told the same by the group it is in calls its members only
\* when its own state lets it.
WindDownInside(l, st, own) ==
    LET down == IF st \in {"init", "postinit"} /\ own \in Inited THEN Told(l, "shutdown") ELSE l
    IN  IF st \in {"bind", "shutdown", "init", "postinit"} /\ own \in Bound
        THEN Told(down, "unbind") ELSE down

\* Some member of g has begun incremental init and the last has not ended it.
MidInit(g) == gstate[g] = "bind" /\ initPosition[g] >= 0

-----------------------------------------------------------------------------
(* SGSubsystemMgr's own calls.                                             *)

Called == {g \in Groups : Attached(g)}

Bind ==
    /\ phase \in {"created", "unbound"}
    /\ life' = TellAll(Within(Called), "bind")
    /\ gstate' = [g \in Groups |-> IF g \in Called THEN "bind" ELSE gstate[g]]
    /\ phase' = "bound"
    /\ UNCHANGED <<members, initPosition, mgrPosition, cache, interrupted, aside>>

InitAll ==
    /\ phase = "bound"
    /\ life' = TellAll(Within(Called), "init")
    /\ gstate' = [g \in Groups |-> IF g \in Called THEN "init" ELSE gstate[g]]
    /\ phase' = "inited"
    /\ UNCHANGED <<members, initPosition, mgrPosition, cache, interrupted, aside>>

\* bind() or init() of the i-th member of group g throws, or of the j-th member
\* of that member: what comes before is done, the exception leaves the manager.
Before(g, i) == {members[g][k] : k \in 1 .. i - 1}
Throws(call, g, i, j) ==
    LET direct == Within(0 .. g - 1) \cup Before(g, i)
        inside == IF members[g][i] \in SubGroups THEN Before(members[g][i], j) ELSE {}
    IN  /\ life' = TellAll(direct \cup Within(direct \cap SubGroups) \cup inside, call)
        /\ gstate' = [k \in Groups |-> IF k \in (0 .. g - 1) \cup direct THEN call ELSE gstate[k]]
        /\ phase' = "failed"
        /\ interrupted' = TRUE
        /\ UNCHANGED <<members, initPosition, mgrPosition, cache, aside>>

BindThrows(g, i, j) == phase \in {"created", "unbound"} /\ Throws("bind", g, i, j)
InitThrows(g, i, j) == phase = "bound" /\ Throws("init", g, i, j)

SomeMemberThrows ==
    \E g \in Top : \E i \in DOMAIN members[g] :
       \E j \in IF members[g][i] \in SubGroups THEN DOMAIN members[members[g][i]] ELSE {1} :
          BindThrows(g, i, j) \/ InitThrows(g, i, j)

(* incrementalInit() of the manager looks at one group, that group at one  *)
(* member, and a member that is a group at one of its own.                 *)
\* Mutant: off by one.
ExhaustedEarly(g) == members[g] = <<>> \/ initPosition[g] >= Len(members[g]) - 1

Exhausted(g) == members[g] = <<>> \/ initPosition[g] >= Len(members[g])
Position(g) == IF initPosition[g] < 0 THEN 0 ELSE initPosition[g]
Current(g) == members[g][Position(g) + 1]

\* Mutant: the same member again.
MemberInitsStays(g) ==
    /\ Current(g) \notin SubGroups
    /\ life' = TellAll({Current(g)}, "init")
    /\ initPosition' = [initPosition EXCEPT ![g] = Position(g)]
    /\ gstate' = gstate

MemberInits(g) ==
    /\ Current(g) \notin SubGroups
    /\ life' = TellAll({Current(g)}, "init")
    /\ initPosition' = [initPosition EXCEPT ![g] = Position(g) + 1]
    /\ gstate' = gstate

MemberGroupDone(g) ==
    /\ Current(g) \in SubGroups
    /\ Exhausted(Current(g))
    /\ gstate' = [gstate EXCEPT ![Current(g)] = "init"]
    /\ life' = TellAll({Current(g)}, "init")
    /\ initPosition' = [initPosition EXCEPT ![g] = Position(g) + 1]

MemberGroupGoesOn(g) ==
    LET h == Current(g)
    IN  /\ h \in SubGroups
        /\ ~Exhausted(h)
        /\ life' = TellAll({Current(h)}, "init")
        /\ initPosition' = [initPosition EXCEPT ![g] = Position(g), ![h] = Position(h) + 1]
        /\ gstate' = gstate

GroupDone(g) ==
    /\ Exhausted(g)
    /\ gstate' = [gstate EXCEPT ![g] = "init"]
    /\ mgrPosition' = mgrPosition + 1
    /\ UNCHANGED <<initPosition, life>>

GroupGoesOn(g) ==
    /\ ~Exhausted(g)
    /\ MemberInits(g) \/ MemberGroupDone(g) \/ MemberGroupGoesOn(g)
    /\ mgrPosition' = mgrPosition

IncrementalInit ==
    /\ phase \in {"bound", "initing"}
    /\ \/ /\ mgrPosition < MAX_GROUPS
          /\ GroupDone(mgrPosition) \/ GroupGoesOn(mgrPosition)
          /\ phase' = "initing"
       \/ /\ mgrPosition = MAX_GROUPS
          /\ phase' = "inited"
          /\ UNCHANGED <<gstate, initPosition, mgrPosition, life>>
    /\ UNCHANGED <<members, cache, interrupted, aside>>

Postinit ==
    /\ phase = "inited"
    /\ life' = TellAll(Within(Called), "postinit")
    /\ gstate' = [g \in Groups |-> IF g \in Called THEN "postinit" ELSE gstate[g]]
    /\ phase' = "running"
    /\ UNCHANGED <<members, initPosition, mgrPosition, cache, interrupted, aside>>

\* A group that is not initialised ignores shutdown, one that is not bound
\* ignores unbind; a group inside it is then not called either.
Reached(above) == {g \in Called : gstate[g] \in above /\ (g \in SubGroups => gstate[Home[g]] \in above)}

Shutdown ==
    LET down == Reached(Inited)
    IN  /\ phase \in {"bound", "initing", "inited", "running", "failed"}
        /\ life' = TellAll(Within(down), "shutdown")
        /\ gstate' = [g \in Groups |-> IF g \in down THEN "shutdown" ELSE gstate[g]]
        /\ initPosition' = [g \in Groups |-> IF g \in down THEN -1 ELSE initPosition[g]]
        /\ mgrPosition' = 0
        /\ phase' = "down"
        /\ interrupted' = (interrupted \/ phase = "initing")
        /\ UNCHANGED <<members, cache, aside>>

Unbind ==
    LET free == Reached(Bound)
    IN  /\ phase = "down"
        /\ life' = TellAll(Within(free), "unbind")
        /\ gstate' = [g \in Groups |-> IF g \in free THEN "unbind" ELSE gstate[g]]
        /\ phase' = "unbound"
        /\ UNCHANGED <<members, initPosition, mgrPosition, cache, interrupted, aside>>

-----------------------------------------------------------------------------
(* Adding and removing, through the manager and through a group itself.    *)

\* set_subsystem of a name the group does not have.  A group that joins
\* brings its members along.
Join(g, s) ==
    /\ s \notin In(g)
    /\ Home[s] = g
    /\ members' = [members EXCEPT ![g] = Append(@, s)]
    /\ life' = [x \in Subs |->
                  CASE x = s -> CatchUp(Told(life[s], "add"), gstate[g])
                    [] x # s /\ s \in SubGroups /\ x \in In(s) -> CatchUp(life[x], gstate[g])
                    [] OTHER -> life[x]]
    /\ gstate' = [k \in Groups |->
                    IF k = s /\ gstate[g] \in {"bind", "init", "postinit"} THEN gstate[g] ELSE gstate[k]]
    /\ interrupted' = (interrupted \/ gstate[g] = "shutdown")
    /\ UNCHANGED <<initPosition, mgrPosition, phase>>

\* SGSubsystemMgr::add, which refuses a name it can find, were it in the cache alone.
Add(s) ==
    /\ Home[s] \in Top
    /\ cache[s] = "none"
    /\ Join(Home[s], s)
    /\ UNCHANGED <<cache, aside>>

\* A group, one of the manager's own from get_group() included, is asked
\* itself: the manager and its cache know nothing of it.
AddToGroup(s) ==
    /\ Join(Home[s], s)
    /\ UNCHANGED <<cache, aside>>

\* What has been destroyed stays in the cache, unless the cache was cleared.
Stale(S, c) == [s \in Subs |-> IF s \in S /\ c[s] = "entry" THEN "stale" ELSE c[s]]

StillCached(S) == {x \in S : cache'[x] # "none"}

\* set_subsystem of a name the group has: the new object takes the place of
\* the old one, which is dropped as it is, with the members it has if it is a
\* group.  A new group has none yet.
Replace(s) ==
    LET st == gstate[Home[s]]
    IN  /\ s \in In(Home[s])
        /\ members' = [k \in Groups |-> IF k = s THEN <<>> ELSE members[k]]
        /\ life' = [x \in Subs |->
                      CASE x = s -> CatchUp(Told(Told(life[s], "remove"), "add"), st)
                        [] x # s /\ x \in Inside(s) -> Told(life[x], "remove")
                        [] OTHER -> life[x]]
        /\ gstate' = [k \in Groups |->
                        IF k = s THEN (IF st \in {"bind", "init", "postinit"} THEN st ELSE "invalid")
                        ELSE gstate[k]]
        /\ initPosition' = [k \in Groups |-> IF k = s THEN -1 ELSE initPosition[k]]
        /\ cache' = Stale(Inside(s), cache)
        /\ aside' = StillCached(aside \cup Inside(s))
        /\ interrupted' = (interrupted \/ st \notin {"invalid", "unbind"})
        /\ UNCHANGED <<mgrPosition, phase>>

\* The list without the one place that has s.
Erase(list, s) ==
    LET at == CHOOSE i \in 1 .. Len(list) : list[i] = s
    IN  [k \in 1 .. Len(list) - 1 |-> IF k < at THEN list[k] ELSE list[k + 1]]

\* remove_subsystem of the group that has s: s leaves with all it contains.
Leave(s) ==
    LET g == Home[s]
    IN  /\ s \in In(g)
        /\ members' = [k \in Groups |->
                         CASE k = g -> Erase(members[g], s) [] k = s -> <<>> [] OTHER -> members[k]]
        /\ life' = [x \in Subs |->
                      CASE x = s -> Told(WindDown(life[s], gstate[g]), "remove")
                        [] x # s /\ x \in Inside(s) ->
                              Told(WindDownInside(life[x], gstate[g], gstate[s]), "remove")
                        [] OTHER -> life[x]]
        /\ gstate' = [k \in Groups |-> IF k = s THEN "invalid" ELSE gstate[k]]
        /\ initPosition' = [k \in Groups |-> IF k = s THEN -1 ELSE initPosition[k]]
        /\ interrupted' = (interrupted \/ MidInit(g))
        /\ UNCHANGED <<mgrPosition, phase>>

\* Whether the shutdown or the unbinding of what leaves runs any code.
CallsMade(s) == gstate[Home[s]] \notin {"invalid", "unbind"}

\* Mutant: the name of what leaves is not cleared first.
LookedUpByName(s) == IF CallsMade(s) THEN Inside(s) \cap LookedUp ELSE {}

\* The name of what leaves is cleared before it is called; the names inside a
\* group that leaves are not, and a lookup made meanwhile caches them again.
LookedUpAgain(s) == IF CallsMade(s) THEN (Inside(s) \ {s}) \cap LookedUp ELSE {}

\* SGSubsystemMgr::remove drops the cache first.
Remove(s) ==
    /\ Findable(s)
    /\ Leave(s)
    /\ \E again \in SUBSET LookedUpAgain(s) :
          cache' = [x \in Subs |-> IF x \in again THEN "stale" ELSE "none"]
    /\ aside' = StillCached(Inside(s) \ {s})

RemoveUnknown ==
    /\ \E s \in Subs : ~Findable(s)
    /\ cache' = [s \in Subs |-> "none"]
    /\ aside' = {}
    /\ UNCHANGED <<members, gstate, initPosition, mgrPosition, phase, life, interrupted>>

RemoveFromGroup(s) ==
    /\ Leave(s)
    /\ \E again \in SUBSET LookedUpAgain(s) :
          cache' = [x \in Subs |-> IF x \in again THEN "stale" ELSE Stale(Inside(s), cache)[x]]
    /\ aside' = StillCached(aside \cup Inside(s))

\* SGSubsystemMgr::get_subsystem.
Lookup(s) ==
    /\ s \in LookedUp
    /\ Findable(s)
    /\ cache[s] = "none"
    /\ cache' = [cache EXCEPT ![s] = "entry"]
    /\ UNCHANGED <<members, gstate, initPosition, mgrPosition, phase, life, interrupted, aside>>

Next ==
    \/ Bind \/ InitAll \/ IncrementalInit \/ Postinit \/ Shutdown \/ Unbind
    \/ SomeMemberThrows
    \/ RemoveUnknown
    \/ \E s \in Subs : Add(s) \/ AddToGroup(s) \/ Replace(s) \/ Remove(s) \/ RemoveFromGroup(s) \/ Lookup(s)

Spec == Init /\ [][Next]_vars

\* The program that has begun to initialise step by step goes on to the end.
FairSpec == Spec /\ WF_vars(IncrementalInit)

-----------------------------------------------------------------------------
\* As long as the program changes nothing in the middle of a phase, every
\* subsystem gets its calls in turn: those that come late, those that leave
\* early, and those inside a group that is itself a member.
LifeCycle == ~interrupted => \A s \in Subs : life[s] # "wrong"

\* ... and none is left out: what the manager can find has been through the
\* phase the manager has been through.
NobodyLeftOut ==
    ~interrupted =>
        \A s \in Subs : Findable(s) =>
            /\ phase = "bound" => life[s] = "bind"
            /\ phase = "inited" => life[s] = "init"
            /\ phase = "running" => life[s] = "postinit"
            /\ phase = "unbound" => life[s] \in {"unbind", "add"}

\* The cache of the manager answers with a dead object only for what left
\* without being named to the manager: taken out or replaced at its group, or
\* gone with the group it was in.  What remove() takes out by name is
\* forgotten, whatever is looked up while it is shut down.
RemovedIsForgotten == \A s \in Subs : cache[s] = "stale" => s \in aside

\* Step-by-step initialisation ends, whatever is added meanwhile.
InitEnds == phase = "initing" ~> phase # "initing" \/ interrupted

-----------------------------------------------------------------------------
(* What the comments say and the code does not do.                         *)

\* subsystem_mgr.hxx:456-457, of _state: "track the state of this group, so we
\* can transition added/removed members correctly".
MembersTransitionCorrectly == \A s \in Subs : life[s] # "wrong"

\* subsystem_mgr.cxx:700-705, of the cleared name: "This ensures that a lookup
\* during shutdown fails", lest the manager "re-caches a dead pointer".
NoDeadPointerInCache == \A s \in Subs : cache[s] # "stale"
=============================================================================
