---------------------------- MODULE HTTPRepository ----------------------------
(***************************************************************************)
(* HTTPRepository (simgear/io/HTTPRepository.cxx): makes a local tree like *)
(* the one of a server.  The index of a directory names its children with  *)
(* their hashes; what is missing or different is requested, directories    *)
(* that are current are looked into by tasks, what is not named is removed.*)
(*                                                                         *)
(* One thread runs it all, deep inside one another's callbacks: the answer *)
(* to a request changes a directory, which schedules requests, which may   *)
(* fail, which cancels other requests, whose callbacks finish them, which  *)
(* starts queued ones.  `stack` is what remains to be done of the call     *)
(* that is running, innermost first, and each step does its head.          *)
(*                                                                         *)
(* The content of an entry is abstracted to its version: the server has    *)
(* the "new" one of everything, the disk may hold an "old" one, a spoilt   *)
(* ("bad") one or none.  An index of a version lists the children of that  *)
(* version.                                                                *)
(***************************************************************************)
EXTENDS HTTPClient, Sequences, SequencesExt, Naturals, FiniteSets, Bags

CONSTANTS Dirs, Files,    \* the entries
          Tarballs,       \* files that are archives, to be extracted
          Root,           \* the root directory
          Parent,         \* the directory of each other entry
          OnlyOld,        \* entries the old index alone lists
          OnlyNew,        \* entries the new index alone lists
          RecheckTimeout, \* isRecheckTimeoutEnabled
          MaxActive,      \* requests under way at a time (5)
          MaxFailures,    \* maxPermittedFailures (16)
          MaxToProcess    \* tasks per process() (16)

Entries == Dirs \cup Files

(* The path of an entry: the entry itself and the directories it is in,    *)
(* which are in every set that has the entry and, with an entry, its       *)
(* directory.                                                              *)
Above == [e \in Entries |->
            {a \in Entries : \A S \in SUBSET Entries :
                e \in S /\ (\A x \in S \ {Root} : Parent[x] \in S) => a \in S}]

ASSUME RepositoryAssumption ==
    /\ Requests = Entries
    /\ IsFiniteSet(Entries)
    /\ Dirs \cap Files = {}
    /\ Tarballs \subseteq Files
    /\ Root \in Dirs
    /\ Parent \in [Entries \ {Root} -> Dirs]
    /\ \A e \in Entries : Root \in Above[e]
    /\ \A e \in Entries \ {Root} : e \notin Above[Parent[e]]
    /\ RecheckTimeout \in BOOLEAN
    /\ MaxActive \in Nat \ {0}
    /\ MaxFailures \in Nat \ {0}
    /\ MaxToProcess \in Nat \ {0}

VARIABLES active, queued,  \* activeRequests, queuedRequests
          tasks,           \* pendingTasks
          failures,        \* failures: the bag of their paths
          status,          \* status: REPO_NO_ERROR or not
          isUpdating,
          directories,     \* the HTTPDirectory objects other than the root's
          disk,            \* the version of each entry on disk
          recent,          \* directories that wasCheckedRecently()
          alive,           \* the object has not been deleted
          threw,           \* history: an exception has left a callback
          stack            \* what is left of the call that is running

vars == <<requests, active, queued, tasks, failures, status, isUpdating,
          directories, disk, recent, alive, threw, stack>>

-----------------------------------------------------------------------------
(* Entries and their versions.                                             *)

Versions == {"none", "old", "new", "bad"}

Inside(d) == {e \in Entries \ {Root} : Parent[e] = d}

Listed(v) == CASE v = "old" -> Entries \ OnlyNew
               [] v = "new" -> Entries \ OnlyOld
               [] OTHER -> {}

(* `children`: what the index of the directory lists.                      *)
Children(d) == Inside(d) \cap Listed(disk[d])

(* hashForChild(c) == c.hash for an index of version v.                    *)
Current(c, v) == disk[c] = v

Orphans(d) == {e \in Inside(d) : disk[e] # "none"} \ Children(d)

(* What an index names for an entry; the root has no target.               *)
Target(e) == IF e = Root THEN "new" ELSE disk[Parent[e]]

Init ==
    /\ ClientInit
    /\ active = <<>> /\ queued = <<>> /\ tasks = <<>> /\ failures = EmptyBag
    /\ status = "ok"
    /\ isUpdating = FALSE
    /\ directories = {}
    /\ disk \in [Entries -> {"none", "old", "new"}]
    /\ \A e \in Entries \ {Root} :
          disk[e] # "none" => disk[Parent[e]] # "none" /\ e \in Listed(disk[e])
    /\ recent \in SUBSET {d \in Dirs : disk[d] # "none"}
    /\ alive = TRUE
    /\ threw = FALSE
    /\ stack = <<>>

-----------------------------------------------------------------------------
(* The call stack.                                                         *)

Do(op, e) == [op |-> op, of |-> e]

Each(op, S) == [i \in 1 .. Cardinality(S) |-> Do(op, SetToSeq(S)[i])]

Running(op) == stack # <<>> /\ Head(stack).op = op

Of == Head(stack).of

(* The step at hand becomes the steps in s.                                *)
Becomes(s) == stack' = s \o Tail(stack)

(* A call from outside begins.                                             *)
Begins(s) == alive /\ stack = <<>> /\ stack' = s

(* checkForComplete, after the step has changed the lists.                 *)
CheckForComplete ==
    isUpdating' = (isUpdating /\ ~(tasks' = <<>> /\ active' = <<>> /\ queued' = <<>>))

-----------------------------------------------------------------------------
(* Steps inside calls.                                                     *)

(* Mutant: a directory that is skipped is asked for all the same.          *)
SkipAsksAnyway ==
    /\ Running("get")
    /\ RecheckTimeout /\ Of \in recent
    /\ Becomes(<<Do("refresh", Of)>>)
    /\ active' = Append(active, Of)
    /\ MakeRequest(Of)
    /\ directories' = directories \cup ({Of} \ {Root})
    /\ UNCHANGED <<queued, tasks, failures, status, isUpdating, disk, recent, alive, threw>>

(* updateFile and updateDir, for one entry that is not current: a          *)
(* directory that was checked recently is not asked for again.             *)
SkipUpdateDir ==
    /\ Running("get")
    /\ RecheckTimeout /\ Of \in recent
    /\ Becomes(<<Do("refresh", Of)>>)
    /\ directories' = directories \cup ({Of} \ {Root})
    /\ UNCHANGED <<requests, active, queued, tasks, failures, status, isUpdating,
                   disk, recent, alive, threw>>

(* Mutant: one request too many.                                           *)
StartOneTooMany ==
    /\ Running("get")
    /\ ~(RecheckTimeout /\ Of \in recent)
    /\ \/ /\ Len(active) <= MaxActive
          /\ active' = Append(active, Of)
          /\ MakeRequest(Of)
          /\ UNCHANGED queued
       \/ /\ Len(active) > MaxActive
          /\ queued' = Append(queued, Of)
          /\ UNCHANGED <<requests, active>>
    /\ directories' = directories \cup ((Dirs \ {Root}) \cap {Of})
    /\ Becomes(<<>>)
    /\ UNCHANGED <<tasks, failures, status, isUpdating, disk, recent, alive, threw>>

StartRequest ==
    /\ Running("get")
    /\ ~(RecheckTimeout /\ Of \in recent)
    /\ \/ /\ Len(active) < MaxActive
          /\ active' = Append(active, Of)
          /\ MakeRequest(Of)
          /\ UNCHANGED queued
       \/ /\ Len(active) >= MaxActive
          /\ queued' = Append(queued, Of)
          /\ UNCHANGED <<requests, active>>
    /\ directories' = directories \cup ((Dirs \ {Root}) \cap {Of})
    /\ Becomes(<<>>)
    /\ UNCHANGED <<tasks, failures, status, isUpdating, disk, recent, alive, threw>>

(* failedToUpdate: of a directory.                                         *)
FailedToUpdate(d) == IF d = Root THEN Do("failRoot", Root) ELSE Do("fail", d)

(* The directories among the children that are current, to be looked into, *)
(* and the children to be asked for.                                       *)
Recurse(d) == {c \in Children(d) \cap Dirs : Current(c, disk[d])}
ToBeUpdated(d) == {c \in Children(d) : ~Current(c, disk[d])}

(* updateChildrenBasedOnHash: removal stops at the first orphan that       *)
(* cannot be removed; what is new or different is scheduled after that,    *)
(* whatever the failure has led to.                                        *)
UpdateAllChildren(d) ==
    \E removed \in SUBSET Orphans(d) :
        /\ disk' = [e \in Entries |->
                      IF Above[e] \cap removed # {} THEN "none" ELSE disk[e]]
        /\ tasks' = tasks \o Each("refresh", Recurse(d))
        /\ directories' = (directories \ (IF d = Root THEN {} ELSE removed)) \cup Recurse(d)
        /\ Becomes((IF removed # Orphans(d) THEN <<Do("fail", d)>> ELSE <<>>)
                      \o Each("get", ToBeUpdated(d)))

(* A task is the one caller that does not catch what looking at the        *)
(* children throws.                                                        *)
InTask == Len(stack) > 1 /\ stack[2].op = "pop" /\ Head(tasks) = Head(stack)

(* updateChildrenAfterRefresh catches it: a child on disk cannot be read   *)
(* for its hash.  The directories before it in the index are looked into,  *)
(* nothing is asked for and nothing is removed.                            *)
CannotHashChild(d) ==
    \E c \in Children(d) : \E before \in SUBSET (Recurse(d) \ {c}) :
        /\ disk[c] # "none" /\ ~InTask
        /\ tasks' = tasks \o Each("refresh", before)
        /\ directories' = directories \cup before
        /\ Becomes(<<FailedToUpdate(d)>>)
        /\ UNCHANGED disk

UpdateChildren ==
    /\ Running("refresh")
    /\ UpdateAllChildren(Of) \/ CannotHashChild(Of)
    /\ UNCHANGED <<requests, active, queued, failures, status, isUpdating,
                   recent, alive, threw>>

(* failedToUpdateChild: one failure too many abandons the sync.            *)
FailedToUpdateChild ==
    /\ Running("fail")
    /\ failures' = failures (+) SetToBag({Of})
    /\ \/ /\ BagCardinality(failures') < MaxFailures
          /\ Becomes(<<>>)
          /\ UNCHANGED <<status, queued>>
       \/ /\ BagCardinality(failures') >= MaxFailures
          /\ status' = "failed"
          /\ queued' = <<>>
          /\ Becomes([i \in DOMAIN active |-> Do("cancel", active[i])])
    /\ UNCHANGED <<requests, active, tasks, isUpdating, directories, disk, recent,
                   alive, threw>>

(* failedToGetRootIndex.                                                   *)
FailedToGetRootIndex ==
    /\ Running("failRoot")
    /\ status' = "failed"
    /\ Becomes(<<>>)
    /\ UNCHANGED <<requests, active, queued, tasks, failures, isUpdating,
                   directories, disk, recent, alive, threw>>

(* HTTP::Client::cancelRequest and the onFail of the request: the failure  *)
(* is not recorded, a file loses what was there before.                    *)
Cancel ==
    /\ Running("cancel")
    /\ CancelRequest(Of)
    /\ disk' = IF Of \in Files THEN [disk EXCEPT ![Of] = "none"] ELSE disk
    /\ status' = IF Of = Root THEN "failed" ELSE status
    /\ Becomes(<<Do("finished", Of)>>)
    /\ UNCHANGED <<active, queued, tasks, failures, isUpdating, directories, recent,
                   alive, threw>>

(* The client does not know the request any more: nothing happens.         *)
CancelNothing ==
    /\ Running("cancel")
    /\ Of \notin requests
    /\ Becomes(<<>>)
    /\ UNCHANGED <<requests, active, queued, tasks, failures, status, isUpdating,
                   directories, disk, recent, alive, threw>>

(* Mutant: none of those that wait is started.                             *)
FinishedStartsNone ==
    /\ Running("finished")
    /\ active' = RemoveFirst(active, Of)
    /\ UNCHANGED <<requests, queued, tasks>>
    /\ CheckForComplete
    /\ Becomes(<<>>)
    /\ UNCHANGED <<failures, status, directories, disk, recent, alive, threw>>

(* finishedRequest: the request leaves the list, a queued one is started.  *)
FinishedRequest ==
    LET others == RemoveFirst(active, Of)
    IN /\ Running("finished")
       /\ \/ /\ queued = <<>>
             /\ active' = others
             /\ UNCHANGED <<requests, queued>>
          \/ /\ queued # <<>>
             /\ active' = Append(others, Head(queued))
             /\ queued' = Tail(queued)
             /\ MakeRequest(Head(queued))
       /\ UNCHANGED tasks
       /\ CheckForComplete
       /\ Becomes(<<>>)
       /\ UNCHANGED <<failures, status, directories, disk, recent, alive, threw>>

(* process() runs the task in front and takes it out afterwards ...        *)
RunTask ==
    /\ Running("process")
    /\ Of > 0 /\ tasks # <<>> /\ Head(tasks).op = "refresh"
    /\ Becomes(<<Head(tasks), Do("pop", Of), Do("process", Of - 1)>>)
    /\ UNCHANGED <<requests, active, queued, tasks, failures, status, isUpdating,
                   directories, disk, recent, alive, threw>>

PopTask ==
    /\ Running("pop")
    /\ tasks' = Tail(tasks)
    /\ Becomes(<<>>)
    /\ UNCHANGED <<requests, active, queued, failures, status, isUpdating,
                   directories, disk, recent, alive, threw>>

(* ... an archive is extracted a piece at a time ...                       *)
ExtractMore ==
    /\ Running("process")
    /\ Of > 0 /\ tasks # <<>> /\ Head(tasks).op = "extract"
    /\ Becomes(<<>>)
    /\ UNCHANGED <<requests, active, queued, tasks, failures, status, isUpdating,
                   directories, disk, recent, alive, threw>>

(* Mutant: the failure is reported when all else is done.                  *)
ExtractReportsLate ==
    /\ Running("process")
    /\ Of > 0 /\ tasks # <<>> /\ Head(tasks).op = "extract"
    /\ \E failed \in BOOLEAN :
          Becomes(<<Do("pop", Of), Do("process", Of - 1)>>
                     \o (IF failed THEN <<Do("fail", Parent[Head(tasks).of])>> ELSE <<>>))
    /\ UNCHANGED <<requests, active, queued, tasks, failures, status, isUpdating,
                   directories, disk, recent, alive, threw>>

(* ... to its end, in success or in a failure of the archive's directory   *)
(* (one that could not be opened fails without a word) ...                 *)
ExtractEnds ==
    /\ Running("process")
    /\ Of > 0 /\ tasks # <<>> /\ Head(tasks).op = "extract"
    /\ \E failed \in BOOLEAN :
          Becomes((IF failed THEN <<Do("fail", Parent[Head(tasks).of])>> ELSE <<>>)
                     \o <<Do("pop", Of), Do("process", Of - 1)>>)
    /\ UNCHANGED <<requests, active, queued, tasks, failures, status, isUpdating,
                   directories, disk, recent, alive, threw>>

(* ... and process() ends.                                                 *)
ProcessEnds ==
    /\ Running("process")
    /\ Of = 0 \/ tasks = <<>>
    /\ UNCHANGED <<requests, active, queued, tasks>>
    /\ CheckForComplete
    /\ Becomes(<<>>)
    /\ UNCHANGED <<failures, status, directories, disk, recent, alive, threw>>

(* The destructor has cancelled the requests it found.                     *)
Deleted ==
    /\ Running("delete")
    /\ alive' = FALSE
    /\ directories' = {}
    /\ Becomes(<<>>)
    /\ UNCHANGED <<requests, active, queued, tasks, failures, status, isUpdating,
                   disk, recent, threw>>

Continue ==
    \/ SkipUpdateDir \/ StartRequest \/ UpdateChildren
    \/ FailedToUpdateChild \/ FailedToGetRootIndex
    \/ Cancel \/ CancelNothing \/ FinishedRequest
    \/ RunTask \/ PopTask \/ ExtractMore \/ ExtractEnds \/ ProcessEnds
    \/ Deleted

-----------------------------------------------------------------------------
(* Calls from outside.                                                     *)

(* The owner drops a repository that has given up (terrasync.cxx:632): it  *)
(* does not call update again while anything of such a sync is left.       *)
Update ==
    /\ ~isUpdating
    /\ status = "failed" => active = <<>> /\ queued = <<>> /\ tasks = <<>>
    /\ Begins(<<Do("get", Root)>>)
    /\ status' = "ok"
    /\ isUpdating' = TRUE
    /\ failures' = EmptyBag
    /\ UNCHANGED <<requests, active, queued, tasks, directories, disk, recent,
                   alive, threw>>

Process ==
    /\ Begins(<<Do("process", MaxToProcess)>>)
    /\ UNCHANGED <<requests, active, queued, tasks, failures, status, isUpdating,
                   directories, disk, recent, alive, threw>>

(* ~HTTPRepoPrivate, with its copy of the active requests.                 *)
Delete ==
    /\ Begins([i \in DOMAIN active |-> Do("cancel", active[i])]
                 \o <<Do("delete", Root)>>)
    /\ UNCHANGED <<requests, active, queued, tasks, failures, status, isUpdating,
                   directories, disk, recent, alive, threw>>

(* A day later a check is no longer recent; no sync takes that long.       *)
DayPasses(d) ==
    /\ d \in recent /\ ~isUpdating
    /\ Begins(<<>>)
    /\ recent' = recent \ {d}
    /\ UNCHANGED <<requests, active, queued, tasks, failures, status, isUpdating,
                   directories, disk, alive, threw>>

-----------------------------------------------------------------------------
(* HTTP::Client::update finds the answer to a request and calls it back.   *)

WithoutFailures(e) == [f \in DOMAIN failures \ {e} |-> failures[f]]

(* 200 with the index that was wanted: it is written ...                   *)
GotIndex(d) ==
    /\ Answered(d)
    /\ Target(d) = "new"
    /\ disk' = [disk EXCEPT ![d] = "new"]
    /\ recent' = recent \cup {d}
    /\ failures' = WithoutFailures(d)
    /\ Begins(<<Do("refresh", d), Do("finished", d)>>)
    /\ UNCHANGED <<active, queued, tasks, status, isUpdating, directories, alive, threw>>

(* ... or the exception of not being able to takes the callback apart,     *)
(* and so does that of not being able to read back what has been written.  *)
CannotWriteIndex(d) ==
    /\ Answered(d)
    /\ Target(d) = "new"
    /\ Begins(<<>>)
    /\ threw' = TRUE
    /\ \/ UNCHANGED <<disk, recent>>
       \/ /\ disk' = [disk EXCEPT ![d] = "new"]
          /\ recent' = recent \cup {d}
    /\ UNCHANGED <<active, queued, tasks, failures, status, isUpdating, directories, alive>>

(* 304, which is only possible for the index the server has: the date that *)
(* was sent is taken to be that of the index on disk, which nobody but the *)
(* program has touched.                                                    *)
IndexNotModified(d) ==
    /\ Answered(d)
    /\ disk[d] = "new"
    /\ recent' = recent \cup {d}
    /\ Begins(<<Do("refresh", d), Do("finished", d)>>)
    /\ UNCHANGED <<active, queued, tasks, failures, status, isUpdating, directories,
                   disk, alive, threw>>

(* Mutant: a wrong index does not finish the request.                      *)
WrongIndexUnfinished(d) ==
    /\ Answered(d)
    /\ Begins(<<FailedToUpdate(d)>>)
    /\ UNCHANGED <<active, queued, tasks, failures, status, isUpdating, directories,
                   disk, recent, alive, threw>>

(* A wrong index (the root's is not checked), an error status, no answer.  *)
NoIndex(d) ==
    /\ Answered(d)
    /\ Begins(<<FailedToUpdate(d), Do("finished", d)>>)
    /\ UNCHANGED <<active, queued, tasks, failures, status, isUpdating, directories,
                   disk, recent, alive, threw>>

(* A whole file of the version its index wants; an archive is extracted by *)
(* a task, unless what it was extracted to before cannot be removed.       *)
GotFile(f) ==
    /\ Answered(f)
    /\ Target(f) = "new"
    /\ disk' = [disk EXCEPT ![f] = "new"]
    /\ failures' = WithoutFailures(f)
    /\ tasks' \in {tasks} \cup {Append(tasks, Do("extract", t)) : t \in Tarballs \cap {f}}
    /\ Begins(<<Do("finished", f)>>)
    /\ UNCHANGED <<active, queued, status, isUpdating, directories, recent, alive, threw>>

(* Mutant: a file with another hash is no failure.                         *)
WrongFileAccepted(f) ==
    /\ Answered(f)
    /\ disk' = [disk EXCEPT ![f] = "bad"]
    /\ Begins(<<Do("finished", f)>>)
    /\ UNCHANGED <<active, queued, tasks, failures, status, isUpdating, directories,
                   recent, alive, threw>>

(* A file with another hash stays on disk; an error status touches         *)
(* nothing; a broken connection, or a disk that cannot be written to       *)
(* (which cancels the request), removes the file.                          *)
NoFile(f) ==
    /\ Answered(f)
    /\ \E v \in {"bad", "none", disk[f]} \cup (IF Target(f) = "new" THEN {} ELSE {"new"}) :
          disk' = [disk EXCEPT ![f] = v]
    /\ Begins(<<Do("fail", f), Do("finished", f)>>)
    /\ UNCHANGED <<active, queued, tasks, failures, status, isUpdating, directories,
                   recent, alive, threw>>

Answer(e) ==
    \/ e \in Dirs /\ (GotIndex(e) \/ IndexNotModified(e) \/ NoIndex(e))
    \/ e \in Files /\ (GotFile(e) \/ NoFile(e))

Next ==
    \/ Continue
    \/ Update \/ Process \/ Delete
    \/ \E e \in Requests : Answer(e)
    \/ \E d \in Dirs : CannotWriteIndex(d) \/ DayPasses(d)

(* A call that has begun goes on.  The owner calls process() and the       *)
(* client's update again and again, a request that is under way is         *)
(* answered in some way, and an archive has an end.                        *)
Fairness ==
    /\ WF_vars(Continue)
    /\ SF_vars(Process)
    /\ SF_vars(ExtractEnds)
    /\ SF_vars(\E e \in Requests : Answer(e))

Spec == Init /\ [][Next]_vars /\ Fairness

-----------------------------------------------------------------------------
Ops == {"get", "refresh", "fail", "failRoot", "cancel", "finished", "process",
        "pop", "delete"}

TypeOK ==
    /\ ClientTypeOK
    /\ active \in Seq(Entries) /\ queued \in Seq(Entries)
    /\ tasks \in Seq([op : {"refresh"}, of : Dirs] \cup [op : {"extract"}, of : Tarballs])
    /\ IsABag(failures) /\ BagToSet(failures) \subseteq Entries
    /\ status \in {"ok", "failed"}
    /\ isUpdating \in BOOLEAN
    /\ directories \subseteq Dirs \ {Root}
    /\ disk \in [Entries -> Versions]
    /\ recent \subseteq Dirs
    /\ alive \in BOOLEAN /\ threw \in BOOLEAN
    /\ stack \in Seq([op : Ops, of : Entries \cup 0 .. MaxToProcess])

(* Never more requests at a time than allowed, and none waits in the queue *)
(* while there is room: finishedRequest starts exactly one.                *)
QueueIsThrottled ==
    /\ Len(active) <= MaxActive
    /\ queued # <<>> => Len(active) = MaxActive

(* Between calls the active requests are those the client is working on,   *)
(* unless an exception has taken a callback apart: an active request the   *)
(* client does not know would never be finished, and the other way round   *)
(* an answer would come to a request nobody waits for.  No request is made *)
(* twice.                                                                  *)
EveryActiveRequestIsUnderWay ==
    /\ stack = <<>> /\ alive /\ ~threw => ToSet(active) = requests
    /\ IsInjective(active \o queued)

(* A task holds a raw pointer to a directory: the object must be there     *)
(* when the task runs, although orphaned directories are deleted.          *)
TasksHaveTheirDirectory ==
    alive => \A i \in DOMAIN tasks :
                tasks[i].op = "refresh" => tasks[i].of \in directories

IsDoingSync == status = "ok" /\ isUpdating

BeingDeleted == \E i \in DOMAIN stack : stack[i].op = "delete"

InStep(d) ==
    /\ \A c \in Children(d) : Current(c, disk[d]) \/ (RecheckTimeout /\ c \in recent)
    /\ Orphans(d) = {}

(* A sync that ends without a failure has made the tree what the indices   *)
(* say: every file and directory of an index is of its version (or the     *)
(* directory was skipped as recently checked), and nothing else is there.  *)
(* (The destructor ends a sync too, but tells nobody.)                     *)
CleanEndMeansInStep ==
    [][ IsDoingSync /\ ~isUpdating' /\ status' = "ok" /\ failures' = EmptyBag
         /\ ~BeingDeleted =>
          \A d \in Dirs : (disk[d] # "none" => InStep(d))' ]_vars

(* A sync does not go on for ever, unless an exception in onDone has kept  *)
(* its request from being finished or its owner deletes the repository.    *)
SyncEnds == IsDoingSync ~> (~IsDoingSync \/ threw \/ ~alive)

Promise == INSTANCE RepositorySync WITH
    verdict <- IF IsDoingSync THEN "syncing"
               ELSE IF status = "ok" /\ failures = EmptyBag THEN "clean" ELSE "failed"

(* What TerraSync relies on: a verdict stands until the next update().     *)
KeepsPromise == Promise!Spec

(* The destructor leaves no request behind: the client would call back     *)
(* into directories that are gone.                                         *)
DestroyCleansUpRequests == ~alive => requests = {}
=============================================================================
