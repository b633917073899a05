------------------------------ MODULE BVHPager ------------------------------
(***************************************************************************)
(* The pager of the bounding volume tree (simgear/bvh/BVHPager.cxx).  The  *)
(* main thread uses nodes; one that is not in its list is requested, a     *)
(* thread of the pager's own loads what is requested, and update()         *)
(* inserts what has been loaded and clears the nodes that have not been    *)
(* used for longer than `expiry', by use stamps that wrap around.          *)
(*                                                                         *)
(* A node is in the list exactly while its _requested is set.  The two     *)
(* queues have a mutex each, so that a push or a pop is one step; the wait *)
(* of an empty work queue is that of SGWaitCondition.                      *)
(***************************************************************************)
EXTENDS Integers, Sequences, Functions

CONSTANTS Nodes,
          NoNode,       \* the null request, and "nothing is being loaded"
          Half,         \* half the range of unsigned: the value of its sign bit
          Expiry,       \* what update() is called with
          MaxLag,       \* bound: how far the stamp advances between updates
          MaxPending    \* bound: requests waiting

ASSUME PagerAssumption ==
    /\ NoNode \notin Nodes
    /\ Half \in Nat /\ Expiry \in 0 .. Half - 1 /\ MaxLag \in 1 .. Half
    /\ MaxPending \in Nat

VARIABLES pageNodeList,  \* _pageNodeList, the least recently used first
          stamp,         \* _useStamp of each node
          useStamp,      \* _useStamp of the pager
          content,       \* whether a node has children
          pending,       \* _pendingRequests, NoNode for "stop"
          ready,         \* the flag of its wait condition
          processed,     \* _processedRequests
          loader,        \* the thread: where it is and what it loads
          started,       \* _started
          main,          \* which call the main thread is in
          age,           \* history: how long a node of the list has not been used
          lag            \* history: how far the stamp has come since an update

vars == <<pageNodeList, stamp, useStamp, content, pending, ready, processed,
          loader, started, main, age, lag>>

Modulus == 2 * Half
Listed == Range(pageNodeList)

Init ==
    /\ pageNodeList = <<>> /\ pending = <<>> /\ processed = <<>>
    /\ stamp = [n \in Nodes |-> 0] /\ useStamp = 0
    /\ content = [n \in Nodes |-> FALSE]
    /\ ready = FALSE /\ started = FALSE
    /\ loader = [pc |-> "none", node |-> NoNode]
    /\ main = "free"
    /\ age = [n \in Nodes |-> 0] /\ lag = 0

-----------------------------------------------------------------------------
(* The work queue.                                                         *)

(* Mutant: the queue is looked at after the request is in it.              *)
PushSilently(request) ==
    /\ pending' = Append(pending, request)
    /\ UNCHANGED <<ready, loader>>

(* _push: only a queue that was empty signals, and a signal that is        *)
(* remembered already wakes nobody.                                        *)
Push(request) ==
    /\ pending' = Append(pending, request)
    /\ ready' = (ready \/ pending = <<>>)
    /\ loader' = IF pending = <<>> /\ ~ready /\ loader.pc = "asleep"
                 THEN [loader EXCEPT !.pc = "check"] ELSE loader

(* The loader thread, run().                                               *)
LoaderGoes(pc) == loader' = [loader EXCEPT !.pc = pc]

Pop ==
    /\ loader.pc = "pop" /\ pending # <<>>
    /\ pending' = Tail(pending)
    /\ loader' = IF Head(pending) = NoNode THEN [loader EXCEPT !.pc = "ended"]
                 ELSE [pc |-> "load", node |-> Head(pending)]
    /\ UNCHANGED ready

PopWaits ==
    /\ loader.pc = "pop" /\ pending = <<>>
    /\ LoaderGoes("check")
    /\ UNCHANGED <<pending, ready>>

Check ==
    /\ loader.pc = "check"
    /\ LoaderGoes(IF ready THEN "pop" ELSE "asleep")
    /\ ready' = FALSE
    /\ UNCHANGED pending

SpuriousWakeup ==
    /\ loader.pc = "asleep"
    /\ LoaderGoes("check")
    /\ UNCHANGED <<pending, ready>>

Load ==
    /\ loader.pc = "load"
    /\ processed' = Append(processed, loader.node)
    /\ loader' = [pc |-> "pop", node |-> NoNode]

Loader ==
    /\ \/ (Pop \/ PopWaits \/ Check) /\ UNCHANGED processed
       \/ Load /\ UNCHANGED <<pending, ready>>
    /\ UNCHANGED <<pageNodeList, stamp, useStamp, content, started, main, age, lag>>

Disturbance ==
    /\ SpuriousWakeup
    /\ UNCHANGED <<pageNodeList, stamp, useStamp, content, processed, started, main,
                   age, lag>>

-----------------------------------------------------------------------------
(* The main thread.  A thread that start() cannot create changes nothing.  *)

Start ==
    /\ main = "free" /\ ~started
    /\ started' = TRUE
    /\ loader' = [pc |-> "pop", node |-> NoNode]
    /\ UNCHANGED <<pageNodeList, stamp, useStamp, content, pending, ready, processed,
                   main, age, lag>>

(* Mutant: "stop" overtakes the requests.                                  *)
StopAtOnce ==
    /\ main = "free" /\ started
    /\ pending' = <<NoNode>> \o pending
    /\ ready' = TRUE
    /\ loader' = IF ~ready /\ loader.pc = "asleep" THEN [loader EXCEPT !.pc = "check"]
                 ELSE loader
    /\ main' = "stop"
    /\ UNCHANGED <<pageNodeList, stamp, useStamp, content, processed, started, age, lag>>

Stop ==
    /\ main = "free" /\ started
    /\ Push(NoNode)
    /\ main' = "stop"
    /\ UNCHANGED <<pageNodeList, stamp, useStamp, content, processed, started, age, lag>>

Joined ==
    /\ main = "stop" /\ loader.pc = "ended"
    /\ LoaderGoes("none")
    /\ started' = FALSE
    /\ main' = "free"
    /\ UNCHANGED <<pageNodeList, stamp, useStamp, content, pending, ready, processed,
                   age, lag>>

SetUseStamp(step) ==
    /\ main = "free" /\ lag + step <= MaxLag
    /\ useStamp' = (useStamp + step) % Modulus
    /\ age' = [n \in Nodes |-> IF n \in Listed THEN age[n] + step ELSE 0]
    /\ lag' = lag + step
    /\ UNCHANGED <<pageNodeList, stamp, content, pending, ready, processed, loader,
                   started, main>>

Used(n) ==
    /\ main = "free"
    /\ stamp' = [stamp EXCEPT ![n] = useStamp]
    /\ age' = [age EXCEPT ![n] = 0]
    /\ UNCHANGED <<useStamp, processed, started, main, lag>>

(* Mutant: the node keeps its place in the list.                           *)
UseInPlace(n) ==
    /\ n \in Listed
    /\ UNCHANGED <<pageNodeList, content, pending, ready, loader>>
    /\ Used(n)

(* splice() of the entry at place k.                                       *)
MovedToEnd(k) ==
    [i \in DOMAIN pageNodeList |->
        pageNodeList[IF i < k THEN i ELSE IF i < Len(pageNodeList) THEN i + 1 ELSE k]]

UseListed(n) ==
    /\ \E k \in DOMAIN pageNodeList :
          /\ pageNodeList[k] = n
          /\ pageNodeList' = MovedToEnd(k)
    /\ UNCHANGED <<content, pending, ready, loader>>
    /\ Used(n)

(* use() of a node that has no request to offer changes nothing.           *)
UseRequested(n) ==
    /\ n \notin Listed
    /\ pageNodeList' = Append(pageNodeList, n)
    /\ \/ /\ started /\ Len(pending) < MaxPending
          /\ Push(n)
          /\ UNCHANGED content
       \/ /\ ~started
          /\ content' = [content EXCEPT ![n] = TRUE]
          /\ UNCHANGED <<pending, ready, loader>>
    /\ Used(n)

(* update(): all that has been loaded by the time the queue is found empty *)
(* is inserted, then what has not been used is cleared.                    *)
Update ==
    /\ main = "free"
    /\ main' = "insert"
    /\ UNCHANGED <<pageNodeList, stamp, useStamp, content, pending, ready, processed,
                   loader, started, age, lag>>

Insert ==
    /\ main = "insert" /\ processed # <<>>
    /\ content' = [content EXCEPT ![Head(processed)] = TRUE]
    /\ processed' = Tail(processed)
    /\ UNCHANGED <<pageNodeList, stamp, useStamp, pending, ready, loader, started,
                   main, age, lag>>

Inserted ==
    /\ main = "insert" /\ processed = <<>>
    /\ main' = "expire"
    /\ UNCHANGED <<pageNodeList, stamp, useStamp, content, pending, ready, processed,
                   loader, started, age, lag>>

(* The sign bit of the difference of the stamps is not set.                *)
InUse(n) == (stamp[n] - (useStamp - Expiry)) % Modulus < Half

Expire ==
    /\ main = "expire"
    /\ \E k \in 0 .. Len(pageNodeList) :
          /\ \A i \in 1 .. k : ~InUse(pageNodeList[i])
          /\ k < Len(pageNodeList) => InUse(pageNodeList[k + 1])
          /\ pageNodeList' = SubSeq(pageNodeList, k + 1, Len(pageNodeList))
          /\ content' = [n \in Nodes |->
                           /\ content[n]
                           /\ \A i \in 1 .. k : n # pageNodeList[i]]
    /\ main' = "free" /\ lag' = 0
    /\ UNCHANGED <<stamp, useStamp, pending, ready, processed, loader, started, age>>

Program ==
    \/ Start \/ Stop
    \/ \E step \in 1 .. MaxLag : SetUseStamp(step)
    \/ \E n \in Nodes : UseListed(n) \/ UseRequested(n)

Next == Loader \/ Disturbance \/ Program \/ Update \/ Insert \/ Inserted \/ Expire \/ Joined

(* The loader thread is scheduled, calls return, and the program calls     *)
(* update() again and again, as BVHPager.hxx asks for.                     *)
Fairness ==
    /\ WF_vars(Loader)
    /\ WF_vars(Insert \/ Inserted \/ Expire \/ Joined)
    /\ SF_vars(Update)

Spec == Init /\ [][Next]_vars /\ Fairness

-----------------------------------------------------------------------------
TypeOK ==
    /\ pageNodeList \in Seq(Nodes)
    /\ stamp \in [Nodes -> 0 .. Modulus - 1] /\ useStamp \in 0 .. Modulus - 1
    /\ content \in [Nodes -> BOOLEAN]
    /\ pending \in Seq(Nodes \cup {NoNode})
    /\ processed \in Seq(Nodes)
    /\ ready \in BOOLEAN /\ started \in BOOLEAN
    /\ loader \in [pc : {"none", "pop", "check", "asleep", "load", "ended"},
                   node : Nodes \cup {NoNode}]
    /\ main \in {"free", "stop", "insert", "expire"}
    /\ age \in [Nodes -> Nat] /\ lag \in 0 .. MaxLag

(* update() throws away the nodes that have not been used for longer than  *)
(* `expiry' and no others, although it stops at the first one in use and   *)
(* the stamps wrap around: provided it is called before the stamp has come *)
(* half its range further.                                                 *)
ExpiresExactlyTheUnused ==
    [][main = "expire" /\ main' # main => Listed' = {n \in Listed : age[n] <= Expiry}]_vars

(* What the loader thread will come to, or has done, but for the insertion.*)
UnderWay(n) ==
    \/ n \in Range(processed)
    \/ loader.node = n
    \/ /\ loader.pc \notin {"none", "ended"}
       /\ \E i \in DOMAIN pending :
             pending[i] = n /\ \A j \in 1 .. i : pending[j] # NoNode

(* A node that is marked as requested has been loaded or will be, however  *)
(* often the thread is stopped and started, so that it is right not to     *)
(* request it again when it is used.                                       *)
RequestedIsLoadedOrUnderWay ==
    \A n \in Listed : content[n] \/ UnderWay(n)

(* A node that is used is there in the end, unless it expires before, and  *)
(* stop() returns: the thread comes to every request and to the null one,  *)
(* also from a sleep on an empty queue.                                    *)
RequestsAndStopAreAnswered ==
    /\ \A n \in Nodes : n \in Listed ~> content[n] \/ n \notin Listed
    /\ main = "stop" ~> main = "free"

(* What has been loaded is in the list, so that it can expire: what the    *)
(* comment on _pageNodeList says.  It does not hold: a node that expires   *)
(* while it is being loaded is filled when it is in the list no more.      *)
LoadedNodesCanExpire == \A n \in Nodes : content[n] => n \in Listed
=============================================================================
