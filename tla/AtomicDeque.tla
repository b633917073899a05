----------------------------- MODULE AtomicDeque -----------------------------
(***************************************************************************)
(* What SGBlockingQueue and SGBlockingDeque promise (the comments of       *)
(* simgear/threads/SGQueue.hxx): every call takes effect at one instant    *)
(* between its beginning and its return, and a retrieving call takes       *)
(* effect only when there is an item.                                      *)
(***************************************************************************)
EXTENDS Integers, Sequences, FiniteSets

CONSTANTS Threads, Items, NoItem

VARIABLES queue,     \* the items, front first
          call,      \* the call each thread is in, or "none"
          done,      \* whether that call has taken effect
          item       \* the item a thread pushes, or has retrieved

vars == <<queue, call, done, item>>

Pushing == {"push_front", "push_back"}
Popping == {"pop_front", "pop_back"}
Retrieving == Popping \cup {"waitOnNotEmpty"}     \* the calls that block
Calls == Pushing \cup Retrieving \cup {"clear", "read"}

Init ==
    /\ queue = <<>>
    /\ call = [t \in Threads |-> "none"]
    /\ done = [t \in Threads |-> FALSE]
    /\ item = [t \in Threads |-> NoItem]

Begin(t) ==
    /\ call[t] = "none"
    /\ \E c \in Calls, i \in Items \cup {NoItem} :
          /\ c \in Pushing <=> i # NoItem
          /\ call' = [call EXCEPT ![t] = c]
          /\ item' = [item EXCEPT ![t] = i]
    /\ UNCHANGED <<queue, done>>

Effect(t) ==
    /\ call[t] # "none" /\ ~done[t]
    /\ call[t] \in Retrieving => queue # <<>>
    /\ done' = [done EXCEPT ![t] = TRUE]
    /\ queue' = CASE call[t] = "push_front" -> <<item[t]>> \o queue
                  [] call[t] = "push_back"  -> Append(queue, item[t])
                  [] call[t] = "pop_front"  -> Tail(queue)
                  [] call[t] = "pop_back"   -> SubSeq(queue, 1, Len(queue) - 1)
                  [] call[t] = "clear"      -> <<>>
                  [] OTHER                  -> queue
    /\ item' = CASE call[t] = "pop_front" -> [item EXCEPT ![t] = Head(queue)]
                 [] call[t] = "pop_back"  -> [item EXCEPT ![t] = queue[Len(queue)]]
                 [] OTHER                 -> item
    /\ UNCHANGED call

Return(t) ==
    /\ done[t]
    /\ call' = [call EXCEPT ![t] = "none"]
    /\ done' = [done EXCEPT ![t] = FALSE]
    /\ UNCHANGED <<queue, item>>

Next == \E t \in Threads : Begin(t) \/ Effect(t) \/ Return(t)

(* A call returns once it can: at once, or when there is an item.          *)
Spec ==
    /\ Init
    /\ [][Next]_vars
    /\ \A t \in Threads : WF_vars(Effect(t)) /\ WF_vars(Return(t))
=============================================================================
