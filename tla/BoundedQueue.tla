---------------------------- MODULE BoundedQueue ----------------------------
(***************************************************************************)
(* What producer-consumer.h promises: a queue of fixed capacity.  A call   *)
(* takes effect in one step between its start and its return, in the order *)
(* of a queue, and sleeps while the queue is full or empty.                *)
(***************************************************************************)
EXTENDS Naturals, Sequences

CONSTANTS Producer, Consumer, Item, Capacity

VARIABLES queue,
          call,       \* how far the call of each thread is
          elem        \* the element each thread carries

queueVars == <<queue, call, elem>>

Thread == Producer \cup Consumer

Init ==
  /\ queue = <<>>
  /\ call = [t \in Thread |-> "none"]
  /\ elem \in [Thread -> Item]

Start(t) ==
  /\ call[t] = "none"
  /\ call' = [call EXCEPT ![t] = "started"]
  /\ \E e \in Item : elem' = [elem EXCEPT ![t] = IF t \in Producer THEN e ELSE @]
  /\ UNCHANGED queue

Enqueue(p) ==
  /\ call[p] = "started" /\ Len(queue) < Capacity
  /\ queue' = Append(queue, elem[p])
  /\ call' = [call EXCEPT ![p] = "done"]
  /\ UNCHANGED elem

Dequeue(c) ==
  /\ call[c] = "started" /\ queue # <<>>
  /\ elem' = [elem EXCEPT ![c] = Head(queue)]
  /\ queue' = Tail(queue)
  /\ call' = [call EXCEPT ![c] = "done"]

Return(t) ==
  /\ call[t] = "done"
  /\ call' = [call EXCEPT ![t] = "none"]
  /\ UNCHANGED <<queue, elem>>

\* The queue is destroyed, and created again empty, between calls.
Renew ==
  /\ \A t \in Thread : call[t] = "none"
  /\ queue' = <<>>
  /\ UNCHANGED <<call, elem>>

Next ==
  \/ Renew
  \/ \E t \in Thread : Start(t) \/ Return(t)
  \/ \E p \in Producer : Enqueue(p)
  \/ \E c \in Consumer : Dequeue(c)

Spec == Init /\ [][Next]_queueVars
=============================================================================
