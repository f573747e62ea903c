-------------------------- MODULE ProducerConsumer --------------------------
(***************************************************************************)
(* The queue of pending requests (producer-consumer/producer-consumer.c),  *)
(* called by any number of threads.  One step per operation on a mutex or  *)
(* a condition variable; what a thread does between two of them is one     *)
(* step with the first, for the fields are only accessed under             *)
(* pcq_current_size_lock.  In the initial state pcq_create has returned;    *)
(* the queue may be destroyed and created again while no call is running.  *)
(*                                                                         *)
(* No thread ever signals a condition variable: a thread only leaves       *)
(* pthread_cond_wait by a spurious wakeup, which POSIX allows.             *)
(*                                                                         *)
(* pcq_create allocates Capacity bytes, not pointers (sizeof(void) is 1).  *)
(* What malloc returns is not modelled: a slot is memory that keeps what   *)
(* is stored in it, whether or not it lies in the allocated block.         *)
(***************************************************************************)
EXTENDS Naturals, Sequences

CONSTANTS
  Producer, Consumer,   \* threads that enqueue, threads that dequeue
  NoThread,             \* the owner of an unlocked mutex
  Item,                 \* what is enqueued
  Capacity,             \* pcq_capacity
  SIZE_MOD              \* 2^64, the modulus of size_t

ASSUME ThreadsAssumption ==
  Producer \cap Consumer = {} /\ NoThread \notin Producer \cup Consumer

ASSUME CapacityAssumption ==
  Capacity \in Nat \ {0} /\ SIZE_MOD \in Nat /\ SIZE_MOD > Capacity + 2

Thread == Producer \cup Consumer

VARIABLES
  pcq_buffer,
  pcq_head, pcq_tail, pcq_current_size,
  pcq_current_size_lock, pcq_head_lock, pcq_tail_lock,   \* the owners
  pcq_pusher_condvar_lock, pcq_popper_condvar_lock,
  pc,                   \* the statement each thread is at
  elem                  \* the parameter of pcq_enqueue, the variable of pcq_dequeue

fields   == <<pcq_buffer, pcq_head, pcq_tail, pcq_current_size>>
condvars == <<pcq_pusher_condvar_lock, pcq_popper_condvar_lock>>
locks    == <<pcq_current_size_lock, pcq_head_lock, pcq_tail_lock, condvars>>
vars     == <<fields, locks, pc, elem>>

At(t, label)   == pc[t] = label
Goto(t, label) == pc' = [pc EXCEPT ![t] = label]
Free(lock)     == lock = NoThread

-----------------------------------------------------------------------------
(* pcq_create and pcq_destroy *)

\* What pcq_create leaves in the queue, given what malloc returned.
Init ==
  /\ pcq_buffer \in [0 .. Capacity -> Item]
  /\ pcq_head = 0
  /\ pcq_tail = SIZE_MOD - 1                   \* (size_t)-1
  /\ pcq_current_size = 0
  /\ pcq_current_size_lock = NoThread
  /\ pcq_head_lock = NoThread /\ pcq_tail_lock = NoThread
  /\ pcq_pusher_condvar_lock = NoThread /\ pcq_popper_condvar_lock = NoThread
  /\ pc = [t \in Thread |-> "idle"]
  /\ elem \in [Thread -> Item]

All(label) == \A t \in Thread : At(t, label)

\* The caller has joined the other threads, or knows that none is in a call.
pcq_destroy ==
  /\ All("idle")
  /\ pc' = [t \in Thread |-> "gone"]
  /\ UNCHANGED <<fields, locks, elem>>

\* malloc returns a buffer, and the mutexes are initialized.
Allocated ==
  /\ pcq_buffer' \in [0 .. Capacity -> Item]
  /\ pcq_current_size_lock' = NoThread
  /\ pcq_head_lock' = NoThread /\ pcq_tail_lock' = NoThread
  /\ pcq_pusher_condvar_lock' = NoThread /\ pcq_popper_condvar_lock' = NoThread
  /\ pc' = [t \in Thread |-> "idle"]

\* malloc returns NULL, and pcq_create -1: the queue may not be used, but
\* pcq_create may be called again.
NotAllocated == UNCHANGED <<pcq_buffer, locks, pc>>

KeepsTail == UNCHANGED pcq_tail                 \* mutant: pcq_tail is not reset
ResetTail == pcq_tail' = SIZE_MOD - 1
pcq_create ==
  /\ All("gone")
  /\ pcq_head' = 0 /\ ResetTail /\ pcq_current_size' = 0
  /\ Allocated \/ NotAllocated
  /\ UNCHANGED elem

-----------------------------------------------------------------------------
(* Both operations: lock the size, sleep while there is nothing to do *)

\* A thread calls pcq_enqueue with some element, or pcq_dequeue.
Call(t) ==
  /\ At(t, "idle") /\ Goto(t, "lock_size")
  /\ \E e \in Item : elem' = [elem EXCEPT ![t] = IF t \in Producer THEN e ELSE @]
  /\ UNCHANGED <<fields, locks>>

NoLock(t) ==            \* mutant: the size is not locked
  /\ At(t, "lock_size") /\ Goto(t, "check")
  /\ UNCHANGED <<fields, locks, elem>>
LockSize(t) ==
  /\ At(t, "lock_size") /\ Free(pcq_current_size_lock)
  /\ pcq_current_size_lock' = t
  /\ Goto(t, "check")
  /\ UNCHANGED <<fields, pcq_head_lock, pcq_tail_lock, condvars, elem>>

\* The condition of each while loop.
MustSleep(t) == pcq_current_size = IF t \in Producer THEN Capacity ELSE 0

LeaveLoop(t) ==
  /\ At(t, "check") /\ ~MustSleep(t)
  /\ Goto(t, IF t \in Producer THEN "lock_tail" ELSE "lock_head")
  /\ UNCHANGED <<fields, locks, elem>>

\* pthread_cond_wait unlocks the mutex it is given, although no thread locked
\* it (the default mutex of glibc lets it), and keeps pcq_current_size_lock; it
\* locks that mutex again before it returns.
CondvarLock(t, owner) ==
  /\ IF t \in Producer
     THEN pcq_pusher_condvar_lock' = owner /\ UNCHANGED pcq_popper_condvar_lock
     ELSE pcq_popper_condvar_lock' = owner /\ UNCHANGED pcq_pusher_condvar_lock
  /\ UNCHANGED <<fields, pcq_current_size_lock, pcq_head_lock, pcq_tail_lock, elem>>

Sleep(t) ==
  /\ At(t, "check") /\ MustSleep(t)
  /\ Goto(t, "asleep")
  /\ CondvarLock(t, NoThread)

SkipsTheTest(t) ==      \* mutant: "if" in the place of "while"
  IF t \in Producer THEN "lock_tail" ELSE "lock_head"
AfterWakeup(t) == "check"
SpuriousWakeup(t) ==
  /\ At(t, "asleep")
  /\ Free(IF t \in Producer THEN pcq_pusher_condvar_lock ELSE pcq_popper_condvar_lock)
  /\ Goto(t, AfterWakeup(t))
  /\ CondvarLock(t, t)

-----------------------------------------------------------------------------
(* pcq_enqueue *)

LockTail(p) ==
  /\ At(p, "lock_tail") /\ Free(pcq_tail_lock)
  /\ pcq_tail_lock' = p
  /\ Goto(p, "store")
  /\ UNCHANGED <<fields, pcq_current_size_lock, pcq_head_lock, condvars, elem>>

\* The slot of the next element: pcq_tail goes one past the last slot before
\* it goes back to 0.
NextTail == IF pcq_tail = Capacity THEN 0 ELSE (pcq_tail + 1) % SIZE_MOD

Store(p) ==
  /\ At(p, "store") /\ Goto(p, "unlock_size")
  /\ pcq_tail' = NextTail
  /\ pcq_buffer' = [pcq_buffer EXCEPT ![NextTail] = elem[p]]
  /\ pcq_current_size' = pcq_current_size + 1
  /\ UNCHANGED <<pcq_head, locks, elem>>

UnlockSize(p) ==
  /\ At(p, "unlock_size") /\ Goto(p, "unlock_tail")
  /\ pcq_current_size_lock' = NoThread
  /\ UNCHANGED <<fields, pcq_head_lock, pcq_tail_lock, condvars, elem>>

KeepTail(p) ==          \* mutant: pcq_tail_lock is not unlocked
  /\ At(p, "unlock_tail") /\ Goto(p, "idle")
  /\ UNCHANGED <<fields, locks, elem>>
UnlockTail(p) ==
  /\ At(p, "unlock_tail") /\ Goto(p, "idle")
  /\ pcq_tail_lock' = NoThread
  /\ UNCHANGED <<fields, pcq_current_size_lock, pcq_head_lock, condvars, elem>>

-----------------------------------------------------------------------------
(* pcq_dequeue *)

LockHead(c) ==
  /\ At(c, "lock_head") /\ Free(pcq_head_lock)
  /\ pcq_head_lock' = c
  /\ Goto(c, "take")
  /\ UNCHANGED <<fields, pcq_current_size_lock, pcq_tail_lock, condvars, elem>>

Oldest == pcq_buffer[pcq_head]

\* pcq_head advances when the element is read, and again where it should go
\* round: the test is on pcq_tail, which is sent back to 0 in its place.
Take(c) ==
  /\ At(c, "take") /\ Goto(c, "unlock_popper")
  /\ elem' = [elem EXCEPT ![c] = Oldest]
  /\ IF pcq_tail = Capacity
     THEN pcq_tail' = 0 /\ pcq_head' = (pcq_head + 1) % SIZE_MOD
     ELSE pcq_head' = (pcq_head + 2) % SIZE_MOD /\ UNCHANGED pcq_tail
  /\ pcq_current_size' = (pcq_current_size + SIZE_MOD - 1) % SIZE_MOD
  /\ UNCHANGED <<pcq_buffer, locks>>

\* The mutex that is unlocked is the one of the condition variable, not
\* pcq_current_size_lock.
UnlockPopper(c) ==
  /\ At(c, "unlock_popper") /\ Goto(c, "unlock_head")
  /\ pcq_popper_condvar_lock' = NoThread
  /\ UNCHANGED <<fields, pcq_current_size_lock, pcq_head_lock, pcq_tail_lock,
                 pcq_pusher_condvar_lock, elem>>

UnlockHead(c) ==
  /\ At(c, "unlock_head") /\ Goto(c, "idle")
  /\ pcq_head_lock' = NoThread
  /\ UNCHANGED <<fields, pcq_current_size_lock, pcq_tail_lock, condvars, elem>>

-----------------------------------------------------------------------------
(* The specification *)

pcq_enqueue(p) ==
  \/ LeaveLoop(p) \/ Sleep(p) \/ LockTail(p) \/ Store(p) \/ UnlockSize(p) \/ UnlockTail(p)

pcq_dequeue(c) ==
  \/ LeaveLoop(c) \/ Sleep(c) \/ LockHead(c) \/ Take(c) \/ UnlockPopper(c) \/ UnlockHead(c)

Next ==
  \/ pcq_create \/ pcq_destroy
  \/ \E t \in Thread : Call(t) \/ LockSize(t) \/ SpuriousWakeup(t)
  \/ \E p \in Producer : pcq_enqueue(p)
  \/ \E c \in Consumer : pcq_dequeue(c)

Spec == Init /\ [][Next]_vars

\* The scheduler runs a thread that is in a call and that no mutex stops.
Runs ==
  /\ \A p \in Producer : WF_vars(pcq_enqueue(p))
  /\ \A c \in Consumer : WF_vars(pcq_dequeue(c))
RunningSpec == Spec /\ Runs

\* Beyond that, a mutex that is released again and again is in the end given to
\* each thread that waits for it, and the threads never stop calling.  No
\* wakeup is promised.
Calls == \A t \in Thread : WF_vars(Call(t)) /\ SF_vars(LockSize(t))
FairSpec == RunningSpec /\ Calls

-----------------------------------------------------------------------------
(* Properties *)

\* Mutexes are held by threads, the indices are values of size_t, and the size
\* stays between 0 and the capacity, whatever wakes a sleeping thread: the loops
\* of pcq_enqueue and pcq_dequeue test it again.
TypeOK ==
  /\ pcq_buffer \in [0 .. Capacity -> Item]
  /\ {pcq_head, pcq_tail} \subseteq 0 .. SIZE_MOD - 1
  /\ pcq_current_size \in 0 .. Capacity
  /\ {pcq_current_size_lock, pcq_head_lock, pcq_tail_lock,
      pcq_pusher_condvar_lock, pcq_popper_condvar_lock} \subseteq Thread \cup {NoThread}
  /\ pc \in [Thread -> {"gone", "idle", "lock_size", "check", "asleep",
                        "lock_tail", "store", "unlock_size", "unlock_tail",
                        "lock_head", "take", "unlock_popper", "unlock_head"}]
  /\ elem \in [Thread -> Item]

\* The slot that pcq_enqueue is about to write and the one that pcq_dequeue is
\* about to read are two of the Capacity slots, although pcq_tail goes round one
\* slot late and pcq_head never does, in every life of the queue: an index that
\* pcq_create does not reset leaves them.
SlotsInRange ==
  /\ (\E p \in Producer : At(p, "store")) => NextTail < Capacity
  /\ (\E c \in Consumer : At(c, "take")) => pcq_head < Capacity

\* The fields change only in the thread that holds pcq_current_size_lock, which
\* is why the code between two lock operations can be one step, and when the
\* queue is created.
FieldsProtected ==
  [][\/ UNCHANGED fields
     \/ pcq_create
     \/ \E t \in Thread : pcq_current_size_lock = t /\ pc'[t] # pc[t]]_vars

\* The elements in the queue are the last pcq_current_size that were stored.
Stored ==
  [k \in 1 .. pcq_current_size |-> pcq_buffer[pcq_tail - pcq_current_size + k]]

Progress(t) ==
  CASE pc[t] \in {"gone", "idle"} -> "none"
    [] pc[t] \in {"unlock_size", "unlock_tail", "unlock_popper", "unlock_head"} -> "done"
    [] OTHER -> "started"

Queue == INSTANCE BoundedQueue WITH
           queue <- Stored, call <- [t \in Thread |-> Progress(t)]

\* Every call that returns took effect in one step, as on the queue that
\* producer-consumer.h describes.
ImplementsQueue == Queue!Spec

\* A call that found space, or an element, returns: what it still locks is only
\* held by calls that are on their way out.
OnTheWayOut(t) ==
  pc[t] \in {"lock_tail", "store", "unlock_size", "unlock_tail",
             "lock_head", "take", "unlock_popper", "unlock_head"}
CallsReturn == \A t \in Thread : OnTheWayOut(t) ~> ~OnTheWayOut(t)

\* No call on its way out waits for a call that waits, or for one that ended:
\* whoever has the tail lock while a producer wants it is about to give it back, and
\* the head lock is free whenever a consumer wants it, however the two operations
\* overlap and although they give their locks back in different orders.
WayOutClear ==
  /\ \A p \in Producer :
       At(p, "lock_tail") /\ ~Free(pcq_tail_lock) =>
         pcq_tail_lock \in Producer /\ At(pcq_tail_lock, "unlock_tail")
  /\ \A c \in Consumer : At(c, "lock_head") => Free(pcq_head_lock)

\* "If the queue is full, sleep until the queue has space": a producer asleep
\* in a full queue returns, for there are consumers that call pcq_dequeue.
SleepsUntilSpace == \A p \in Producer : At(p, "asleep") ~> At(p, "idle")

\* "insert a new element at the front of the queue", "remove an element from the
\* back of the queue": a call that is made after an element was taken gets to
\* look at the size.  pcq_dequeue returns without having unlocked it.
LaterCallsGoOn ==
  \A t \in Thread : At(t, "lock_size") /\ pcq_head # 0 ~> ~At(t, "lock_size")
=============================================================================
