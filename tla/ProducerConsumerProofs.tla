----------------------- MODULE ProducerConsumerProofs -----------------------
(***************************************************************************)
(* Theorems about ProducerConsumer, for any number of threads and any      *)
(* capacity.                                                               *)
(***************************************************************************)
EXTENDS ProducerConsumer, SequenceTheorems, TLAPS

\* The statements at which a thread has locked the size.
Inside == {"check", "asleep", "lock_tail", "store", "unlock_size",
           "lock_head", "take", "unlock_popper", "unlock_head"}

HolderInside == \A t \in Thread : pc[t] \in Inside => pcq_current_size_lock = t

\* A thread is in its own operation, and past the test of its loop the size
\* has not changed.
TestHolds ==
  /\ \A p \in Producer :
       /\ pc[p] \notin {"lock_head", "take", "unlock_popper", "unlock_head"}
       /\ pc[p] \in {"lock_tail", "store"} => pcq_current_size # Capacity
  /\ \A c \in Consumer :
       /\ pc[c] \notin {"lock_tail", "store", "unlock_size", "unlock_tail"}
       /\ pc[c] \in {"lock_head", "take"} => pcq_current_size # 0

\* Once an element was taken the size stays locked, by the consumer that took
\* it; until then the elements are in the first slots.
LockedOnceTaken ==
  \/ \E c \in Consumer :
       /\ pcq_current_size_lock = c
       /\ pc[c] \in {"unlock_popper", "unlock_head", "idle", "lock_size", "gone"}
  \/ /\ pcq_head = 0
     /\ \/ pcq_current_size = 0 /\ pcq_tail = SIZE_MOD - 1
        \/ pcq_current_size > 0 /\ pcq_tail = pcq_current_size - 1

\* The elements of the queue are in the buffer.
StoredInBuffer ==
  pcq_current_size > 0 => /\ pcq_tail \in 0 .. Capacity
                          /\ pcq_current_size <= pcq_tail + 1

QueueInv ==
  /\ TypeOK
  /\ HolderInside /\ TestHolds /\ LockedOnceTaken /\ StoredInBuffer

-----------------------------------------------------------------------------
USE DEF Thread, At, Goto, Free, All

\* A thread that moves without touching the fields or the size lock.
LEMMA MoveKeeps ==
  ASSUME QueueInv, NEW t \in Thread, NEW label,
         Goto(t, label), UNCHANGED <<fields, pcq_current_size_lock, elem>>,
         {pcq_head_lock', pcq_tail_lock', pcq_pusher_condvar_lock', pcq_popper_condvar_lock'}
           \subseteq Thread \cup {NoThread},
         label \in {"gone", "idle", "lock_size", "check", "asleep",
                    "lock_tail", "store", "unlock_size", "unlock_tail",
                    "lock_head", "take", "unlock_popper", "unlock_head"},
         label \in Inside => pcq_current_size_lock = t,
         t \in Producer =>
           /\ label \notin {"lock_head", "take", "unlock_popper", "unlock_head"}
           /\ label \in {"lock_tail", "store"} => pcq_current_size # Capacity,
         t \in Consumer =>
           /\ label \notin {"lock_tail", "store", "unlock_size", "unlock_tail"}
           /\ label \in {"lock_head", "take"} => pcq_current_size # 0,
         pcq_current_size_lock = t /\ pc[t] \in {"unlock_popper", "unlock_head", "idle", "lock_size", "gone"} =>
           label \in {"unlock_popper", "unlock_head", "idle", "lock_size", "gone"}
  PROVE  QueueInv'
<1>1. TypeOK'
  BY DEF QueueInv, TypeOK, fields
<1>2. \A u \in Thread : pc'[u] = IF u = t THEN label ELSE pc[u]
  BY DEF QueueInv, TypeOK
<1>3. HolderInside'
  BY <1>2 DEF QueueInv, HolderInside
<1>4. TestHolds'
  BY <1>2 DEF QueueInv, TestHolds, fields
<1>5. LockedOnceTaken'
  BY <1>2 DEF QueueInv, LockedOnceTaken, fields
<1>6. StoredInBuffer'
  BY DEF QueueInv, StoredInBuffer, fields
<1> QED
  BY <1>1, <1>3, <1>4, <1>5, <1>6 DEF QueueInv

\* The queue that pcq_create leaves.
LEMMA CreatedInv ==
  ASSUME pcq_buffer \in [0 .. Capacity -> Item], elem \in [Thread -> Item],
         pcq_head = 0, pcq_tail = SIZE_MOD - 1, pcq_current_size = 0,
         pcq_current_size_lock = NoThread,
         pcq_head_lock = NoThread, pcq_tail_lock = NoThread,
         pcq_pusher_condvar_lock = NoThread, pcq_popper_condvar_lock = NoThread,
         pc = [t \in Thread |-> "idle"]
  PROVE  QueueInv
<1>1. TypeOK
  BY CapacityAssumption DEF TypeOK
<1> QED
  BY <1>1 DEF QueueInv, HolderInside, TestHolds, LockedOnceTaken, StoredInBuffer, Inside

LEMMA InitInv == Init => QueueInv
BY CreatedInv DEF Init

\* What a producer that is about to store finds: the elements are in the first
\* slots, and the next slot is the first free one.
LEMMA BeforeStore ==
  ASSUME QueueInv, NEW p \in Producer, pc[p] = "store"
  PROVE  /\ pcq_current_size_lock = p /\ pcq_head = 0 /\ pcq_current_size < Capacity
         /\ \/ pcq_current_size = 0 /\ pcq_tail = SIZE_MOD - 1
            \/ pcq_current_size > 0 /\ pcq_tail = pcq_current_size - 1
         /\ NextTail = pcq_current_size
<1>1. /\ pcq_current_size_lock = p /\ pcq_head = 0 /\ pcq_current_size < Capacity
      /\ \/ pcq_current_size = 0 /\ pcq_tail = SIZE_MOD - 1
         \/ pcq_current_size > 0 /\ pcq_tail = pcq_current_size - 1
  BY ThreadsAssumption, CapacityAssumption
  DEF QueueInv, HolderInside, Inside, TestHolds, LockedOnceTaken, TypeOK
<1>2. pcq_current_size \in Nat /\ Capacity \in Nat /\ SIZE_MOD \in Nat /\ SIZE_MOD > Capacity + 2
  BY CapacityAssumption DEF QueueInv, TypeOK
<1>3. NextTail = pcq_current_size
  <2>1. CASE pcq_current_size = 0 /\ pcq_tail = SIZE_MOD - 1
    <3>1. pcq_tail # Capacity /\ pcq_tail + 1 = SIZE_MOD
      BY <2>1, <1>2
    <3>2. SIZE_MOD % SIZE_MOD = 0
      BY <1>2
    <3> QED
      BY <3>1, <3>2, <2>1 DEF NextTail
  <2>2. CASE pcq_current_size > 0 /\ pcq_tail = pcq_current_size - 1
    <3>1. pcq_tail # Capacity /\ pcq_tail + 1 = pcq_current_size
      BY <2>2, <1>1, <1>2
    <3>2. pcq_current_size % SIZE_MOD = pcq_current_size
      BY <1>1, <1>2
    <3> QED
      BY <3>1, <3>2 DEF NextTail
  <2> QED
    BY <1>1, <2>1, <2>2
<1> QED
  BY <1>1, <1>3

\* What Store does to the fields.
LEMMA StoreFields ==
  ASSUME QueueInv, NEW p \in Producer, Store(p)
  PROVE  /\ pcq_current_size_lock = p /\ pcq_head = 0 /\ pcq_current_size < Capacity
         /\ \/ pcq_current_size = 0 /\ pcq_tail = SIZE_MOD - 1
            \/ pcq_current_size > 0 /\ pcq_tail = pcq_current_size - 1
         /\ pcq_tail' = pcq_current_size /\ pcq_current_size' = pcq_current_size + 1
         /\ pcq_head' = 0
         /\ pcq_buffer' = [pcq_buffer EXCEPT ![pcq_current_size] = elem[p]]
BY BeforeStore DEF Store

LEMMA StoreInv ==
  ASSUME QueueInv, NEW p \in Producer, Store(p)
  PROVE  QueueInv'
<1>1. /\ pcq_current_size_lock = p /\ pcq_current_size < Capacity
      /\ pcq_tail' = pcq_current_size /\ pcq_current_size' = pcq_current_size + 1 /\ pcq_head' = 0
      /\ pcq_buffer' = [pcq_buffer EXCEPT ![pcq_current_size] = elem[p]]
  BY StoreFields
<1>2. pcq_current_size \in Nat /\ Capacity \in Nat
  BY CapacityAssumption DEF QueueInv, TypeOK
<1>4. UNCHANGED <<pcq_current_size_lock, pcq_head_lock, pcq_tail_lock,
                  pcq_pusher_condvar_lock, pcq_popper_condvar_lock, elem>>
  BY DEF Store, locks, condvars
<1>5. \A u \in Thread : pc'[u] = IF u = p THEN "unlock_size" ELSE pc[u]
  BY DEF Store, QueueInv, TypeOK
<1>6. TypeOK'
  <2>1. /\ pcq_current_size' \in 0 .. Capacity
        /\ {pcq_head', pcq_tail'} \subseteq 0 .. SIZE_MOD - 1
    BY <1>1, <1>2, <1>4, CapacityAssumption
  <2>2. pcq_buffer' \in [0 .. Capacity -> Item]
    BY <1>1, <1>2, <1>4 DEF QueueInv, TypeOK
  <2>3. pc' \in [Thread -> {"gone", "idle", "lock_size", "check", "asleep",
                            "lock_tail", "store", "unlock_size", "unlock_tail",
                            "lock_head", "take", "unlock_popper", "unlock_head"}]
    BY DEF Store, QueueInv, TypeOK
  <2> QED
    BY <1>1, <1>2, <1>4, <2>1, <2>2, <2>3 DEF QueueInv, TypeOK
<1>7. HolderInside'
  BY <1>1, <1>4, <1>5 DEF QueueInv, HolderInside
<1>8. TestHolds'
  <2>1. \A u \in Thread : u # p => pc[u] \notin {"lock_tail", "store", "lock_head", "take"}
    BY <1>1 DEF QueueInv, HolderInside, Inside
  <2> QED
    BY <1>5, <2>1, ThreadsAssumption DEF QueueInv, TestHolds
<1>9. LockedOnceTaken' /\ StoredInBuffer'
  BY <1>1, <1>2 DEF LockedOnceTaken, StoredInBuffer
<1> QED
  BY <1>6, <1>7, <1>8, <1>9 DEF QueueInv

\* What a consumer that is about to take finds: nothing was taken before.
LEMMA BeforeTake ==
  ASSUME QueueInv, NEW c \in Consumer, pc[c] = "take"
  PROVE  /\ pcq_current_size_lock = c /\ pcq_head = 0 /\ pcq_current_size \in 1 .. Capacity
         /\ pcq_tail = pcq_current_size - 1
BY ThreadsAssumption, CapacityAssumption
DEF QueueInv, HolderInside, Inside, TestHolds, LockedOnceTaken, TypeOK

\* What Take does to the fields.
LEMMA TakeFirst ==
  ASSUME QueueInv, NEW c \in Consumer, Take(c)
  PROVE  /\ pcq_current_size_lock = c /\ pcq_head = 0
         /\ pcq_current_size \in 1 .. Capacity /\ pcq_tail = pcq_current_size - 1
         /\ pcq_tail' = pcq_tail /\ pcq_head' = 2
         /\ pcq_current_size' = pcq_current_size - 1
<1>1. /\ pcq_current_size_lock = c /\ pcq_head = 0 /\ pcq_current_size \in 1 .. Capacity
      /\ pcq_tail = pcq_current_size - 1
  BY BeforeTake DEF Take
<1>2. Capacity \in Nat \ {0} /\ SIZE_MOD \in Nat /\ SIZE_MOD > Capacity + 2
  BY CapacityAssumption
<1>3. pcq_tail # Capacity /\ 2 % SIZE_MOD = 2
  BY <1>1, <1>2
<1>4. (pcq_current_size + SIZE_MOD - 1) % SIZE_MOD = pcq_current_size - 1
  <2> DEFINE k == pcq_current_size - 1
  <2>1. k \in Nat /\ k < SIZE_MOD /\ pcq_current_size + SIZE_MOD - 1 = k + SIZE_MOD
    BY <1>1, <1>2
  <2> HIDE DEF k
  <2>2. (k + SIZE_MOD) % SIZE_MOD = k
    BY <1>2, <2>1
  <2> QED
    BY <2>1, <2>2 DEF k
<1> QED
  BY <1>1, <1>3, <1>4 DEF Take

LEMMA TakeInv ==
  ASSUME QueueInv, NEW c \in Consumer, Take(c)
  PROVE  QueueInv'
<1>1. /\ pcq_current_size_lock = c /\ pcq_head = 0
      /\ pcq_current_size \in 1 .. Capacity /\ pcq_tail = pcq_current_size - 1
      /\ pcq_tail' = pcq_tail /\ pcq_head' = 2
      /\ pcq_current_size' = pcq_current_size - 1
  BY TakeFirst
<1>2. /\ UNCHANGED <<pcq_buffer, pcq_current_size_lock, pcq_head_lock, pcq_tail_lock,
                     pcq_pusher_condvar_lock, pcq_popper_condvar_lock>>
      /\ elem' = [elem EXCEPT ![c] = pcq_buffer[0]]
  BY <1>1 DEF Take, Oldest, locks, condvars
<1>3. \A u \in Thread : pc'[u] = IF u = c THEN "unlock_popper" ELSE pc[u]
  BY DEF Take, QueueInv, TypeOK
<1>4. Capacity \in Nat \ {0}
  BY CapacityAssumption
<1>5. TypeOK'
  <2>1. /\ pcq_current_size' \in 0 .. Capacity
        /\ {pcq_head', pcq_tail'} \subseteq 0 .. SIZE_MOD - 1
    BY <1>1, <1>4, CapacityAssumption
  <2>2. elem' \in [Thread -> Item]
    BY <1>2, <1>4 DEF QueueInv, TypeOK
  <2>3. pc' \in [Thread -> {"gone", "idle", "lock_size", "check", "asleep",
                            "lock_tail", "store", "unlock_size", "unlock_tail",
                            "lock_head", "take", "unlock_popper", "unlock_head"}]
    BY DEF Take, QueueInv, TypeOK
  <2> QED
    BY <1>2, <2>1, <2>2, <2>3 DEF QueueInv, TypeOK
<1>6. HolderInside'
  BY <1>1, <1>2, <1>3 DEF QueueInv, HolderInside
<1>7. TestHolds'
  <2>1. \A u \in Thread : u # c => pc[u] \notin {"lock_tail", "store", "lock_head", "take"}
    BY <1>1 DEF QueueInv, HolderInside, Inside
  <2> QED
    BY <1>3, <2>1, ThreadsAssumption DEF QueueInv, TestHolds
<1>8. LockedOnceTaken' /\ StoredInBuffer'
  BY <1>1, <1>2, <1>3, <1>4 DEF LockedOnceTaken, StoredInBuffer
<1> QED
  BY <1>5, <1>6, <1>7, <1>8 DEF QueueInv

\* Locking and unlocking the size.
LEMMA SizeLockInv ==
  ASSUME QueueInv, NEW t \in Thread, LockSize(t) \/ (t \in Producer /\ UnlockSize(t))
  PROVE  QueueInv'
<1> DEFINE label == IF LockSize(t) THEN "check" ELSE "unlock_tail"
<1>1. /\ \A u \in Thread : pc'[u] = IF u = t THEN label ELSE pc[u]
      /\ pc' \in [Thread -> {"gone", "idle", "lock_size", "check", "asleep",
                             "lock_tail", "store", "unlock_size", "unlock_tail",
                             "lock_head", "take", "unlock_popper", "unlock_head"}]
  BY DEF LockSize, UnlockSize, QueueInv, TypeOK
<1>2. UNCHANGED <<fields, pcq_head_lock, pcq_tail_lock, condvars, elem>>
  BY DEF LockSize, UnlockSize
<1>3. TypeOK'
  BY <1>1, <1>2 DEF LockSize, UnlockSize, QueueInv, TypeOK, fields, condvars
<1>4. \A u \in Thread : u # t => pc[u] \notin Inside
  BY ThreadsAssumption DEF LockSize, UnlockSize, QueueInv, HolderInside, Inside
<1>5. HolderInside'
  BY <1>1, <1>4 DEF LockSize, UnlockSize, HolderInside, Inside
<1>6. TestHolds'
  BY <1>1, <1>2, <1>4, ThreadsAssumption DEF QueueInv, TestHolds, Inside, LockSize, UnlockSize
<1>7. LockedOnceTaken'
  <2>1. ~ \E c \in Consumer :
            /\ pcq_current_size_lock = c
            /\ pc[c] \in {"unlock_popper", "unlock_head", "idle", "lock_size", "gone"}
    BY ThreadsAssumption DEF LockSize, UnlockSize, QueueInv, HolderInside, Inside
  <2> QED
    BY <1>2, <2>1 DEF QueueInv, LockedOnceTaken, fields
<1>8. StoredInBuffer'
  BY <1>2 DEF QueueInv, StoredInBuffer, fields
<1> QED
  BY <1>3, <1>5, <1>6, <1>7, <1>8 DEF QueueInv

LEMMA DestroyInv ==
  ASSUME QueueInv, pcq_destroy
  PROVE  QueueInv'
<1>1. /\ \A t \in Thread : pc[t] = "idle" /\ pc'[t] = "gone"
      /\ UNCHANGED <<fields, locks, elem>>
  BY DEF pcq_destroy
<1>2. TypeOK'
  BY <1>1 DEF pcq_destroy, QueueInv, TypeOK, fields, locks, condvars
<1>3. LockedOnceTaken'
  BY <1>1 DEF QueueInv, LockedOnceTaken, fields, locks
<1>4. HolderInside' /\ TestHolds' /\ StoredInBuffer'
  BY <1>1 DEF QueueInv, HolderInside, TestHolds, StoredInBuffer, Inside, fields
<1> QED
  BY <1>2, <1>3, <1>4 DEF QueueInv

LEMMA CreateInv ==
  ASSUME QueueInv, pcq_create
  PROVE  QueueInv'
<1>0. /\ pcq_head' = 0 /\ pcq_tail' = SIZE_MOD - 1 /\ pcq_current_size' = 0
      /\ elem' = elem /\ \A t \in Thread : pc[t] = "gone"
  BY DEF pcq_create, ResetTail
<1>1. TypeOK'
  <2>1. {pcq_head', pcq_tail'} \subseteq 0 .. SIZE_MOD - 1 /\ pcq_current_size' \in 0 .. Capacity
    BY <1>0, CapacityAssumption
  <2>2. CASE Allocated
    BY <1>0, <2>1, <2>2 DEF Allocated, QueueInv, TypeOK
  <2>3. CASE NotAllocated
    BY <1>0, <2>1, <2>3 DEF NotAllocated, locks, condvars, QueueInv, TypeOK
  <2> QED
    BY <2>2, <2>3 DEF pcq_create
<1>2. (\A t \in Thread : pc'[t] = "idle") \/ (\A t \in Thread : pc'[t] = "gone")
  BY <1>0 DEF pcq_create, Allocated, NotAllocated
<1>3. HolderInside' /\ TestHolds'
  BY <1>2 DEF HolderInside, TestHolds, Inside
<1>4. LockedOnceTaken' /\ StoredInBuffer'
  BY <1>0 DEF LockedOnceTaken, StoredInBuffer
<1> QED
  BY <1>1, <1>3, <1>4 DEF QueueInv

\* The steps that touch neither the fields nor the size lock.
OtherStep(t) ==
  \/ Call(t) \/ SpuriousWakeup(t)
  \/ LeaveLoop(t) \/ Sleep(t)
  \/ t \in Producer /\ (LockTail(t) \/ UnlockTail(t))
  \/ t \in Consumer /\ (LockHead(t) \/ UnlockPopper(t) \/ UnlockHead(t))

LEMMA CallInv ==
  ASSUME QueueInv, NEW t \in Thread, Call(t)
  PROVE  QueueInv'
<1>1. UNCHANGED <<fields, locks>> /\ elem' \in [Thread -> Item]
  BY DEF Call, QueueInv, TypeOK
<1>2. /\ \A u \in Thread : pc'[u] = IF u = t THEN "lock_size" ELSE pc[u]
      /\ pc' \in [Thread -> {"gone", "idle", "lock_size", "check", "asleep",
                             "lock_tail", "store", "unlock_size", "unlock_tail",
                             "lock_head", "take", "unlock_popper", "unlock_head"}]
  BY DEF Call, QueueInv, TypeOK
<1>3. TypeOK'
  BY <1>1, <1>2 DEF QueueInv, TypeOK, fields, locks, condvars
<1>4. HolderInside' /\ StoredInBuffer'
  BY <1>1, <1>2 DEF QueueInv, HolderInside, StoredInBuffer, Inside, fields, locks
<1>5. TestHolds'
  BY <1>1, <1>2 DEF QueueInv, TestHolds, fields
<1>6. LockedOnceTaken'
  BY <1>1, <1>2 DEF QueueInv, LockedOnceTaken, fields, locks
<1> QED
  BY <1>3, <1>4, <1>5, <1>6 DEF QueueInv

LEMMA OtherStepInv ==
  ASSUME QueueInv, NEW t \in Thread, OtherStep(t)
  PROVE  QueueInv'
<1> USE ThreadsAssumption DEF Inside
<1>h. pc[t] \in Inside => pcq_current_size_lock = t
  BY DEF QueueInv, HolderInside
<1>l. {pcq_head_lock, pcq_tail_lock, pcq_pusher_condvar_lock, pcq_popper_condvar_lock}
        \subseteq Thread \cup {NoThread}
  BY DEF QueueInv, TypeOK
<1>1. CASE Call(t)
  BY <1>1, CallInv
<1>2. CASE SpuriousWakeup(t)
  BY <1>2, <1>h, <1>l, MoveKeeps DEF SpuriousWakeup, CondvarLock, AfterWakeup
<1>3. CASE LeaveLoop(t)
  BY <1>3, <1>h, <1>l, MoveKeeps DEF LeaveLoop, MustSleep, locks, condvars
<1>4. CASE Sleep(t)
  BY <1>4, <1>h, <1>l, MoveKeeps DEF Sleep, CondvarLock
<1>5. CASE t \in Producer /\ LockTail(t)
  <2>1. pcq_current_size # Capacity
    BY <1>5 DEF LockTail, QueueInv, TestHolds
  <2> QED
    BY <1>5, <2>1, <1>h, <1>l, MoveKeeps DEF LockTail, condvars
<1>6. CASE t \in Producer /\ UnlockTail(t)
  BY <1>6, <1>h, <1>l, MoveKeeps DEF UnlockTail, condvars
<1>7. CASE t \in Consumer /\ LockHead(t)
  <2>1. pcq_current_size # 0
    BY <1>7 DEF LockHead, QueueInv, TestHolds
  <2> QED
    BY <1>7, <2>1, <1>h, <1>l, MoveKeeps DEF LockHead, condvars
<1>8. CASE t \in Consumer /\ UnlockPopper(t)
  BY <1>8, <1>h, <1>l, MoveKeeps DEF UnlockPopper
<1>9. CASE t \in Consumer /\ UnlockHead(t)
  BY <1>9, <1>h, <1>l, MoveKeeps DEF UnlockHead, condvars
<1> QED
  BY <1>1, <1>2, <1>3, <1>4, <1>5, <1>6, <1>7, <1>8, <1>9 DEF OtherStep

\* The steps of the system, by what they do to the fields.
LEMMA Steps ==
  ASSUME Next
  PROVE  \/ pcq_create \/ pcq_destroy
         \/ \E t \in Thread : OtherStep(t) \/ LockSize(t) \/ (t \in Producer /\ UnlockSize(t))
         \/ \E p \in Producer : Store(p)
         \/ \E c \in Consumer : Take(c)
BY DEF Next, pcq_enqueue, pcq_dequeue, OtherStep

LEMMA QueueInvStep == QueueInv /\ [Next]_vars => QueueInv'
<1> SUFFICES ASSUME QueueInv, [Next]_vars PROVE QueueInv'
  OBVIOUS
<1>1. CASE UNCHANGED vars
  BY <1>1 DEF QueueInv, TypeOK, HolderInside, TestHolds, LockedOnceTaken, StoredInBuffer,
              vars, fields, locks, condvars
<1>2. CASE Next
  BY <1>2, Steps, CreateInv, DestroyInv, OtherStepInv, SizeLockInv, StoreInv, TakeInv
<1> QED
  BY <1>1, <1>2

\* QueueInv holds in every state, whatever the interleaving of the calls of
\* pcq_enqueue and pcq_dequeue and whatever wakes a thread.
THEOREM QueueInvAlways == Spec => []QueueInv
BY InitInv, QueueInvStep, PTL DEF Spec

\* The size of the queue stays between 0 and the capacity, and the indices are
\* values of size_t.
THEOREM QueueTypeCorrect == Spec => []TypeOK
<1>1. QueueInv => TypeOK
  BY DEF QueueInv
<1> QED
  BY <1>1, QueueInvAlways, PTL

\* pcq_enqueue writes and pcq_dequeue reads one of the Capacity slots, for any
\* capacity: no life of the queue comes to the slot where pcq_tail goes round, nor
\* to the second element that pcq_dequeue would skip.
THEOREM SlotsInRangeCorrect == Spec => []SlotsInRange
<1>1. QueueInv => SlotsInRange
  <2> SUFFICES ASSUME QueueInv PROVE SlotsInRange
    OBVIOUS
  <2>1. ASSUME NEW p \in Producer, pc[p] = "store" PROVE NextTail < Capacity
    BY <2>1, BeforeStore
  <2>2. ASSUME NEW c \in Consumer, pc[c] = "take" PROVE pcq_head < Capacity
    BY <2>2, BeforeTake, CapacityAssumption
  <2> QED
    BY <2>1, <2>2 DEF SlotsInRange
<1> QED
  BY <1>1, QueueInvAlways, PTL

-----------------------------------------------------------------------------
\* Only a thread that holds the size lock stores or takes an element.
THEOREM FieldsProtectedCorrect == Spec => FieldsProtected
<1>1. QueueInv /\ [Next]_vars =>
        [\/ UNCHANGED fields
         \/ pcq_create
         \/ \E t \in Thread : pcq_current_size_lock = t /\ pc'[t] # pc[t]]_vars
  <2> SUFFICES ASSUME QueueInv, Next
               PROVE  \/ UNCHANGED fields
                      \/ pcq_create
                      \/ \E t \in Thread : pcq_current_size_lock = t /\ pc'[t] # pc[t]
    OBVIOUS
  <2>1. ASSUME NEW p \in Producer, Store(p)
        PROVE  pcq_current_size_lock = p /\ pc'[p] # pc[p]
    BY <2>1 DEF Store, QueueInv, HolderInside, Inside, TypeOK
  <2>2. ASSUME NEW c \in Consumer, Take(c)
        PROVE  pcq_current_size_lock = c /\ pc'[c] # pc[c]
    BY <2>2 DEF Take, QueueInv, HolderInside, Inside, TypeOK
  <2>3. CASE pcq_destroy
    BY <2>3 DEF pcq_destroy
  <2>4. ASSUME NEW t \in Thread, OtherStep(t) \/ LockSize(t) \/ UnlockSize(t)
        PROVE  UNCHANGED fields
    BY <2>4 DEF OtherStep, Call, SpuriousWakeup, LeaveLoop, Sleep, CondvarLock, LockTail, UnlockTail,
                LockHead, UnlockPopper, UnlockHead, LockSize, UnlockSize
  <2> QED
    BY Steps, <2>1, <2>2, <2>3, <2>4
<1> QED
  BY <1>1, QueueInvAlways, PTL DEF Spec, FieldsProtected

-----------------------------------------------------------------------------
(* The refinement of BoundedQueue *)

\* The slots that Stored reads make a sequence of elements.
LEMMA SlotsSeq ==
  ASSUME NEW buffer \in [0 .. Capacity -> Item], NEW tail, NEW size \in Nat,
         size > 0 => tail \in 0 .. Capacity /\ size <= tail + 1
  PROVE  LET s == [k \in 1 .. size |-> buffer[tail - size + k]]
         IN  s \in Seq(Item) /\ Len(s) = size
<1>1. \A k \in 1 .. size : buffer[tail - size + k] \in Item
  <2> SUFFICES ASSUME NEW k \in 1 .. size PROVE buffer[tail - size + k] \in Item
    OBVIOUS
  <2>1. tail - size + k \in 0 .. Capacity
    BY CapacityAssumption
  <2> QED
    BY <2>1
<1> DEFINE s == [k \in 1 .. size |-> buffer[tail - size + k]]
<1>2. s \in [1 .. size -> Item]
  BY <1>1
<1>3. s \in Seq(Item) /\ Len(s) = size
  BY <1>2
<1> QED
  BY <1>3

LEMMA StoredSeq ==
  ASSUME QueueInv
  PROVE  Stored \in Seq(Item) /\ Len(Stored) = pcq_current_size
<1>1. /\ pcq_buffer \in [0 .. Capacity -> Item] /\ pcq_current_size \in Nat
      /\ pcq_current_size > 0 => pcq_tail \in 0 .. Capacity /\ pcq_current_size <= pcq_tail + 1
  BY CapacityAssumption DEF QueueInv, TypeOK, StoredInBuffer
<1>2. LET s == [k \in 1 .. pcq_current_size |-> pcq_buffer[pcq_tail - pcq_current_size + k]]
      IN  s \in Seq(Item) /\ Len(s) = pcq_current_size
  BY <1>1, SlotsSeq
<1> QED
  BY <1>2 DEF Stored

LEMMA StoredSeqNext ==
  ASSUME QueueInv'
  PROVE  Stored' \in Seq(Item) /\ Len(Stored') = pcq_current_size'
<1>1. /\ pcq_buffer' \in [0 .. Capacity -> Item] /\ pcq_current_size' \in Nat
      /\ pcq_current_size' > 0 => pcq_tail' \in 0 .. Capacity /\ pcq_current_size' <= pcq_tail' + 1
  <2>1. TypeOK' /\ StoredInBuffer'
    BY DEF QueueInv
  <2>2. pcq_buffer' \in [0 .. Capacity -> Item] /\ pcq_current_size' \in 0 .. Capacity
    BY <2>1 DEF TypeOK
  <2> QED
    BY <2>1, <2>2, CapacityAssumption DEF StoredInBuffer
<1>2. LET s == [k \in 1 .. pcq_current_size' |-> pcq_buffer'[pcq_tail' - pcq_current_size' + k]]
      IN  s \in Seq(Item) /\ Len(s) = pcq_current_size'
  BY <1>1, SlotsSeq
<1> QED
  BY <1>2 DEF Stored

\* pcq_create leaves an empty queue.
LEMMA StoredEmpty == ASSUME QueueInv, pcq_current_size = 0 PROVE Stored = <<>>
BY StoredSeq, EmptySeq

LEMMA StoreAppends ==
  ASSUME QueueInv, NEW p \in Producer, Store(p)
  PROVE  Stored' = Append(Stored, elem[p]) /\ Len(Stored) < Capacity
<1>1. QueueInv'
  BY StoreInv
<1>2. /\ pcq_current_size \in Nat /\ pcq_current_size < Capacity
      /\ pcq_tail' = pcq_current_size /\ pcq_current_size' = pcq_current_size + 1
      /\ pcq_buffer' = [pcq_buffer EXCEPT ![pcq_current_size] = elem[p]]
      /\ pcq_current_size > 0 => pcq_tail = pcq_current_size - 1
      /\ elem[p] \in Item
  BY StoreFields DEF QueueInv, TypeOK
<1> DEFINE n == pcq_current_size
<1>3. /\ Append(Stored, elem[p]) \in Seq(Item) /\ Len(Append(Stored, elem[p])) = n + 1
      /\ \A k \in 1 .. n : Append(Stored, elem[p])[k] = Stored[k]
      /\ Append(Stored, elem[p])[n + 1] = elem[p]
  BY <1>2, StoredSeq
<1>4. /\ Stored' \in Seq(Item) /\ Len(Stored') = n + 1
      /\ \A k \in 1 .. n + 1 : Stored'[k] = pcq_buffer'[k - 1]
  <2>1. /\ Stored' \in Seq(Item) /\ Len(Stored') = pcq_current_size'
        /\ \A k \in 1 .. pcq_current_size' :
             Stored'[k] = pcq_buffer'[pcq_tail' - pcq_current_size' + k]
    BY <1>1, StoredSeqNext DEF Stored
  <2>2. \A k \in 1 .. n + 1 : pcq_tail' - pcq_current_size' + k = k - 1
    BY <1>2
  <2> QED
    BY <1>2, <2>1, <2>2
<1>5. \A k \in 1 .. n + 1 : Stored'[k] = Append(Stored, elem[p])[k]
  <2> TAKE k \in 1 .. n + 1
  <2>1. CASE k = n + 1
    <3>1. pcq_buffer'[n] = elem[p]
      BY <1>2, CapacityAssumption DEF QueueInv, TypeOK
    <3> QED
      BY <1>2, <1>3, <1>4, <2>1, <3>1
  <2>2. CASE k \in 1 .. n
    <3>1. Stored[k] = pcq_buffer[k - 1]
      <4>1. pcq_tail - pcq_current_size + k = k - 1
        BY <1>2, <2>2
      <4> QED
        BY <2>2, <4>1 DEF Stored
    <3>2. pcq_buffer'[k - 1] = pcq_buffer[k - 1]
      BY <1>2, <2>2, CapacityAssumption DEF QueueInv, TypeOK
    <3> QED
      BY <1>3, <1>4, <2>2, <3>1, <3>2
  <2>3. k = n + 1 \/ k \in 1 .. n
    BY <1>2
  <2> QED
    BY <2>1, <2>2, <2>3
<1> HIDE DEF n
<1>6. Stored' = Append(Stored, elem[p])
  BY <1>3, <1>4, <1>5, SeqEqual
<1> QED
  BY <1>2, <1>6, StoredSeq

LEMMA TakeRemoves ==
  ASSUME QueueInv, NEW c \in Consumer, Take(c)
  PROVE  Stored # <<>> /\ Stored' = Tail(Stored) /\ Oldest = Head(Stored)
<1> DEFINE n == pcq_current_size
<1>1. QueueInv' /\ UNCHANGED pcq_buffer
  BY TakeInv DEF Take
<1>2. /\ pcq_head = 0 /\ n \in 1 .. Capacity /\ pcq_tail = n - 1
      /\ pcq_tail' = pcq_tail /\ pcq_current_size' = n - 1
  BY TakeFirst
<1>c. Capacity \in Nat
  BY CapacityAssumption
<1>3. Stored # <<>> /\ Len(Stored) = n /\ Stored \in Seq(Item)
  BY <1>2, <1>c, StoredSeq, EmptySeq
<1>4. \A k \in 1 .. n : Stored[k] = pcq_buffer[k - 1]
  <2>1. \A k \in 1 .. n : pcq_tail - pcq_current_size + k = k - 1
    BY <1>2, <1>c
  <2> QED
    BY <2>1 DEF Stored
<1>5. /\ Stored' \in Seq(Item) /\ Len(Stored') = n - 1
      /\ \A k \in 1 .. n - 1 : Stored'[k] = pcq_buffer[k]
  <2>1. /\ Stored' \in Seq(Item) /\ Len(Stored') = pcq_current_size'
        /\ \A k \in 1 .. pcq_current_size' :
             Stored'[k] = pcq_buffer'[pcq_tail' - pcq_current_size' + k]
    BY <1>1, StoredSeqNext DEF Stored
  <2>2. \A k \in 1 .. n - 1 : pcq_tail' - pcq_current_size' + k = k
    BY <1>2, <1>c
  <2> QED
    BY <1>1, <1>2, <2>1, <2>2
<1>6. /\ Tail(Stored) \in Seq(Item) /\ Len(Tail(Stored)) = n - 1
      /\ \A k \in 1 .. n - 1 : Tail(Stored)[k] = Stored[k + 1]
  BY <1>3, HeadTailProperties
<1>7. \A k \in 1 .. n - 1 : Tail(Stored)[k] = Stored'[k]
  <2> TAKE k \in 1 .. n - 1
  <2>1. k + 1 \in 1 .. n /\ (k + 1) - 1 = k
    BY <1>2, <1>c
  <2> QED
    BY <1>4, <1>5, <1>6, <2>1
<1>8. Oldest = Head(Stored)
  <2>1. Head(Stored) = Stored[1]
    BY <1>3
  <2>2. Stored[1] = pcq_buffer[0]
    BY <1>2, <1>4, <1>c
  <2> QED
    BY <1>2, <2>1, <2>2 DEF Oldest
<1> HIDE DEF n
<1>9. Stored' = Tail(Stored)
  BY <1>5, <1>6, <1>7, SeqEqual
<1> QED
  BY <1>3, <1>8, <1>9

\* How far the calls are.
progress == [t \in Thread |-> Progress(t)]

ProgressAt(label) ==
  IF label \in {"gone", "idle"} THEN "none"
  ELSE IF label \in {"unlock_size", "unlock_tail", "unlock_popper", "unlock_head"} THEN "done"
  ELSE "started"

\* A step that moves one thread moves its call, or leaves it where it was.
LEMMA ProgressMoves ==
  ASSUME QueueInv, NEW t \in Thread, NEW label, Goto(t, label)
  PROVE  /\ progress' = [progress EXCEPT ![t] = ProgressAt(label)]
         /\ progress[t] = ProgressAt(pc[t])
<1>1. \A u \in Thread : pc'[u] = IF u = t THEN label ELSE pc[u]
  BY DEF QueueInv, TypeOK
<1>2. \A u \in Thread : u # t => progress'[u] = progress[u]
  BY <1>1 DEF progress, Progress
<1>3. progress'[t] = ProgressAt(label) /\ progress[t] = ProgressAt(pc[t])
  BY <1>1 DEF progress, Progress, ProgressAt
<1>4. progress = [u \in Thread |-> progress[u]] /\ progress' = [u \in Thread |-> progress'[u]]
  BY DEF progress
<1> QED
  BY <1>2, <1>3, <1>4

LEMMA InitRefines == Init => Queue!Init
<1> SUFFICES ASSUME Init PROVE Queue!Init
  OBVIOUS
<1>1. Stored = <<>>
  BY InitInv, StoredEmpty DEF Init
<1>2. [t \in Thread |-> Progress(t)] = [t \in Thread |-> "none"]
  BY DEF Init, Progress
<1> QED
  BY <1>1, <1>2 DEF Init, Queue!Init, Queue!Thread

\* A step that leaves the fields and the elements alone returns from a call or
\* is not seen, for a call leaves its loop between two lock operations.
LEMMA MovesRefine ==
  ASSUME QueueInv, NEW t \in Thread,
         OtherStep(t) \/ LockSize(t) \/ (t \in Producer /\ UnlockSize(t))
  PROVE  [Queue!Next]_Queue!queueVars
<1>s. Stored' = Stored
  BY DEF OtherStep, Call, SpuriousWakeup, LeaveLoop, Sleep, CondvarLock, LockTail, UnlockTail,
         LockHead, UnlockPopper, UnlockHead, LockSize, UnlockSize, Stored, fields
<1>c. progress = [u \in Thread |-> progress[u]] /\ t \in Queue!Thread
  BY DEF progress, Queue!Thread
<1>1. CASE Call(t)
  <2>1. progress[t] = "none" /\ progress' = [progress EXCEPT ![t] = "started"]
    <3>1. pc[t] = "idle" /\ Goto(t, "lock_size")
      BY <1>1 DEF Call
    <3>2. ProgressAt("idle") = "none" /\ ProgressAt("lock_size") = "started"
      BY DEF ProgressAt
    <3>3. progress' = [progress EXCEPT ![t] = ProgressAt("lock_size")]
      BY <3>1, ProgressMoves
    <3>4. progress[t] = ProgressAt(pc[t])
      BY <3>1, ProgressMoves
    <3> QED
      BY <3>1, <3>2, <3>3, <3>4
  <2>2. Queue!Start(t)
    BY <1>1, <1>s, <2>1 DEF Call, Queue!Start, progress
  <2> QED
    BY <1>c, <2>2 DEF Queue!Next
<1>2. CASE \/ t \in Producer /\ UnlockTail(t)
           \/ t \in Consumer /\ UnlockHead(t)
  <2>1. progress[t] = "done" /\ progress' = [progress EXCEPT ![t] = "none"]
    BY <1>2, ProgressMoves DEF ProgressAt, UnlockTail, UnlockHead
  <2>2. Queue!Return(t)
    BY <1>2, <1>s, <2>1 DEF UnlockTail, UnlockHead, Queue!Return, progress
  <2> QED
    BY <1>c, <2>2 DEF Queue!Next
<1>3. CASE \/ SpuriousWakeup(t) \/ LeaveLoop(t) \/ Sleep(t) \/ LockSize(t)
           \/ t \in Producer /\ (LockTail(t) \/ UnlockSize(t))
           \/ t \in Consumer /\ (LockHead(t) \/ UnlockPopper(t))
  <2>1. progress' = [progress EXCEPT ![t] = progress[t]]
    <3>1. CASE SpuriousWakeup(t)
      BY <3>1, ProgressMoves DEF ProgressAt, SpuriousWakeup, AfterWakeup
    <3>2. CASE LeaveLoop(t)
      BY <3>2, ProgressMoves DEF ProgressAt, LeaveLoop
    <3>3. CASE Sleep(t)
      BY <3>3, ProgressMoves DEF ProgressAt, Sleep
    <3>4. CASE LockSize(t)
      BY <3>4, ProgressMoves DEF ProgressAt, LockSize
    <3>5. CASE LockTail(t) \/ UnlockSize(t)
      BY <3>5, ProgressMoves DEF ProgressAt, LockTail, UnlockSize
    <3>6. CASE LockHead(t) \/ UnlockPopper(t)
      BY <3>6, ProgressMoves DEF ProgressAt, LockHead, UnlockPopper
    <3> QED
      BY <1>3, <3>1, <3>2, <3>3, <3>4, <3>5, <3>6
  <2>2. progress' = progress
    BY <1>c, <2>1
  <2>3. elem' = elem
    BY <1>3 DEF SpuriousWakeup, LeaveLoop, Sleep, CondvarLock, LockTail,
                LockHead, UnlockPopper, LockSize, UnlockSize
  <2>4. UNCHANGED Queue!queueVars
    BY <1>s, <2>2, <2>3 DEF Queue!queueVars, progress
  <2> QED
    BY <2>4
<1> QED
  BY <1>1, <1>2, <1>3 DEF OtherStep

LEMMA NextRefines ==
  ASSUME QueueInv, [Next]_vars
  PROVE  [Queue!Next]_Queue!queueVars
<1>1. CASE UNCHANGED vars
  <2>1. Stored' = Stored /\ elem' = elem
    BY <1>1 DEF vars, fields, Stored
  <2>2. \A t \in Thread : Progress(t)' = Progress(t)
    BY <1>1 DEF vars, Progress
  <2> QED
    BY <2>1, <2>2 DEF Queue!queueVars
<1>2. ASSUME NEW p \in Producer, Store(p)
      PROVE  Queue!Enqueue(p)
  <2>1. progress[p] = "started" /\ progress' = [progress EXCEPT ![p] = "done"]
    BY <1>2, ProgressMoves DEF ProgressAt, Store
  <2>2. Stored' = Append(Stored, elem[p]) /\ Len(Stored) < Capacity
    BY <1>2, StoreAppends
  <2> QED
    BY <1>2, <2>1, <2>2 DEF Store, Queue!Enqueue, progress
<1>3. ASSUME NEW c \in Consumer, Take(c)
      PROVE  Queue!Dequeue(c)
  <2>1. progress[c] = "started" /\ progress' = [progress EXCEPT ![c] = "done"]
    BY <1>3, ProgressMoves DEF ProgressAt, Take
  <2>2. Stored # <<>> /\ Stored' = Tail(Stored) /\ Oldest = Head(Stored)
    BY <1>3, TakeRemoves
  <2> QED
    BY <1>3, <2>1, <2>2 DEF Take, Queue!Dequeue, progress
<1>4. CASE pcq_destroy
  <2>1. Stored' = Stored /\ elem' = elem
    BY <1>4 DEF pcq_destroy, Stored, fields
  <2>2. \A t \in Thread : Progress(t)' = Progress(t)
    BY <1>4 DEF pcq_destroy, Progress
  <2> QED
    BY <2>1, <2>2 DEF Queue!queueVars
<1>5. CASE pcq_create
  <2>1. Stored' = <<>>
    <3>1. QueueInv' /\ pcq_current_size' = 0
      BY <1>5, CreateInv DEF pcq_create
    <3> QED
      BY <3>1, StoredSeqNext, EmptySeq
  <2>2. \A t \in Thread : Progress(t) = "none" /\ Progress(t)' = "none"
    BY <1>5 DEF pcq_create, Allocated, NotAllocated, Progress
  <2>3. Queue!Renew
    BY <1>5, <2>1, <2>2 DEF Queue!Renew, Queue!Thread, pcq_create
  <2> QED
    BY <2>3 DEF Queue!Next
<1> QED
  BY <1>1, <1>2, <1>3, <1>4, <1>5, Steps, MovesRefine DEF Queue!Next

\* pcq_enqueue and pcq_dequeue implement the bounded queue that
\* producer-consumer.h describes: each call that returns took effect in one
\* step, when it stored or took its element.
THEOREM ImplementsQueueCorrect == Spec => ImplementsQueue
BY InitRefines, NextRefines, QueueInvAlways, PTL DEF Spec, ImplementsQueue, Queue!Spec

-----------------------------------------------------------------------------
(* The way out of a call *)

\* Who has the two locks that a call takes past the test of its loop.
LocksHeld ==
  \A t \in Thread :
    /\ pcq_tail_lock = t <=> pc[t] \in {"store", "unlock_size", "unlock_tail"}
    /\ pcq_head_lock = t <=> pc[t] \in {"take", "unlock_popper", "unlock_head"}

\* A step of one thread that neither takes nor gives back one of the two.
LEMMA MoveHolds ==
  ASSUME QueueInv, LocksHeld, NEW t \in Thread, NEW label,
         Goto(t, label), UNCHANGED <<pcq_tail_lock, pcq_head_lock>>,
         label \in {"store", "unlock_size", "unlock_tail"}
           <=> pc[t] \in {"store", "unlock_size", "unlock_tail"},
         label \in {"take", "unlock_popper", "unlock_head"}
           <=> pc[t] \in {"take", "unlock_popper", "unlock_head"}
  PROVE  LocksHeld'
<1>1. \A u \in Thread : pc'[u] = IF u = t THEN label ELSE pc[u]
  BY DEF QueueInv, TypeOK
<1> QED
  BY <1>1 DEF LocksHeld

LEMMA LocksHeldStep == QueueInv /\ LocksHeld /\ [Next]_vars => LocksHeld'
<1> SUFFICES ASSUME QueueInv, LocksHeld, [Next]_vars PROVE LocksHeld'
  OBVIOUS
<1> USE ThreadsAssumption
<1>1. CASE UNCHANGED vars
  BY <1>1 DEF LocksHeld, vars, locks
<1>2. CASE pcq_create
  BY <1>2 DEF pcq_create, Allocated, NotAllocated, locks, LocksHeld
<1>3. CASE pcq_destroy
  BY <1>3 DEF pcq_destroy, LocksHeld, locks
<1>4. ASSUME NEW t \in Thread, LockSize(t) \/ UnlockSize(t) PROVE LocksHeld'
  BY <1>4, MoveHolds DEF LockSize, UnlockSize
<1>5. ASSUME NEW p \in Producer, Store(p) PROVE LocksHeld'
  BY <1>5, MoveHolds DEF Store, locks
<1>6. ASSUME NEW c \in Consumer, Take(c) PROVE LocksHeld'
  BY <1>6, MoveHolds DEF Take, locks
<1>7. ASSUME NEW t \in Thread, Call(t) \/ SpuriousWakeup(t) \/ LeaveLoop(t) \/ Sleep(t)
      PROVE  LocksHeld'
  <2>1. UNCHANGED <<pcq_tail_lock, pcq_head_lock>>
    BY <1>7 DEF Call, SpuriousWakeup, LeaveLoop, Sleep, CondvarLock, locks
  <2> QED
    BY <1>7, <2>1, MoveHolds DEF Call, SpuriousWakeup, LeaveLoop, Sleep, AfterWakeup
<1>8. ASSUME NEW p \in Producer, LockTail(p) \/ UnlockTail(p) PROVE LocksHeld'
  <2>1. \A u \in Thread : u # p => pc'[u] = pc[u]
    BY <1>8 DEF LockTail, UnlockTail, QueueInv, TypeOK
  <2>2. /\ pcq_head_lock' = pcq_head_lock
        /\ \/ pcq_tail_lock = NoThread /\ pcq_tail_lock' = p /\ pc'[p] = "store"
              /\ pc[p] = "lock_tail"
           \/ pcq_tail_lock' = NoThread /\ pc[p] = "unlock_tail" /\ pc'[p] = "idle"
    BY <1>8 DEF LockTail, UnlockTail, QueueInv, TypeOK
  <2>3. \A u \in Thread : u # p => pcq_tail_lock # u
    BY <2>2 DEF LocksHeld
  <2> QED
    BY <2>1, <2>2, <2>3 DEF LocksHeld
<1>9. ASSUME NEW c \in Consumer, LockHead(c) \/ UnlockHead(c) PROVE LocksHeld'
  <2>1. \A u \in Thread : u # c => pc'[u] = pc[u]
    BY <1>9 DEF LockHead, UnlockHead, QueueInv, TypeOK
  <2>2. /\ pcq_tail_lock' = pcq_tail_lock
        /\ \/ pcq_head_lock = NoThread /\ pcq_head_lock' = c /\ pc'[c] = "take"
              /\ pc[c] = "lock_head"
           \/ pcq_head_lock' = NoThread /\ pc[c] = "unlock_head" /\ pc'[c] = "idle"
    BY <1>9 DEF LockHead, UnlockHead, QueueInv, TypeOK
  <2>3. \A u \in Thread : u # c => pcq_head_lock # u
    BY <2>2 DEF LocksHeld
  <2> QED
    BY <2>1, <2>2, <2>3 DEF LocksHeld
<1>10. ASSUME NEW c \in Consumer, UnlockPopper(c) PROVE LocksHeld'
  BY <1>10, MoveHolds DEF UnlockPopper
<1> QED
  BY <1>1, <1>2, <1>3, <1>4, <1>5, <1>6, <1>7, <1>8, <1>9, <1>10
  DEF Next, pcq_enqueue, pcq_dequeue

\* The locks between the test of a loop and the return of a call are only held by
\* calls that go on to give them back.
THEOREM WayOutClearCorrect == Spec => []WayOutClear
<1>1. Init => LocksHeld
  BY ThreadsAssumption DEF Init, LocksHeld
<1>2. QueueInv /\ LocksHeld => WayOutClear
  <2> SUFFICES ASSUME QueueInv, LocksHeld PROVE WayOutClear
    OBVIOUS
  <2>1. ASSUME NEW p \in Producer, pc[p] = "lock_tail", pcq_tail_lock # NoThread
        PROVE  pcq_tail_lock \in Producer /\ pc[pcq_tail_lock] = "unlock_tail"
    <3>1. pcq_tail_lock \in Thread /\ pc[pcq_tail_lock] \in {"store", "unlock_size", "unlock_tail"}
      BY <2>1 DEF QueueInv, TypeOK, LocksHeld
    <3>2. pcq_current_size_lock = p
      BY <2>1 DEF QueueInv, HolderInside, Inside
    <3>3. pc[pcq_tail_lock] = "unlock_tail"
      BY <2>1, <3>1, <3>2 DEF QueueInv, HolderInside, Inside
    <3> QED
      BY <3>1, <3>3 DEF QueueInv, TestHolds
  <2>2. ASSUME NEW c \in Consumer, pc[c] = "lock_head" PROVE pcq_head_lock = NoThread
    <3> SUFFICES ASSUME pcq_head_lock # NoThread PROVE FALSE
      OBVIOUS
    <3>1. pcq_head_lock \in Thread /\ pc[pcq_head_lock] \in {"take", "unlock_popper", "unlock_head"}
      BY DEF QueueInv, TypeOK, LocksHeld
    <3>2. pcq_current_size_lock = c /\ pcq_current_size_lock = pcq_head_lock
      BY <2>2, <3>1 DEF QueueInv, HolderInside, Inside
    <3> QED
      BY <2>2, <3>1, <3>2
  <2> QED
    BY <2>1, <2>2 DEF WayOutClear
<1> QED
  BY <1>1, <1>2, LocksHeldStep, QueueInvAlways, PTL DEF Spec

=============================================================================
