-------------------------- MODULE BlockQueueProofs --------------------------
(***************************************************************************)
(* Theorems about BlockQueue, for any threads, items, size of the array    *)
(* and number of pushes: the two invariants of its run, and that the       *)
(* circular array implements BoundedFifo.                                  *)
(*                                                                         *)
(* The inductive invariant has two layers.  Structure: the types, who has  *)
(* the mutex, who is blocked, what each thread is doing, and that there is *)
(* room for a store and an item for a take.  Indices: how far m_back is    *)
(* ahead of m_front, which also says where the oldest item is.             *)
(***************************************************************************)
EXTENDS BlockQueue, SequenceTheorems, TLAPS

\* The values of pc between lock and unlock.
Critical == {"body", "store", "take", "woken", "timed_out"}

\* A thread is in a critical section if and only if it owns the mutex.
Mutex == \A t \in Threads : pc[t] \in Critical <=> m_mutex = t

\* The threads that wait are those in the condition variable.
Blocked == \A t \in Threads : pc[t] = "waiting" <=> t \in m_cond

\* Producers push items and consumers pop; only push() stores, only pop() waits
\* and takes, and only the timed pop() expires.
Operation ==
  \A t \in Threads :
    /\ pc[t] = "idle" <=> op[t] = "none"
    /\ op[t] = "push" => t \in Producers /\ item[t] \in Items
    /\ op[t] \in {"pop", "timed_pop"} => t \in Consumers
    /\ pc[t] = "store" => op[t] = "push"
    /\ pc[t] \in {"take", "waiting", "relock", "woken"} => op[t] \in {"pop", "timed_pop"}
    /\ pc[t] \in {"expired", "timed_out"} => op[t] = "timed_pop"

\* A thread that is about to store has a free slot, and one that is about to
\* take has an item; each has moved its index into the array.
Room ==
  \A t \in Threads :
    /\ pc[t] = "store" => m_size < MaxSize /\ m_back \in Slots
    /\ pc[t] = "take" => m_size > 0 /\ m_front \in Slots

\* The first layer.
Structure == TypeOK /\ Mutex /\ Blocked /\ Operation /\ Room

\* The slot that the next store fills: m_back is one behind it, except between
\* the two statements of push() that move the index and store the item.
NextFree ==
  IF \E t \in Threads : pc[t] = "store" THEN m_back ELSE (m_back + 1) % MaxSize

\* The next store goes m_size slots beyond the oldest item.
Indices == NextFree = (Oldest + m_size) % MaxSize

\* The inductive invariant.
Inv == Structure /\ Indices /\ NoSleeperWithItems

-----------------------------------------------------------------------------
(* The arithmetic of the circular array of m slots                         *)

\* An index stays in the array.
LEMMA ModRange ==
  ASSUME NEW m \in Nat \ {0}, NEW a \in Int
  PROVE  a % m \in 0..(m - 1)
BY SMT

\* In the first round the remainder is the number itself.
LEMMA ModSmall ==
  ASSUME NEW m \in Nat \ {0}, NEW a \in 0..(m - 1)
  PROVE  a % m = a
BY SMT

\* In the second round the remainder is one round less.
LEMMA ModWrap ==
  ASSUME NEW m \in Nat \ {0}, NEW a \in m..(2 * m - 1)
  PROVE  a % m = a - m
BY SMT

\* A sum of two indices is in the first or in the second round of the array.
LEMMA ModSum ==
  ASSUME NEW m \in Nat \ {0}, NEW a \in 0..m, NEW i \in 0..(m - 1)
  PROVE  (a + i) % m = IF a + i < m THEN a + i ELSE a + i - m
<1> DEFINE s == a + i
<1>1. s \in 0..(m - 1) \/ s \in m..(2 * m - 1)
  OBVIOUS
<1> HIDE DEF s
<1>2. s % m = IF s < m THEN s ELSE s - m
  BY <1>1, ModSmall, ModWrap
<1> QED
  BY <1>2 DEF s

\* The next index, as push() and pop() compute it.
LEMMA NextIndex ==
  ASSUME NEW m \in Nat \ {0}, NEW a \in 0..(m - 1)
  PROVE  (a + 1) % m = IF a + 1 < m THEN a + 1 ELSE 0
<1> DEFINE s == a + 1
<1>1. s \in 0..(m - 1) \/ s \in m..(2 * m - 1)
  OBVIOUS
<1> HIDE DEF s
<1>2. s % m = IF s < m THEN s ELSE s - m
  BY <1>1, ModSmall, ModWrap
<1> QED
  BY <1>2 DEF s

\* Going i slots on from the slot after a is going i + 1 slots on from a.
LEMMA NextSlot ==
  ASSUME NEW m \in Nat \ {0}, NEW a \in 0..(m - 1), NEW i \in 0..(m - 1)
  PROVE  (((a + 1) % m) + i) % m = (a + 1 + i) % m
<1> DEFINE n == (a + 1) % m
<1>1. n = IF a + 1 < m THEN a + 1 ELSE 0
  BY NextIndex
<1>2. n \in 0..m
  BY <1>1
<1> HIDE DEF n
<1>3. (n + i) % m = IF n + i < m THEN n + i ELSE n + i - m
  BY <1>2, ModSum
<1>4. (a + 1 + i) % m = IF a + 1 + i < m THEN a + 1 + i ELSE a + 1 + i - m
  <2> DEFINE b == a + 1
  <2>1. b \in 0..m
    OBVIOUS
  <2> HIDE DEF b
  <2>2. (b + i) % m = IF b + i < m THEN b + i ELSE b + i - m
    BY <2>1, ModSum
  <2> QED
    BY <2>2 DEF b
<1> QED
  BY <1>1, <1>3, <1>4 DEF n

\* Going one slot on after i slots is going i + 1 slots on.
LEMMA OneSlotMore ==
  ASSUME NEW m \in Nat \ {0}, NEW a \in 0..(m - 1), NEW i \in 0..(m - 1)
  PROVE  (((a + i) % m) + 1) % m = (a + (i + 1)) % m
<1> DEFINE n == (a + i) % m
<1>1. n = (IF a + i < m THEN a + i ELSE a + i - m) /\ n \in 0..(m - 1)
  <2>1. a \in 0..m
    OBVIOUS
  <2>2. n = IF a + i < m THEN a + i ELSE a + i - m
    BY <2>1, ModSum
  <2> HIDE DEF n
  <2> QED
    BY <2>2
<1> HIDE DEF n
<1>2. (n + 1) % m = IF n + 1 < m THEN n + 1 ELSE 0
  BY <1>1, NextIndex
<1>3. (a + (i + 1)) % m = IF a + i + 1 < m THEN a + i + 1 ELSE a + i + 1 - m
  <2>1. PICK b \in 0..m : b = a + 1
    OBVIOUS
  <2>2. (b + i) % m = IF b + i < m THEN b + i ELSE b + i - m
    BY ModSum
  <2>3. b + i = a + (i + 1) /\ b + i = a + i + 1
    BY <2>1
  <2> QED
    BY <2>2, <2>3
<1> QED
  BY <1>1, <1>2, <1>3 DEF n

\* Fewer than m steps from one slot, different numbers end in different slots.
LEMMA DistinctSlots ==
  ASSUME NEW m \in Nat \ {0}, NEW a \in 0..(m - 1),
         NEW i \in 0..(m - 1), NEW j \in 0..(m - 1), i # j
  PROVE  (a + i) % m # (a + j) % m
<1>0. a \in 0..m
  OBVIOUS
<1>1. (a + i) % m = IF a + i < m THEN a + i ELSE a + i - m
  BY <1>0, ModSum
<1>2. (a + j) % m = IF a + j < m THEN a + j ELSE a + j - m
  BY <1>0, ModSum
<1> QED
  BY <1>1, <1>2

-----------------------------------------------------------------------------
(* Structure                                                               *)

\* The initial states.
LEMMA StructureInit == Init => Structure
BY BlockQueueAssumption
   DEF Init, Structure, TypeOK, Mutex, Critical, Blocked, Operation, Room, Threads

\* The parts of Structure, and the assumption, are what each step needs.
LEMMA StructureNext == Structure /\ [Next]_vars => Structure'
<1> SUFFICES ASSUME Structure, [Next]_vars PROVE Structure'
  OBVIOUS
<1> USE BlockQueueAssumption
    DEF Structure, TypeOK, Mutex, Critical, Blocked, Operation, Room
<1> USE DEF arrayVars, syncVars
<1>1. ASSUME NEW t \in Threads, NEW x \in Items, CallPush(t, x) PROVE Structure'
  BY <1>1 DEF CallPush
<1>2. ASSUME NEW t \in Threads, NEW kind \in {"pop", "timed_pop"}, CallPop(t, kind)
      PROVE Structure'
  BY <1>2 DEF CallPop
<1>3. ASSUME NEW t \in Threads, Lock(t) PROVE Structure'
  BY <1>3 DEF Lock, Threads
<1>4. ASSUME NEW t \in Threads, PushFull(t) PROVE Structure'
  BY <1>4 DEF PushFull, Return, Threads
<1>5. ASSUME NEW t \in Threads, PushSlot(t) PROVE Structure'
  BY <1>5, m_back + 1 \in Int, ModRange DEF PushSlot, Slots
<1>6. ASSUME NEW t \in Threads, PushStore(t) PROVE Structure'
  <2>1. m_mutex = t /\ m_size < MaxSize /\ item[t] \in Items
    BY <1>6 DEF PushStore
  <2>2. m_size' = m_size + 1 /\ m_array' = [m_array EXCEPT ![m_back] = item[t]]
    BY <1>6 DEF PushStore
  <2>3. m_size \in 0..MaxSize /\ MaxSize \in Nat /\ m_array \in [Slots -> Items \cup {NULL}]
    OBVIOUS
  <2>4. m_size' \in 0..MaxSize
    BY <2>3, <2>2, <2>1
  <2>5. m_array' \in [Slots -> Items \cup {NULL}]
    BY ONLY <2>3, <2>2, <2>1
  <2>6. m_size' \in 0..MaxSize /\ m_array' \in [Slots -> Items \cup {NULL}]
    BY <2>4, <2>5
  <2>7. pc' = [u \in Threads |->
                 IF u = t THEN "idle" ELSE IF u \in m_cond THEN "relock" ELSE pc[u]]
    BY <1>6 DEF PushStore, Return
  <2>8. \A u \in Threads : u # t => pc[u] \notin Critical
    BY <2>1
  <2>9. TypeOK'
    BY <1>6, <2>6, <2>7 DEF PushStore, Return
  <2>10. Mutex' /\ Blocked' /\ Room'
    BY <1>6, <2>7, <2>8 DEF PushStore, Return, Threads
  <2>11. Operation'
    BY <1>6, <2>7 DEF PushStore, Return, Threads
  <2> QED
    BY <2>9, <2>10, <2>11
<1>7. ASSUME NEW t \in Threads, PopWait(t) PROVE Structure'
  BY <1>7 DEF PopWait, Threads
<1>8. ASSUME NEW t \in Threads, SpuriousWakeup(t) PROVE Structure'
  BY <1>8 DEF SpuriousWakeup
<1>9. ASSUME NEW t \in Threads, Timeout(t) PROVE Structure'
  BY <1>9 DEF Timeout
<1>10. ASSUME NEW t \in Threads, TimedPopFails(t) PROVE Structure'
  BY <1>10 DEF TimedPopFails, Return, Threads
<1>11. ASSUME NEW t \in Threads, PopFront(t) PROVE Structure'
  BY <1>11, m_front + 1 \in Int, ModRange DEF PopFront, Slots
<1>12. ASSUME NEW t \in Threads, PopTake(t) PROVE Structure'
  <2>1. m_mutex = t /\ m_size > 0 /\ op[t] \in {"pop", "timed_pop"}
    BY <1>12 DEF PopTake
  <2>2. m_size' \in 0..MaxSize
    BY <1>12, <2>1 DEF PopTake
  <2>3. pc' = [pc EXCEPT ![t] = "idle"] /\ m_cond' = m_cond
    BY <1>12 DEF PopTake, Return
  <2>4. \A u \in Threads : u # t => pc[u] \notin Critical
    BY <2>1
  <2>5. item' \in [Threads -> Items \cup {NULL}]
    BY <1>12, m_array[m_front] \in Items \cup {NULL} DEF PopTake
  <2>6. TypeOK'
    BY <1>12, <2>2, <2>3, <2>5 DEF PopTake, Return
  <2>7. Mutex' /\ Blocked' /\ Room'
    BY <1>12, <2>3, <2>4 DEF PopTake, Return, Threads
  <2>8. Operation'
    BY <1>12, <2>1, <2>3 DEF PopTake, Return, Threads
  <2> QED
    BY <2>6, <2>7, <2>8
<1>13. ASSUME UNCHANGED vars PROVE Structure'
  BY <1>13 DEF vars
<1> QED
  BY <1>1, <1>2, <1>3, <1>4, <1>5, <1>6, <1>7, <1>8, <1>9, <1>10, <1>11, <1>12, <1>13
     DEF Next, Step

-----------------------------------------------------------------------------
(* No lost wake-up                                                         *)

\* Only a consumer that sees an empty queue joins the condition variable, and
\* a store empties it.
LEMMA NoSleeperNext ==
  Structure /\ NoSleeperWithItems /\ [Next]_vars => NoSleeperWithItems'
<1> SUFFICES ASSUME Structure, NoSleeperWithItems, [Next]_vars
             PROVE  NoSleeperWithItems'
  OBVIOUS
<1> USE DEF NoSleeperWithItems, arrayVars, syncVars
<1>0. m_size \in 0..MaxSize /\ MaxSize \in Nat
  BY BlockQueueAssumption DEF Structure, TypeOK
<1>1. ASSUME NEW t \in Threads, PopWait(t) PROVE m_size' = 0
  BY <1>0, <1>1 DEF PopWait
<1>2. ASSUME NEW t \in Threads, PopTake(t) PROVE m_cond' = {}
  <2>1. m_size > 0 /\ m_cond' = m_cond
    BY <1>2 DEF PopTake, Return, Structure, Room
  <2> QED
    BY <2>1, <1>0
<1>3. ASSUME NEW t \in Threads, PushFull(t) \/ PushStore(t) PROVE m_cond' = {}
  BY <1>3 DEF PushFull, PushStore, Return
<1>4. ASSUME NEW t \in Threads,
             \/ \E x \in Items : CallPush(t, x)
             \/ \E kind \in {"pop", "timed_pop"} : CallPop(t, kind)
             \/ Lock(t) \/ PushSlot(t) \/ TimedPopFails(t) \/ PopFront(t)
             \/ SpuriousWakeup(t) \/ Timeout(t)
      PROVE m_size' = m_size /\ m_cond' \subseteq m_cond
  BY <1>4
     DEF CallPush, CallPop, Lock, PushSlot, TimedPopFails, Return, PopFront,
         SpuriousWakeup, Timeout
<1>5. ASSUME UNCHANGED vars PROVE m_size' = m_size /\ m_cond' \subseteq m_cond
  BY <1>5 DEF vars
<1> QED
  BY <1>1, <1>2, <1>3, <1>4, <1>5 DEF Next, Step

-----------------------------------------------------------------------------
(* The indices and the abstract queue                                      *)

\* The queue of the refinement mapping.
Queue == [i \in 1..m_size |-> m_array[(Oldest + i - 1) % MaxSize]]

\* Only one thread at a time is in a critical section.
LEMMA OneCritical ==
  ASSUME Structure, NEW t \in Threads, pc[t] \in Critical,
         NEW u \in Threads, u # t
  PROVE  pc[u] \notin Critical
BY DEF Structure, Mutex

\* The oldest item, or the next to come, is at an index of the array.
LEMMA OldestIsSlot == Structure => Oldest \in Slots
<1> SUFFICES ASSUME Structure PROVE Oldest \in Slots
  OBVIOUS
<1>1. CASE \E t \in Threads : pc[t] = "take"
  BY <1>1 DEF Oldest, Structure, Room
<1>2. CASE ~ \E t \in Threads : pc[t] = "take"
  <2>1. m_front + 1 \in Int /\ MaxSize \in Nat \ {0}
    BY BlockQueueAssumption DEF Structure, TypeOK, Slots
  <2> QED
    BY <1>2, <2>1, ModRange DEF Oldest, Slots
<1> QED
  BY <1>1, <1>2

\* It is a sequence of m_size items.
LEMMA LengthOfQueue ==
  ASSUME Structure
  PROVE  Queue \in Seq(Items \cup {NULL}) /\ Len(Queue) = m_size
<1>1. m_size \in Nat /\ MaxSize \in Nat \ {0} /\ Oldest \in Int
  BY BlockQueueAssumption, OldestIsSlot DEF Structure, TypeOK, Slots
<1>2. ASSUME NEW i \in 1..m_size
      PROVE  m_array[(Oldest + i - 1) % MaxSize] \in Items \cup {NULL}
  <2>1. (Oldest + i - 1) % MaxSize \in Slots
    BY <1>1, ModRange DEF Slots
  <2> QED
    BY <2>1 DEF Structure, TypeOK
<1> QED
  BY <1>1, <1>2 DEF Queue

\* The four steps that touch the array or its indices.
ArrayStep(t) == PushSlot(t) \/ PushStore(t) \/ PopFront(t) \/ PopTake(t)

\* Every other step leaves both slots where they are.
LEMMA OthersLeaveArray ==
  ASSUME Structure, [Next]_vars, ~ \E t \in Threads : ArrayStep(t)
  PROVE  Oldest' = Oldest /\ NextFree' = NextFree /\ UNCHANGED arrayVars
<1> DEFINE Same == /\ UNCHANGED arrayVars
                   /\ \A u \in Threads : pc'[u] = "take" <=> pc[u] = "take"
                   /\ \A u \in Threads : pc'[u] = "store" <=> pc[u] = "store"
<1> USE DEF Structure, TypeOK, Blocked, Mutex, Operation, Critical
<1>1. ASSUME NEW t \in Threads, NEW x \in Items, CallPush(t, x) PROVE Same
  BY <1>1 DEF CallPush
<1>2. ASSUME NEW t \in Threads, NEW kind \in {"pop", "timed_pop"}, CallPop(t, kind)
      PROVE Same
  BY <1>2 DEF CallPop
<1>3. ASSUME NEW t \in Threads, Lock(t) PROVE Same
  BY <1>3 DEF Lock
<1>4. ASSUME NEW t \in Threads, PushFull(t) PROVE Same
  BY <1>4 DEF PushFull, Return, Threads
<1>5. ASSUME NEW t \in Threads, PopWait(t) PROVE Same
  BY <1>5 DEF PopWait
<1>6. ASSUME NEW t \in Threads, SpuriousWakeup(t) \/ Timeout(t) PROVE Same
  BY <1>6 DEF SpuriousWakeup, Timeout
<1>7. ASSUME NEW t \in Threads, TimedPopFails(t) PROVE Same
  BY <1>7 DEF TimedPopFails, Return, Threads
<1>8. ASSUME UNCHANGED vars PROVE Same
  BY <1>8 DEF vars, arrayVars
<1>9. Same
  BY <1>1, <1>2, <1>3, <1>4, <1>5, <1>6, <1>7, <1>8 DEF Next, Step, ArrayStep
<1> QED
  BY <1>9 DEF Oldest, NextFree, arrayVars

\* push() moves m_back to the slot that was next to fill: nothing else changes.
LEMMA PushSlotArray ==
  ASSUME Structure, NEW t \in Threads, PushSlot(t)
  PROVE  Oldest' = Oldest /\ NextFree' = NextFree /\ m_size' = m_size /\ m_array' = m_array
<1>1. pc'[t] = "store" /\ \A u \in Threads : u # t => pc'[u] = pc[u]
  BY DEF PushSlot, Structure, TypeOK
<1>2. pc[t] = "body" /\ m_front' = m_front /\ m_back' = (m_back + 1) % MaxSize
  BY DEF PushSlot
<1>3. \A u \in Threads : pc[u] # "store"
  BY <1>2, OneCritical DEF Critical
<1>4. Oldest' = Oldest
  BY <1>1, <1>2 DEF Oldest
<1>5. NextFree' = NextFree
  BY <1>1, <1>2, <1>3 DEF NextFree
<1> QED
  BY <1>4, <1>5 DEF PushSlot

\* pop() moves m_front to the oldest item: it stays the oldest.
LEMMA PopFrontArray ==
  ASSUME Structure, NEW t \in Threads, PopFront(t)
  PROVE  Oldest' = Oldest /\ NextFree' = NextFree /\ m_size' = m_size /\ m_array' = m_array
<1>1. pc'[t] = "take" /\ \A u \in Threads : u # t => pc'[u] = pc[u]
  BY DEF PopFront, Structure, TypeOK
<1>2. pc[t] \in {"body", "woken"} /\ m_back' = m_back /\ m_front' = (m_front + 1) % MaxSize
  BY DEF PopFront
<1>3. \A u \in Threads : pc[u] # "take"
  BY <1>2, OneCritical DEF Critical
<1>4. Oldest' = Oldest
  BY <1>1, <1>2, <1>3 DEF Oldest
<1>5. NextFree' = NextFree
  BY <1>1, <1>2 DEF NextFree
<1> QED
  BY <1>4, <1>5 DEF PopFront

\* A store fills the slot after the last item and is an Append.
LEMMA PushStoreArray ==
  ASSUME Structure, Indices, NEW t \in Threads, PushStore(t)
  PROVE  /\ NextFree' = (Oldest' + m_size') % MaxSize
         /\ m_size < MaxSize /\ m_size' = m_size + 1
         /\ Queue' = Append(Queue, item[t])
<1> USE BlockQueueAssumption
<1>1. pc[t] = "store" /\ m_size < MaxSize /\ m_size \in 0..(MaxSize - 1) /\ m_back \in Slots
  BY DEF PushStore, Structure, TypeOK, Room
<1>2. m_array' = [m_array EXCEPT ![m_back] = item[t]] /\ m_size' = m_size + 1
  BY DEF PushStore
<1>3. m_front' = m_front /\ m_back' = m_back
  BY DEF PushStore
<1>4. \A u \in Threads : pc[u] # "take"
  BY <1>1, OneCritical DEF Critical
<1>5. \A u \in Threads : pc'[u] \notin {"take", "store"}
  <2>1. \A u \in Threads : u # t => pc[u] \notin {"take", "store"}
    BY <1>1, OneCritical DEF Critical
  <2>2. pc' = [u \in Threads |->
                 IF u = t THEN "idle" ELSE IF u \in m_cond THEN "relock" ELSE pc[u]]
    BY DEF PushStore, Return
  <2> QED
    BY <2>1, <2>2
<1>6. Oldest' = Oldest /\ Oldest \in 0..(MaxSize - 1)
  BY <1>3, <1>4, <1>5, OldestIsSlot DEF Oldest, Slots
<1>7. m_back = (Oldest + m_size) % MaxSize
  BY <1>1 DEF Indices, NextFree
<1>8. NextFree' = (m_back + 1) % MaxSize
  BY <1>3, <1>5 DEF NextFree
<1>9. NextFree' = (Oldest' + m_size') % MaxSize
  BY <1>1, <1>2, <1>6, <1>7, <1>8, OneSlotMore
<1>10. Queue' = Append(Queue, item[t])
  <2>1. ASSUME NEW i \in 1..m_size
        PROVE  m_array'[(Oldest' + i - 1) % MaxSize] = m_array[(Oldest + i - 1) % MaxSize]
    <3>1. i - 1 \in 0..(MaxSize - 1) /\ i - 1 # m_size /\ Oldest + i - 1 = Oldest + (i - 1)
      BY <1>1, <1>6
    <3>2. (Oldest + (i - 1)) % MaxSize # m_back
      BY <1>1, <1>6, <1>7, <3>1, DistinctSlots
    <3>3. (Oldest + (i - 1)) % MaxSize \in Slots
      BY <1>6, <3>1, ModRange DEF Slots
    <3> QED
      BY <1>2, <1>6, <3>1, <3>2, <3>3 DEF Structure, TypeOK
  <2>2. m_array'[(Oldest' + (m_size + 1) - 1) % MaxSize] = item[t]
    <3>1. Oldest + (m_size + 1) - 1 = Oldest + m_size
      BY <1>1, <1>6
    <3> QED
      BY <1>1, <1>2, <1>6, <1>7, <3>1 DEF Structure, TypeOK
  <2>3. Queue' = [i \in 1..(m_size + 1) |-> m_array'[(Oldest' + i - 1) % MaxSize]]
    BY <1>2 DEF Queue
  <2>4. \A i \in 1..m_size : Queue[i] = m_array[(Oldest + i - 1) % MaxSize]
    BY DEF Queue
  <2>5. Queue' = [i \in 1..(m_size + 1) |-> IF i <= m_size THEN Queue[i] ELSE item[t]]
    BY <1>1, <2>1, <2>2, <2>3, <2>4
  <2>6. item[t] \in Items \cup {NULL}
    BY DEF Structure, TypeOK
  <2>7. Queue \in Seq(Items \cup {NULL}) /\ Len(Queue) = m_size
    BY LengthOfQueue
  <2> HIDE DEF Queue
  <2> QED
    BY <2>5, <2>6, <2>7
<1> QED
  BY <1>1, <1>2, <1>9, <1>10

\* A take empties the slot of the oldest item and is a Head and a Tail.
LEMMA PopTakeArray ==
  ASSUME Structure, Indices, NEW t \in Threads, PopTake(t)
  PROVE  /\ NextFree' = (Oldest' + m_size') % MaxSize
         /\ m_size > 0 /\ m_size' = m_size - 1
         /\ m_array[m_front] = Head(Queue)
         /\ Queue' = Tail(Queue)
<1> USE BlockQueueAssumption
<1>1. pc[t] = "take" /\ m_size > 0 /\ m_size - 1 \in 0..(MaxSize - 1) /\ m_front \in Slots
  BY DEF PopTake, Structure, TypeOK, Room
<1>2. m_array' = m_array /\ m_size' = m_size - 1 /\ m_front' = m_front /\ m_back' = m_back
  BY DEF PopTake
<1>3. \A u \in Threads : pc[u] # "store"
  BY <1>1, OneCritical DEF Critical
<1>4. \A u \in Threads : pc'[u] \notin {"take", "store"}
  <2>1. \A u \in Threads : u # t => pc[u] \notin {"take", "store"}
    BY <1>1, OneCritical DEF Critical
  <2>2. pc' = [u \in Threads |-> IF u = t THEN "idle" ELSE IF u \in {} THEN "relock" ELSE pc[u]]
    BY DEF PopTake, Return
  <2> QED
    BY <2>1, <2>2
<1>5. Oldest = m_front /\ Oldest' = (m_front + 1) % MaxSize
  BY <1>1, <1>2, <1>4 DEF Oldest
<1>6. NextFree' = NextFree
  BY <1>2, <1>3, <1>4 DEF NextFree
<1>7. m_front \in 0..(MaxSize - 1) /\ m_size \in Nat
  BY <1>1 DEF Slots, Structure, TypeOK
<1>8. NextFree' = (Oldest' + m_size') % MaxSize
  <2>1. (Oldest' + (m_size - 1)) % MaxSize = (m_front + 1 + (m_size - 1)) % MaxSize
    BY <1>1, <1>5, <1>7, NextSlot
  <2>2. m_front + 1 + (m_size - 1) = m_front + m_size
    BY <1>7
  <2> QED
    BY <1>2, <1>5, <1>6, <2>1, <2>2 DEF Indices
<1>9. m_array[m_front] = Queue[1]
  <2>1. m_front + 1 - 1 = m_front /\ m_front % MaxSize = m_front /\ 1 \in 1..m_size
    BY <1>1, <1>7, ModSmall
  <2> QED
    BY <1>5, <2>1 DEF Queue
<1>10. Queue' = Tail(Queue)
  <2>1. ASSUME NEW i \in 1..(m_size - 1)
        PROVE  m_array'[(Oldest' + i - 1) % MaxSize] = Queue[i + 1]
    <3>1. i - 1 \in 0..(MaxSize - 1)
      BY <1>1
    <3>2. Oldest' \in Int
      BY <1>5, <1>7, ModRange
    <3>3. (Oldest' + (i - 1)) % MaxSize = (m_front + 1 + (i - 1)) % MaxSize
      BY <1>5, <1>7, <3>1, NextSlot
    <3>4. /\ Oldest' + i - 1 = Oldest' + (i - 1)
          /\ m_front + 1 + (i - 1) = m_front + (i + 1) - 1
          /\ i + 1 \in 1..m_size
      BY <1>7, <3>2
    <3>5. Queue[i + 1] = m_array[(m_front + (i + 1) - 1) % MaxSize]
      BY <1>5, <3>4 DEF Queue
    <3> QED
      BY <1>2, <3>3, <3>4, <3>5
  <2>2. Queue' = [i \in 1..(m_size - 1) |-> m_array'[(Oldest' + i - 1) % MaxSize]]
    BY <1>2 DEF Queue
  <2>3. Queue' = [i \in 1..(m_size - 1) |-> Queue[i + 1]]
    BY <2>1, <2>2
  <2>4. Queue \in Seq(Items \cup {NULL}) /\ Len(Queue) = m_size
    BY LengthOfQueue
  <2>5. /\ Tail(Queue) \in Seq(Items \cup {NULL}) /\ Len(Tail(Queue)) = m_size - 1
        /\ \A i \in 1..(m_size - 1) : Tail(Queue)[i] = Queue[i + 1]
    BY <1>1, <1>7, <2>4
  <2>6. Queue' \in Seq(Items \cup {NULL}) /\ Len(Queue') = m_size - 1
    <3>1. \A i \in 1..(m_size - 1) : Queue[i + 1] \in Items \cup {NULL}
      BY <1>7, <2>4
    <3> QED
      BY <1>1, <2>3, <3>1
  <2>7. \A i \in 1..(m_size - 1) : Queue'[i] = Queue[i + 1]
    BY <2>3
  <2> QED
    BY <2>5, <2>6, <2>7, SeqEqual
<1>11. Head(Queue) = Queue[1]
  <2> HIDE DEF Queue
  <2> QED
    BY <1>1, LengthOfQueue
<1> QED
  BY <1>1, <1>2, <1>8, <1>9, <1>10, <1>11

\* The first item goes to slot 0.
LEMMA IndicesInit == Init => Indices
<1> SUFFICES ASSUME Init PROVE Indices
  OBVIOUS
<1>1. NextFree = 0 % MaxSize /\ Oldest = 0 % MaxSize /\ m_size = 0
  BY DEF Init, NextFree, Oldest
<1>2. 0 % MaxSize = 0
  BY BlockQueueAssumption, ModSmall
<1> QED
  BY <1>1, <1>2 DEF Indices

\* The four steps on the array keep the distance, the others do not touch it.
LEMMA IndicesNext == Structure /\ Indices /\ [Next]_vars => Indices'
<1> SUFFICES ASSUME Structure, Indices, [Next]_vars PROVE Indices'
  OBVIOUS
<1>1. ASSUME NEW t \in Threads, PushSlot(t) \/ PopFront(t) PROVE Indices'
  BY <1>1, PushSlotArray, PopFrontArray DEF Indices
<1>2. ASSUME NEW t \in Threads, PushStore(t) \/ PopTake(t) PROVE Indices'
  BY <1>2, PushStoreArray, PopTakeArray DEF Indices
<1>3. ASSUME ~ \E t \in Threads : ArrayStep(t) PROVE Indices'
  BY <1>3, OthersLeaveArray DEF Indices, arrayVars
<1> QED
  BY <1>1, <1>2, <1>3 DEF ArrayStep

-----------------------------------------------------------------------------
(* Theorems about the invariants                                           *)

\* The inductive invariant.
THEOREM Invariance == Spec => []Inv
<1>1. Init => Inv
  BY StructureInit, IndicesInit DEF Inv, Init, NoSleeperWithItems
<1>2. Inv /\ [Next]_vars => Inv'
  BY StructureNext, IndicesNext, NoSleeperNext DEF Inv
<1> QED
  BY <1>1, <1>2, PTL DEF Spec

\* The members of block_queue and the locals of push() and pop() have their
\* types, and the number of items never leaves 0..m_max_size.
THEOREM TypeCorrect == Spec => []TypeOK
<1>1. Inv => TypeOK
  BY DEF Inv, Structure
<1> QED
  BY Invariance, <1>1, PTL

\* No wake-up of push() is lost: nobody sleeps in pop() while there are items.
THEOREM NoLostWakeup == Spec => []NoSleeperWithItems
<1>1. Inv => NoSleeperWithItems
  BY DEF Inv
<1> QED
  BY Invariance, <1>1, PTL

-----------------------------------------------------------------------------
(* The circular array implements a bounded first-in first-out queue        *)

\* The empty array is the empty queue.
LEMMA RefinementInit == Init => Abstract!Init
<1> SUFFICES ASSUME Init PROVE Abstract!Init
  OBVIOUS
<1>1. Queue = <<>>
  BY DEF Init, Queue
<1> QED
  BY <1>1 DEF Init, Abstract!Init, Queue

\* push() and pop() touch the abstract queue where they touch m_size; a call
\* and a return of false are steps of their own, and everything else (the mutex,
\* the index, the wait, the wake-ups) is invisible.
LEMMA RefinementNext ==
  Structure /\ Indices /\ [Next]_vars => [Abstract!Next]_(Abstract!vars)
<1> SUFFICES ASSUME Structure, Indices, [Next]_vars
             PROVE  [Abstract!Next]_(Abstract!vars)
  OBVIOUS
<1> USE BlockQueueAssumption
<1> USE DEF Abstract!vars, arrayVars, syncVars
<1>1. Queue \in Seq(Items \cup {NULL}) /\ Len(Queue) = m_size /\ m_size \in 0..MaxSize
  BY LengthOfQueue DEF Structure, TypeOK
<1>2. ASSUME NEW t \in Threads, PushSlot(t) \/ PopFront(t) PROVE UNCHANGED Abstract!vars
  <2>1. Queue' = Queue
    BY <1>2, PushSlotArray, PopFrontArray DEF Queue
  <2> QED
    BY <1>2, <2>1 DEF Queue, PushSlot, PopFront
<1>3. ASSUME NEW t \in Threads, PushStore(t) PROVE Abstract!Push(t)
  <2>1. op[t] = "push" /\ item' = item
    BY <1>3 DEF PushStore, Structure, Operation
  <2>2. op' = [op EXCEPT ![t] = "none"] /\ result' = [result EXCEPT ![t] = TRUE]
    BY <1>3 DEF PushStore, Return
  <2>3. Len(Queue) < MaxSize /\ Queue' = Append(Queue, item[t])
    BY <1>1, <1>3, PushStoreArray
  <2> QED
    BY <2>1, <2>2, <2>3 DEF Abstract!Push, Abstract!Return, Queue
<1>4. ASSUME NEW t \in Threads, PopTake(t) PROVE Abstract!Pop(t)
  <2>1. op[t] \in {"pop", "timed_pop"}
    BY <1>4 DEF PopTake, Structure, Operation
  <2>2. op' = [op EXCEPT ![t] = "none"] /\ result' = [result EXCEPT ![t] = TRUE]
    BY <1>4 DEF PopTake, Return
  <2>3. Queue # <<>> /\ Queue' = Tail(Queue) /\ m_array[m_front] = Head(Queue)
    BY <1>1, <1>4, PopTakeArray
  <2>4. item' = [item EXCEPT ![t] = Head(Queue)]
    BY <1>4, <2>3 DEF PopTake
  <2> QED
    BY <2>1, <2>2, <2>3, <2>4 DEF Abstract!Pop, Abstract!Return, Queue
<1>5. ASSUME ~ \E t \in Threads : ArrayStep(t)
      PROVE  [Abstract!Next]_(Abstract!vars)
  <2>1. Queue' = Queue
    BY <1>5, OthersLeaveArray DEF Queue
  <2>2. ASSUME NEW t \in Threads, NEW x \in Items, CallPush(t, x) PROVE Abstract!Call(t)
    <3>1. op[t] = "none" /\ x # NULL
      BY <2>2 DEF CallPush, Structure, Operation
    <3>2. /\ op' = [op EXCEPT ![t] = "push"]
          /\ item' = [item EXCEPT ![t] = x]
          /\ result' = [result EXCEPT ![t] = TRUE]
      BY <2>2 DEF CallPush
    <3>3. op'[t] = "push" /\ item'[t] = x
      BY <3>2 DEF Structure, TypeOK
    <3> QED
      BY <2>1, <3>1, <3>2, <3>3 DEF Abstract!Call, Queue
  <2>3. ASSUME NEW t \in Threads, NEW kind \in {"pop", "timed_pop"}, CallPop(t, kind)
        PROVE  Abstract!Call(t)
    <3>1. op[t] = "none"
      BY <2>3 DEF CallPop, Structure, Operation
    <3>2. /\ op' = [op EXCEPT ![t] = kind]
          /\ item' = [item EXCEPT ![t] = NULL]
          /\ result' = [result EXCEPT ![t] = TRUE]
      BY <2>3 DEF CallPop
    <3>3. op'[t] = kind /\ item'[t] = NULL
      BY <3>2 DEF Structure, TypeOK
    <3> QED
      BY <2>1, <3>1, <3>2, <3>3 DEF Abstract!Call, Queue
  <2>4. ASSUME NEW t \in Threads, PushFull(t) PROVE Abstract!PushFull(t)
    <3>1. Len(Queue) = MaxSize
      BY <1>1, <2>4 DEF PushFull
    <3> QED
      BY <2>1, <2>4, <3>1 DEF PushFull, Return, Abstract!PushFull, Abstract!Return, Queue
  <2>5. ASSUME NEW t \in Threads, TimedPopFails(t) PROVE Abstract!GiveUp(t)
    <3>1. op[t] = "timed_pop"
      BY <2>5 DEF TimedPopFails, Structure, Operation
    <3> QED
      BY <2>1, <2>5, <3>1 DEF TimedPopFails, Return, Abstract!GiveUp, Abstract!Return, Queue
  <2>6. ASSUME NEW t \in Threads,
               Lock(t) \/ PopWait(t) \/ SpuriousWakeup(t) \/ Timeout(t)
        PROVE  UNCHANGED Abstract!vars
    BY <2>1, <2>6 DEF Lock, PopWait, SpuriousWakeup, Timeout, Queue
  <2>7. ASSUME UNCHANGED vars PROVE UNCHANGED Abstract!vars
    BY <2>1, <2>7 DEF vars, Queue
  <2> QED
    BY <1>5, <2>2, <2>3, <2>4, <2>5, <2>6, <2>7 DEF Next, Step, ArrayStep, Abstract!Next
<1> QED
  BY <1>2, <1>3, <1>4, <1>5 DEF ArrayStep, Abstract!Next

\* The circular array, its mutex and its condition variable behave like a
\* bounded first-in first-out queue: no item is lost, duplicated or overtaken, a
\* push fails only on a full queue, and a pop that gives up takes nothing.
THEOREM Implements == Spec => ImplementsBoundedFifo
<1>1. Inv /\ [Next]_vars => [Abstract!Next]_(Abstract!vars)
  BY RefinementNext DEF Inv
<1> QED
  BY Invariance, RefinementInit, <1>1, PTL DEF Spec, ImplementsBoundedFifo, Abstract!Spec
=============================================================================
