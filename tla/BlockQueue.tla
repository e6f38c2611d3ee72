----------------------------- MODULE BlockQueue -----------------------------
(***************************************************************************)
(* block_queue<T> (log/block_queue.h): a circular array under a mutex,     *)
(* with one condition variable for the threads that wait for an item.      *)
(* push(), pop() and the pop() with a timeout are split where another      *)
(* thread can run; inside the critical sections the index and the item are *)
(* separate steps, so that the mutex has something to protect.             *)
(*                                                                         *)
(* pthread_cond_wait may wake up for no reason, and a timed wait may time  *)
(* out at any moment: the code computes the nanoseconds of the deadline a  *)
(* thousand times too small, so it may even lie in the past.               *)
(***************************************************************************)
EXTENDS Integers, Sequences, FiniteSets

CONSTANTS
  Producers, Consumers,  \* the threads that push and the threads that pop
  Items,                 \* the items
  NULL,                  \* no item; also "no thread owns the mutex"
  MaxSize,               \* m_max_size
  MaxPushes              \* bound: how many times push() is called

ASSUME BlockQueueAssumption ==
  /\ IsFiniteSet(Producers \cup Consumers)
  /\ Producers \cap Consumers = {}
  /\ NULL \notin Items \cup Producers \cup Consumers
  /\ MaxSize \in Nat \ {0}
  /\ MaxPushes \in Nat

Threads == Producers \cup Consumers

VARIABLES
  m_array, m_size, m_front, m_back,  \* the members of block_queue
  m_mutex,                           \* the thread that owns the mutex, or NULL
  m_cond,                            \* the threads blocked on the condition
  pc,                                \* where each thread is in its operation
  op,                                \* the operation each thread is in
  item,                              \* the parameter "item" of the operation
  result,                            \* what the last operation returned, TRUE during the next
  pushes                             \* how many times push() was called

arrayVars == <<m_array, m_size, m_front, m_back>>
syncVars == <<m_mutex, m_cond>>
vars == <<arrayVars, syncVars, pc, op, item, result, pushes>>

Slots == 0..(MaxSize - 1)

Init ==
  /\ m_array = [i \in Slots |-> NULL]
  /\ m_size = 0
  /\ m_front = -1
  /\ m_back = -1
  /\ m_mutex = NULL
  /\ m_cond = {}
  /\ pc = [t \in Threads |-> "idle"]
  /\ op = [t \in Threads |-> "none"]
  /\ item = [t \in Threads |-> NULL]
  /\ result = [t \in Threads |-> TRUE]
  /\ pushes = 0

-----------------------------------------------------------------------------
(* What the operations have in common                                      *)

\* A thread calls push(x) or one of the two pop().
CallPush(t, x) ==
  /\ t \in Producers
  /\ pc[t] = "idle"
  /\ pushes < MaxPushes
  /\ pushes' = pushes + 1
  /\ pc' = [pc EXCEPT ![t] = "lock"]
  /\ op' = [op EXCEPT ![t] = "push"]
  /\ item' = [item EXCEPT ![t] = x]
  /\ result' = [result EXCEPT ![t] = TRUE]
  /\ UNCHANGED <<arrayVars, syncVars>>

CallPop(t, kind) ==
  /\ t \in Consumers
  /\ pc[t] = "idle"
  /\ pc' = [pc EXCEPT ![t] = "lock"]
  /\ op' = [op EXCEPT ![t] = kind]
  /\ item' = [item EXCEPT ![t] = NULL]
  /\ result' = [result EXCEPT ![t] = TRUE]
  /\ UNCHANGED <<arrayVars, syncVars, pushes>>

\* pthread_mutex_lock, and the lock that a return from a wait takes again:
\* "relock" after a wake-up, "expired" after a timeout.
Lock(t) ==
  /\ m_mutex = NULL
  /\ \/ pc[t] = "lock" /\ pc' = [pc EXCEPT ![t] = "body"]
     \/ pc[t] = "relock" /\ pc' = [pc EXCEPT ![t] = "woken"]
     \/ pc[t] = "expired" /\ pc' = [pc EXCEPT ![t] = "timed_out"]
  /\ m_mutex' = t
  /\ UNCHANGED <<arrayVars, m_cond, op, item, result, pushes>>

\* pthread_mutex_unlock and return; woken are the threads that leave the
\* condition variable in the same step.
Return(t, ok, woken) ==
  /\ m_mutex' = NULL
  /\ m_cond' = m_cond \ woken
  /\ pc' = [u \in Threads |->
              IF u = t THEN "idle" ELSE IF u \in woken THEN "relock" ELSE pc[u]]
  /\ op' = [op EXCEPT ![t] = "none"]
  /\ result' = [result EXCEPT ![t] = ok]

-----------------------------------------------------------------------------
(* bool push(const T &item)                                                *)

\* The queue is full: broadcast, unlock, return false.
PushFull(t) ==
  /\ pc[t] = "body"
  /\ op[t] = "push"
  /\ m_size >= MaxSize
  /\ Return(t, FALSE, m_cond)
  /\ UNCHANGED <<arrayVars, item, pushes>>

\* Mutant: the capacity test is off by one.
PushSlotOffByOne(t) ==
  /\ pc[t] = "body"
  /\ op[t] = "push"
  /\ m_size <= MaxSize
  /\ m_back' = (m_back + 1) % MaxSize
  /\ pc' = [pc EXCEPT ![t] = "store"]
  /\ UNCHANGED <<m_array, m_size, m_front, syncVars, op, item, result, pushes>>

PushSlot(t) ==
  /\ pc[t] = "body"
  /\ op[t] = "push"
  /\ m_size < MaxSize
  /\ m_back' = (m_back + 1) % MaxSize
  /\ pc' = [pc EXCEPT ![t] = "store"]
  /\ UNCHANGED <<m_array, m_size, m_front, syncVars, op, item, result, pushes>>

\* Mutant: the waiting threads are not woken.
PushStoreSilent(t) ==
  /\ pc[t] = "store"
  /\ m_array' = [m_array EXCEPT ![m_back] = item[t]]
  /\ m_size' = m_size + 1
  /\ Return(t, TRUE, {})
  /\ UNCHANGED <<m_front, m_back, item, pushes>>

\* m_array[m_back] = item, m_size++, broadcast, unlock, return true.
PushStore(t) ==
  /\ pc[t] = "store"
  /\ m_array' = [m_array EXCEPT ![m_back] = item[t]]
  /\ m_size' = m_size + 1
  /\ Return(t, TRUE, m_cond)
  /\ UNCHANGED <<m_front, m_back, item, pushes>>

-----------------------------------------------------------------------------
(* bool pop(T &item) and bool pop(T &item, int ms_timeout)                 *)

\* pthread_cond_wait or pthread_cond_timedwait.  pop() tests m_size again
\* after each wake-up, the timed pop() waits once.  An error return (lines
\* 77-81, pop() returns false) is left out: EINVAL and EPERM are for an invalid
\* condition variable and for a mutex the caller does not own.
PopWait(t) ==
  /\ \/ pc[t] = "body" /\ op[t] \in {"pop", "timed_pop"}
     \/ pc[t] = "woken" /\ op[t] = "pop"
  /\ m_size <= 0
  /\ m_mutex' = NULL
  /\ m_cond' = m_cond \cup {t}
  /\ pc' = [pc EXCEPT ![t] = "waiting"]
  /\ UNCHANGED <<arrayVars, op, item, result, pushes>>

\* A wake-up that no push caused.
SpuriousWakeup(t) ==
  /\ pc[t] = "waiting"
  /\ m_cond' = m_cond \ {t}
  /\ pc' = [pc EXCEPT ![t] = "relock"]
  /\ UNCHANGED <<arrayVars, m_mutex, op, item, result, pushes>>

\* pthread_cond_timedwait times out.
Timeout(t) ==
  /\ pc[t] = "waiting"
  /\ op[t] = "timed_pop"
  /\ m_cond' = m_cond \ {t}
  /\ pc' = [pc EXCEPT ![t] = "expired"]
  /\ UNCHANGED <<arrayVars, m_mutex, op, item, result, pushes>>

\* The timed pop() returns false: after a timeout without another look at the
\* queue, after a wake-up only when there is nothing.
TimedPopFails(t) ==
  /\ \/ pc[t] = "timed_out"
     \/ pc[t] = "woken" /\ op[t] = "timed_pop" /\ m_size <= 0
  /\ Return(t, FALSE, {})
  /\ UNCHANGED <<arrayVars, item, pushes>>

\* Mutant: pop() uses "if" where it needs "while": it does not look at m_size
\* again after a wake-up.
PopFrontUnchecked(t) ==
  /\ \/ pc[t] = "body" /\ m_size > 0
     \/ pc[t] = "woken"
  /\ op[t] \in {"pop", "timed_pop"}
  /\ m_front' = (m_front + 1) % MaxSize
  /\ pc' = [pc EXCEPT ![t] = "take"]
  /\ UNCHANGED <<m_array, m_size, m_back, syncVars, op, item, result, pushes>>

PopFront(t) ==
  /\ pc[t] \in {"body", "woken"}
  /\ op[t] \in {"pop", "timed_pop"}
  /\ m_size > 0
  /\ m_front' = (m_front + 1) % MaxSize
  /\ pc' = [pc EXCEPT ![t] = "take"]
  /\ UNCHANGED <<m_array, m_size, m_back, syncVars, op, item, result, pushes>>

\* item = m_array[m_front], m_size--, unlock, return true.
PopTake(t) ==
  /\ pc[t] = "take"
  /\ item' = [item EXCEPT ![t] = m_array[m_front]]
  /\ m_size' = m_size - 1
  /\ Return(t, TRUE, {})
  /\ UNCHANGED <<m_array, m_front, m_back, pushes>>

-----------------------------------------------------------------------------
Step(t) ==
  \/ Lock(t)
  \/ PushFull(t) \/ PushSlot(t) \/ PushStore(t)
  \/ PopWait(t) \/ TimedPopFails(t) \/ PopFront(t) \/ PopTake(t)

Next ==
  \E t \in Threads :
    \/ \E x \in Items : CallPush(t, x)
    \/ \E kind \in {"pop", "timed_pop"} : CallPop(t, kind)
    \/ Step(t)
    \/ SpuriousWakeup(t)
    \/ Timeout(t)

Spec == Init /\ [][Next]_vars

\* A thread inside an operation keeps running and gets the mutex at last; a
\* consumer calls pop() again and again, as Log::async_write_log does.
Fairness ==
  \A t \in Threads :
    /\ WF_vars(Step(t))
    /\ SF_vars(Lock(t))
    /\ WF_vars(\E kind \in {"pop", "timed_pop"} : CallPop(t, kind))

FairSpec == Spec /\ Fairness

-----------------------------------------------------------------------------
(* Properties *)

\* The type invariant; the size never leaves 0..m_max_size.
TypeOK ==
  /\ m_array \in [Slots -> Items \cup {NULL}]
  /\ m_size \in 0..MaxSize
  /\ m_front \in Slots \cup {-1}
  /\ m_back \in Slots \cup {-1}
  /\ m_mutex \in Threads \cup {NULL}
  /\ m_cond \subseteq Consumers
  /\ pc \in [Threads -> {"idle", "lock", "body", "store", "take", "waiting",
                         "relock", "woken", "expired", "timed_out"}]
  /\ op \in [Threads -> {"none", "push", "pop", "timed_pop"}]
  /\ item \in [Threads -> Items \cup {NULL}]
  /\ result \in [Threads -> BOOLEAN]
  /\ pushes \in 0..MaxPushes

\* No wake-up is lost: while a thread is blocked on the condition variable,
\* there is nothing in the queue for it.
NoSleeperWithItems == m_cond # {} => m_size = 0

\* The index of the oldest item: m_front is one behind it, except between the
\* two statements of pop() that move the index and take the item.
Oldest ==
  IF \E t \in Threads : pc[t] = "take" THEN m_front ELSE (m_front + 1) % MaxSize

\* The circular array implements a bounded first-in first-out queue: no item
\* is lost, duplicated or overtaken, a push fails only if the queue is full,
\* and a pop that times out takes nothing.
Abstract ==
  INSTANCE BoundedFifo
    WITH queue <- [i \in 1..m_size |-> m_array[(Oldest + i - 1) % MaxSize]],
         busy <- op,
         arg <- item,
         Capacity <- MaxSize

ImplementsBoundedFifo == Abstract!Spec

\* What is pushed is popped: consumers that keep calling pop() empty the queue.
Drained == m_size > 0 ~> m_size = 0
=============================================================================
