-------------------------- MODULE WorkerPoolProofs --------------------------
(***************************************************************************)
(* Proofs about WorkerPool.tla, for any number of workers, requests,       *)
(* connections, events and interrupted waits.  The inductive invariant Inv *)
(* is proved in layers, each of which uses the ones before it:             *)
(*   Shape     the types, and who has a request in hand;                   *)
(*   the pool  every step is one use of the pool (PoolNext), or leaves it  *)
(*             alone, so the lemmas of ConnPoolProofs apply;               *)
(*   wake-ups  the queue against its semaphore, by cardinalities;          *)
(*   places    where each request is, by cardinalities.                    *)
(***************************************************************************)
EXTENDS WorkerPool, TLAPS, FiniteSetTheorems, FunctionTheorems, SequenceTheorems

\* The definitions and lemmas of ConnPoolProofs, about the workers.
PP == INSTANCE ConnPoolProofs WITH Threads <- Workers

\* An instance has its own copies of the operators of FiniteSets.
LEMMA SameCardinality ==
  \A S : /\ PP!Cardinality(S) = Cardinality(S)
         /\ Pool!Cardinality(S) = Cardinality(S)
BY DEF Cardinality, PP!Cardinality, Pool!Cardinality

\* The same for finiteness.
LEMMA SameFinite == \A S : PP!IsFiniteSet(S) = IsFiniteSet(S)
BY DEF IsFiniteSet, PP!IsFiniteSet

\* The constants of the pool are as ConnPool wants them.
LEMMA PoolConstants == PP!ConnPoolAssumption
BY SameFinite, WorkerPoolAssumption DEF PP!ConnPoolAssumption

\* The types of the worker pool's own variables.
OwnTypes ==
  /\ m_workqueue \in Seq(Requests)
  /\ m_queuestat \in Nat
  /\ m_queuelocker \in Workers \cup {"main", NULL}
  /\ m_stop \in BOOLEAN
  /\ wpc \in [Workers -> WorkerState]
  /\ request \in [Workers -> Requests \cup {NULL}]
  /\ conRAII \in [Workers -> Conns \cup {NULL}]
  /\ mysql \in [Requests -> Conns \cup {NULL}]
  /\ apc \in {"idle", "lock", "check", "post", "gone"}
  /\ appending \in Requests \cup {NULL}
  /\ armed \subseteq Requests
  /\ dropped \subseteq Requests
  /\ interrupted \in 0..MaxInterrupted
  /\ events \in 0..MaxEvents

Shape == PP!Structure /\ OwnTypes /\ InHand

\* The layers together are the inductive invariant of WorkerPool.
LEMMA Layers ==
  Inv <=> /\ Shape
          /\ PP!TicketsMatchList
          /\ NoLostWakeup
          /\ QueueBounded
          /\ EveryRequestInOnePlace
<1>1. PP!Structure <=> Pool!TypeOK /\ Pool!CriticalSection /\ Pool!Frame
  BY DEF PP!Structure, PP!TypeOK, PP!CriticalSection, PP!Frame, PP!CallState,
         Pool!TypeOK, Pool!CriticalSection, Pool!Frame, Pool!CallState
<1>2. PP!TicketsMatchList <=> Pool!TicketsMatchList
  BY SameCardinality
     DEF PP!TicketsMatchList, PP!Admitted, PP!Posting,
         Pool!TicketsMatchList, Pool!Admitted, Pool!Posting
<1>. QED
  BY <1>1, <1>2 DEF Inv, TypeOK, Shape, OwnTypes, PoolTicketsMatch

(***************************************************************************)
(* Shape and the pool                                                      *)
(***************************************************************************)

\* A worker uses the pool one call at a time, whatever it releases, and the
\* main thread does not use it.
LEMMA UsesPool == Shape /\ [Next]_vars => [PP!PoolNext]_(PP!poolVars)
<1>. SUFFICES ASSUME Shape, [Next]_vars
              PROVE  PP!PoolNext \/ UNCHANGED PP!poolVars
  OBVIOUS
<1>. USE DEF poolVars, PP!poolVars
<1>1. CASE UNCHANGED vars
  BY <1>1 DEF vars
<1>2. CASE (\E r \in Requests : Event(r)) \/ AppendStep \/ Stop
  BY <1>2 DEF Event, AppendStep, AppendLock, AppendRefused, AppendPush, AppendPost, Stop
<1>3. ASSUME NEW w \in Workers, RunStep(w)
      PROVE  PP!PoolNext \/ UNCHANGED PP!poolVars
  <2>1. CASE \/ TestStop(w) \/ WaitRequest(w) \/ WaitRequestInterrupted(w)
             \/ LockQueue(w) \/ NothingQueued(w) \/ TakeRequest(w)
             \/ Constructed(w) \/ Process(w) \/ EndOfScope(w)
    BY <2>1 DEF TestStop, WaitRequest, WaitRequestInterrupted, LockQueue, NothingQueued,
                TakeRequest, Constructed, Process, EndOfScope
  <2>2. CASE ConstructRAII(w)
    <3>1. PP!GetConnection(w)
      BY <2>2 DEF ConstructRAII, Pool!GetConnection, PP!GetConnection
    <3>. QED BY <3>1 DEF PP!PoolNext
  <2>3. CASE ExplicitRelease(w)
    <3>1. mysql[request[w]] \in Conns \cup {NULL}
      BY <2>3 DEF ExplicitRelease, Shape, OwnTypes, InHand
    <3>2. PP!ReleaseConnection(w, mysql[request[w]])
      BY <2>3 DEF ExplicitRelease, Pool!ReleaseConnection, PP!ReleaseConnection
    <3>. QED BY <3>1, <3>2 DEF PP!PoolNext
  <2>4. CASE DestructRAII(w)
    <3>1. conRAII[w] \in Conns \cup {NULL}
      BY DEF Shape, OwnTypes
    <3>2. PP!ReleaseConnection(w, conRAII[w])
      BY <2>4 DEF DestructRAII, Pool!ReleaseConnection, PP!ReleaseConnection
    <3>. QED BY <3>1, <3>2 DEF PP!PoolNext
  <2>5. CASE PoolStep(w)
    <3>1. PP!GetStep(w) \/ PP!ReleaseStep(w)
      BY <2>5 DEF PoolStep, Pool!GetStep, Pool!ReleaseStep, PP!GetStep, PP!ReleaseStep,
           Pool!Wait, Pool!WaitInterrupted, Pool!GetLock, Pool!Front, Pool!Pop,
           Pool!ReleaseLock, Pool!Push, Pool!Post,
           PP!Wait, PP!WaitInterrupted, PP!GetLock, PP!Front, PP!Pop,
           PP!ReleaseLock, PP!Push, PP!Post
    <3>. QED BY <3>1 DEF PP!PoolNext
  <2>. QED BY <1>3, <2>1, <2>2, <2>3, <2>4, <2>5 DEF RunStep
<1>. QED BY <1>1, <1>2, <1>3 DEF Next

\* The two instances of ConnPool start in the same state.
LEMMA PoolInitSame == Init => PP!PoolInit
BY SameCardinality
   DEF Init, Pool!PoolInit, PP!PoolInit, Pool!MaxConn, PP!MaxConn,
       Pool!Elements, PP!Elements, Pool!Distinct, PP!Distinct

\* Every worker is before its first wait.
LEMMA ShapeInit == Init => Shape
<1>. SUFFICES ASSUME Init PROVE Shape
  OBVIOUS
<1>1. PP!Structure
  BY PoolInitSame, PP!StructureInit, PoolConstants
<1>2. OwnTypes
  <2>1. /\ m_workqueue \in Seq(Requests)
        /\ m_queuestat \in Nat
        /\ interrupted \in 0..MaxInterrupted
        /\ events \in 0..MaxEvents
    BY WorkerPoolAssumption DEF Init
  <2>2. /\ wpc \in [Workers -> WorkerState]
        /\ request \in [Workers -> Requests \cup {NULL}]
        /\ conRAII \in [Workers -> Conns \cup {NULL}]
        /\ mysql \in [Requests -> Conns \cup {NULL}]
    BY DEF Init, WorkerState
  <2>. QED BY <2>1, <2>2 DEF Init, OwnTypes
<1>3. InHand
  BY DEF Init, InHand
<1>. QED BY <1>1, <1>2, <1>3 DEF Shape

\* The queue under push_back and pop_front.
LEMMA QueueTypes ==
  ASSUME NEW q \in Seq(Requests)
  PROVE  /\ Len(q) \in Nat
         /\ \A r \in Requests : /\ Append(q, r) \in Seq(Requests)
                              /\ Len(Append(q, r)) = Len(q) + 1
         /\ q # <<>> => /\ Head(q) \in Requests
                       /\ Tail(q) \in Seq(Requests)
                       /\ Len(Tail(q)) = Len(q) - 1
OBVIOUS

\* One step per statement of append(), run() and the destructor.
LEMMA ShapeNext == Shape /\ [Next]_vars => Shape'
<1>. SUFFICES ASSUME Shape, [Next]_vars PROVE Shape'
  OBVIOUS
<1>1. PP!Structure'
  BY UsesPool, PP!StructureNext, PoolConstants DEF Shape
<1>2. SUFFICES OwnTypes' /\ InHand'
  BY <1>1 DEF Shape
<1>. USE DEF Shape, OwnTypes, InHand, WorkerState
<1>3. con \in [Workers -> Conns \cup {NULL}]
  BY DEF PP!Structure, PP!TypeOK
<1>4. CASE UNCHANGED vars
  BY <1>4 DEF vars, queueVars, workerVars, mainVars
<1>. USE DEF queueVars, workerVars, mainVars
<1>5. ASSUME NEW r \in Requests, Event(r)
      PROVE  OwnTypes' /\ InHand'
  BY <1>5, WorkerPoolAssumption DEF Event
<1>6. CASE AppendLock
  BY <1>6 DEF AppendLock
<1>7. CASE AppendRefused
  BY <1>7 DEF AppendRefused
<1>8. CASE AppendPush
  BY <1>8, QueueTypes DEF AppendPush
<1>9. CASE AppendPost
  BY <1>9 DEF AppendPost
<1>10. CASE Stop
  BY <1>10 DEF Stop
<1>11. ASSUME NEW w \in Workers, TestStop(w) \/ ConstructRAII(w)
       PROVE  OwnTypes' /\ InHand'
  BY <1>11 DEF TestStop, ConstructRAII
<1>12. ASSUME NEW w \in Workers, WaitRequest(w) \/ WaitRequestInterrupted(w)
       PROVE  OwnTypes' /\ InHand'
  BY <1>12, WorkerPoolAssumption DEF WaitRequest, WaitRequestInterrupted
<1>13. ASSUME NEW w \in Workers, LockQueue(w) \/ NothingQueued(w)
       PROVE  OwnTypes' /\ InHand'
  BY <1>13 DEF LockQueue, NothingQueued
<1>14. ASSUME NEW w \in Workers, TakeRequest(w)
       PROVE  OwnTypes' /\ InHand'
  BY <1>14, QueueTypes DEF TakeRequest
<1>15. ASSUME NEW w \in Workers, Constructed(w) \/ Process(w)
       PROVE  OwnTypes' /\ InHand'
  BY <1>3, <1>15 DEF Constructed, Process
<1>16. ASSUME NEW w \in Workers, ExplicitRelease(w) \/ DestructRAII(w) \/ EndOfScope(w)
       PROVE  OwnTypes' /\ InHand'
  BY <1>16 DEF ExplicitRelease, DestructRAII, EndOfScope
<1>17. ASSUME NEW w \in Workers, PoolStep(w)
       PROVE  OwnTypes' /\ InHand'
  BY <1>17 DEF PoolStep
<1>. QED
  BY <1>4, <1>5, <1>6, <1>7, <1>8, <1>9, <1>10, <1>11, <1>12, <1>13, <1>14, <1>15,
     <1>16, <1>17
     DEF Next, AppendStep, RunStep

\* The pool's tickets, for the way run() uses the pool.
LEMMA PoolTicketsInit == Init => PP!TicketsMatchList
BY PoolInitSame, PP!TicketsInit, PoolConstants

\* Every step of a worker is one of the pool, or leaves it alone.
LEMMA PoolTicketsNext ==
  Shape /\ PP!TicketsMatchList /\ [Next]_vars => PP!TicketsMatchList'
BY UsesPool, PP!TicketsNext, PoolConstants DEF Shape

(***************************************************************************)
(* Wake-ups and the length of the queue                                    *)
(***************************************************************************)

\* A worker joins or leaves a set of workers.
LEMMA OneWorkerMore ==
  ASSUME NEW S, S \subseteq Workers, NEW w \in Workers, w \notin S
  PROVE  /\ Cardinality(S) \in Nat
         /\ Cardinality(S \cup {w}) = Cardinality(S) + 1
BY WorkerPoolAssumption, FS_Subset, FS_CardinalityType, FS_AddElement

\* And one that leaves.
LEMMA OneWorkerLess ==
  ASSUME NEW S, S \subseteq Workers, NEW w \in S
  PROVE  /\ Cardinality(S) \in Nat
         /\ Cardinality(S \ {w}) \in Nat
         /\ Cardinality(S \ {w}) = Cardinality(S) - 1
BY WorkerPoolAssumption, FS_Subset, FS_CardinalityType, FS_RemoveElement

\* The queue is empty, and so is the semaphore.
LEMMA WakeupInit == Init => NoLostWakeup /\ QueueBounded
<1>. SUFFICES ASSUME Init PROVE NoLostWakeup /\ QueueBounded
  OBVIOUS
<1>1. Awake = {} /\ Len(m_workqueue) = 0
  BY DEF Init, Awake
<1>. QED
  BY <1>1, FS_EmptySet, WorkerPoolAssumption DEF Init, NoLostWakeup, QueueBounded

\* push_back is balanced by the post() to come, and wait() by the worker on its way
\* to the queue.
LEMMA WakeupNext ==
  Shape /\ NoLostWakeup /\ QueueBounded /\ [Next]_vars
    => NoLostWakeup' /\ QueueBounded'
<1>. SUFFICES ASSUME Shape, NoLostWakeup, QueueBounded, [Next]_vars
              PROVE  NoLostWakeup' /\ QueueBounded'
  OBVIOUS
<1>. DEFINE posting == IF apc = "post" THEN 1 ELSE 0
            n == Cardinality(Awake)
<1>0. /\ Len(m_workqueue) \in Nat /\ m_queuestat \in Nat /\ interrupted \in Nat
      /\ n \in Nat /\ posting \in 0..1 /\ MaxRequests \in Nat
      /\ m_workqueue \in Seq(Requests)
      /\ Awake \subseteq Workers
      /\ wpc \in [Workers -> WorkerState]
      /\ Len(m_workqueue) <= m_queuestat + n + posting
      /\ m_queuestat + n + posting <= Len(m_workqueue) + interrupted
      /\ Len(m_workqueue) <= MaxRequests + 1
  BY QueueTypes, FS_Subset, FS_CardinalityType, WorkerPoolAssumption
     DEF Shape, OwnTypes, Awake, NoLostWakeup, QueueBounded
<1>1. SUFFICES /\ Len(m_workqueue') <= m_queuestat' + n' + posting'
               /\ m_queuestat' + n' + posting' <= Len(m_workqueue') + interrupted'
               /\ Len(m_workqueue') <= MaxRequests + 1
  BY DEF NoLostWakeup, QueueBounded
<1>. HIDE DEF n
<1>. USE DEF queueVars, workerVars, mainVars
<1>2. ASSUME Awake' = Awake, UNCHANGED <<m_workqueue, m_queuestat, interrupted>>,
             posting' = posting
      PROVE  /\ Len(m_workqueue') <= m_queuestat' + n' + posting'
             /\ m_queuestat' + n' + posting' <= Len(m_workqueue') + interrupted'
             /\ Len(m_workqueue') <= MaxRequests + 1
  BY <1>0, <1>2 DEF n
<1>3. CASE UNCHANGED vars
  BY <1>2, <1>3 DEF vars, Awake
<1>4. CASE (\E r \in Requests : Event(r)) \/ AppendLock \/ AppendRefused \/ Stop
  BY <1>2, <1>4 DEF Event, AppendLock, AppendRefused, Stop, Awake
<1>5. CASE AppendPush
  <2>1. n' = n /\ posting = 0 /\ posting' = 1 /\ UNCHANGED <<m_queuestat, interrupted>>
    BY <1>5 DEF AppendPush, Awake, n
  <2>2. Len(m_workqueue') = Len(m_workqueue) + 1 /\ Len(m_workqueue) <= MaxRequests
    BY <1>5, QueueTypes DEF AppendPush, Shape, OwnTypes, InHand
  <2>. QED BY <1>0, <2>1, <2>2
<1>6. CASE AppendPost
  <2>1. /\ n' = n /\ posting = 1 /\ posting' = 0
        /\ m_queuestat' = m_queuestat + 1
        /\ UNCHANGED <<m_workqueue, interrupted>>
    BY <1>6 DEF AppendPost, Awake, n
  <2>. QED BY <1>0, <2>1
<1>7. ASSUME NEW w \in Workers,
             \/ TestStop(w) \/ LockQueue(w) \/ ConstructRAII(w) \/ Constructed(w)
             \/ Process(w) \/ ExplicitRelease(w) \/ DestructRAII(w)
             \/ EndOfScope(w) \/ PoolStep(w)
      PROVE  Awake' = Awake
  BY <1>0, <1>7
     DEF TestStop, LockQueue, ConstructRAII, Constructed, Process, ExplicitRelease,
         DestructRAII, EndOfScope, PoolStep, Awake, WorkerState
<1>8. ASSUME NEW w \in Workers,
             \/ TestStop(w) \/ LockQueue(w) \/ ConstructRAII(w) \/ Constructed(w)
             \/ Process(w) \/ ExplicitRelease(w) \/ DestructRAII(w)
             \/ EndOfScope(w) \/ PoolStep(w)
      PROVE  UNCHANGED <<m_workqueue, m_queuestat, interrupted, apc>>
  BY <1>8
     DEF TestStop, LockQueue, ConstructRAII, Constructed, Process, ExplicitRelease,
         DestructRAII, EndOfScope, PoolStep
<1>9. ASSUME NEW w \in Workers, WaitRequest(w) \/ WaitRequestInterrupted(w)
      PROVE  /\ n' = n + 1
             /\ \/ m_queuestat' = m_queuestat /\ interrupted' = interrupted + 1
                \/ m_queuestat' = m_queuestat - 1 /\ interrupted' = interrupted
             /\ UNCHANGED <<m_workqueue, apc>>
  <2>1. w \notin Awake /\ Awake' = Awake \cup {w}
    BY <1>0, <1>9 DEF WaitRequest, WaitRequestInterrupted, Awake, WorkerState
  <2>2. n' = n + 1
    BY <1>0, <2>1, OneWorkerMore DEF n
  <2>. QED BY <1>0, <1>9, <2>2 DEF WaitRequest, WaitRequestInterrupted
<1>10. ASSUME NEW w \in Workers, NothingQueued(w) \/ TakeRequest(w)
       PROVE  /\ n' = n - 1 /\ n' \in Nat
              /\ \/ Len(m_workqueue) = 0 /\ Len(m_workqueue') = 0
                 \/ Len(m_workqueue') = Len(m_workqueue) - 1
              /\ UNCHANGED <<m_queuestat, interrupted, apc>>
  <2>1. w \in Awake /\ Awake' = Awake \ {w}
    BY <1>0, <1>10 DEF NothingQueued, TakeRequest, Awake, WorkerState
  <2>2. n' = n - 1 /\ n' \in Nat
    BY <1>0, <2>1, OneWorkerLess DEF n
  <2>3. \/ Len(m_workqueue) = 0 /\ Len(m_workqueue') = 0
        \/ Len(m_workqueue') = Len(m_workqueue) - 1
    BY <1>0, <1>10, QueueTypes DEF NothingQueued, TakeRequest
  <2>. QED BY <1>10, <2>2, <2>3 DEF NothingQueued, TakeRequest
<1>11. ASSUME NEW w \in Workers, RunStep(w)
       PROVE  /\ Len(m_workqueue') <= m_queuestat' + n' + posting'
              /\ m_queuestat' + n' + posting' <= Len(m_workqueue') + interrupted'
              /\ Len(m_workqueue') <= MaxRequests + 1
  <2>1. CASE WaitRequest(w) \/ WaitRequestInterrupted(w)
    BY <1>0, <1>9, <2>1
  <2>2. CASE NothingQueued(w) \/ TakeRequest(w)
    BY <1>0, <1>10, <2>2
  <2>3. CASE ~(WaitRequest(w) \/ WaitRequestInterrupted(w)
               \/ NothingQueued(w) \/ TakeRequest(w))
    BY <1>2, <1>7, <1>8, <1>11, <2>3 DEF RunStep
  <2>. QED BY <2>1, <2>2, <2>3
<1>. QED BY <1>3, <1>4, <1>5, <1>6, <1>11 DEF Next, AppendStep

(***************************************************************************)
(* Places                                                                  *)
(***************************************************************************)

\* The positions of a request in a queue.
At(q, r) == {i \in DOMAIN q : q[i] = r}

\* The workers that have it.
WorkingOn(r) == {w \in Working : request[w] = r}

\* A condition as a number.
OneIf(b) == IF b THEN 1 ELSE 0

\* EveryRequestInOnePlace for one request.
InOnePlace(r) ==
  OneIf(r \in armed) + OneIf(r \in dropped)
    + OneIf(appending = r /\ apc \in {"lock", "check"})
    + Cardinality(At(m_workqueue, r)) + Cardinality(WorkingOn(r)) = 1

\* And for all of them.
AllInOnePlace == \A r \in Requests : InOnePlace(r)

\* The run states the same property with the set of places.
LEMMA Places == EveryRequestInOnePlace <=> AllInOnePlace
BY DEF AllInOnePlace, EveryRequestInOnePlace, PlacesOf, InOnePlace, OneIf, At, WorkingOn

\* push_back adds one place, and pop_front takes the first one away.
LEMMA CountInQueue ==
  ASSUME NEW q \in Seq(Requests), NEW r
  PROVE  /\ Cardinality(At(q, r)) \in Nat
         /\ \A x \in Requests :
              Cardinality(At(Append(q, x), r)) = Cardinality(At(q, r)) + OneIf(x = r)
         /\ q # <<>> =>
              Cardinality(At(q, r)) = Cardinality(At(Tail(q), r)) + OneIf(Head(q) = r)
<1>1. ASSUME NEW p \in Seq(Requests)
      PROVE  IsFiniteSet(At(p, r)) /\ Cardinality(At(p, r)) \in Nat
  <2>1. At(p, r) \subseteq 1..Len(p) /\ Len(p) \in Nat
    BY DEF At
  <2>2. IsFiniteSet(1..Len(p))
    BY <2>1, FS_Interval
  <2>3. IsFiniteSet(At(p, r))
    BY <2>1, <2>2, FS_Subset
  <2>. QED BY <2>3, FS_CardinalityType
<1>2. ASSUME NEW x \in Requests
      PROVE  Cardinality(At(Append(q, x), r)) = Cardinality(At(q, r)) + OneIf(x = r)
  <2>1. /\ Len(q) \in Nat
        /\ DOMAIN q = 1..Len(q)
        /\ DOMAIN Append(q, x) = 1..(Len(q) + 1)
        /\ \A i \in 1..Len(q) : Append(q, x)[i] = q[i]
        /\ Append(q, x)[Len(q) + 1] = x
    OBVIOUS
  <2>2. CASE x = r
    <3>1. At(Append(q, x), r) = At(q, r) \cup {Len(q) + 1} /\ Len(q) + 1 \notin At(q, r)
      BY <2>1, <2>2 DEF At
    <3>. QED BY <1>1, <2>2, <3>1, FS_AddElement DEF OneIf
  <2>3. CASE x # r
    <3>1. At(Append(q, x), r) = At(q, r)
      BY <2>1, <2>3 DEF At
    <3>. QED BY <1>1, <2>3, <3>1 DEF OneIf
  <2>. QED BY <2>2, <2>3
<1>3. ASSUME q # <<>>
      PROVE  Cardinality(At(q, r)) = Cardinality(At(Tail(q), r)) + OneIf(Head(q) = r)
  <2>1. /\ Len(q) \in Nat /\ Len(q) > 0
        /\ DOMAIN q = 1..Len(q)
        /\ Head(q) = q[1]
        /\ Tail(q) \in Seq(Requests)
        /\ DOMAIN Tail(q) = 1..(Len(q) - 1)
        /\ \A i \in 1..(Len(q) - 1) : Tail(q)[i] = q[i + 1]
    BY <1>3
  <2>2. Cardinality(At(q, r) \ {1}) = Cardinality(At(Tail(q), r))
    <3>. DEFINE f == [i \in At(Tail(q), r) |-> i + 1]
    <3>1. \A i \in At(Tail(q), r) : f[i] \in At(q, r) \ {1}
      BY <2>1 DEF At
    <3>2. \A i, j \in At(Tail(q), r) : f[i] = f[j] => i = j
      BY <2>1 DEF At
    <3>3. \A k \in At(q, r) \ {1} : \E i \in At(Tail(q), r) : f[i] = k
      <4>1. SUFFICES ASSUME NEW k \in At(q, r) \ {1}
                     PROVE  \E i \in At(Tail(q), r) : f[i] = k
        OBVIOUS
      <4>2. k - 1 \in At(Tail(q), r) /\ (k - 1) + 1 = k
        BY <2>1 DEF At
      <4>. QED BY <4>2
    <3>4. f \in Bijection(At(Tail(q), r), At(q, r) \ {1})
      <4>. HIDE DEF f
      <4>1. f \in [At(Tail(q), r) -> At(q, r) \ {1}]
        BY <3>1 DEF f
      <4>. QED BY <3>2, <3>3, <4>1, Fun_IsBij
    <3>5. ExistsBijection(At(Tail(q), r), At(q, r) \ {1})
      BY <3>4 DEF ExistsBijection
    <3>. QED BY <1>1, <2>1, <3>5, FS_Bijection
  <2>3. IsFiniteSet(At(q, r)) /\ Cardinality(At(q, r)) \in Nat
    BY <1>1
  <2>4. 1 \in At(q, r) <=> Head(q) = r
    BY <2>1 DEF At
  <2>5. Cardinality(At(q, r) \ {1})
          = IF 1 \in At(q, r) THEN Cardinality(At(q, r)) - 1 ELSE Cardinality(At(q, r))
    BY <2>3, FS_RemoveElement
  <2>6. CASE Head(q) = r
    BY <2>2, <2>3, <2>4, <2>5, <2>6 DEF OneIf
  <2>7. CASE Head(q) # r
    BY <2>2, <2>3, <2>4, <2>5, <2>7 DEF OneIf
  <2>. QED BY <2>6, <2>7
<1>. QED BY <1>1, <1>2, <1>3

\* The counts in InOnePlace are natural numbers.
LEMMA CountWorking ==
  ASSUME Shape, NEW r
  PROVE  /\ WorkingOn(r) \subseteq Workers
         /\ Cardinality(WorkingOn(r)) \in Nat
         /\ Cardinality(At(m_workqueue, r)) \in Nat
BY WorkerPoolAssumption, FS_Subset, FS_CardinalityType, CountInQueue
   DEF WorkingOn, Working, Shape, OwnTypes

\* Every request is armed in epoll.
LEMMA PlacesInit == Init => AllInOnePlace
<1>. SUFFICES ASSUME Init, NEW r \in Requests PROVE InOnePlace(r)
  BY DEF AllInOnePlace
<1>1. At(m_workqueue, r) = {} /\ WorkingOn(r) = {}
  BY DEF Init, At, WorkingOn, Working
<1>2. /\ OneIf(r \in armed) = 1
      /\ OneIf(r \in dropped) = 0
      /\ OneIf(appending = r /\ apc \in {"lock", "check"}) = 0
  BY DEF Init, OneIf
<1>. QED BY <1>1, <1>2, FS_EmptySet DEF InOnePlace

\* Each step moves one request from one place to another.
LEMMA PlacesNext == Shape /\ AllInOnePlace /\ [Next]_vars => AllInOnePlace'
<1>. SUFFICES ASSUME Shape, AllInOnePlace, [Next]_vars, NEW r \in Requests
              PROVE  InOnePlace(r)'
  BY DEF AllInOnePlace
<1>. DEFINE epoll == OneIf(r \in armed)
            refused == OneIf(r \in dropped)
            main == OneIf(appending = r /\ apc \in {"lock", "check"})
            queued == Cardinality(At(m_workqueue, r))
            working == Cardinality(WorkingOn(r))
<1>0. /\ epoll + refused + main + queued + working = 1
      /\ epoll \in 0..1 /\ refused \in 0..1 /\ main \in 0..1
      /\ queued \in Nat /\ working \in Nat
      /\ wpc \in [Workers -> WorkerState]
      /\ request \in [Workers -> Requests \cup {NULL}]
      /\ m_workqueue \in Seq(Requests)
      /\ WorkingOn(r) \subseteq Workers
      /\ NULL \notin Requests
  BY CountWorking, WorkerPoolAssumption DEF Shape, OwnTypes, AllInOnePlace, InOnePlace, OneIf
<1>1. SUFFICES epoll' + refused' + main' + queued' + working' = 1
  BY DEF InOnePlace
<1>. USE DEF queueVars, workerVars, mainVars
<1>2. ASSUME WorkingOn(r)' = WorkingOn(r), main' = main,
             UNCHANGED <<m_workqueue, armed, dropped>>
      PROVE  epoll' + refused' + main' + queued' + working' = 1
  BY <1>0, <1>2
<1>3. CASE UNCHANGED vars
  BY <1>2, <1>3 DEF vars, WorkingOn, Working
<1>4. CASE AppendLock \/ AppendPost \/ Stop
  BY <1>2, <1>4 DEF AppendLock, AppendPost, Stop, WorkingOn, Working, OneIf
<1>5. ASSUME NEW s \in Requests, Event(s)
      PROVE  epoll' + refused' + main' + queued' + working' = 1
  <2>1. /\ refused' = refused /\ queued' = queued /\ working' = working
        /\ main = 0
        /\ epoll' \in Nat /\ main' \in Nat
        /\ epoll' + main' = epoll
    BY <1>5 DEF Event, WorkingOn, Working, OneIf
  <2>. QED BY <1>0, <2>1
<1>6. CASE AppendRefused
  <2>1. /\ epoll' = epoll /\ queued' = queued /\ working' = working
        /\ main' = 0
    BY <1>0, <1>6 DEF AppendRefused, WorkingOn, Working, OneIf
  <2>2. CASE appending = r
    <3>1. main = 1 /\ refused' = 1
      BY <1>6, <2>2 DEF AppendRefused, OneIf
    <3>. QED BY <1>0, <2>1, <3>1
  <2>3. CASE appending # r
    <3>1. main = 0 /\ refused' = refused
      BY <1>6, <2>3 DEF AppendRefused, OneIf
    <3>. QED BY <1>0, <2>1, <3>1
  <2>. QED BY <2>2, <2>3
<1>7. CASE AppendPush
  <2>1. /\ epoll' = epoll /\ refused' = refused /\ working' = working
        /\ main' = 0 /\ main = OneIf(appending = r)
    BY <1>7 DEF AppendPush, WorkingOn, Working, OneIf
  <2>2. queued' = queued + OneIf(appending = r)
    BY <1>0, <1>7, CountInQueue DEF AppendPush, Shape, InHand
  <2>. QED BY <1>0, <2>1, <2>2
<1>8. ASSUME NEW w \in Workers, TakeRequest(w)
      PROVE  epoll' + refused' + main' + queued' + working' = 1
  <2>1. UNCHANGED <<epoll, refused, main>>
    BY <1>8 DEF TakeRequest
  <2>2. queued = queued' + OneIf(Head(m_workqueue) = r)
    BY <1>0, <1>8, CountInQueue DEF TakeRequest
  <2>3. queued' \in Nat
    BY <1>0, <1>8, CountInQueue, QueueTypes DEF TakeRequest
  <2>4. working' = working + OneIf(Head(m_workqueue) = r)
    <3>1. CASE Head(m_workqueue) = r
      <4>1. w \notin WorkingOn(r) /\ WorkingOn(r)' = WorkingOn(r) \cup {w}
        BY <1>0, <1>8, <3>1 DEF TakeRequest, WorkingOn, Working, WorkerState
      <4>. QED BY <1>0, <3>1, <4>1, OneWorkerMore DEF OneIf
    <3>2. CASE Head(m_workqueue) # r
      <4>1. WorkingOn(r)' = WorkingOn(r)
        BY <1>0, <1>8, <3>2 DEF TakeRequest, WorkingOn, Working, WorkerState
      <4>. QED BY <1>0, <3>2, <4>1 DEF OneIf
    <3>. QED BY <3>1, <3>2
  <2>5. OneIf(Head(m_workqueue) = r) \in 0..1
    BY DEF OneIf
  <2>. QED BY <1>0, <2>1, <2>2, <2>3, <2>4, <2>5
<1>9. ASSUME NEW w \in Workers, Process(w)
      PROVE  epoll' + refused' + main' + queued' + working' = 1
  <2>1. /\ main' = main /\ queued' = queued
        /\ epoll' \in 0..1 /\ refused' \in 0..1
    BY <1>9 DEF Process, OneIf
  <2>2. CASE request[w] = r
    <3>1. w \in WorkingOn(r) /\ WorkingOn(r)' = WorkingOn(r) \ {w}
      BY <1>0, <1>9, <2>2 DEF Process, WorkingOn, Working, WorkerState
    <3>2. working' = working - 1 /\ working' \in Nat
      BY <1>0, <3>1, OneWorkerLess
    <3>3. epoll = 0 /\ refused = 0
      BY <1>0, <3>2
    <3>4. epoll' + refused' = 1
      BY <1>9, <2>2, <3>3 DEF Process, OneIf
    <3>. QED BY <1>0, <2>1, <3>2, <3>3, <3>4
  <2>3. CASE request[w] # r
    <3>1. WorkingOn(r)' = WorkingOn(r) /\ epoll' = epoll /\ refused' = refused
      BY <1>0, <1>9, <2>3 DEF Process, WorkingOn, Working, WorkerState, OneIf
    <3>. QED BY <1>0, <2>1, <3>1
  <2>. QED BY <2>2, <2>3
<1>10. ASSUME NEW w \in Workers,
              \/ TestStop(w) \/ WaitRequest(w) \/ WaitRequestInterrupted(w)
              \/ LockQueue(w) \/ NothingQueued(w) \/ ConstructRAII(w)
              \/ Constructed(w) \/ ExplicitRelease(w) \/ DestructRAII(w)
              \/ EndOfScope(w) \/ PoolStep(w)
       PROVE  epoll' + refused' + main' + queued' + working' = 1
  <2>1. UNCHANGED <<m_workqueue, armed, dropped, apc, appending>>
    BY <1>10
       DEF TestStop, WaitRequest, WaitRequestInterrupted, LockQueue, NothingQueued,
           ConstructRAII, Constructed, ExplicitRelease, DestructRAII, EndOfScope, PoolStep
  <2>2. WorkingOn(r)' = WorkingOn(r)
    BY <1>0, <1>10
       DEF TestStop, WaitRequest, WaitRequestInterrupted, LockQueue, NothingQueued,
           ConstructRAII, Constructed, ExplicitRelease, DestructRAII, EndOfScope, PoolStep,
           WorkingOn, Working, WorkerState
  <2>. QED BY <1>2, <2>1, <2>2
<1>. QED
  BY <1>3, <1>4, <1>5, <1>6, <1>7, <1>8, <1>9, <1>10 DEF Next, AppendStep, RunStep

\* A request that is in one place is not with two workers.
LEMMA OneWorkerFromPlaces ==
  Shape /\ EveryRequestInOnePlace => OneWorkerPerRequest
<1>. SUFFICES ASSUME Shape, EveryRequestInOnePlace,
                     NEW v \in Working, NEW w \in Working, request[v] = request[w], v # w
              PROVE  FALSE
  BY DEF OneWorkerPerRequest
<1>. DEFINE r == request[v]
<1>1. r \in Requests
  BY DEF Shape, InHand, Working
<1>2. InOnePlace(r)
  BY <1>1, Places DEF AllInOnePlace
<1>3. Cardinality(WorkingOn(r)) <= 1
  BY <1>2, CountWorking DEF InOnePlace, OneIf
<1>4. v \in WorkingOn(r) /\ w \in WorkingOn(r) \ {v} /\ WorkingOn(r) \subseteq Workers
  BY DEF WorkingOn, Working
<1>5. /\ Cardinality(WorkingOn(r) \ {v}) = Cardinality(WorkingOn(r)) - 1
      /\ Cardinality(WorkingOn(r) \ {v}) \in Nat
      /\ Cardinality(WorkingOn(r)) \in Nat
  BY <1>4, OneWorkerLess
<1>6. /\ Cardinality((WorkingOn(r) \ {v}) \ {w}) = Cardinality(WorkingOn(r) \ {v}) - 1
      /\ Cardinality((WorkingOn(r) \ {v}) \ {w}) \in Nat
  BY <1>4, OneWorkerLess
<1>. QED BY <1>3, <1>5, <1>6

(***************************************************************************)
(* The theorems                                                            *)
(***************************************************************************)

\* The inductive invariant holds in every state of the worker pool and its
\* connection pool, for every number of workers, requests and connections.
THEOREM Invariance == Spec => []Inv
<1>. DEFINE Layered == /\ Shape /\ PP!TicketsMatchList
                       /\ NoLostWakeup /\ QueueBounded /\ AllInOnePlace
<1>1. Init => Layered
  BY ShapeInit, PoolTicketsInit, WakeupInit, PlacesInit
<1>2. Layered /\ [Next]_vars => Layered'
  BY ShapeNext, PoolTicketsNext, WakeupNext, PlacesNext
<1>3. Layered => Inv
  BY Layers, Places
<1>. QED BY <1>1, <1>2, <1>3, PTL DEF Spec

\* Every variable of the worker pool keeps its type; neither semaphore becomes
\* negative.
THEOREM TypeCorrect == Spec => []TypeOK
<1>1. Inv => TypeOK
  BY DEF Inv
<1>. QED BY <1>1, Invariance, PTL

\* append() and run() never lose a wake-up: each queued request has a unit of
\* the semaphore, a worker on its way to the queue, or a post() to come.
THEOREM WakeupsKept == Spec => []NoLostWakeup
<1>1. Inv => NoLostWakeup
  BY DEF Inv
<1>. QED BY <1>1, Invariance, PTL

\* The test in append() bounds the queue by m_max_requests plus one.
THEOREM QueueStaysBounded == Spec => []QueueBounded
<1>1. Inv => QueueBounded
  BY DEF Inv
<1>. QED BY <1>1, Invariance, PTL

\* Although run() releases each connection twice, the pool's semaphore and its
\* list stay in step.
THEOREM TicketsMatchForWorkers == Spec => []PoolTicketsMatch
<1>1. Inv => PoolTicketsMatch
  BY DEF Inv
<1>. QED BY <1>1, Invariance, PTL

\* Nor does a worker's GetConnection call front() on an empty list, unless a
\* signal has cut a wait short.
THEOREM FrontSafeForWorkers == Spec => []PoolFrontNeverEmpty
<1>1. Inv => PP!FrontNeverEmptyUnlessInterrupted
  BY Layers, PP!FrontFromTickets, PoolConstants DEF Shape
<1>2. PP!FrontNeverEmptyUnlessInterrupted => PoolFrontNeverEmpty
  BY DEF PoolFrontNeverEmpty, PP!FrontNeverEmptyUnlessInterrupted, PP!FrontNeverEmpty,
         Pool!FrontNeverEmptyUnlessInterrupted, Pool!FrontNeverEmpty
<1>. QED BY <1>1, <1>2, Invariance, PTL

\* A request is never lost between epoll, append(), the queue and the workers,
\* and never in two of those places.
THEOREM RequestsAccounted == Spec => []EveryRequestInOnePlace
<1>1. Inv => EveryRequestInOnePlace
  BY DEF Inv
<1>. QED BY <1>1, Invariance, PTL

\* No two workers ever process the same http_conn before it is armed again:
\* what addfd and modfd register descriptors with EPOLLONESHOT for.
THEOREM OneWorker == Spec => []OneWorkerPerRequest
<1>1. Inv => OneWorkerPerRequest
  BY Layers, OneWorkerFromPlaces
<1>. QED BY <1>1, Invariance, PTL
=============================================================================
