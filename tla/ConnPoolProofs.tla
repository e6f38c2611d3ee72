--------------------------- MODULE ConnPoolProofs ---------------------------
(***************************************************************************)
(* Proofs about ConnPool.tla, for any number of threads, connections and   *)
(* interrupted waits.  The inductive invariant Inv is proved in three      *)
(* parts, each of which uses the parts before it:                          *)
(*   Structure    types, critical section and frame;                       *)
(*   Tickets      the semaphore against the list, by cardinalities;        *)
(*   Ownership    who has which connection.                                *)
(* The first two hold for every use of the pool (PoolNext), and serve      *)
(* WorkerPoolProofs too; the third needs clients that use connectionRAII   *)
(* alone.  The refinement of ResourcePool follows from the invariant.      *)
(***************************************************************************)
EXTENDS ConnPool, TLAPS, FiniteSetTheorems, SequenceTheorems

\* Any use of the pool at all: a thread may release whatever it likes.
PoolNext ==
  \E t \in Threads :
    \/ GetConnection(t)
    \/ \E c \in Conns \cup {NULL} : ReleaseConnection(t, c)
    \/ GetStep(t)
    \/ ReleaseStep(t)

\* The first layer.
Structure == TypeOK /\ CriticalSection /\ Frame

\* The third layer; the second is TicketsMatchList itself.
Ownership == ExclusiveUse /\ NoConnectionLost

(***************************************************************************)
(* Lists                                                                   *)
(***************************************************************************)

\* push_back adds one element at the end.
LEMMA AppendFacts ==
  ASSUME NEW S, NEW s \in Seq(S), NEW x \in S
  PROVE  /\ Append(s, x) \in Seq(S)
         /\ Len(Append(s, x)) = Len(s) + 1
         /\ Elements(Append(s, x)) = Elements(s) \cup {x}
         /\ Distinct(s) /\ x \notin Elements(s) => Distinct(Append(s, x))
<1>1. /\ Append(s, x) \in Seq(S)
      /\ Len(Append(s, x)) = Len(s) + 1
      /\ Len(s) \in Nat
      /\ DOMAIN s = 1..Len(s)
      /\ DOMAIN Append(s, x) = 1..(Len(s) + 1)
      /\ \A i \in 1..Len(s) : Append(s, x)[i] = s[i]
      /\ Append(s, x)[Len(s) + 1] = x
  OBVIOUS
<1>2. Elements(Append(s, x)) = Elements(s) \cup {x}
  <2>1. ASSUME NEW e \in Elements(Append(s, x))
        PROVE  e \in Elements(s) \cup {x}
    <3>1. PICK i \in 1..(Len(s) + 1) : e = Append(s, x)[i]
      BY <1>1, <2>1 DEF Elements
    <3>2. CASE i = Len(s) + 1
      BY <3>1, <3>2, <1>1
    <3>3. CASE i \in 1..Len(s)
      BY <3>1, <3>3, <1>1 DEF Elements
    <3>. QED BY <3>2, <3>3, <1>1
  <2>2. ASSUME NEW e \in Elements(s)
        PROVE  e \in Elements(Append(s, x))
    <3>1. PICK i \in 1..Len(s) : e = s[i]
      BY <1>1, <2>2 DEF Elements
    <3>2. i \in DOMAIN Append(s, x) /\ Append(s, x)[i] = e
      BY <3>1, <1>1
    <3>. QED BY <3>2 DEF Elements
  <2>3. x \in Elements(Append(s, x))
    <3>1. Len(s) + 1 \in DOMAIN Append(s, x)
      BY <1>1
    <3>. QED BY <3>1, <1>1 DEF Elements
  <2>. QED BY <2>1, <2>2, <2>3
<1>3. ASSUME Distinct(s), x \notin Elements(s),
             NEW i \in 1..(Len(s) + 1), NEW j \in 1..(Len(s) + 1),
             Append(s, x)[i] = Append(s, x)[j]
      PROVE  i = j
  <2>1. \A k \in 1..Len(s) : s[k] # x
    BY <1>1, <1>3 DEF Elements
  <2>2. CASE i = Len(s) + 1 \/ j = Len(s) + 1
    BY <2>1, <2>2, <1>1, <1>3
  <2>3. CASE i \in 1..Len(s) /\ j \in 1..Len(s)
    BY <2>3, <1>1, <1>3 DEF Distinct
  <2>. QED BY <2>2, <2>3, <1>1
<1>. QED BY <1>1, <1>2, <1>3 DEF Distinct

\* pop_front removes the first element.
LEMMA TailFacts ==
  ASSUME NEW S, NEW s \in Seq(S), s # <<>>
  PROVE  /\ Head(s) \in S
         /\ Tail(s) \in Seq(S)
         /\ Len(Tail(s)) = Len(s) - 1
         /\ Elements(s) = Elements(Tail(s)) \cup {Head(s)}
         /\ Distinct(s) => Distinct(Tail(s)) /\ Head(s) \notin Elements(Tail(s))
<1>1. /\ Len(s) \in Nat
      /\ Len(s) > 0
      /\ DOMAIN s = 1..Len(s)
      /\ Head(s) = s[1]
      /\ Head(s) \in S
      /\ Tail(s) \in Seq(S)
      /\ Len(Tail(s)) = Len(s) - 1
      /\ DOMAIN Tail(s) = 1..(Len(s) - 1)
      /\ \A i \in 1..(Len(s) - 1) : Tail(s)[i] = s[i + 1]
  OBVIOUS
<1>2. ASSUME NEW e \in Elements(s)
      PROVE  e \in Elements(Tail(s)) \cup {Head(s)}
  <2>1. PICK i \in 1..Len(s) : e = s[i]
    BY <1>1, <1>2 DEF Elements
  <2>2. CASE i = 1
    BY <2>1, <2>2, <1>1
  <2>3. CASE i # 1
    <3>1. i - 1 \in DOMAIN Tail(s) /\ Tail(s)[i - 1] = s[i]
      BY <2>1, <2>3, <1>1
    <3>. QED BY <3>1, <2>1 DEF Elements
  <2>. QED BY <2>2, <2>3
<1>3. ASSUME NEW e \in Elements(Tail(s))
      PROVE  \E i \in 1..(Len(s) - 1) : e = s[i + 1]
  BY <1>1, <1>3 DEF Elements
<1>4. Elements(Tail(s)) \subseteq Elements(s)
  <2>1. \A i \in 1..(Len(s) - 1) : i + 1 \in DOMAIN s
    BY <1>1
  <2>. QED BY <2>1, <1>3 DEF Elements
<1>5. Head(s) \in Elements(s)
  <2>1. 1 \in DOMAIN s
    BY <1>1
  <2>. QED BY <2>1, <1>1 DEF Elements
<1>6. ASSUME Distinct(s)
      PROVE  Distinct(Tail(s)) /\ Head(s) \notin Elements(Tail(s))
  <2>1. Distinct(Tail(s))
    BY <1>1, <1>6 DEF Distinct
  <2>2. Head(s) \notin Elements(Tail(s))
    BY <1>1, <1>3, <1>6 DEF Distinct
  <2>. QED BY <2>1, <2>2
<1>. QED BY <1>1, <1>2, <1>4, <1>5, <1>6

(***************************************************************************)
(* Structure                                                               *)
(***************************************************************************)

\* No thread is inside the pool and nobody has the mutex.
LEMMA StructureInit == PoolInit => Structure
<1>. SUFFICES ASSUME PoolInit PROVE Structure
  OBVIOUS
<1>1. MaxConn \in Nat
  BY ConnPoolAssumption, FS_CardinalityType DEF MaxConn
<1>2. TypeOK
  BY <1>1, ConnPoolAssumption DEF PoolInit, TypeOK, CallState
<1>3. CriticalSection /\ Frame
  BY ConnPoolAssumption DEF PoolInit, CriticalSection, Frame
<1>. QED BY <1>2, <1>3 DEF Structure

\* One step per statement of GetConnection() and ReleaseConnection(), for any use
\* of the pool.
LEMMA StructureNext == Structure /\ [PoolNext]_poolVars => Structure'
<1>. SUFFICES ASSUME Structure, [PoolNext]_poolVars PROVE Structure'
  OBVIOUS
<1>. USE ConnPoolAssumption DEF Structure, TypeOK, CallState, CriticalSection, Frame
<1>1. CASE UNCHANGED poolVars
  BY <1>1 DEF poolVars
<1>2. ASSUME NEW t \in Threads, GetConnection(t)
      PROVE  Structure'
  BY <1>2 DEF GetConnection
<1>3. ASSUME NEW t \in Threads, Wait(t)
      PROVE  Structure'
  BY <1>3 DEF Wait
<1>4. ASSUME NEW t \in Threads, WaitInterrupted(t)
      PROVE  Structure'
  BY <1>4 DEF WaitInterrupted
<1>5. ASSUME NEW t \in Threads, GetLock(t)
      PROVE  Structure'
  BY <1>5 DEF GetLock
<1>6. ASSUME NEW t \in Threads, Front(t)
      PROVE  Structure'
  BY <1>6, TailFacts DEF Front
<1>7. ASSUME NEW t \in Threads, Pop(t)
      PROVE  Structure'
  BY <1>7, TailFacts DEF Pop
<1>8. ASSUME NEW t \in Threads, NEW c \in Conns \cup {NULL}, ReleaseConnection(t, c)
      PROVE  Structure'
  BY <1>8 DEF ReleaseConnection
<1>9. ASSUME NEW t \in Threads, ReleaseLock(t)
      PROVE  Structure'
  BY <1>9 DEF ReleaseLock
<1>10. ASSUME NEW t \in Threads, Push(t)
       PROVE  Structure'
  BY <1>10, AppendFacts DEF Push
<1>11. ASSUME NEW t \in Threads, Post(t)
       PROVE  Structure'
  BY <1>11 DEF Post
<1>. QED
  BY <1>1, <1>2, <1>3, <1>4, <1>5, <1>6, <1>7, <1>8, <1>9, <1>10, <1>11
     DEF PoolNext, GetStep, ReleaseStep

\* connectionRAII is one use of the pool.
LEMMA ClientStep == Structure /\ [Next]_poolVars => [PoolNext]_poolVars
BY DEF Next, PoolNext, Construct, Destruct, Structure, TypeOK

(***************************************************************************)
(* Tickets                                                                 *)
(***************************************************************************)

\* A unit of the semaphore for each connection in the list.
LEMMA TicketsInit == PoolInit => TicketsMatchList
<1>. SUFFICES ASSUME PoolInit PROVE TicketsMatchList
  OBVIOUS
<1>1. Admitted = {} /\ Posting = {}
  BY DEF PoolInit, Admitted, Posting
<1>2. MaxConn \in Nat
  BY ConnPoolAssumption, FS_CardinalityType DEF MaxConn
<1>3. reserve = MaxConn /\ eintr = 0
  BY DEF PoolInit
<1>4. Len(connList) = MaxConn
  BY <1>2 DEF PoolInit
<1>. QED BY <1>1, <1>2, <1>3, <1>4, FS_EmptySet DEF TicketsMatchList

\* A thread joins or leaves a set of threads.
LEMMA CountOneMore ==
  ASSUME NEW S, S \subseteq Threads, NEW t \in Threads, t \notin S
  PROVE  /\ Cardinality(S) \in Nat
         /\ Cardinality(S \cup {t}) = Cardinality(S) + 1
BY ConnPoolAssumption, FS_Subset, FS_CardinalityType, FS_AddElement

\* And one that leaves.
LEMMA CountOneLess ==
  ASSUME NEW S, S \subseteq Threads, NEW t \in S
  PROVE  /\ Cardinality(S) \in Nat
         /\ Cardinality(S \ {t}) = Cardinality(S) - 1
BY ConnPoolAssumption, FS_Subset, FS_CardinalityType, FS_RemoveElement

\* The two counts in TicketsMatchList are natural numbers.
LEMMA CountsAreNaturals ==
  Cardinality(Admitted) \in Nat /\ Cardinality(Posting) \in Nat
BY ConnPoolAssumption, FS_Subset, FS_CardinalityType DEF Admitted, Posting

\* wait() admits a thread, the pop takes its element; the push adds one, post() its
\* unit.
LEMMA TicketsNext ==
  Structure /\ TicketsMatchList /\ [PoolNext]_poolVars => TicketsMatchList'
<1>. SUFFICES ASSUME Structure, TicketsMatchList, [PoolNext]_poolVars
              PROVE  TicketsMatchList'
  OBVIOUS
<1>. USE DEF Structure, TypeOK, CallState
<1>0. /\ Len(connList) \in Nat
      /\ Cardinality(Admitted) \in Nat
      /\ Cardinality(Posting) \in Nat
      /\ reserve + Cardinality(Admitted) + Cardinality(Posting)
           = Len(connList) + eintr
      /\ Admitted \subseteq Threads
      /\ Posting \subseteq Threads
  BY CountsAreNaturals DEF TicketsMatchList, Admitted, Posting
<1>1. ASSUME Admitted' = Admitted, Posting' = Posting,
             UNCHANGED <<reserve, connList, eintr>>
      PROVE  TicketsMatchList'
  BY <1>0, <1>1 DEF TicketsMatchList
<1>2. CASE UNCHANGED poolVars
  BY <1>1, <1>2 DEF poolVars, Admitted, Posting
<1>3. ASSUME NEW t \in Threads,
             \/ GetConnection(t) \/ GetLock(t) \/ Front(t) \/ ReleaseLock(t)
             \/ \E c \in Conns \cup {NULL} : ReleaseConnection(t, c)
      PROVE  TicketsMatchList'
  BY <1>1, <1>3
     DEF GetConnection, GetLock, Front, ReleaseConnection, ReleaseLock, Admitted, Posting
<1>4. ASSUME NEW t \in Threads, Wait(t)
      PROVE  TicketsMatchList'
  <2>1. /\ t \notin Admitted
        /\ Admitted' = Admitted \cup {t}
        /\ Posting' = Posting
    BY <1>4 DEF Wait, Admitted, Posting
  <2>2. reserve' = reserve - 1 /\ UNCHANGED <<connList, eintr>>
    BY <1>4 DEF Wait
  <2>3. Cardinality(Admitted') = Cardinality(Admitted) + 1
    BY <1>0, <2>1, CountOneMore
  <2>. QED BY <1>0, <2>1, <2>2, <2>3, ConnPoolAssumption DEF TicketsMatchList
<1>5. ASSUME NEW t \in Threads, WaitInterrupted(t)
      PROVE  TicketsMatchList'
  <2>1. /\ t \notin Admitted
        /\ Admitted' = Admitted \cup {t}
        /\ Posting' = Posting
    BY <1>5 DEF WaitInterrupted, Admitted, Posting
  <2>2. eintr' = eintr + 1 /\ UNCHANGED <<connList, reserve>>
    BY <1>5 DEF WaitInterrupted
  <2>3. Cardinality(Admitted') = Cardinality(Admitted) + 1
    BY <1>0, <2>1, CountOneMore
  <2>. QED BY <1>0, <2>1, <2>2, <2>3, ConnPoolAssumption DEF TicketsMatchList
<1>6. ASSUME NEW t \in Threads, Pop(t)
      PROVE  TicketsMatchList'
  <2>1. /\ t \in Admitted
        /\ Admitted' = Admitted \ {t}
        /\ Posting' = Posting
    BY <1>6 DEF Pop, Admitted, Posting
  <2>2. Len(connList') = Len(connList) - 1 /\ UNCHANGED <<reserve, eintr>>
    BY <1>6, TailFacts DEF Pop, CriticalSection
  <2>3. Cardinality(Admitted') = Cardinality(Admitted) - 1
    BY <1>0, <2>1, CountOneLess
  <2>. QED BY <1>0, <2>1, <2>2, <2>3, ConnPoolAssumption DEF TicketsMatchList
<1>7. ASSUME NEW t \in Threads, Push(t)
      PROVE  TicketsMatchList'
  <2>1. /\ t \notin Posting
        /\ Posting' = Posting \cup {t}
        /\ Admitted' = Admitted
    BY <1>7 DEF Push, Admitted, Posting
  <2>2. Len(connList') = Len(connList) + 1 /\ UNCHANGED <<reserve, eintr>>
    BY <1>7, AppendFacts DEF Push, Frame
  <2>3. Cardinality(Posting') = Cardinality(Posting) + 1
    BY <1>0, <2>1, CountOneMore
  <2>. QED BY <1>0, <2>1, <2>2, <2>3, ConnPoolAssumption DEF TicketsMatchList
<1>8. ASSUME NEW t \in Threads, Post(t)
      PROVE  TicketsMatchList'
  <2>1. /\ t \in Posting
        /\ Posting' = Posting \ {t}
        /\ Admitted' = Admitted
    BY <1>8 DEF Post, Admitted, Posting
  <2>2. reserve' = reserve + 1 /\ UNCHANGED <<connList, eintr>>
    BY <1>8 DEF Post
  <2>3. Cardinality(Posting') = Cardinality(Posting) - 1
    BY <1>0, <2>1, CountOneLess
  <2>. QED BY <1>0, <2>1, <2>2, <2>3, ConnPoolAssumption DEF TicketsMatchList
<1>. QED
  BY <1>2, <1>3, <1>4, <1>5, <1>6, <1>7, <1>8 DEF PoolNext, GetStep, ReleaseStep

\* A thread that is about to call front() is one of the admitted, so the list
\* cannot be empty as long as each of them has a ticket.
LEMMA FrontFromTickets ==
  Structure /\ TicketsMatchList => FrontNeverEmptyUnlessInterrupted
<1>1. ASSUME Structure, TicketsMatchList, eintr = 0, NEW t \in Threads, call[t] = "front"
      PROVE  connList # <<>>
  <2>1. t \in Admitted /\ Admitted \subseteq Threads
    BY <1>1 DEF Admitted
  <2>2. Cardinality(Admitted) \in Nat /\ Cardinality(Admitted \ {t}) = Cardinality(Admitted) - 1
    BY <2>1, CountOneLess
  <2>3. Cardinality(Admitted \ {t}) \in Nat
    BY <2>1, ConnPoolAssumption, FS_Subset, FS_CardinalityType
  <2>4. Cardinality(Admitted) >= 1
    BY <2>2, <2>3
  <2>5. Len(connList) >= 1
    BY <1>1, <2>2, <2>4, CountsAreNaturals DEF Structure, TypeOK, TicketsMatchList
  <2>. QED BY <2>5
<1>. QED BY <1>1 DEF FrontNeverEmptyUnlessInterrupted, FrontNeverEmpty

(***************************************************************************)
(* Ownership                                                               *)
(***************************************************************************)

\* All connections are in the list.
LEMMA OwnershipInit == Init => Ownership
<1>. SUFFICES ASSUME Init PROVE Ownership
  OBVIOUS
<1>1. MaxConn \in Nat
  BY ConnPoolAssumption, FS_CardinalityType DEF MaxConn
<1>2. /\ \A t \in Threads : Held(t) = NULL
      /\ Elements(connList) = Conns
      /\ Distinct(connList)
      /\ Len(connList) = MaxConn
      /\ FreeConn = MaxConn
      /\ CurConn = 0
  BY <1>1 DEF Init, PoolInit, Held
<1>. QED
  BY <1>1, <1>2, ConnPoolAssumption DEF Ownership, ExclusiveUse, NoConnectionLost

\* A connection changes hands at the pop and at the push only.
LEMMA OwnershipNext ==
  Structure /\ Ownership /\ [Next]_poolVars => Ownership'
<1>. SUFFICES ASSUME Structure, Ownership, [Next]_poolVars
              PROVE  Ownership'
  OBVIOUS
<1>. USE ConnPoolAssumption DEF Structure, TypeOK, CallState
<1>0. Len(connList) \in Nat /\ MaxConn \in Nat
  BY FS_CardinalityType DEF MaxConn
<1>1. ASSUME \A t \in Threads : Held(t)' = Held(t),
             UNCHANGED <<connList, FreeConn, CurConn>>
      PROVE  Ownership'
  BY <1>1 DEF Ownership, ExclusiveUse, NoConnectionLost, MaxConn
<1>2. CASE UNCHANGED poolVars
  BY <1>1, <1>2 DEF poolVars, Held
<1>3. ASSUME NEW t \in Threads,
             \/ Construct(t) \/ Wait(t) \/ WaitInterrupted(t) \/ GetLock(t)
             \/ Front(t) \/ Destruct(t) \/ ReleaseLock(t) \/ Post(t)
      PROVE  Ownership'
  BY <1>1, <1>3
     DEF Construct, GetConnection, Wait, WaitInterrupted, GetLock, Front, Destruct,
         ReleaseConnection, ReleaseLock, Post, Held, Frame
<1>4. ASSUME NEW t \in Threads, Pop(t)
      PROVE  Ownership'
  <2>1. connList # <<>> /\ con[t] = Head(connList) /\ Held(t) = NULL
    BY <1>4 DEF Pop, CriticalSection, Held
  <2>2. /\ connList' = Tail(connList)
        /\ FreeConn' = FreeConn - 1
        /\ CurConn' = CurConn + 1
        /\ Held(t)' = Head(connList)
        /\ \A u \in Threads \ {t} : Held(u)' = Held(u)
    BY <1>4, <2>1 DEF Pop, Held
  <2>3. /\ Head(connList) \in Conns
        /\ Elements(connList) = Elements(connList') \cup {Head(connList)}
        /\ Distinct(connList')
        /\ Head(connList) \notin Elements(connList')
        /\ Len(connList') = Len(connList) - 1
    BY <2>1, <2>2, TailFacts DEF Ownership, ExclusiveUse
  <2>4. ExclusiveUse'
    BY <2>1, <2>2, <2>3 DEF Ownership, ExclusiveUse
  <2>5. NoConnectionLost'
    BY <1>0, <2>1, <2>2, <2>3 DEF Ownership, NoConnectionLost, MaxConn
  <2>. QED BY <2>4, <2>5 DEF Ownership
<1>5. ASSUME NEW t \in Threads, Push(t)
      PROVE  Ownership'
  <2>1. con[t] \in Conns /\ Held(t) = con[t] /\ con[t] \notin Elements(connList)
    BY <1>5 DEF Push, Frame, Held, Ownership, ExclusiveUse
  <2>2. /\ connList' = Append(connList, con[t])
        /\ FreeConn' = FreeConn + 1
        /\ CurConn' = CurConn - 1
        /\ Held(t)' = NULL
        /\ \A u \in Threads \ {t} : Held(u)' = Held(u)
    BY <1>5 DEF Push, Held
  <2>3. /\ Elements(connList') = Elements(connList) \cup {con[t]}
        /\ Distinct(connList')
        /\ Len(connList') = Len(connList) + 1
        /\ NULL \notin Elements(connList')
    BY <2>1, <2>2, AppendFacts DEF Ownership, ExclusiveUse, Elements
  <2>4. ExclusiveUse'
    BY <2>1, <2>2, <2>3 DEF Ownership, ExclusiveUse
  <2>5. NoConnectionLost'
    BY <1>0, <2>1, <2>2, <2>3 DEF Ownership, NoConnectionLost, MaxConn
  <2>. QED BY <2>4, <2>5 DEF Ownership
<1>. QED
  BY <1>2, <1>3, <1>4, <1>5 DEF Next, GetStep, ReleaseStep

(***************************************************************************)
(* The theorems                                                            *)
(***************************************************************************)

\* The inductive invariant holds in every state of ConnPool: the code of
\* GetConnection and ReleaseConnection keeps list, semaphore, counters and
\* owners consistent for every number of threads and connections.
THEOREM Invariance == Spec => []Inv
<1>1. Init => Inv
  BY StructureInit, TicketsInit, OwnershipInit DEF Init, Inv, Structure, Ownership
<1>2. Inv /\ [Next]_poolVars => Inv'
  BY ClientStep, StructureNext, TicketsNext, OwnershipNext DEF Inv, Structure, Ownership
<1>. QED BY <1>1, <1>2, PTL DEF Spec

\* Every variable keeps its type; the semaphore never becomes negative.
THEOREM TypeCorrect == Spec => []TypeOK
<1>1. Inv => TypeOK
  BY DEF Inv
<1>. QED BY <1>1, Invariance, PTL

\* No connection is with two threads, with a thread and in the list, or in the
\* list twice, as long as clients use connectionRAII alone.
THEOREM Exclusive == Spec => []ExclusiveUse
<1>1. Inv => ExclusiveUse
  BY DEF Inv
<1>. QED BY <1>1, Invariance, PTL

\* The semaphore and the list never drift apart by more than the interrupted
\* waits.
THEOREM TicketsMatch == Spec => []TicketsMatchList
<1>1. Inv => TicketsMatchList
  BY DEF Inv
<1>. QED BY <1>1, Invariance, PTL

\* No connection is lost, and FreeConn and CurConn count what they say.
THEOREM NothingLost == Spec => []NoConnectionLost
<1>1. Inv => NoConnectionLost
  BY DEF Inv
<1>. QED BY <1>1, Invariance, PTL

\* GetConnection finds a connection in the list each time it calls front(),
\* unless a signal has cut a wait on the semaphore short.
THEOREM FrontSafe == Spec => []FrontNeverEmptyUnlessInterrupted
<1>1. Inv => FrontNeverEmptyUnlessInterrupted
  BY FrontFromTickets DEF Inv, Structure
<1>. QED BY <1>1, Invariance, PTL

(***************************************************************************)
(* The refinement                                                          *)
(***************************************************************************)

\* Every behaviour of the pool is one of ResourcePool: pop_front is the step
\* that acquires a connection, push_back the one that releases it, and no other
\* statement of GetConnection or ReleaseConnection is visible to a caller.
THEOREM Implements == Spec => ImplementsResourcePool
<1>. USE DEF Abstract!Init, Abstract!Next, Abstract!vars,
             Abstract!Acquire, Abstract!Release
<1>1. Init => Abstract!Init
  BY DEF Init, PoolInit, Held
<1>2. ASSUME Inv, NEW t \in Threads, Pop(t)
      PROVE  Abstract!Acquire(t)
  <2>1. /\ connList # <<>> /\ con[t] = Head(connList) /\ connList' = Tail(connList)
        /\ connList \in Seq(Conns) /\ Distinct(connList)
    BY <1>2 DEF Inv, TypeOK, CriticalSection, ExclusiveUse, Pop
  <2>2. /\ Head(connList) \in Elements(connList)
        /\ Elements(connList') = Elements(connList) \ {Head(connList)}
    BY <2>1, TailFacts
  <2>3. /\ Held(t) = NULL
        /\ Held(t)' = Head(connList)
        /\ \A u \in Threads \ {t} : Held(u)' = Held(u)
    BY <1>2, <2>1 DEF Inv, TypeOK, Pop, Held
  <2>. QED BY <2>2, <2>3
<1>3. ASSUME Inv, NEW t \in Threads, Push(t)
      PROVE  Abstract!Release(t)
  <2>1. con[t] \in Conns /\ Held(t) = con[t] /\ con[t] # NULL
    BY <1>3, ConnPoolAssumption DEF Inv, TypeOK, Frame, Held, Push
  <2>2. Elements(connList)' = Elements(connList) \cup {Held(t)}
    BY <1>3, <2>1, AppendFacts DEF Inv, TypeOK, Push
  <2>3. /\ Held(t)' = NULL
        /\ \A u \in Threads \ {t} : Held(u)' = Held(u)
    BY <1>3 DEF Inv, TypeOK, Push, Held
  <2>4. [u \in Threads |-> Held(u)]' = [[u \in Threads |-> Held(u)] EXCEPT ![t] = NULL]
    BY <2>3
  <2>5. [u \in Threads |-> Held(u)][t] = Held(t)
    OBVIOUS
  <2>. QED BY <2>1, <2>2, <2>4, <2>5
<1>4. ASSUME Inv, NEW t \in Threads,
             \/ Construct(t) \/ Wait(t) \/ WaitInterrupted(t) \/ GetLock(t)
             \/ Front(t) \/ Destruct(t) \/ ReleaseLock(t) \/ Post(t)
      PROVE  UNCHANGED Abstract!vars
  BY <1>4
     DEF Inv, TypeOK, Frame, Construct, GetConnection, Wait, WaitInterrupted, GetLock,
         Front, Destruct, ReleaseConnection, ReleaseLock, Post, Held
<1>5. ASSUME UNCHANGED poolVars
      PROVE  UNCHANGED Abstract!vars
  BY <1>5 DEF poolVars, Held
<1>6. Inv /\ [Next]_poolVars => [Abstract!Next]_(Abstract!vars)
  BY <1>2, <1>3, <1>4, <1>5 DEF Next, GetStep, ReleaseStep
<1>. QED
  BY <1>1, <1>6, Invariance, PTL DEF Spec, ImplementsResourcePool, Abstract!Spec
=============================================================================
