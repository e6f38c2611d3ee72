------------------------------ MODULE ConnPool ------------------------------
(***************************************************************************)
(* connection_pool (CGImysql/sql_connection_pool.cpp): a list of database  *)
(* connections guarded by the mutex "lock", with the semaphore "reserve"   *)
(* counting the connections that may still be taken.  GetConnection and    *)
(* ReleaseConnection are split at every point where another thread can run *)
(* between two of their statements.  The statements inside the critical    *)
(* section that only touch the counters are one step with the list         *)
(* operation they follow, because nothing reads the counters without the   *)
(* mutex.                                                                  *)
(*                                                                         *)
(* The specification at the end lets every thread use the pool through     *)
(* connectionRAII alone: take one connection, give that one back once.     *)
(* WorkerPool.tla drives the same operations the way threadpool::run does. *)
(***************************************************************************)
EXTENDS Integers, Sequences, FiniteSets

CONSTANTS
  Threads,   \* the threads that call the pool
  Conns,     \* the MYSQL* handles that init opened
  NULL,      \* the null pointer; also "no thread owns the mutex"
  MaxEintr   \* bound: how many sem_wait calls a signal may cut short

ASSUME ConnPoolAssumption ==
  /\ IsFiniteSet(Threads)
  /\ IsFiniteSet(Conns)
  /\ NULL \notin Conns \cup Threads
  /\ MaxEintr \in Nat

VARIABLES
  connList,  \* list<MYSQL*> connList
  reserve,   \* the value of the semaphore
  lock,      \* the thread that owns the mutex, or NULL
  FreeConn,  \* number of connections in the list, as the pool counts it
  CurConn,   \* number of connections handed out, as the pool counts it
  call,      \* where each thread is inside the pool
  con,       \* local variable or parameter "con" of the call, then conRAII
  eintr      \* number of sem_wait calls that returned early so far

poolVars == <<connList, reserve, lock, FreeConn, CurConn, call, con, eintr>>

MaxConn == Cardinality(Conns)

\* The elements of a list.
Elements(s) == {s[i] : i \in DOMAIN s}

\* A list in which no element occurs twice.
Distinct(s) == \A i, j \in DOMAIN s : s[i] = s[j] => i = j

\* connList holds every connection of init once, in the order it opened them.
PoolInit ==
  /\ connList \in [1..MaxConn -> Conns]
  /\ Elements(connList) = Conns
  /\ Distinct(connList)
  /\ reserve = MaxConn
  /\ lock = NULL
  /\ FreeConn = MaxConn
  /\ CurConn = 0
  /\ call = [t \in Threads |-> "idle"]
  /\ con = [t \in Threads |-> NULL]
  /\ eintr = 0

-----------------------------------------------------------------------------
(* MYSQL *connection_pool::GetConnection()                                 *)

\* The size of the list is read before the semaphore and without the mutex;
\* an empty list returns NULL at once.
GetConnection(t) ==
  /\ call[t] = "idle"
  /\ con' = [con EXCEPT ![t] = NULL]
  /\ \/ /\ Len(connList) = 0
        /\ UNCHANGED call
     \/ /\ Len(connList) # 0
        /\ call' = [call EXCEPT ![t] = "wait"]
  /\ UNCHANGED <<connList, reserve, lock, FreeConn, CurConn, eintr>>

\* Mutant: the semaphore is tested but not decremented.
WaitNoDecrement(t) ==
  /\ call[t] = "wait"
  /\ reserve > 0
  /\ call' = [call EXCEPT ![t] = "glock"]
  /\ UNCHANGED <<connList, reserve, lock, FreeConn, CurConn, con, eintr>>

\* Mutant: the semaphore is decremented even when it is zero.
WaitNeverBlocks(t) ==
  /\ call[t] = "wait"
  /\ reserve' = reserve - 1
  /\ call' = [call EXCEPT ![t] = "glock"]
  /\ UNCHANGED <<connList, lock, FreeConn, CurConn, con, eintr>>

\* reserve.wait() returns with one unit of the semaphore.
Wait(t) ==
  /\ call[t] = "wait"
  /\ reserve > 0
  /\ reserve' = reserve - 1
  /\ call' = [call EXCEPT ![t] = "glock"]
  /\ UNCHANGED <<connList, lock, FreeConn, CurConn, con, eintr>>

\* A blocked sem_wait fails with EINTR when a signal handler runs on the
\* thread (main.cpp installs them without SA_RESTART).  sem::wait returns
\* false and GetConnection ignores it: the thread goes on without a unit.
WaitInterrupted(t) ==
  /\ call[t] = "wait"
  /\ reserve = 0
  /\ eintr < MaxEintr
  /\ eintr' = eintr + 1
  /\ call' = [call EXCEPT ![t] = "glock"]
  /\ UNCHANGED <<connList, reserve, lock, FreeConn, CurConn, con>>

\* Mutant: lock.lock() is missing from GetConnection.
GetWithoutLock(t) ==
  /\ call[t] = "glock"
  /\ lock' = t
  /\ call' = [call EXCEPT ![t] = "front"]
  /\ UNCHANGED <<connList, reserve, FreeConn, CurConn, con, eintr>>

GetLock(t) ==
  /\ call[t] = "glock"
  /\ lock = NULL
  /\ lock' = t
  /\ call' = [call EXCEPT ![t] = "front"]
  /\ UNCHANGED <<connList, reserve, FreeConn, CurConn, con, eintr>>

\* con = connList.front(): undefined on an empty list, where the thread is
\* taken out of the model with the mutex still locked.
Front(t) ==
  /\ call[t] = "front"
  /\ \/ /\ connList # <<>>
        /\ con' = [con EXCEPT ![t] = Head(connList)]
        /\ call' = [call EXCEPT ![t] = "pop"]
     \/ /\ connList = <<>>
        /\ call' = [call EXCEPT ![t] = "undefined"]
        /\ UNCHANGED con
  /\ UNCHANGED <<connList, reserve, lock, FreeConn, CurConn, eintr>>

\* connList.pop_front(), the counters, lock.unlock(), return con.
Pop(t) ==
  /\ call[t] = "pop"
  /\ connList' = Tail(connList)
  /\ FreeConn' = FreeConn - 1
  /\ CurConn' = CurConn + 1
  /\ lock' = NULL
  /\ call' = [call EXCEPT ![t] = "idle"]
  /\ UNCHANGED <<reserve, con, eintr>>

-----------------------------------------------------------------------------
(* bool connection_pool::ReleaseConnection(MYSQL *con)                     *)

\* A null connection is refused before the mutex.
ReleaseConnection(t, c) ==
  /\ call[t] = "idle"
  /\ \/ /\ c = NULL
        /\ UNCHANGED <<call, con>>
     \/ /\ c # NULL
        /\ con' = [con EXCEPT ![t] = c]
        /\ call' = [call EXCEPT ![t] = "rlock"]
  /\ UNCHANGED <<connList, reserve, lock, FreeConn, CurConn, eintr>>

ReleaseLock(t) ==
  /\ call[t] = "rlock"
  /\ lock = NULL
  /\ lock' = t
  /\ call' = [call EXCEPT ![t] = "push"]
  /\ UNCHANGED <<connList, reserve, FreeConn, CurConn, con, eintr>>

\* Mutant: the released connection is counted but never put back.
PushForgotten(t) ==
  /\ call[t] = "push"
  /\ FreeConn' = FreeConn + 1
  /\ CurConn' = CurConn - 1
  /\ lock' = NULL
  /\ con' = [con EXCEPT ![t] = NULL]
  /\ call' = [call EXCEPT ![t] = "post"]
  /\ UNCHANGED <<connList, reserve, eintr>>

\* connList.push_back(con), the counters, lock.unlock().
Push(t) ==
  /\ call[t] = "push"
  /\ connList' = Append(connList, con[t])
  /\ FreeConn' = FreeConn + 1
  /\ CurConn' = CurConn - 1
  /\ lock' = NULL
  /\ con' = [con EXCEPT ![t] = NULL]
  /\ call' = [call EXCEPT ![t] = "post"]
  /\ UNCHANGED <<reserve, eintr>>

\* Mutant: reserve.post() is missing.
PostForgotten(t) ==
  /\ call[t] = "post"
  /\ call' = [call EXCEPT ![t] = "idle"]
  /\ UNCHANGED <<connList, reserve, lock, FreeConn, CurConn, con, eintr>>

\* reserve.post() and return.
Post(t) ==
  /\ call[t] = "post"
  /\ reserve' = reserve + 1
  /\ call' = [call EXCEPT ![t] = "idle"]
  /\ UNCHANGED <<connList, lock, FreeConn, CurConn, con, eintr>>

-----------------------------------------------------------------------------
\* What a thread does once it is inside GetConnection or ReleaseConnection.
GetStep(t) == Wait(t) \/ WaitInterrupted(t) \/ GetLock(t) \/ Front(t) \/ Pop(t)

ReleaseStep(t) == ReleaseLock(t) \/ Push(t) \/ Post(t)

\* connectionRAII: the constructor takes a connection, the destructor gives
\* the same one back; with NULL the object holds nothing to give back.
Construct(t) == con[t] = NULL /\ GetConnection(t)

Destruct(t) == con[t] # NULL /\ ReleaseConnection(t, con[t])

Init == PoolInit

Next ==
  \E t \in Threads :
    Construct(t) \/ GetStep(t) \/ Destruct(t) \/ ReleaseStep(t)

\* A thread inside the pool keeps running, leaves the scope of its
\* connectionRAII, and is not overtaken forever on the mutex or the semaphore.
Fairness ==
  \A t \in Threads :
    /\ WF_poolVars(Front(t) \/ Pop(t) \/ Push(t) \/ Post(t))
    /\ WF_poolVars(Destruct(t))
    /\ SF_poolVars(Wait(t))
    /\ SF_poolVars(GetLock(t) \/ ReleaseLock(t))

Spec == Init /\ [][Next]_poolVars

FairSpec == Spec /\ Fairness

-----------------------------------------------------------------------------
(* Properties *)

CallState ==
  {"idle", "wait", "glock", "front", "pop", "rlock", "push", "post", "undefined"}

\* The type invariant.
TypeOK ==
  /\ connList \in Seq(Conns)
  /\ reserve \in Nat
  /\ lock \in Threads \cup {NULL}
  /\ FreeConn \in Int
  /\ CurConn \in Int
  /\ call \in [Threads -> CallState]
  /\ con \in [Threads -> Conns \cup {NULL}]
  /\ eintr \in 0..MaxEintr

\* The threads that have passed the semaphore and not yet popped, and those
\* that have pushed and not yet posted.
Admitted == {t \in Threads : call[t] \in {"glock", "front", "pop", "undefined"}}

Posting == {t \in Threads : call[t] = "post"}

\* The semaphore and the list never drift apart: every connection in the list
\* is matched by one unit of reserve, one thread on its way to pop it, or one
\* thread about to post it; only an interrupted wait adds a thread without one.
TicketsMatchList ==
  reserve + Cardinality(Admitted) + Cardinality(Posting) = Len(connList) + eintr

\* GetConnection never calls front() on an empty list: the unlocked size check
\* and the semaphore together are enough, whatever the interleaving ...
FrontNeverEmpty ==
  \A t \in Threads : call[t] = "front" => connList # <<>>

\* ... as long as no sem_wait has been interrupted.
FrontNeverEmptyUnlessInterrupted == eintr = 0 => FrontNeverEmpty

\* The connection a thread really holds: between front() and pop_front() the
\* one it has read is still in the list.
Held(t) == IF call[t] = "pop" THEN NULL ELSE con[t]

\* A connection is never with two threads, never with a thread and in the
\* list, and never twice in the list.
ExclusiveUse ==
  /\ \A t \in Threads : Held(t) \notin Elements(connList)
  /\ \A t, u \in Threads : Held(t) = Held(u) /\ Held(t) # NULL => t = u
  /\ Distinct(connList)

\* No connection is lost, and the two counters tell how many are where.
NoConnectionLost ==
  /\ Conns \subseteq Elements(connList) \cup {Held(t) : t \in Threads}
  /\ FreeConn = Len(connList)
  /\ FreeConn + CurConn = MaxConn

\* The mutex does its job: exactly the thread that owns it is between lock()
\* and unlock(), and the connection it has read is still the first of the list
\* when it pops it.
CriticalSection ==
  \A t \in Threads :
    /\ lock = t <=> call[t] \in {"front", "pop", "push", "undefined"}
    /\ call[t] = "pop" => connList # <<>> /\ con[t] = Head(connList)

\* A thread on its way to a connection has none, one on its way to give one
\* back has it.
Frame ==
  \A t \in Threads :
    /\ call[t] \in {"wait", "glock", "front", "post", "undefined"} => con[t] = NULL
    /\ call[t] \in {"pop", "rlock", "push"} => con[t] # NULL

\* The inductive invariant.
Inv ==
  /\ TypeOK
  /\ CriticalSection
  /\ Frame
  /\ TicketsMatchList
  /\ ExclusiveUse
  /\ NoConnectionLost

\* The pool implements the abstract resource pool: what happens between the
\* statements of GetConnection and ReleaseConnection is invisible to callers.
Abstract ==
  INSTANCE ResourcePool
    WITH free <- Elements(connList), held <- [t \in Threads |-> Held(t)]

ImplementsResourcePool == Abstract!Spec

\* A thread blocked in GetConnection comes out of it: a connection given back
\* always reaches a waiter (until a signal interrupts a wait).
WaiterServed ==
  \A t \in Threads :
    call[t] = "wait" ~> (call[t] = "idle" \/ eintr > 0)
=============================================================================
