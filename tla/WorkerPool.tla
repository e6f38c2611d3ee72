----------------------------- MODULE WorkerPool -----------------------------
(***************************************************************************)
(* threadpool<T> (threadpool/threadpool.h) with the connection pool its    *)
(* workers use.  The main thread hands requests to append(); each worker   *)
(* runs run(): wait on the semaphore, take the first request of the list   *)
(* under the mutex, take a database connection through connectionRAII,     *)
(* process the request, release the connection of the request, and release *)
(* it again when the connectionRAII object goes out of scope.              *)
(*                                                                         *)
(* A request is an http_conn.  Its descriptor is registered with           *)
(* EPOLLONESHOT: the kernel reports it once and then not before process()  *)
(* has called modfd.  The loop that calls append() is not in the           *)
(* repository; Event is the use that addfd, modfd and append are made for. *)
(***************************************************************************)
EXTENDS Integers, Sequences, FiniteSets

CONSTANTS
  Workers,      \* the threads created by the constructor
  Requests,     \* the http_conn objects
  Conns,        \* the database connections
  NULL,         \* the null pointer; also "no thread owns the mutex"
  MaxRequests,  \* m_max_requests
  Failing,      \* the requests whose response may not fit the write buffer
  Watched,      \* bound: the requests whose progress TLC follows
  MaxEintr,     \* bound: interrupted waits in GetConnection
  MaxInterrupted, \* bound: interrupted waits on the queue's semaphore
  MaxEvents     \* bound: how many events the kernel reports

ASSUME WorkerPoolAssumption ==
  /\ IsFiniteSet(Workers)
  /\ IsFiniteSet(Conns)
  /\ NULL \notin Workers \cup Requests \cup Conns
  /\ MaxRequests \in Nat \ {0}
  /\ Watched \subseteq Requests
  /\ MaxEintr \in Nat
  /\ MaxInterrupted \in Nat
  /\ MaxEvents \in Nat

VARIABLES
  connList, reserve, lock, FreeConn, CurConn, call, con, eintr,
  m_workqueue,    \* std::list<T*>
  m_queuestat,    \* the value of the semaphore
  m_queuelocker,  \* a worker, "main" or NULL
  m_stop,
  wpc,            \* where each worker is in run()
  request,        \* local variable of run()
  conRAII,        \* the connection in the worker's connectionRAII object
  mysql,          \* http_conn::mysql of each request
  apc,            \* where the main thread is in append()
  appending,      \* the argument of append()
  armed,          \* the requests whose descriptor epoll will report
  dropped,        \* the requests append() refused or process() closed
  interrupted,    \* interrupted m_queuestat.wait() calls so far
  events          \* events reported so far

Pool == INSTANCE ConnPool WITH Threads <- Workers

poolVars == <<connList, reserve, lock, FreeConn, CurConn, call, con, eintr>>
mainVars == <<apc, appending, armed, dropped, events>>
queueVars == <<m_workqueue, m_queuestat, m_queuelocker>>
workerVars == <<wpc, request, conRAII, mysql, interrupted>>
vars == <<poolVars, queueVars, m_stop, workerVars, mainVars>>

Init ==
  /\ Pool!PoolInit
  /\ m_workqueue = <<>>
  /\ m_queuestat = 0
  /\ m_queuelocker = NULL
  /\ m_stop = FALSE
  /\ wpc = [w \in Workers |-> "loop"]
  /\ request = [w \in Workers |-> NULL]
  /\ conRAII = [w \in Workers |-> NULL]
  /\ mysql = [r \in Requests |-> NULL]
  /\ apc = "idle"
  /\ appending = NULL
  /\ armed = Requests
  /\ dropped = {}
  /\ interrupted = 0
  /\ events = 0

-----------------------------------------------------------------------------
(* The main thread: append() and the destructor                            *)

\* epoll reports a descriptor, which disarms it, and the main thread calls
\* append() on its connection.
Event(r) ==
  /\ apc = "idle"
  /\ r \in armed
  /\ events < MaxEvents
  /\ events' = events + 1
  /\ armed' = armed \ {r}
  /\ appending' = r
  /\ apc' = "lock"
  /\ UNCHANGED <<poolVars, queueVars, m_stop, workerVars, dropped>>

AppendLock ==
  /\ apc = "lock"
  /\ m_queuelocker = NULL
  /\ m_queuelocker' = "main"
  /\ apc' = "check"
  /\ UNCHANGED <<poolVars, m_workqueue, m_queuestat, m_stop, workerVars,
                 appending, armed, dropped, events>>

\* m_workqueue.size() > m_max_requests: unlock and return false.
AppendRefused ==
  /\ apc = "check"
  /\ Len(m_workqueue) > MaxRequests
  /\ m_queuelocker' = NULL
  /\ dropped' = dropped \cup {appending}
  /\ appending' = NULL
  /\ apc' = "idle"
  /\ UNCHANGED <<poolVars, m_workqueue, m_queuestat, m_stop, workerVars,
                 armed, events>>

\* m_workqueue.push_back(request); m_queuelocker.unlock().
AppendPush ==
  /\ apc = "check"
  /\ Len(m_workqueue) <= MaxRequests
  /\ m_workqueue' = Append(m_workqueue, appending)
  /\ m_queuelocker' = NULL
  /\ apc' = "post"
  /\ UNCHANGED <<poolVars, m_queuestat, m_stop, workerVars,
                 appending, armed, dropped, events>>

\* Mutant: append() returns without m_queuestat.post().
AppendNoPost ==
  /\ apc = "post"
  /\ appending' = NULL
  /\ apc' = "idle"
  /\ UNCHANGED <<poolVars, queueVars, m_stop, workerVars,
                 armed, dropped, events>>

\* m_queuestat.post() and return true.
AppendPost ==
  /\ apc = "post"
  /\ m_queuestat' = m_queuestat + 1
  /\ appending' = NULL
  /\ apc' = "idle"
  /\ UNCHANGED <<poolVars, m_workqueue, m_queuelocker, m_stop, workerVars,
                 armed, dropped, events>>

\* ~threadpool(): m_stop = true, and nothing wakes the workers.
Stop ==
  /\ apc = "idle"
  /\ m_stop' = TRUE
  /\ apc' = "gone"
  /\ UNCHANGED <<poolVars, queueVars, workerVars,
                 appending, armed, dropped, events>>

-----------------------------------------------------------------------------
(* A worker: run()                                                         *)

\* while (!m_stop)
TestStop(w) ==
  /\ wpc[w] = "loop"
  /\ wpc' = [wpc EXCEPT ![w] = IF m_stop THEN "exit" ELSE "wait"]
  /\ UNCHANGED <<poolVars, queueVars, m_stop, request, conRAII, mysql,
                 interrupted, mainVars>>

\* Mutant: the semaphore is decremented even when it is zero.
WaitRequestNeverBlocks(w) ==
  /\ wpc[w] = "wait"
  /\ m_queuestat' = m_queuestat - 1
  /\ wpc' = [wpc EXCEPT ![w] = "lock"]
  /\ UNCHANGED <<poolVars, m_workqueue, m_queuelocker, m_stop, request,
                 conRAII, mysql, interrupted, mainVars>>

\* m_queuestat.wait()
WaitRequest(w) ==
  /\ wpc[w] = "wait"
  /\ m_queuestat > 0
  /\ m_queuestat' = m_queuestat - 1
  /\ wpc' = [wpc EXCEPT ![w] = "lock"]
  /\ UNCHANGED <<poolVars, m_workqueue, m_queuelocker, m_stop, request,
                 conRAII, mysql, interrupted, mainVars>>

\* A signal interrupts m_queuestat.wait(), and its result is ignored.
WaitRequestInterrupted(w) ==
  /\ wpc[w] = "wait"
  /\ m_queuestat = 0
  /\ interrupted < MaxInterrupted
  /\ interrupted' = interrupted + 1
  /\ wpc' = [wpc EXCEPT ![w] = "lock"]
  /\ UNCHANGED <<poolVars, queueVars, m_stop, request, conRAII, mysql,
                 mainVars>>

LockQueue(w) ==
  /\ wpc[w] = "lock"
  /\ m_queuelocker = NULL
  /\ m_queuelocker' = w
  /\ wpc' = [wpc EXCEPT ![w] = "take"]
  /\ UNCHANGED <<poolVars, m_workqueue, m_queuestat, m_stop, request,
                 conRAII, mysql, interrupted, mainVars>>

\* m_workqueue.empty(): unlock and continue.
NothingQueued(w) ==
  /\ wpc[w] = "take"
  /\ m_workqueue = <<>>
  /\ m_queuelocker' = NULL
  /\ wpc' = [wpc EXCEPT ![w] = "loop"]
  /\ UNCHANGED <<poolVars, m_workqueue, m_queuestat, m_stop, request,
                 conRAII, mysql, interrupted, mainVars>>

\* Mutant: front() without pop_front().
TakeRequestNoPop(w) ==
  /\ wpc[w] = "take"
  /\ m_workqueue # <<>>
  /\ request' = [request EXCEPT ![w] = Head(m_workqueue)]
  /\ m_queuelocker' = NULL
  /\ wpc' = [wpc EXCEPT ![w] = "construct"]
  /\ UNCHANGED <<poolVars, m_workqueue, m_queuestat, m_stop, conRAII,
                 mysql, interrupted, mainVars>>

\* request = front(), pop_front(), unlock.
TakeRequest(w) ==
  /\ wpc[w] = "take"
  /\ m_workqueue # <<>>
  /\ request' = [request EXCEPT ![w] = Head(m_workqueue)]
  /\ m_workqueue' = Tail(m_workqueue)
  /\ m_queuelocker' = NULL
  /\ wpc' = [wpc EXCEPT ![w] = "construct"]
  /\ UNCHANGED <<poolVars, m_queuestat, m_stop, conRAII, mysql,
                 interrupted, mainVars>>

\* connectionRAII mysqlcon(&request->mysql, m_connPool) calls GetConnection.
ConstructRAII(w) ==
  /\ wpc[w] = "construct"
  /\ Pool!GetConnection(w)
  /\ wpc' = [wpc EXCEPT ![w] = "getting"]
  /\ UNCHANGED <<queueVars, m_stop, request, conRAII, mysql, interrupted,
                 mainVars>>

\* Mutant: the descriptor is armed when the request is taken, before the
\* worker has a connection for it.
RearmEarly(w) ==
  /\ wpc[w] = "getting"
  /\ call[w] = "idle"
  /\ mysql' = [mysql EXCEPT ![request[w]] = con[w]]
  /\ conRAII' = [conRAII EXCEPT ![w] = con[w]]
  /\ armed' = armed \cup {request[w]}
  /\ wpc' = [wpc EXCEPT ![w] = "process"]
  /\ UNCHANGED <<poolVars, queueVars, m_stop, request, interrupted,
                 apc, appending, dropped, events>>

\* *SQL = connPool->GetConnection(); conRAII = *SQL; and process() begins.
Constructed(w) ==
  /\ wpc[w] = "getting"
  /\ call[w] = "idle"
  /\ mysql' = [mysql EXCEPT ![request[w]] = con[w]]
  /\ conRAII' = [conRAII EXCEPT ![w] = con[w]]
  /\ wpc' = [wpc EXCEPT ![w] = "process"]
  /\ UNCHANGED <<poolVars, queueVars, m_stop, request, interrupted,
                 mainVars>>

\* Mutant: process() returns without modfd.
ProcessNoRearm(w) ==
  /\ wpc[w] = "process"
  /\ wpc' = [wpc EXCEPT ![w] = "release"]
  /\ UNCHANGED <<poolVars, queueVars, m_stop, request, conRAII, mysql,
                 interrupted, mainVars>>

\* request->process() ends in modfd on each of its paths, which arms the
\* descriptor again while the worker still uses the request.  When
\* process_write has failed, close_conn has come before: the descriptor is no
\* longer registered, and modfd does nothing.
Process(w) ==
  /\ wpc[w] = "process"
  /\ \/ armed' = armed \cup {request[w]} /\ UNCHANGED dropped
     \/ /\ request[w] \in Failing
        /\ dropped' = dropped \cup {request[w]}
        /\ UNCHANGED armed
  /\ wpc' = [wpc EXCEPT ![w] = "release"]
  /\ UNCHANGED <<poolVars, queueVars, m_stop, request, conRAII, mysql,
                 interrupted, apc, appending, events>>

\* m_connPool->ReleaseConnection(request->mysql): reads request->mysql now.
ExplicitRelease(w) ==
  /\ wpc[w] = "release"
  /\ Pool!ReleaseConnection(w, mysql[request[w]])
  /\ wpc' = [wpc EXCEPT ![w] = "releasing"]
  /\ UNCHANGED <<queueVars, m_stop, request, conRAII, mysql, interrupted,
                 mainVars>>

\* ~connectionRAII() calls ReleaseConnection(conRAII) once more.
DestructRAII(w) ==
  /\ wpc[w] = "releasing"
  /\ call[w] = "idle"
  /\ Pool!ReleaseConnection(w, conRAII[w])
  /\ wpc' = [wpc EXCEPT ![w] = "destroying"]
  /\ UNCHANGED <<queueVars, m_stop, request, conRAII, mysql, interrupted,
                 mainVars>>

\* The end of the loop body: the worker's locals are gone.
EndOfScope(w) ==
  /\ wpc[w] = "destroying"
  /\ call[w] = "idle"
  /\ request' = [request EXCEPT ![w] = NULL]
  /\ conRAII' = [conRAII EXCEPT ![w] = NULL]
  /\ wpc' = [wpc EXCEPT ![w] = "loop"]
  /\ UNCHANGED <<poolVars, queueVars, m_stop, mysql, interrupted,
                 mainVars>>

\* A step inside GetConnection or ReleaseConnection.
PoolStep(w) ==
  /\ Pool!GetStep(w) \/ Pool!ReleaseStep(w)
  /\ UNCHANGED <<queueVars, m_stop, workerVars, mainVars>>

-----------------------------------------------------------------------------
AppendStep == AppendLock \/ AppendRefused \/ AppendPush \/ AppendPost

RunStep(w) ==
  \/ TestStop(w) \/ WaitRequest(w) \/ WaitRequestInterrupted(w)
  \/ LockQueue(w) \/ NothingQueued(w) \/ TakeRequest(w)
  \/ ConstructRAII(w) \/ Constructed(w) \/ Process(w)
  \/ ExplicitRelease(w) \/ DestructRAII(w) \/ EndOfScope(w)
  \/ PoolStep(w)

Next ==
  \/ \E r \in Requests : Event(r)
  \/ AppendStep
  \/ Stop
  \/ \E w \in Workers : RunStep(w)

Spec == Init /\ [][Next]_vars

\* append() and the workers keep running (process() returns), and no thread
\* is overtaken forever on a semaphore or a mutex.  Events need not come, and
\* the destructor need not run.
Fairness ==
  /\ SF_vars(AppendStep)
  /\ \A w \in Workers :
       /\ WF_vars(RunStep(w))
       /\ SF_vars(LockQueue(w) \/ PoolStep(w))

FairSpec == Spec /\ Fairness

-----------------------------------------------------------------------------
(* Properties *)

WorkerState ==
  {"loop", "wait", "lock", "take", "construct", "getting", "process",
   "release", "releasing", "destroying", "exit"}

\* The type invariant.
TypeOK ==
  /\ Pool!TypeOK
  /\ m_workqueue \in Seq(Requests)
  /\ m_queuestat \in Nat
  /\ m_queuelocker \in Workers \cup {"main", NULL}
  /\ m_stop \in BOOLEAN
  /\ wpc \in [Workers -> WorkerState]
  /\ request \in [Workers -> Requests \cup {NULL}]
  /\ conRAII \in [Workers -> Conns \cup {NULL}]
  /\ mysql \in [Requests -> Conns \cup {NULL}]
  /\ apc \in {"idle", "lock", "check", "post", "gone"}
  /\ appending \in Requests \cup {NULL}
  /\ armed \subseteq Requests
  /\ dropped \subseteq Requests
  /\ interrupted \in 0..MaxInterrupted
  /\ events \in 0..MaxEvents

\* A worker past the queue has a request, and append() has its argument.
InHand ==
  /\ \A w \in Workers :
       wpc[w] \in {"construct", "getting", "process", "release", "releasing",
                  "destroying"} => request[w] \in Requests
  /\ apc \in {"lock", "check", "post"} => appending \in Requests

\* The workers between taking a request and re-arming its descriptor.
Working == {w \in Workers : wpc[w] \in {"construct", "getting", "process"}}

\* EPOLLONESHOT does its job: from the moment a request leaves the queue until
\* process() has re-armed it, no other worker has it.
OneWorkerPerRequest ==
  \A v, w \in Working : request[v] = request[w] => v = w

\* The places where a request can be: armed in epoll, refused or closed, in the
\* hands of append() before its push, queued, or with a worker that has not
\* finished process().
PlacesOf(r) ==
  [ epoll   |-> IF r \in armed THEN 1 ELSE 0,
    dropped |-> IF r \in dropped THEN 1 ELSE 0,
    main    |-> IF appending = r /\ apc \in {"lock", "check"} THEN 1 ELSE 0,
    queue   |-> Cardinality({i \in DOMAIN m_workqueue : m_workqueue[i] = r}),
    workers |-> Cardinality({w \in Working : request[w] = r}) ]

\* No request is lost or handled twice: it is in exactly one of those places.
EveryRequestInOnePlace ==
  \A r \in Requests :
    LET p == PlacesOf(r)
    IN p.epoll + p.dropped + p.main + p.queue + p.workers = 1

\* The workers that are past the semaphore and have not looked at the queue.
Awake == {w \in Workers : wpc[w] \in {"lock", "take"}}

\* No wake-up is lost: every queued request has a unit of the semaphore, a
\* worker on its way to the queue, or a post() that is about to come.  An
\* interrupted wait only ever leaves units too many.
NoLostWakeup ==
  LET tickets == m_queuestat + Cardinality(Awake) + (IF apc = "post" THEN 1 ELSE 0)
  IN /\ Len(m_workqueue) <= tickets
     /\ tickets <= Len(m_workqueue) + interrupted

\* The queue holds one request more than m_max_requests at most, because
\* append() compares with > before it pushes.
QueueBounded == Len(m_workqueue) <= MaxRequests + 1

\* Even with every connection released twice, the pool's semaphore and list
\* stay in step, and GetConnection finds a connection to take.
PoolTicketsMatch == Pool!TicketsMatchList

PoolFrontNeverEmpty == Pool!FrontNeverEmptyUnlessInterrupted

\* The inductive invariant.
Inv ==
  /\ TypeOK
  /\ InHand
  /\ Pool!CriticalSection
  /\ Pool!Frame
  /\ PoolTicketsMatch
  /\ NoLostWakeup
  /\ QueueBounded
  /\ EveryRequestInOnePlace

\* A queued request is processed: its descriptor is armed again or closed,
\* unless the pool is destroyed first, or a signal has cut short the wait in
\* some GetConnection, which may leave its worker in undefined behaviour.  A
\* signal in the workers' own wait is no excuse.  Watched is the whole of
\* Requests, or some of them to stand for the others.
QueuedRequestProcessed ==
  \A r \in Watched :
    (\E i \in DOMAIN m_workqueue : m_workqueue[i] = r)
      ~> (r \in armed \cup dropped \/ m_stop \/ eintr > 0)

-----------------------------------------------------------------------------
(* What the comments say and the code does not do *)

\* "returns an available connection" (sql_connection_pool.cpp:62): a worker
\* that processes a request has a connection no other worker is using.
ConnectionNotShared ==
  \A v, w \in Workers :
    /\ wpc[v] = "process"
    /\ wpc[w] = "process"
    /\ conRAII[v] # NULL
    /\ conRAII[v] = conRAII[w]
    => v = w
=============================================================================
