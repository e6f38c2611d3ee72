# A TLA+ model of http-WebServer

This directory models and checks the C++ web server of this repository: an
epoll server with a pool of worker threads, a pool of MySQL connections, a
timer list that closes idle connections, a parser and writer for HTTP, and a
log with an asynchronous queue. TLC checks small instances; TLAPS proves the
safety properties of every part, and what each part implements, for every
instance. Liveness is checked by TLC alone.

Run a check with `tlc -config <cfg> <module>`, a proof with
`tlapm ConnPoolProofs.tla` (or another module of proofs). `PROJECT.json` lists
components, runs, the code each definition models (`map`), mutations the
properties detect (`mutants`), hazards, findings and theorems.

## 1. How the source is read

The repository is an unfinished snapshot: it does not compile. The model needs
a few readings, and they are the same everywhere:

- A misspelled token stands for the one identifier it can mean: `connlist` for
  `connList`, `ulock` for `unlock`, `strbrk` for `strpbrk`, `m_pollfd` for
  `m_epollfd`, `m_read_check` for `m_read_idx`, `m_checked` for
  `m_checked_idx`, `conenctionRAII` for `connectionRAII`, `EPOLL_CTL,DEL` for
  `EPOLL_CTL_DEL`, and a three-argument `strcasecmp` for `strncasecmp`.
- `addfd` and `modfd` select their event mask with `#ifdef ET` / `#ifdef LT`,
  and `http_conn.cpp:15,18` define `connfdLT` and `listenfdLT`. The model reads
  level-triggered, with EPOLLONESHOT where `modfd` sets it. A comment
  (main.cpp:59) speaks of ET for the signal pipe; for a `recv` that takes all
  the pipe holds there is no difference.
- Members that `sql_connection_pool.h` does not declare (`connList`, `lock`,
  `reserve`, `FreeConn`, `CurConn`) have the types their uses need.
- `http_conn::init`, `unmap`, `close_conn`, `Log::flush` and
  `block_queue::full` are declared or called and defined nowhere. `init` resets
  the members, `unmap` releases the mapping, `close_conn` closes the
  descriptor, `full` tests `m_size >= m_max_size`; `flush` is left out.
- `main.cpp` has no accept and no dispatch. What the dispatch calls is modelled
  as external actions: hand a reported connection to `append`, call
  `read_once` on EPOLLIN and `write` on EPOLLOUT, close when they return false.
- `assert(ret!=0)` after `socketpair` (main.cpp:54) has its condition inverted:
  taken literally, the server would only run when the pipe could not be made.
  `pipefd` and `pipedfd` are one array, and the pipe exists.
- `timer_handler` is called by nothing. Its comment says that it sets the alarm
  again so that SIGALRM keeps coming, and `timeout` is set for nothing else: the
  loop is read to call it after the events when `timeout` is set, and to reset
  the flag.
- The registration and login fragment (http_conn.cpp:433-505) stands outside
  any function. It is the body of the branch of `do_request` that asks for it
  (lines 518-522); `passwd` in line 473 is `password`. `initmysql_result` is there twice: a
  stub at lines 34-46 and the whole function at 842-872, which is the one that is
  modelled.

## 2. Inventory

**Connection pool** (`CGImysql/`). State: the list `connList`, the semaphore
`reserve`, the mutex `lock`, two counters. Operations: `init`,
`GetConnection`, `ReleaseConnection`, `DestroyPool`, and the guard object
`connectionRAII`. Used by every worker. Hard: the size is read without the
mutex, the semaphore is taken before the mutex and posted after it, and its
result is ignored. Correct means: semaphore and list agree, a connection has
one user, none is lost, a waiter is served.

**Worker pool** (`threadpool/threadpool.h`). State: `m_workqueue`, the
semaphore `m_queuestat`, the mutex `m_queuelocker`, `m_stop`. Operations:
`append` (main thread), `run` (workers), the destructor. Calls the connection
pool and `http_conn::process`. Hard: wake-ups between two synchronisation
objects, the re-arming of a descriptor while the worker still uses its object,
the double release. Correct means: a request is in one place, with one worker
at a time, and a queued one is processed.

**Timers** (`timer/lst_timer.h`). State: a doubly linked list with `head` and
`tail`, sorted by `expire`. Operations: `add_timer`, `adjust_timer`,
`del_timer`, `tick`, and `cb_func`, which closes a connection. Called by the
main thread only; destroyed at exit. Hard: the pointer cases at head, tail and single node, and
the order after long sequences. Correct means: well-formed, sorted, and a tick
fires what is due.

**Blocking queue** (`log/block_queue.h`). State: a circular array with size and
two indices, a mutex and a condition variable. Operations: `push`, `pop`, timed
`pop`. Hard: spurious wake-ups, several consumers, timeouts that race with a
push, wrap-around. Correct means: a bounded FIFO without lost wake-ups.

**Log** (`log/log.cpp`, `log/log.h`). State: the open file, the day, the line
count, the shared buffer, the queue. Operations: `init`, `write_log`, the flush
thread's `async_write_log`, the destructor. Hard: three critical sections in
one call, the date read before the first of them, a queue that fills up between
the test and the push. Correct means: each line in one place, no line in a
closed file, file and counters in agreement.

**HTTP connection** (`http/`). State: the read buffer with its indices, the
parser's state, the iovec and byte counts, the mapping. Operations:
`read_once`, `process` (`process_read`, `do_request`, `process_write`),
`write`. Hard: requests and responses cut anywhere, error paths, the state kept
between calls. Correct means: a complete request is answered whatever the cuts,
indices stay in the buffer, the bytes sent are the response, the mapping is
released.

**Table of users** (`http/http_conn.cpp`). State: the map `users` and the mutex
`m_lock`, shared by all workers, in front of the table `user` of the database.
Operations: registration and login, inside `do_request`. Hard: the name is
looked up without the mutex, the map is written whatever the insert returned.
Correct means: map and table see registrations in one order, a registration
that is confirmed is stored in both, who logs in has a row in the table, and no
path keeps the mutex.

**Signals and main loop** (`main.cpp`). State: the signal pipe, `timeout`,
`stop_server`, the alarm, `errno`. Operations: `sig_handler`, `timer_handler`,
the loop. Owns the timer list. Hard: an alarm rings once and sets up the next, a
full pipe loses signals, a handler may run between any two instructions.
Correct means: the alarms go on, an expired connection is closed, SIGTERM stops
the server and nothing else does.

**Locks** (`lock/locker.h`): thin wrappers, modelled where they are used.
`class cond` is used by nothing.

**Buffer** (`buffer/`): a growable buffer that nothing else uses yet. State: a
vector and two positions. Operations: `Append`, `EnsureWriteable`, `HasWritten`,
`ReadFd`, `Retrieve`, `RetrieveAll`, `WriteFd` and their variants. Hard: when to
move the bytes and when to grow, and `readv` into vector and array at once.
Correct means: a queue of bytes that grows no more than it must.

## 3. Modules

| module | models | kind |
|---|---|---|
| `ResourcePool` | what the connection pool promises | abstract |
| `ConnPool` | `connection_pool`, `connectionRAII` | detailed, refines `ResourcePool` |
| `ConnPoolProofs` | | theorems about `ConnPool` |
| `WorkerPool` | `threadpool<T>::append`, `run`, destructor, with `ConnPool` inside (INSTANCE) | composition |
| `WorkerPoolProofs` | | theorems about `WorkerPool`, with those of `ConnPoolProofs` by INSTANCE |
| `TimerQueue` | what the timer list promises | abstract |
| `TimerList` | `sort_timer_lst` | detailed, refines `TimerQueue` |
| `BoundedFifo` | what the blocking queue promises | abstract |
| `BlockQueue` | `block_queue<T>` | detailed, refines `BoundedFifo` |
| `BlockQueueProofs` | | theorems about `BlockQueue` |
| `AsyncLog` | `Log` with its queue and flush thread | uses a sequence for the queue |
| `AsyncLogProofs` | | theorems about `AsyncLog` |
| `HttpConn`, `MCHttpConn` | one `http_conn`; the requests TLC sends | detailed |
| `HttpConnProofs` | | theorems about `HttpConn` |
| `MainLoop` | `main.cpp`: signals, the loop, `timer_handler`, over `TimerList` (EXTENDS) | composition |
| `MainLoopProofs` | | theorems about `MainLoop` and `TimerList` |
| `UserTable` | registration and login of all workers | detailed |
| `UserTableProofs` | | theorems about `UserTable` |
| `ByteFifo` | what a buffer promises | abstract |
| `Buffer` | `Buffer` | detailed, refines `ByteFifo` |
| `BufferProofs` | | theorems about `Buffer` |

Variables have the names of the members and locals they stand for. A thread
has a program counter (`call`, `wpc`, `apc`, `pc`, `fpc`) whose values are the
points where another thread can run; the statements between two such points are
one action.

**ConnPool.** `GetConnection` is the unlocked size test; `Wait` or
`WaitInterrupted`, `GetLock`, `Front`, `Pop` follow. `ReleaseConnection` is the
null test; `ReleaseLock`, `Push`, `Post` follow. `front()` on an empty list is
undefined: the thread goes to `"undefined"` with the mutex held. Under the
refinement `free` is the set of elements of the list and `held[t]` the
connection a thread has popped, so `Pop` is the abstract acquisition and `Push`
the release.

**WorkerPool.** The main thread's `Event` hands an armed descriptor to
`append`; the workers follow `run` statement by statement and call the actions
of `ConnPool` through an instance. `request->mysql` is a field of the request,
read when line 134 reads it, and `conRAII` is the worker's own copy. `process`
arms the descriptor again, or for one of the requests in `Failing`, whose
response may not fit the write buffer, closes it (http_conn.cpp:158-164).

**TimerList.** The functions are operators on a list value with the pointers as
functions from timers, so that each assignment of the code can be found;
addresses are reused after a delete. `live` and `fired` are what the heap and
the callbacks know; `Destroy` is the destructor.

**BlockQueue.** A blocked thread is in `m_cond`; a broadcast moves all of them
to `"relock"`. The refinement reads the queue out of the circular array;
while a `pop` stands between moving `m_front` and taking the item, the oldest
item is at `m_front`. An error return of `pthread_cond_wait`
(block_queue.h:77-81) is left out: it would take an invalid condition variable
or a mutex the caller does not own.

**AsyncLog.** Lines are numbers, days are numbers, a file is a day and a part.
`written` records each `fputs` with the file that was open. The flush thread
does not end: `pop` returns false (log.h:45) only for the error `BlockQueue`
leaves out.

**HttpConn.** The text of each line of a request is one token, and CR, LF and
each body byte one each, because the parser tells apart cuts at exactly these
places. A byte on the wire is named by the buffer it was read from and its
offset, so repeated and skipped bytes are seen. `do_request` is one of its five
results. The length that a header tells is any int of `ContentLengths`, negative
ones and ones that overflow the sum of line 421 among them; when `parse_content`
then writes its NUL outside the read buffer, `state` becomes `"undefined"` and
nothing more is said. `TimerCloses` is `cb_func`, called by the main loop for an
idle connection while it is polled or a worker parses: the descriptor is gone,
and the members, the mapping among them, stay as they are. `calls` only
remembers whether one `write()` has sent twice.

**MainLoop.** `pc` says where the main thread is: in `epoll_wait`, at the test
of its result, in the loop over the events, or behind it. `raised` holds the
signals the kernel has not delivered yet; `HandleSignal` is `sig_handler`
between any two steps, `InterruptWait` the same inside a blocked `epoll_wait`,
which then fails with EINTR because `addsig` is called without SA_RESTART.
`SignalEvent` is one `recv` with the switch over all its bytes, and it comes in
any order with `ClientEvent`, the dispatch that adds, moves and deletes timers.
A `recv` takes at most the size of the array and the rest stays readable.

**UserTable.** A worker stops at each point where another can run: before the
look-up, the lock, the query, the store and the unlock. A look-up that
overlaps an insertion is a data race on the map and may miss a name; a
comparison that overlaps an assignment may go either way. `rows` is the table
in the database; its schema is not in the repository, so an insert may succeed
or fail, also for a name it has. Initially it has any rows, and
`initmysql_result` has read them into the map, where the row fetched last wins.
`latest` only remembers the last row of each name, `refused` the names whose last
insert has failed.

**Buffer.** A buffer is a value (bytes and two positions); `MakeSpace`,
`Appended` and `ReadInto` are functions from buffers to buffers, as the member
functions call each other, and each public call is one action. The abstract
queue is what lies between the positions; `call` is what the last call put in
or took out.

## 4. Runs and what they show

| run | shows | size |
|---|---|---|
| `conn_pool` | semaphore, list, owners and counters agree; atomic pool implemented; waiters served | 1,704 states |
| `worker_pool` | requests in one place and with one worker, no lost wake-up, pool consistent under double release, a queued request processed unless the pool is destroyed | 559,838 |
| `worker_pool_shared` | *violated*: two workers on one connection (threadpool.h:134) | |
| `main_loop` | the list well-formed and sorted, each tick exact, alarms that go on, SIGTERM that ends, deadlines that are kept | 121,836 |
| `block_queue` | a bounded FIFO, no lost wake-up, no deadlock, emptied | 98,905 |
| `async_log` | each line in one place, right file, flushed | 133,207 |
| `http_conn` | lines found, out of the read buffer only by a negative or overflowing length, response exact until a `write` sends twice, completed, mapping released by `process` and `write` | 143,817 |
| `http_conn_body` | *violated*: a body in two pieces is never answered (http_conn.cpp:181) | |
| `http_conn_large_file` | *violated*: bytes repeated when the peer drains during `write` (http_conn.cpp:771) | |
| `user_table` | map and table see registrations in one order unless an insert has failed, a confirmed one is stored in both, every request answered | 93,581 |
| `user_table_login` | *violated*: a login with the password of a failed registration (http_conn.cpp:482) | |
| `buffer` | positions in range, growth bounded, a queue of bytes | 26,982 |

The four violated properties are quotations of comments; `PROJECT.json` gives
the lines. The passing runs say in the property itself what each violation takes
away: `StreamIsPrefixUnlessResent` holds until a `write()` has sent twice,
`MapFollowsTable` leaves out the names whose last insert has failed. Nothing
restricts the peer, the lengths or the timer in `http_conn`; its send buffer
takes the header, as kernel buffers do.

Four more comments that the code does not keep to are stated in the modules
without a run of their own; TLC shows each when it is added to a
configuration:

- `BehindNotDueEither` (`TimerList`, lst_timer.h:173-174): with
  `AdjustTimeouts = {1, 2}` in `MainLoop.cfg`, `adjust_timer` compares with the
  head instead of the next timer (line 108) and leaves the list unsorted. The
  run `main_loop` therefore moves deadlines to the latest time only, which is
  what a server with a single idle timeout does.
- `NeverBackToYesterday` (`AsyncLog`, log.cpp:137), added to `AsyncLog.cfg` as a
  PROPERTY: the date is read before the mutex is taken (line 127), so a writer
  that was late at midnight opens yesterday's file again.
- `TimerReleasesResources` (`HttpConn`, lst_timer.h:46): `cb_func` closes the
  descriptor of a connection that waits for EPOLLOUT and never calls `unmap`.
  `MappedWhileSending` is therefore about the ends of a connection in
  `process`, `read_once` and `write`.
- `KeptAliveListens` (`HttpConn`, http_conn.cpp:824): after a response with
  keep-alive, `modfd` asks for EPOLLONESHOT alone (line 821), and the connection
  is never read again.

What http_conn.cpp:482 does to the table of users is worth spelling out:
`users[name]` is assigned whether or not the insert succeeded, so a failed
registration replaces the password in the map, or adds a name the database does
not have. The comments at lines 497 and 840 say that a login is for who is in
the table and that the map is the contents of the table; `LoginIsInTable` states
this and is violated.

A header that the socket takes in three pieces or more is miscounted.
`write` tells whether the header is out by comparing `bytes_have_send`, which
counts from its beginning, with `m_iv[0].iov_len` (http_conn.cpp:790), which
line 801 has already shortened by the whole count. With `HeaderLength = 3` and
`SendBuffer = 1` in `HttpConn.cfg`, TLC shows `StreamIsPrefixUnlessResent` violated: `newadd`
is negative and the file is read from before its mapping. The run's send buffer
takes the header, and the theorems about the stream assume it.

### Bounds

- `MaxEintr` (interrupted waits in `GetConnection`, 1 in `conn_pool`): one is
  enough to break the match between semaphore and list, and the invariant counts
  them. In `worker_pool` it is 0, because such a wait may end in undefined
  behaviour and the run is about progress too; `MaxInterrupted` (1) allows one
  interrupted wait of a worker on the queue. The proofs cover any number of both.
- `MaxEvents` (3) and `MaxRequests` (1): three requests fill the queue of two
  that `>` allows and the third is refused. `Failing` and `Watched` are one
  request, the same one: the others behave like it except that they are never
  closed, so TLC follows the progress of the one that can do more.
- `MaxTime` (3) with distances 1 and 2 for three timers lets them fall due
  together and one after the other, leaves a timer in the middle of the list to
  be moved and deleted, and reuses addresses. Three timers reach every branch of
  the list functions.
- `PipeCapacity` (2) and `BatchSize` (2) for 1024 and more bytes, `TIMESLOT`
  (1), `MaxKills` (2): the smallest pipe for which a full pipe holds a SIGTERM,
  so that both the signal of an alarm and a SIGTERM are lost.
- `MaxPushes` (3) over two slots wraps both indices and finds the queue full.
- `MaxLines` (4), `SplitLines` (2), `MaxDay` (1): one rotation by lines, one by
  date, each before, between and after queued lines.
- `MaxSends` (3) lets a kept connection, an error page and the rest of a
  rejected request follow one another. The read buffer has 14 tokens: one
  request fills it exactly, one does not fit. `IntMax` (60) is an int that the
  length 60 makes overflow in the test of `parse_content`; the other lengths are
  -20 (before the buffer), -2 (into what is parsed), 0 and 3 (the bodies).
- `MaxRequests` (3) of two workers for two names and two passwords: two
  registrations of a name that both miss it and a login or a third registration
  after them; the table starts with any rows. One worker is enough for
  `user_table_login`: the store after a failed insert needs no race.
- `MaxData` (4) with a vector of 2 and an array of 2: the vector grows twice and
  more, bytes are moved at every position, and `readv` fills both parts. The
  array of `ReadFd` has 65,535 bytes; only that it is a second part matters.

Several actors of a kind are two (three in `conn_pool`, so that a waiter, a
holder and a releaser exist at once); what more of them add is more of the same
interleavings, and the proofs cover every number.
Deadlock is checked for `block_queue` and `buffer`; the others stop at their
bounds, in the destructor, at exit, or in undefined behaviour.

### Fairness

Weak fairness of a thread's own next step says that the scheduler runs it.
Strong fairness is assumed for taking a mutex and a semaphore: glibc does not
promise it, but the threads outside a critical section are slow compared with
those inside, and a thread that is overtaken for ever needs an adversary.
In `WorkerPool` the steps that lock the queue and those inside the connection pool
share one such condition, because a worker is at one of them at a time. Fairness
of `Destruct` says that a worker's scope ends, of `Drain` that a live peer takes
data, of `CallPop` that the flush thread loops. In `MainLoop` time passes, the
kernel delivers a signal that stays pending, and the main thread runs: its steps
are one fair action, and clients and SIGTERM owe it nothing. The clock stops at
`MaxTime`, so `DueTimersFire` is about deadlines that leave time for one more
alarm. In `UserTable` a worker runs and its query returns. Nothing is assumed
about new events, new log lines, signals, timeouts, the close of an idle
connection, midnight or the destructor.

## 5. What is proved

`ConnPoolProofs` proves, for any finite number of threads and connections and
any number of interrupted waits, about the specification `Spec` of `ConnPool`:

- `TypeCorrect`, `TicketsMatch`, `Exclusive`, `NothingLost`, `FrontSafe`: the
  invariants of the run `conn_pool`;
- `Implements`: `ConnPool` implements `ResourcePool`.

The only assumption is `ConnPoolAssumption`: the sets are finite and `NULL` is
none of their elements.

The properties are not inductive by themselves. That `front()` finds an element
depends on the count of semaphore units, threads and list elements
(`TicketsMatchList`); that the list and the owners are disjoint depends on the
connection that a thread has read in `Front` still being the head when it pops,
which is `CriticalSection`; and both need to know which threads have a
connection in `con` (`Frame`). `Inv` is the conjunction; it is proved in three
layers, each using the one before it:

1. `Structure` (`TypeOK`, `CriticalSection`, `Frame`) is inductive alone, for
   any use of the pool (`PoolNext`: any thread may release any connection).
2. `TicketsMatchList` follows step by step from cardinalities: `Wait` moves a
   unit into `Admitted`, `Pop` moves one out together with a list element,
   `Push` and `Post` the other way round. `CountOneMore` and `CountOneLess` are
   the two lemmas about sets of threads. This holds for any use of the pool too.
3. `Ownership` (`ExclusiveUse`, `NoConnectionLost`) needs what a list contains
   after `push_back` and `pop_front`: `AppendFacts` and `TailFacts`.

`FrontSafe` then is an argument about numbers: a thread at `front()` is in
`Admitted`, so the list is not empty if no wait was interrupted. `Implements`
needs the invariant for `Pop`, whose popped element must be free and whose
thread must hold nothing.

`WorkerPoolProofs` proves, for any finite number of workers and connections, any
set of requests, any `m_max_requests` above zero, and any number of events and
interrupted waits, about `Spec` of `WorkerPool`:

- `TypeCorrect`, `WakeupsKept`, `RequestsAccounted`, `OneWorker`: the invariants
  of the run `worker_pool` about requests;
- `TicketsMatchForWorkers`: the one about the connection pool, which survives
  the double release of threadpool.h:134;
- `QueueStaysBounded` and `FrontSafeForWorkers`, which no run checks any more:
  the queue holds `m_max_requests + 1` requests at most, and `front()` finds an
  element as long as no wait was interrupted.

The assumption is `WorkerPoolAssumption`. The argument, again in layers:

1. `Shape`: types, and `InHand` (a worker past the queue has a request, without
   which `request->mysql` has no value). Each step of a worker is a step of
   `PoolNext` or leaves the pool alone (`UsesPool`), so `Structure` and the
   tickets are preserved by the lemmas of `ConnPoolProofs`, instantiated with
   the workers as threads. Ownership is not: it is what the double release
   breaks (`worker_pool_shared`), so there is no refinement of `ResourcePool`
   here.
2. `NoLostWakeup` and `QueueBounded` (`WakeupNext`): `push_back` and `post` are
   compensated by `apc = "post"`, `wait` by the count of `Awake`; a worker that
   finds the queue empty leaves `Awake` without an element, which is why the
   upper bound counts the interrupted waits.
3. `EveryRequestInOnePlace` (`PlacesNext`): each step moves one request from one
   place to the next; `CountInQueue` says what `push_back` and `pop_front` do to
   the number of positions of a request (a bijection of positions), and
   `OneWorkerFromPlaces` reads `OneWorkerPerRequest` off the sum.

`UserTableProofs` proves, for any sets of workers, names and passwords and any
number of requests, about `Spec` of `UserTable`: `TypeCorrect`, `MapInOrder`
and `Registered`, the three invariants of the run `user_table`. The assumption
is `UserTableAssumption`: `NULL` is no worker, password or page. The layers:

1. `Typed`: the types with the owner of the mutex, and `Asked` (a busy worker
   has a request, without which `users[name]` has no meaning).
2. `Behind`: except for names whose last insert has failed, the map and the last
   rows differ at most at the name of a worker at its store. It needs that only
   one worker is between insert and store, which is the mutex.
3. `OnItsWay`: what a worker has written when it stands at the store, at the
   unlock, or behind its answer. `StoredStays` says that no other worker takes
   it away: rows and names are only added.

`BlockQueueProofs` proves, for any producers, consumers and items, any size of
the array and any number of pushes, about `Spec` of `BlockQueue`: `TypeCorrect`
and `NoLostWakeup`, the two invariants of the run `block_queue`, and
`Implements`: the circular array implements `BoundedFifo`. The assumption is
`BlockQueueAssumption`. The layers:

1. `Structure`: types, the owner of the mutex (`Mutex`), who is in the
   condition variable (`Blocked`), what each thread is doing (`Operation`), and
   that a thread about to store has a free slot and one about to take an item
   (`Room`). The mutex is what keeps the latter true between the test and the
   assignment.
2. `Indices`: the slot of the next store is `m_size` slots beyond the oldest
   item, modulo the size of the array. `push` moves `m_back` before it stores
   and `pop` moves `m_front` before it takes, so both slots are read off the
   program counters.
3. `NoSleeperWithItems`: a push wakes all sleepers with its broadcast.

For the refinement, a store appends to the sequence that is read from the oldest
item on, and a take removes its first element; the arithmetic of wrapping around
is in lemmas of its own.

`AsyncLogProofs` proves, for any number of writers, lines and days, any size of
the queue (0 for a synchronous log) and any length of a part, about `Spec` of
`AsyncLog`: `TypeCorrect`, and `LinesAccounted`, `NeverToClosedFile`, `FileFits`,
the three invariants of the run `async_log`. The assumption is
`AsyncLogAssumption`. The layers:

1. `Structure`: types, the mutex, that each thread finds its own line in the
   shared buffer (`OwnLine`), and that no line is counted that was not logged
   (`CountBounded`, by cardinalities: a writer that has yet to count is one of
   the logged lines that are not counted).
2. `FileOpen`: unless a writer is between `fclose` and `fopen`, the open file is
   the one for the day and the count. `NoWriteToClosedFile` follows step by
   step.
3. `Places`: the number of writers, queue positions, records and so on that have
   a line is one from the moment it is logged. The proof moves it from one to
   the next.

`BufferProofs` proves, for any bytes, initial size, size of the array of
`ReadFd` and amount of data, about `Spec` of `Buffer`: `TypeCorrect` and
`SizeStaysBounded`, the invariants of the run `buffer`, and `Implements`: the
vector with its two positions implements `ByteFifo`. Most of it is lemmas about
operators on one buffer: whether `MakeSpace` moves the bytes or grows the
vector, the readable bytes stay what they were and there is room; `Appended` and
`ReadInto` add to them at the end. The assumption is `BufferAssumption`.

`MainLoopProofs` proves, for any timers, deadlines, alarm period, capacity of
the pipe and size of a batch, about `LoopSpec` of `MainLoop`:

- `AlarmsNeverStop`: the invariant `KeepsTicking`. `Inv` adds that `epoll_wait`
  has failed with EINTR only (`InterruptedOnly`) and that what it has reported
  is still in the pipe (`EventHasBytes`): each link of the chain is set before
  the one before it is let go.
- `TypeCorrect`: `LoopTypeOK`, in which head never points to freed memory.
- `ListLinked`: `Linked`, the first half of `WellFormed`, for whatever deadlines
  callers set: a list out of order is still one list of exactly the allocated
  timers.
- `ListWellFormed` and `TickExact`: `WellFormed` and `TickFiresExactlyDue`, if a
  timer that is moved expires last (`MovedIsLatest`). The run has this too, and
  without it the order is lost (`BehindNotDueEither` above). A server with one
  idle timeout, for new connections and for activity, satisfies it.
- `OrderKept`: for any deadlines, a step takes a list in order to one in order,
  unless it is a call of `adjust_timer` that does not move the deadline back to
  at least that of the next timer (`MovedBack`; a last timer has to stay behind
  the one before it). The early return of `adjust_timer` is sound, then,
  wherever the deadlines come from; what breaks the order is a deadline set
  earlier than that of the next timer.

The assumptions are `TimerListAssumption` and `MainLoopAssumption`. Nothing
relates timers to numbers in the model, so the inductive invariant of the list,
`ListInv`, says that ranks exist: numbers that grow by one from node to node and
differ for different timers (`Chain`). Each operation of the list then has
a lemma that gives the ranks of its result. The loops of the code are
recursive functions, and nothing is known of one unless its equation has a
solution. `WalkExists` and `WalksExist` give one: from each node the walk ends at
the lowest rank where it may stop. What a walk returns (`PredecessorFacts`,
`DueFacts`, `FromFacts`, `NodeRank`) is shown by contradiction from the node of
the highest, or lowest, rank for which it fails: instead of induction, which
the provers cannot instantiate, the proofs use that a set of natural numbers has
a least one. `Linked` counts nodes up to the number of timers: that ranks do
not reach further is `RanksBounded`, an injection of ranks into timers.
`InOrder` adds to the order that a timer which is moved now will be the last;
with it `DueFacts` becomes that a tick takes every timer that is due.

`HttpConnProofs` proves, for any requests, any lengths that a header may tell,
any size of the read buffer, of the response and of the send buffer, about
`Spec` of `HttpConn`, under `HttpConnAssumption`:

- `TypeCorrect`, `MappingExact` and `TerminatorInBuffer`: `TypeOK`,
  `MappedWhileSending` and `BodyTerminatorInBuffer`, whatever the peer and the
  timer do. `Inv` is the types of the parser and of the counts (`Typed`,
  `Counted`), where there is something to send (`Mapping`), and the terminator
  itself (`TerminatorNext`: for a length that is not negative and a sum that does
  not overflow, the test of line 421 puts the NUL at most at `m_read_idx`, and
  that is below the size of the buffer after `read_once`).
- `StreamExact`: `StreamIsPrefixUnlessResent`, if the header fits into the send
  buffer, which is broken by the header in three pieces above. The peer takes
  data at any time. `Sending` adds what the two iovec stand for as long as no
  `write()` has sent twice: the whole response (`Whole`), the rest of the file
  (`RestOfFile`), or a response of which this `write()` has sent a part
  (`Partly`).
- `LinesFound`: `LinesNeverStall`, if every request has a header that ends in an
  empty line and begins with a token of its own (`ProperRequests`; TLC checks
  that the requests of the run are). `Lines` says that the read buffer is the
  beginning or the rest of one request, and that from the start of the line
  being parsed on it is as it was received.

### Only model-checked

Liveness (`WaiterServed`, `QueuedRequestProcessed`, `TermStops`,
`DueTimersFire`, `Drained`, `QueuedLineWritten`, `ResponseCompleted`,
`Answered`) is out of the prover's reach: it does not reason about fairness and
ENABLED. All other properties of the passing runs are theorems. The provers
cannot instantiate the library's theorems of induction over data; where a proof
would use induction it takes the least counterexample instead, as above.

## 6. Not modelled, and plan

Not modelled:

- `DestroyPool`: it unlocks its mutex twice when the list is not empty, which is
  undefined behaviour, and only the destructor of the pool calls it, when the
  process exits. Detached workers may still run then; what they meet is not
  defined either.
- The failures of `mysql_init`, `pthread_create`, `socketpair` and `fopen`. A
  failed `pthread_create` throws out of the constructor while the threads made
  before run on a pool that is gone; after a failed `fopen` the next `fputs` has
  a null pointer.
- The error return of `pthread_cond_wait` (block_queue.h:77-81) and with it the
  end of the flush thread (log.h:45), as said in section 3.
- The text of lines and headers; what happens after a write outside the read
  buffer.
- A `SELECT` that fails in `initmysql_result` (lines 851-854): the function goes
  on with a null result.
- Descriptor numbers and their reuse: `process` that goes on after `close_conn`
  (http_conn.cpp:161) or after `cb_func` has closed the descriptor under it
  (lst_timer.h:56) calls `modfd` on a number that a new connection may have by
  then. In the model that `modfd` does nothing. Which object the dispatch gives
  a new connection is open: neither the accept nor the table of connections is
  in the repository, and any model of it would check its own guess.
- What a client is owed whose request `append` has refused, and a shutdown of the
  worker pool: the caller of `append` is not in the repository, and the
  destructor only sets `m_stop`.
- `class cond` and `Log`'s destructor.
- Appending a `Buffer` to itself.

Open for proofs, besides liveness: a header that the socket takes in two pieces.
The model sends it correctly (TLC finds no violation of
`StreamIsPrefixUnlessResent` with
`HeaderLength = 3` and `SendBuffer = 2`), but `StreamExact` assumes that it goes
out in one.
