--------------------------- MODULE MainLoopProofs ---------------------------
(***************************************************************************)
(* Theorems about MainLoop and its list of timers, for any timers, any     *)
(* deadlines, any alarm period, any capacity of the signal pipe and any    *)
(* size of the batch that recv() takes.                                    *)
(*                                                                         *)
(* The chain of alarms (Inv): it never breaks, and no signal ends the loop *)
(* but SIGTERM.  No operation on the list moves the clock; nothing else    *)
(* about the list matters here.                                            *)
(*                                                                         *)
(* The list (ListInv): its pointers always form one doubly linked list of  *)
(* exactly the allocated timers.  A list is one if its nodes have ranks,   *)
(* numbers that grow by one from node to node (Chain).  The code walks the *)
(* list by recursive functions.  Each proof about one has two halves: a    *)
(* function that the ranks define satisfies the recursive equation, so     *)
(* there is a solution; and what is said of the solution holds of every    *)
(* node, since the node of the highest rank for which it fails would have  *)
(* to have a successor for which it fails.                                 *)
(*                                                                         *)
(* The order of the list: adjust_timer only keeps it if the deadline is    *)
(* moved back, beyond that of the next timer (MovedBack).  If the          *)
(* deadlines that are set are such that a timer that is moved expires last *)
(* of all (MovedIsLatest), it always is (InOrder), and a tick fires        *)
(* exactly the timers that are due, which is what TimerQueue promises.     *)
(***************************************************************************)
EXTENDS MainLoop, SequenceTheorems, FiniteSetTheorems, WellFoundedInduction, TLAPS

-----------------------------------------------------------------------------
(* The invariant of the loop                                               *)

\* The types of the loop's own variables.
LoopTyped ==
  /\ now \in Nat
  /\ alarmAt \in Nat \cup {Off}
  /\ raised \subseteq Signal
  /\ pipedfd \in Seq(Signal)
  /\ Len(pipedfd) <= PipeCapacity
  /\ errno \in {"none", "EINTR", "EAGAIN"}
  /\ timeout \in BOOLEAN
  /\ stop_server \in BOOLEAN
  /\ pc \in {"wait", "failed", "events", "handled", "broken", "stopped", "exited"}
  /\ pipeEvent \in BOOLEAN
  /\ kills \in 0..MaxKills

\* epoll_wait has failed because of a signal, and nothing has changed errno.
InterruptedOnly == pc = "failed" => errno = "EINTR"

\* What epoll_wait has reported is still in the pipe.
EventHasBytes == pipeEvent => pipedfd # <<>>

\* The inductive invariant of the loop.
Inv == LoopTyped /\ InterruptedOnly /\ EventHasBytes /\ KeepsTicking

-----------------------------------------------------------------------------
(* The signal pipe                                                         *)

\* After send() there is something in the pipe: the byte of the signal, or the
\* bytes that left it no room.
LEMMA SendByteFacts ==
  ASSUME LoopTyped, NEW sig \in Signal, SendByte(sig)
  PROVE  /\ pipedfd' \in Seq(Signal)
         /\ Len(pipedfd') <= PipeCapacity
         /\ pipedfd' # <<>>
<1>1. PipeCapacity \in Nat /\ PipeCapacity > 0
  BY MainLoopAssumption
<1>2. pipedfd \in Seq(Signal) /\ Len(pipedfd) \in Nat /\ Len(pipedfd) <= PipeCapacity
  BY DEF LoopTyped
<1>3. CASE Len(pipedfd) < PipeCapacity
  <2>1. pipedfd' = Append(pipedfd, sig)
    BY <1>3 DEF SendByte
  <2> QED
    BY <1>1, <1>2, <1>3, <2>1, AppendProperties
<1>4. CASE ~ (Len(pipedfd) < PipeCapacity)
  <2>1. pipedfd' = pipedfd
    BY <1>4 DEF SendByte
  <2>2. Len(pipedfd) # 0
    BY <1>1, <1>2, <1>4
  <2> QED
    BY <1>2, <2>1, <2>2, EmptySeq
<1> QED
  BY <1>3, <1>4

\* recv() takes at least one byte if there is one, and the loop over the batch
\* meets one of the two signals.
LEMMA BatchFacts ==
  ASSUME LoopTyped
  PROVE  /\ Rest \in Seq(Signal)
         /\ Len(Rest) <= PipeCapacity
         /\ pipedfd # <<>> => Received("SIGALRM") \/ Received("SIGTERM")
<1> DEFINE n == IF Len(pipedfd) < BatchSize THEN Len(pipedfd) ELSE BatchSize
<1>1. pipedfd \in Seq(Signal) /\ Len(pipedfd) \in Nat /\ Len(pipedfd) <= PipeCapacity
      /\ PipeCapacity \in Nat /\ BatchSize \in Nat /\ BatchSize > 0
  BY MainLoopAssumption DEF LoopTyped
<1>2. n \in Nat /\ n <= Len(pipedfd)
  BY <1>1
<1>3. Batch = SubSeq(pipedfd, 1, n)
  BY DEF Batch
<1>4. pipedfd # <<>> => n >= 1
  BY <1>1, EmptySeq
<1> HIDE DEF n
<1>5. \A i \in 1..n : pipedfd[i] \in Signal
  BY <1>1, <1>2
<1>6. /\ Batch \in Seq(Signal) /\ Len(Batch) = n
      /\ \A i \in 1..n : Batch[i] = pipedfd[i]
  <2>1. /\ SubSeq(pipedfd, 1, n) \in Seq(Signal)
        /\ Len(SubSeq(pipedfd, 1, n)) = IF 1 <= n THEN n - 1 + 1 ELSE 0
        /\ \A i \in 1..(n - 1 + 1) : SubSeq(pipedfd, 1, n)[i] = pipedfd[1 + i - 1]
    BY <1>2, <1>5, SubSeqProperties
  <2> QED
    BY <1>2, <1>3, <2>1
<1>7. Rest \in Seq(Signal) /\ Len(Rest) <= PipeCapacity
  <2>1. Rest = SubSeq(pipedfd, n + 1, Len(pipedfd))
    BY <1>6 DEF Rest
  <2>2. \A i \in (n + 1)..Len(pipedfd) : pipedfd[i] \in Signal
    BY <1>1, <1>2
  <2>3. /\ SubSeq(pipedfd, n + 1, Len(pipedfd)) \in Seq(Signal)
        /\ Len(SubSeq(pipedfd, n + 1, Len(pipedfd)))
             = IF n + 1 <= Len(pipedfd) THEN Len(pipedfd) - (n + 1) + 1 ELSE 0
    BY <1>1, <1>2, <2>2, n + 1 \in Int, Len(pipedfd) \in Int, SubSeqProperties
  <2> QED
    BY <1>1, <1>2, <2>1, <2>3
<1>8. ASSUME pipedfd # <<>> PROVE Received("SIGALRM") \/ Received("SIGTERM")
  <2>1. 1 \in DOMAIN Batch /\ Batch[1] \in Signal
    BY <1>2, <1>4, <1>6, <1>8
  <2> QED
    BY <2>1 DEF Received, Signal
<1> QED
  BY <1>7, <1>8

-----------------------------------------------------------------------------
(* The chain of alarms is kept                                             *)

\* The first alarm is set before the loop starts.
LEMMA InvInit == LoopInit => Inv
<1> SUFFICES ASSUME LoopInit PROVE Inv
  OBVIOUS
<1> USE TimerListAssumption, MainLoopAssumption DEF LoopInit, Init
<1>1. LoopTyped
  <2>1. now \in Nat /\ alarmAt \in Nat /\ 0 \in 0..MaxKills
    OBVIOUS
  <2>2. pipedfd \in Seq(Signal) /\ Len(pipedfd) = 0 /\ 0 <= PipeCapacity
    BY EmptySeq
  <2> QED
    BY <2>1, <2>2 DEF LoopTyped
<1>2. InterruptedOnly /\ EventHasBytes /\ KeepsTicking
  BY DEF InterruptedOnly, EventHasBytes, KeepsTicking, Running
<1> QED
  BY <1>1, <1>2 DEF Inv

\* Each link of the chain is set before the one before it is let go: the alarm
\* becomes a signal, the signal a byte or one of those in its way, the byte a
\* flag, and the flag an alarm.
LEMMA InvNext == Inv /\ [LoopNext]_loopVars => Inv'
<1> SUFFICES ASSUME Inv, [LoopNext]_loopVars PROVE Inv'
  OBVIOUS
<1> USE MainLoopAssumption DEF Inv, InterruptedOnly, EventHasBytes, KeepsTicking, Running
<1>1. ASSUME Second PROVE Inv'
  <2>1. now' = now + 1 /\ now \in Nat /\ now' \in Nat
    BY <1>1 DEF Second, Advance, LoopTyped
  <2>2. LoopTyped'
    BY <1>1, <2>1 DEF Second, LoopTyped, Signal
  <2>3. alarmAt > now => alarmAt' > now' \/ "SIGALRM" \in raised'
    BY <1>1, <2>1 DEF Second, LoopTyped, Off
  <2>4. raised \subseteq raised'
    BY <1>1 DEF Second
  <2> QED
    BY <1>1, <2>2, <2>3, <2>4 DEF Second
<1>2. ASSUME Kill PROVE Inv'
  BY <1>2 DEF Kill, timerVars, vars, LoopTyped, Signal
<1>3. ASSUME NEW sig \in Signal, HandleSignal(sig) PROVE Inv'
  <2>1. pipedfd' \in Seq(Signal) /\ Len(pipedfd') <= PipeCapacity /\ pipedfd' # <<>>
    BY <1>3, SendByteFacts DEF HandleSignal
  <2>2. LoopTyped'
    BY <1>3, <2>1 DEF HandleSignal, timerVars, vars, LoopTyped
  <2> QED
    BY <1>3, <2>1, <2>2 DEF HandleSignal
<1>4. ASSUME NEW sig \in Signal, InterruptWait(sig) PROVE Inv'
  <2>1. pipedfd' \in Seq(Signal) /\ Len(pipedfd') <= PipeCapacity /\ pipedfd' # <<>>
    BY <1>4, SendByteFacts DEF InterruptWait
  <2>2. LoopTyped'
    BY <1>4, <2>1 DEF InterruptWait, timerVars, vars, LoopTyped
  <2> QED
    BY <1>4, <2>1, <2>2 DEF InterruptWait
<1>5. ASSUME PipeReadable \/ ClientsReadable \/ EndOfEvents \/ WaitFailed PROVE Inv'
  <2>1. LoopTyped'
    BY <1>5 DEF PipeReadable, ClientsReadable, EndOfEvents, WaitFailed, timerVars, vars, LoopTyped
  <2> QED
    BY <1>5, <2>1
       DEF PipeReadable, ClientsReadable, EndOfEvents, WaitFailed, timerVars, vars
<1>6. ASSUME ClientEvent PROVE Inv'
  <2>1. now' = now
    BY <1>6 DEF ClientEvent, Add, Adjust, Delete
  <2> QED
    BY <1>6, <2>1 DEF ClientEvent, LoopTyped
<1>7. ASSUME SignalEvent PROVE Inv'
  <2>1. /\ pipedfd' \in Seq(Signal) /\ Len(pipedfd') <= PipeCapacity
        /\ timeout' \/ stop_server'
    BY <1>7, BatchFacts DEF SignalEvent
  <2>2. LoopTyped'
    BY <1>7, <2>1 DEF SignalEvent, timerVars, vars, LoopTyped
  <2> QED
    BY <1>7, <2>1, <2>2 DEF SignalEvent
<1>8. ASSUME TimerHandler PROVE Inv'
  <2>1. now' = now /\ now \in Nat
    BY <1>8 DEF TimerHandler, TickList, Tick, timerVars, vars, LoopTyped
  <2>2. alarmAt' \in Nat /\ alarmAt' > now'
    BY <1>8, <2>1 DEF TimerHandler
  <2>3. LoopTyped'
    BY <1>8, <2>1, <2>2 DEF TimerHandler, LoopTyped
  <2> QED
    BY <1>8, <2>2, <2>3 DEF TimerHandler
<1>9. ASSUME NextIteration PROVE Inv'
  BY <1>9 DEF NextIteration, timerVars, vars, LoopTyped
<1>10. ASSUME Exit PROVE Inv'
  <2>1. now' = now
    BY <1>10 DEF Exit, Destroy
  <2> QED
    BY <1>10, <2>1 DEF Exit, LoopTyped
<1>11. ASSUME UNCHANGED loopVars PROVE Inv'
  BY <1>11 DEF loopVars, vars, LoopTyped
<1> QED
  BY <1>1, <1>2, <1>3, <1>4, <1>5, <1>6, <1>7, <1>8, <1>9, <1>10, <1>11
     DEF LoopNext, LoopStep, Deliver

-----------------------------------------------------------------------------
(* Lists as chains of ranks                                                *)

\* What a pointer to a timer can be.
NodeOrNull == Timers \cup {NULL}

\* The lists as values, linked in whatever way.
Lists ==
  [head : NodeOrNull, tail : NodeOrNull,
   next : [Timers -> NodeOrNull], prev : [Timers -> NodeOrNull]]

\* From the head on, next reaches exactly the timers in L, ending at the tail, and
\* prev leads back: r is a rank of each timer that grows by one from node to node,
\* and no two timers have the same.
Chain(l, L, r) ==
  /\ l \in Lists /\ L \subseteq Timers /\ r \in [Timers -> Int]
  /\ l.head \in L /\ l.prev[l.head] = NULL
  /\ l.tail \in L /\ l.next[l.tail] = NULL
  /\ \A t \in L \ {l.tail} :
       l.next[t] \in L /\ l.prev[l.next[t]] = t /\ r[l.next[t]] = r[t] + 1
  /\ \A t \in L \ {l.head} : l.prev[t] \in L /\ l.next[l.prev[t]] = t
  /\ \A t \in L : r[l.head] <= r[t] /\ r[t] <= r[l.tail]
  /\ \A t, u \in L : r[t] = r[u] => t = u

\* The deadlines e never fall from a timer in L to the next.
SortedOn(l, L, e) == \A t \in L : l.next[t] # NULL => e[t] <= e[l.next[t]]

\* A set of natural numbers has a least one.
LEMMA LeastNumber ==
  ASSUME NEW T \in SUBSET Nat, T # {}
  PROVE  \E i \in T : \A j \in T : i <= j
<1>1. \E i \in T : \A j \in T : ~ (<<j, i>> \in OpToRel(<, Nat))
  BY NatLessThanWellFounded, WFMin
<1>2. PICK i \in T : \A j \in T : ~ (<<j, i>> \in OpToRel(<, Nat))
  BY <1>1
<1>3. \A j \in T : ~ (j < i)
  BY <1>2 DEF OpToRel
<1> QED
  BY <1>3

\* One of the ranks that are bounded from below is the lowest.
LEMMA LowestRank ==
  ASSUME NEW S, S # {}, NEW r, NEW b \in Int, \A x \in S : r[x] \in Int /\ b <= r[x]
  PROVE  \E x \in S : \A y \in S : r[x] <= r[y]
<1> DEFINE T == {r[x] - b : x \in S}
<1>1. T \in SUBSET Nat /\ T # {} /\ \A y \in S : r[y] - b \in T
  OBVIOUS
<1>2. \A i \in T : \E x \in S : i = r[x] - b
  OBVIOUS
<1> HIDE DEF T
<1>3. PICK i \in T : \A j \in T : i <= j
  BY <1>1, LeastNumber
<1>4. PICK x \in S : i = r[x] - b
  BY <1>2
<1> QED
  BY <1>1, <1>3, <1>4

\* One of the ranks that are bounded from above is the highest.
LEMMA HighestRank ==
  ASSUME NEW S, S # {}, NEW r, NEW b \in Int, \A x \in S : r[x] \in Int /\ r[x] <= b
  PROVE  \E x \in S : \A y \in S : r[y] <= r[x]
<1> DEFINE m == [x \in S |-> 0 - r[x]]
<1>1. \A x \in S : m[x] = 0 - r[x] /\ m[x] \in Int /\ 0 - b <= m[x]
  OBVIOUS
<1> HIDE DEF m
<1>2. \E x \in S : \A y \in S : m[x] <= m[y]
  BY <1>1, 0 - b \in Int, LowestRank
<1> QED
  BY <1>1, <1>2

\* What a chain says about one node.
LEMMA NodeFacts ==
  ASSUME NEW l, NEW L, NEW r, Chain(l, L, r), NEW t \in L
  PROVE  /\ t \in Timers /\ t # NULL /\ r[t] \in Int
         /\ l.next[t] = NULL <=> t = l.tail
         /\ l.prev[t] = NULL <=> t = l.head
         /\ t # l.tail => l.next[t] \in L /\ l.next[t] \in Timers
         /\ t # l.head => l.prev[t] \in L /\ r[t] = r[l.prev[t]] + 1
         /\ t # l.head => r[l.head] < r[t]
         /\ t # l.tail => r[t] < r[l.tail]
<1>1. NULL \notin Timers
  BY TimerListAssumption
<1> QED
  BY <1>1 DEF Chain

-----------------------------------------------------------------------------
(* The place of a new timer                                                *)

\* The equation by which the loop of the private add_timer is defined.
IsWalk(l, e, timer, w) ==
  w = [n \in Timers |-> IF l.next[n] # NULL /\ e[timer] >= e[l.next[n]]
                        THEN w[l.next[n]]
                        ELSE n]

\* Predecessor() is a solution of its equation, if there is any.
LEMMA WalkEquation ==
  ASSUME NEW l, NEW e, NEW timer, NEW p, \E w : IsWalk(l, e, timer, w)
  PROVE  \E w : IsWalk(l, e, timer, w) /\ Predecessor(l, e, timer, p) = w[p]
<1> DEFINE Eq(walk) == walk = [n \in Timers |->
                                 IF l.next[n] # NULL /\ e[timer] >= e[l.next[n]]
                                 THEN walk[l.next[n]]
                                 ELSE n]
<1> DEFINE v == CHOOSE walk : Eq(walk)
<1>1. Predecessor(l, e, timer, p) = v[p]
  BY DEF Predecessor
<1>2. \E w : Eq(w)
  BY DEF IsWalk
<1> HIDE DEF Eq
<1>3. Eq(v)
  BY <1>2
<1> HIDE DEF v
<1> QED
  BY <1>1, <1>3 DEF Eq, IsWalk

\* There is a solution: from each node, the first on which the loop stops.
LEMMA WalkExists ==
  ASSUME NEW l, NEW L, NEW r, Chain(l, L, r), NEW e, NEW timer,
         \A n \in Timers \ L : l.next[n] \in L \cup {NULL}
  PROVE  \E w : IsWalk(l, e, timer, w)
<1> DEFINE On(n) == l.next[n] # NULL /\ e[timer] >= e[l.next[n]]
<1> DEFINE Stops(n) == {m \in L : r[n] <= r[m] /\ ~On(m)}
<1> DEFINE First(S) == CHOOSE m \in S : \A k \in S : r[m] <= r[k]
<1> DEFINE w == [n \in Timers |-> IF n \in L THEN First(Stops(n))
                                  ELSE IF On(n) THEN First(Stops(l.next[n]))
                                  ELSE n]
<1>1. \A n \in L : On(n) => l.next[n] \in L /\ l.next[n] \in Timers /\ r[l.next[n]] = r[n] + 1
  BY NodeFacts DEF Chain
<1>2. \A m, n \in L : /\ r[n] \in Int /\ r[m] \in Int
                      /\ r[n] = r[m] => n = m
                      /\ n \in Timers
  BY DEF Chain
<1> HIDE DEF On
<1>3. \A n \in L : On(n) => Stops(n) = Stops(l.next[n])
  BY <1>1, <1>2
<1>4. \A n \in L : ~On(n) => First(Stops(n)) = n
  <2> TAKE n \in L
  <2> HAVE ~On(n)
  <2>1. n \in Stops(n) /\ \A k \in Stops(n) : r[n] <= r[k]
    BY <1>2
  <2>2. ASSUME NEW m \in Stops(n), \A k \in Stops(n) : r[m] <= r[k] PROVE m = n
    BY <1>2, <2>1, <2>2
  <2> HIDE DEF Stops
  <2> QED
    BY <2>1, <2>2
<1> HIDE DEF Stops, First
<1>5. \A n \in Timers : w[n] = IF On(n) THEN w[l.next[n]] ELSE n
  <2> TAKE n \in Timers
  <2>1. CASE n \in L
    BY <1>1, <1>3, <1>4, <2>1
  <2>2. CASE n \notin L
    <3>1. On(n) => l.next[n] \in L /\ l.next[n] \in Timers
      BY <2>2 DEF On, Chain
    <3> QED
      BY <2>2, <3>1
  <2> QED
    BY <2>1, <2>2
<1>6. w = [n \in Timers |-> IF On(n) THEN w[l.next[n]] ELSE n]
  BY <1>5
<1> HIDE DEF w
<1> QED
  BY <1>6 DEF On, IsWalk

\* The loop stops at a node of the list that does not expire after the timer,
\* unless it is the first, and whose successor does.
LEMMA PredecessorFacts ==
  ASSUME NEW l, NEW L, NEW r, Chain(l, L, r), NEW e \in [Timers -> Int],
         NEW timer \in Timers, NEW p \in L,
         \A n \in Timers \ L : l.next[n] \in L \cup {NULL}
  PROVE  LET q == Predecessor(l, e, timer, p)
         IN /\ q \in L
            /\ q = p \/ e[q] <= e[timer]
            /\ l.next[q] # NULL => e[timer] < e[l.next[q]]
<1> DEFINE On(n) == l.next[n] # NULL /\ e[timer] >= e[l.next[n]]
<1>1. p \in Timers
  BY DEF Chain
<1>2. PICK v : IsWalk(l, e, timer, v) /\ Predecessor(l, e, timer, p) = v[p]
  BY WalkExists, WalkEquation
<1> DEFINE Good(n) == /\ v[n] \in L
                      /\ v[n] = n \/ e[v[n]] <= e[timer]
                      /\ ~On(v[n])
<1>3. \A n \in L : v[n] = IF On(n) THEN v[l.next[n]] ELSE n
  BY <1>2 DEF Chain, IsWalk
<1>4. \A n \in L : On(n) => l.next[n] \in L /\ r[l.next[n]] = r[n] + 1
                            /\ e[l.next[n]] <= e[timer]
  <2> TAKE n \in L
  <2>1. n # l.tail => l.next[n] \in L /\ l.next[n] \in Timers /\ r[l.next[n]] = r[n] + 1
    BY NodeFacts DEF Chain
  <2> QED
    BY <2>1 DEF Chain
<1>5. \A n \in L : r[n] \in Int /\ r[n] <= r[l.tail] /\ r[l.tail] \in Int
  BY DEF Chain
<1> HIDE DEF On
<1>6. \A n \in L : Good(n)
  <2> DEFINE Bad == {n \in L : ~Good(n)}
  <2>1. \A n \in L : ~On(n) => Good(n)
    BY <1>3
  <2>2. \A n \in L : On(n) /\ Good(l.next[n]) => Good(n)
    BY <1>3, <1>4
  <2> HIDE DEF Good
  <2>3. SUFFICES ASSUME Bad # {} PROVE FALSE
    OBVIOUS
  <2>4. PICK n \in Bad : \A m \in Bad : r[m] <= r[n]
    <3>1. \A x \in Bad : r[x] \in Int /\ r[x] <= r[l.tail]
      BY <1>5
    <3>2. r[l.tail] \in Int
      BY <2>3, <1>5
    <3> HIDE DEF Bad
    <3> QED
      BY <2>3, <3>1, <3>2, HighestRank
  <2>5. l.next[n] \in L \ Bad
    BY <2>1, <2>4, <1>4, <1>5
  <2> QED
    BY <2>1, <2>2, <2>5
<1>7. Good(p)
  BY <1>6
<1>8. \A n \in L : ~On(n) => (l.next[n] # NULL => e[timer] < e[l.next[n]])
  BY NodeFacts DEF On
<1> HIDE DEF On
<1> QED
  BY <1>2, <1>7, <1>8

-----------------------------------------------------------------------------
(* Insertion                                                               *)

\* A timer behind node p.
LEMMA ChainInsert ==
  ASSUME NEW l, NEW L, NEW r, Chain(l, L, r), NEW x \in Timers \ L, NEW p \in L,
         NEW m \in Lists,
         m.head = l.head,
         p = l.tail => m.tail = x,
         p # l.tail => m.tail = l.tail,
         m.next[p] = x,
         m.next[x] = l.next[p],
         \A t \in L \ {p} : m.next[t] = l.next[t],
         m.prev[x] = p,
         p # l.tail => m.prev[l.next[p]] = x,
         \A t \in L : t # l.next[p] => m.prev[t] = l.prev[t]
  PROVE  \E k : Chain(m, L \cup {x}, k)
<1> DEFINE k == [t \in Timers |-> IF t = x THEN r[p] + 1
                                  ELSE IF t \in L /\ r[t] > r[p] THEN r[t] + 1
                                  ELSE r[t]]
<1> DEFINE K == L \cup {x}
<1>0. \A t \in L : /\ t \in Timers /\ t # NULL /\ r[t] \in Int
                   /\ l.next[t] = NULL <=> t = l.tail
                   /\ l.prev[t] = NULL <=> t = l.head
                   /\ t # l.tail => l.next[t] \in L /\ l.next[t] \in Timers
                   /\ t # l.head => l.prev[t] \in L /\ r[t] = r[l.prev[t]] + 1
                   /\ t # l.head => r[l.head] < r[t]
                   /\ t # l.tail => r[t] < r[l.tail]
  BY NodeFacts
<1>1. m \in Lists /\ K \subseteq Timers /\ k \in [Timers -> Int]
  BY DEF Chain
<1>2. \A t \in L : k[t] = IF r[t] > r[p] THEN r[t] + 1 ELSE r[t]
  BY <1>0
<1>3. k[x] = r[p] + 1 /\ x # NULL
  BY TimerListAssumption
<1> HIDE DEF k
<1>4. m.head \in K /\ m.prev[m.head] = NULL
  <2>1. l.head # l.next[p]
    BY <1>0 DEF Chain
  <2> QED
    BY <2>1 DEF Chain
<1>5. m.tail \in K /\ m.next[m.tail] = NULL
  BY <1>0 DEF Chain
<1>6. \A t \in K \ {m.tail} :
        m.next[t] \in K /\ m.prev[m.next[t]] = t /\ k[m.next[t]] = k[t] + 1
  <2> TAKE t \in K \ {m.tail}
  <2>1. CASE t = x
    <3>1. p # l.tail /\ l.next[p] \in L /\ r[l.next[p]] = r[p] + 1
      BY <2>1, <1>0 DEF Chain
    <3> QED
      BY <2>1, <3>1, <1>0, <1>2, <1>3
  <2>2. CASE t = p
    BY <2>2, <1>0, <1>2, <1>3
  <2>3. CASE t \in L \ {p}
    <3>1. t # l.tail
      BY <2>3
    <3>2. l.next[t] \in L /\ l.prev[l.next[t]] = t /\ r[l.next[t]] = r[t] + 1
      BY <2>3, <3>1 DEF Chain
    <3>6. p # l.tail => l.prev[l.next[p]] = p
      BY DEF Chain
    <3>3. l.next[t] # l.next[p]
      BY <2>3, <3>2, <3>6, <1>0
    <3>4. m.next[t] = l.next[t] /\ m.prev[l.next[t]] = t
      BY <2>3, <3>2, <3>3
    <3>5. r[t] # r[p]
      BY <2>3 DEF Chain
    <3> QED
      BY <2>3, <3>2, <3>4, <3>5, <1>0, <1>2
  <2> QED
    BY <2>1, <2>2, <2>3
<1>7. \A t \in K \ {m.head} : m.prev[t] \in K /\ m.next[m.prev[t]] = t
  <2> TAKE t \in K \ {m.head}
  <2>1. CASE t = x
    BY <2>1
  <2>2. CASE t \in L /\ t = l.next[p]
    BY <2>2, <1>0
  <2>3. CASE t \in L /\ t # l.next[p]
    <3>1. m.prev[t] = l.prev[t] /\ l.prev[t] \in L /\ l.next[l.prev[t]] = t
      BY <2>3 DEF Chain
    <3> QED
      BY <2>3, <3>1
  <2> QED
    BY <2>1, <2>2, <2>3
<1>8. \A t \in K : k[m.head] <= k[t] /\ k[t] <= k[m.tail]
  BY <1>0, <1>2, <1>3 DEF Chain
<1>9. \A t, u \in K : k[t] = k[u] => t = u
  BY <1>0, <1>2, <1>3 DEF Chain
<1> QED
  BY <1>1, <1>4, <1>5, <1>6, <1>7, <1>8, <1>9 DEF Chain

\* The list keeps its order if the timer expires between its neighbours.
LEMMA SortedInsert ==
  ASSUME NEW l, NEW L, NEW r, Chain(l, L, r), NEW x \in Timers \ L, NEW p \in L,
         NEW m, NEW e \in [Timers -> Int],
         m.next[p] = x,
         m.next[x] = l.next[p],
         \A t \in L \ {p} : m.next[t] = l.next[t],
         SortedOn(l, L, e),
         e[p] <= e[x],
         l.next[p] # NULL => e[x] < e[l.next[p]]
  PROVE  SortedOn(m, L \cup {x}, e)
<1>1. ASSUME NEW t \in L \cup {x}, m.next[t] # NULL PROVE e[t] <= e[m.next[t]]
  <2>1. CASE t = x
    <3>1. l.next[p] \in Timers
      BY <1>1, <2>1, NodeFacts
    <3> QED
      BY <1>1, <2>1, <3>1
  <2>2. CASE t = p
    BY <2>2
  <2>3. CASE t \in L \ {p}
    BY <1>1, <2>3 DEF SortedOn
  <2> QED
    BY <2>1, <2>2, <2>3
<1> QED
  BY <1>1 DEF SortedOn

\* What an insertion behind p makes of the list.
Inserted(l, L, e, timer, p, m) ==
  /\ m \in Lists
  /\ \E k : Chain(m, L \cup {timer}, k)
  /\ SortedOn(l, L, e) /\ e[p] <= e[timer] => SortedOn(m, L \cup {timer}, e)
  /\ \A t \in Timers \ (L \cup {timer}) :
       m.next[t] = l.next[t] /\ m.prev[t] = l.prev[t]

\* The private add_timer: a node more, and the order is kept if the timer does not
\* expire before the node where the search for its place begins.
LEMMA InsertAfterFacts ==
  ASSUME NEW l, NEW L, NEW r, Chain(l, L, r), NEW e \in [Timers -> Int],
         NEW timer \in Timers \ L, NEW p \in L,
         \A n \in Timers \ L : l.next[n] \in L \cup {NULL}
  PROVE  Inserted(l, L, e, timer, p, InsertAfter(l, e, timer, p))
<1> DEFINE q == Predecessor(l, e, timer, p)
           n == l.next[q]
           m == InsertAfter(l, e, timer, p)
<1>1. q \in L /\ (q = p \/ e[q] <= e[timer]) /\ (n # NULL => e[timer] < e[n])
  BY PredecessorFacts
<1>2. m = [ head |-> l.head,
            tail |-> IF n = NULL THEN timer ELSE l.tail,
            next |-> [l.next EXCEPT ![q] = timer, ![timer] = n],
            prev |-> [t \in Timers |->
                        IF t = timer THEN q ELSE IF t = n THEN timer ELSE l.prev[t]] ]
  BY DEF InsertAfter
<1>3. l \in Lists /\ q \in Timers /\ q # timer /\ n \in L \cup {NULL}
      /\ (n = NULL <=> q = l.tail) /\ L \subseteq Timers /\ NULL \notin Timers
      /\ timer # n
  BY <1>1, NodeFacts, TimerListAssumption DEF Chain
<1> HIDE DEF q, n, m
<1>4. /\ m.head = l.head
      /\ m.tail = IF q = l.tail THEN timer ELSE l.tail
      /\ m.next = [l.next EXCEPT ![q] = timer, ![timer] = n]
      /\ m.prev = [t \in Timers |->
                     IF t = timer THEN q ELSE IF t = n THEN timer ELSE l.prev[t]]
  BY <1>2, <1>3
<1>5. m \in Lists
  <2>1. l.head \in NodeOrNull /\ l.tail \in NodeOrNull /\ l.next \in [Timers -> NodeOrNull]
        /\ l.prev \in [Timers -> NodeOrNull] /\ timer \in NodeOrNull /\ q \in NodeOrNull
        /\ n \in NodeOrNull
    BY <1>3 DEF Lists, NodeOrNull
  <2>2. m.next \in [Timers -> NodeOrNull] /\ m.prev \in [Timers -> NodeOrNull]
    BY <2>1, <1>4
  <2> QED
    BY <2>1, <2>2, <1>2, <1>4 DEF Lists
<1>6. /\ m.next[q] = timer
      /\ m.next[timer] = n
      /\ \A t \in Timers \ {q, timer} : m.next[t] = l.next[t]
      /\ m.prev[timer] = q
      /\ q # l.tail => m.prev[n] = timer
      /\ \A t \in Timers : t # n /\ t # timer => m.prev[t] = l.prev[t]
  BY <1>3, <1>4 DEF Lists
<1>7. \E k : Chain(m, L \cup {timer}, k)
  <2>1. n = l.next[q]
    BY DEF n
  <2>2. /\ \A t \in L \ {q} : m.next[t] = l.next[t]
        /\ q # l.tail => m.prev[l.next[q]] = timer
        /\ \A t \in L : t # l.next[q] => m.prev[t] = l.prev[t]
    BY <1>3, <1>6, <2>1
  <2>3. m.head = l.head /\ (q = l.tail => m.tail = timer) /\ (q # l.tail => m.tail = l.tail)
    BY <1>4
  <2>4. m.next[q] = timer /\ m.next[timer] = l.next[q] /\ m.prev[timer] = q
    BY <1>6, <2>1
  <2>5. q \in L
    BY <1>1
  <2> HIDE DEF n
  <2> QED
    BY <1>5, <2>2, <2>3, <2>4, <2>5, ChainInsert
<1>8. ASSUME SortedOn(l, L, e), e[p] <= e[timer] PROVE SortedOn(m, L \cup {timer}, e)
  BY <1>1, <1>3, <1>6, <1>8, SortedInsert DEF n
<1> QED
  BY <1>1, <1>3, <1>5, <1>6, <1>7, <1>8 DEF m, Inserted

\* A timer in front of the head.
LEMMA ChainFront ==
  ASSUME NEW l, NEW L, NEW r, Chain(l, L, r), NEW x \in Timers \ L,
         NEW m \in Lists,
         m.head = x,
         m.tail = l.tail,
         m.next[x] = l.head,
         m.prev[x] = NULL,
         m.prev[l.head] = x,
         \A t \in L : m.next[t] = l.next[t],
         \A t \in L \ {l.head} : m.prev[t] = l.prev[t]
  PROVE  \E k : Chain(m, L \cup {x}, k)
<1> DEFINE k == [t \in Timers |-> IF t = x THEN r[l.head] - 1 ELSE r[t]]
<1> DEFINE K == L \cup {x}
<1>0. \A t \in L : /\ t \in Timers /\ t # NULL /\ r[t] \in Int
                   /\ l.next[t] = NULL <=> t = l.tail
                   /\ l.prev[t] = NULL <=> t = l.head
                   /\ t # l.tail => l.next[t] \in L /\ l.next[t] \in Timers
                   /\ t # l.head => l.prev[t] \in L /\ r[t] = r[l.prev[t]] + 1
                   /\ t # l.head => r[l.head] < r[t]
                   /\ t # l.tail => r[t] < r[l.tail]
  BY NodeFacts
<1>1. m \in Lists /\ K \subseteq Timers /\ k \in [Timers -> Int]
  BY DEF Chain
<1>2. \A t \in L : k[t] = r[t]
  BY <1>0
<1>3. k[x] = r[l.head] - 1 /\ x # NULL
  BY TimerListAssumption
<1> HIDE DEF k
<1>4. m.head \in K /\ m.prev[m.head] = NULL
  OBVIOUS
<1>5. m.tail \in K /\ m.next[m.tail] = NULL
  BY <1>0 DEF Chain
<1>6. \A t \in K \ {m.tail} :
        m.next[t] \in K /\ m.prev[m.next[t]] = t /\ k[m.next[t]] = k[t] + 1
  <2> TAKE t \in K \ {m.tail}
  <2>1. CASE t = x
    BY <2>1, <1>0, <1>2, <1>3 DEF Chain
  <2>2. CASE t \in L
    <3>1. l.next[t] \in L /\ l.prev[l.next[t]] = t /\ r[l.next[t]] = r[t] + 1
      BY <2>2 DEF Chain
    <3>2. l.next[t] # l.head
      BY <2>2, <3>1, <1>0
    <3> QED
      BY <2>2, <3>1, <3>2, <1>2
  <2> QED
    BY <2>1, <2>2
<1>7. \A t \in K \ {m.head} : m.prev[t] \in K /\ m.next[m.prev[t]] = t
  <2> TAKE t \in K \ {m.head}
  <2>1. CASE t = l.head
    BY <2>1
  <2>2. CASE t # l.head
    BY <2>2 DEF Chain
  <2> QED
    BY <2>1, <2>2
<1>8. \A t \in K : k[m.head] <= k[t] /\ k[t] <= k[m.tail]
  BY <1>0, <1>2, <1>3 DEF Chain
<1>9. \A t, u \in K : k[t] = k[u] => t = u
  BY <1>0, <1>2, <1>3 DEF Chain
<1> QED
  BY <1>1, <1>4, <1>5, <1>6, <1>7, <1>8, <1>9 DEF Chain

-----------------------------------------------------------------------------
(* Removal                                                                 *)

\* The list from the node first on.
LEMMA ChainFrom ==
  ASSUME NEW l, NEW L, NEW r, Chain(l, L, r), NEW first \in L,
         NEW K, K = {t \in L : r[first] <= r[t]},
         NEW m \in Lists,
         m.head = first,
         m.tail = l.tail,
         m.prev[first] = NULL,
         \A t \in K : m.next[t] = l.next[t],
         \A t \in K \ {first} : m.prev[t] = l.prev[t]
  PROVE  Chain(m, K, r)
<1>0. \A t \in L : /\ t \in Timers /\ t # NULL /\ r[t] \in Int
                   /\ l.next[t] = NULL <=> t = l.tail
                   /\ l.prev[t] = NULL <=> t = l.head
                   /\ t # l.tail => l.next[t] \in L /\ l.next[t] \in Timers
                   /\ t # l.head => l.prev[t] \in L /\ r[t] = r[l.prev[t]] + 1
                   /\ t # l.head => r[l.head] < r[t]
                   /\ t # l.tail => r[t] < r[l.tail]
  BY NodeFacts
<1>1. m \in Lists /\ K \subseteq Timers /\ r \in [Timers -> Int]
  BY DEF Chain
<1>2. first \in K /\ l.tail \in K
  BY <1>0 DEF Chain
<1>3. \A t \in K \ {l.tail} : l.next[t] \in K \ {first} /\ l.prev[l.next[t]] = t
                              /\ r[l.next[t]] = r[t] + 1
  BY <1>0 DEF Chain
<1>4. \A t \in K \ {first} : t # l.head /\ l.prev[t] \in K /\ l.next[l.prev[t]] = t
  <2> TAKE t \in K \ {first}
  <2>1. r[first] < r[t]
    BY <1>0 DEF Chain
  <2>2. t # l.head
    BY <2>1, <1>0
  <2> QED
    BY <2>1, <2>2, <1>0 DEF Chain
<1>5. \A t \in K : r[m.head] <= r[t] /\ r[t] <= r[m.tail]
  BY DEF Chain
<1>6. \A t, u \in K : r[t] = r[u] => t = u
  BY DEF Chain
<1>7. m.next[m.tail] = NULL
  BY <1>0, <1>2
<1>8. \A t \in K \ {m.tail} : m.next[t] \in K /\ m.prev[m.next[t]] = t
                              /\ r[m.next[t]] = r[t] + 1
  BY <1>3
<1>9. \A t \in K \ {m.head} : m.prev[t] \in K /\ m.next[m.prev[t]] = t
  BY <1>4
<1> QED
  BY <1>1, <1>2, <1>5, <1>6, <1>7, <1>8, <1>9 DEF Chain

\* The list without its head.
LEMMA ChainNoHead ==
  ASSUME NEW l, NEW L, NEW r, Chain(l, L, r), l.head # l.tail,
         NEW m \in Lists,
         m.head = l.next[l.head],
         m.tail = l.tail,
         m.prev[l.next[l.head]] = NULL,
         \A t \in L \ {l.head} : m.next[t] = l.next[t],
         \A t \in L \ {l.head, l.next[l.head]} : m.prev[t] = l.prev[t]
  PROVE  Chain(m, L \ {l.head}, r)
<1> DEFINE first == l.next[l.head]
<1>1. l.head \in L /\ first \in L /\ r[first] = r[l.head] + 1
  BY DEF Chain
<1>2. \A t \in L : /\ r[t] \in Int
                   /\ t # l.head => r[l.head] < r[t]
  BY NodeFacts
<1>3. L \ {l.head} = {t \in L : r[first] <= r[t]}
  BY <1>1, <1>2
<1>4. m.head = first /\ m.prev[first] = NULL
      /\ \A t \in (L \ {l.head}) \ {first} : m.prev[t] = l.prev[t]
  OBVIOUS
<1> HIDE DEF first
<1> QED
  BY <1>1, <1>3, <1>4, ChainFrom

\* The list without its tail.
LEMMA ChainNoTail ==
  ASSUME NEW l, NEW L, NEW r, Chain(l, L, r), l.head # l.tail,
         NEW m \in Lists,
         m.head = l.head,
         m.tail = l.prev[l.tail],
         m.next[l.prev[l.tail]] = NULL,
         \A t \in L \ {l.tail, l.prev[l.tail]} : m.next[t] = l.next[t],
         \A t \in L \ {l.tail} : m.prev[t] = l.prev[t]
  PROVE  Chain(m, L \ {l.tail}, r)
<1> DEFINE K == L \ {l.tail}
           last == l.prev[l.tail]
<1>0. \A t \in L : /\ t \in Timers /\ t # NULL /\ r[t] \in Int
                   /\ t # l.tail => l.next[t] \in L /\ l.next[t] \in Timers
                   /\ t # l.head => l.prev[t] \in L /\ r[t] = r[l.prev[t]] + 1
                   /\ t # l.head => r[l.head] < r[t]
                   /\ t # l.tail => r[t] < r[l.tail]
  BY NodeFacts
<1>1. l.head \in L /\ l.tail \in L /\ last \in L /\ r[l.tail] = r[last] + 1 /\ l.next[last] = l.tail
  BY <1>0 DEF Chain
<1>2. last \in K
  BY <1>0, <1>1
<1>3. m \in Lists /\ K \subseteq Timers /\ r \in [Timers -> Int]
  BY DEF Chain
<1>4. m.head \in K /\ m.prev[m.head] = NULL /\ m.tail \in K /\ m.next[m.tail] = NULL
  BY <1>1, <1>2 DEF Chain
<1>5. \A t \in K \ {last} : l.next[t] # l.tail
  <2>1. \A t \in K : l.prev[l.next[t]] = t
    BY DEF Chain
  <2> QED
    BY <2>1
<1>6. \A t \in K \ {m.tail} : m.next[t] \in K /\ m.prev[m.next[t]] = t
                              /\ r[m.next[t]] = r[t] + 1
  <2> TAKE t \in K \ {m.tail}
  <2>1. l.next[t] \in K /\ l.prev[l.next[t]] = t /\ r[l.next[t]] = r[t] + 1
    BY <1>5 DEF Chain
  <2> QED
    BY <2>1
<1>7. \A t \in K \ {m.head} : m.prev[t] \in K /\ m.next[m.prev[t]] = t
  <2> TAKE t \in K \ {m.head}
  <2>1. l.prev[t] \in L /\ l.next[l.prev[t]] = t /\ r[t] = r[l.prev[t]] + 1
    BY <1>0 DEF Chain
  <2>2. l.prev[t] # l.tail /\ l.prev[t] # last
    BY <2>1, <1>0, <1>1
  <2> QED
    BY <2>1, <2>2
<1>8. \A t \in K : r[m.head] <= r[t] /\ r[t] <= r[m.tail]
  BY <1>0, <1>1 DEF Chain
<1>9. \A t, u \in K : r[t] = r[u] => t = u
  BY DEF Chain
<1> QED
  BY <1>3, <1>4, <1>6, <1>7, <1>8, <1>9 DEF Chain

\* The list without a node in the middle.
LEMMA ChainNoMiddle ==
  ASSUME NEW l, NEW L, NEW r, Chain(l, L, r), NEW x \in L, x # l.head, x # l.tail,
         NEW m \in Lists,
         m.head = l.head,
         m.tail = l.tail,
         m.next[l.prev[x]] = l.next[x],
         m.prev[l.next[x]] = l.prev[x],
         \A t \in L \ {x, l.prev[x]} : m.next[t] = l.next[t],
         \A t \in L \ {x, l.next[x]} : m.prev[t] = l.prev[t]
  PROVE  \E k : Chain(m, L \ {x}, k)
<1> DEFINE K == L \ {x}
           p == l.prev[x]
           n == l.next[x]
           k == [t \in Timers |-> IF r[t] > r[x] THEN r[t] - 1 ELSE r[t]]
<1>0. \A t \in L : /\ t \in Timers /\ t # NULL /\ r[t] \in Int
                   /\ l.next[t] = NULL <=> t = l.tail
                   /\ l.prev[t] = NULL <=> t = l.head
                   /\ t # l.tail => l.next[t] \in L /\ l.next[t] \in Timers
                   /\ t # l.head => l.prev[t] \in L /\ r[t] = r[l.prev[t]] + 1
                   /\ t # l.head => r[l.head] < r[t]
                   /\ t # l.tail => r[t] < r[l.tail]
  BY NodeFacts
<1>1. /\ p \in L /\ r[x] = r[p] + 1 /\ l.next[p] = x
      /\ n \in L /\ r[n] = r[x] + 1 /\ l.prev[n] = x
  BY <1>0 DEF Chain
<1>2. m \in Lists /\ K \subseteq Timers /\ k \in [Timers -> Int]
  BY DEF Chain
<1>3. \A t \in L : k[t] = IF r[t] > r[x] THEN r[t] - 1 ELSE r[t]
  BY <1>0
<1>4. l.head \in L /\ l.tail \in L /\ p \in K /\ n \in K /\ p # l.tail /\ n # l.head
  BY <1>0, <1>1 DEF Chain
<1>5. \A t \in K : r[t] # r[x]
  BY DEF Chain
<1> HIDE DEF k, p, n
<1>6. m.head \in K /\ m.prev[m.head] = NULL /\ m.tail \in K /\ m.next[m.tail] = NULL
  <2>1. m.prev[l.head] = l.prev[l.head] /\ m.next[l.tail] = l.next[l.tail]
    BY <1>4 DEF p, n
  <2> QED
    BY <2>1, <1>4 DEF Chain
<1>7. \A t \in K \ {m.tail} :
        m.next[t] \in K /\ m.prev[m.next[t]] = t /\ k[m.next[t]] = k[t] + 1
  <2> TAKE t \in K \ {m.tail}
  <2>1. CASE t = p
    <3>1. m.next[t] = n /\ m.prev[n] = p
      BY <2>1 DEF p, n
    <3> QED
      BY <2>1, <3>1, <1>0, <1>1, <1>3, <1>4
  <2>2. CASE t # p
    <3>1. m.next[t] = l.next[t]
      BY <2>2 DEF p
    <3>2. l.next[t] \in L /\ l.prev[l.next[t]] = t /\ r[l.next[t]] = r[t] + 1
      BY DEF Chain
    <3>3. l.next[t] # x /\ l.next[t] # n
      BY <2>2, <3>2, <1>1 DEF p
    <3>4. m.prev[l.next[t]] = t
      BY <3>2, <3>3 DEF n
    <3>5. l.next[t] \in K
      BY <3>2, <3>3
    <3> QED
      BY <3>1, <3>2, <3>4, <3>5, <1>0, <1>3, <1>5
  <2> QED
    BY <2>1, <2>2
<1>8. \A t \in K \ {m.head} : m.prev[t] \in K /\ m.next[m.prev[t]] = t
  <2> TAKE t \in K \ {m.head}
  <2>1. CASE t = n
    <3>1. m.prev[t] = p /\ m.next[p] = n
      BY <2>1 DEF p, n
    <3> QED
      BY <2>1, <3>1, <1>4
  <2>2. CASE t # n
    <3>1. m.prev[t] = l.prev[t]
      BY <2>2 DEF n
    <3>2. l.prev[t] \in L /\ l.next[l.prev[t]] = t
      BY DEF Chain
    <3>3. l.prev[t] # x /\ l.prev[t] # p
      BY <2>2, <3>2, <1>1 DEF n
    <3> QED
      BY <3>1, <3>2, <3>3 DEF p
  <2> QED
    BY <2>1, <2>2
<1>9. \A t \in K : k[m.head] <= k[t] /\ k[t] <= k[m.tail]
  BY <1>0, <1>3, <1>4, <1>5 DEF Chain
<1>10. \A t, u \in K : k[t] = k[u] => t = u
  <2> TAKE t, u \in K
  <2> HAVE k[t] = k[u]
  <2>1. r[t] = r[u]
    BY <1>0, <1>3, <1>5
  <2> QED
    BY <2>1 DEF Chain
<1> QED
  BY <1>2, <1>6, <1>7, <1>8, <1>9, <1>10 DEF Chain

\* A chain is about the links of its nodes only.
LEMMA ChainSame ==
  ASSUME NEW l, NEW L, NEW r, Chain(l, L, r), NEW m \in Lists,
         m.head = l.head, m.tail = l.tail,
         \A t \in L : m.next[t] = l.next[t] /\ m.prev[t] = l.prev[t]
  PROVE  Chain(m, L, r)
<1>1. l.head \in L /\ l.tail \in L
  BY DEF Chain
<1>2. \A t \in L \ {m.tail} :
       m.next[t] \in L /\ m.prev[m.next[t]] = t /\ r[m.next[t]] = r[t] + 1
  BY DEF Chain
<1>3. \A t \in L \ {m.head} : m.prev[t] \in L /\ m.next[m.prev[t]] = t
  BY DEF Chain
<1> QED
  BY <1>1, <1>2, <1>3 DEF Chain

\* Without a node the list keeps its order.
LEMMA SortedRemove ==
  ASSUME NEW l, NEW L, NEW r, Chain(l, L, r), NEW x \in L, NEW m,
         \A t \in L \ {x} : m.next[t] = IF l.next[t] = x THEN l.next[x] ELSE l.next[t],
         NEW e \in [Timers -> Int], SortedOn(l, L, e)
  PROVE  SortedOn(m, L \ {x}, e)
<1>1. ASSUME NEW t \in L \ {x}, m.next[t] # NULL PROVE e[t] <= e[m.next[t]]
  <2>1. CASE l.next[t] = x
    <3>1. x # NULL /\ l.next[x] \in Timers /\ x \in Timers /\ t \in Timers
      BY <1>1, <2>1, NodeFacts
    <3>2. e[t] <= e[x] /\ e[x] <= e[l.next[x]]
      BY <1>1, <2>1, <3>1 DEF SortedOn
    <3>3. e[t] \in Int /\ e[x] \in Int /\ e[l.next[x]] \in Int
      BY <3>1
    <3> QED
      BY <1>1, <2>1, <3>2, <3>3
  <2>2. CASE l.next[t] # x
    BY <1>1, <2>2 DEF SortedOn
  <2> QED
    BY <2>1, <2>2
<1> QED
  BY <1>1 DEF SortedOn

\* What removing x makes of the list.
Removed(l, L, x, m) ==
  /\ m \in Lists
  /\ L = {x} => m.head = NULL
  /\ L # {x} => \E k : Chain(m, L \ {x}, k)
  /\ \A t \in L \ {x} : m.next[t] = IF l.next[t] = x THEN l.next[x] ELSE l.next[t]
  /\ \A t \in Timers \ L : m.next[t] = l.next[t] /\ m.prev[t] = l.prev[t]

\* del_timer: one node less.
LEMMA DelTimerFacts ==
  ASSUME NEW l, NEW L, NEW r, Chain(l, L, r), NEW x \in L
  PROVE  Removed(l, L, x, DelTimer(l, x))
<1> DEFINE p == l.prev[x]
           n == l.next[x]
           m == DelTimer(l, x)
<1>0. \A t \in L : /\ t \in Timers /\ t # NULL /\ r[t] \in Int
                   /\ l.next[t] = NULL <=> t = l.tail
                   /\ l.prev[t] = NULL <=> t = l.head
                   /\ t # l.tail => l.next[t] \in L /\ l.next[t] \in Timers
                   /\ t # l.head => l.prev[t] \in L /\ r[t] = r[l.prev[t]] + 1
                   /\ t # l.head => r[l.head] < r[t]
                   /\ t # l.tail => r[t] < r[l.tail]
  BY NodeFacts
<1>1. /\ l \in Lists /\ l.head \in L /\ l.tail \in L
      /\ \A t \in L \ {l.tail} : l.prev[l.next[t]] = t
      /\ \A t \in L \ {l.head} : l.next[l.prev[t]] = t
      /\ \A t, u \in L : r[t] = r[u] => t = u
  BY DEF Chain
<1>2. m = IF x = l.head /\ x = l.tail THEN [l EXCEPT !.head = NULL, !.tail = NULL]
          ELSE IF x = l.head THEN [l EXCEPT !.head = n, !.prev[n] = NULL]
          ELSE IF x = l.tail THEN [l EXCEPT !.tail = p, !.next[p] = NULL]
          ELSE [l EXCEPT !.next[p] = n, !.prev[n] = p]
  BY DEF DelTimer
<1>3. l.next \in [Timers -> NodeOrNull] /\ l.prev \in [Timers -> NodeOrNull]
      /\ l.head \in NodeOrNull /\ l.tail \in NodeOrNull /\ NULL \in NodeOrNull
      /\ p \in NodeOrNull /\ n \in NodeOrNull /\ L \subseteq Timers
  BY <1>0, <1>1 DEF Lists, NodeOrNull
<1> HIDE DEF p, n, m
<1>4. CASE x = l.head /\ x = l.tail
  <2>1. m.head = NULL /\ m.tail = NULL /\ m.next = l.next /\ m.prev = l.prev /\ m \in Lists
    BY <1>1, <1>2, <1>4 DEF Lists, NodeOrNull
  <2>2. L = {x}
    <3>1. \A t \in L : t = x
      BY <1>0, <1>4
    <3> QED
      BY <3>1
  <2> QED
    BY <2>1, <2>2, <1>3 DEF m, Removed
<1>5. CASE x = l.head /\ x # l.tail
  <2>1. m.head = n /\ m.tail = l.tail /\ m.next = l.next
        /\ m.prev = [l.prev EXCEPT ![n] = NULL] /\ m \in Lists
    BY <1>1, <1>2, <1>3, <1>5 DEF Lists
  <2>2. n \in L /\ n = l.next[l.head] /\ m.prev[n] = NULL
        /\ \A t \in Timers \ {n} : m.prev[t] = l.prev[t]
    BY <2>1, <1>0, <1>3, <1>5 DEF n
  <2>3. \E k : Chain(m, L \ {x}, k)
    BY <2>1, <2>2, <1>3, <1>5, ChainNoHead
  <2>4. \A t \in L \ {x} : l.next[t] # x
    BY <1>0, <1>1, <1>5
  <2>5. l.tail # x /\ l.tail \in L
    BY <1>1, <1>5
  <2> QED
    BY <2>1, <2>2, <2>3, <2>4, <2>5, <1>3 DEF m, Removed
<1>6. CASE x # l.head /\ x = l.tail
  <2>1. m.head = l.head /\ m.tail = p /\ m.prev = l.prev
        /\ m.next = [l.next EXCEPT ![p] = NULL] /\ m \in Lists
    BY <1>1, <1>2, <1>3, <1>6 DEF Lists
  <2>2. p \in L /\ p = l.prev[l.tail] /\ m.next[p] = NULL
        /\ \A t \in Timers \ {p} : m.next[t] = l.next[t]
    BY <2>1, <1>0, <1>3, <1>6 DEF p
  <2>3. \E k : Chain(m, L \ {x}, k)
    BY <2>1, <2>2, <1>3, <1>6, ChainNoTail
  <2>4. l.next[x] = NULL /\ l.next[p] = x /\ \A t \in L \ {x, p} : l.next[t] # x
    BY <1>0, <1>1, <1>6 DEF p
  <2>5. l.head # x /\ l.head \in L
    BY <1>1, <1>6
  <2> QED
    BY <2>1, <2>2, <2>3, <2>4, <2>5, <1>3 DEF m, Removed
<1>7. CASE x # l.head /\ x # l.tail
  <2>1. m.head = l.head /\ m.tail = l.tail /\ m.prev = [l.prev EXCEPT ![n] = p]
        /\ m.next = [l.next EXCEPT ![p] = n] /\ m \in Lists
    BY <1>1, <1>2, <1>3, <1>7 DEF Lists
  <2>2. /\ p \in L /\ n \in L /\ p = l.prev[x] /\ n = l.next[x]
        /\ m.next[p] = n /\ \A t \in Timers \ {p} : m.next[t] = l.next[t]
        /\ m.prev[n] = p /\ \A t \in Timers \ {n} : m.prev[t] = l.prev[t]
    BY <2>1, <1>0, <1>3, <1>7 DEF p, n
  <2>3. \E k : Chain(m, L \ {x}, k)
    BY <2>1, <2>2, <1>3, <1>7, ChainNoMiddle
  <2>4. l.next[p] = x /\ \A t \in L \ {x, p} : l.next[t] # x
    BY <1>0, <1>1, <1>7 DEF p
  <2>5. l.head # x /\ l.head \in L
    BY <1>1, <1>7
  <2> QED
    BY <2>1, <2>2, <2>3, <2>4, <2>5, <1>3 DEF m, Removed
<1> QED
  BY <1>4, <1>5, <1>6, <1>7

-----------------------------------------------------------------------------
(* add_timer, adjust_timer and del_timer                                   *)

\* l is a list of exactly the timers in L, and no other timer has a link.
ListOf(l, L) ==
  /\ l \in Lists
  /\ L \subseteq Timers
  /\ \A t \in Timers \ L : l.next[t] = NULL /\ l.prev[t] = NULL
  /\ L = {} => l.head = NULL
  /\ L # {} => \E r : Chain(l, L, r)

\* The order does not depend on the deadlines of other timers.
LEMMA SortedSame ==
  ASSUME NEW l, NEW L, NEW r, Chain(l, L, r), NEW e, NEW d,
         \A t \in L : e[t] = d[t], SortedOn(l, L, e)
  PROVE  SortedOn(l, L, d)
<1>1. \A t \in L : l.next[t] # NULL => l.next[t] \in L
  BY NodeFacts
<1> QED
  BY <1>1 DEF SortedOn

\* add_timer: the timer is in the list, and the list keeps its order.
LEMMA AddTimerFacts ==
  ASSUME NEW l, NEW L, ListOf(l, L), NEW e \in [Timers -> Int], NEW x \in Timers \ L
  PROVE  /\ ListOf(AddTimer(l, e, x), L \cup {x})
         /\ SortedOn(l, L, e) => SortedOn(AddTimer(l, e, x), L \cup {x}, e)
<1> DEFINE m == AddTimer(l, e, x)
<1>1. m = IF l.head = NULL THEN [l EXCEPT !.head = x, !.tail = x]
          ELSE IF e[x] < e[l.head]
          THEN [l EXCEPT !.next[x] = l.head, !.prev[l.head] = x, !.head = x]
          ELSE InsertAfter(l, e, x, l.head)
  BY DEF AddTimer
<1>2. /\ l \in Lists /\ L \subseteq Timers /\ x # NULL /\ x \in NodeOrNull
      /\ l.next \in [Timers -> NodeOrNull] /\ l.prev \in [Timers -> NodeOrNull]
      /\ l.head \in NodeOrNull /\ l.tail \in NodeOrNull
      /\ \A t \in Timers \ L : l.next[t] = NULL /\ l.prev[t] = NULL
  BY TimerListAssumption DEF ListOf, Lists, NodeOrNull
<1>3. L \cup {x} # {} /\ L \cup {x} \subseteq Timers
  BY <1>2
<1> HIDE DEF m
<1>4. CASE L = {}
  <2>1. m.head = x /\ m.tail = x /\ m.next = l.next /\ m.prev = l.prev /\ m \in Lists
    BY <1>1, <1>2, <1>4 DEF ListOf, Lists
  <2>2. Chain(m, {x}, [t \in Timers |-> 0])
    BY <2>1, <1>2, <1>4 DEF Chain
  <2>3. SortedOn(m, {x}, e)
    BY <2>1, <1>2, <1>4 DEF SortedOn
  <2> QED
    BY <2>1, <2>2, <2>3, <1>2, <1>3, <1>4 DEF ListOf, m
<1>5. CASE L # {}
  <2>1. PICK r : Chain(l, L, r)
    BY <1>5 DEF ListOf
  <2>2. l.head \in L /\ l.head # NULL /\ l.head # x /\ l.head \in Timers
    <3>1. l.head \in L
      BY <2>1 DEF Chain
    <3> QED
      BY <1>2, <3>1, TimerListAssumption
  <2>3. CASE e[x] < e[l.head]
    <3>1. /\ m.head = x /\ m.tail = l.tail
          /\ m.next = [l.next EXCEPT ![x] = l.head]
          /\ m.prev = [l.prev EXCEPT ![l.head] = x]
          /\ m \in Lists
      BY <1>1, <1>2, <2>2, <2>3 DEF Lists
    <3>2. /\ m.next[x] = l.head /\ \A t \in Timers \ {x} : m.next[t] = l.next[t]
          /\ m.prev[l.head] = x /\ \A t \in Timers \ {l.head} : m.prev[t] = l.prev[t]
          /\ m.prev[x] = NULL
      BY <1>2, <2>2, <3>1
    <3>3. \E k : Chain(m, L \cup {x}, k)
      BY <1>2, <2>1, <2>2, <3>1, <3>2, ChainFront
    <3>4. ASSUME SortedOn(l, L, e) PROVE SortedOn(m, L \cup {x}, e)
      BY <1>2, <2>2, <2>3, <3>2, <3>4 DEF SortedOn
    <3> QED
      BY <1>2, <1>3, <2>2, <3>1, <3>2, <3>3, <3>4 DEF ListOf, m
  <2>4. CASE ~(e[x] < e[l.head])
    <3>1. m = InsertAfter(l, e, x, l.head)
      BY <1>1, <2>2, <2>4
    <3>2. e[l.head] <= e[x]
      BY <2>2, <2>4
    <3>3. \A t \in Timers \ L : l.next[t] \in L \cup {NULL}
      BY <1>2
    <3>4. Inserted(l, L, e, x, l.head, m)
      BY <2>1, <2>2, <3>1, <3>3, InsertAfterFacts
    <3> QED
      BY <1>2, <1>3, <3>2, <3>4 DEF ListOf, Inserted, m
  <2> QED
    BY <2>3, <2>4
<1> QED
  BY <1>4, <1>5

\* In a sorted list, deadlines grow with the rank.
LEMMA SortedByRank ==
  ASSUME NEW l, NEW L, NEW r, Chain(l, L, r), NEW e \in [Timers -> Int],
         SortedOn(l, L, e), NEW t \in L, NEW u \in L, r[t] <= r[u]
  PROVE  e[t] <= e[u]
<1> DEFINE Bad == {x \in L : r[t] <= r[x] /\ ~(e[t] <= e[x])}
<1>0. \A x \in L : /\ x \in Timers /\ r[x] \in Int /\ e[x] \in Int
                   /\ x # l.head => l.prev[x] \in L /\ r[x] = r[l.prev[x]] + 1
                   /\ x # l.head => r[l.head] < r[x]
                   /\ x # NULL
  BY NodeFacts
<1>1. SUFFICES ASSUME Bad # {} PROVE FALSE
  OBVIOUS
<1>2. PICK x \in Bad : \A y \in Bad : r[x] <= r[y]
  <2>1. \A y \in Bad : r[y] \in Int /\ r[t] <= r[y]
    BY <1>0
  <2>2. r[t] \in Int
    BY <1>0
  <2> HIDE DEF Bad
  <2> QED
    BY <1>1, <2>1, <2>2, LowestRank
<1>3. x # t /\ r[t] < r[x]
  <2>1. x # t
    BY <1>0
  <2>2. r[x] # r[t]
    BY <2>1 DEF Chain
  <2> QED
    BY <2>2, <1>0
<1>4. x # l.head
  BY <1>3, <1>0
<1>5. l.prev[x] \in L /\ r[x] = r[l.prev[x]] + 1 /\ l.next[l.prev[x]] = x
  BY <1>4, <1>0 DEF Chain
<1>6. e[l.prev[x]] <= e[x]
  BY <1>5, <1>0 DEF SortedOn
<1>7. l.prev[x] \notin Bad /\ r[t] <= r[l.prev[x]]
  BY <1>2, <1>3, <1>5, <1>0
<1> QED
  BY <1>5, <1>6, <1>7, <1>0

\* What adjust_timer needs of a deadline that is moved: the timer expires no
\* earlier than the one behind it, or, if it is the last, than the one before it.
MovedBack(l, e, x) ==
  /\ l.next[x] # NULL => e[l.next[x]] <= e[x]
  /\ l.next[x] = NULL /\ l.prev[x] # NULL => e[l.prev[x]] <= e[x]

\* adjust_timer: the same timers are in the list.  It keeps its order if the
\* deadline has been moved back.
LEMMA AdjustTimerFacts ==
  ASSUME NEW l, NEW L, ListOf(l, L), NEW e \in [Timers -> Int], NEW x \in L
  PROVE  /\ ListOf(AdjustTimer(l, e, x), L)
         /\ \A d \in [Timers -> Int] :
              SortedOn(l, L, d) /\ (\A t \in L \ {x} : d[t] = e[t]) /\ MovedBack(l, e, x)
                => SortedOn(AdjustTimer(l, e, x), L, e)
<1> DEFINE n == l.next[x]
           p == l.prev[x]
           m == AdjustTimer(l, e, x)
           w == [l EXCEPT !.head = n, !.prev[n] = NULL, !.next[x] = NULL]
           u == [l EXCEPT !.next[p] = n, !.prev[n] = p]
           K == L \ {x}
           Before(d) == /\ SortedOn(l, L, d)
                        /\ \A t \in L \ {x} : d[t] = e[t]
                        /\ MovedBack(l, e, x)
<1>1. m = IF n = NULL \/ e[x] < e[l.head] THEN l
          ELSE IF x = l.head THEN InsertAfter(w, e, x, n)
          ELSE InsertAfter(u, e, x, n)
  BY DEF AdjustTimer
<1>2. /\ l \in Lists /\ L \subseteq Timers /\ x \in NodeOrNull
      /\ l.next \in [Timers -> NodeOrNull] /\ l.prev \in [Timers -> NodeOrNull]
      /\ l.head \in NodeOrNull /\ l.tail \in NodeOrNull
      /\ \A t \in Timers \ L : l.next[t] = NULL /\ l.prev[t] = NULL
  BY TimerListAssumption DEF ListOf, Lists, NodeOrNull
<1>3. PICK r : Chain(l, L, r)
  BY DEF ListOf
<1>4. \A t \in L : /\ t \in Timers /\ t # NULL /\ r[t] \in Int
                   /\ l.next[t] = NULL <=> t = l.tail
                   /\ t # l.tail => l.next[t] \in L /\ l.next[t] \in Timers
                   /\ t # l.head => l.prev[t] \in L /\ r[t] = r[l.prev[t]] + 1
  BY <1>3, NodeFacts
<1>5. l.head \in L /\ l.tail \in L /\ (\A t \in L \ {l.tail} : l.prev[l.next[t]] = t)
      /\ (\A t \in L \ {l.head} : l.next[l.prev[t]] = t)
  BY <1>3 DEF Chain
<1> HIDE DEF n, p, m, w, u
\* What is left once the list without x is known to be a list.
<1>6. ASSUME NEW v \in Lists, NEW k, Chain(v, K, k), n \in K, v.next[x] \in K \cup {NULL},
             \A t \in Timers \ L : v.next[t] = NULL /\ v.prev[t] = NULL,
             \A t \in K : v.next[t] = IF l.next[t] = x THEN n ELSE l.next[t],
             m = InsertAfter(v, e, x, n)
      PROVE  ListOf(m, L) /\ \A d \in [Timers -> Int] : Before(d) => SortedOn(m, L, e)
  <2>1. Inserted(v, K, e, x, n, m)
    <3>1. \A t \in Timers \ K : v.next[t] \in K \cup {NULL}
      BY <1>6
    <3>2. x \in Timers \ K
      BY <1>2
    <3> QED
      BY <1>6, <3>1, <3>2, InsertAfterFacts
  <2>2. K \cup {x} = L
    OBVIOUS
  <2>3. ListOf(m, L)
    BY <1>2, <1>6, <2>1, <2>2 DEF ListOf, Inserted
  <2>4. ASSUME NEW d \in [Timers -> Int], Before(d) PROVE SortedOn(m, L, e)
    <3>1. SortedOn(v, K, d)
      BY <1>3, <1>6, <2>4, SortedRemove DEF n
    <3>2. SortedOn(v, K, e)
      BY <1>6, <2>4, <3>1, SortedSame
    <3>3. n # NULL
      BY <1>4, <1>6
    <3>4. e[n] <= e[x]
      BY <2>4, <3>3 DEF MovedBack, n
    <3> QED
      BY <2>1, <2>2, <3>2, <3>4 DEF Inserted
  <2> QED
    BY <2>3, <2>4
<1>7. CASE n = NULL \/ e[x] < e[l.head]
  <2>1. m = l
    BY <1>1, <1>7
  <2>2. ASSUME NEW d \in [Timers -> Int], Before(d) PROVE SortedOn(l, L, e)
    <3>1. n = NULL
      <4>1. SUFFICES ASSUME n # NULL PROVE FALSE
        OBVIOUS
      <4>2. e[n] <= e[x] /\ x # l.tail /\ n \in L
        BY <1>4, <2>2, <4>1 DEF MovedBack, n
      <4>3. e[x] < e[l.head] /\ e[x] \in Int /\ e[n] \in Int /\ e[l.head] \in Int
        BY <1>4, <1>5, <1>7, <4>1, <4>2
      <4>4. d[l.head] <= d[n]
        BY <1>3, <1>5, <2>2, <4>2, SortedByRank DEF Chain
      <4>5. l.head # x /\ n # x
        BY <1>3, <4>2, <4>3 DEF Chain, n
      <4> QED
        BY <1>5, <2>2, <4>2, <4>3, <4>4, <4>5
    <3>2. ASSUME NEW t \in L, l.next[t] # NULL PROVE e[t] <= e[l.next[t]]
      <4>1. t # x /\ d[t] = e[t] /\ l.next[t] \in L
        BY <3>1, <3>2, <1>4, <2>2 DEF n
      <4>2. CASE l.next[t] = x
        <5>1. t # l.tail
          BY <1>4, <3>2
        <5>2. l.prev[x] = t /\ t # NULL
          BY <1>4, <1>5, <4>2, <5>1
        <5> QED
          BY <2>2, <3>1, <4>2, <5>2 DEF MovedBack, n
      <4>3. CASE l.next[t] # x
        BY <4>1, <4>3, <3>2, <2>2 DEF SortedOn
      <4> QED
        BY <4>2, <4>3
    <3> QED
      BY <3>2 DEF SortedOn
  <2> QED
    BY <2>1, <2>2 DEF m
<1>8. CASE ~(n = NULL \/ e[x] < e[l.head]) /\ x = l.head
  <2>1. n \in K /\ l.head # l.tail /\ n = l.next[l.head]
    <3>1. n = l.next[x] /\ n # NULL
      BY <1>8 DEF n
    <3>2. x # l.tail /\ n \in L /\ l.prev[n] = x
      BY <3>1, <1>4, <1>5
    <3>3. n # x
      BY <3>1, <3>2, <1>3, <1>8 DEF Chain
    <3> QED
      BY <3>1, <3>2, <3>3, <1>8
  <2>2. /\ w.head = n /\ w.tail = l.tail
        /\ w.next = [l.next EXCEPT ![x] = NULL]
        /\ w.prev = [l.prev EXCEPT ![n] = NULL]
        /\ w \in Lists
    BY <1>2, <2>1 DEF w, Lists, NodeOrNull
  <2>3. /\ w.next[x] = NULL /\ \A t \in Timers \ {x} : w.next[t] = l.next[t]
        /\ w.prev[n] = NULL /\ \A t \in Timers \ {n} : w.prev[t] = l.prev[t]
    BY <1>2, <2>1, <2>2
  <2>4. Chain(w, K, r)
    BY <1>2, <1>3, <1>8, <2>1, <2>2, <2>3, ChainNoHead
  <2>5. \A t \in K : l.next[t] # x
    BY <1>3, <1>4, <1>5, <1>8, NodeFacts DEF Chain
  <2> QED
    BY <1>1, <1>2, <1>6, <1>8, <2>1, <2>2, <2>3, <2>4, <2>5 DEF m
<1>9. CASE ~(n = NULL \/ e[x] < e[l.head]) /\ x # l.head
  <2>1. n \in K /\ p \in K /\ x # l.tail /\ l.next[p] = x
    BY <1>4, <1>5, <1>9 DEF n, p
  <2>2. /\ u.head = l.head /\ u.tail = l.tail
        /\ u.next = [l.next EXCEPT ![p] = n]
        /\ u.prev = [l.prev EXCEPT ![n] = p]
        /\ u \in Lists
    BY <1>2, <2>1 DEF u, Lists, NodeOrNull
  <2>3. /\ u.next[p] = n /\ \A t \in Timers \ {p} : u.next[t] = l.next[t]
        /\ u.prev[n] = p /\ \A t \in Timers \ {n} : u.prev[t] = l.prev[t]
    BY <1>2, <2>1, <2>2
  <2>4. PICK k : Chain(u, K, k)
    BY <1>2, <1>3, <1>9, <2>1, <2>2, <2>3, ChainNoMiddle DEF n, p
  <2>5. \A t \in K \ {p} : l.next[t] # x
    BY <1>4, <1>5, <2>1 DEF p
  <2>6. u.next[x] = n
    BY <1>2, <2>1, <2>3 DEF n
  <2> QED
    BY <1>1, <1>2, <1>6, <1>9, <2>1, <2>2, <2>3, <2>4, <2>5, <2>6 DEF m
<1> QED
  BY <1>7, <1>8, <1>9

\* delete: the links of the other timers do not change.
LEMMA DeleteFromFacts ==
  ASSUME NEW l \in Lists, NEW gone
  PROVE  LET m == DeleteFrom(l, gone)
         IN /\ m \in Lists /\ m.head = l.head /\ m.tail = l.tail
            /\ \A t \in Timers :
                 /\ m.next[t] = IF t \in gone THEN NULL ELSE l.next[t]
                 /\ m.prev[t] = IF t \in gone THEN NULL ELSE l.prev[t]
BY DEF DeleteFrom, Lists, NodeOrNull

\* del_timer and delete: one timer less, in the same order.
LEMMA DeleteFacts ==
  ASSUME NEW l, NEW L, ListOf(l, L), NEW x \in L
  PROVE  LET m == DeleteFrom(DelTimer(l, x), {x})
         IN /\ ListOf(m, L \ {x})
            /\ \A d, e \in [Timers -> Int] :
                 SortedOn(l, L, d) /\ (\A t \in L \ {x} : d[t] = e[t])
                   => SortedOn(m, L \ {x}, e)
<1> DEFINE u == DelTimer(l, x)
           m == DeleteFrom(u, {x})
           K == L \ {x}
<1>1. PICK r : Chain(l, L, r)
  BY DEF ListOf
<1>0. Removed(l, L, x, u)
  BY <1>1, DelTimerFacts
<1> HIDE DEF u
<1>2. /\ u \in Lists
      /\ L = {x} => u.head = NULL
      /\ L # {x} => \E k : Chain(u, L \ {x}, k)
      /\ \A t \in L \ {x} : u.next[t] = IF l.next[t] = x THEN l.next[x] ELSE l.next[t]
      /\ \A t \in Timers \ L : u.next[t] = l.next[t] /\ u.prev[t] = l.prev[t]
  BY <1>0 DEF Removed
<1>3. /\ m \in Lists /\ m.head = u.head /\ m.tail = u.tail
      /\ \A t \in Timers :
           /\ m.next[t] = IF t \in {x} THEN NULL ELSE u.next[t]
           /\ m.prev[t] = IF t \in {x} THEN NULL ELSE u.prev[t]
  BY <1>2, DeleteFromFacts
<1> HIDE DEF m
<1>4. L \subseteq Timers /\ \A t \in Timers \ L : l.next[t] = NULL /\ l.prev[t] = NULL
  BY DEF ListOf
<1>5. \A t \in K : m.next[t] = u.next[t] /\ m.prev[t] = u.prev[t]
  BY <1>3, <1>4
<1>6. ASSUME L # {x} PROVE \E k : Chain(m, K, k)
  <2>1. PICK k : Chain(u, K, k)
    BY <1>2, <1>6
  <2>2. Chain(m, K, k)
    BY <1>3, <1>5, <2>1, ChainSame
  <2> QED
    BY <2>2
<1>7. ListOf(m, K)
  <2>1. K = {} => L = {x}
    OBVIOUS
  <2>2. K # {} => L # {x}
    OBVIOUS
  <2>3. \A t \in Timers \ K : m.next[t] = NULL /\ m.prev[t] = NULL
    BY <1>2, <1>3, <1>4
  <2> QED
    BY <1>2, <1>3, <1>4, <1>6, <2>1, <2>2, <2>3 DEF ListOf
<1>8. ASSUME NEW d \in [Timers -> Int], NEW e \in [Timers -> Int], SortedOn(l, L, d),
             \A t \in K : d[t] = e[t]
      PROVE  SortedOn(m, K, e)
  <2>1. CASE L = {x}
    BY <2>1 DEF SortedOn
  <2>2. CASE L # {x}
    <3>1. \A t \in K : m.next[t] = IF l.next[t] = x THEN l.next[x] ELSE l.next[t]
      BY <1>2, <1>5
    <3>2. SortedOn(m, K, d)
      BY <1>1, <1>8, <3>1, SortedRemove
    <3>3. PICK k : Chain(m, K, k)
      BY <1>6, <2>2
    <3> QED
      BY <1>8, <3>2, <3>3, SortedSame
  <2> QED
    BY <2>1, <2>2
<1> QED
  BY <1>7, <1>8 DEF m, u

-----------------------------------------------------------------------------
(* tick() and the destructor                                               *)

\* The equations of the walks from node to node: the first timer that is not due.
IsFirst(w) == w = [n \in Timers \cup {NULL} |->
                     IF n = NULL THEN NULL
                     ELSE IF now < expire[n] THEN n
                     ELSE w[next[n]]]

\* The timers that are due, up to the first that is not.
IsDue(w) == w = [n \in Timers \cup {NULL} |->
                   IF n = NULL THEN {}
                   ELSE IF now < expire[n] THEN {}
                   ELSE {n} \cup w[next[n]]]

\* The timers from one on.
IsFrom(w) == w = [n \in Timers \cup {NULL} |->
                    IF n = NULL THEN {} ELSE {n} \cup w[next[n]]]

\* FirstNotDue() is a solution of its equation, if there is any.
LEMMA FirstEquation ==
  ASSUME \E w : IsFirst(w), NEW t
  PROVE  \E w : IsFirst(w) /\ FirstNotDue(t) = w[t]
<1> DEFINE Eq(walk) == walk = [n \in Timers \cup {NULL} |->
                                 IF n = NULL THEN NULL
                                 ELSE IF now < expire[n] THEN n
                                 ELSE walk[next[n]]]
<1> DEFINE v == CHOOSE walk : Eq(walk)
<1>1. FirstNotDue(t) = v[t]
  BY DEF FirstNotDue
<1>2. \E w : Eq(w)
  BY DEF IsFirst
<1> HIDE DEF Eq
<1>3. Eq(v)
  BY <1>2
<1> HIDE DEF v
<1> QED
  BY <1>1, <1>3 DEF Eq, IsFirst

\* DueFrom() is a solution of its equation, if there is any.
LEMMA DueEquation ==
  ASSUME \E w : IsDue(w), NEW t
  PROVE  \E w : IsDue(w) /\ DueFrom(t) = w[t]
<1> DEFINE Eq(walk) == walk = [n \in Timers \cup {NULL} |->
                                 IF n = NULL THEN {}
                                 ELSE IF now < expire[n] THEN {}
                                 ELSE {n} \cup walk[next[n]]]
<1> DEFINE v == CHOOSE walk : Eq(walk)
<1>1. DueFrom(t) = v[t]
  BY DEF DueFrom
<1>2. \E w : Eq(w)
  BY DEF IsDue
<1> HIDE DEF Eq
<1>3. Eq(v)
  BY <1>2
<1> HIDE DEF v
<1> QED
  BY <1>1, <1>3 DEF Eq, IsDue

\* From() is a solution of its equation, if there is any.
LEMMA FromEquation ==
  ASSUME \E w : IsFrom(w), NEW t
  PROVE  \E w : IsFrom(w) /\ From(t) = w[t]
<1> DEFINE Eq(walk) == walk = [n \in Timers \cup {NULL} |->
                                 IF n = NULL THEN {} ELSE {n} \cup walk[next[n]]]
<1> DEFINE v == CHOOSE walk : Eq(walk)
<1>1. From(t) = v[t]
  BY DEF From
<1>2. \E w : Eq(w)
  BY DEF IsFrom
<1> HIDE DEF Eq
<1>3. Eq(v)
  BY <1>2
<1> HIDE DEF v
<1> QED
  BY <1>1, <1>3 DEF Eq, IsFrom

\* What a chain says about one timer of the list.
LEMMA NodeFactsOfState ==
  ASSUME ListOf(List, live), NEW r, Chain(List, live, r), NEW t \in live
  PROVE  /\ t \in Timers /\ t # NULL /\ r[t] \in Int
         /\ next[t] = NULL <=> t = tail
         /\ t # tail => next[t] \in live /\ r[next[t]] = r[t] + 1
         /\ t # tail => r[t] < r[tail]
<1>1. List.next = next /\ List.tail = tail
  BY DEF List
<1>2. /\ t \in Timers /\ t # NULL /\ r[t] \in Int
      /\ List.next[t] = NULL <=> t = List.tail
      /\ t # List.tail => List.next[t] \in live
      /\ t # List.tail => r[t] < r[List.tail]
  BY NodeFacts
<1>3. t # List.tail => r[List.next[t]] = r[t] + 1
  BY DEF Chain
<1> QED
  BY <1>1, <1>2, <1>3

\* The walks that tick() and the destructor make from node to node end.
LEMMA WalksExist ==
  ASSUME ListOf(List, live), NEW r, Chain(List, live, r)
  PROVE  (\E w : IsFirst(w)) /\ (\E w : IsDue(w)) /\ (\E w : IsFrom(w))
<1>1. \A t \in live : /\ t \in Timers /\ t # NULL /\ r[t] \in Int
                      /\ next[t] = NULL <=> t = tail
                      /\ t # tail => next[t] \in live /\ r[next[t]] = r[t] + 1
                      /\ t # tail => r[t] < r[tail]
  BY NodeFactsOfState
<1>2. tail \in live /\ (\A t, u \in live : r[t] = r[u] => t = u) /\ NULL \notin Timers
      /\ \A t \in Timers \ live : next[t] = NULL
  BY TimerListAssumption DEF Chain, ListOf, List
<1> DEFINE Due(n) == ~(now < expire[n])
           After(n) == {m \in live : r[n] <= r[m]}
           Open(n) == {m \in After(n) : ~Due(m)}
           First(S) == CHOOSE m \in S : \A k \in S : r[m] <= r[k]
           Until(n) == {m \in After(n) : \A k \in After(n) : r[k] <= r[m] => Due(k)}
           All == Timers \cup {NULL}
           f == [n \in All |-> IF n \in live
                               THEN (IF Open(n) = {} THEN NULL ELSE First(Open(n)))
                               ELSE IF n = NULL \/ Due(n) THEN NULL ELSE n]
           d == [n \in All |-> IF n \in live THEN Until(n)
                               ELSE IF n # NULL /\ Due(n) THEN {n} ELSE {}]
           a == [n \in All |-> IF n \in live THEN After(n)
                               ELSE IF n = NULL THEN {} ELSE {n}]
<1> HIDE DEF Due
<1>3. ASSUME NEW n \in live, n # tail
      PROVE  next[n] \in live /\ After(n) = {n} \cup After(next[n])
  BY <1>1, <1>2, <1>3
<1>4. After(tail) = {tail}
  BY <1>1, <1>2
<1>5. ASSUME NEW n \in live PROVE n \in After(n) /\ \A m \in After(n) : r[n] <= r[m]
  BY <1>1, <1>5
<1>6. \A n \in live : n \in All /\ n # NULL /\ next[n] \in All
  BY <1>1
<1>7. IsFrom(a)
  <2> HIDE DEF After
  <2>1. \A n \in All : a[n] = IF n = NULL THEN {} ELSE {n} \cup a[next[n]]
    <3> TAKE n \in All
    <3>1. CASE n \in live /\ n # tail
      BY <1>3, <1>6, <3>1
    <3>2. CASE n = tail
      BY <1>1, <1>2, <1>4, <1>6, <3>2
    <3>3. CASE n \notin live
      BY <1>1, <1>2, <3>3
    <3> QED
      BY <3>1, <3>2, <3>3, <1>2
  <2>2. a = [n \in All |-> IF n = NULL THEN {} ELSE {n} \cup a[next[n]]]
    BY <2>1
  <2> HIDE DEF a
  <2> QED
    BY <2>2 DEF IsFrom
<1>8. IsDue(d)
  <2>1. ASSUME NEW n \in live, ~Due(n) PROVE Until(n) = {}
    BY <1>1, <1>5, <2>1
  <2>2. ASSUME NEW n \in live, Due(n), n # tail PROVE Until(n) = {n} \cup Until(next[n])
    <3>1. \A m \in live : m \in After(n) <=> m = n \/ m \in After(next[n])
      BY <1>3, <2>2
    <3>2. \A m \in After(next[n]) : r[n] < r[m]
      BY <1>1, <2>2
    <3>3. r[n] \in Int /\ \A m \in live : r[m] \in Int /\ (r[m] = r[n] => m = n)
      BY <1>1, <1>2
    <3> QED
      BY <3>1, <3>2, <3>3, <2>2, <1>3
  <2>3. Due(tail) => Until(tail) = {tail}
    BY <1>1, <1>2, <1>4
  <2> HIDE DEF Until
  <2>4. \A n \in All : d[n] = IF n = NULL THEN {} ELSE IF ~Due(n) THEN {} ELSE {n} \cup d[next[n]]
    <3> TAKE n \in All
    <3>1. CASE n \in live /\ n # tail
      BY <1>3, <1>6, <2>1, <2>2, <3>1
    <3>2. CASE n = tail
      BY <1>1, <1>2, <1>6, <2>1, <2>3, <3>2
    <3>3. CASE n \notin live
      BY <1>1, <1>2, <3>3
    <3> QED
      BY <3>1, <3>2, <3>3, <1>2
  <2>5. d = [n \in All |-> IF n = NULL THEN {} ELSE IF ~Due(n) THEN {} ELSE {n} \cup d[next[n]]]
    BY <2>4
  <2> HIDE DEF d
  <2> QED
    BY <2>5 DEF IsDue, Due
<1>9. IsFirst(f)
  <2>1. ASSUME NEW n \in live, ~Due(n) PROVE Open(n) # {} /\ First(Open(n)) = n
    <3>1. n \in Open(n) /\ \A k \in Open(n) : r[n] <= r[k] /\ r[k] \in Int /\ r[n] \in Int
                                              /\ (r[k] = r[n] => k = n)
      BY <1>1, <1>2, <1>5, <2>1
    <3> HIDE DEF Open
    <3> QED
      BY <3>1
  <2>2. ASSUME NEW n \in live, Due(n), n # tail PROVE Open(n) = Open(next[n])
    <3> HIDE DEF After
    <3> QED
      BY <1>3, <2>2
  <2>3. Due(tail) => Open(tail) = {}
    BY <1>4
  <2> HIDE DEF Open, First
  <2>4. \A n \in All : f[n] = IF n = NULL THEN NULL ELSE IF ~Due(n) THEN n ELSE f[next[n]]
    <3> TAKE n \in All
    <3>1. CASE n \in live /\ n # tail
      BY <1>3, <1>6, <2>1, <2>2, <3>1
    <3>2. CASE n = tail
      BY <1>1, <1>2, <1>6, <2>1, <2>3, <3>2
    <3>3. CASE n \notin live
      BY <1>1, <1>2, <3>3
    <3> QED
      BY <3>1, <3>2, <3>3, <1>2
  <2>5. f = [n \in All |-> IF n = NULL THEN NULL ELSE IF ~Due(n) THEN n ELSE f[next[n]]]
    BY <2>4
  <2> HIDE DEF f
  <2> QED
    BY <2>5 DEF IsFirst, Due
<1> QED
  BY <1>7, <1>8, <1>9

\* From the head on, the destructor reaches every timer.
LEMMA FromFacts ==
  ASSUME ListOf(List, live), NEW r, Chain(List, live, r)
  PROVE  From(head) = live
<1>1. \A t \in live : /\ t \in Timers /\ t # NULL /\ r[t] \in Int
                      /\ next[t] = NULL <=> t = tail
                      /\ t # tail => next[t] \in live /\ r[next[t]] = r[t] + 1
                      /\ t # tail => r[t] < r[tail]
  BY NodeFactsOfState
<1>2. /\ tail \in live /\ head \in live /\ (\A t, u \in live : r[t] = r[u] => t = u)
      /\ \A t \in live : r[head] <= r[t]
  BY DEF Chain, List
<1>3. PICK w : IsFrom(w) /\ From(head) = w[head]
  BY WalksExist, FromEquation
<1> DEFINE After(n) == {m \in live : r[n] <= r[m]}
<1>4. w[NULL] = {} /\ \A n \in live : w[n] = {n} \cup w[next[n]]
  BY <1>1, <1>3 DEF IsFrom
<1>5. \A n \in live \ {tail} : After(n) = {n} \cup After(next[n])
  BY <1>1, <1>2
<1>6. After(tail) = {tail}
  BY <1>1, <1>2
<1>7. \A n \in live : w[n] = After(n)
  <2> DEFINE Bad == {n \in live : w[n] # After(n)}
  <2>1. SUFFICES ASSUME Bad # {} PROVE FALSE
    OBVIOUS
  <2>2. PICK n \in Bad : \A m \in Bad : r[m] <= r[n]
    <3>1. \A x \in Bad : r[x] \in Int /\ r[x] <= r[tail]
      BY <1>1, <1>2
    <3>2. r[tail] \in Int
      BY <1>1, <1>2
    <3> HIDE DEF Bad
    <3> QED
      BY <2>1, <3>1, <3>2, HighestRank
  <2> HIDE DEF After
  <2>3. n # tail
    BY <1>1, <1>2, <1>4, <1>6
  <2>4. next[n] \in live \ Bad
    BY <1>1, <2>2, <2>3
  <2> QED
    BY <1>4, <1>5, <2>3, <2>4
<1>8. After(head) = live
  BY <1>2
<1> QED
  BY <1>2, <1>3, <1>7, <1>8

\* tick() expires the timers before the first one that is not due, or all.
LEMMA DueFacts ==
  ASSUME ListOf(List, live), NEW r, Chain(List, live, r)
  PROVE  /\ \A t \in DueFrom(head) : ~(now < expire[t])
         /\ \/ FirstNotDue(head) = NULL /\ DueFrom(head) = live
            \/ /\ FirstNotDue(head) \in live
               /\ now < expire[FirstNotDue(head)]
               /\ DueFrom(head) = {t \in live : r[t] < r[FirstNotDue(head)]}
<1>1. \A t \in live : /\ t \in Timers /\ t # NULL /\ r[t] \in Int
                      /\ next[t] = NULL <=> t = tail
                      /\ t # tail => next[t] \in live /\ r[next[t]] = r[t] + 1
                      /\ t # tail => r[t] < r[tail]
  BY NodeFactsOfState
<1>2. /\ tail \in live /\ head \in live /\ (\A t, u \in live : r[t] = r[u] => t = u)
      /\ \A t \in live : r[head] <= r[t]
  BY DEF Chain, List
<1>3. PICK d : IsDue(d) /\ DueFrom(head) = d[head]
  BY WalksExist, DueEquation
<1>4. PICK f : IsFirst(f) /\ FirstNotDue(head) = f[head]
  BY WalksExist, FirstEquation
<1> DEFINE Due(n) == ~(now < expire[n])
           Good(n) == /\ \A t \in d[n] : Due(t)
                      /\ \/ f[n] = NULL /\ d[n] = {m \in live : r[n] <= r[m]}
                         \/ /\ f[n] \in live
                            /\ ~Due(f[n])
                            /\ r[n] <= r[f[n]]
                            /\ d[n] = {m \in live : r[n] <= r[m] /\ r[m] < r[f[n]]}
<1>5. d[NULL] = {} /\ \A n \in live : d[n] = IF ~Due(n) THEN {} ELSE {n} \cup d[next[n]]
  BY <1>1, <1>3 DEF IsDue
<1>6. f[NULL] = NULL /\ \A n \in live : f[n] = IF ~Due(n) THEN n ELSE f[next[n]]
  BY <1>1, <1>4 DEF IsFirst
<1> HIDE DEF Due
<1>7. ASSUME NEW n \in live, ~Due(n) PROVE Good(n)
  <2>1. d[n] = {} /\ f[n] = n
    BY <1>5, <1>6, <1>7
  <2>2. r[n] \in Int /\ \A m \in live : r[m] \in Int
    BY <1>1
  <2>3. {m \in live : r[n] <= r[m] /\ r[m] < r[f[n]]} = {}
    BY <2>1, <2>2
  <2> QED
    BY <1>7, <2>1, <2>2, <2>3
<1>8. Due(tail) => Good(tail)
  <2> HAVE Due(tail)
  <2>1. next[tail] = NULL /\ d[tail] = {tail} /\ f[tail] = NULL
    BY <1>1, <1>2, <1>5, <1>6
  <2> QED
    BY <1>1, <1>2, <2>1
<1>9. ASSUME NEW n \in live, Due(n), n # tail, Good(next[n]) PROVE Good(n)
  <2>1. next[n] \in live /\ r[next[n]] = r[n] + 1 /\ r[n] \in Int
    BY <1>1, <1>9
  <2>2. d[n] = {n} \cup d[next[n]] /\ f[n] = f[next[n]]
    BY <1>5, <1>6, <1>9
  <2>3. \A m \in live : r[m] \in Int /\ (r[m] = r[n] => m = n)
    BY <1>1, <1>2
  <2>4. \A t \in d[n] : Due(t)
    BY <1>9, <2>2
  <2>5. CASE f[next[n]] = NULL /\ d[next[n]] = {m \in live : r[next[n]] <= r[m]}
    BY <2>1, <2>2, <2>3, <2>4, <2>5
  <2>6. CASE /\ f[next[n]] \in live
             /\ ~Due(f[next[n]])
             /\ r[next[n]] <= r[f[next[n]]]
             /\ d[next[n]] = {m \in live : r[next[n]] <= r[m] /\ r[m] < r[f[next[n]]]}
    <3>1. d[n] = {m \in live : r[n] <= r[m] /\ r[m] < r[f[n]]}
      BY <2>1, <2>2, <2>3, <2>6
    <3>2. r[n] <= r[f[n]]
      BY <2>1, <2>2, <2>3, <2>6
    <3> QED
      BY <2>2, <2>4, <2>6, <3>1, <3>2
  <2> QED
    BY <1>9, <2>5, <2>6
<1> HIDE DEF Good
<1>10. \A n \in live : Good(n)
  <2> DEFINE Bad == {n \in live : ~Good(n)}
  <2>1. SUFFICES ASSUME Bad # {} PROVE FALSE
    OBVIOUS
  <2>2. PICK n \in Bad : \A m \in Bad : r[m] <= r[n]
    <3>1. \A x \in Bad : r[x] \in Int /\ r[x] <= r[tail]
      BY <1>1, <1>2
    <3>2. r[tail] \in Int
      BY <1>1, <1>2
    <3> HIDE DEF Bad
    <3> QED
      BY <2>1, <3>1, <3>2, HighestRank
  <2>3. n # tail /\ Due(n)
    BY <1>7, <1>8, <2>2
  <2>4. next[n] \in live \ Bad
    BY <1>1, <2>2, <2>3
  <2> QED
    BY <1>9, <2>3, <2>4
<1>11. Good(head)
  BY <1>2, <1>10
<1> QED
  BY <1>2, <1>3, <1>4, <1>11 DEF Good, Due

-----------------------------------------------------------------------------
(* The invariant of the list                                               *)

\* The inductive invariant of the list: its pointers form one list of exactly the
\* allocated timers, and no link of another timer is left.
ListInv ==
  /\ ListOf(List, live)
  /\ expire \in [Timers -> Nat]
  /\ now \in 0..MaxTime
  /\ fired \subseteq Timers

\* A moved deadline is the latest there is.
MovedIsLatest == \A d \in AdjustTimeouts : \A n \in NewTimeouts \cup AdjustTimeouts : n <= d

\* The list is in ascending order, and a timer that is moved will be its last.
InOrder ==
  /\ SortedOn(List, live, expire)
  /\ \A t \in live : \A d \in AdjustTimeouts : expire[t] <= now + d

\* Whatever timer the step moves, its deadline is moved back.
OnlyMovedBack == \A t \in Timers : Adjust(t) => MovedBack(List, expire', t)

\* The members of the list, as SetList() leaves them.
LEMMA ListAfter ==
  ASSUME NEW m \in Lists, SetList(m)
  PROVE  List' = m
BY DEF SetList, Lists, List

\* What the invariant says of the types.
LEMMA ListTyped ==
  ASSUME ListInv
  PROVE  /\ List \in Lists /\ live \subseteq Timers
         /\ List.head = head /\ List.tail = tail /\ List.next = next /\ List.prev = prev
         /\ next \in [Timers -> NodeOrNull] /\ prev \in [Timers -> NodeOrNull]
         /\ head \in NodeOrNull /\ tail \in NodeOrNull
         /\ \A t \in Timers \ live : next[t] = NULL /\ prev[t] = NULL
         /\ NULL \notin Timers /\ now \in Nat /\ expire \in [Timers -> Int]
BY TimerListAssumption DEF ListInv, ListOf, Lists, List

\* add_timer of a new timer.
LEMMA ListInvAdd ==
  ASSUME ListInv, NEW t \in Timers, Add(t)
  PROVE  ListInv' /\ (SortedOn(List, live, expire) => SortedOn(List, live, expire)')
<1> DEFINE fresh == [List EXCEPT !.next[t] = NULL, !.prev[t] = NULL]
           m == AddTimer(List, expire', t)
<1>1. fresh = List
  <2>1. t \in Timers \ live
    BY DEF Add
  <2>2. next[t] = NULL /\ prev[t] = NULL
    BY <2>1, ListTyped
  <2>3. [next EXCEPT ![t] = NULL] = next /\ [prev EXCEPT ![t] = NULL] = prev
    BY <2>2, ListTyped
  <2>4. List \in Lists /\ List.next = next /\ List.prev = prev /\ NULL \in NodeOrNull
    BY ListTyped DEF NodeOrNull
  <2>5. /\ fresh.head = List.head /\ fresh.tail = List.tail
        /\ fresh.next = [next EXCEPT ![t] = NULL]
        /\ fresh.prev = [prev EXCEPT ![t] = NULL]
        /\ fresh \in Lists
    BY <2>4 DEF Lists
  <2> HIDE DEF fresh
  <2> QED
    BY <2>3, <2>4, <2>5 DEF Lists
<1>2. PICK d \in NewTimeouts : expire' = [expire EXCEPT ![t] = now + d]
  BY DEF Add
<1>3. t \notin live /\ live' = live \cup {t} /\ now' = now /\ fired' = fired \ {t}
      /\ SetList(m)
  BY <1>1 DEF Add
<1>4. expire' \in [Timers -> Nat] /\ expire' \in [Timers -> Int]
      /\ \A u \in live : expire'[u] = expire[u]
  <2>1. now + d \in Nat
    BY <1>2, ListTyped, TimerListAssumption
  <2> QED
    BY <1>2, <1>3, <2>1, ListTyped DEF ListInv
<1>5. /\ ListOf(m, live \cup {t})
      /\ SortedOn(List, live, expire') => SortedOn(m, live \cup {t}, expire')
  BY <1>3, <1>4, AddTimerFacts DEF ListInv
<1> HIDE DEF m
<1>6. List' = m
  BY <1>3, <1>5, ListAfter DEF ListOf
<1>7. ListInv'
  BY <1>3, <1>4, <1>5, <1>6 DEF ListInv
<1>8. ASSUME SortedOn(List, live, expire) PROVE SortedOn(List', live', expire')
  <2>1. SortedOn(List, live, expire')
    <3>1. CASE live = {}
      BY <3>1 DEF SortedOn
    <3>2. CASE live # {}
      <4>1. PICK r : Chain(List, live, r)
        BY <3>2 DEF ListInv, ListOf
      <4> QED
        BY <1>4, <1>8, <4>1, SortedSame
    <3> QED
      BY <3>1, <3>2
  <2> QED
    BY <1>3, <1>5, <1>6, <2>1
<1> QED
  BY <1>7, <1>8

\* adjust_timer: the order is only kept if the deadline has been moved back.
LEMMA ListInvAdjust ==
  ASSUME ListInv, NEW t \in Timers, Adjust(t)
  PROVE  /\ ListInv'
         /\ SortedOn(List, live, expire) /\ MovedBack(List, expire', t)
              => SortedOn(List, live, expire)'
<1> DEFINE m == AdjustTimer(List, expire', t)
<1>1. PICK d \in AdjustTimeouts : expire' = [expire EXCEPT ![t] = now + d]
  BY DEF Adjust
<1>2. t \in live /\ live' = live /\ now' = now /\ fired' = fired /\ SetList(m)
  BY DEF Adjust
<1>3. expire' \in [Timers -> Nat] /\ expire' \in [Timers -> Int]
      /\ \A u \in live \ {t} : expire'[u] = expire[u]
  <2>1. now + d \in Nat
    BY <1>1, ListTyped, TimerListAssumption
  <2> QED
    BY <1>1, <2>1, ListTyped DEF ListInv
<1>4. ListOf(m, live)
  BY <1>2, <1>3, AdjustTimerFacts DEF ListInv
<1>5. SortedOn(List, live, expire) /\ MovedBack(List, expire', t)
        => SortedOn(m, live, expire')
  BY <1>2, <1>3, ListTyped, AdjustTimerFacts DEF ListInv
<1> HIDE DEF m
<1>6. List' = m
  BY <1>2, <1>4, ListAfter DEF ListOf
<1> QED
  BY <1>2, <1>3, <1>4, <1>5, <1>6 DEF ListInv

\* del_timer and delete.
LEMMA ListInvDelete ==
  ASSUME ListInv, NEW t \in Timers, Delete(t)
  PROVE  ListInv' /\ (SortedOn(List, live, expire) => SortedOn(List, live, expire)')
<1> DEFINE m == DeleteFrom(DelTimer(List, t), {t})
<1>1. /\ t \in live /\ live' = live \ {t} /\ now' = now /\ fired' = fired /\ SetList(m)
      /\ expire' = [expire EXCEPT ![t] = 0]
  BY DEF Delete
<1>2. expire' \in [Timers -> Nat] /\ expire' \in [Timers -> Int]
      /\ \A u \in live \ {t} : expire[u] = expire'[u]
  BY <1>1, ListTyped DEF ListInv
<1>3. /\ ListOf(m, live \ {t})
      /\ \A d, e \in [Timers -> Int] :
           SortedOn(List, live, d) /\ (\A u \in live \ {t} : d[u] = e[u])
             => SortedOn(m, live \ {t}, e)
  BY <1>1, DeleteFacts DEF ListInv
<1> HIDE DEF m
<1>4. List' = m
  BY <1>1, <1>3, ListAfter DEF ListOf
<1>5. SortedOn(List, live, expire) => SortedOn(m, live \ {t}, expire')
  BY <1>2, <1>3, ListTyped
<1> QED
  BY <1>1, <1>2, <1>3, <1>4, <1>5 DEF ListInv

\* tick(): what is left of the list is one from the first timer that is not due on;
\* if the list was in order, every timer that was due is gone.
LEMMA ListInvTick ==
  ASSUME ListInv, Tick
  PROVE  /\ ListInv'
         /\ SortedOn(List, live, expire)
              => /\ SortedOn(List, live, expire)'
                 /\ DueFrom(head) = {t \in live : expire[t] <= now}
<1> DEFINE due == DueFrom(head)
           first == FirstNotDue(head)
           l == DeleteFrom([List EXCEPT !.head = first], due)
           m == IF due = {} \/ first = NULL THEN l ELSE [l EXCEPT !.prev[first] = NULL]
           K == live \ due
<1>1. /\ head # NULL /\ SetList(m) /\ live' = live \ due /\ now' = now
      /\ fired' = fired \cup due
      /\ expire' = [t \in Timers |-> IF t \in due THEN 0 ELSE expire[t]]
  BY DEF Tick, Expire
<1>2. live # {}
  BY <1>1 DEF ListInv, ListOf, List
<1>3. PICK r : Chain(List, live, r)
  BY <1>2 DEF ListInv, ListOf
<1>4. /\ \A t \in due : ~(now < expire[t])
      /\ \/ first = NULL /\ due = live
         \/ /\ first \in live
            /\ now < expire[first]
            /\ due = {t \in live : r[t] < r[first]}
  BY <1>3, DueFacts DEF ListInv
<1>5. \A t \in live : t \in Timers /\ r[t] \in Int /\ r[head] <= r[t]
  BY <1>3, ListTyped DEF Chain
<1> HIDE DEF due, first
<1>6. due \subseteq live
  BY <1>4
<1>7. first \in NodeOrNull
  BY <1>4, <1>5 DEF NodeOrNull
<1>8. /\ l \in Lists /\ l.head = first /\ l.tail = tail
      /\ \A t \in Timers : /\ l.next[t] = IF t \in due THEN NULL ELSE next[t]
                           /\ l.prev[t] = IF t \in due THEN NULL ELSE prev[t]
  <2> DEFINE h == [List EXCEPT !.head = first]
  <2>1. h \in Lists /\ h.head = first /\ h.tail = tail /\ h.next = next /\ h.prev = prev
    BY <1>7, ListTyped DEF List, Lists
  <2> HIDE DEF h
  <2>2. LET v == DeleteFrom(h, due)
        IN /\ v \in Lists /\ v.head = h.head /\ v.tail = h.tail
           /\ \A t \in Timers :
                /\ v.next[t] = IF t \in due THEN NULL ELSE h.next[t]
                /\ v.prev[t] = IF t \in due THEN NULL ELSE h.prev[t]
    BY <2>1, DeleteFromFacts
  <2> QED
    BY <2>1, <2>2 DEF h
<1> HIDE DEF l
<1>9. /\ m \in Lists /\ m.head = first /\ m.tail = tail /\ m.next = l.next
      /\ \A t \in Timers \ {first} : m.prev[t] = l.prev[t]
      /\ first # NULL /\ due # {} => m.prev[first] = NULL
      /\ due = {} => m = l
  <2>1. l.prev \in [Timers -> NodeOrNull]
    BY <1>8 DEF Lists
  <2>2. CASE due = {} \/ first = NULL
    BY <1>8, <2>2
  <2>3. CASE ~(due = {} \/ first = NULL)
    <3>1. first \in Timers
      BY <1>7, <2>3 DEF NodeOrNull
    <3>2. m = [l EXCEPT !.prev = [l.prev EXCEPT ![first] = NULL]]
      BY <2>3
    <3>3. m.prev = [l.prev EXCEPT ![first] = NULL]
          /\ m.head = l.head /\ m.tail = l.tail /\ m.next = l.next
      BY <1>8, <3>2 DEF Lists
    <3>4. m.prev \in [Timers -> NodeOrNull] /\ NULL \in NodeOrNull
      BY <2>1, <3>3 DEF NodeOrNull
    <3>5. m \in Lists
      BY <1>8, <3>2, <3>3, <3>4 DEF Lists
    <3> QED
      BY <1>8, <2>1, <2>3, <3>1, <3>3, <3>5
  <2> QED
    BY <2>2, <2>3
<1> HIDE DEF m
<1>10. List' = m
  BY <1>1, <1>9, ListAfter
<1>11. \A t \in K : m.next[t] = List.next[t]
  BY <1>5, <1>8, <1>9, ListTyped
<1>12. ASSUME first \in live PROVE Chain(m, K, r)
  <2>1. /\ due = {t \in live : r[t] < r[first]} /\ first # NULL /\ first \in Timers
    BY <1>4, <1>12, ListTyped
  <2>2. K = {t \in live : r[first] <= r[t]} /\ first \in K
    BY <1>5, <1>12, <2>1
  <2>3. m.prev[first] = NULL
    <3>1. CASE due # {}
      BY <1>9, <2>1, <3>1
    <3>2. CASE due = {}
      <4>1. r[first] <= r[head] /\ head \in live
        BY <1>3, <1>5, <1>12, <2>1, <3>2, ListTyped DEF Chain
      <4>2. first = head
        BY <1>3, <1>5, <1>12, <4>1, ListTyped DEF Chain
      <4>3. prev[head] = NULL
        BY <1>3, ListTyped DEF Chain
      <4> QED
        BY <1>8, <1>9, <2>1, <3>2, <4>2, <4>3
    <3> QED
      BY <3>1, <3>2
  <2>4. \A t \in K \ {first} : m.prev[t] = List.prev[t]
    BY <1>5, <1>8, <1>9, ListTyped
  <2>5. m \in Lists /\ m.head = first /\ m.tail = List.tail
    BY <1>9, ListTyped
  <2> HIDE DEF K
  <2> QED
    BY <1>3, <1>11, <1>12, <2>2, <2>3, <2>4, <2>5, ChainFrom
<1>13. ListOf(m, K)
  <2>1. K \subseteq Timers /\ (K = {} => m.head = NULL) /\ (K # {} => first \in live)
    BY <1>4, <1>5, <1>9, <1>12 DEF Chain
  <2>2. ASSUME NEW t \in Timers \ K PROVE m.next[t] = NULL /\ m.prev[t] = NULL
    <3>1. l.next[t] = NULL /\ l.prev[t] = NULL
      BY <1>8, ListTyped
    <3>2. t = first => m.prev[t] = NULL
      <4>1. first \in live => first \in K
        BY <1>4, <1>5, ListTyped
      <4> QED
        BY <1>4, <4>1, ListTyped
    <3> QED
      BY <1>9, <3>1, <3>2
  <2> QED
    BY <1>9, <1>12, <2>1, <2>2 DEF ListOf
<1>14. expire' \in [Timers -> Nat] /\ expire' \in [Timers -> Int]
       /\ \A t \in K : expire[t] = expire'[t]
  BY <1>1, <1>5 DEF ListInv
<1>15. ListInv'
  <2>1. due \subseteq Timers
    BY <1>5, <1>6
  <2> QED
    BY <1>1, <1>10, <1>13, <1>14, <2>1 DEF ListInv
<1>16. ASSUME SortedOn(List, live, expire)
       PROVE  SortedOn(m, K, expire') /\ due = {t \in live : expire[t] <= now}
  <2>1. CASE first = NULL /\ due = live
    <3>1. \A t \in live : expire[t] <= now
      BY <1>4, <1>5, <2>1, ListTyped
    <3> QED
      BY <2>1, <3>1 DEF SortedOn
  <2>2. CASE first \in live /\ now < expire[first] /\ due = {t \in live : r[t] < r[first]}
    <3>1. Chain(m, K, r)
      BY <1>12, <2>2
    <3>2. SortedOn(m, K, expire)
      BY <1>11, <1>16 DEF SortedOn
    <3>3. SortedOn(m, K, expire')
      BY <1>14, <3>1, <3>2, SortedSame
    <3>4. \A t \in K : expire[first] <= expire[t]
      BY <1>3, <1>5, <1>16, <2>2, ListTyped, SortedByRank
    <3>5. \A t \in K : ~(expire[t] <= now)
      BY <1>5, <2>2, <3>4, ListTyped
    <3>6. \A t \in due : expire[t] <= now
      BY <1>4, <1>5, <1>6, ListTyped
    <3> QED
      BY <1>6, <3>3, <3>5, <3>6
  <2> QED
    BY <1>4, <2>1, <2>2
<1> QED
  BY <1>1, <1>10, <1>15, <1>16 DEF due

\* ~sort_timer_lst() deletes every timer.
LEMMA ListInvDestroy ==
  ASSUME ListInv, Destroy
  PROVE  /\ ListInv' /\ live' = {} /\ From(head) = live
<1> DEFINE h == [List EXCEPT !.head = NULL]
           m == DeleteFrom(h, From(head))
<1>1. /\ SetList(m) /\ live' = live \ From(head) /\ now' = now /\ fired' = fired
      /\ expire' = [t \in Timers |-> IF t \in From(head) THEN 0 ELSE expire[t]]
  BY DEF Destroy
<1>2. From(head) = live
  <2>1. CASE live = {}
    <3>1. head = NULL
      BY <2>1, ListTyped DEF ListInv, ListOf
    <3>2. \E w : IsFrom(w)
      <4> DEFINE w == [n \in Timers \cup {NULL} |-> IF n = NULL THEN {} ELSE {n}]
      <4>1. \A n \in Timers : next[n] = NULL
        BY <2>1, ListTyped
      <4>2. w = [n \in Timers \cup {NULL} |-> IF n = NULL THEN {} ELSE {n} \cup w[next[n]]]
        BY <4>1
      <4> HIDE DEF w
      <4> QED
        BY <4>2 DEF IsFrom
    <3>3. PICK w : IsFrom(w) /\ From(head) = w[head]
      BY <3>2, FromEquation
    <3> QED
      BY <2>1, <3>1, <3>3 DEF IsFrom
  <2>2. CASE live # {}
    <3>1. PICK r : Chain(List, live, r)
      BY <2>2 DEF ListInv, ListOf
    <3> QED
      BY <3>1, FromFacts DEF ListInv
  <2> QED
    BY <2>1, <2>2
<1>3. h \in Lists /\ h.head = NULL /\ h.next = next /\ h.prev = prev
  BY ListTyped DEF List, Lists, NodeOrNull
<1> HIDE DEF h
<1>4. LET v == DeleteFrom(h, From(head))
      IN /\ v \in Lists /\ v.head = h.head
         /\ \A t \in Timers :
              /\ v.next[t] = IF t \in From(head) THEN NULL ELSE h.next[t]
              /\ v.prev[t] = IF t \in From(head) THEN NULL ELSE h.prev[t]
  BY <1>3, DeleteFromFacts
<1>5. ListOf(m, {})
  BY <1>2, <1>3, <1>4, ListTyped DEF ListOf
<1> HIDE DEF m
<1>6. List' = m /\ live' = {}
  BY <1>1, <1>2, <1>5, ListAfter DEF ListOf
<1>7. expire' \in [Timers -> Nat]
  BY <1>1 DEF ListInv
<1> QED
  BY <1>1, <1>2, <1>5, <1>6, <1>7 DEF ListInv

-----------------------------------------------------------------------------
(* The invariant is kept                                                   *)

\* What the loop does with the list is what the list allows.
LEMMA LoopUsesList == [LoopNext]_loopVars => [Next]_vars
<1> SUFFICES ASSUME [LoopNext]_loopVars PROVE [Next]_vars
  OBVIOUS
<1> USE DEF timerVars
<1>1. CASE Second
  BY <1>1 DEF Second, Next
<1>2. CASE Kill
  BY <1>2 DEF Kill
<1>3. ASSUME NEW sig \in Signal, Deliver(sig) PROVE UNCHANGED vars
  BY <1>3 DEF Deliver, HandleSignal, InterruptWait
<1>4. CASE ClientsReadable
  BY <1>4 DEF ClientsReadable
<1>5. CASE ClientEvent
  BY <1>5 DEF ClientEvent, Next
<1>6. CASE LoopStep
  <2>1. CASE TimerHandler
    BY <2>1 DEF TimerHandler, TickList, Next
  <2>2. CASE Exit
    BY <2>2 DEF Exit, Next
  <2>3. CASE PipeReadable \/ WaitFailed \/ SignalEvent \/ EndOfEvents \/ NextIteration
    BY <2>3 DEF PipeReadable, WaitFailed, SignalEvent, EndOfEvents, NextIteration
  <2> QED
    BY <1>6, <2>1, <2>2, <2>3 DEF LoopStep
<1>7. CASE UNCHANGED loopVars
  BY <1>7 DEF loopVars
<1> QED
  BY <1>1, <1>2, <1>3, <1>4, <1>5, <1>6, <1>7 DEF LoopNext

\* The list is empty.
LEMMA ListInvInit == Init => ListInv /\ InOrder
<1> SUFFICES ASSUME Init PROVE ListInv /\ InOrder
  OBVIOUS
<1>1. List = [head |-> NULL, tail |-> NULL, next |-> [t \in Timers |-> NULL],
              prev |-> [t \in Timers |-> NULL]]
  BY DEF Init, List
<1>2. ListOf(List, live)
  BY <1>1 DEF Init, ListOf, Lists, NodeOrNull
<1>3. expire \in [Timers -> Nat] /\ now \in 0..MaxTime /\ fired \subseteq Timers
  BY TimerListAssumption DEF Init
<1>4. SortedOn(List, live, expire)
  BY DEF Init, SortedOn
<1>5. InOrder
  BY <1>4 DEF InOrder, Init
<1> QED
  BY <1>2, <1>3, <1>5 DEF ListInv

\* Each operation leaves one list, whatever the deadlines are.
LEMMA ListInvNext == ListInv /\ [Next]_vars => ListInv'
<1> SUFFICES ASSUME ListInv, [Next]_vars PROVE ListInv'
  OBVIOUS
<1>1. ASSUME NEW t \in Timers, Add(t) \/ Adjust(t) \/ Delete(t) PROVE ListInv'
  BY <1>1, ListInvAdd, ListInvAdjust, ListInvDelete
<1>2. CASE Tick
  BY <1>2, ListInvTick
<1>3. CASE Destroy
  BY <1>3, ListInvDestroy
<1>4. CASE Advance
  <2>1. List' = List /\ live' = live /\ expire' = expire /\ fired' = fired
    BY <1>4 DEF Advance, List
  <2>2. now' \in 0..MaxTime
    BY <1>4, TimerListAssumption DEF Advance, ListInv
  <2> QED
    BY <2>1, <2>2 DEF ListInv
<1>5. CASE UNCHANGED vars
  <2>1. List' = List /\ live' = live /\ expire' = expire /\ fired' = fired /\ now' = now
    BY <1>5 DEF vars, List
  <2> QED
    BY <2>1 DEF ListInv
<1> QED
  BY <1>1, <1>2, <1>3, <1>4, <1>5 DEF Next

\* Each operation keeps the order, if a moved timer expires last.
LEMMA InOrderNext ==
  ASSUME MovedIsLatest
  PROVE  ListInv /\ InOrder /\ [Next]_vars => InOrder'
<1> SUFFICES ASSUME ListInv, InOrder, [Next]_vars PROVE InOrder'
  OBVIOUS
<1>0. /\ expire \in [Timers -> Int] /\ now \in Nat /\ live \subseteq Timers
      /\ AdjustTimeouts \subseteq Nat /\ NewTimeouts \subseteq Nat
  BY ListTyped, TimerListAssumption
<1> USE DEF InOrder
<1>1. ASSUME NEW t \in Timers, Add(t) PROVE InOrder'
  <2>1. PICK n \in NewTimeouts : expire' = [expire EXCEPT ![t] = now + n]
    BY <1>1 DEF Add
  <2>2. live' = live \cup {t} /\ now' = now
    BY <1>1 DEF Add
  <2>3. \A d \in AdjustTimeouts : n <= d
    BY DEF MovedIsLatest
  <2>4. SortedOn(List, live, expire)'
    BY <1>1, ListInvAdd
  <2> QED
    BY <1>0, <2>1, <2>2, <2>3, <2>4
<1>2. ASSUME NEW t \in Timers, Adjust(t) PROVE InOrder'
  <2>1. PICK n \in AdjustTimeouts : expire' = [expire EXCEPT ![t] = now + n]
    BY <1>2 DEF Adjust
  <2>2. live' = live /\ now' = now /\ t \in live
    BY <1>2 DEF Adjust
  <2>3. \A d \in AdjustTimeouts : n <= d
    BY DEF MovedIsLatest
  <2>4. \A u \in live : expire'[u] <= expire'[t]
    BY <1>0, <2>1, <2>2
  <2>5. MovedBack(List, expire', t)
    <3>1. PICK r : Chain(List, live, r)
      BY <2>2 DEF ListInv, ListOf
    <3>2. /\ List.next[t] # NULL => List.next[t] \in live
          /\ List.prev[t] # NULL => List.prev[t] \in live
      BY <2>2, <3>1, NodeFacts
    <3> QED
      BY <2>4, <3>2 DEF MovedBack
  <2>6. SortedOn(List, live, expire)'
    BY <1>2, <2>5, ListInvAdjust
  <2> QED
    BY <1>0, <2>1, <2>2, <2>3, <2>6
<1>3. ASSUME NEW t \in Timers, Delete(t) PROVE InOrder'
  <2>1. live' = live \ {t} /\ now' = now /\ expire' = [expire EXCEPT ![t] = 0]
    BY <1>3 DEF Delete
  <2>2. SortedOn(List, live, expire)'
    BY <1>3, ListInvDelete
  <2> QED
    BY <1>0, <2>1, <2>2
<1>4. CASE Tick
  <2>1. live' = live \ DueFrom(head) /\ now' = now
        /\ expire' = [t \in Timers |-> IF t \in DueFrom(head) THEN 0 ELSE expire[t]]
    BY <1>4 DEF Tick, Expire
  <2>2. SortedOn(List, live, expire)'
    BY <1>4, ListInvTick
  <2> QED
    BY <1>0, <2>1, <2>2
<1>5. CASE Destroy
  <2>1. live' = {}
    BY <1>5, ListInvDestroy
  <2>2. SortedOn(List', live', expire')
    BY <2>1 DEF SortedOn
  <2> QED
    BY <2>1, <2>2
<1>6. CASE Advance
  <2>1. List' = List /\ live' = live /\ expire' = expire /\ now' = now + 1
    BY <1>6 DEF Advance, List
  <2> QED
    BY <1>0, <2>1
<1>7. CASE UNCHANGED vars
  <2>1. List' = List /\ live' = live /\ expire' = expire /\ now' = now
    BY <1>7 DEF vars, List
  <2> QED
    BY <2>1
<1> QED
  BY <1>1, <1>2, <1>3, <1>4, <1>5, <1>6, <1>7 DEF Next

-----------------------------------------------------------------------------
(* The list as the runs describe it                                        *)

\* The equation by which Node is defined.
IsNode(w) == w = [i \in 0..Cardinality(Timers) |->
                    IF i = 0 THEN head
                    ELSE IF w[i - 1] = NULL THEN NULL
                    ELSE next[w[i - 1]]]

\* Node is a solution of its equation, if there is any.
LEMMA NodeEquation ==
  ASSUME \E w : IsNode(w)
  PROVE  IsNode(Node)
<1> DEFINE Eq(node) == node = [i \in 0..Cardinality(Timers) |->
                                 IF i = 0 THEN head
                                 ELSE IF node[i - 1] = NULL THEN NULL
                                 ELSE next[node[i - 1]]]
<1> DEFINE v == CHOOSE node : Eq(node)
<1>1. Node = v
  BY DEF Node
<1>2. \E w : Eq(w)
  BY DEF IsNode
<1> HIDE DEF Eq
<1>3. Eq(v)
  BY <1>2
<1> HIDE DEF v
<1> QED
  BY <1>1, <1>3 DEF Eq, IsNode

\* Ranks are a timer's distance from the head, counted along the list.
LEMMA RanksFilled ==
  ASSUME NEW l, NEW L, NEW r, Chain(l, L, r), NEW t \in L, NEW i \in Int,
         r[l.head] <= i, i <= r[t]
  PROVE  \E u \in L : r[u] = i
<1> DEFINE Above == {u \in L : i <= r[u]}
<1>0. \A x \in L : /\ r[x] \in Int
                   /\ x # l.head => l.prev[x] \in L /\ r[x] = r[l.prev[x]] + 1
  BY NodeFacts
<1>1. PICK u \in Above : \A x \in Above : r[u] <= r[x]
  <2>1. t \in Above /\ \A x \in Above : r[x] \in Int /\ i <= r[x]
    BY <1>0
  <2> HIDE DEF Above
  <2> QED
    BY <2>1, LowestRank
<1>2. CASE u = l.head
  BY <1>0, <1>2
<1>3. CASE u # l.head
  <2>1. l.prev[u] \in L /\ r[u] = r[l.prev[u]] + 1 /\ r[l.prev[u]] \in Int /\ l.prev[u] \notin Above
    BY <1>0, <1>1, <1>3
  <2> QED
    BY <1>0, <2>1
<1> QED
  BY <1>2, <1>3

\* There is no room for more ranks than timers.
LEMMA RanksBounded ==
  ASSUME NEW l, NEW L, NEW r, Chain(l, L, r), NEW t \in L
  PROVE  r[t] - r[l.head] < Cardinality(Timers)
<1> DEFINE S == r[l.head]..r[t]
           f == [i \in S |-> CHOOSE u \in L : r[u] = i]
<1>1. l.head \in L /\ L \subseteq Timers /\ r[l.head] \in Int /\ r[t] \in Int /\ r[l.head] <= r[t]
  BY DEF Chain
<1>2. \A i \in S : f[i] \in L /\ r[f[i]] = i
  <2> TAKE i \in S
  <2>1. \E u \in L : r[u] = i
    BY <1>1, RanksFilled
  <2> QED
    BY <2>1
<1>3. f \in Injection(S, Timers)
  <2>1. f \in [S -> Timers]
    BY <1>1, <1>2
  <2>2. \A i, j \in S : f[i] = f[j] => i = j
    BY <1>2
  <2> HIDE DEF f, S
  <2> QED
    BY <2>1, <2>2 DEF Injection, IsInjective
<1>4. Cardinality(S) <= Cardinality(Timers)
  <2> HIDE DEF f
  <2> QED
    BY <1>3, FS_Injection, TimerListAssumption
<1>5. Cardinality(S) = r[t] - r[l.head] + 1
  BY <1>1, FS_Interval
<1>6. Cardinality(Timers) \in Nat
  BY TimerListAssumption, FS_CardinalityType
<1> QED
  BY <1>1, <1>4, <1>5, <1>6

\* Node counts the timers from the head on.
LEMMA NodeRank ==
  ASSUME ListOf(List, live), NEW r, Chain(List, live, r)
  PROVE  \A i \in 0..Cardinality(Timers) :
           \/ Node[i] = NULL /\ ~ \E t \in live : r[t] = r[head] + i
           \/ Node[i] \in live /\ r[Node[i]] = r[head] + i
<1> DEFINE N == Cardinality(Timers)
           At(i) == {t \in live : r[t] = r[head] + i}
           w == [i \in 0..N |-> IF At(i) = {} THEN NULL ELSE CHOOSE t \in At(i) : TRUE]
           Good(i) == \/ Node[i] = NULL /\ At(i) = {}
                      \/ Node[i] \in At(i)
<1>0. N \in Nat
  BY TimerListAssumption, FS_CardinalityType
<1>1. \A t \in live : /\ t \in Timers /\ t # NULL /\ r[t] \in Int
                      /\ next[t] = NULL <=> t = tail
                      /\ t # tail => next[t] \in live /\ r[next[t]] = r[t] + 1
                      /\ t # tail => r[t] < r[tail]
  BY NodeFactsOfState
<1>2. /\ tail \in live /\ head \in live /\ (\A t, u \in live : r[t] = r[u] => t = u)
      /\ \A t \in live : r[head] <= r[t] /\ r[t] <= r[tail]
  BY DEF Chain, List
<1>3. \A i \in 0..N : \A t \in At(i) : At(i) = {t}
  BY <1>2
<1>4. At(0) = {head}
  BY <1>1, <1>2
<1>5. ASSUME NEW i \in 1..N, At(i - 1) = {} PROVE At(i) = {}
  <2> SUFFICES ASSUME NEW t \in live, r[t] = r[head] + i PROVE FALSE
    OBVIOUS
  <2>1. r[head] + (i - 1) \in Int /\ r[head] <= r[head] + (i - 1)
        /\ r[head] + (i - 1) <= r[t]
    BY <1>0, <1>1, <1>2
  <2>2. \E u \in live : r[u] = r[head] + (i - 1)
    BY <2>1, RanksFilled DEF List
  <2> QED
    BY <1>5, <2>2
<1>6. ASSUME NEW i \in 1..N, NEW t \in At(i - 1)
      PROVE  \/ next[t] = NULL /\ At(i) = {}
             \/ next[t] \in At(i)
  <2>1. CASE t = tail
    BY <1>0, <1>1, <1>2, <2>1
  <2>2. CASE t # tail
    BY <1>0, <1>1, <1>2, <2>2
  <2> QED
    BY <2>1, <2>2
<1>7. \A i \in 1..N : i - 1 \in 0..N /\ i \in 0..N
  BY <1>0
<1>8. \A i \in 0..N : \A t \in At(i) : t # NULL
  BY <1>1
<1> HIDE DEF At, N
<1>9. IsNode(w)
  <2>1. \A i \in 0..N : (At(i) = {} /\ w[i] = NULL) \/ At(i) = {w[i]}
    BY <1>3
  <2>2. \A i \in 0..N : w[i] = IF i = 0 THEN head
                               ELSE IF w[i - 1] = NULL THEN NULL
                               ELSE next[w[i - 1]]
    <3> TAKE i \in 0..N
    <3> HIDE DEF w
    <3>1. CASE i = 0
      BY <1>4, <2>1, <3>1
    <3>2. CASE i # 0
      <4>1. i \in 1..N /\ i - 1 \in 0..N
        BY <1>0, <3>2
      <4>2. CASE At(i - 1) = {}
        BY <1>5, <2>1, <3>2, <4>1, <4>2
      <4>3. CASE At(i - 1) # {}
        <5>1. w[i - 1] \in At(i - 1) /\ w[i - 1] # NULL
          BY <1>8, <2>1, <4>1, <4>3
        <5>2. (next[w[i - 1]] = NULL /\ At(i) = {}) \/ next[w[i - 1]] \in At(i)
          BY <1>6, <4>1, <5>1
        <5> QED
          BY <2>1, <3>2, <5>1, <5>2
      <4> QED
        BY <4>2, <4>3
    <3> QED
      BY <3>1, <3>2
  <2>3. w = [i \in 0..N |-> IF i = 0 THEN head
                            ELSE IF w[i - 1] = NULL THEN NULL
                            ELSE next[w[i - 1]]]
    <3>1. w = [i \in 0..N |-> w[i]]
      OBVIOUS
    <3> HIDE DEF w
    <3> QED
      BY <2>2, <3>1
  <2> HIDE DEF w
  <2> QED
    BY <2>3 DEF IsNode, N
<1> HIDE DEF w
<1>10. \A i \in 0..N : Node[i] = IF i = 0 THEN head
                                 ELSE IF Node[i - 1] = NULL THEN NULL
                                 ELSE next[Node[i - 1]]
  <2>1. IsNode(Node)
    BY <1>9, NodeEquation
  <2> QED
    BY <2>1 DEF IsNode, N
<1>11. \A i \in 0..N : Good(i)
  <2> DEFINE Bad == {i \in 0..N : ~Good(i)}
  <2>1. SUFFICES ASSUME Bad # {} PROVE FALSE
    OBVIOUS
  <2>2. Bad \in SUBSET Nat
    BY <1>0
  <2>3. PICK i \in Bad : \A j \in Bad : i <= j
    <3> HIDE DEF Bad
    <3> QED
      BY <2>1, <2>2, LeastNumber
  <2>4. i # 0
    BY <1>0, <1>4, <1>10
  <2>5. i \in 1..N /\ i - 1 \in 0..N /\ i \in 0..N
    BY <1>0, <2>3, <2>4
  <2>6. Good(i - 1)
    BY <1>0, <2>3, <2>5
  <2>7. Node[i] = IF Node[i - 1] = NULL THEN NULL ELSE next[Node[i - 1]]
    BY <1>10, <2>4, <2>5
  <2>8. CASE Node[i - 1] = NULL /\ At(i - 1) = {}
    BY <1>5, <2>3, <2>5, <2>7, <2>8
  <2>9. CASE Node[i - 1] \in At(i - 1)
    BY <1>6, <1>8, <2>3, <2>5, <2>7, <2>9
  <2> QED
    BY <2>6, <2>8, <2>9
<1> QED
  BY <1>11 DEF At, N

\* The list as the runs describe it.
LEMMA LinkedFromInv == ListInv => Linked /\ TypeOK
<1> SUFFICES ASSUME ListInv PROVE Linked /\ TypeOK
  OBVIOUS
<1> DEFINE N == Cardinality(Timers)
<1>0. N \in Nat
  BY TimerListAssumption, FS_CardinalityType
<1>1. CASE live = {}
  <2>1. head = NULL
    BY <1>1, ListTyped DEF ListInv, ListOf
  <2>2. IsNode(Node)
    <3> DEFINE w == [i \in 0..N |-> NULL]
    <3>1. \A i \in 0..N : w[i] = IF i = 0 THEN head
                                 ELSE IF w[i - 1] = NULL THEN NULL
                                 ELSE next[w[i - 1]]
      <4>1. \A i \in 0..N : i # 0 => i - 1 \in 0..N
        BY <1>0
      <4> QED
        BY <2>1, <4>1
    <3>2. w = [i \in 0..N |-> IF i = 0 THEN head
                              ELSE IF w[i - 1] = NULL THEN NULL
                              ELSE next[w[i - 1]]]
      <4>1. w = [i \in 0..N |-> w[i]]
        OBVIOUS
      <4> HIDE DEF w
      <4> QED
        BY <3>1, <4>1
    <3> HIDE DEF w
    <3>3. IsNode(w)
      BY <3>2 DEF IsNode
    <3> QED
      BY <3>3, NodeEquation
  <2>3. \A i \in 0..N : Node[i] = IF i = 0 THEN head
                                  ELSE IF Node[i - 1] = NULL THEN NULL
                                  ELSE next[Node[i - 1]]
    BY <2>2 DEF IsNode
  <2>4. \A i \in 0..N : Node[i] = NULL
    <3> DEFINE Bad == {i \in 0..N : Node[i] # NULL}
    <3>1. SUFFICES ASSUME Bad # {} PROVE FALSE
      OBVIOUS
    <3>2. Bad \in SUBSET Nat
      BY <1>0
    <3>3. PICK i \in Bad : \A j \in Bad : i <= j
      <4> HIDE DEF Bad
      <4> QED
        BY <3>1, <3>2, LeastNumber
    <3>4. i \in 0..N /\ i # 0 /\ Node[i] # NULL
      BY <2>1, <2>3, <3>3
    <3>5. i - 1 \in 0..N /\ Node[i - 1] = NULL
      BY <1>0, <3>3, <3>4
    <3> QED
      BY <2>3, <3>4, <3>5
  <2>5. N \in 0..N /\ 0 \in 0..N
    BY <1>0
  <2>6. Linked
    BY <1>1, <2>4, <2>5 DEF Linked
  <2> QED
    BY <1>1, <2>1, <2>6, ListTyped DEF TypeOK, ListInv, NodeOrNull
<1>2. CASE live # {}
  <2>1. PICK r : Chain(List, live, r)
    BY <1>2 DEF ListInv, ListOf
  <2>2. \A t \in live : /\ t \in Timers /\ t # NULL /\ r[t] \in Int
                        /\ next[t] = NULL <=> t = tail
    BY <2>1, NodeFactsOfState DEF ListInv
  <2>3. /\ tail \in live /\ head \in live /\ prev[head] = NULL
        /\ \A t, u \in live : r[t] = r[u] => t = u
        /\ \A t \in live : r[head] <= r[t]
        /\ \A t \in live \ {tail} : prev[next[t]] = t
    BY <2>1, ListTyped DEF Chain
  <2>4. \A t \in live : r[t] - r[head] < N
    BY <2>1, ListTyped, RanksBounded
  <2>5. \A i \in 0..N : \/ Node[i] = NULL /\ ~ \E t \in live : r[t] = r[head] + i
                        \/ Node[i] \in live /\ r[Node[i]] = r[head] + i
    BY <2>1, NodeRank DEF ListInv
  <2> HIDE DEF N
  <2>6. Node[N] = NULL
    <3>1. N \in 0..N
      BY <1>0
    <3>2. ASSUME Node[N] \in live, r[Node[N]] = r[head] + N PROVE FALSE
      BY <1>0, <2>2, <2>3, <2>4, <3>2
    <3> QED
      BY <2>5, <3>1, <3>2
  <2>7. \A t \in live : \E i \in 0..N : Node[i] = t
    <3> TAKE t \in live
    <3>1. r[t] - r[head] \in 0..N /\ r[t] = r[head] + (r[t] - r[head])
      BY <1>0, <2>2, <2>3, <2>4
    <3>2. Node[r[t] - r[head]] = t
      BY <2>3, <2>5, <3>1
    <3> QED
      BY <3>1, <3>2
  <2>8. {Node[i] : i \in 0..N} \ {NULL} = live
    <3>1. \A t \in live : t \in {Node[i] : i \in 0..N} \ {NULL}
      BY <2>2, <2>7
    <3>2. \A i \in 0..N : Node[i] = NULL \/ Node[i] \in live
      BY <2>5
    <3> QED
      BY <3>1, <3>2
  <2>9. Linked
    BY <2>2, <2>3, <2>6, <2>8 DEF Linked, N
  <2> QED
    BY <2>3, <2>9, ListTyped DEF TypeOK, ListInv, NodeOrNull
<1> QED
  BY <1>1, <1>2

-----------------------------------------------------------------------------
(* The set of deadlines that the list stands for                           *)

\* The empty list is the empty set.
LEMMA AbstractInit == Init => Abstract!Init
BY DEF Init, Abstract!Init

\* Each operation on an ordered list is one on the set: what add_timer and
\* adjust_timer do to the order of the list does not show, and a tick, which
\* stops at the first timer that is not due, has met all that are.
LEMMA AbstractNext ==
  ListInv /\ InOrder /\ [Next]_vars => [Abstract!Next]_(Abstract!vars)
<1> SUFFICES ASSUME ListInv, InOrder, [Next]_vars PROVE [Abstract!Next]_(Abstract!vars)
  OBVIOUS
<1>0. /\ expire \in [Timers -> Nat] /\ now \in Nat /\ live \subseteq Timers
      /\ AdjustTimeouts \subseteq Nat /\ NewTimeouts \subseteq Nat
  BY ListTyped, TimerListAssumption DEF ListInv
<1>1. ASSUME NEW t \in Timers, Add(t) PROVE Abstract!Add(t)
  <2>1. PICK n \in NewTimeouts : expire' = [expire EXCEPT ![t] = now + n]
    BY <1>1 DEF Add
  <2>2. Abstract!SetDeadline(t)
    BY <1>0, <2>1 DEF Abstract!SetDeadline
  <2> QED
    BY <1>1, <2>2 DEF Add, Abstract!Add
<1>2. ASSUME NEW t \in Timers, Adjust(t) PROVE Abstract!Adjust(t)
  <2>1. PICK n \in AdjustTimeouts : expire' = [expire EXCEPT ![t] = now + n]
    BY <1>2 DEF Adjust
  <2>2. Abstract!SetDeadline(t)
    BY <1>0, <2>1 DEF Abstract!SetDeadline
  <2> QED
    BY <1>2, <2>2 DEF Adjust, Abstract!Adjust
<1>3. ASSUME NEW t \in Timers, Delete(t) PROVE Abstract!Delete(t)
  <2>1. expire' = [expire EXCEPT ![t] = 0]
    BY <1>3 DEF Delete
  <2>2. Abstract!Forget({t})
    BY <1>0, <2>1 DEF Abstract!Forget
  <2> QED
    BY <1>3, <2>2 DEF Delete, Abstract!Delete
<1>4. ASSUME Tick PROVE Abstract!Tick
  <2>1. DueFrom(head) = Abstract!Due
    BY <1>4, ListInvTick DEF InOrder, Abstract!Due
  <2> QED
    BY <1>4, <2>1 DEF Tick, Expire, Abstract!Tick, Abstract!Forget
<1>5. ASSUME Destroy PROVE Abstract!Clear
  <2>1. live' = {} /\ From(head) = live
    BY <1>5, ListInvDestroy
  <2> QED
    BY <1>5, <2>1 DEF Destroy, Abstract!Clear, Abstract!Forget
<1>6. ASSUME Advance PROVE Abstract!Advance
  BY <1>6 DEF Advance, Abstract!Advance
<1>7. ASSUME UNCHANGED vars PROVE UNCHANGED Abstract!vars
  BY <1>7 DEF vars, Abstract!vars
<1> QED
  BY <1>1, <1>2, <1>3, <1>4, <1>5, <1>6, <1>7 DEF Next, Abstract!Next

\* The flag of the alarm is only reset after a tick, and none of the timers
\* that it leaves is due.
LEMMA NoneDueNext ==
  ListInv /\ InOrder /\ [LoopNext]_loopVars
    => [timeout /\ ~timeout' => \A t \in live' : expire'[t] > now']_loopVars
<1> SUFFICES ASSUME ListInv, InOrder, [LoopNext]_loopVars, timeout, ~timeout',
                    NEW t \in live'
             PROVE  expire'[t] > now'
  OBVIOUS
<1>1. TimerHandler
  <2>1. CASE \E sig \in Signal : Deliver(sig)
    BY <2>1 DEF Deliver, HandleSignal, InterruptWait
  <2>2. CASE UNCHANGED loopVars
    BY <2>2 DEF loopVars
  <2>3. CASE Second \/ Kill \/ ClientsReadable \/ ClientEvent
    BY <2>3 DEF Second, Kill, ClientsReadable, ClientEvent
  <2>4. CASE PipeReadable \/ WaitFailed \/ SignalEvent \/ EndOfEvents
             \/ NextIteration \/ Exit
    BY <2>4 DEF PipeReadable, WaitFailed, SignalEvent, EndOfEvents, NextIteration, Exit
  <2> QED
    BY <2>1, <2>2, <2>3, <2>4 DEF LoopNext, LoopStep
<1>2. CASE head = NULL
  <2>1. live' = live
    BY <1>1, <1>2 DEF TimerHandler, TickList, timerVars, vars
  <2>2. live = {}
    BY <1>2, TimerListAssumption DEF ListInv, ListOf, Chain, List
  <2> QED
    BY <2>1, <2>2
<1>3. CASE head # NULL
  <2>1. Tick
    BY <1>1, <1>3 DEF TimerHandler, TickList
  <2>2. DueFrom(head) = {u \in live : expire[u] <= now}
    BY <2>1, ListInvTick DEF InOrder
  <2>3. /\ live' = live \ DueFrom(head) /\ now' = now
        /\ expire' = [u \in Timers |-> IF u \in DueFrom(head) THEN 0 ELSE expire[u]]
    BY <2>1 DEF Tick, Expire
  <2>4. expire \in [Timers -> Nat] /\ now \in Nat /\ live \subseteq Timers
    BY ListTyped DEF ListInv
  <2> QED
    BY <2>2, <2>3, <2>4
<1> QED
  BY <1>2, <1>3

\* A list in order of its deadlines is sorted.
LEMMA SortedFromInOrder == ListInv /\ InOrder => Sorted
BY ListTyped DEF InOrder, SortedOn, Sorted

-----------------------------------------------------------------------------
(* Theorems                                                                *)

\* The inductive invariant of the loop.
THEOREM Invariance == LoopSpec => []Inv
BY InvInit, InvNext, PTL DEF LoopSpec

\* The inductive invariant of the list, for whatever deadlines the callers set:
\* after each add_timer, adjust_timer, del_timer, tick and destruction, the
\* pointers form one list of exactly the allocated timers.
THEOREM ListInvariance == LoopSpec => []ListInv
<1>1. LoopInit => ListInv
  BY ListInvInit DEF LoopInit
<1>2. ListInv /\ [LoopNext]_loopVars => ListInv'
  BY ListInvNext, LoopUsesList
<1> QED
  BY <1>1, <1>2, PTL DEF LoopSpec

\* The variables of the loop and of the list have their types: the pipe never
\* holds more than it can, and head never points to freed memory.
THEOREM TypeCorrect == LoopSpec => []LoopTypeOK
<1>1. Inv /\ ListInv => LoopTypeOK
  BY LinkedFromInv DEF Inv, LoopTyped, LoopTypeOK
<1> QED
  BY Invariance, ListInvariance, <1>1, PTL

\* The chain of alarms never breaks, even if the pipe is full and the byte of
\* an alarm is lost, and a signal handler never makes the loop break off.
THEOREM AlarmsNeverStop == LoopSpec => []KeepsTicking
<1>1. Inv => KeepsTicking
  BY DEF Inv
<1> QED
  BY Invariance, <1>1, PTL

\* No timer is leaked and no freed timer is reachable; next and prev agree.  This
\* needs nothing of the deadlines: a list out of order is still a list.
THEOREM ListLinked == LoopSpec => []Linked
<1>1. ListInv => Linked
  BY LinkedFromInv
<1> QED
  BY ListInvariance, <1>1, PTL

\* A list in order stays in order whatever the loop does to it, if a deadline is
\* only moved back: behind that of the next timer, or, for the last timer, not
\* before that of the one in front of it.  This is what adjust_timer asks of its
\* callers: it only looks for a place behind the next timer.
THEOREM OrderKept ==
  LoopSpec =>
    [][Sorted /\ OnlyMovedBack => Sorted']_loopVars
<1>1. ListInv /\ ListInv' /\ [LoopNext]_loopVars
        => [Sorted /\ OnlyMovedBack => Sorted']_loopVars
  <2> SUFFICES ASSUME ListInv, ListInv', [LoopNext]_loopVars, Sorted, OnlyMovedBack
               PROVE  Sorted'
    OBVIOUS
  <2>1. SortedOn(List, live, expire) /\ [Next]_vars
    BY LoopUsesList DEF Sorted, SortedOn, List
  <2>2. SortedOn(List, live, expire)'
    <3>1. ASSUME NEW t \in Timers, Add(t) \/ Adjust(t) \/ Delete(t)
          PROVE  SortedOn(List, live, expire)'
      BY <2>1, <3>1, ListInvAdd, ListInvAdjust, ListInvDelete DEF OnlyMovedBack
    <3>2. CASE Tick
      BY <2>1, <3>2, ListInvTick
    <3>3. CASE Destroy
      BY <3>3, ListInvDestroy DEF SortedOn
    <3>4. CASE Advance \/ UNCHANGED vars
      <4>1. List' = List /\ live' = live /\ expire' = expire
        BY <3>4 DEF Advance, vars, List
      <4> QED
        BY <2>1, <4>1
    <3> QED
      BY <2>1, <3>1, <3>2, <3>3, <3>4 DEF Next
  <2> QED
    BY <2>2 DEF Sorted, SortedOn, List
<1> QED
  BY ListInvariance, <1>1, PTL DEF LoopSpec

\* If a timer that is moved expires last, the list stays in order, which the early
\* return of adjust_timer and its insertion behind the old successor rely on.
THEOREM OrderInvariance == ASSUME MovedIsLatest PROVE LoopSpec => []InOrder
<1>1. LoopInit => InOrder
  BY ListInvInit DEF LoopInit
<1>2. ListInv /\ InOrder /\ [LoopNext]_loopVars => InOrder'
  BY InOrderNext, LoopUsesList
<1> QED
  BY ListInvariance, <1>1, <1>2, PTL DEF LoopSpec

\* Then the pointers always form one list of exactly the allocated timers, sorted
\* by their deadlines.
THEOREM ListWellFormed == ASSUME MovedIsLatest PROVE LoopSpec => []WellFormed
<1>1. ListInv /\ InOrder => WellFormed
  BY LinkedFromInv, SortedFromInOrder DEF WellFormed
<1> QED
  BY ListInvariance, OrderInvariance, <1>1, PTL

\* Then the list implements the set of deadlines: a tick fires every timer that is
\* due and no other, and when the loop has handled an alarm none is due.
THEOREM TickExact == ASSUME MovedIsLatest PROVE LoopSpec => TickFiresExactlyDue
<1>1. LoopInit => Abstract!Init
  BY AbstractInit DEF LoopInit
<1>2. ListInv /\ InOrder /\ [LoopNext]_loopVars => [Abstract!Next]_(Abstract!vars)
  BY AbstractNext, LoopUsesList
<1>3. ListInv /\ InOrder /\ [LoopNext]_loopVars
        => [timeout /\ ~timeout' => \A t \in live' : expire'[t] > now']_loopVars
  BY NoneDueNext
<1>4. LoopSpec => ImplementsTimerQueue
  BY ListInvariance, OrderInvariance, <1>1, <1>2, PTL
     DEF LoopSpec, ImplementsTimerQueue, Abstract!Spec
<1>5. LoopSpec => [][timeout /\ ~timeout' => \A t \in live' : expire'[t] > now']_loopVars
  BY ListInvariance, OrderInvariance, <1>3, PTL DEF LoopSpec
<1> QED
  BY <1>4, <1>5 DEF TickFiresExactlyDue
=============================================================================
