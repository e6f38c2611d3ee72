----------------------------- MODULE TimerList ------------------------------
(***************************************************************************)
(* sort_timer_lst (timer/lst_timer.h): the doubly linked list of the       *)
(* timers of the open connections, in ascending order of their deadlines.  *)
(* Only the main thread touches it, so each member function is one step;   *)
(* its pointer assignments are kept one by one.  tick() also runs cb_func, *)
(* which closes the connection.                                            *)
(*                                                                         *)
(* The code that creates and moves timers is not in the repository.  The   *)
(* class fixes its use: a caller sets expire, then calls add_timer for a   *)
(* new timer or adjust_timer for one in the list.  MainLoop.tla puts the   *)
(* list into the loop that calls tick().                                   *)
(***************************************************************************)
EXTENDS Integers, FiniteSets

CONSTANTS
  Timers,          \* addresses of util_timer objects, reused after delete
  NULL,            \* the null pointer
  NewTimeouts,     \* distances from now to the deadline of a new timer
  AdjustTimeouts,  \* distances from now to the deadline of a moved timer
  MaxTime          \* bound: the time at which the clock stops

ASSUME TimerListAssumption ==
  /\ IsFiniteSet(Timers)
  /\ NULL \notin Timers
  /\ NewTimeouts \subseteq Nat
  /\ AdjustTimeouts \subseteq Nat
  /\ MaxTime \in Nat

VARIABLES
  head, tail,  \* the members of sort_timer_lst
  next, prev,  \* the links of each timer
  expire,      \* the deadline of each timer
  live,        \* the timers that are allocated
  now,         \* time(NULL)
  fired        \* the timers whose cb_func has run since they were added

vars == <<head, tail, next, prev, expire, live, now, fired>>

Init ==
  /\ head = NULL
  /\ tail = NULL
  /\ next = [t \in Timers |-> NULL]
  /\ prev = [t \in Timers |-> NULL]
  /\ expire = [t \in Timers |-> 0]
  /\ live = {}
  /\ now = 0
  /\ fired = {}

-----------------------------------------------------------------------------
(* The list as a value: [head, tail, next, prev].  e is the expire field of *)
(* every timer.                                                             *)

List == [head |-> head, tail |-> tail, next |-> next, prev |-> prev]

\* The loop of the private add_timer: the last node from p on before the
\* first one that expires after the timer.
Predecessor(l, e, timer, p) ==
  LET walk[n \in Timers] ==
        IF l.next[n] # NULL /\ e[timer] >= e[l.next[n]]
        THEN walk[l.next[n]]
        ELSE n
  IN walk[p]

\* Mutant: tail is not updated when the timer goes to the end.
InsertNoTail(l, e, timer, lst_head) ==
  LET p == Predecessor(l, e, timer, lst_head)
      n == l.next[p]
  IN [ head |-> l.head,
       tail |-> l.tail,
       next |-> [l.next EXCEPT ![p] = timer, ![timer] = n],
       prev |-> [t \in Timers |->
                   IF t = timer THEN p ELSE IF t = n THEN timer ELSE l.prev[t]] ]

\* void add_timer(util_timer *timer, util_timer *lst_head): lst_head itself is
\* never compared, so the timer goes behind it at the earliest.
InsertAfter(l, e, timer, lst_head) ==
  LET p == Predecessor(l, e, timer, lst_head)
      n == l.next[p]
  IN [ head |-> l.head,
       tail |-> IF n = NULL THEN timer ELSE l.tail,
       next |-> [l.next EXCEPT ![p] = timer, ![timer] = n],
       prev |-> [t \in Timers |->
                   IF t = timer THEN p ELSE IF t = n THEN timer ELSE l.prev[t]] ]

\* Mutant: a timer is never compared with the head.
AddBehindHead(l, e, timer) ==
  IF l.head = NULL
  THEN [l EXCEPT !.head = timer, !.tail = timer]
  ELSE InsertAfter(l, e, timer, l.head)

\* void add_timer(util_timer *timer)
AddTimer(l, e, timer) ==
  IF l.head = NULL
  THEN [l EXCEPT !.head = timer, !.tail = timer]
  ELSE IF e[timer] < e[l.head]
  THEN [l EXCEPT !.next[timer] = l.head, !.prev[l.head] = timer, !.head = timer]
  ELSE InsertAfter(l, e, timer, l.head)

\* void adjust_timer(util_timer *timer): the early return compares with the
\* head, not with the next timer, and the timer goes behind its old successor.
AdjustTimer(l, e, timer) ==
  LET successor == l.next[timer]
      withoutHead == [l EXCEPT !.head = successor,
                               !.prev[successor] = NULL,
                               !.next[timer] = NULL]
      unlinked == [l EXCEPT !.next[l.prev[timer]] = successor,
                            !.prev[successor] = l.prev[timer]]
  IN IF successor = NULL \/ e[timer] < e[l.head] THEN l
     ELSE IF timer = l.head
     THEN InsertAfter(withoutHead, e, timer, successor)
     ELSE InsertAfter(unlinked, e, timer, successor)

\* Mutant: head keeps pointing at the only timer after it has been deleted.
DelTimerNoHead(l, timer) ==
  LET p == l.prev[timer]
      n == l.next[timer]
  IN IF timer = l.head /\ timer = l.tail THEN [l EXCEPT !.tail = NULL]
     ELSE IF timer = l.head THEN [l EXCEPT !.head = n, !.prev[n] = NULL]
     ELSE IF timer = l.tail THEN [l EXCEPT !.tail = p, !.next[p] = NULL]
     ELSE [l EXCEPT !.next[p] = n, !.prev[n] = p]

\* void del_timer(util_timer *timer), without the delete.
DelTimer(l, timer) ==
  LET p == l.prev[timer]
      n == l.next[timer]
  IN IF timer = l.head /\ timer = l.tail THEN [l EXCEPT !.head = NULL, !.tail = NULL]
     ELSE IF timer = l.head THEN [l EXCEPT !.head = n, !.prev[n] = NULL]
     ELSE IF timer = l.tail THEN [l EXCEPT !.tail = p, !.next[p] = NULL]
     ELSE [l EXCEPT !.next[p] = n, !.prev[n] = p]

\* delete: the members of the timers in gone do not exist any more.
DeleteFrom(l, gone) ==
  [l EXCEPT !.next = [t \in Timers |-> IF t \in gone THEN NULL ELSE l.next[t]],
            !.prev = [t \in Timers |-> IF t \in gone THEN NULL ELSE l.prev[t]]]

SetList(l) ==
  /\ head' = l.head
  /\ tail' = l.tail
  /\ next' = l.next
  /\ prev' = l.prev

-----------------------------------------------------------------------------
(* The actions of the main thread                                          *)

\* A connection is accepted: new util_timer, expire is set, add_timer.
Add(t) ==
  /\ t \notin live
  /\ live' = live \cup {t}
  /\ fired' = fired \ {t}
  /\ \E d \in NewTimeouts : expire' = [expire EXCEPT ![t] = now + d]
  /\ LET fresh == [List EXCEPT !.next[t] = NULL, !.prev[t] = NULL]
     IN SetList(AddTimer(fresh, expire', t))
  /\ UNCHANGED now

\* Data arrives on a connection: expire is moved, adjust_timer.
Adjust(t) ==
  /\ t \in live
  /\ \E d \in AdjustTimeouts : expire' = [expire EXCEPT ![t] = now + d]
  /\ SetList(AdjustTimer(List, expire', t))
  /\ UNCHANGED <<live, now, fired>>

\* A connection is closed for another reason: del_timer.
Delete(t) ==
  /\ t \in live
  /\ SetList(DeleteFrom(DelTimer(List, t), {t}))
  /\ live' = live \ {t}
  /\ expire' = [expire EXCEPT ![t] = 0]
  /\ UNCHANGED <<now, fired>>

\* The first timer from t on that is not due, and the timers before it.
FirstNotDue(t) ==
  LET walk[n \in Timers \cup {NULL}] ==
        IF n = NULL THEN NULL
        ELSE IF now < expire[n] THEN n
        ELSE walk[next[n]]
  IN walk[t]

DueFrom(t) ==
  LET walk[n \in Timers \cup {NULL}] ==
        IF n = NULL THEN {}
        ELSE IF now < expire[n] THEN {}
        ELSE {n} \cup walk[next[n]]
  IN walk[t]

\* cb_func and delete for each timer in due; head moves to first, which loses
\* its prev.  tail is not touched, not even when the list becomes empty.
Expire(due, first) ==
  LET l == DeleteFrom([List EXCEPT !.head = first], due)
  IN /\ SetList(IF due = {} \/ first = NULL THEN l ELSE [l EXCEPT !.prev[first] = NULL])
     /\ fired' = fired \cup due
     /\ live' = live \ due
     /\ expire' = [t \in Timers |-> IF t \in due THEN 0 ELSE expire[t]]

\* void tick(): expire timers from the head on until one is not due.
Tick ==
  /\ head # NULL
  /\ Expire(DueFrom(head), FirstNotDue(head))
  /\ UNCHANGED now

\* The timers from t on, which are all of them if t is the head.
From(t) ==
  LET walk[n \in Timers \cup {NULL}] ==
        IF n = NULL THEN {} ELSE {n} \cup walk[next[n]]
  IN walk[t]

\* ~sort_timer_lst(): delete every timer from the head on, without cb_func.
Destroy ==
  /\ SetList(DeleteFrom([List EXCEPT !.head = NULL], From(head)))
  /\ live' = live \ From(head)
  /\ expire' = [t \in Timers |-> IF t \in From(head) THEN 0 ELSE expire[t]]
  /\ UNCHANGED <<now, fired>>

\* Time passes between two events of the main loop.
Advance ==
  /\ now < MaxTime
  /\ now' = now + 1
  /\ UNCHANGED <<head, tail, next, prev, expire, live, fired>>

Next ==
  \/ \E t \in Timers : Add(t) \/ Adjust(t) \/ Delete(t)
  \/ Tick
  \/ Destroy
  \/ Advance

Spec == Init /\ [][Next]_vars

-----------------------------------------------------------------------------
(* Properties *)

\* The type invariant: head never points to freed memory.
TypeOK ==
  /\ head \in live \cup {NULL}
  /\ tail \in Timers \cup {NULL}
  /\ next \in [Timers -> Timers \cup {NULL}]
  /\ prev \in [Timers -> Timers \cup {NULL}]
  /\ expire \in [Timers -> Nat]
  /\ live \subseteq Timers
  /\ now \in 0..MaxTime
  /\ fired \subseteq Timers

\* The i-th node after the head, following next.
Node ==
  LET node[i \in 0..Cardinality(Timers)] ==
        IF i = 0 THEN head
        ELSE IF node[i - 1] = NULL THEN NULL
        ELSE next[node[i - 1]]
  IN node

\* One doubly linked list of exactly the allocated timers; tail is the last
\* node, or stale if the list is empty.
Linked ==
  /\ Node[Cardinality(Timers)] = NULL
  /\ {Node[i] : i \in 0..Cardinality(Timers)} \ {NULL} = live
  /\ \A t \in live : next[t] # NULL => prev[next[t]] = t
  /\ live # {} => /\ prev[head] = NULL
                  /\ tail \in live
                  /\ next[tail] = NULL

\* The list is in ascending order (the comment at lst_timer.h:173).
Sorted == \A t \in live : next[t] # NULL => expire[t] <= expire[next[t]]

\* The pointers always form one sorted doubly linked list of exactly the
\* allocated timers: nothing is leaked, freed memory is never reachable, next
\* and prev agree, and after every insertion and removal the order holds.
WellFormed == Linked /\ Sorted

\* The list implements the set of deadlines: a tick that fires anything fires
\* every timer that is due and no other.
Abstract ==
  INSTANCE TimerQueue
    WITH pending <- live, deadline <- expire, clock <- now

ImplementsTimerQueue == Abstract!Spec

-----------------------------------------------------------------------------
(* What the comments say and the code does not do *)

\* "The list is in ascending order; the current time is less than this
\* timer's deadline, so the timers behind it have not expired either"
\* (lst_timer.h:173-174).  TLC refutes it as an INVARIANT when AdjustTimeouts
\* has a distance smaller than one of NewTimeouts: adjust_timer compares with
\* the head (line 108) and inserts behind the old successor.
BehindNotDueEither ==
  \A t \in live :
    next[t] # NULL /\ now < expire[t] => now < expire[next[t]]
=============================================================================
