----------------------------- MODULE TimerQueue -----------------------------
(***************************************************************************)
(* What sort_timer_lst promises the main loop, without a list: a set of    *)
(* timers with deadlines.  A tick calls the callback of every timer that   *)
(* is due, and of no other, and forgets them.  TimerList.tla is shown to   *)
(* implement this specification.                                           *)
(***************************************************************************)
EXTENDS Integers

CONSTANTS Timers  \* addresses of util_timer objects

VARIABLES
  pending,   \* the timers that have been added and neither fired nor deleted
  deadline,  \* the expire field of each timer
  clock,     \* time(NULL)
  fired      \* the timers whose callback has run since they were added

vars == <<pending, deadline, clock, fired>>

Init ==
  /\ pending = {}
  /\ deadline = [t \in Timers |-> 0]
  /\ clock = 0
  /\ fired = {}

\* The deadline of t, and of no other timer, becomes any time.
SetDeadline(t) ==
  /\ deadline'[t] \in Nat
  /\ deadline' = [deadline EXCEPT ![t] = deadline'[t]]

Add(t) ==
  /\ t \notin pending
  /\ pending' = pending \cup {t}
  /\ fired' = fired \ {t}
  /\ SetDeadline(t)
  /\ UNCHANGED clock

Adjust(t) ==
  /\ t \in pending
  /\ SetDeadline(t)
  /\ UNCHANGED <<pending, clock, fired>>

\* Timers that are gone have no deadline.
Forget(gone) ==
  deadline' = [t \in Timers |-> IF t \in gone THEN 0 ELSE deadline[t]]

Delete(t) ==
  /\ t \in pending
  /\ pending' = pending \ {t}
  /\ Forget({t})
  /\ UNCHANGED <<clock, fired>>

Due == {t \in pending : deadline[t] <= clock}

Tick ==
  /\ pending' = pending \ Due
  /\ fired' = fired \cup Due
  /\ Forget(Due)
  /\ UNCHANGED clock

\* The timers are forgotten without their callbacks.
Clear ==
  /\ pending' = {}
  /\ Forget(pending)
  /\ UNCHANGED <<clock, fired>>

Advance ==
  /\ clock' = clock + 1
  /\ UNCHANGED <<pending, deadline, fired>>

Next ==
  \/ \E t \in Timers : Add(t) \/ Adjust(t) \/ Delete(t)
  \/ Tick
  \/ Clear
  \/ Advance

Spec == Init /\ [][Next]_vars
=============================================================================
