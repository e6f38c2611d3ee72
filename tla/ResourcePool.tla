---------------------------- MODULE ResourcePool ----------------------------
(***************************************************************************)
(* What connection_pool promises its callers, without locks, semaphores or *)
(* lists: a set of interchangeable connections, each of which is either    *)
(* free or held by exactly one thread.  Taking one and giving it back are  *)
(* single steps.  ConnPool.tla is shown to implement this specification.   *)
(***************************************************************************)
CONSTANTS
  Threads,   \* the callers of the pool
  Conns,     \* the MYSQL* handles opened by connection_pool::init
  NULL       \* the null pointer

VARIABLES
  free,      \* the connections nobody holds
  held       \* the connection each thread holds, or NULL

vars == <<free, held>>

Init ==
  /\ free = Conns
  /\ held = [t \in Threads |-> NULL]

\* A thread that holds nothing is given one of the free connections.
Acquire(t) ==
  /\ held[t] = NULL
  /\ \E c \in free :
       /\ free' = free \ {c}
       /\ held' = [held EXCEPT ![t] = c]

\* A thread gives back the connection it holds.
Release(t) ==
  /\ held[t] # NULL
  /\ free' = free \cup {held[t]}
  /\ held' = [held EXCEPT ![t] = NULL]

Next == \E t \in Threads : Acquire(t) \/ Release(t)

Spec == Init /\ [][Next]_vars
=============================================================================
