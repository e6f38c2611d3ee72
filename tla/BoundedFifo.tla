---------------------------- MODULE BoundedFifo -----------------------------
(***************************************************************************)
(* What block_queue promises: a first-in first-out queue of at most        *)
(* Capacity items.  A push fails only on a full queue, a pop without a     *)
(* timeout only succeeds, and a pop with a timeout may give up at any      *)
(* time, taking nothing.  BlockQueue.tla is shown to implement this        *)
(* specification.                                                          *)
(***************************************************************************)
EXTENDS Integers, Sequences

CONSTANTS Threads, Items, NULL, Capacity

VARIABLES
  queue,   \* the items in the queue, the oldest first
  busy,    \* the operation each thread is in: "none", "push", "pop", "timed_pop"
  arg,     \* what a thread is pushing, or has popped
  result   \* what the last operation of each thread returned, TRUE during
           \* the next one

vars == <<queue, busy, arg, result>>

Init ==
  /\ queue = <<>>
  /\ busy = [t \in Threads |-> "none"]
  /\ arg = [t \in Threads |-> NULL]
  /\ result = [t \in Threads |-> TRUE]

Call(t) ==
  /\ busy[t] = "none"
  /\ busy' \in {[busy EXCEPT ![t] = b] : b \in {"push", "pop", "timed_pop"}}
  /\ arg' \in {[arg EXCEPT ![t] = x] : x \in Items \cup {NULL}}
  /\ (arg'[t] # NULL) <=> (busy'[t] = "push")
  /\ result' = [result EXCEPT ![t] = TRUE]
  /\ UNCHANGED queue

Return(t, ok) ==
  /\ busy' = [busy EXCEPT ![t] = "none"]
  /\ result' = [result EXCEPT ![t] = ok]

Push(t) ==
  /\ busy[t] = "push"
  /\ Len(queue) < Capacity
  /\ queue' = Append(queue, arg[t])
  /\ UNCHANGED arg
  /\ Return(t, TRUE)

PushFull(t) ==
  /\ busy[t] = "push"
  /\ Len(queue) = Capacity
  /\ UNCHANGED <<queue, arg>>
  /\ Return(t, FALSE)

Pop(t) ==
  /\ busy[t] \in {"pop", "timed_pop"}
  /\ queue # <<>>
  /\ arg' = [arg EXCEPT ![t] = Head(queue)]
  /\ queue' = Tail(queue)
  /\ Return(t, TRUE)

GiveUp(t) ==
  /\ busy[t] = "timed_pop"
  /\ UNCHANGED <<queue, arg>>
  /\ Return(t, FALSE)

Next ==
  \E t \in Threads : Call(t) \/ Push(t) \/ PushFull(t) \/ Pop(t) \/ GiveUp(t)

Spec == Init /\ [][Next]_vars
=============================================================================
