------------------------------ MODULE ByteFifo ------------------------------
(***************************************************************************)
(* What Buffer promises its users, without positions: a queue of bytes.    *)
(* What a call puts in comes out once, in order, and nothing else does.    *)
(* Buffer.tla is shown to implement this specification.                    *)
(***************************************************************************)
EXTENDS Sequences

CONSTANTS Bytes

VARIABLES
  content,  \* the readable bytes
  call      \* the bytes the last call has put in and taken out

vars == <<content, call>>

Init ==
  /\ content = <<>>
  /\ call = [put |-> <<>>, got |-> <<>>]

\* Bytes go in at the end.
Put ==
  /\ call'.put \in Seq(Bytes)
  /\ call'.got = <<>>
  /\ content' = content \o call'.put

\* Bytes come out at the front.
Get ==
  /\ call'.put = <<>>
  /\ content = call'.got \o content'

Next == Put \/ Get

Spec == Init /\ [][Next]_vars
=============================================================================
