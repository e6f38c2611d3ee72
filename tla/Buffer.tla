------------------------------- MODULE Buffer -------------------------------
(***************************************************************************)
(* Buffer (buffer/buffer.cpp): a vector of bytes with a read and a write   *)
(* position.  The readable bytes are between the two; what is in front of  *)
(* them can be reused, by moving them to the beginning.  If even that does *)
(* not make enough room, the vector grows.                                 *)
(*                                                                         *)
(* A buffer belongs to one thread, so each call is one step.  A call with  *)
(* the buffer itself as the source, b.Append(b), is left out.              *)
(***************************************************************************)
EXTENDS Integers, Sequences, FiniteSets

CONSTANTS
  Bytes,
  Zero,      \* the byte 0, which a vector is filled with
  InitSize,  \* initBuffSize
  StackSize, \* the size of the array buff of ReadFd
  MaxData    \* bound: the readable bytes and the room asked for, together

ASSUME BufferAssumption ==
  /\ Zero \in Bytes
  /\ InitSize \in Nat \ {0}
  /\ StackSize \in Nat \ {0}
  /\ MaxData \in Nat

VARIABLES
  buffer_, readPos_, writePos_,  \* the members
  call                           \* the bytes the last call has put in and taken out

vars == <<buffer_, readPos_, writePos_, call>>

Zeros(n) == [i \in 1..n |-> Zero]

Init ==
  /\ buffer_ = Zeros(InitSize)
  /\ readPos_ = 0
  /\ writePos_ = 0
  /\ call = [put |-> <<>>, got |-> <<>>]

-----------------------------------------------------------------------------
(* A buffer as a value: [bytes, readPos, writePos].  The byte at position i *)
(* is bytes[i + 1].                                                         *)

Buf == [bytes |-> buffer_, readPos |-> readPos_, writePos |-> writePos_]

ReadableBytes(b) == b.writePos - b.readPos
WritableBytes(b) == Len(b.bytes) - b.writePos
PrependableBytes(b) == b.readPos

\* The first n bytes from Peek() on.
Peek(b, n) == SubSeq(b.bytes, b.readPos + 1, b.readPos + n)

\* std::copy to position pos, which has room for the bytes.
CopyTo(bytes, pos, str) ==
  [i \in 1..Len(bytes) |-> IF i \in pos + 1..pos + Len(str) THEN str[i - pos] ELSE bytes[i]]

\* Mutant: the vector is one byte short, as if the last byte were counted twice.
MakeSpaceShort(b, len) ==
  IF WritableBytes(b) + PrependableBytes(b) < len
  THEN [b EXCEPT !.bytes = @ \o Zeros(b.writePos + len - 1 - Len(@))]
  ELSE [ bytes |-> CopyTo(b.bytes, 0, Peek(b, ReadableBytes(b))),
         readPos |-> 0,
         writePos |-> ReadableBytes(b) ]

\* Mutant: the vector always grows.
MakeSpaceGrows(b, len) ==
  [b EXCEPT !.bytes = @ \o Zeros(b.writePos + len + 1 - Len(@))]

\* MakeSpace_: resize the vector, or move the readable bytes to its beginning.
MakeSpace(b, len) ==
  IF WritableBytes(b) + PrependableBytes(b) < len
  THEN [b EXCEPT !.bytes = @ \o Zeros(b.writePos + len + 1 - Len(@))]
  ELSE [ bytes |-> CopyTo(b.bytes, 0, Peek(b, ReadableBytes(b))),
         readPos |-> 0,
         writePos |-> ReadableBytes(b) ]

EnsureWriteable(b, len) == IF WritableBytes(b) < len THEN MakeSpace(b, len) ELSE b

\* The bytes at BeginWrite(), and HasWritten().
Written(b, str) ==
  [b EXCEPT !.bytes = CopyTo(@, b.writePos, str), !.writePos = @ + Len(str)]

\* Append: EnsureWriteable, std::copy, HasWritten.
Appended(b, str) == Written(EnsureWriteable(b, Len(str)), str)

\* Mutant: what readv() has put into the vector is not counted.
ReadIntoForgets(b, str) ==
  LET writable == WritableBytes(b)
  IN IF Len(str) <= writable THEN Written(b, str)
     ELSE Appended(b, SubSeq(str, writable + 1, Len(str)))

\* ReadFd after readv(): the vector takes what fits, the rest is on the stack.
ReadInto(b, str) ==
  LET writable == WritableBytes(b)
  IN IF Len(str) <= writable THEN Written(b, str)
     ELSE Appended(Written(b, SubSeq(str, 1, writable)),
                   SubSeq(str, writable + 1, Len(str)))

-----------------------------------------------------------------------------
(* The calls                                                               *)

SetBuf(b) ==
  /\ buffer_' = b.bytes
  /\ readPos_' = b.readPos
  /\ writePos_' = b.writePos

Puts(str) == call' = [put |-> str, got |-> <<>>]
Gets(str) == call' = [put |-> <<>>, got |-> str]

\* How much a caller puts in at once.
Lengths == 0..MaxData - ReadableBytes(Buf)
Strings == UNION {[1..n -> Bytes] : n \in Lengths}

\* Append, with the readable bytes of another buffer as a case of it.
Append_(str) ==
  /\ SetBuf(Appended(Buf, str))
  /\ Puts(str)

\* EnsureWriteable, before a caller writes at BeginWrite().
Reserve(len) ==
  /\ SetBuf(EnsureWriteable(Buf, len))
  /\ Puts(<<>>)

\* A caller writes at BeginWrite() and calls HasWritten().
HasWritten(str) ==
  /\ Len(str) <= WritableBytes(Buf)
  /\ SetBuf(Written(Buf, str))
  /\ Puts(str)

\* readv() returns what fits into the vector and the array at the most.  An
\* error leaves the buffer alone.
ReadFd(str) ==
  /\ Len(str) <= WritableBytes(Buf) + StackSize
  /\ SetBuf(ReadInto(Buf, str))
  /\ Puts(str)

\* Retrieve and RetrieveUntil, after the caller has read the bytes at Peek().
Retrieve(len) ==
  /\ readPos_' = readPos_ + len
  /\ Gets(Peek(Buf, len))
  /\ UNCHANGED <<buffer_, writePos_>>

\* write() takes some of the readable bytes; an error leaves the buffer alone.
WriteFd(len) ==
  /\ readPos_' = readPos_ + len
  /\ Gets(Peek(Buf, len))
  /\ UNCHANGED <<buffer_, writePos_>>

\* RetrieveAllToStr: a copy of the readable bytes, then RetrieveAll.
RetrieveAll ==
  /\ buffer_' = Zeros(Len(buffer_))
  /\ readPos_' = 0
  /\ writePos_' = 0
  /\ Gets(Peek(Buf, ReadableBytes(Buf)))

Next ==
  \/ \E str \in Strings : Append_(str) \/ HasWritten(str) \/ ReadFd(str)
  \/ \E len \in Lengths : Reserve(len)
  \/ \E len \in 0..ReadableBytes(Buf) : Retrieve(len) \/ WriteFd(len)
  \/ RetrieveAll

Spec == Init /\ [][Next]_vars

-----------------------------------------------------------------------------
(* Properties *)

\* The type invariant: the readable bytes are inside the vector, whatever has
\* been moved, resized and read into it.
TypeOK ==
  /\ buffer_ \in Seq(Bytes)
  /\ readPos_ \in Nat
  /\ writePos_ \in Nat
  /\ readPos_ <= writePos_
  /\ writePos_ <= Len(buffer_)
  /\ call \in [put : Seq(Bytes), got : Seq(Bytes)]

\* The vector never grows beyond twice what it has had to hold at once: it is
\* only resized when moving the bytes would not make enough room.
SizeBounded == Len(buffer_) <= InitSize \/ Len(buffer_) <= 2 * MaxData

\* The buffer is a queue of bytes: none is lost, repeated, reordered or made up
\* when bytes are moved, when the vector grows, or when readv() fills both the
\* vector and the array.
Abstract ==
  INSTANCE ByteFifo WITH content <- SubSeq(buffer_, readPos_ + 1, writePos_)

ImplementsByteFifo == Abstract!Spec
=============================================================================
