---------------------------- MODULE BufferProofs ----------------------------
(***************************************************************************)
(* Theorems about Buffer, for any bytes, initial size, size of the array   *)
(* of ReadFd and amount of data: the two invariants of its run, and that   *)
(* the vector with its two positions is a queue of bytes.                  *)
(*                                                                         *)
(* Most of the work is about single operators on a buffer as a value: each *)
(* keeps it sound, and has a known effect on its readable bytes.           *)
(***************************************************************************)
EXTENDS Buffer, SequenceTheorems, TLAPS

\* The buffers whose readable bytes are inside the vector.
Buffers == [bytes : Seq(Bytes), readPos : Nat, writePos : Nat]

\* The positions are in order and inside the vector.
Sound(b) ==
  /\ b \in Buffers
  /\ b.readPos <= b.writePos
  /\ b.writePos <= Len(b.bytes)

\* The readable bytes.
Content(b) == SubSeq(b.bytes, b.readPos + 1, b.writePos)

\* The bound of SizeBounded.
Bounded(b) == Len(b.bytes) <= InitSize \/ Len(b.bytes) <= 2 * MaxData

\* The inductive invariant.
Inv ==
  /\ Sound(Buf)
  /\ call \in [put : Seq(Bytes), got : Seq(Bytes)]
  /\ ReadableBytes(Buf) <= MaxData
  /\ Bounded(Buf)

-----------------------------------------------------------------------------
(* Sequences of bytes                                                      *)

\* What a resized vector is filled with.
LEMMA ZerosFacts ==
  ASSUME NEW n \in Nat
  PROVE  Zeros(n) \in Seq(Bytes) /\ Len(Zeros(n)) = n
BY BufferAssumption DEF Zeros

\* The bytes between two positions.
LEMMA SliceFacts ==
  ASSUME NEW s \in Seq(Bytes), NEW m \in Nat, NEW n \in Nat, m <= n, n <= Len(s)
  PROVE  /\ SubSeq(s, m + 1, n) \in Seq(Bytes)
         /\ Len(SubSeq(s, m + 1, n)) = n - m
         /\ \A i \in 1..(n - m) : SubSeq(s, m + 1, n)[i] = s[m + i]
<1>1. \A i \in (m + 1)..n : s[i] \in Bytes
  OBVIOUS
<1>2. /\ SubSeq(s, m + 1, n) \in Seq(Bytes)
      /\ Len(SubSeq(s, m + 1, n)) = IF m + 1 <= n THEN n - (m + 1) + 1 ELSE 0
      /\ \A i \in 1..(n - (m + 1) + 1) : SubSeq(s, m + 1, n)[i] = s[(m + 1) + i - 1]
  BY <1>1, m + 1 \in Int, n \in Int, SubSeqProperties
<1> QED
  BY <1>2

\* std::copy overwrites the positions it is given and keeps the others.
LEMMA CopyToFacts ==
  ASSUME NEW s \in Seq(Bytes), NEW pos \in Nat, NEW str \in Seq(Bytes),
         pos + Len(str) <= Len(s)
  PROVE  /\ CopyTo(s, pos, str) \in Seq(Bytes)
         /\ Len(CopyTo(s, pos, str)) = Len(s)
         /\ \A i \in 1..pos : CopyTo(s, pos, str)[i] = s[i]
         /\ \A i \in 1..Len(str) : CopyTo(s, pos, str)[pos + i] = str[i]
<1> DEFINE c(i) == IF i \in pos + 1..pos + Len(str) THEN str[i - pos] ELSE s[i]
<1>1. \A i \in 1..Len(s) : c(i) \in Bytes
  OBVIOUS
<1>2. CopyTo(s, pos, str) = [i \in 1..Len(s) |-> c(i)]
  BY DEF CopyTo
<1>3. CopyTo(s, pos, str) \in Seq(Bytes) /\ Len(CopyTo(s, pos, str)) = Len(s)
  BY <1>1, <1>2
<1>4. \A i \in 1..pos : CopyTo(s, pos, str)[i] = s[i]
  BY <1>2
<1>5. \A i \in 1..Len(str) : CopyTo(s, pos, str)[pos + i] = str[i]
  BY <1>2
<1> QED
  BY <1>3, <1>4, <1>5

-----------------------------------------------------------------------------
(* The operators on a buffer                                               *)

\* The readable bytes, by position.
LEMMA ContentFacts ==
  ASSUME NEW b, Sound(b)
  PROVE  /\ ReadableBytes(b) \in Nat
         /\ Content(b) \in Seq(Bytes)
         /\ Len(Content(b)) = ReadableBytes(b)
         /\ \A i \in 1..ReadableBytes(b) : Content(b)[i] = b.bytes[b.readPos + i]
<1>1. b.bytes \in Seq(Bytes) /\ b.readPos \in Nat /\ b.writePos \in Nat
  BY DEF Sound, Buffers
<1> QED
  BY <1>1, SliceFacts DEF Content, ReadableBytes, Sound

\* Two buffers with the same readable bytes position by position.
LEMMA SameContent ==
  ASSUME NEW b, Sound(b), NEW c, Sound(c), ReadableBytes(b) = ReadableBytes(c),
         \A i \in 1..ReadableBytes(b) : c.bytes[c.readPos + i] = b.bytes[b.readPos + i]
  PROVE  Content(c) = Content(b)
BY ContentFacts, SeqEqual

\* Peek() gives the readable bytes.
LEMMA PeekAll ==
  ASSUME NEW b, Sound(b)
  PROVE  Peek(b, ReadableBytes(b)) = Content(b)
<1>1. b.readPos + ReadableBytes(b) = b.writePos
  BY DEF Sound, Buffers, ReadableBytes
<1> QED
  BY <1>1 DEF Peek, Content

\* The vector grows: more room, the same readable bytes, and no more than twice
\* the data it had to hold, because moving the bytes would not have been enough.
LEMMA GrowFacts ==
  ASSUME NEW b, Sound(b), NEW len \in Nat, ReadableBytes(b) + len <= MaxData,
         WritableBytes(b) + PrependableBytes(b) < len
  PROVE  LET c == MakeSpace(b, len)
         IN  Sound(c) /\ Content(c) = Content(b) /\ WritableBytes(c) >= len /\ Bounded(c)
<1> DEFINE n == b.writePos + len + 1 - Len(b.bytes)
           c == MakeSpace(b, len)
<1>1. /\ b.bytes \in Seq(Bytes) /\ Len(b.bytes) \in Nat
      /\ b.readPos \in Nat /\ b.writePos \in Nat
      /\ b.readPos <= b.writePos /\ b.writePos <= Len(b.bytes)
  BY DEF Sound, Buffers
<1>2. Len(b.bytes) - b.writePos + b.readPos < len /\ b.writePos - b.readPos + len <= MaxData
  BY DEF WritableBytes, PrependableBytes, ReadableBytes
<1>3. n \in Nat
  BY <1>1, <1>2
<1> DEFINE v == b.bytes \o Zeros(n)
<1>4. c = [b EXCEPT !.bytes = v]
  BY <1>2 DEF MakeSpace, WritableBytes, PrependableBytes
<1> HIDE DEF c
<1>5. /\ v \in Seq(Bytes)
      /\ Len(v) = Len(b.bytes) + n
      /\ \A i \in 1..Len(b.bytes) : v[i] = b.bytes[i]
  <2>1. Zeros(n) \in Seq(Bytes) /\ Len(Zeros(n)) = n
    BY <1>3, ZerosFacts
  <2>2. \A i \in 1..(Len(b.bytes) + Len(Zeros(n))) :
          v[i] = IF i <= Len(b.bytes) THEN b.bytes[i] ELSE Zeros(n)[i - Len(b.bytes)]
    BY <1>1, <2>1, ConcatProperties
  <2>3. v \in Seq(Bytes) /\ Len(v) = Len(b.bytes) + Len(Zeros(n))
    BY <1>1, <2>1, ConcatProperties
  <2> HIDE DEF v, n
  <2> QED
    BY <1>1, <1>3, <2>1, <2>2, <2>3
<1>6. Len(v) = b.writePos + len + 1
  <2> HIDE DEF v
  <2> QED
    BY <1>1, <1>5
<1> HIDE DEF v, n
<1>7. /\ c.bytes = v /\ c.readPos = b.readPos /\ c.writePos = b.writePos
      /\ c \in Buffers
  BY <1>4, <1>5 DEF Sound, Buffers
<1>8. Sound(c)
  BY <1>1, <1>6, <1>7 DEF Sound
<1>9. Content(c) = Content(b)
  <2>1. ReadableBytes(b) = ReadableBytes(c)
    BY <1>7 DEF ReadableBytes
  <2>2. \A i \in 1..ReadableBytes(b) : b.readPos + i \in 1..Len(b.bytes)
    BY <1>1 DEF ReadableBytes
  <2>3. \A i \in 1..ReadableBytes(b) : c.bytes[c.readPos + i] = b.bytes[b.readPos + i]
    BY <1>5, <1>7, <2>2
  <2> QED
    BY <1>8, <2>1, <2>3, SameContent
<1>10. WritableBytes(c) >= len
  BY <1>1, <1>6, <1>7 DEF WritableBytes
<1>11. Bounded(c)
  BY <1>1, <1>2, <1>6, <1>7, BufferAssumption DEF Bounded
<1> QED
  BY <1>8, <1>9, <1>10, <1>11 DEF c

\* The readable bytes move to the beginning: the vector keeps its size, and all
\* the room is behind them.
LEMMA MoveFacts ==
  ASSUME NEW b, Sound(b), NEW len \in Nat,
         ~ (WritableBytes(b) + PrependableBytes(b) < len)
  PROVE  LET c == MakeSpace(b, len)
         IN  /\ Sound(c) /\ Content(c) = Content(b) /\ WritableBytes(c) >= len
             /\ Len(c.bytes) = Len(b.bytes)
<1> DEFINE c == MakeSpace(b, len)
           r == ReadableBytes(b)
           v == CopyTo(b.bytes, 0, Peek(b, r))
<1>1. /\ b.bytes \in Seq(Bytes) /\ Len(b.bytes) \in Nat
      /\ b.readPos \in Nat /\ b.writePos \in Nat
      /\ b.readPos <= b.writePos /\ b.writePos <= Len(b.bytes)
  BY DEF Sound, Buffers
<1>2. r \in Nat /\ r = b.writePos - b.readPos /\ r <= Len(b.bytes)
  BY <1>1 DEF ReadableBytes
<1>3. /\ Peek(b, r) \in Seq(Bytes) /\ Len(Peek(b, r)) = r
      /\ \A i \in 1..r : Peek(b, r)[i] = b.bytes[b.readPos + i]
  BY PeekAll, ContentFacts
<1>4. c = [bytes |-> v, readPos |-> 0, writePos |-> r]
  BY DEF MakeSpace
<1> HIDE DEF c, r
<1>5. v \in Seq(Bytes) /\ Len(v) = Len(b.bytes)
      /\ \A i \in 1..r : v[0 + i] = Peek(b, r)[i]
  BY <1>1, <1>2, <1>3, CopyToFacts
<1> HIDE DEF v
<1>6. c.bytes = v /\ c.readPos = 0 /\ c.writePos = r /\ c \in Buffers
  BY <1>2, <1>4, <1>5 DEF Buffers
<1>7. Sound(c)
  BY <1>1, <1>2, <1>5, <1>6 DEF Sound
<1>8. Content(c) = Content(b)
  <2>1. ReadableBytes(b) = ReadableBytes(c)
    BY <1>2, <1>6 DEF ReadableBytes, r
  <2>2. \A i \in 1..ReadableBytes(b) : c.bytes[c.readPos + i] = b.bytes[b.readPos + i]
    BY <1>3, <1>5, <1>6 DEF r
  <2> QED
    BY <1>7, <2>1, <2>2, SameContent
<1>9. WritableBytes(c) >= len
  BY <1>1, <1>2, <1>5, <1>6 DEF WritableBytes, PrependableBytes
<1> QED
  BY <1>5, <1>6, <1>7, <1>8, <1>9 DEF c

\* EnsureWriteable makes the room it is asked for and nothing else.
LEMMA EnsureFacts ==
  ASSUME NEW b, Sound(b), Bounded(b), NEW len \in Nat, ReadableBytes(b) + len <= MaxData
  PROVE  LET c == EnsureWriteable(b, len)
         IN  Sound(c) /\ Content(c) = Content(b) /\ WritableBytes(c) >= len /\ Bounded(c)
<1>1. CASE ~ (WritableBytes(b) < len)
  <2>1. WritableBytes(b) \in Int
    BY DEF Sound, Buffers, WritableBytes
  <2> QED
    BY <1>1, <2>1 DEF EnsureWriteable
<1>2. CASE WritableBytes(b) < len /\ WritableBytes(b) + PrependableBytes(b) < len
  BY <1>2, GrowFacts DEF EnsureWriteable
<1>3. CASE WritableBytes(b) < len /\ ~ (WritableBytes(b) + PrependableBytes(b) < len)
  BY <1>3, MoveFacts DEF EnsureWriteable, Bounded
<1> QED
  BY <1>1, <1>2, <1>3

\* Bytes at BeginWrite() and HasWritten() add them behind the readable bytes.
LEMMA WrittenFacts ==
  ASSUME NEW b, Sound(b), NEW str \in Seq(Bytes), Len(str) <= WritableBytes(b)
  PROVE  LET c == Written(b, str)
         IN  /\ Sound(c) /\ Content(c) = Content(b) \o str
             /\ Len(c.bytes) = Len(b.bytes)
             /\ ReadableBytes(c) = ReadableBytes(b) + Len(str)
<1> DEFINE c == Written(b, str)
           v == CopyTo(b.bytes, b.writePos, str)
<1>1. /\ b.bytes \in Seq(Bytes) /\ Len(b.bytes) \in Nat /\ Len(str) \in Nat
      /\ b.readPos \in Nat /\ b.writePos \in Nat
      /\ b.readPos <= b.writePos /\ b.writePos + Len(str) <= Len(b.bytes)
  BY DEF Sound, Buffers, WritableBytes
<1>2. /\ v \in Seq(Bytes) /\ Len(v) = Len(b.bytes)
      /\ \A i \in 1..b.writePos : v[i] = b.bytes[i]
      /\ \A i \in 1..Len(str) : v[b.writePos + i] = str[i]
  BY <1>1, CopyToFacts
<1>3. c = [b EXCEPT !.bytes = v, !.writePos = b.writePos + Len(str)]
  BY DEF Written
<1> HIDE DEF c, v
<1>4. /\ c.bytes = v /\ c.readPos = b.readPos /\ c.writePos = b.writePos + Len(str)
      /\ c \in Buffers
  <2> DEFINE w == b.writePos + Len(str)
  <2>1. w \in Nat
    BY <1>1
  <2> HIDE DEF w
  <2>2. c = [b EXCEPT !.bytes = v, !.writePos = w]
    BY <1>3 DEF w
  <2>3. c.bytes = v /\ c.readPos = b.readPos /\ c.writePos = w /\ c \in Buffers
    BY <1>1, <1>2, <2>1, <2>2 DEF Sound, Buffers
  <2> QED
    BY <2>3 DEF w
<1>5. Sound(c)
  BY <1>1, <1>2, <1>4 DEF Sound
<1>6. ReadableBytes(c) = ReadableBytes(b) + Len(str)
  BY <1>1, <1>4 DEF ReadableBytes
<1>7. Content(c) = Content(b) \o str
  <2> DEFINE r == ReadableBytes(b)
             t == Content(b) \o str
  <2>1. /\ Content(b) \in Seq(Bytes) /\ Len(Content(b)) = r /\ r \in Nat
        /\ \A i \in 1..r : Content(b)[i] = b.bytes[b.readPos + i]
        /\ r = b.writePos - b.readPos
    BY ContentFacts DEF ReadableBytes
  <2>2. /\ t \in Seq(Bytes) /\ Len(t) = r + Len(str)
        /\ \A i \in 1..(r + Len(str)) : t[i] = IF i <= r THEN Content(b)[i] ELSE str[i - r]
    <3>1. /\ t \in Seq(Bytes) /\ Len(t) = Len(Content(b)) + Len(str)
          /\ \A i \in 1..(Len(Content(b)) + Len(str)) :
               t[i] = IF i <= Len(Content(b)) THEN Content(b)[i] ELSE str[i - Len(Content(b))]
      BY <2>1, ConcatProperties
    <3> HIDE DEF t, r
    <3> QED
      BY <2>1, <3>1
  <2> HIDE DEF r, t
  <2>3. /\ Content(c) \in Seq(Bytes) /\ Len(Content(c)) = r + Len(str)
        /\ \A i \in 1..(r + Len(str)) : Content(c)[i] = v[b.readPos + i]
    BY <1>4, <1>5, <1>6, ContentFacts DEF r
  <2>4. ASSUME NEW i \in 1..(r + Len(str)) PROVE Content(c)[i] = t[i]
    <3>1. CASE i <= r
      <4>1. b.readPos + i \in 1..b.writePos /\ i \in 1..r
        BY <1>1, <2>1, <3>1
      <4> QED
        BY <1>2, <2>1, <2>2, <2>3, <3>1, <4>1
    <3>2. CASE ~ (i <= r)
      <4>1. i - r \in 1..Len(str) /\ b.readPos + i = b.writePos + (i - r)
        BY <1>1, <2>1, <3>2
      <4> QED
        BY <1>2, <2>2, <2>3, <3>2, <4>1
    <3> QED
      BY <3>1, <3>2
  <2>5. Content(c) = t
    BY <2>2, <2>3, <2>4, SeqEqual
  <2> QED
    BY <2>5 DEF t
<1> QED
  BY <1>2, <1>4, <1>5, <1>6, <1>7 DEF c

\* Append adds the bytes behind the readable ones, whatever that takes.
LEMMA AppendedFacts ==
  ASSUME NEW b, Sound(b), Bounded(b), NEW str \in Seq(Bytes),
         ReadableBytes(b) + Len(str) <= MaxData
  PROVE  LET c == Appended(b, str)
         IN  /\ Sound(c) /\ Content(c) = Content(b) \o str
             /\ ReadableBytes(c) = ReadableBytes(b) + Len(str) /\ Bounded(c)
<1> DEFINE e == EnsureWriteable(b, Len(str))
           c == Written(e, str)
<1>1. Len(str) \in Nat
  OBVIOUS
<1>2. Sound(e) /\ Content(e) = Content(b) /\ WritableBytes(e) >= Len(str) /\ Bounded(e)
  BY <1>1, EnsureFacts
<1>3. WritableBytes(e) \in Int
  BY <1>2 DEF Sound, Buffers, WritableBytes
<1>4. ReadableBytes(e) = ReadableBytes(b)
  BY <1>2, ContentFacts
<1> HIDE DEF e
<1>5. /\ Sound(c) /\ Content(c) = Content(e) \o str
      /\ Len(c.bytes) = Len(e.bytes)
      /\ ReadableBytes(c) = ReadableBytes(e) + Len(str)
  BY <1>1, <1>2, <1>3, WrittenFacts
<1>6. Bounded(c)
  BY <1>2, <1>5 DEF Bounded
<1> QED
  BY <1>2, <1>4, <1>5, <1>6 DEF Appended, e

\* ReadFd: what readv() puts into the vector and what is appended from the stack
\* are together what it has read.
LEMMA ReadIntoFacts ==
  ASSUME NEW b, Sound(b), Bounded(b), NEW str \in Seq(Bytes),
         ReadableBytes(b) + Len(str) <= MaxData
  PROVE  LET c == ReadInto(b, str)
         IN  /\ Sound(c) /\ Content(c) = Content(b) \o str
             /\ ReadableBytes(c) = ReadableBytes(b) + Len(str) /\ Bounded(c)
<1> DEFINE n == WritableBytes(b)
           s1 == SubSeq(str, 1, n)
           s2 == SubSeq(str, n + 1, Len(str))
           d == Written(b, s1)
           c == Appended(d, s2)
<1>1. n \in Nat /\ Len(str) \in Nat /\ ReadableBytes(b) \in Nat
  BY ContentFacts DEF Sound, Buffers, WritableBytes
<1>2. CASE Len(str) <= n
  <2>1. ReadInto(b, str) = Written(b, str)
    BY <1>2 DEF ReadInto
  <2> QED
    BY <1>2, <2>1, WrittenFacts DEF Bounded
<1>3. CASE ~ (Len(str) <= n)
  <2> HIDE DEF n
  <2>1. /\ s1 \in Seq(Bytes) /\ Len(s1) = n
        /\ s2 \in Seq(Bytes) /\ Len(s2) = Len(str) - n
    <3>1. SubSeq(str, 0 + 1, n) \in Seq(Bytes) /\ Len(SubSeq(str, 0 + 1, n)) = n - 0
      BY <1>1, <1>3, SliceFacts
    <3>2. s2 \in Seq(Bytes) /\ Len(s2) = Len(str) - n
      BY <1>1, <1>3, SliceFacts
    <3> QED
      BY <1>1, <3>1, <3>2
  <2>2. s1 \o s2 = str
    <3>1. SubSeq(str, 1, n) \o SubSeq(str, n + 1, Len(str)) = SubSeq(str, 1, Len(str))
      <4>1. n \in (1 - 1)..Len(str) /\ Len(str) \in n..Len(str) /\ 1 \in 1..(Len(str) + 1)
        BY <1>1, <1>3
      <4> QED
        BY <4>1, ConcatAdjacentSubSeq
    <3> QED
      BY <3>1, SubSeqFull
  <2> HIDE DEF s1, s2
  <2>3. /\ Sound(d) /\ Content(d) = Content(b) \o s1
        /\ Len(d.bytes) = Len(b.bytes)
        /\ ReadableBytes(d) = ReadableBytes(b) + n
    <3>1. Len(s1) <= WritableBytes(b)
      BY <1>1, <2>1 DEF n
    <3>2. /\ Sound(d) /\ Content(d) = Content(b) \o s1
          /\ Len(d.bytes) = Len(b.bytes)
          /\ ReadableBytes(d) = ReadableBytes(b) + Len(s1)
      BY <2>1, <3>1, WrittenFacts
    <3> QED
      BY <2>1, <3>2
  <2>4. Bounded(d)
    BY <2>3 DEF Bounded
  <2> HIDE DEF d
  <2>5. ReadableBytes(d) + Len(s2) <= MaxData
    BY <1>1, <2>1, <2>3
  <2>6. /\ Sound(c) /\ Content(c) = Content(d) \o s2
        /\ ReadableBytes(c) = ReadableBytes(d) + Len(s2) /\ Bounded(c)
    BY <2>1, <2>3, <2>4, <2>5, AppendedFacts
  <2> HIDE DEF c
  <2>7. Content(c) = Content(b) \o str
    <3>1. Content(b) \in Seq(Bytes)
      BY ContentFacts
    <3>2. (Content(b) \o s1) \o s2 = Content(b) \o (s1 \o s2)
      BY <2>1, <3>1, ConcatAssociative
    <3> QED
      BY <2>2, <2>3, <2>6, <3>2
  <2>8. ReadableBytes(c) = ReadableBytes(b) + Len(str)
    BY <1>1, <2>1, <2>3, <2>6
  <2>9. ReadInto(b, str) = c
    BY <1>3 DEF ReadInto, c, d, s1, s2, n
  <2> QED
    BY <2>6, <2>7, <2>8, <2>9
<1> QED
  BY <1>2, <1>3

-----------------------------------------------------------------------------
(* The calls                                                               *)

\* A caller puts in a string of bytes for which the bound on the data has room.
LEMMA StringFacts ==
  ASSUME Inv, NEW str \in Strings
  PROVE  str \in Seq(Bytes) /\ Len(str) \in Nat /\ ReadableBytes(Buf) + Len(str) <= MaxData
<1>1. ReadableBytes(Buf) \in Nat /\ MaxData \in Nat
  BY BufferAssumption, ContentFacts DEF Inv
<1>2. PICK n \in 0..(MaxData - ReadableBytes(Buf)) : str \in [1..n -> Bytes]
  BY DEF Strings, Lengths
<1>3. str \in Seq(Bytes) /\ Len(str) = n
  BY <1>1, <1>2
<1> QED
  BY <1>1, <1>2, <1>3

\* The members are assigned the parts of a buffer.
LEMMA SetBufFacts ==
  ASSUME NEW c \in Buffers, SetBuf(c)
  PROVE  Buf' = c
BY DEF Buffers, SetBuf, Buf

\* The calls that put in bytes.
LEMMA PutNext ==
  ASSUME Inv, NEW str \in Strings, Append_(str) \/ HasWritten(str) \/ ReadFd(str)
  PROVE  /\ Inv'
         /\ Content(Buf)' = Content(Buf) \o str
         /\ call' = [put |-> str, got |-> <<>>]
<1>1. /\ str \in Seq(Bytes) /\ Len(str) \in Nat
      /\ ReadableBytes(Buf) + Len(str) <= MaxData /\ Sound(Buf) /\ Bounded(Buf)
  BY StringFacts DEF Inv
<1>2. PICK c : /\ SetBuf(c) /\ Sound(c) /\ Content(c) = Content(Buf) \o str
               /\ ReadableBytes(c) = ReadableBytes(Buf) + Len(str) /\ Bounded(c)
  <2>1. CASE Append_(str)
    BY <1>1, <2>1, AppendedFacts DEF Append_
  <2>2. CASE HasWritten(str)
    <3>1. SetBuf(Written(Buf, str)) /\ Len(str) <= WritableBytes(Buf)
      BY <2>2 DEF HasWritten
    <3>2. /\ Sound(Written(Buf, str)) /\ Content(Written(Buf, str)) = Content(Buf) \o str
          /\ Len(Written(Buf, str).bytes) = Len(Buf.bytes)
          /\ ReadableBytes(Written(Buf, str)) = ReadableBytes(Buf) + Len(str)
      BY <1>1, <3>1, WrittenFacts
    <3> QED
      BY <1>1, <3>1, <3>2 DEF Bounded
  <2>3. CASE ReadFd(str)
    BY <1>1, <2>3, ReadIntoFacts DEF ReadFd
  <2> QED
    BY <2>1, <2>2, <2>3
<1>3. Buf' = c
  BY <1>2, SetBufFacts DEF Sound
<1>4. call' = [put |-> str, got |-> <<>>]
  BY DEF Append_, HasWritten, ReadFd, Puts
<1>5. <<>> \in Seq(Bytes)
  OBVIOUS
<1> QED
  BY <1>1, <1>2, <1>3, <1>4, <1>5 DEF Inv

\* EnsureWriteable before a caller writes: the readable bytes stay.
LEMMA ReserveNext ==
  ASSUME Inv, NEW len \in Lengths, Reserve(len)
  PROVE  /\ Inv'
         /\ Content(Buf)' = Content(Buf)
         /\ call' = [put |-> <<>>, got |-> <<>>]
<1> DEFINE c == EnsureWriteable(Buf, len)
<1>1. len \in Nat /\ ReadableBytes(Buf) \in Nat /\ ReadableBytes(Buf) + len <= MaxData
  BY BufferAssumption, ContentFacts DEF Inv, Lengths
<1>2. Sound(c) /\ Content(c) = Content(Buf) /\ Bounded(c)
  BY <1>1, EnsureFacts DEF Inv
<1>3. SetBuf(c) /\ call' = [put |-> <<>>, got |-> <<>>]
  BY DEF Reserve, Puts
<1> HIDE DEF c
<1>4. Buf' = c
  BY <1>2, <1>3, SetBufFacts DEF Sound
<1>5. ReadableBytes(c) = ReadableBytes(Buf)
  BY <1>2, ContentFacts DEF Inv
<1>6. <<>> \in Seq(Bytes)
  OBVIOUS
<1> QED
  BY <1>2, <1>3, <1>4, <1>5, <1>6 DEF Inv

\* The calls that take out some of the readable bytes.
LEMMA GetNext ==
  ASSUME Inv, NEW len \in 0..ReadableBytes(Buf), Retrieve(len) \/ WriteFd(len)
  PROVE  /\ Inv'
         /\ Content(Buf) = call'.got \o Content(Buf)'
         /\ call'.put = <<>>
<1> DEFINE s == Peek(Buf, len)
<1>1. /\ buffer_ \in Seq(Bytes) /\ Len(buffer_) \in Nat
      /\ readPos_ \in Nat /\ writePos_ \in Nat
      /\ readPos_ <= writePos_ /\ writePos_ <= Len(buffer_)
  BY DEF Inv, Sound, Buffers, Buf
<1>2. len \in Nat /\ len <= writePos_ - readPos_
  BY <1>1 DEF ReadableBytes, Buf
<1>3. /\ buffer_' = buffer_ /\ readPos_' = readPos_ + len /\ writePos_' = writePos_
      /\ call' = [put |-> <<>>, got |-> s]
  BY DEF Retrieve, WriteFd, Gets
<1>4. /\ readPos_ + 1 \in 1..(Len(buffer_) + 1)
      /\ readPos_ + len \in (readPos_ + 1 - 1)..Len(buffer_)
      /\ writePos_ \in (readPos_ + len)..Len(buffer_)
  BY <1>1, <1>2
<1>5. s = SubSeq(buffer_, readPos_ + 1, readPos_ + len)
  BY DEF Peek, Buf
<1>6. s \o SubSeq(buffer_, readPos_ + len + 1, writePos_) = SubSeq(buffer_, readPos_ + 1, writePos_)
  BY <1>1, <1>4, <1>5, ConcatAdjacentSubSeq
<1>7. Content(Buf) = s \o Content(Buf)'
  BY <1>3, <1>6 DEF Content, Buf
<1>8. s \in Seq(Bytes)
  BY <1>1, <1>2, <1>5, SliceFacts
<1> HIDE DEF s
<1>9. Inv'
  <2>1. Sound(Buf)'
    BY <1>1, <1>2, <1>3 DEF Sound, Buffers, Buf
  <2>2. ReadableBytes(Buf)' <= MaxData
    BY <1>1, <1>2, <1>3, BufferAssumption DEF Inv, ReadableBytes, Buf
  <2>3. Bounded(Buf)'
    BY <1>3 DEF Inv, Bounded, Buf
  <2>4. <<>> \in Seq(Bytes)
    OBVIOUS
  <2> QED
    BY <1>3, <1>8, <2>1, <2>2, <2>3, <2>4 DEF Inv
<1> QED
  BY <1>3, <1>7, <1>9

\* RetrieveAllToStr takes out everything and zeroes the vector.
LEMMA GetAllNext ==
  ASSUME Inv, RetrieveAll
  PROVE  /\ Inv'
         /\ Content(Buf) = call'.got \o Content(Buf)'
         /\ call'.put = <<>>
<1> DEFINE s == Peek(Buf, ReadableBytes(Buf))
<1>1. buffer_ \in Seq(Bytes) /\ Len(buffer_) \in Nat
  BY DEF Inv, Sound, Buffers, Buf
<1>2. s = Content(Buf) /\ s \in Seq(Bytes)
  BY PeekAll, ContentFacts DEF Inv
<1>3. /\ buffer_' = Zeros(Len(buffer_)) /\ readPos_' = 0 /\ writePos_' = 0
      /\ call' = [put |-> <<>>, got |-> s]
  BY DEF RetrieveAll, Gets
<1> HIDE DEF s
<1>4. buffer_' \in Seq(Bytes) /\ Len(buffer_') = Len(buffer_)
  BY <1>1, <1>3, ZerosFacts
<1>5. Content(Buf)' = <<>>
  <2>1. SubSeq(buffer_', 0 + 1, 0) = <<>>
    BY SubSeqEmpty
  <2> QED
    BY <1>3, <2>1 DEF Content, Buf
<1>6. s = s \o <<>>
  BY <1>2, ConcatEmptySeq
<1>7. Inv'
  <2>1. Sound(Buf)'
    BY <1>1, <1>3, <1>4 DEF Sound, Buffers, Buf
  <2>2. ReadableBytes(Buf)' <= MaxData
    BY <1>3, BufferAssumption DEF ReadableBytes, Buf
  <2>3. Bounded(Buf)'
    BY <1>4 DEF Inv, Bounded, Buf
  <2>4. <<>> \in Seq(Bytes)
    OBVIOUS
  <2> QED
    BY <1>2, <1>3, <2>1, <2>2, <2>3, <2>4 DEF Inv
<1> QED
  BY <1>2, <1>3, <1>5, <1>6, <1>7

-----------------------------------------------------------------------------
(* Theorems                                                                *)

\* A new buffer has InitSize zeros and nothing to read.
LEMMA InvInit == Init => Inv /\ Content(Buf) = <<>>
<1> SUFFICES ASSUME Init PROVE Inv /\ Content(Buf) = <<>>
  OBVIOUS
<1> USE BufferAssumption
<1>1. Zeros(InitSize) \in Seq(Bytes) /\ Len(Zeros(InitSize)) = InitSize
  BY ZerosFacts
<1>2. Buf = [bytes |-> Zeros(InitSize), readPos |-> 0, writePos |-> 0]
  BY DEF Init, Buf
<1>3. Sound(Buf) /\ ReadableBytes(Buf) = 0 /\ Bounded(Buf)
  BY <1>1, <1>2 DEF Sound, Buffers, ReadableBytes, Bounded
<1>4. SubSeq(Zeros(InitSize), 0 + 1, 0) = <<>>
  BY SubSeqEmpty
<1>5. <<>> \in Seq(Bytes) /\ call = [put |-> <<>>, got |-> <<>>]
  BY DEF Init
<1> QED
  BY <1>2, <1>3, <1>4, <1>5 DEF Inv, Content

\* Every call keeps the invariant and does to the readable bytes what the queue
\* of bytes allows.
LEMMA InvNext == Inv /\ [Next]_vars => Inv' /\ [Abstract!Next]_(Abstract!vars)
<1> SUFFICES ASSUME Inv, [Next]_vars PROVE Inv' /\ [Abstract!Next]_(Abstract!vars)
  OBVIOUS
<1> DEFINE content == SubSeq(buffer_, readPos_ + 1, writePos_)
<1>0. content = Content(Buf) /\ content' = Content(Buf)'
  BY DEF Content, Buf
<1>1. ASSUME NEW str \in Strings, Append_(str) \/ HasWritten(str) \/ ReadFd(str)
      PROVE  Inv' /\ Abstract!Put
  <2>1. Inv' /\ content' = content \o str /\ call' = [put |-> str, got |-> <<>>]
    BY <1>0, <1>1, PutNext
  <2>2. str \in Seq(Bytes)
    BY StringFacts
  <2> QED
    BY <2>1, <2>2 DEF Abstract!Put
<1>2. ASSUME NEW len \in Lengths, Reserve(len)
      PROVE  Inv' /\ Abstract!Put
  <2>1. Inv' /\ content' = content /\ call' = [put |-> <<>>, got |-> <<>>]
    BY <1>0, <1>2, ReserveNext
  <2>2. content \in Seq(Bytes)
    BY <1>0, ContentFacts DEF Inv
  <2> HIDE DEF content
  <2>3. content' = content \o <<>> /\ <<>> \in Seq(Bytes)
    BY <2>1, <2>2, ConcatEmptySeq
  <2> QED
    BY <2>1, <2>3 DEF Abstract!Put, content
<1>3. ASSUME NEW len \in 0..ReadableBytes(Buf), Retrieve(len) \/ WriteFd(len)
      PROVE  Inv' /\ Abstract!Get
  <2>1. Inv' /\ content = call'.got \o content' /\ call'.put = <<>>
    BY <1>0, <1>3, GetNext
  <2> QED
    BY <2>1 DEF Abstract!Get
<1>4. ASSUME RetrieveAll PROVE Inv' /\ Abstract!Get
  <2>1. Inv' /\ content = call'.got \o content' /\ call'.put = <<>>
    BY <1>0, <1>4, GetAllNext
  <2> QED
    BY <2>1 DEF Abstract!Get
<1>5. ASSUME UNCHANGED vars PROVE Inv' /\ UNCHANGED Abstract!vars
  BY <1>5 DEF vars, Inv, Buf, Sound, Buffers, Bounded, ReadableBytes, Abstract!vars
<1> QED
  BY <1>1, <1>2, <1>3, <1>4, <1>5 DEF Next, Abstract!Next

\* The inductive invariant.
THEOREM Invariance == Spec => []Inv
<1>1. Init => Inv
  BY InvInit
<1>2. Inv /\ [Next]_vars => Inv'
  BY InvNext
<1> QED
  BY <1>1, <1>2, PTL DEF Spec

\* The readable bytes are inside the vector, whatever has been moved, resized
\* and read into it.
THEOREM TypeCorrect == Spec => []TypeOK
<1>1. Inv => TypeOK
  BY DEF Inv, Sound, Buffers, Buf, TypeOK
<1> QED
  BY Invariance, <1>1, PTL

\* The vector never grows beyond twice what it has had to hold at once.
THEOREM SizeStaysBounded == Spec => []SizeBounded
<1>1. Inv => SizeBounded
  BY DEF Inv, Bounded, Buf, SizeBounded
<1> QED
  BY Invariance, <1>1, PTL

\* The buffer is a queue of bytes: none is lost, repeated, reordered or made up.
THEOREM Implements == Spec => ImplementsByteFifo
<1>1. Init => Abstract!Init
  <2>1. Init => SubSeq(buffer_, readPos_ + 1, writePos_) = <<>>
    BY InvInit DEF Content, Buf
  <2> QED
    BY <2>1 DEF Init, Abstract!Init
<1>2. Inv /\ [Next]_vars => [Abstract!Next]_(Abstract!vars)
  BY InvNext
<1> QED
  BY Invariance, <1>1, <1>2, PTL DEF Spec, ImplementsByteFifo, Abstract!Spec
=============================================================================
