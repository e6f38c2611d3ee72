--------------------------- MODULE AsyncLogProofs ---------------------------
(***************************************************************************)
(* Theorems about AsyncLog, for any number of writers, lines and days, any *)
(* size of the queue (0 for a synchronous log) and any length of a part:   *)
(* the three invariants of its run.                                        *)
(*                                                                         *)
(* The inductive invariant is built in layers, each using those before it: *)
(*   Structure  types, who has the mutex, which line is where a thread     *)
(*              will read it, and how far the line counter can have come;  *)
(*   FileOpen   the open file fits the day and the counter;                *)
(*   Places     every line logged so far is in exactly one place, by       *)
(*              cardinalities.                                             *)
(***************************************************************************)
EXTENDS AsyncLog, FiniteSetTheorems, FunctionTheorems, SequenceTheorems, TLAPS

\* What an fputs leaves in written.
Entries == [line : Lines, file : Files \cup {NULL}]

\* The types, with that of the variable that records the fputs.
Typed == TypeOK /\ written \in Seq(Entries)

\* A writer owns the mutex between two of its steps only while a file is being
\* replaced or the shared buffer is in use.
MutexOwner == \A w \in Writers : pc[w] \in {"open", "copy"} <=> m_mutex = w

\* Every thread finds its own line where it looks for it: in its parameter, in
\* the shared buffer, in log_str and in single_log.
OwnLine ==
  /\ \A w \in Writers :
       /\ pc[w] \in {"count", "open", "format", "copy"} => line[w] \in Lines
       /\ pc[w] = "copy" => m_buf = line[w]
       /\ pc[w] \in {"route", "push", "write"} => log_str[w] \in Lines
  /\ fpc = "pop" <=> single_log = NULL

\* The writers that have a line but have not counted it.
Counting == {w \in Writers : pc[w] = "count"}

\* No line is counted that was not logged.
CountBounded == m_count + Cardinality(Counting) <= started

\* The first layer.
Structure == Typed /\ MutexOwner /\ OwnLine /\ CountBounded

\* Unless a writer is between fclose and fopen, the open file is the one for the
\* current day and line count.
FileOpen ==
  (\A w \in Writers : pc[w] # "open")
    => m_fp = [day |-> m_today, part |-> m_count \div SplitLines]

\* The parts of Occurrences.
HeldBy(n) == {w \in Writers : InHand(w) = n}
QueuedAt(q, n) == {i \in DOMAIN q : q[i] = n}
WrittenAt(s, n) == {i \in DOMAIN s : s[i].line = n}
OneIf(b) == IF b THEN 1 ELSE 0

Held(n) == Cardinality(HeldBy(n))
Queued(n) == Cardinality(QueuedAt(m_log_queue, n))
InFile(n) == Cardinality(WrittenAt(written, n))

\* A line is in one place from the moment it is logged, and nowhere before.
Places ==
  \A n \in Lines :
    Held(n) + Queued(n) + OneIf(single_log = n) + InFile(n) + OneIf(n \in lost)
      = OneIf(n <= started)

\* The inductive invariant.
Inv == Structure /\ FileOpen /\ NoWriteToClosedFile /\ Places

-----------------------------------------------------------------------------
(* Arithmetic and counting                                                 *)

\* What most steps need to know about the constants.
LEMMA Parameters ==
  /\ IsFiniteSet(Writers)
  /\ NULL \notin Writers \cup Nat
  /\ QueueSize \in Nat
  /\ SplitLines \in Nat \ {0}
  /\ MaxLines \in Nat
  /\ MaxDay \in Nat
BY AsyncLogAssumption

\* The number of a part: whole parts before it, and fewer lines than a part
\* makes since.
LEMMA PartOf ==
  ASSUME NEW m \in Nat \ {0}, NEW a \in Nat
  PROVE  /\ a \div m \in Nat
         /\ a \div m <= a
         /\ 0 \div m = 0
         /\ (a + 1) % m # 0 => (a + 1) \div m = a \div m
BY SMT

\* One writer more, or one less, in a set of writers.
LEMMA CountWriters ==
  ASSUME NEW S, S \subseteq Writers
  PROVE  /\ Cardinality(S) \in Nat
         /\ \A w \in Writers \ S : Cardinality(S \cup {w}) = Cardinality(S) + 1
         /\ \A w \in S : Cardinality(S \ {w}) = Cardinality(S) - 1
BY AsyncLogAssumption, FS_Subset, FS_CardinalityType, FS_AddElement, FS_RemoveElement

-----------------------------------------------------------------------------
(* Structure                                                               *)

\* The initial states.
LEMMA StructureInit == Init => Structure
<1> SUFFICES ASSUME Init PROVE Structure
  OBVIOUS
<1> USE AsyncLogAssumption DEF Init
<1>1. Typed
  BY DEF Typed, TypeOK, Files
<1>2. MutexOwner /\ OwnLine
  BY DEF MutexOwner, OwnLine
<1>3. CountBounded
  <2>1. Counting = {}
    BY DEF Counting
  <2> QED
    BY <2>1, FS_EmptySet DEF CountBounded
<1> QED
  BY <1>1, <1>2, <1>3 DEF Structure

\* One step per operation; the counter is compared with the lines logged by the
\* number of writers that have still to count theirs.
LEMMA StructureNext == Structure /\ [Next]_vars => Structure'
<1> SUFFICES ASSUME Structure, [Next]_vars PROVE Structure'
  OBVIOUS
<1> USE Parameters DEF Structure, Typed, TypeOK, MutexOwner, OwnLine
<1> USE DEF memberVars, writerVars, flusherVars, worldVars
<1> DEFINE k == Cardinality(Counting)
<1>0. /\ k \in Nat
      /\ \A w \in Writers \ Counting : Cardinality(Counting \cup {w}) = k + 1
      /\ \A w \in Counting : Cardinality(Counting \ {w}) = k - 1
      /\ m_count \in Nat /\ started \in Nat /\ m_count + k <= started
  <2>1. Counting \subseteq Writers
    BY DEF Counting
  <2>2. m_count + k <= started
    BY DEF CountBounded
  <2>3. /\ k \in Nat
        /\ \A w \in Writers \ Counting : Cardinality(Counting \cup {w}) = k + 1
        /\ \A w \in Counting : Cardinality(Counting \ {w}) = k - 1
    BY <2>1, CountWriters
  <2> QED
    BY <2>2, <2>3
<1> HIDE DEF k
<1>1. ASSUME NEW w \in Writers, WriteLog(w) PROVE Structure'
  <2>1. started' \in Lines /\ started' = started + 1 /\ m_count' = m_count
    BY <1>1 DEF WriteLog, Lines
  <2>2. Typed' /\ MutexOwner' /\ OwnLine'
    BY <1>1, <2>1 DEF WriteLog, Lines
  <2>3. Counting' = Counting \cup {w} /\ w \notin Counting
    BY <1>1 DEF WriteLog, Counting
  <2>4. Cardinality(Counting') = k + 1
    BY <1>0, <2>3
  <2>5. CountBounded'
    BY <1>0, <2>1, <2>4 DEF CountBounded
  <2> QED
    BY <2>2, <2>5
<1>2. ASSUME NEW w \in Writers, CountLine(w) \/ CloseFile(w) PROVE Structure'
  <2>1. m_count' = m_count + 1 /\ started' = started
    BY <1>2 DEF CountLine, CloseFile
  <2>2. Typed' /\ OwnLine'
    <3>1. m_count' \in Nat
      BY <1>0, <2>1
    <3>2. CASE CountLine(w)
      BY <3>1, <3>2 DEF CountLine
    <3>3. CASE CloseFile(w)
      BY <3>1, <3>3 DEF CloseFile
    <3> QED
      BY <1>2, <3>2, <3>3
  <2>3. MutexOwner'
    BY <1>2 DEF CountLine, CloseFile
  <2>4. Counting' = Counting \ {w} /\ w \in Counting
    BY <1>2 DEF CountLine, CloseFile, Counting
  <2>5. Cardinality(Counting') = k - 1
    BY <1>0, <2>4
  <2>6. CountBounded'
    BY <1>0, <2>1, <2>5 DEF CountBounded
  <2> QED
    BY <2>2, <2>3, <2>6
<1>3. ASSUME NEW w \in Writers, OpenFile(w) PROVE Structure'
  <2>1. m_fp' \in Files
    <3>1. m_count <= MaxLines
      BY <1>0
    <3>2. m_count \div SplitLines \in Nat /\ m_count \div SplitLines <= m_count
      BY <1>0, PartOf
    <3>3. m_count \div SplitLines \in 0..MaxLines
      BY <1>0, <3>1, <3>2
    <3> QED
      BY <1>3, <3>3 DEF OpenFile, Files
  <2>2. Typed' /\ MutexOwner' /\ OwnLine'
    <3>1. m_count' \in Nat /\ m_today' \in 0..MaxDay
      BY <1>3 DEF OpenFile
    <3>2. Typed'
      BY <1>3, <2>1, <3>1 DEF OpenFile
    <3>3. MutexOwner'
      BY <1>3 DEF OpenFile
    <3>4. OwnLine'
      BY <1>3 DEF OpenFile
    <3> QED
      BY <3>2, <3>3, <3>4
  <2>3. Counting' = Counting
    BY <1>3 DEF OpenFile, Counting
  <2>4. (m_count' = m_count \/ m_count' = 0) /\ started' = started
    BY <1>3 DEF OpenFile
  <2>5. Cardinality(Counting') = k
    BY <2>3 DEF k
  <2>6. CountBounded'
    BY <1>0, <2>4, <2>5 DEF CountBounded
  <2> QED
    BY <2>2, <2>6
<1>4. ASSUME NEW w \in Writers, Format(w) \/ Copy(w) \/ Route(w) PROVE Structure'
  <2>1. Typed'
    BY <1>4 DEF Format, Copy, Route
  <2>2. MutexOwner'
    BY <1>4 DEF Format, Copy, Route
  <2>3. OwnLine'
    BY <1>4 DEF Format, Copy, Route
  <2>4. Counting' = Counting
    BY <1>4 DEF Format, Copy, Route, Counting
  <2> QED
    BY <1>4, <2>1, <2>2, <2>3, <2>4 DEF Format, Copy, Route, CountBounded
<1>5. ASSUME NEW w \in Writers, Push(w) PROVE Structure'
  <2>1. m_log_queue' \in Seq(Lines) /\ Len(m_log_queue') <= QueueSize
    <3>1. log_str[w] \in Lines
      BY <1>5 DEF Push
    <3>2. /\ Append(m_log_queue, log_str[w]) \in Seq(Lines)
          /\ Len(Append(m_log_queue, log_str[w])) = Len(m_log_queue) + 1
          /\ Len(m_log_queue) \in Nat
      BY <3>1, AppendProperties
    <3>3. \/ /\ m_log_queue' = Append(m_log_queue, log_str[w])
             /\ Len(m_log_queue) < QueueSize
          \/ m_log_queue' = m_log_queue
      BY <1>5 DEF Push
    <3>4. QueueSize \in Nat /\ m_log_queue \in Seq(Lines) /\ Len(m_log_queue) <= QueueSize
      OBVIOUS
    <3> QED
      BY ONLY <3>2, <3>3, <3>4
  <2>2. Typed' /\ MutexOwner' /\ OwnLine'
    BY <1>5, <2>1 DEF Push, Return
  <2>3. Counting' = Counting
    BY <1>5 DEF Push, Return, Counting
  <2> QED
    BY <1>5, <2>2, <2>3 DEF Push, CountBounded
<1>6. ASSUME NEW w \in Writers, Write(w) PROVE Structure'
  <2>1. written' \in Seq(Entries)
    <3>1. [line |-> log_str[w], file |-> m_fp] \in Entries
      BY <1>6 DEF Write, Entries
    <3> QED
      BY <1>6, <3>1 DEF Write
  <2>2. Typed' /\ MutexOwner' /\ OwnLine'
    BY <1>6, <2>1 DEF Write, Return
  <2>3. Counting' = Counting
    BY <1>6 DEF Write, Return, Counting
  <2> QED
    BY <1>6, <2>2, <2>3 DEF Write, CountBounded
<1>7. ASSUME FlushPop PROVE Structure'
  <2>1. Head(m_log_queue) \in Lines /\ Tail(m_log_queue) \in Seq(Lines)
        /\ Len(Tail(m_log_queue)) <= QueueSize
    BY <1>7 DEF FlushPop
  <2>2. Typed' /\ MutexOwner' /\ OwnLine'
    BY <1>7, <2>1 DEF FlushPop, Lines
  <2> QED
    BY <1>7, <2>2 DEF FlushPop, CountBounded, Counting
<1>8. ASSUME FlushWrite PROVE Structure'
  <2>1. written' \in Seq(Entries)
    <3>1. [line |-> single_log, file |-> m_fp] \in Entries
      BY <1>8 DEF FlushWrite, Entries
    <3> QED
      BY <1>8, <3>1 DEF FlushWrite
  <2>2. Typed' /\ MutexOwner' /\ OwnLine'
    BY <1>8, <2>1 DEF FlushWrite
  <2> QED
    BY <1>8, <2>2 DEF FlushWrite, CountBounded, Counting
<1>9. ASSUME NextDay \/ UNCHANGED vars PROVE Structure'
  <2>1. Typed' /\ MutexOwner' /\ OwnLine'
    BY <1>9 DEF NextDay, vars
  <2>2. Counting' = Counting /\ m_count' = m_count /\ started' = started
    BY <1>9 DEF NextDay, vars, Counting
  <2> QED
    BY <2>1, <2>2 DEF CountBounded
<1> QED
  BY <1>1, <1>2, <1>3, <1>4, <1>5, <1>6, <1>7, <1>8, <1>9 DEF Next, LogStep

-----------------------------------------------------------------------------
(* The open file                                                           *)

\* While nobody owns the mutex, no file is being replaced.
LEMMA NobodyOpening ==
  ASSUME Structure, m_mutex = NULL
  PROVE  \A w \in Writers : pc[w] # "open"
BY AsyncLogAssumption DEF Structure, MutexOwner

\* A line that does not start a new part leaves the number of the part; a
\* rotation that ends opens the file for the counter it leaves.
LEMMA FileOpenNext == Structure /\ FileOpen /\ [Next]_vars => FileOpen'
<1> SUFFICES ASSUME Structure, FileOpen, [Next]_vars PROVE FileOpen'
  OBVIOUS
<1> USE Parameters DEF memberVars, worldVars
<1>0. m_count \in Nat /\ DOMAIN pc = Writers /\ pc = [w \in Writers |-> pc[w]]
  BY DEF Structure, Typed, TypeOK
<1>1. ASSUME NEW w \in Writers, CountLine(w) PROVE FileOpen'
  <2>1. m_fp = [day |-> m_today, part |-> m_count \div SplitLines]
    BY <1>1, NobodyOpening DEF CountLine, FileOpen
  <2>2. (m_count + 1) \div SplitLines = m_count \div SplitLines
    BY <1>0, <1>1, PartOf DEF CountLine, MustRotate
  <2>3. m_fp' = m_fp /\ m_today' = m_today /\ m_count' = m_count + 1
    BY <1>1 DEF CountLine
  <2> QED
    BY <2>1, <2>2, <2>3 DEF FileOpen
<1>2. ASSUME NEW w \in Writers, CloseFile(w) PROVE FileOpen'
  <2>1. pc'[w] = "open"
    BY <1>0, <1>2 DEF CloseFile
  <2> QED
    BY <2>1 DEF FileOpen
<1>3. ASSUME NEW w \in Writers, OpenFile(w) PROVE FileOpen'
  <2>1. 0 \div SplitLines = 0
    BY <1>0, PartOf
  <2> QED
    BY <1>3, <2>1 DEF OpenFile, FileOpen
<1>4. ASSUME /\ m_fp' = m_fp /\ m_today' = m_today /\ m_count' = m_count
             /\ \A w \in Writers : pc'[w] = "open" <=> pc[w] = "open"
      PROVE  FileOpen'
  BY <1>4 DEF FileOpen
<1>5. ASSUME NEW w \in Writers,
             \/ WriteLog(w) \/ Format(w) \/ Copy(w) \/ Route(w) \/ Push(w) \/ Write(w)
      PROVE  FileOpen'
  <2>1. m_fp' = m_fp /\ m_today' = m_today /\ m_count' = m_count
    BY <1>5 DEF WriteLog, Format, Copy, Route, Push, Write
  <2>2. \A u \in Writers : pc'[u] = "open" <=> pc[u] = "open"
    BY <1>0, <1>5 DEF WriteLog, Format, Copy, Route, Push, Write, Return
  <2> QED
    BY <1>4, <2>1, <2>2
<1>6. ASSUME FlushPop \/ FlushWrite \/ NextDay \/ UNCHANGED vars PROVE FileOpen'
  BY <1>4, <1>6 DEF FlushPop, FlushWrite, NextDay, vars, writerVars
<1> QED
  BY <1>1, <1>2, <1>3, <1>5, <1>6 DEF Next, LogStep

\* Both threads that write take the mutex, and then the file is open.
LEMMA NoWriteToClosedFileNext ==
  Structure /\ FileOpen /\ NoWriteToClosedFile /\ [Next]_vars => NoWriteToClosedFile'
<1> SUFFICES ASSUME Structure, FileOpen, NoWriteToClosedFile, [Next]_vars
             PROVE  NoWriteToClosedFile'
  OBVIOUS
<1>1. ASSUME m_mutex = NULL PROVE m_fp # NULL
  <2>1. m_fp = [day |-> m_today, part |-> m_count \div SplitLines]
    BY <1>1, NobodyOpening DEF FileOpen
  <2>2. m_count \in Nat /\ m_today \in Nat
    BY Parameters DEF Structure, Typed, TypeOK
  <2>3. m_count \div SplitLines \in Nat
    BY <2>2, Parameters, PartOf
  <2> QED
    BY <2>1, <2>2, <2>3, AsyncLogAssumption
<1>2. ASSUME NEW x, m_mutex = NULL, written' = Append(written, [line |-> x, file |-> m_fp])
      PROVE  NoWriteToClosedFile'
  <2>1. /\ DOMAIN written = 1..Len(written) /\ Len(written) \in Nat
        /\ DOMAIN written' = 1..(Len(written) + 1)
        /\ \A i \in 1..Len(written) : written'[i] = written[i]
        /\ written'[Len(written) + 1] = [line |-> x, file |-> m_fp]
    BY <1>2 DEF Structure, Typed
  <2>2. ASSUME NEW i \in DOMAIN written' PROVE written'[i].file # NULL
    <3>1. i \in DOMAIN written \/ i = Len(written) + 1
      BY <2>1
    <3> QED
      BY <1>1, <1>2, <2>1, <3>1 DEF NoWriteToClosedFile
  <2> QED
    BY <2>2 DEF NoWriteToClosedFile
<1>3. ASSUME NEW w \in Writers, Write(w) PROVE NoWriteToClosedFile'
  BY <1>2, <1>3 DEF Write
<1>4. ASSUME FlushWrite PROVE NoWriteToClosedFile'
  BY <1>2, <1>4 DEF FlushWrite
<1>5. ASSUME UNCHANGED written PROVE NoWriteToClosedFile'
  BY <1>5 DEF NoWriteToClosedFile
<1>6. ASSUME NEW w \in Writers,
             \/ WriteLog(w) \/ CountLine(w) \/ CloseFile(w) \/ OpenFile(w)
             \/ Format(w) \/ Copy(w) \/ Route(w) \/ Push(w)
      PROVE  UNCHANGED written
  BY <1>6 DEF WriteLog, CountLine, CloseFile, OpenFile, Format, Copy, Route, Push
<1>7. ASSUME FlushPop \/ NextDay \/ UNCHANGED vars PROVE UNCHANGED written
  BY <1>7 DEF FlushPop, NextDay, vars
<1> QED
  BY <1>3, <1>4, <1>5, <1>6, <1>7 DEF Next, LogStep

-----------------------------------------------------------------------------
(* Every line in one place: counting                                       *)

\* Two sets of writers that differ in one writer at the most.
LEMMA Recount ==
  ASSUME NEW S, S \subseteq Writers, NEW T, T \subseteq Writers, NEW w \in Writers,
         \A u \in Writers : u # w => (u \in S <=> u \in T)
  PROVE  Cardinality(T) = Cardinality(S) - OneIf(w \in S) + OneIf(w \in T)
<1>1. CASE w \in S /\ w \in T
  BY <1>1, T = S, CountWriters DEF OneIf
<1>2. CASE w \in S /\ w \notin T
  BY <1>2, T = S \ {w}, CountWriters DEF OneIf
<1>3. CASE w \notin S /\ w \in T
  BY <1>3, T = S \cup {w}, CountWriters DEF OneIf
<1>4. CASE w \notin S /\ w \notin T
  BY <1>4, T = S, CountWriters DEF OneIf
<1> QED
  BY <1>1, <1>2, <1>3, <1>4

\* The positions of a sequence are finitely many.
LEMMA FinitePositions ==
  ASSUME NEW S, NEW q \in Seq(S), NEW P \in SUBSET DOMAIN q
  PROVE  IsFiniteSet(P) /\ Cardinality(P) \in Nat
<1>1. DOMAIN q = 1..Len(q) /\ Len(q) \in Nat
  OBVIOUS
<1>2. IsFiniteSet(1..Len(q))
  BY <1>1, FS_Interval
<1> QED
  BY <1>1, <1>2, FS_Subset, FS_CardinalityType

\* push() puts a line at one more position.
LEMMA QueuedAppend ==
  ASSUME NEW q \in Seq(Lines), NEW x \in Lines, NEW n
  PROVE  Cardinality(QueuedAt(Append(q, x), n)) = Cardinality(QueuedAt(q, n)) + OneIf(x = n)
<1>1. /\ DOMAIN q = 1..Len(q) /\ Len(q) \in Nat
      /\ DOMAIN Append(q, x) = 1..(Len(q) + 1)
      /\ \A i \in 1..Len(q) : Append(q, x)[i] = q[i]
      /\ Append(q, x)[Len(q) + 1] = x
  OBVIOUS
<1>2. IsFiniteSet(QueuedAt(q, n)) /\ Cardinality(QueuedAt(q, n)) \in Nat
  BY FinitePositions DEF QueuedAt
<1>3. CASE x = n
  <2>1. /\ QueuedAt(Append(q, x), n) = QueuedAt(q, n) \cup {Len(q) + 1}
        /\ Len(q) + 1 \notin QueuedAt(q, n)
    BY <1>1, <1>3 DEF QueuedAt
  <2> QED
    BY <1>2, <1>3, <2>1, FS_AddElement DEF OneIf
<1>4. CASE x # n
  <2>1. QueuedAt(Append(q, x), n) = QueuedAt(q, n)
    BY <1>1, <1>4 DEF QueuedAt
  <2> QED
    BY <1>2, <1>4, <2>1 DEF OneIf
<1> QED
  BY <1>3, <1>4

\* fputs puts a line at one more position.
LEMMA WrittenAppend ==
  ASSUME NEW s \in Seq(Entries), NEW e \in Entries, NEW n
  PROVE  Cardinality(WrittenAt(Append(s, e), n)) = Cardinality(WrittenAt(s, n)) + OneIf(e.line = n)
<1>1. /\ DOMAIN s = 1..Len(s) /\ Len(s) \in Nat
      /\ DOMAIN Append(s, e) = 1..(Len(s) + 1)
      /\ \A i \in 1..Len(s) : Append(s, e)[i] = s[i]
      /\ Append(s, e)[Len(s) + 1] = e
  OBVIOUS
<1>2. IsFiniteSet(WrittenAt(s, n)) /\ Cardinality(WrittenAt(s, n)) \in Nat
  BY FinitePositions DEF WrittenAt
<1>3. CASE e.line = n
  <2>1. /\ WrittenAt(Append(s, e), n) = WrittenAt(s, n) \cup {Len(s) + 1}
        /\ Len(s) + 1 \notin WrittenAt(s, n)
    BY <1>1, <1>3 DEF WrittenAt
  <2> QED
    BY <1>2, <1>3, <2>1, FS_AddElement DEF OneIf
<1>4. CASE e.line # n
  <2>1. WrittenAt(Append(s, e), n) = WrittenAt(s, n)
    BY <1>1, <1>4 DEF WrittenAt
  <2> QED
    BY <1>2, <1>4, <2>1 DEF OneIf
<1> QED
  BY <1>3, <1>4

\* pop() takes the line at the first position and moves the others by one.
LEMMA QueuedTail ==
  ASSUME NEW q \in Seq(Lines), q # <<>>, NEW n
  PROVE  Cardinality(QueuedAt(q, n)) = Cardinality(QueuedAt(Tail(q), n)) + OneIf(Head(q) = n)
<1> DEFINE P == QueuedAt(q, n)
           R == QueuedAt(Tail(q), n)
           f == [i \in R |-> i + 1]
<1>1. /\ DOMAIN q = 1..Len(q) /\ Len(q) \in Nat /\ Len(q) > 0
      /\ Tail(q) \in Seq(Lines) /\ DOMAIN Tail(q) = 1..(Len(q) - 1)
      /\ \A i \in 1..(Len(q) - 1) : Tail(q)[i] = q[i + 1]
      /\ Head(q) = q[1]
  OBVIOUS
<1>2. IsFiniteSet(P) /\ Cardinality(P) \in Nat /\ IsFiniteSet(R) /\ Cardinality(R) \in Nat
  BY <1>1, FinitePositions DEF QueuedAt
<1>3. f \in Bijection(R, P \ {1})
  <2>1. f \in [R -> P \ {1}]
    BY <1>1 DEF QueuedAt
  <2>2. \A i, j \in R : f[i] = f[j] => i = j
    BY <1>1 DEF QueuedAt
  <2>3. \A k \in P \ {1} : \E i \in R : f[i] = k
    <3>1. SUFFICES ASSUME NEW k \in P \ {1} PROVE \E i \in R : f[i] = k
      OBVIOUS
    <3>2. k - 1 \in R /\ (k - 1) + 1 = k
      BY <1>1 DEF QueuedAt
    <3> QED
      BY <3>2
  <2> HIDE DEF f
  <2> QED
    BY <2>1, <2>2, <2>3, Fun_IsBij
<1>4. Cardinality(P \ {1}) = Cardinality(R)
  <2> HIDE DEF P, R, f
  <2>1. ExistsBijection(R, P \ {1})
    BY <1>3 DEF ExistsBijection
  <2> QED
    BY <1>2, <2>1, FS_Bijection
<1>5. 1 \in P <=> Head(q) = n
  BY <1>1 DEF QueuedAt
<1>6. Cardinality(P \ {1}) = IF 1 \in P THEN Cardinality(P) - 1 ELSE Cardinality(P)
  BY <1>2, FS_RemoveElement
<1> HIDE DEF P, R, f
<1>7. Cardinality(P) = Cardinality(R) + OneIf(Head(q) = n)
  BY <1>2, <1>4, <1>5, <1>6 DEF OneIf
<1> QED
  BY <1>7 DEF P, R

-----------------------------------------------------------------------------
(* Every line in one place: the steps                                      *)

\* Places is about the sum of the run's invariant, for the lines to come too.
LEMMA PlacesSuffice == Structure /\ Places => EveryLineOnce
<1> SUFFICES ASSUME Structure, Places, NEW n \in 1..started PROVE Occurrences(n) = 1
  BY DEF EveryLineOnce
<1>1. n \in Lines /\ n <= started
  BY Parameters DEF Structure, Typed, TypeOK, Lines
<1>2. Occurrences(n) = Held(n) + Queued(n) + OneIf(single_log = n) + InFile(n) + OneIf(n \in lost)
  BY DEF Occurrences, Held, HeldBy, Queued, QueuedAt, InFile, WrittenAt, OneIf
<1> QED
  BY <1>1, <1>2 DEF Places, OneIf

\* What InHand says, by where the writer is.
LEMMA HandIs ==
  ASSUME Structure, NEW w \in Writers
  PROVE  /\ pc[w] = "idle" => InHand(w) = NULL
         /\ pc[w] \in {"count", "open", "format", "copy"} => InHand(w) = line[w]
         /\ pc[w] \in {"route", "push", "write"} => InHand(w) = log_str[w]
BY DEF Structure, Typed, TypeOK, InHand

\* The three counts are numbers, because writers and positions are finitely many.
LEMMA CountsAreNaturals ==
  ASSUME Structure, NEW n
  PROVE  Held(n) \in Nat /\ Queued(n) \in Nat /\ InFile(n) \in Nat
<1>1. Held(n) \in Nat
  BY CountWriters DEF Held, HeldBy
<1>2. Queued(n) \in Nat
  BY FinitePositions DEF Queued, QueuedAt, Structure, Typed, TypeOK
<1>3. InFile(n) \in Nat
  BY FinitePositions DEF InFile, WrittenAt, Structure, Typed
<1> QED
  BY <1>1, <1>2, <1>3

\* The writers that hold a line, when one writer takes or gives away one.
LEMMA HeldNext ==
  ASSUME NEW w \in Writers, \A u \in Writers : u # w => InHand(u)' = InHand(u), NEW n
  PROVE  Held(n)' = Held(n) - OneIf(InHand(w) = n) + OneIf(InHand(w)' = n)
<1>1. HeldBy(n) \subseteq Writers /\ HeldBy(n)' \subseteq Writers
  BY DEF HeldBy
<1>2. /\ \A u \in Writers : u # w => (u \in HeldBy(n) <=> u \in HeldBy(n)')
      /\ w \in HeldBy(n) <=> InHand(w) = n
      /\ w \in HeldBy(n)' <=> InHand(w)' = n
  BY DEF HeldBy
<1> HIDE DEF HeldBy
<1>3. Cardinality(HeldBy(n)') = Cardinality(HeldBy(n)) - OneIf(w \in HeldBy(n))
                                  + OneIf(w \in HeldBy(n)')
  BY <1>1, <1>2, Recount
<1> QED
  BY <1>2, <1>3 DEF Held, OneIf

\* Before the first line nothing is anywhere.
LEMMA PlacesInit == Init => Places
<1> SUFFICES ASSUME Init, NEW n \in Lines
             PROVE  Held(n) + Queued(n) + OneIf(single_log = n) + InFile(n) + OneIf(n \in lost)
                      = OneIf(n <= started)
  BY DEF Places
<1> USE Parameters DEF Init
<1>1. n # NULL /\ n \in Nat /\ ~ (n <= started)
  BY DEF Lines
<1>2. HeldBy(n) = {} /\ QueuedAt(m_log_queue, n) = {} /\ WrittenAt(written, n) = {}
  BY <1>1 DEF HeldBy, InHand, QueuedAt, WrittenAt
<1>3. Held(n) = 0 /\ Queued(n) = 0 /\ InFile(n) = 0
  BY <1>2, FS_EmptySet DEF Held, Queued, InFile
<1>4. OneIf(single_log = n) = 0 /\ OneIf(n \in lost) = 0 /\ OneIf(n <= started) = 0
  BY <1>1 DEF OneIf
<1> QED
  BY <1>3, <1>4

\* A step of one writer leaves what the other writers have.
LEMMA OthersKeep ==
  ASSUME Structure, NEW w \in Writers, WriteLog(w) \/ LogStep(w)
  PROVE  \A u \in Writers : u # w => InHand(u)' = InHand(u)
<1>1. \A u \in Writers : u # w => /\ pc'[u] = pc[u]
                                  /\ line'[u] = line[u]
                                  /\ log_str'[u] = log_str[u]
  <2> USE DEF Structure, Typed, TypeOK
  <2>1. CASE WriteLog(w)
    BY <2>1 DEF WriteLog
  <2>2. CASE CountLine(w) \/ CloseFile(w) \/ OpenFile(w)
    BY <2>2 DEF CountLine, CloseFile, OpenFile
  <2>3. CASE Format(w) \/ Copy(w) \/ Route(w)
    BY <2>3 DEF Format, Copy, Route
  <2>4. CASE Push(w) \/ Write(w)
    BY <2>4 DEF Push, Write, Return
  <2> QED
    BY <2>1, <2>2, <2>3, <2>4 DEF LogStep
<1> QED
  BY <1>1 DEF InHand

\* A line moves: out of a writer's hands into the queue, to the lost lines or to
\* the file, and from the queue through the flush thread to the file.
LEMMA PlacesNext == Structure /\ Places /\ [Next]_vars => Places'
<1> SUFFICES ASSUME Structure, Places, [Next]_vars, NEW n \in Lines
             PROVE  (Held(n) + Queued(n) + OneIf(single_log = n) + InFile(n) + OneIf(n \in lost)
                       = OneIf(n <= started))'
  BY DEF Places, Lines
<1> DEFINE F == OneIf(single_log = n)
           D == OneIf(n \in lost)
           S == OneIf(n <= started)
           Goal == Held(n)' + Queued(n)' + F' + InFile(n)' + D' = S'
<1>0. Structure'
  BY StructureNext
<1>1. /\ Held(n) \in Nat /\ Queued(n) \in Nat /\ InFile(n) \in Nat
      /\ F \in {0, 1} /\ D \in {0, 1} /\ S \in {0, 1}
      /\ Held(n) + Queued(n) + F + InFile(n) + D = S
  BY CountsAreNaturals DEF Places, OneIf
<1>2. n \in Nat /\ n # NULL /\ started \in Nat
  BY Parameters DEF Lines, Structure, Typed, TypeOK
<1>3. Held(n)' \in Nat /\ Queued(n)' \in Nat
  <2>1. Held(n)' \in Nat
    BY CountWriters DEF Held, HeldBy
  <2>2. Queued(n)' \in Nat
    BY <1>0, FinitePositions DEF Queued, QueuedAt, Structure, Typed, TypeOK
  <2> QED
    BY <2>1, <2>2
<1>4. ASSUME UNCHANGED <<m_log_queue, single_log, written, lost, started>>,
             \A w \in Writers : InHand(w)' = InHand(w)
      PROVE  Goal
  <2>1. Held(n)' = Held(n)
    BY <1>4 DEF Held, HeldBy
  <2>2. Queued(n)' = Queued(n) /\ InFile(n)' = InFile(n) /\ F' = F /\ D' = D /\ S' = S
    BY <1>4 DEF Queued, InFile
  <2> QED
    BY <1>1, <2>1, <2>2
<1> USE DEF memberVars, writerVars, flusherVars, worldVars
<1>5. ASSUME NEW w \in Writers,
             \/ CountLine(w) \/ CloseFile(w) \/ OpenFile(w) \/ Format(w) \/ Copy(w) \/ Route(w)
      PROVE  Goal
  <2>1. UNCHANGED <<m_log_queue, single_log, written, lost, started>>
    BY <1>5 DEF CountLine, CloseFile, OpenFile, Format, Copy, Route
  <2>2. InHand(w)' = InHand(w)
    <3> USE DEF Structure, Typed, TypeOK, OwnLine
    <3>1. CASE CountLine(w) \/ CloseFile(w) \/ OpenFile(w) \/ Format(w)
      <4>1. /\ pc[w] \in {"count", "open", "format", "copy"} /\ line' = line
            /\ pc'[w] \in {"count", "open", "format", "copy"}
        BY <3>1 DEF CountLine, CloseFile, OpenFile, Format
      <4> QED
        BY <4>1 DEF InHand
    <3>2. CASE Copy(w)
      <4>1. pc[w] = "copy" /\ pc'[w] = "route" /\ log_str'[w] = line[w]
        BY <3>2 DEF Copy
      <4> QED
        BY <4>1 DEF InHand
    <3>3. CASE Route(w)
      <4>1. pc[w] = "route" /\ pc'[w] \in {"push", "write"} /\ log_str' = log_str
        BY <3>3 DEF Route
      <4> QED
        BY <4>1 DEF InHand
    <3> QED
      BY <1>5, <3>1, <3>2, <3>3
  <2>3. \A u \in Writers : u # w => InHand(u)' = InHand(u)
    BY <1>5, OthersKeep DEF LogStep
  <2> QED
    BY <1>4, <2>1, <2>2, <2>3
<1>6. ASSUME NEW w \in Writers, WriteLog(w) PROVE Goal
  <2>1. InHand(w) = NULL /\ InHand(w)' = started + 1
    <3>1. pc[w] = "idle" /\ pc'[w] = "count" /\ line'[w] = started + 1
      BY <1>6 DEF WriteLog, Structure, Typed, TypeOK
    <3> QED
      BY <3>1 DEF InHand
  <2>2. Held(n)' = Held(n) - OneIf(NULL = n) + OneIf(started + 1 = n)
    BY <1>6, <2>1, OthersKeep, HeldNext
  <2>3. OneIf(NULL = n) = 0 /\ S' = S + OneIf(started + 1 = n) /\ OneIf(started + 1 = n) \in {0, 1}
    BY <1>2, <1>6 DEF WriteLog, OneIf
  <2>4. Queued(n)' = Queued(n) /\ InFile(n)' = InFile(n) /\ F' = F /\ D' = D
    BY <1>6 DEF WriteLog, Queued, InFile
  <2> QED
    BY <1>1, <2>2, <2>3, <2>4
<1>7. ASSUME NEW w \in Writers, pc[w] \in {"push", "write"}, Return(w), Push(w) \/ Write(w)
      PROVE  Held(n)' = Held(n) - OneIf(log_str[w] = n)
  <2>1. InHand(w) = log_str[w] /\ InHand(w)' = NULL
    <3>1. pc'[w] = "idle"
      BY <1>7 DEF Return, Structure, Typed, TypeOK
    <3> QED
      BY <1>7, <3>1 DEF InHand
  <2>2. Held(n)' = Held(n) - OneIf(log_str[w] = n) + OneIf(NULL = n)
    BY <1>7, <2>1, OthersKeep, HeldNext DEF LogStep
  <2>3. OneIf(NULL = n) = 0 /\ OneIf(log_str[w] = n) \in {0, 1}
    BY <1>2 DEF OneIf
  <2> QED
    BY <1>1, <2>2, <2>3
<1>8. ASSUME NEW w \in Writers, Push(w) PROVE Goal
  <2>1. log_str[w] \in Lines /\ m_log_queue \in Seq(Lines)
    BY <1>8 DEF Push, Structure, Typed, TypeOK, OwnLine
  <2>2. Held(n)' = Held(n) - OneIf(log_str[w] = n) /\ OneIf(log_str[w] = n) \in {0, 1}
    BY <1>7, <1>8 DEF Push, OneIf
  <2>3. InFile(n)' = InFile(n) /\ F' = F /\ S' = S
    BY <1>8 DEF Push, InFile
  <2>4. CASE m_log_queue' = Append(m_log_queue, log_str[w]) /\ lost' = lost
    <3>1. Queued(n)' = Queued(n) + OneIf(log_str[w] = n)
      BY <2>1, <2>4, QueuedAppend DEF Queued
    <3> QED
      BY <1>1, <2>2, <2>3, <2>4, <3>1
  <2>5. CASE lost' = lost \cup {log_str[w]} /\ m_log_queue' = m_log_queue
    <3>1. Queued(n)' = Queued(n)
      BY <2>5 DEF Queued
    <3>2. log_str[w] = n => n \notin lost
      <4>1. ASSUME log_str[w] = n PROVE OneIf(n \in lost) = 0
        <5>1. Held(n)' = Held(n) - 1 /\ Held(n)' \in Nat
          BY <1>3, <2>2, <4>1 DEF OneIf
        <5> QED
          BY <1>1, <5>1
      <4> QED
        BY <4>1 DEF OneIf
    <3>3. D' = D + OneIf(log_str[w] = n)
      BY <2>5, <3>2 DEF OneIf
    <3> QED
      BY <1>1, <2>2, <2>3, <3>1, <3>3
  <2> QED
    BY <1>8, <2>4, <2>5 DEF Push
<1>9. ASSUME NEW w \in Writers, Write(w) PROVE Goal
  <2>1. Held(n)' = Held(n) - OneIf(log_str[w] = n) /\ OneIf(log_str[w] = n) \in {0, 1}
    BY <1>7, <1>9 DEF Write, OneIf
  <2>2. Queued(n)' = Queued(n) /\ F' = F /\ D' = D /\ S' = S
    BY <1>9 DEF Write, Queued
  <2>3. InFile(n)' = InFile(n) + OneIf(log_str[w] = n)
    <3> DEFINE e == [line |-> log_str[w], file |-> m_fp]
    <3>1. /\ written \in Seq(Entries)
          /\ e \in Entries
      BY <1>9 DEF Write, Structure, Typed, TypeOK, OwnLine, Entries
    <3>2. written' = Append(written, e) /\ e.line = log_str[w]
      BY <1>9 DEF Write
    <3> HIDE DEF e
    <3>3. Cardinality(WrittenAt(Append(written, e), n))
             = Cardinality(WrittenAt(written, n)) + OneIf(e.line = n)
      BY <3>1, WrittenAppend
    <3> QED
      BY <3>2, <3>3 DEF InFile
  <2> QED
    BY <1>1, <2>1, <2>2, <2>3
<1>10. ASSUME FlushPop PROVE Goal
  <2>1. /\ m_log_queue # <<>> /\ m_log_queue \in Seq(Lines)
        /\ single_log = NULL /\ single_log' = Head(m_log_queue)
    BY <1>10 DEF FlushPop, Structure, Typed, TypeOK, OwnLine
  <2>2. Held(n)' = Held(n)
    BY <1>10 DEF FlushPop, Held, HeldBy, InHand
  <2>3. InFile(n)' = InFile(n) /\ D' = D /\ S' = S
    BY <1>10 DEF FlushPop, InFile
  <2>4. Queued(n) = Queued(n)' + OneIf(Head(m_log_queue) = n) /\ Queued(n)' \in Nat
    BY <1>10, <1>3, <2>1, QueuedTail DEF FlushPop, Queued
  <2>5. F = 0 /\ F' = OneIf(Head(m_log_queue) = n) /\ F' \in {0, 1}
    BY <1>2, <2>1 DEF OneIf
  <2> QED
    BY <1>1, <2>2, <2>3, <2>4, <2>5
<1>11. ASSUME FlushWrite PROVE Goal
  <2>1. Held(n)' = Held(n)
    BY <1>11 DEF FlushWrite, Held, HeldBy, InHand
  <2>2. Queued(n)' = Queued(n) /\ D' = D /\ S' = S
    BY <1>11 DEF FlushWrite, Queued
  <2>3. F' = 0
    BY <1>2, <1>11 DEF FlushWrite, OneIf
  <2>4. InFile(n)' = InFile(n) + F
    <3> DEFINE e == [line |-> single_log, file |-> m_fp]
    <3>1. single_log \in Lines
      BY <1>11 DEF FlushWrite, Structure, Typed, TypeOK, OwnLine
    <3>2. /\ written \in Seq(Entries)
          /\ e \in Entries
      BY <3>1 DEF Structure, Typed, TypeOK, Entries
    <3>3. written' = Append(written, e) /\ e.line = single_log
      BY <1>11 DEF FlushWrite
    <3> HIDE DEF e
    <3>4. Cardinality(WrittenAt(Append(written, e), n))
             = Cardinality(WrittenAt(written, n)) + OneIf(e.line = n)
      BY <3>2, WrittenAppend
    <3> QED
      BY <3>3, <3>4 DEF InFile
  <2> QED
    BY <1>1, <2>1, <2>2, <2>3, <2>4
<1>12. ASSUME NextDay \/ UNCHANGED vars PROVE Goal
  BY <1>4, <1>12 DEF NextDay, vars, InHand
<1> QED
  BY <1>5, <1>6, <1>8, <1>9, <1>10, <1>11, <1>12 DEF Next, LogStep

-----------------------------------------------------------------------------
(* Theorems                                                                *)

\* The inductive invariant.
THEOREM Invariance == Spec => []Inv
<1>1. Init => FileOpen
  <2>1. 0 \div SplitLines = 0
    BY Parameters, PartOf
  <2> QED
    BY <2>1 DEF Init, FileOpen
<1>2. Init => NoWriteToClosedFile
  BY DEF Init, NoWriteToClosedFile
<1>3. Init => Inv
  BY <1>1, <1>2, StructureInit, PlacesInit DEF Inv
<1>4. Inv /\ [Next]_vars => Inv'
  BY StructureNext, FileOpenNext, NoWriteToClosedFileNext, PlacesNext DEF Inv
<1> QED
  BY <1>3, <1>4, PTL DEF Spec

\* The members of Log and the locals of both functions have their types; no
\* line is counted that was not logged, so that no part has a number beyond it.
THEOREM TypeCorrect == Spec => []TypeOK
<1>1. Inv => TypeOK
  BY DEF Inv, Structure, Typed
<1> QED
  BY Invariance, <1>1, PTL

\* Two writers never mix their lines in the shared buffer, and none is written
\* twice or disappears but by the push() that a full queue refuses.
THEOREM LinesAccounted == Spec => []EveryLineOnce
<1>1. Inv => EveryLineOnce
  BY PlacesSuffice DEF Inv
<1> QED
  BY Invariance, <1>1, PTL

\* A rotation never leaves fputs with a closed file.
THEOREM NeverToClosedFile == Spec => []NoWriteToClosedFile
<1>1. Inv => NoWriteToClosedFile
  BY DEF Inv
<1> QED
  BY Invariance, <1>1, PTL

\* With the mutex free, the open file is the one for the day and the count.
THEOREM FileFits == Spec => []FileMatchesCount
<1>1. Inv => FileMatchesCount
  BY NobodyOpening DEF Inv, FileOpen, FileMatchesCount
<1> QED
  BY Invariance, <1>1, PTL
=============================================================================
