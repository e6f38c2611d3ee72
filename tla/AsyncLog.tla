------------------------------ MODULE AsyncLog ------------------------------
(***************************************************************************)
(* Log (log/log.cpp, log/log.h): several threads call write_log(); with a  *)
(* queue, a flush thread runs async_write_log().  write_log() takes the    *)
(* mutex three times: to count the line and rotate the file, to format the *)
(* line in the shared buffer, and, on the synchronous path, to write it.   *)
(* It tests the queue and pushes to it without the mutex.                  *)
(*                                                                         *)
(* The queue is a sequence here: BlockQueue.tla shows that block_queue     *)
(* implements one.  Its full() is declared nowhere; it is taken to test    *)
(* m_size >= m_max_size.  flush(), which the macros call after write_log,  *)
(* is not defined in the repository and is left out.  Days are numbers.    *)
(***************************************************************************)
EXTENDS Integers, Sequences, FiniteSets

CONSTANTS
  Writers,     \* the threads that call write_log()
  NULL,        \* no thread, no line, no open file
  QueueSize,   \* max_queue_size; 0 makes the log synchronous
  SplitLines,  \* m_split_lines
  MaxLines,    \* bound: how many lines are logged
  MaxDay       \* bound: the last day

ASSUME AsyncLogAssumption ==
  /\ IsFiniteSet(Writers)
  /\ NULL \notin Writers \cup Nat \cup [day : Nat, part : Nat]
  /\ QueueSize \in Nat
  /\ SplitLines \in Nat \ {0}
  /\ MaxLines \in Nat
  /\ MaxDay \in Nat

Lines == 1..MaxLines

\* A log file is named after its day and, for part > 0, a numeric suffix.
Files == [day : 0..MaxDay, part : 0..MaxLines]

VARIABLES
  m_count, m_today, m_fp, m_buf,  \* the members of Log; m_fp NULL when closed
  m_mutex,                        \* the thread that owns the mutex, or NULL
  m_log_queue,                    \* the items of the block_queue
  pc, line, my_tm, log_str,       \* the locals of write_log() of each writer
  fpc, single_log,                \* the locals of async_write_log()
  written,                        \* sequence of [line, file]: the fputs so far
  lost,                           \* the lines that push() refused
  started,                        \* number of lines logged so far
  today                           \* the day of gettimeofday

memberVars == <<m_count, m_today, m_fp, m_buf, m_mutex>>
writerVars == <<pc, line, my_tm, log_str>>
flusherVars == <<fpc, single_log>>
worldVars == <<started, today>>
vars == <<memberVars, m_log_queue, writerVars, flusherVars, written, lost,
          worldVars>>

m_is_async == QueueSize >= 1

\* bool Log::init(): the file of the day is open, the flush thread started.
Init ==
  /\ m_count = 0
  /\ m_today = 0
  /\ m_fp = [day |-> 0, part |-> 0]
  /\ m_buf = NULL
  /\ m_mutex = NULL
  /\ m_log_queue = <<>>
  /\ pc = [w \in Writers |-> "idle"]
  /\ line = [w \in Writers |-> NULL]
  /\ my_tm = [w \in Writers |-> 0]
  /\ log_str = [w \in Writers |-> NULL]
  /\ fpc = "pop"
  /\ single_log = NULL
  /\ written = <<>>
  /\ lost = {}
  /\ started = 0
  /\ today = 0

-----------------------------------------------------------------------------
(* void Log::write_log(int level, const char *format, ...)                 *)

\* The date is read before the mutex.
WriteLog(w) ==
  /\ pc[w] = "idle"
  /\ started < MaxLines
  /\ started' = started + 1
  /\ line' = [line EXCEPT ![w] = started']
  /\ my_tm' = [my_tm EXCEPT ![w] = today]
  /\ pc' = [pc EXCEPT ![w] = "count"]
  /\ UNCHANGED <<memberVars, m_log_queue, log_str, flusherVars, written, lost,
                 today>>

MustRotate(w) == m_today # my_tm[w] \/ (m_count + 1) % SplitLines = 0

\* m_count++ and no rotation.
CountLine(w) ==
  /\ pc[w] = "count"
  /\ m_mutex = NULL
  /\ ~MustRotate(w)
  /\ m_count' = m_count + 1
  /\ pc' = [pc EXCEPT ![w] = "format"]
  /\ UNCHANGED <<m_today, m_fp, m_buf, m_mutex, m_log_queue, line, my_tm,
                 log_str, flusherVars, written, lost, worldVars>>

\* m_count++, then fclose(m_fp) with the mutex held.
CloseFile(w) ==
  /\ pc[w] = "count"
  /\ m_mutex = NULL
  /\ MustRotate(w)
  /\ m_count' = m_count + 1
  /\ m_fp' = NULL
  /\ m_mutex' = w
  /\ pc' = [pc EXCEPT ![w] = "open"]
  /\ UNCHANGED <<m_today, m_buf, m_log_queue, line, my_tm, log_str,
                 flusherVars, written, lost, worldVars>>

\* Mutant: the line counter is not reset for the file of a new day.
OpenFileNoReset(w) ==
  /\ pc[w] = "open"
  /\ m_today' = my_tm[w]
  /\ m_count' = m_count
  /\ m_fp' = IF m_today # my_tm[w] THEN [day |-> my_tm[w], part |-> 0]
             ELSE [day |-> my_tm[w], part |-> m_count \div SplitLines]
  /\ m_mutex' = NULL
  /\ pc' = [pc EXCEPT ![w] = "format"]
  /\ UNCHANGED <<m_buf, m_log_queue, line, my_tm, log_str, flusherVars,
                 written, lost, worldVars>>

\* fopen of the file of the writer's day, or of the next part of the same day.
\* That fopen may fail is left out: the next fputs would get a null pointer.
OpenFile(w) ==
  /\ pc[w] = "open"
  /\ \/ /\ m_today # my_tm[w]
        /\ m_today' = my_tm[w]
        /\ m_count' = 0
        /\ m_fp' = [day |-> my_tm[w], part |-> 0]
     \/ /\ m_today = my_tm[w]
        /\ m_fp' = [day |-> my_tm[w], part |-> m_count \div SplitLines]
        /\ UNCHANGED <<m_today, m_count>>
  /\ m_mutex' = NULL
  /\ pc' = [pc EXCEPT ![w] = "format"]
  /\ UNCHANGED <<m_buf, m_log_queue, line, my_tm, log_str, flusherVars,
                 written, lost, worldVars>>

\* Mutant: the line is formatted without the mutex.
FormatUnlocked(w) ==
  /\ pc[w] = "format"
  /\ m_buf' = line[w]
  /\ m_mutex' = w
  /\ pc' = [pc EXCEPT ![w] = "copy"]
  /\ UNCHANGED <<m_count, m_today, m_fp, m_log_queue, line, my_tm, log_str,
                 flusherVars, written, lost, worldVars>>

\* snprintf and vsnprintf to m_buf, with the mutex held.
Format(w) ==
  /\ pc[w] = "format"
  /\ m_mutex = NULL
  /\ m_buf' = line[w]
  /\ m_mutex' = w
  /\ pc' = [pc EXCEPT ![w] = "copy"]
  /\ UNCHANGED <<m_count, m_today, m_fp, m_log_queue, line, my_tm, log_str,
                 flusherVars, written, lost, worldVars>>

\* log_str = m_buf; m_mutex.unlock().
Copy(w) ==
  /\ pc[w] = "copy"
  /\ log_str' = [log_str EXCEPT ![w] = m_buf]
  /\ m_mutex' = NULL
  /\ pc' = [pc EXCEPT ![w] = "route"]
  /\ UNCHANGED <<m_count, m_today, m_fp, m_buf, m_log_queue, line, my_tm,
                 flusherVars, written, lost, worldVars>>

\* m_is_async && !m_log_queue->full(), without the mutex.
Route(w) ==
  /\ pc[w] = "route"
  /\ pc' = [pc EXCEPT ![w] =
              IF m_is_async /\ Len(m_log_queue) < QueueSize THEN "push" ELSE "write"]
  /\ UNCHANGED <<memberVars, m_log_queue, line, my_tm, log_str, flusherVars,
                 written, lost, worldVars>>

Return(w) ==
  /\ pc' = [pc EXCEPT ![w] = "idle"]
  /\ line' = [line EXCEPT ![w] = NULL]
  /\ log_str' = [log_str EXCEPT ![w] = NULL]

\* m_log_queue->push(log_str): its result is ignored, so a line that meets a
\* full queue is dropped.
Push(w) ==
  /\ pc[w] = "push"
  /\ \/ /\ Len(m_log_queue) < QueueSize
        /\ m_log_queue' = Append(m_log_queue, log_str[w])
        /\ UNCHANGED lost
     \/ /\ Len(m_log_queue) >= QueueSize
        /\ lost' = lost \cup {log_str[w]}
        /\ UNCHANGED m_log_queue
  /\ Return(w)
  /\ UNCHANGED <<memberVars, my_tm, flusherVars, written, worldVars>>

\* Mutant: the synchronous path writes without the mutex.
WriteUnlocked(w) ==
  /\ pc[w] = "write"
  /\ written' = Append(written, [line |-> log_str[w], file |-> m_fp])
  /\ Return(w)
  /\ UNCHANGED <<memberVars, m_log_queue, my_tm, flusherVars, lost, worldVars>>

\* fputs(log_str.c_str(), m_fp) between lock and unlock.
Write(w) ==
  /\ pc[w] = "write"
  /\ m_mutex = NULL
  /\ written' = Append(written, [line |-> log_str[w], file |-> m_fp])
  /\ Return(w)
  /\ UNCHANGED <<memberVars, m_log_queue, my_tm, flusherVars, lost, worldVars>>

-----------------------------------------------------------------------------
(* void *Log::async_write_log(), in the flush thread                       *)

\* m_log_queue->pop(single_log).  It returns true: false, which would end the
\* thread, is for the errors of pthread_cond_wait that BlockQueue leaves out.
FlushPop ==
  /\ m_is_async
  /\ fpc = "pop"
  /\ m_log_queue # <<>>
  /\ single_log' = Head(m_log_queue)
  /\ m_log_queue' = Tail(m_log_queue)
  /\ fpc' = "write"
  /\ UNCHANGED <<memberVars, writerVars, written, lost, worldVars>>

\* Mutant: the flush thread ends after its first line.
FlushWriteOnce ==
  /\ fpc = "write"
  /\ m_mutex = NULL
  /\ written' = Append(written, [line |-> single_log, file |-> m_fp])
  /\ single_log' = NULL
  /\ fpc' = "end"
  /\ UNCHANGED <<memberVars, m_log_queue, writerVars, lost, worldVars>>

\* fputs(single_log.c_str(), m_fp) between lock and unlock.
FlushWrite ==
  /\ fpc = "write"
  /\ m_mutex = NULL
  /\ written' = Append(written, [line |-> single_log, file |-> m_fp])
  /\ single_log' = NULL
  /\ fpc' = "pop"
  /\ UNCHANGED <<memberVars, m_log_queue, writerVars, lost, worldVars>>

\* Midnight.
NextDay ==
  /\ today < MaxDay
  /\ today' = today + 1
  /\ UNCHANGED <<memberVars, m_log_queue, writerVars, flusherVars, written,
                 lost, started>>

-----------------------------------------------------------------------------
LogStep(w) ==
  \/ CountLine(w) \/ CloseFile(w) \/ OpenFile(w) \/ Format(w) \/ Copy(w)
  \/ Route(w) \/ Push(w) \/ Write(w)

Next ==
  \/ \E w \in Writers : WriteLog(w) \/ LogStep(w)
  \/ FlushPop \/ FlushWrite
  \/ NextDay

Spec == Init /\ [][Next]_vars

\* A thread inside write_log and the flush thread keep running, and are not
\* overtaken forever on the mutex.
Fairness ==
  /\ \A w \in Writers : SF_vars(LogStep(w))
  /\ SF_vars(FlushPop \/ FlushWrite)

FairSpec == Spec /\ Fairness

-----------------------------------------------------------------------------
(* Properties *)

\* The type invariant.
TypeOK ==
  /\ m_count \in Nat
  /\ m_today \in 0..MaxDay
  /\ m_fp \in Files \cup {NULL}
  /\ m_buf \in Lines \cup {NULL}
  /\ m_mutex \in Writers \cup {NULL}
  /\ m_log_queue \in Seq(Lines) /\ Len(m_log_queue) <= QueueSize
  /\ pc \in [Writers -> {"idle", "count", "open", "format", "copy", "route",
                         "push", "write"}]
  /\ line \in [Writers -> Lines \cup {NULL}]
  /\ my_tm \in [Writers -> 0..MaxDay]
  /\ log_str \in [Writers -> Lines \cup {NULL}]
  /\ fpc \in {"pop", "write"}
  /\ single_log \in Lines \cup {NULL}
  /\ lost \subseteq Lines
  /\ started \in 0..MaxLines
  /\ today \in 0..MaxDay

\* The line a writer has: its own until it is formatted, then what it copied
\* out of the shared buffer.
InHand(w) ==
  CASE pc[w] = "idle" -> NULL
    [] pc[w] \in {"count", "open", "format", "copy"} -> line[w]
    [] OTHER -> log_str[w]

Occurrences(n) ==
  LET writers == Cardinality({w \in Writers : InHand(w) = n})
      queued == Cardinality({i \in DOMAIN m_log_queue : m_log_queue[i] = n})
      flushing == IF single_log = n THEN 1 ELSE 0
      inFile == Cardinality({i \in DOMAIN written : written[i].line = n})
      dropped == IF n \in lost THEN 1 ELSE 0
  IN writers + queued + flushing + inFile + dropped

\* Every line that was logged is in exactly one place: no line is written
\* twice, or overwritten in the shared buffer by another writer's line.
EveryLineOnce == \A n \in 1..started : Occurrences(n) = 1

\* Nothing is written to a file that a rotation has closed.
NoWriteToClosedFile == \A i \in DOMAIN written : written[i].file # NULL

\* The open file is always the one for the current day and line count.
FileMatchesCount ==
  m_mutex = NULL => m_fp = [day |-> m_today, part |-> m_count \div SplitLines]

\* A line in the queue gets to a file.
QueuedLineWritten ==
  \A n \in Lines :
    (\E i \in DOMAIN m_log_queue : m_log_queue[i] = n)
      ~> (\E i \in DOMAIN written : written[i].line = n)

-----------------------------------------------------------------------------
(* What the comments say and the code does not do *)

\* "If the date is not today, open the log of today" (log.cpp:137): the open
\* file never goes back to an earlier day.  TLC refutes it as a PROPERTY: a
\* writer that has read the date before midnight and takes the mutex after
\* another writer has opened the new file opens the old one again.
NeverBackToYesterday == [][m_today' >= m_today]_vars
=============================================================================
