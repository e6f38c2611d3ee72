------------------------------ MODULE MainLoop ------------------------------
(***************************************************************************)
(* main.cpp: the epoll loop of the main thread, the signals it reacts to   *)
(* and the timer list it owns (TimerList.tla, whose variables and          *)
(* operators this module uses).                                            *)
(*                                                                         *)
(* A signal only writes its number into a socket pair, the signal pipe.    *)
(* The loop reads the pipe: SIGALRM sets timeout, SIGTERM stop_server.     *)
(* alarm() rings once; timer_handler() expires the timers and sets it      *)
(* again, so each alarm depends on the one before it.                      *)
(*                                                                         *)
(* main.cpp ends after the switch on the signals.  What it leaves out is   *)
(* external here: the events of clients, which add, move and delete        *)
(* timers, and the call of timer_handler() when timeout is set.            *)
(***************************************************************************)
EXTENDS TimerList, Sequences

CONSTANTS
  TIMESLOT,      \* seconds from one alarm to the next
  PipeCapacity,  \* how many bytes the socket pair holds
  BatchSize,     \* sizeof(signals)
  MaxKills       \* bound: SIGTERM signals sent by other processes

ASSUME MainLoopAssumption ==
  /\ TIMESLOT \in Nat \ {0}
  /\ PipeCapacity \in Nat \ {0}
  /\ BatchSize \in Nat \ {0}
  /\ MaxKills \in Nat

VARIABLES
  alarmAt,      \* when the alarm rings, or Off
  raised,       \* the signals that have been sent and not yet handled
  pipedfd,      \* the bytes in the signal pipe
  errno,        \* errno of the main thread, from epoll_wait to its test
  timeout, stop_server,
  pc,           \* where the main thread is in the loop
  pipeEvent,    \* epoll_wait has reported pipedfd[0], not handled yet
  kills         \* how often someone has sent SIGTERM

timerVars == vars
loopVars == <<vars, alarmAt, raised, pipedfd, errno, timeout, stop_server, pc,
              pipeEvent, kills>>

Signal == {"SIGALRM", "SIGTERM"}

\* The value of alarmAt when no alarm is set.
Off == -1

LoopInit ==
  /\ Init
  /\ alarmAt = TIMESLOT
  /\ raised = {}
  /\ pipedfd = <<>>
  /\ errno = "none"
  /\ timeout = FALSE
  /\ stop_server = FALSE
  /\ pc = "wait"
  /\ pipeEvent = FALSE
  /\ kills = 0

-----------------------------------------------------------------------------
(* Time and signals                                                        *)

\* A second passes, and the alarm may ring.
Second ==
  /\ Advance
  /\ LET rings == alarmAt = now'
     IN /\ raised' = IF rings THEN raised \cup {"SIGALRM"} ELSE raised
        /\ alarmAt' = IF rings THEN Off ELSE alarmAt
  /\ UNCHANGED <<pipedfd, errno, timeout, stop_server, pc, pipeEvent, kills>>

\* Someone asks the server to stop.  A signal that is pending already is not
\* sent twice.
Kill ==
  /\ kills < MaxKills
  /\ kills' = kills + 1
  /\ raised' = raised \cup {"SIGTERM"}
  /\ UNCHANGED <<timerVars, alarmAt, pipedfd, errno, timeout, stop_server, pc,
                 pipeEvent>>

\* send() on the non-blocking write end: a full pipe takes nothing.
SendByte(sig) ==
  pipedfd' = IF Len(pipedfd) < PipeCapacity THEN Append(pipedfd, sig) ELSE pipedfd

\* Mutant: errno is not restored.
HandleSignalKeepsErrno(sig) ==
  /\ sig \in raised
  /\ pc # "exited"
  /\ raised' = raised \ {sig}
  /\ SendByte(sig)
  /\ errno' = IF Len(pipedfd) < PipeCapacity THEN errno ELSE "EAGAIN"
  /\ UNCHANGED <<timerVars, alarmAt, timeout, stop_server, pc, pipeEvent, kills>>

\* sig_handler(), on any thread: send() and errno as it was before.
HandleSignal(sig) ==
  /\ sig \in raised
  /\ pc # "exited"
  /\ raised' = raised \ {sig}
  /\ SendByte(sig)
  /\ errno' = errno
  /\ UNCHANGED <<timerVars, alarmAt, timeout, stop_server, pc, pipeEvent, kills>>

\* sig_handler() on the main thread while it is blocked in epoll_wait, which
\* returns -1 (addsig(sig, sig_handler, false): without SA_RESTART).
InterruptWait(sig) ==
  /\ sig \in raised
  /\ pc = "wait"
  /\ pipedfd = <<>>
  /\ raised' = raised \ {sig}
  /\ SendByte(sig)
  /\ errno' = "EINTR"
  /\ pc' = "failed"
  /\ UNCHANGED <<timerVars, alarmAt, timeout, stop_server, pipeEvent, kills>>

-----------------------------------------------------------------------------
(* The main thread                                                         *)

\* epoll_wait returns with the read end of the pipe, and perhaps clients.  The
\* pipe is read as level-triggered.  (main.cpp:59 speaks of ET; for a recv that
\* takes all the pipe holds there is no difference.)
PipeReadable ==
  /\ pc = "wait"
  /\ pipedfd # <<>>
  /\ pipeEvent' = TRUE
  /\ pc' = "events"
  /\ UNCHANGED <<timerVars, alarmAt, raised, pipedfd, errno, timeout,
                 stop_server, kills>>

\* epoll_wait returns with clients only.
ClientsReadable ==
  /\ pc = "wait"
  /\ pipedfd = <<>>
  /\ pc' = "events"
  /\ UNCHANGED <<timerVars, alarmAt, raised, pipedfd, errno, timeout,
                 stop_server, pipeEvent, kills>>

\* number < 0: break unless errno is EINTR; the loop over the events is empty.
\* Nothing reads this value of errno again.
WaitFailed ==
  /\ pc = "failed"
  /\ pc' = IF errno # "EINTR" THEN "broken" ELSE "handled"
  /\ errno' = "none"
  /\ UNCHANGED <<timerVars, alarmAt, raised, pipedfd, timeout, stop_server,
                 pipeEvent, kills>>

\* The dispatch of a client's event: a connection is accepted, active, closed.
ClientEvent ==
  /\ pc = "events"
  /\ \E t \in Timers : Add(t) \/ Adjust(t) \/ Delete(t)
  /\ UNCHANGED <<alarmAt, raised, pipedfd, errno, timeout, stop_server, pc,
                 pipeEvent, kills>>

\* The bytes that recv() returns, and those that stay in the pipe.
Batch == SubSeq(pipedfd, 1, IF Len(pipedfd) < BatchSize THEN Len(pipedfd) ELSE BatchSize)
Rest == SubSeq(pipedfd, Len(Batch) + 1, Len(pipedfd))

Received(sig) == \E i \in DOMAIN Batch : Batch[i] = sig

\* Mutant: only the first byte of the batch is looked at.
SignalEventFirstByte ==
  /\ pc = "events"
  /\ pipeEvent
  /\ pipedfd' = Rest
  /\ timeout' = (timeout \/ Batch[1] = "SIGALRM")
  /\ stop_server' = (stop_server \/ Batch[1] = "SIGTERM")
  /\ pipeEvent' = FALSE
  /\ UNCHANGED <<timerVars, alarmAt, raised, errno, pc, kills>>

\* The event of the pipe: one recv(), and the switch for each byte.
SignalEvent ==
  /\ pc = "events"
  /\ pipeEvent
  /\ pipedfd' = Rest
  /\ timeout' = (timeout \/ Received("SIGALRM"))
  /\ stop_server' = (stop_server \/ Received("SIGTERM"))
  /\ pipeEvent' = FALSE
  /\ UNCHANGED <<timerVars, alarmAt, raised, errno, pc, kills>>

EndOfEvents ==
  /\ pc = "events"
  /\ ~pipeEvent
  /\ pc' = "handled"
  /\ UNCHANGED <<timerVars, alarmAt, raised, pipedfd, errno, timeout,
                 stop_server, pipeEvent, kills>>

\* tick(), which returns at once when the list is empty.
TickList == IF head = NULL THEN UNCHANGED timerVars ELSE Tick

\* Mutant: the alarm is only set again when there are timers.
TimerHandlerNoTimers ==
  /\ pc = "handled"
  /\ timeout
  /\ TickList
  /\ alarmAt' = IF head = NULL THEN alarmAt ELSE now + TIMESLOT
  /\ timeout' = FALSE
  /\ UNCHANGED <<raised, pipedfd, errno, stop_server, pc, pipeEvent, kills>>

\* timer_handler(): tick() and alarm(TIMESLOT); then timeout is reset.
TimerHandler ==
  /\ pc = "handled"
  /\ timeout
  /\ TickList
  /\ alarmAt' = now + TIMESLOT
  /\ timeout' = FALSE
  /\ UNCHANGED <<raised, pipedfd, errno, stop_server, pc, pipeEvent, kills>>

\* while(!stop_server)
NextIteration ==
  /\ pc = "handled"
  /\ ~timeout
  /\ pc' = IF stop_server THEN "stopped" ELSE "wait"
  /\ UNCHANGED <<timerVars, alarmAt, raised, pipedfd, errno, timeout,
                 stop_server, pipeEvent, kills>>

\* The process exits: timer_lst is destroyed.
Exit ==
  /\ pc = "stopped"
  /\ Destroy
  /\ pc' = "exited"
  /\ UNCHANGED <<alarmAt, raised, pipedfd, errno, timeout, stop_server,
                 pipeEvent, kills>>

-----------------------------------------------------------------------------
LoopStep ==
  \/ PipeReadable \/ WaitFailed \/ SignalEvent \/ EndOfEvents
  \/ TimerHandler \/ NextIteration \/ Exit

Deliver(sig) == HandleSignal(sig) \/ InterruptWait(sig)

LoopNext ==
  \/ Second
  \/ Kill
  \/ \E sig \in Signal : Deliver(sig)
  \/ ClientsReadable
  \/ ClientEvent
  \/ LoopStep

LoopSpec == LoopInit /\ [][LoopNext]_loopVars

\* Time passes, the kernel delivers signals, and the main thread runs.  No
\* client need do anything, and nobody need send SIGTERM.
LoopFairness ==
  /\ WF_loopVars(Second)
  /\ WF_loopVars(LoopStep)
  /\ \A sig \in Signal : WF_loopVars(Deliver(sig))

FairLoopSpec == LoopSpec /\ LoopFairness

-----------------------------------------------------------------------------
(* Properties *)

Running == pc \notin {"broken", "stopped", "exited"}

\* The type invariant, with that of the list.
LoopTypeOK ==
  /\ TypeOK
  /\ alarmAt \in Nat \cup {Off}
  /\ raised \subseteq Signal
  /\ pipedfd \in Seq(Signal)
  /\ Len(pipedfd) <= PipeCapacity
  /\ errno \in {"none", "EINTR", "EAGAIN"}
  /\ timeout \in BOOLEAN
  /\ stop_server \in BOOLEAN
  /\ pc \in {"wait", "failed", "events", "handled", "broken", "stopped", "exited"}
  /\ pipeEvent \in BOOLEAN
  /\ kills \in 0..MaxKills

\* The chain of alarms never breaks, not even when the pipe is full and the
\* signal of an alarm is lost: the next tick is on its way as an alarm, a
\* signal, a byte or the flag, or the pipe holds a SIGTERM, which ends the
\* loop.  And the loop ends in no other way: a signal handler that runs
\* between epoll_wait and the test of errno does not change its result.
KeepsTicking ==
  /\ pc # "broken"
  /\ Running =>
       \/ alarmAt > now
       \/ "SIGALRM" \in raised
       \/ pipedfd # <<>>
       \/ timeout
       \/ stop_server

\* The list behaves as a set of deadlines, and a tick misses none of them:
\* whatever was added, moved and deleted before, no timer is due after it.
TickFiresExactlyDue ==
  /\ ImplementsTimerQueue
  /\ [][timeout /\ ~timeout' => \A t \in live' : expire'[t] > now']_loopVars

\* A SIGTERM ends the server, even if it meets a full pipe and its byte is
\* lost: one alarm at most is in the pipe, so a full pipe of two bytes or more
\* holds another SIGTERM.
TermStops == "SIGTERM" \in raised ~> pc = "exited"

\* A connection does not outlive its deadline: a timer that is due early
\* enough for one more alarm fires, unless the client moves or deletes it or
\* the server stops.
DueEarly(t) == t \in live /\ expire[t] + TIMESLOT <= MaxTime

DueTimersFire == \A t \in Timers : DueEarly(t) ~> (~DueEarly(t) \/ stop_server)
=============================================================================
