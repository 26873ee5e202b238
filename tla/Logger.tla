------------------------------- MODULE Logger -------------------------------
(***************************************************************************)
(* The asynchronous logger (src/log/) and the fatal exits that depend on   *)
(* it (src/common/err.cpp). Any thread queues a message; one writer thread *)
(* takes them from the queue and writes them to the log file. A thread     *)
(* that leaves the process through std::exit stops the writer and joins it *)
(* in Logger's destructor; DB_CRASH aborts without either.                 *)
(*                                                                         *)
(* A message is its level; the text, and the copy of CRITICAL messages     *)
(* that goes to stderr at once, are left out.                              *)
(***************************************************************************)
EXTENDS Naturals, Sequences

CONSTANTS
  Threads,       \* the threads that log: sessions and the main thread
  Levels,        \* log levels, as numbers
  ErrorLevel, CriticalLevel,
  MaxLogs        \* bound: no log() begins once this many were queued

ASSUME LoggerConstants ==
  /\ Levels \subseteq Nat /\ MaxLogs \in Nat
  /\ {ErrorLevel, CriticalLevel} \subseteq Levels /\ ErrorLevel < CriticalLevel

VARIABLES
  pc, msg,       \* per thread: where in log() it is, and the message it logs
  threshold,     \* level_threshold_
  enabled,       \* modules_enabled_ of the one module there is here
  queue,         \* queue_
  held,          \* the writer holds queue_mutex_
  wpc, hand,     \* the writer thread: where it is, the message it has taken
  stop,          \* writer_stop_
  leaver,        \* the thread that runs std::exit, as a set
  over,          \* how the process ended: "no", "exit" or "abort"
  written,       \* lines that reached the log file or, failing that, stderr
  pushed,        \* history: what was queued, in this order
  atStop         \* history: how much of pushed was there when stop was set

vars == <<pc, msg, threshold, enabled, queue, held, wpc, hand, stop, leaver, over,
          written, pushed, atStop>>

settings == <<threshold, enabled>>
writer   == <<held, wpc, hand, written>>
exiting  == <<stop, leaver, over, atStop>>

Init ==
  /\ pc = [t \in Threads |-> "run"] /\ msg = [t \in Threads |-> ErrorLevel]
  /\ threshold \in Levels /\ enabled = TRUE
  /\ queue = <<>> /\ held = FALSE /\ wpc = "test" /\ hand = <<>>
  /\ stop = FALSE /\ leaver = {} /\ over = "no"
  /\ written = <<>> /\ pushed = <<>> /\ atStop = 0

-----------------------------------------------------------------------------
(* Threads that log *)

Passes(l) == l >= threshold /\ (l < ErrorLevel => enabled)

\* log, logWithSource and logCppImpl: the filters, then the message. A message
\* below the threshold leaves no trace.
Log(t, l) ==
  /\ over = "no" /\ pc[t] = "run" /\ Passes(l)
  /\ msg' = [msg EXCEPT ![t] = l]
  /\ pc' = [pc EXCEPT ![t] = "push"]
  /\ Len(pushed) < MaxLogs
  /\ UNCHANGED <<settings, queue, writer, exiting, pushed>>

\* The push, under queue_mutex_.
Push(t) ==
  /\ over = "no" /\ pc[t] = "push" /\ ~held
  /\ queue' = Append(queue, msg[t])
  /\ pushed' = Append(pushed, msg[t])
  /\ pc' = [pc EXCEPT ![t] = "notify"]
  /\ UNCHANGED <<msg, settings, writer, exiting>>

Woken == IF wpc = "wait" THEN "lock" ELSE wpc

NotifySilently(t) ==
  /\ over = "no" /\ pc[t] = "notify"
  /\ pc' = [pc EXCEPT ![t] = IF msg[t] = CriticalLevel THEN "fatal" ELSE "run"]
  /\ UNCHANGED <<msg, settings, queue, writer, exiting, pushed>>

\* notify_one wakes the writer only if it waits already. The callers that log
\* CRITICAL end the process next (raise_critical_impl, raise_crash_impl).
Notify(t) ==
  /\ over = "no" /\ pc[t] = "notify"
  /\ wpc' = Woken
  /\ pc' = [pc EXCEPT ![t] = IF msg[t] = CriticalLevel THEN "fatal" ELSE "run"]
  /\ UNCHANGED <<msg, settings, queue, held, hand, written, exiting, pushed>>

\* SET server_log_level, setModuleEnabled.
Configure(t) ==
  /\ over = "no" /\ pc[t] = "run"
  /\ threshold' \in Levels /\ enabled' \in BOOLEAN
  /\ UNCHANGED <<pc, msg, queue, writer, exiting, pushed>>

-----------------------------------------------------------------------------
(* The writer thread: writerThreadFunc *)

\* The loop's condition, read without the mutex.
WriterTest ==
  /\ over = "no" /\ wpc = "test"
  /\ wpc' = IF stop /\ queue = <<>> THEN "done" ELSE "lock"
  /\ UNCHANGED <<pc, msg, settings, queue, held, hand, exiting, written, pushed>>

WriterLock ==
  /\ over = "no" /\ wpc = "lock" /\ ~held
  /\ held' = TRUE /\ wpc' = "look"
  /\ UNCHANGED <<pc, msg, settings, queue, hand, exiting, written, pushed>>

TakeTwice ==
  /\ over = "no" /\ wpc = "look" /\ queue # <<>>
  /\ hand' = <<Head(queue)>> /\ queue' = IF stop THEN Tail(queue) ELSE queue
  /\ held' = FALSE /\ wpc' = "write"
  /\ UNCHANGED <<pc, msg, settings, exiting, written, pushed>>

\* The predicate of wait holds and there is a message.
WriterTake ==
  /\ over = "no" /\ wpc = "look" /\ queue # <<>>
  /\ hand' = <<Head(queue)>> /\ queue' = Tail(queue)
  /\ held' = FALSE /\ wpc' = "write"
  /\ UNCHANGED <<pc, msg, settings, exiting, written, pushed>>

LeaveOnStop ==
  /\ over = "no" /\ wpc = "look" /\ stop
  /\ held' = FALSE /\ wpc' = "done"
  /\ UNCHANGED <<pc, msg, settings, queue, hand, exiting, written, pushed>>

\* The predicate holds because of writer_stop_, with nothing left to write.
WriterBreak ==
  /\ over = "no" /\ wpc = "look" /\ queue = <<>> /\ stop
  /\ held' = FALSE /\ wpc' = "done"
  /\ UNCHANGED <<pc, msg, settings, queue, hand, exiting, written, pushed>>

\* The predicate was false; the writer still holds the mutex.
WriterFalse ==
  /\ over = "no" /\ wpc = "look" /\ queue = <<>> /\ ~stop
  /\ wpc' = "sleep"
  /\ UNCHANGED <<pc, msg, settings, queue, held, hand, exiting, written, pushed>>

\* wait gives the mutex back and sleeps, in one step.
WriterSleep ==
  /\ over = "no" /\ wpc = "sleep"
  /\ held' = FALSE /\ wpc' = "wait"
  /\ UNCHANGED <<pc, msg, settings, queue, hand, exiting, written, pushed>>

\* A spurious wake-up.
WriterWake ==
  /\ over = "no" /\ wpc = "wait" /\ wpc' = "lock"
  /\ UNCHANGED <<pc, msg, settings, queue, held, hand, exiting, written, pushed>>

\* The line goes to the file, or to stderr when the stream is in error.
WriterWrite ==
  /\ over = "no" /\ wpc = "write"
  /\ written' = written \o hand /\ hand' = <<>> /\ wpc' = "test"
  /\ UNCHANGED <<pc, msg, settings, queue, held, exiting, pushed>>

-----------------------------------------------------------------------------
(* Leaving the process *)

\* Logger's destructor: main's return, or std::exit of raise_critical_impl. The
\* flag is set without the mutex.
SetStop(t) ==
  /\ over = "no" /\ leaver = {} /\ pc[t] \in {"run", "fatal"}
  /\ leaver' = {t} /\ pc' = [pc EXCEPT ![t] = "stopping"]
  /\ stop' = TRUE /\ atStop' = Len(pushed)
  /\ UNCHANGED <<msg, settings, queue, writer, over, pushed>>

NotifyAll(t) ==
  /\ over = "no" /\ pc[t] = "stopping"
  /\ pc' = [pc EXCEPT ![t] = "joining"]
  /\ wpc' = Woken
  /\ UNCHANGED <<msg, settings, queue, held, hand, written, exiting, pushed>>

Join(t) ==
  /\ over = "no" /\ pc[t] = "joining" /\ wpc = "done"
  /\ over' = "exit"
  /\ UNCHANGED <<pc, msg, settings, queue, writer, stop, leaver, atStop, pushed>>

\* raise_crash_impl.
Abort(t) ==
  /\ over = "no" /\ pc[t] = "fatal"
  /\ over' = "abort"
  /\ UNCHANGED <<pc, msg, settings, queue, writer, stop, leaver, atStop, pushed>>

-----------------------------------------------------------------------------

ThreadStep(t) == Push(t) \/ Notify(t) \/ NotifyAll(t) \/ Join(t)

WriterStep == \/ WriterTest \/ WriterLock \/ WriterTake \/ WriterBreak
              \/ WriterFalse \/ WriterSleep \/ WriterWrite

Next ==
  \/ \E t \in Threads : \/ \E l \in Levels : Log(t, l)
                        \/ Configure(t) \/ ThreadStep(t) \/ SetStop(t) \/ Abort(t)
  \/ WriterStep \/ WriterWake

Spec == Init /\ [][Next]_vars

\* The scheduler runs the writer, and every thread that is inside log or the
\* destructor. Nobody has to log, to leave, or to be woken for no reason.
FairSpec == Spec /\ WF_vars(WriterStep) /\ \A t \in Threads : WF_vars(ThreadStep(t))

-----------------------------------------------------------------------------

\* The types of the logger's state.
TypeOK ==
  /\ pc \in [Threads -> {"run", "push", "notify", "fatal", "stopping", "joining"}]
  /\ msg \in [Threads -> Levels] /\ threshold \in Levels /\ enabled \in BOOLEAN
  /\ queue \in Seq(Levels) /\ held \in BOOLEAN
  /\ wpc \in {"test", "lock", "look", "sleep", "wait", "write", "done"}
  /\ hand \in Seq(Levels) /\ stop \in BOOLEAN /\ leaver \in SUBSET Threads
  /\ over \in {"no", "exit", "abort"}
  /\ written \in Seq(Levels)
  /\ pushed \in Seq(Levels) /\ atStop \in Nat

\* What was queued is, in order, what was written, what the writer has in hand
\* and what waits: no line is lost, doubled or overtaken (writerThreadFunc).
InOrder == pushed = written \o hand \o queue

\* A process that left through exit has written everything queued before the
\* destructor began ("以写线程 join 语义全量排空后退出", err.cpp).
Drained == over = "exit" => Len(written) >= atStop

\* The writer has a message in hand only while it writes it.
HandInv == wpc # "write" => hand = <<>>

\* writer_stop_ is set by the thread that leaves; a writer that is done has
\* written what was queued by then.
StopInv ==
  /\ stop <=> leaver # {}
  /\ stop => atStop <= Len(pushed)
  /\ wpc = "done" => stop /\ Len(written) >= atStop
  /\ over = "exit" => wpc = "done"

\* The inductive invariant behind InOrder and Drained (writerThreadFunc and
\* stopWriterThread together).
Inv == TypeOK /\ InOrder /\ HandInv /\ StopInv

\* A queued message is written before long, whenever the writer fell asleep,
\* unless the process ends (log's notify_one, the predicate of wait).
QueueEmpties == (queue # <<>>) ~> (queue = <<>> \/ over # "no")

\* The destructor comes to its end: the writer it joins notices writer_stop_
\* (stopWriterThread).
ExitEnds == stop ~> (over # "no")

=============================================================================
