-------------------------------- MODULE Logs --------------------------------
(***************************************************************************)
(* The log of one service (logs.rs): a ring buffer behind an async mutex,  *)
(* a Notify that wakes the readers, the task that copies the service's     *)
(* output pipe into it, the tasks that add beam-init's own messages, the   *)
(* streams behind `logs --follow`, and the main loop, which takes the same *)
(* mutex for `logs` (ServiceManager::copy_logs) and to log an automatic    *)
(* restart that failed, and which starts the service again.                *)
(*                                                                         *)
(* Tasks of the current_thread runtime interleave at their awaits only:    *)
(* lock().await, the pipe, notified().await and the yield of a stream.     *)
(***************************************************************************)
EXTENDS Naturals, Sequences, SequencesExt

CONSTANTS
    Readers,        \* streams of log_reader
    Loggers,        \* tasks that push one message at a time (probes, start_service)
    RetentionLines, \* log_retention_lines, the capacity of the ring buffer
    MaxLines,       \* bound: lines pushed in a behaviour
    MaxWriters      \* bound: times the service is started

VARIABLES
    entries,  \* RingBuffer::entries
    nextIdx,  \* RingBuffer::next_idx
    holder,   \* the stream that holds the mutex, as a set: none is {}
    waiters,  \* tasks in lock().await: tokio's mutex is fair, first in first out
    reader,   \* reader[r]: where the stream of r is
    pos,      \* pos[r]: RingBufferReader
    notified, \* readers whose notified() future is complete
    out,      \* out[r]: what r yielded last
    gen,      \* how many times new_writer was called
    writer,   \* writer[g]: where the task of the g-th call is
    logger,   \* logger[t]: where the message task t is
    main,     \* the main loop: "locking" in copy_logs, "pushing" a failure, or "idle"
    dropped,  \* the service is pruned
    log       \* every line pushed so far (history)

ringVars == <<entries, nextIdx, log>>
readerVars == <<reader, pos, out>>
vars == <<entries, nextIdx, holder, waiters, reader, pos, notified, out,
          gen, writer, logger, main, dropped, log>>

Writer(g) == [task |-> "writer", gen |-> g]
Reader(r) == [task |-> "reader", id |-> r]
Logger(t) == [task |-> "logger", id |-> t]
Main == [task |-> "main"]
Task == {Writer(g) : g \in 1..MaxWriters} \cup {Reader(r) : r \in Readers}
          \cup {Logger(t) : t \in Loggers} \cup {Main}

\* A line is known by the writer that pushed it; 0 is a message of beam-init's.
Lines == 0..MaxWriters

Stream == INSTANCE LogStream WITH
    Readers <- Readers, Lines <- Lines, log <- log, pos <- pos, out <- out

ASSUME LogsAssumption ==
    /\ RetentionLines \in Nat \ {0}
    /\ MaxLines \in Nat
    /\ MaxWriters \in Nat

TypeOK ==
    /\ entries \in Seq(Lines) /\ Len(entries) <= RetentionLines
    /\ nextIdx \in Nat
    /\ holder \in SUBSET Readers
    /\ waiters \in Seq(Task)
    /\ reader \in [Readers -> {"closed", "locking", "yielding", "waiting"}]
    /\ pos \in [Readers -> Nat]
    /\ notified \in SUBSET Readers
    /\ out \in [Readers -> {Stream!Lost, Stream!Nothing} \cup {Stream!Line(l) : l \in Lines}]
    /\ gen \in 0..MaxWriters
    /\ writer \in [0..MaxWriters -> {"none", "reading", "pushing", "closing"}]
    /\ logger \in [Loggers -> {"idle", "pushing"}]
    /\ main \in {"idle", "locking", "pushing"}
    /\ dropped \in BOOLEAN
    /\ log \in Seq(Lines)

-----------------------------------------------------------------------------
(* The ring buffer.                                                        *)

\* Mutant of RingPush: one entry too many is evicted when the buffer is full, and
\* the index does not tell.
RingPushEvictsTwo(l) ==
    /\ entries' = IF Len(entries) = RetentionLines THEN <<l>> ELSE Append(entries, l)
    /\ nextIdx' = IF Len(entries) = RetentionLines THEN nextIdx ELSE nextIdx + 1

\* Mutant of RingPush: nothing is evicted.
RingPushUnbounded(l) ==
    /\ entries' = Append(entries, l)
    /\ nextIdx' = nextIdx + 1

\* RingBuffer::push.
RingPush(l) ==
    LET all == Append(entries, l)
        excess == IF Len(all) > RetentionLines THEN Len(all) - RetentionLines ELSE 0
    IN /\ entries' = SubSeq(all, excess + 1, Len(all))
       /\ nextIdx' = nextIdx + 1

FirstIdx == nextIdx - Len(entries)

\* RingBuffer::get returns Empty.
NothingNew(r) == pos[r] >= nextIdx

\* Mutant of RingGet: a reader that fell behind goes on without being told.
RingGetSilently(r) ==
    LET at == IF pos[r] < FirstIdx THEN FirstIdx ELSE pos[r]
    IN /\ pos' = [pos EXCEPT ![r] = at + 1]
       /\ out' = [out EXCEPT ![r] = Stream!Line(entries[at - FirstIdx + 1])]

\* RingBuffer::get returns Lost or a Line.
RingGet(r) ==
    IF pos[r] < FirstIdx
    THEN /\ pos' = [pos EXCEPT ![r] = FirstIdx]
         /\ out' = [out EXCEPT ![r] = Stream!Lost]
    ELSE /\ pos' = [pos EXCEPT ![r] = @ + 1]
         /\ out' = [out EXCEPT ![r] = Stream!Line(entries[pos[r] - FirstIdx + 1])]

-----------------------------------------------------------------------------
(* The mutex and the Notify.                                               *)

Lock(t) == waiters' = Append(waiters, t)

\* The mutex is t's to take: it is free and t has waited longest.
MayEnter(t) ==
    /\ holder = {}
    /\ waiters # <<>>
    /\ t = Head(waiters)

\* The queue once t, or the future it waits in, is dropped: t gives up its place.
Left(t) == RemoveFirst(waiters, t)

\* Mutant of NotifyWaiters: notify_one.
NotifyOne ==
    LET parked == {r \in Readers \ notified : reader[r] = "waiting"}
    IN IF parked = {} THEN UNCHANGED notified
       ELSE \E r \in parked : notified' = notified \cup {r}

\* notify_waiters completes every notified() future there is, awaited or not.
NotifyWaiters == notified' = {r \in Readers : reader[r] # "closed"}

\* AsyncRingBuffer::push from its lock() on: no await up to notify_waiters.
Push(t, l) ==
    /\ MayEnter(t)
    /\ waiters' = Tail(waiters)
    /\ RingPush(l)
    /\ log' = Append(log, l)
    /\ NotifyWaiters
    /\ UNCHANGED <<holder, readerVars>>

\* The bound on lines, pushes under way included.
MayLog == Len(log) + Len(waiters) < MaxLines

-----------------------------------------------------------------------------
(* The writers.                                                            *)

\* Mutant of AbortHandle: the handle of the last writer was not kept.
AbortNothing == 0

\* The writer task abort_handle refers to: the one of the last new_writer, if any.
AbortHandle == gen

\* The new value of writer, and of waiters, once the old task is aborted.
AbortedWriter == [writer EXCEPT ![AbortHandle] = "none"]
AbortedWaiters == Left(Writer(AbortHandle))

\* start_service calls new_writer.
NewWriter ==
    /\ main = "idle"
    /\ ~dropped
    /\ gen < MaxWriters
    /\ gen' = gen + 1
    /\ writer' = [AbortedWriter EXCEPT ![gen + 1] = "reading"]
    /\ waiters' = AbortedWaiters
    /\ UNCHANGED <<ringVars, holder, readerVars, notified, logger, main, dropped>>

\* The service, or a process it passed the pipe to, wrote a line, or all of them
\* closed the pipe.
ReadPipe(g) ==
    /\ writer[g] = "reading"
    /\ MayLog
    /\ \E next \in {"pushing", "closing"} : writer' = [writer EXCEPT ![g] = next]
    /\ Lock(Writer(g))
    /\ UNCHANGED <<ringVars, holder, readerVars, notified, gen, logger, main, dropped>>

WriterPush(g) ==
    /\ Push(Writer(g), g)
    /\ writer' = [writer EXCEPT ![g] = IF @ = "closing" THEN "none" ELSE "reading"]
    /\ UNCHANGED <<gen, logger, main, dropped>>

\* A probe reports a failure, or start_service the pty: a push of its own.
LogMessage(t) ==
    /\ logger[t] = "idle"
    /\ MayLog
    /\ logger' = [logger EXCEPT ![t] = "pushing"]
    /\ Lock(Logger(t))
    /\ UNCHANGED <<ringVars, holder, readerVars, notified, gen, writer, main, dropped>>

LoggerPush(t) ==
    /\ Push(Logger(t), 0)
    /\ logger' = [logger EXCEPT ![t] = "idle"]
    /\ UNCHANGED <<gen, writer, main, dropped>>

-----------------------------------------------------------------------------
(* The streams of new_reader and their clients.                            *)

OpenReader(r) ==
    /\ main = "idle"
    /\ ~dropped
    /\ reader[r] = "closed"
    /\ reader' = [reader EXCEPT ![r] = "locking"]
    /\ pos' = [pos EXCEPT ![r] = 0]
    /\ out' = [out EXCEPT ![r] = Stream!Nothing]
    /\ notified' = notified \ {r}
    /\ Lock(Reader(r))
    /\ UNCHANGED <<ringVars, holder, gen, writer, logger, main, dropped>>

\* The stream has the mutex and finds nothing new: it releases the mutex and waits.
ReaderEmpty(r) ==
    /\ MayEnter(Reader(r))
    /\ NothingNew(r)
    /\ waiters' = Tail(waiters)
    /\ reader' = [reader EXCEPT ![r] = "waiting"]
    /\ UNCHANGED <<ringVars, holder, pos, out, notified, gen, writer, logger, main, dropped>>

\* It finds something and yields it.  The guard is a temporary of the match and so
\* lives on through the yield: the mutex stays locked until the client's connection
\* takes more of the stream.
ReaderYield(r) ==
    /\ MayEnter(Reader(r))
    /\ ~NothingNew(r)
    /\ waiters' = Tail(waiters)
    /\ holder' = {r}
    /\ RingGet(r)
    /\ reader' = [reader EXCEPT ![r] = "yielding"]
    /\ UNCHANGED <<ringVars, notified, gen, writer, logger, main, dropped>>

ClientTakes(r) ==
    /\ reader[r] = "yielding"
    /\ holder' = {}
    /\ reader' = [reader EXCEPT ![r] = "locking"]
    /\ Lock(Reader(r))
    /\ UNCHANGED <<ringVars, pos, out, notified, gen, writer, logger, main, dropped>>

ReaderWakes(r) ==
    /\ reader[r] = "waiting"
    /\ r \in notified
    /\ notified' = notified \ {r}
    /\ reader' = [reader EXCEPT ![r] = "locking"]
    /\ Lock(Reader(r))
    /\ UNCHANGED <<ringVars, holder, pos, out, gen, writer, logger, main, dropped>>

\* Mutant of ClientLeaves: the guard of a dropped stream is not released.
ClientLeavesLocked(r) ==
    /\ reader[r] # "closed"
    /\ reader' = [reader EXCEPT ![r] = "closed"]
    /\ notified' = notified \ {r}
    /\ waiters' = Left(Reader(r))
    /\ UNCHANGED <<ringVars, holder, pos, out, gen, writer, logger, main, dropped>>

\* The client disconnects: the stream is dropped wherever it is.
ClientLeaves(r) ==
    /\ reader[r] # "closed"
    /\ reader' = [reader EXCEPT ![r] = "closed"]
    /\ holder' = holder \ {r}
    /\ notified' = notified \ {r}
    /\ waiters' = Left(Reader(r))
    /\ UNCHANGED <<ringVars, pos, out, gen, writer, logger, main, dropped>>

-----------------------------------------------------------------------------
(* The main loop.                                                          *)

CopyLogs ==
    /\ main = "idle"
    /\ ~dropped
    /\ main' = "locking"
    /\ Lock(Main)
    /\ UNCHANGED <<ringVars, holder, readerVars, notified, gen, writer, logger, dropped>>

CopyLogsDone ==
    /\ main = "locking"
    /\ MayEnter(Main)
    /\ waiters' = Tail(waiters)
    /\ main' = "idle"
    /\ UNCHANGED <<ringVars, holder, readerVars, notified, gen, writer, logger, dropped>>

\* The event ProbeFailed is handled, and the service cannot be restarted.
RestartFails ==
    /\ main = "idle"
    /\ ~dropped
    /\ MayLog
    /\ main' = "pushing"
    /\ Lock(Main)
    /\ UNCHANGED <<ringVars, holder, readerVars, notified, gen, writer, logger, dropped>>

MainPush ==
    /\ main = "pushing"
    /\ Push(Main, 0)
    /\ main' = "idle"
    /\ UNCHANGED <<gen, writer, logger, dropped>>

\* The service is pruned: Drop for Logs.  Streams keep the buffer alive.
DropLogs ==
    /\ main = "idle"
    /\ ~dropped
    /\ dropped' = TRUE
    /\ writer' = AbortedWriter
    /\ waiters' = AbortedWaiters
    /\ UNCHANGED <<ringVars, holder, readerVars, notified, gen, logger, main>>

-----------------------------------------------------------------------------
Init ==
    /\ entries = <<>>
    /\ nextIdx = 0
    /\ holder = {}
    /\ waiters = <<>>
    /\ reader = [r \in Readers |-> "closed"]
    /\ pos = [r \in Readers |-> 0]
    /\ notified = {}
    /\ out = [r \in Readers |-> Stream!Nothing]
    /\ gen = 0
    /\ writer = [g \in 0..MaxWriters |-> "none"]
    /\ logger = [t \in Loggers |-> "idle"]
    /\ main = "idle"
    /\ dropped = FALSE
    /\ log = <<>>

\* Steps the runtime owes the tasks, whatever clients and services do.
Runtime ==
    \/ \E g \in 1..MaxWriters : WriterPush(g)
    \/ \E t \in Loggers : LoggerPush(t)
    \/ \E r \in Readers : ReaderEmpty(r) \/ ReaderYield(r) \/ ReaderWakes(r)
    \/ CopyLogsDone
    \/ MainPush

Next ==
    \/ Runtime
    \/ NewWriter
    \/ \E g \in 1..MaxWriters : ReadPipe(g)
    \/ \E t \in Loggers : LogMessage(t)
    \/ \E r \in Readers : OpenReader(r) \/ ClientTakes(r) \/ ClientLeaves(r)
    \/ CopyLogs
    \/ RestartFails
    \/ DropLogs

Spec == Init /\ [][Next]_vars

\* The runtime polls what is ready.  Clients owe nothing: one that stops reading its
\* connection stops its stream at the yield.
Fairness ==
    /\ \A g \in 1..MaxWriters : WF_vars(WriterPush(g))
    /\ \A t \in Loggers : WF_vars(LoggerPush(t))
    /\ \A r \in Readers : WF_vars(ReaderEmpty(r) \/ ReaderYield(r) \/ ReaderWakes(r))
    /\ WF_vars(CopyLogsDone \/ MainPush)

FairSpec == Spec /\ Fairness

\* Clients that keep reading.
ReadingClients == FairSpec /\ \A r \in Readers : WF_vars(ClientTakes(r))

-----------------------------------------------------------------------------
(* Properties.                                                             *)

\* The ring buffer is the tail of the list it emulates, whole up to its capacity,
\* and no reader is past its end (the debug_assert of RingBuffer::get).
RingIsTail ==
    /\ nextIdx = Len(log)
    /\ Len(entries) = IF Len(log) < RetentionLines THEN Len(log) ELSE RetentionLines
    /\ \A i \in 1..Len(entries) : entries[i] = log[FirstIdx + i]
    /\ \A r \in Readers : pos[r] <= nextIdx

\* No wake-up is lost: a reader that sleeps with a line it has not seen in the
\* buffer is about to be woken, although new_reader checks the buffer and waits for
\* the Notify in two steps.
NoLostWakeup ==
    \A r \in Readers : reader[r] = "waiting" /\ pos[r] < nextIdx => r \in notified

\* One incarnation of the service never writes into the log of the next, even when
\* it left its pipe to another process (the comment in new_writer).
SingleWriter ==
    \A i, j \in 1..Len(log) : i < j /\ log[i] # 0 /\ log[j] # 0 => log[i] <= log[j]

\* The log keeps the promise of LogStream: lines in order and once each, gaps told.
StreamSpec == Stream!Spec

\* A reader whose client keeps reading sees what is logged, or is told it is lost.
ReadersCatchUp ==
    \A r \in Readers :
        (reader[r] # "closed" /\ pos[r] < nextIdx) ~> (reader[r] = "closed" \/ pos[r] = nextIdx)

\* The main loop gets the mutex when it waits for one, and goes on: `logs` is answered, a
\* failed restart is logged, and SIGTERM is still seen.
LoopGoesOn == (main # "idle") ~> (main = "idle")
=============================================================================
