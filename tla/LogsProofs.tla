----------------------------- MODULE LogsProofs -----------------------------
(***************************************************************************)
(* Proofs, for every set of readers and message tasks, every retention and *)
(* every bound, of the type invariant and the safety properties of Logs,   *)
(* and that Logs implements LogStream.                                     *)
(***************************************************************************)
EXTENDS Logs, SequenceTheorems, TLAPS

-----------------------------------------------------------------------------
(* Queues in which everybody waits at most once.                           *)

InQueue(q, t) == \E i \in 1..Len(q) : q[i] = t
Distinct(q) == \A i, j \in 1..Len(q) : q[i] = q[j] => i = j

\* A task that begins to wait, and did not, waits once.
LEMMA AppendQueue ==
    ASSUME NEW S, NEW q \in Seq(S), Distinct(q), NEW t \in S, ~InQueue(q, t)
    PROVE  /\ Append(q, t) \in Seq(S)
           /\ Distinct(Append(q, t))
           /\ \A u : InQueue(Append(q, t), u) <=> InQueue(q, u) \/ u = t
  <1>1. /\ Append(q, t) \in Seq(S)
        /\ Len(Append(q, t)) = Len(q) + 1
        /\ \A i \in 1..Len(q) : Append(q, t)[i] = q[i]
        /\ Append(q, t)[Len(q) + 1] = t
    OBVIOUS
  <1>2. Distinct(Append(q, t))
    BY <1>1 DEF Distinct, InQueue
  <1>3. \A u : InQueue(Append(q, t), u) <=> InQueue(q, u) \/ u = t
    BY <1>1 DEF InQueue
  <1>4. QED
    BY <1>1, <1>2, <1>3

\* The first one gets the mutex, and nobody else leaves the queue.
LEMMA TailQueue ==
    ASSUME NEW S, NEW q \in Seq(S), Distinct(q), q # <<>>
    PROVE  /\ Tail(q) \in Seq(S)
           /\ Distinct(Tail(q))
           /\ InQueue(q, Head(q))
           /\ \A u : InQueue(Tail(q), u) <=> InQueue(q, u) /\ u # Head(q)
  <1>1. /\ Tail(q) \in Seq(S)
        /\ Len(q) \in Nat \ {0}
        /\ Len(Tail(q)) = Len(q) - 1
        /\ Head(q) = q[1]
        /\ \A i \in 1..Len(q) - 1 : Tail(q)[i] = q[i + 1]
    BY HeadTailProperties, EmptySeq
  <1>2. Distinct(Tail(q))
    BY <1>1 DEF Distinct
  <1>3. InQueue(q, Head(q))
    BY <1>1 DEF InQueue
  <1>4. ASSUME NEW u, InQueue(Tail(q), u)
        PROVE  InQueue(q, u) /\ u # Head(q)
    BY <1>1, <1>4 DEF InQueue, Distinct
  <1>5. ASSUME NEW u, InQueue(q, u), u # Head(q)
        PROVE  InQueue(Tail(q), u)
    <2>1. PICK i \in 1..Len(q) : q[i] = u
      BY <1>5 DEF InQueue
    <2>2. i - 1 \in 1..Len(q) - 1 /\ Tail(q)[i - 1] = u
      BY <1>1, <1>5, <2>1
    <2>3. QED
      BY <1>1, <2>2 DEF InQueue
  <1>6. QED
    BY <1>1, <1>2, <1>3, <1>4, <1>5

\* One that is dropped leaves the queue wherever it is, and nobody else does.
LEMMA RemoveQueue ==
    ASSUME NEW S, NEW q \in Seq(S), Distinct(q), NEW t
    PROVE  /\ RemoveFirst(q, t) \in Seq(S)
           /\ Distinct(RemoveFirst(q, t))
           /\ \A u : InQueue(RemoveFirst(q, t), u) <=> InQueue(q, u) /\ u # t
  <1>1. CASE ~InQueue(q, t)
    BY <1>1 DEF RemoveFirst, InQueue
  <1>2. CASE InQueue(q, t)
    <2>1. PICK k \in 1..Len(q) : q[k] = t
      BY <1>2 DEF InQueue
    <2>2. RemoveFirst(q, t) = RemoveAt(q, k)
      <3>1. {i \in 1..Len(q) : q[i] = t} = {k}
        BY <2>1 DEF Distinct
      <3>2. SelectInSeq(q, LAMBDA v : v = t) = k
        BY <3>1 DEF SelectInSeq, Min
      <3>3. QED
        BY <2>1, <3>2 DEF RemoveFirst
    <2> DEFINE before == SubSeq(q, 1, k - 1)
               after == SubSeq(q, k + 1, Len(q))
               rest == RemoveAt(q, k)
    <2>3. /\ before \in Seq(S) /\ Len(before) = k - 1
          /\ \A i \in 1..k - 1 : before[i] = q[i]
      BY SubSeqProperties
    <2>4. /\ after \in Seq(S) /\ Len(after) = Len(q) - k
          /\ \A i \in 1..Len(q) - k : after[i] = q[k + i]
      BY SubSeqProperties
    <2>5. rest = before \o after
      BY DEF RemoveAt
    <2> HIDE DEF before, after, rest
    <2>6. /\ rest \in Seq(S)
          /\ Len(rest) = Len(q) - 1
          /\ \A i \in 1..Len(q) - 1 : rest[i] = IF i < k THEN q[i] ELSE q[i + 1]
      <3>1. /\ rest \in Seq(S)
            /\ Len(rest) = Len(before) + Len(after)
            /\ \A i \in 1..Len(before) + Len(after) :
                 rest[i] = IF i <= Len(before) THEN before[i] ELSE after[i - Len(before)]
        BY <2>3, <2>4, <2>5, ConcatProperties
      <3>2. Len(rest) = Len(q) - 1
        BY <2>3, <2>4, <3>1
      <3>3. ASSUME NEW i \in 1..Len(q) - 1
            PROVE  rest[i] = IF i < k THEN q[i] ELSE q[i + 1]
        <4>1. CASE i < k
          <5>1. i \in 1..k - 1 /\ i <= Len(before) /\ i \in 1..Len(before) + Len(after)
            BY <2>3, <2>4, <4>1
          <5>2. rest[i] = before[i]
            BY <3>1, <5>1
          <5>3. QED
            BY <2>3, <4>1, <5>1, <5>2
        <4>2. CASE i >= k
          <5>1. i - (k - 1) \in 1..Len(q) - k /\ k + (i - (k - 1)) = i + 1
            BY <4>2
          <5>2. rest[i] = after[i - (k - 1)]
            BY <2>3, <2>4, <3>1, <4>2, SMTT(30)
          <5>3. QED
            BY <2>4, <4>2, <5>1, <5>2, SMTT(30)
        <4>3. QED
          BY <4>1, <4>2
      <3>4. QED
        BY <3>1, <3>2, <3>3
    <2>7. Distinct(rest)
      BY <2>6, SMTT(30) DEF Distinct
    <2>8. ASSUME NEW u, InQueue(rest, u)
          PROVE  InQueue(q, u) /\ u # t
      BY <2>1, <2>6, <2>8 DEF InQueue, Distinct
    <2>9. ASSUME NEW u, InQueue(q, u), u # t
          PROVE  InQueue(rest, u)
      <3>1. PICK i \in 1..Len(q) : q[i] = u
        BY <2>9 DEF InQueue
      <3>2. CASE i < k
        BY <3>1, <3>2, <2>6 DEF InQueue
      <3>3. CASE i > k
        <4>1. i - 1 \in 1..Len(q) - 1 /\ rest[i - 1] = u
          BY <3>1, <3>3, <2>6
        <4>2. QED
          BY <4>1, <2>6 DEF InQueue
      <3>4. QED
        BY <3>1, <3>2, <3>3, <2>1, <2>9
    <2>10. QED
      BY <2>2, <2>6, <2>7, <2>8, <2>9 DEF rest
  <1>3. QED
    BY <1>1, <1>2

-----------------------------------------------------------------------------
(* The inductive invariant.                                                *)

\* The queue of the mutex: the tasks that wait in lock().await, each of them once.
QueueInv ==
    /\ Distinct(waiters)
    /\ \A r \in Readers : InQueue(waiters, Reader(r)) <=> reader[r] = "locking"
    /\ \A g \in 1..MaxWriters : InQueue(waiters, Writer(g)) <=> writer[g] \in {"pushing", "closing"}
    /\ \A t \in Loggers : InQueue(waiters, Logger(t)) <=> logger[t] = "pushing"
    /\ InQueue(waiters, Main) <=> main # "idle"

\* The mutex is held by the one stream that stands at its yield, if any does.
MutexInv ==
    /\ \A r \in Readers : r \in holder <=> reader[r] = "yielding"
    /\ \A r, s \in holder : r = s

\* The only writer task there is belongs to the last new_writer, and nobody has written
\* for a later one.
WriterInv ==
    /\ \A g \in 0..MaxWriters : writer[g] # "none" => g = gen /\ g > 0
    /\ \A i \in 1..Len(log) : log[i] <= gen

LogsInv ==
    /\ TypeOK
    /\ QueueInv
    /\ MutexInv
    /\ WriterInv
    /\ RingIsTail
    /\ NoLostWakeup
    /\ SingleWriter

-----------------------------------------------------------------------------
(* Facts about the operators.                                              *)

\* Tasks are told apart.
LEMMA TaskFacts ==
    /\ Main \in Task
    /\ \A r \in Readers : Reader(r) \in Task
    /\ \A g \in 1..MaxWriters : Writer(g) \in Task
    /\ \A t \in Loggers : Logger(t) \in Task
    /\ \A x, y : /\ Reader(x) = Reader(y) => x = y
                 /\ Writer(x) = Writer(y) => x = y
                 /\ Logger(x) = Logger(y) => x = y
                 /\ Reader(x) # Writer(y) /\ Reader(x) # Logger(y) /\ Writer(x) # Logger(y)
                 /\ Reader(x) # Main /\ Writer(x) # Main /\ Logger(x) # Main
  BY DEF Main, Reader, Writer, Logger, Task

\* What lock().await, getting the mutex and being dropped do to the queue.
LEMMA LockFacts ==
    ASSUME TypeOK, Distinct(waiters), NEW t \in Task, Lock(t), ~InQueue(waiters, t)
    PROVE  /\ waiters' \in Seq(Task)
           /\ Distinct(waiters')
           /\ \A u : InQueue(waiters', u) <=> InQueue(waiters, u) \/ u = t
  BY AppendQueue DEF TypeOK, Lock

\* A task that enters the lock is the only one to leave the queue.
LEMMA EnterFacts ==
    ASSUME TypeOK, Distinct(waiters), NEW t, MayEnter(t), waiters' = Tail(waiters)
    PROVE  /\ InQueue(waiters, t)
           /\ waiters' \in Seq(Task)
           /\ Distinct(waiters')
           /\ \A u : InQueue(waiters', u) <=> InQueue(waiters, u) /\ u # t
  BY TailQueue DEF TypeOK, MayEnter

\* A task that gives up leaves the queue, and nobody else does.
LEMMA LeftFacts ==
    ASSUME TypeOK, Distinct(waiters), NEW t, waiters' = Left(t)
    PROVE  /\ waiters' \in Seq(Task)
           /\ Distinct(waiters')
           /\ \A u : InQueue(waiters', u) <=> InQueue(waiters, u) /\ u # t
  BY RemoveQueue DEF TypeOK, Left

\* RingBuffer::push: the buffer stays the tail of the log.
Pushed(l) == RingPush(l) /\ log' = Append(log, l)

\* A line pushed: the buffer is the tail of one more line.
LEMMA PushFacts ==
    ASSUME TypeOK, RingIsTail, NEW l \in Lines, Pushed(l)
    PROVE  /\ entries' \in Seq(Lines) /\ Len(entries') <= RetentionLines
           /\ log' \in Seq(Lines)
           /\ nextIdx' = Len(log')
           /\ Len(entries') = IF Len(log') < RetentionLines THEN Len(log') ELSE RetentionLines
           /\ \A i \in 1..Len(entries') : entries'[i] = log'[nextIdx' - Len(entries') + i]
  <1> DEFINE all == Append(entries, l)
             excess == IF Len(all) > RetentionLines THEN Len(all) - RetentionLines ELSE 0
  <1>0. entries' = SubSeq(all, excess + 1, Len(all))
    BY DEF RingPush, Pushed
  <1>1. /\ all \in Seq(Lines) /\ Len(all) = Len(entries) + 1
        /\ \A i \in 1..Len(entries) : all[i] = entries[i]
        /\ all[Len(entries) + 1] = l
    BY DEF TypeOK
  <1>2. /\ log' \in Seq(Lines) /\ Len(log') = Len(log) + 1
        /\ \A i \in 1..Len(log) : log'[i] = log[i]
        /\ log'[Len(log) + 1] = l
    BY DEF TypeOK, Pushed
  <1>3. /\ Len(entries) \in Nat /\ Len(log) \in Nat /\ RetentionLines \in Nat \ {0}
        /\ nextIdx = Len(log) /\ nextIdx' = Len(log) + 1
        /\ Len(entries) = IF Len(log) < RetentionLines THEN Len(log) ELSE RetentionLines
        /\ \A i \in 1..Len(entries) : entries[i] = log[Len(log) - Len(entries) + i]
    BY LogsAssumption DEF TypeOK, RingIsTail, FirstIdx, RingPush, Pushed
  <1> HIDE DEF all, excess
  <1>4. CASE Len(entries) < RetentionLines
    <2>1. entries' = SubSeq(all, 1, Len(all))
      <3>1. excess = 0
        BY <1>1, <1>3, <1>4 DEF excess
      <3>2. QED
        BY <3>1, <1>0
    <2>2. /\ entries' \in Seq(Lines) /\ Len(entries') = Len(entries) + 1
          /\ \A i \in 1..Len(entries) + 1 : entries'[i] = all[i]
      BY <1>1, <1>3, <2>1, SubSeqProperties
    <2>3. Len(entries) = Len(log)
      BY <1>3, <1>4
    <2>4. \A i \in 1..Len(log) + 1 : entries'[i] = log'[i]
      <3> SUFFICES ASSUME NEW i \in 1..Len(log) + 1
                   PROVE  entries'[i] = log'[i]
        OBVIOUS
      <3>1. CASE i = Len(log) + 1
        BY <1>1, <1>2, <1>3, <2>2, <2>3, <3>1
      <3>2. CASE i \in 1..Len(log)
        <4>1. /\ i \in 1..Len(entries) /\ i \in 1..Len(entries) + 1
              /\ Len(log) - Len(entries) + i = i
          BY <1>3, <2>3, <3>2
        <4>2. entries'[i] = entries[i] /\ entries[i] = log[i]
          BY <1>1, <1>3, <2>2, <4>1
        <4>3. QED
          BY <1>2, <3>2, <4>2
      <3>3. QED
        BY <1>3, <3>1, <3>2
    <2>5. /\ Len(log) \in Nat /\ nextIdx' = Len(log) + 1
          /\ Len(entries') = Len(log) + 1 /\ Len(log') = Len(log) + 1
      BY <1>2, <1>3, <2>2, <2>3
    <2>6. \A i \in 1..Len(entries') : entries'[i] = log'[nextIdx' - Len(entries') + i]
      BY <2>4, <2>5
    <2>7. Len(log) + 1 <= RetentionLines
      BY <1>3, <1>4, <2>3
    <2>8. /\ Len(entries') <= RetentionLines
          /\ Len(entries') = IF Len(log') < RetentionLines THEN Len(log') ELSE RetentionLines
      BY <2>5, <2>7, LogsAssumption
    <2>9. QED
      BY <1>2, <2>2, <2>5, <2>6, <2>8
  <1>5. CASE Len(entries) = RetentionLines
    <2>1. entries' = SubSeq(all, 2, Len(all))
      <3>1. excess = 1
        BY <1>1, <1>3, <1>5 DEF excess
      <3>2. QED
        BY <3>1, <1>0
    <2>2. \A i \in 2..Len(all) : all[i] \in Lines
      BY <1>1
    <2>3. /\ entries' \in Seq(Lines) /\ Len(entries') = RetentionLines
          /\ \A i \in 1..RetentionLines : entries'[i] = all[i + 1]
      BY <1>1, <1>3, <1>5, <2>1, <2>2, SubSeqProperties
    <2>4. \A i \in 1..RetentionLines : entries'[i] = log'[Len(log) + 1 - RetentionLines + i]
      <3> SUFFICES ASSUME NEW i \in 1..RetentionLines
                   PROVE  entries'[i] = log'[Len(log) + 1 - RetentionLines + i]
        OBVIOUS
      <3>1. CASE i = RetentionLines
        BY <1>1, <1>2, <1>3, <1>5, <2>3, <3>1
      <3>2. CASE i < RetentionLines
        <4>1. i + 1 \in 1..Len(entries) /\ Len(log) - RetentionLines + (i + 1) \in 1..Len(log)
          BY <1>3, <1>5, <3>2
        <4>2. entries'[i] = log[Len(log) - RetentionLines + (i + 1)]
          BY <1>1, <1>3, <1>5, <2>3, <4>1
        <4>3. QED
          BY <1>2, <1>3, <4>1, <4>2
      <3>3. QED
        BY <1>3, <3>1, <3>2
    <2>5. QED
      BY <1>2, <1>3, <1>5, <2>3, <2>4
  <1>6. QED
    BY <1>3, <1>4, <1>5

\* RingBuffer::get: the reader is handed the next line of the log, or told that it lost
\* some and moved to one that is still there.
LEMMA GetFacts ==
    ASSUME TypeOK, RingIsTail, NEW r \in Readers, ~NothingNew(r), RingGet(r)
    PROVE  \/ /\ pos[r] < Len(log) /\ log[pos[r] + 1] \in Lines
              /\ pos' = [pos EXCEPT ![r] = @ + 1]
              /\ out' = [out EXCEPT ![r] = Stream!Line(log[pos[r] + 1])]
           \/ /\ FirstIdx \in pos[r] + 1..Len(log)
              /\ pos' = [pos EXCEPT ![r] = FirstIdx]
              /\ out' = [out EXCEPT ![r] = Stream!Lost]
  <1>1. /\ Len(entries) \in Nat /\ Len(log) \in Nat /\ pos[r] \in Nat
        /\ nextIdx = Len(log) /\ pos[r] < Len(log) /\ Len(entries) <= Len(log)
        /\ FirstIdx = Len(log) - Len(entries)
    BY LogsAssumption DEF TypeOK, RingIsTail, NothingNew, FirstIdx
  <1>2. CASE pos[r] < FirstIdx
    BY <1>1, <1>2 DEF RingGet
  <1>3. CASE ~(pos[r] < FirstIdx)
    <2>1. /\ pos[r] - FirstIdx + 1 \in 1..Len(entries)
          /\ FirstIdx + (pos[r] - FirstIdx + 1) = pos[r] + 1
      BY <1>1, <1>3
    <2>2. entries[pos[r] - FirstIdx + 1] = log[pos[r] + 1]
      BY <2>1 DEF RingIsTail
    <2>3. log[pos[r] + 1] \in Lines
      BY <1>1 DEF TypeOK
    <2>4. QED
      BY <1>1, <1>3, <2>2, <2>3 DEF RingGet
  <1>4. QED
    BY <1>2, <1>3

-----------------------------------------------------------------------------
(* Every step preserves the invariant.                                     *)

\* The queue holds exactly the tasks that wait for the mutex: a task that asks did not wait
\* before, the one that gets the mutex is the first, one that is dropped gives up its place.
LEMMA QueueStep ==
    ASSUME LogsInv, [Next]_vars
    PROVE  waiters' \in Seq(Task) /\ QueueInv'
  <1> USE DEF LogsInv
  <1>1. ASSUME NEW g \in 1..MaxWriters, WriterPush(g)
        PROVE  waiters' \in Seq(Task) /\ QueueInv'
    <2>1. /\ waiters' \in Seq(Task) /\ Distinct(waiters')
          /\ \A u : InQueue(waiters', u) <=> InQueue(waiters, u) /\ u # Writer(g)
      BY <1>1, EnterFacts DEF QueueInv, WriterPush, Push, readerVars
    <2>2. \A h \in 1..MaxWriters :
             writer'[h] \in {"pushing", "closing"} <=>
               writer[h] \in {"pushing", "closing"} /\ h # g
      BY <1>1, LogsAssumption DEF TypeOK, WriterInv, WriterPush, Push, readerVars
    <2>3. UNCHANGED <<reader, logger, main>>
      BY <1>1 DEF WriterPush, Push, readerVars
    <2>4. QED
      BY <2>1, <2>2, <2>3, TaskFacts, ZenonT(60) DEF QueueInv
  <1>2. ASSUME NEW t \in Loggers, LoggerPush(t)
        PROVE  waiters' \in Seq(Task) /\ QueueInv'
    <2>1. /\ waiters' \in Seq(Task) /\ Distinct(waiters')
          /\ \A u : InQueue(waiters', u) <=> InQueue(waiters, u) /\ u # Logger(t)
      BY <1>2, EnterFacts DEF QueueInv, LoggerPush, Push, readerVars
    <2>2. QED
      BY <1>2, <2>1, TaskFacts DEF QueueInv, TypeOK, LoggerPush, Push, readerVars
  <1>3. ASSUME NEW r \in Readers, ReaderEmpty(r)
        PROVE  waiters' \in Seq(Task) /\ QueueInv'
    <2>1. /\ waiters' \in Seq(Task) /\ Distinct(waiters')
          /\ \A u : InQueue(waiters', u) <=> InQueue(waiters, u) /\ u # Reader(r)
      BY <1>3, EnterFacts DEF QueueInv, ReaderEmpty
    <2>2. QED
      BY <1>3, <2>1, TaskFacts DEF QueueInv, TypeOK, ReaderEmpty
  <1>4. ASSUME NEW r \in Readers, ReaderYield(r)
        PROVE  waiters' \in Seq(Task) /\ QueueInv'
    <2>1. /\ waiters' \in Seq(Task) /\ Distinct(waiters')
          /\ \A u : InQueue(waiters', u) <=> InQueue(waiters, u) /\ u # Reader(r)
      BY <1>4, EnterFacts DEF QueueInv, ReaderYield
    <2>2. QED
      BY <1>4, <2>1, TaskFacts DEF QueueInv, TypeOK, ReaderYield
  <1>5. ASSUME NEW r \in Readers, ReaderWakes(r)
        PROVE  waiters' \in Seq(Task) /\ QueueInv'
    <2>1. /\ waiters' \in Seq(Task) /\ Distinct(waiters')
          /\ \A u : InQueue(waiters', u) <=> InQueue(waiters, u) \/ u = Reader(r)
      BY <1>5, LockFacts, TaskFacts DEF QueueInv, ReaderWakes
    <2>2. QED
      BY <1>5, <2>1, TaskFacts DEF QueueInv, TypeOK, ReaderWakes
  <1>6. CASE CopyLogsDone
    <2>1. /\ waiters' \in Seq(Task) /\ Distinct(waiters')
          /\ \A u : InQueue(waiters', u) <=> InQueue(waiters, u) /\ u # Main
      BY <1>6, EnterFacts DEF QueueInv, CopyLogsDone, readerVars
    <2>2. QED
      BY <1>6, <2>1, TaskFacts DEF QueueInv, TypeOK, CopyLogsDone, readerVars
  <1>7. CASE NewWriter
    <2>1. /\ waiters' \in Seq(Task) /\ Distinct(waiters')
          /\ \A u : InQueue(waiters', u) <=> InQueue(waiters, u) /\ u # Writer(gen)
      BY <1>7, LeftFacts
      DEF QueueInv, NewWriter, AbortedWaiters, AbortedWriter, AbortHandle, readerVars
    <2>2. \A h \in 1..MaxWriters :
             writer'[h] \in {"pushing", "closing"} <=>
               writer[h] \in {"pushing", "closing"} /\ h # gen
      BY <1>7, LogsAssumption
      DEF TypeOK, WriterInv, NewWriter, AbortedWaiters, AbortedWriter, AbortHandle, readerVars
    <2>3. UNCHANGED <<reader, logger, main>>
      BY <1>7 DEF NewWriter, AbortedWaiters, AbortedWriter, AbortHandle, readerVars
    <2>4. QED
      BY <2>1, <2>2, <2>3, TaskFacts, ZenonT(60) DEF QueueInv
  <1>8. ASSUME NEW g \in 1..MaxWriters, ReadPipe(g)
        PROVE  waiters' \in Seq(Task) /\ QueueInv'
    <2>1. /\ waiters' \in Seq(Task) /\ Distinct(waiters')
          /\ \A u : InQueue(waiters', u) <=> InQueue(waiters, u) \/ u = Writer(g)
      BY <1>8, LockFacts, TaskFacts DEF QueueInv, ReadPipe, readerVars
    <2>2. \A h \in 1..MaxWriters :
             writer'[h] \in {"pushing", "closing"} <=> writer[h] \in {"pushing", "closing"} \/ h = g
      BY <1>8, LogsAssumption DEF TypeOK, WriterInv, ReadPipe, readerVars
    <2>3. UNCHANGED <<reader, logger, main>>
      BY <1>8 DEF ReadPipe, readerVars
    <2>4. QED
      BY <2>1, <2>2, <2>3, TaskFacts DEF QueueInv
  <1>9. ASSUME NEW t \in Loggers, LogMessage(t)
        PROVE  waiters' \in Seq(Task) /\ QueueInv'
    <2>1. /\ waiters' \in Seq(Task) /\ Distinct(waiters')
          /\ \A u : InQueue(waiters', u) <=> InQueue(waiters, u) \/ u = Logger(t)
      BY <1>9, LockFacts, TaskFacts DEF QueueInv, LogMessage, readerVars
    <2>2. QED
      BY <1>9, <2>1, TaskFacts, ZenonT(60) DEF QueueInv, TypeOK, LogMessage, readerVars
  <1>10. ASSUME NEW r \in Readers, OpenReader(r)
        PROVE  waiters' \in Seq(Task) /\ QueueInv'
    <2>1. /\ waiters' \in Seq(Task) /\ Distinct(waiters')
          /\ \A u : InQueue(waiters', u) <=> InQueue(waiters, u) \/ u = Reader(r)
      BY <1>10, LockFacts, TaskFacts DEF QueueInv, OpenReader
    <2>2. QED
      BY <1>10, <2>1, TaskFacts DEF QueueInv, TypeOK, OpenReader
  <1>11. ASSUME NEW r \in Readers, ClientTakes(r)
        PROVE  waiters' \in Seq(Task) /\ QueueInv'
    <2>1. /\ waiters' \in Seq(Task) /\ Distinct(waiters')
          /\ \A u : InQueue(waiters', u) <=> InQueue(waiters, u) \/ u = Reader(r)
      BY <1>11, LockFacts, TaskFacts DEF QueueInv, ClientTakes
    <2>2. QED
      BY <1>11, <2>1, TaskFacts DEF QueueInv, TypeOK, ClientTakes
  <1>12. ASSUME NEW r \in Readers, ClientLeaves(r)
        PROVE  waiters' \in Seq(Task) /\ QueueInv'
    <2>1. /\ waiters' \in Seq(Task) /\ Distinct(waiters')
          /\ \A u : InQueue(waiters', u) <=> InQueue(waiters, u) /\ u # Reader(r)
      BY <1>12, LeftFacts DEF QueueInv, ClientLeaves
    <2>2. QED
      BY <1>12, <2>1, TaskFacts DEF QueueInv, TypeOK, ClientLeaves
  <1>13. CASE CopyLogs
    <2>1. /\ waiters' \in Seq(Task) /\ Distinct(waiters')
          /\ \A u : InQueue(waiters', u) <=> InQueue(waiters, u) \/ u = Main
      BY <1>13, LockFacts, TaskFacts DEF QueueInv, CopyLogs, readerVars
    <2>2. QED
      BY <1>13, <2>1, TaskFacts DEF QueueInv, TypeOK, CopyLogs, readerVars
  <1>14. CASE DropLogs
    <2>1. /\ waiters' \in Seq(Task) /\ Distinct(waiters')
          /\ \A u : InQueue(waiters', u) <=> InQueue(waiters, u) /\ u # Writer(gen)
      BY <1>14, LeftFacts
      DEF QueueInv, DropLogs, AbortedWaiters, AbortedWriter, AbortHandle, readerVars
    <2>2. \A h \in 1..MaxWriters :
             writer'[h] \in {"pushing", "closing"} <=>
               writer[h] \in {"pushing", "closing"} /\ h # gen
      BY <1>14, LogsAssumption
      DEF TypeOK, WriterInv, DropLogs, AbortedWaiters, AbortedWriter, AbortHandle, readerVars
    <2>3. UNCHANGED <<reader, logger, main>>
      BY <1>14 DEF DropLogs, AbortedWaiters, AbortedWriter, AbortHandle, readerVars
    <2>4. QED
      BY <2>1, <2>2, <2>3, TaskFacts, ZenonT(60) DEF QueueInv
  <1>15. CASE UNCHANGED vars
    BY <1>15 DEF vars, TypeOK, QueueInv
  <1>16. CASE RestartFails
    <2>1. /\ waiters' \in Seq(Task) /\ Distinct(waiters')
          /\ \A u : InQueue(waiters', u) <=> InQueue(waiters, u) \/ u = Main
      BY <1>16, LockFacts, TaskFacts DEF QueueInv, RestartFails, readerVars
    <2>2. QED
      BY <1>16, <2>1, TaskFacts DEF QueueInv, TypeOK, RestartFails, readerVars
  <1>17. CASE MainPush
    <2>1. /\ waiters' \in Seq(Task) /\ Distinct(waiters')
          /\ \A u : InQueue(waiters', u) <=> InQueue(waiters, u) /\ u # Main
      BY <1>17, EnterFacts DEF QueueInv, MainPush, Push, readerVars
    <2>2. QED
      BY <1>17, <2>1, TaskFacts DEF QueueInv, TypeOK, MainPush, Push, readerVars
  <1>18. QED
    BY <1>1, <1>2, <1>3, <1>4, <1>5, <1>6, <1>7, <1>8,
       <1>9, <1>10, <1>11, <1>12, <1>13, <1>14, <1>15, <1>16, <1>17 DEF Next, Runtime

\* Types: what is pushed into the buffer is a line, and so is what a reader is handed.
LEMMA TypeStep ==
    ASSUME LogsInv, [Next]_vars
    PROVE  TypeOK'
  <1> USE DEF LogsInv
  <1>0. waiters' \in Seq(Task)
    BY QueueStep
  <1>1. ASSUME NEW g \in 1..MaxWriters, WriterPush(g)
        PROVE  TypeOK'
    <2>1. entries' \in Seq(Lines) /\ Len(entries') <= RetentionLines /\ log' \in Seq(Lines)
      BY <1>1, PushFacts, LogsAssumption DEF Pushed, WriterPush, Push, Lines
    <2>2. nextIdx' \in Nat
      BY <1>1 DEF WriterPush, Push, RingPush, TypeOK
    <2>3. notified' \in SUBSET Readers
      BY <1>1 DEF WriterPush, Push, NotifyWaiters
    <2>4. QED
      BY <1>1, <1>0, <2>1, <2>2, <2>3, LogsAssumption DEF TypeOK, WriterPush, Push, readerVars
  <1>2. ASSUME NEW t \in Loggers, LoggerPush(t)
        PROVE  TypeOK'
    <2>1. entries' \in Seq(Lines) /\ Len(entries') <= RetentionLines /\ log' \in Seq(Lines)
      BY <1>2, PushFacts, LogsAssumption DEF Pushed, LoggerPush, Push, Lines
    <2>2. nextIdx' \in Nat
      BY <1>2 DEF LoggerPush, Push, RingPush, TypeOK
    <2>3. notified' \in SUBSET Readers
      BY <1>2 DEF LoggerPush, Push, NotifyWaiters
    <2>4. QED
      BY <1>2, <1>0, <2>1, <2>2, <2>3, LogsAssumption DEF TypeOK, LoggerPush, Push, readerVars
  <1>3. ASSUME NEW r \in Readers, ReaderEmpty(r)
        PROVE  TypeOK'
    BY <1>3, <1>0 DEF ReaderEmpty, ringVars, TypeOK
  <1>4. ASSUME NEW r \in Readers, ReaderYield(r)
        PROVE  TypeOK'
    <2>1. PICK n \in Nat, o \in {Stream!Lost} \cup {Stream!Line(l) : l \in Lines} :
            pos' = [pos EXCEPT ![r] = n] /\ out' = [out EXCEPT ![r] = o]
      <3>1. RingGet(r) /\ ~NothingNew(r) /\ pos[r] \in Nat /\ Len(log) \in Nat
        BY <1>4 DEF ReaderYield, TypeOK
      <3>2. CASE /\ log[pos[r] + 1] \in Lines
                 /\ pos' = [pos EXCEPT ![r] = @ + 1]
                 /\ out' = [out EXCEPT ![r] = Stream!Line(log[pos[r] + 1])]
        <4>1. /\ pos[r] + 1 \in Nat
              /\ Stream!Line(log[pos[r] + 1]) \in {Stream!Lost} \cup {Stream!Line(l) : l \in Lines}
          BY <3>1, <3>2
        <4>2. QED
          BY <3>2, <4>1
      <3>3. CASE /\ FirstIdx \in pos[r] + 1..Len(log)
                 /\ pos' = [pos EXCEPT ![r] = FirstIdx]
                 /\ out' = [out EXCEPT ![r] = Stream!Lost]
        <4>1. FirstIdx \in Nat
          BY <3>1, <3>3
        <4>2. QED
          BY <3>3, <4>1
      <3>4. QED
        BY <3>1, <3>2, <3>3, GetFacts
    <2>2. QED
      BY <1>4, <1>0, <2>1 DEF ReaderYield, TypeOK, ringVars
  <1>5. ASSUME NEW r \in Readers, ReaderWakes(r)
        PROVE  TypeOK'
    BY <1>5, <1>0 DEF ReaderWakes, ringVars, TypeOK
  <1>6. CASE CopyLogsDone
    BY <1>6, <1>0 DEF CopyLogsDone, readerVars, ringVars, TypeOK
  <1>7. CASE NewWriter
    BY <1>7, <1>0, LogsAssumption
    DEF NewWriter, AbortedWriter, AbortHandle, readerVars, ringVars, TypeOK
  <1>8. ASSUME NEW g \in 1..MaxWriters, ReadPipe(g)
        PROVE  TypeOK'
    BY <1>8, <1>0, LogsAssumption DEF ReadPipe, readerVars, ringVars, TypeOK
  <1>9. ASSUME NEW t \in Loggers, LogMessage(t)
        PROVE  TypeOK'
    BY <1>9, <1>0 DEF LogMessage, readerVars, ringVars, TypeOK
  <1>10. ASSUME NEW r \in Readers, OpenReader(r)
        PROVE  TypeOK'
    BY <1>10, <1>0 DEF OpenReader, ringVars, TypeOK
  <1>11. ASSUME NEW r \in Readers, ClientTakes(r)
        PROVE  TypeOK'
    BY <1>11, <1>0 DEF ClientTakes, ringVars, TypeOK
  <1>12. ASSUME NEW r \in Readers, ClientLeaves(r)
        PROVE  TypeOK'
    BY <1>12, <1>0 DEF ClientLeaves, ringVars, TypeOK
  <1>13. CASE CopyLogs
    BY <1>13, <1>0 DEF CopyLogs, readerVars, ringVars, TypeOK
  <1>14. CASE DropLogs
    BY <1>14, <1>0, LogsAssumption
    DEF DropLogs, AbortedWriter, AbortHandle, readerVars, ringVars, TypeOK
  <1>15. CASE UNCHANGED vars
    BY <1>15 DEF vars, TypeOK
  <1>16. CASE RestartFails
    BY <1>16, <1>0 DEF RestartFails, readerVars, ringVars, TypeOK
  <1>17. CASE MainPush
    <2>1. entries' \in Seq(Lines) /\ Len(entries') <= RetentionLines /\ log' \in Seq(Lines)
      BY <1>17, PushFacts, LogsAssumption DEF Pushed, MainPush, Push, Lines
    <2>2. nextIdx' \in Nat
      BY <1>17 DEF MainPush, Push, RingPush, TypeOK
    <2>3. notified' \in SUBSET Readers
      BY <1>17 DEF MainPush, Push, NotifyWaiters
    <2>4. QED
      BY <1>17, <1>0, <2>1, <2>2, <2>3, LogsAssumption DEF TypeOK, MainPush, Push, readerVars
  <1>18. QED
    BY <1>1, <1>2, <1>3, <1>4, <1>5, <1>6, <1>7, <1>8,
       <1>9, <1>10, <1>11, <1>12, <1>13, <1>14, <1>15, <1>16, <1>17 DEF Next, Runtime

\* A stream reaches its yield only when nobody holds the mutex, and leaves it only with it.
LEMMA MutexStep ==
    ASSUME LogsInv, [Next]_vars
    PROVE  MutexInv'
  <1> USE DEF LogsInv
  <1>1. ASSUME NEW g \in 1..MaxWriters, WriterPush(g)
        PROVE  MutexInv'
    BY <1>1 DEF WriterPush, Push, NotifyWaiters, readerVars, MutexInv, TypeOK
  <1>2. ASSUME NEW t \in Loggers, LoggerPush(t)
        PROVE  MutexInv'
    BY <1>2 DEF LoggerPush, Push, NotifyWaiters, readerVars, MutexInv, TypeOK
  <1>3. ASSUME NEW r \in Readers, ReaderEmpty(r)
        PROVE  MutexInv'
    BY <1>3 DEF ReaderEmpty, MayEnter, MutexInv, TypeOK
  <1>4. ASSUME NEW r \in Readers, ReaderYield(r)
        PROVE  MutexInv'
    BY <1>4 DEF ReaderYield, MutexInv, TypeOK, MayEnter
  <1>5. ASSUME NEW r \in Readers, ReaderWakes(r)
        PROVE  MutexInv'
    BY <1>5 DEF ReaderWakes, MutexInv, TypeOK
  <1>6. CASE CopyLogsDone
    BY <1>6 DEF CopyLogsDone, readerVars, MutexInv, TypeOK
  <1>7. CASE NewWriter
    BY <1>7 DEF NewWriter, readerVars, MutexInv, TypeOK
  <1>8. ASSUME NEW g \in 1..MaxWriters, ReadPipe(g)
        PROVE  MutexInv'
    BY <1>8 DEF ReadPipe, readerVars, MutexInv, TypeOK
  <1>9. ASSUME NEW t \in Loggers, LogMessage(t)
        PROVE  MutexInv'
    BY <1>9 DEF LogMessage, readerVars, MutexInv, TypeOK
  <1>10. ASSUME NEW r \in Readers, OpenReader(r)
        PROVE  MutexInv'
    BY <1>10 DEF OpenReader, MutexInv, TypeOK
  <1>11. ASSUME NEW r \in Readers, ClientTakes(r)
        PROVE  MutexInv'
    BY <1>11 DEF ClientTakes, MutexInv, TypeOK
  <1>12. ASSUME NEW r \in Readers, ClientLeaves(r)
        PROVE  MutexInv'
    BY <1>12 DEF ClientLeaves, MutexInv, TypeOK
  <1>13. CASE CopyLogs
    BY <1>13 DEF CopyLogs, readerVars, MutexInv, TypeOK
  <1>14. CASE DropLogs
    BY <1>14 DEF DropLogs, readerVars, MutexInv, TypeOK
  <1>15. CASE UNCHANGED vars
    BY <1>15 DEF vars, MutexInv
  <1>16. CASE RestartFails
    BY <1>16 DEF RestartFails, readerVars, MutexInv, TypeOK
  <1>17. CASE MainPush
    BY <1>17 DEF MainPush, Push, NotifyWaiters, readerVars, MutexInv, TypeOK
  <1>18. QED
    BY <1>1, <1>2, <1>3, <1>4, <1>5, <1>6, <1>7, <1>8,
       <1>9, <1>10, <1>11, <1>12, <1>13, <1>14, <1>15, <1>16, <1>17 DEF Next, Runtime

\* new_writer aborts the task of the last call before it starts another, and the queue does
\* not keep what that task was about to push.
LEMMA WriterStep ==
    ASSUME LogsInv, [Next]_vars
    PROVE  WriterInv' /\ SingleWriter'
  <1> USE DEF LogsInv
  <1>1. ASSUME NEW g \in 1..MaxWriters, WriterPush(g)
        PROVE  WriterInv' /\ SingleWriter'
    <2>1. g = gen /\ gen \in Nat
      <3>1. InQueue(waiters, Writer(g))
        BY <1>1, EnterFacts DEF WriterPush, Push, QueueInv
      <3>2. writer[g] # "none"
        BY <3>1 DEF QueueInv
      <3>3. QED
        BY <3>2, LogsAssumption DEF WriterInv, TypeOK
    <2>2. /\ Len(log) \in Nat /\ Len(log') = Len(log) + 1 /\ log'[Len(log) + 1] = g
          /\ \A i \in 1..Len(log) : log'[i] = log[i]
      BY <1>1 DEF WriterPush, Push, TypeOK
    <2>3. \A i \in 1..Len(log') : log'[i] <= gen
      BY <2>1, <2>2 DEF WriterInv
    <2>4. SingleWriter'
      <3> SUFFICES ASSUME NEW i \in 1..Len(log'), NEW j \in 1..Len(log'),
                          i < j, log'[i] # 0, log'[j] # 0
                   PROVE  log'[i] <= log'[j]
        BY DEF SingleWriter
      <3>1. CASE j = Len(log) + 1
        BY <2>1, <2>2, <2>3, <3>1
      <3>2. CASE i \in 1..Len(log) /\ j \in 1..Len(log)
        BY <2>2, <3>2 DEF SingleWriter
      <3>3. QED
        BY <2>2, <3>1, <3>2
    <2>5. \A h \in 0..MaxWriters : writer'[h] # "none" => h = gen /\ h > 0
      BY <1>1, <2>1, LogsAssumption DEF WriterPush, WriterInv, TypeOK
    <2>6. QED
      BY <1>1, <2>3, <2>4, <2>5 DEF WriterInv, WriterPush
  <1>2. ASSUME NEW t \in Loggers, LoggerPush(t)
        PROVE  WriterInv' /\ SingleWriter'
    <2>1. /\ Len(log) \in Nat /\ Len(log') = Len(log) + 1 /\ log'[Len(log) + 1] = 0
          /\ \A i \in 1..Len(log) : log'[i] = log[i]
      BY <1>2 DEF LoggerPush, Push, TypeOK
    <2>2. \A i \in 1..Len(log') : log'[i] <= gen
      <3>1. gen \in Nat
        BY LogsAssumption DEF TypeOK
      <3>2. QED
        BY <2>1, <3>1 DEF WriterInv
    <2>3. SingleWriter'
      BY <2>1 DEF SingleWriter
    <2>4. QED
      BY <1>2, <2>2, <2>3 DEF WriterInv, LoggerPush
  <1>3. ASSUME NEW r \in Readers, ReaderEmpty(r)
        PROVE  WriterInv' /\ SingleWriter'
    BY <1>3 DEF ReaderEmpty, ringVars, WriterInv, SingleWriter, TypeOK
  <1>4. ASSUME NEW r \in Readers, ReaderYield(r)
        PROVE  WriterInv' /\ SingleWriter'
    BY <1>4 DEF ReaderYield, ringVars, WriterInv, SingleWriter, TypeOK
  <1>5. ASSUME NEW r \in Readers, ReaderWakes(r)
        PROVE  WriterInv' /\ SingleWriter'
    BY <1>5 DEF ReaderWakes, ringVars, WriterInv, SingleWriter, TypeOK
  <1>6. CASE CopyLogsDone
    BY <1>6 DEF CopyLogsDone, readerVars, ringVars, WriterInv, SingleWriter, TypeOK
  <1>7. CASE NewWriter
    <2>1. /\ gen' = gen + 1 /\ gen \in 0..MaxWriters /\ gen' \in 0..MaxWriters /\ log' = log
          /\ writer' = [[writer EXCEPT ![gen] = "none"] EXCEPT ![gen'] = "reading"]
      BY <1>7, LogsAssumption DEF NewWriter, AbortedWriter, AbortHandle, ringVars, TypeOK
    <2>2. \A h \in 0..MaxWriters : writer'[h] # "none" => h = gen' /\ h > 0
      BY <2>1 DEF WriterInv, TypeOK
    <2>3. \A i \in 1..Len(log') : log'[i] <= gen'
      BY <2>1, LogsAssumption DEF WriterInv, TypeOK, Lines
    <2>4. QED
      BY <2>1, <2>2, <2>3 DEF WriterInv, SingleWriter
  <1>8. ASSUME NEW g \in 1..MaxWriters, ReadPipe(g)
        PROVE  WriterInv' /\ SingleWriter'
    BY <1>8, LogsAssumption DEF ReadPipe, readerVars, ringVars, WriterInv, SingleWriter, TypeOK
  <1>9. ASSUME NEW t \in Loggers, LogMessage(t)
        PROVE  WriterInv' /\ SingleWriter'
    BY <1>9 DEF LogMessage, readerVars, ringVars, WriterInv, SingleWriter, TypeOK
  <1>10. ASSUME NEW r \in Readers, OpenReader(r)
        PROVE  WriterInv' /\ SingleWriter'
    BY <1>10 DEF OpenReader, ringVars, WriterInv, SingleWriter, TypeOK
  <1>11. ASSUME NEW r \in Readers, ClientTakes(r)
        PROVE  WriterInv' /\ SingleWriter'
    BY <1>11 DEF ClientTakes, ringVars, WriterInv, SingleWriter, TypeOK
  <1>12. ASSUME NEW r \in Readers, ClientLeaves(r)
        PROVE  WriterInv' /\ SingleWriter'
    BY <1>12 DEF ClientLeaves, ringVars, WriterInv, SingleWriter, TypeOK
  <1>13. CASE CopyLogs
    BY <1>13 DEF CopyLogs, readerVars, ringVars, WriterInv, SingleWriter, TypeOK
  <1>14. CASE DropLogs
    BY <1>14, LogsAssumption
    DEF DropLogs, AbortedWriter, AbortHandle, readerVars, ringVars, WriterInv, SingleWriter,
        TypeOK
  <1>15. CASE UNCHANGED vars
    BY <1>15 DEF vars, WriterInv, SingleWriter
  <1>16. CASE RestartFails
    BY <1>16 DEF RestartFails, readerVars, ringVars, WriterInv, SingleWriter, TypeOK
  <1>17. CASE MainPush
    <2>1. /\ Len(log) \in Nat /\ Len(log') = Len(log) + 1 /\ log'[Len(log) + 1] = 0
          /\ \A i \in 1..Len(log) : log'[i] = log[i]
      BY <1>17 DEF MainPush, Push, TypeOK
    <2>2. \A i \in 1..Len(log') : log'[i] <= gen
      <3>1. gen \in Nat
        BY LogsAssumption DEF TypeOK
      <3>2. QED
        BY <2>1, <3>1 DEF WriterInv
    <2>3. SingleWriter'
      BY <2>1 DEF SingleWriter
    <2>4. QED
      BY <1>17, <2>2, <2>3 DEF WriterInv, MainPush
  <1>18. QED
    BY <1>1, <1>2, <1>3, <1>4, <1>5, <1>6, <1>7, <1>8,
       <1>9, <1>10, <1>11, <1>12, <1>13, <1>14, <1>15, <1>16, <1>17 DEF Next, Runtime

\* The buffer is the tail of the log, and get never moves a reader past its end.
LEMMA RingStep ==
    ASSUME LogsInv, [Next]_vars
    PROVE  RingIsTail'
  <1> USE DEF LogsInv
  <1>1. ASSUME NEW g \in 1..MaxWriters, WriterPush(g)
        PROVE  RingIsTail'
    <2>1. Pushed(g) /\ g \in Lines /\ pos' = pos
      BY <1>1, LogsAssumption DEF Pushed, WriterPush, Push, Lines, readerVars
    <2>2. \A r \in Readers : pos'[r] <= nextIdx'
      BY <2>1 DEF Pushed, RingPush, RingIsTail, TypeOK
    <2>3. QED
      BY <2>1, <2>2, PushFacts DEF RingIsTail, FirstIdx
  <1>2. ASSUME NEW t \in Loggers, LoggerPush(t)
        PROVE  RingIsTail'
    <2>1. Pushed(0) /\ 0 \in Lines /\ pos' = pos
      BY <1>2, LogsAssumption DEF Pushed, LoggerPush, Push, Lines, readerVars
    <2>2. \A r \in Readers : pos'[r] <= nextIdx'
      BY <2>1 DEF Pushed, RingPush, RingIsTail, TypeOK
    <2>3. QED
      BY <2>1, <2>2, PushFacts DEF RingIsTail, FirstIdx
  <1>3. ASSUME NEW r \in Readers, ReaderEmpty(r)
        PROVE  RingIsTail'
    BY <1>3 DEF ReaderEmpty, ringVars, RingIsTail, FirstIdx, TypeOK
  <1>4. ASSUME NEW r \in Readers, ReaderYield(r)
        PROVE  RingIsTail'
    <2>1. pos[r] \in Nat /\ Len(log) \in Nat /\ nextIdx = Len(log)
      BY DEF TypeOK, RingIsTail
    <2>2. \E n \in 0..Len(log) : pos' = [pos EXCEPT ![r] = n]
      <3>1. CASE pos[r] < Len(log) /\ pos' = [pos EXCEPT ![r] = @ + 1]
        <4>1. pos[r] + 1 \in 0..Len(log)
          BY <2>1, <3>1
        <4>2. QED
          BY <3>1, <4>1
      <3>2. CASE FirstIdx \in pos[r] + 1..Len(log) /\ pos' = [pos EXCEPT ![r] = FirstIdx]
        <4>1. FirstIdx \in 0..Len(log)
          BY <2>1, <3>2
        <4>2. QED
          BY <3>2, <4>1
      <3>3. QED
        BY <1>4, <3>1, <3>2, GetFacts DEF ReaderYield
    <2>3. \A s \in Readers : pos'[s] <= Len(log)
      BY <2>1, <2>2 DEF TypeOK, RingIsTail
    <2>4. QED
      BY <1>4, <2>1, <2>3 DEF ReaderYield, ringVars, RingIsTail, FirstIdx
  <1>5. ASSUME NEW r \in Readers, ReaderWakes(r)
        PROVE  RingIsTail'
    BY <1>5 DEF ReaderWakes, ringVars, RingIsTail, FirstIdx, TypeOK
  <1>6. CASE CopyLogsDone
    BY <1>6 DEF CopyLogsDone, readerVars, ringVars, RingIsTail, FirstIdx, TypeOK
  <1>7. CASE NewWriter
    BY <1>7 DEF NewWriter, readerVars, ringVars, RingIsTail, FirstIdx, TypeOK
  <1>8. ASSUME NEW g \in 1..MaxWriters, ReadPipe(g)
        PROVE  RingIsTail'
    BY <1>8 DEF ReadPipe, readerVars, ringVars, RingIsTail, FirstIdx, TypeOK
  <1>9. ASSUME NEW t \in Loggers, LogMessage(t)
        PROVE  RingIsTail'
    BY <1>9 DEF LogMessage, readerVars, ringVars, RingIsTail, FirstIdx, TypeOK
  <1>10. ASSUME NEW r \in Readers, OpenReader(r)
        PROVE  RingIsTail'
    <2>1. \A s \in Readers : pos'[s] <= nextIdx
      BY <1>10 DEF OpenReader, RingIsTail, TypeOK
    <2>2. QED
      BY <1>10, <2>1 DEF OpenReader, ringVars, RingIsTail, FirstIdx
  <1>11. ASSUME NEW r \in Readers, ClientTakes(r)
        PROVE  RingIsTail'
    BY <1>11 DEF ClientTakes, ringVars, RingIsTail, FirstIdx, TypeOK
  <1>12. ASSUME NEW r \in Readers, ClientLeaves(r)
        PROVE  RingIsTail'
    BY <1>12 DEF ClientLeaves, ringVars, RingIsTail, FirstIdx, TypeOK
  <1>13. CASE CopyLogs
    BY <1>13 DEF CopyLogs, readerVars, ringVars, RingIsTail, FirstIdx, TypeOK
  <1>14. CASE DropLogs
    BY <1>14 DEF DropLogs, readerVars, ringVars, RingIsTail, FirstIdx, TypeOK
  <1>15. CASE UNCHANGED vars
    BY <1>15 DEF vars, RingIsTail, FirstIdx
  <1>16. CASE RestartFails
    BY <1>16 DEF RestartFails, readerVars, ringVars, RingIsTail, FirstIdx, TypeOK
  <1>17. CASE MainPush
    <2>1. Pushed(0) /\ 0 \in Lines /\ pos' = pos
      BY <1>17, LogsAssumption DEF Pushed, MainPush, Push, Lines, readerVars
    <2>2. \A r \in Readers : pos'[r] <= nextIdx'
      BY <2>1 DEF Pushed, RingPush, RingIsTail, TypeOK
    <2>3. QED
      BY <2>1, <2>2, PushFacts DEF RingIsTail, FirstIdx
  <1>18. QED
    BY <1>1, <1>2, <1>3, <1>4, <1>5, <1>6, <1>7, <1>8,
       <1>9, <1>10, <1>11, <1>12, <1>13, <1>14, <1>15, <1>16, <1>17 DEF Next, Runtime

\* A stream goes to sleep when it is past the last line, and every push completes every
\* notified() future.
LEMMA WakeStep ==
    ASSUME LogsInv, [Next]_vars
    PROVE  NoLostWakeup'
  <1> USE DEF LogsInv
  <1>1. ASSUME NEW g \in 1..MaxWriters, WriterPush(g)
        PROVE  NoLostWakeup'
    BY <1>1 DEF WriterPush, Push, NotifyWaiters, readerVars, NoLostWakeup, TypeOK
  <1>2. ASSUME NEW t \in Loggers, LoggerPush(t)
        PROVE  NoLostWakeup'
    BY <1>2 DEF LoggerPush, Push, NotifyWaiters, readerVars, NoLostWakeup, TypeOK
  <1>3. ASSUME NEW r \in Readers, ReaderEmpty(r)
        PROVE  NoLostWakeup'
    BY <1>3 DEF ReaderEmpty, ringVars, NoLostWakeup, NothingNew, TypeOK
  <1>4. ASSUME NEW r \in Readers, ReaderYield(r)
        PROVE  NoLostWakeup'
    <2>1. \A s \in Readers : s # r => pos'[s] = pos[s] /\ reader'[s] = reader[s]
      BY <1>4 DEF ReaderYield, RingGet, TypeOK
    <2>2. QED
      BY <1>4, <2>1 DEF ReaderYield, ringVars, NoLostWakeup, TypeOK
  <1>5. ASSUME NEW r \in Readers, ReaderWakes(r)
        PROVE  NoLostWakeup'
    BY <1>5 DEF ReaderWakes, ringVars, NoLostWakeup, TypeOK
  <1>6. CASE CopyLogsDone
    BY <1>6 DEF CopyLogsDone, readerVars, ringVars, NoLostWakeup, TypeOK
  <1>7. CASE NewWriter
    BY <1>7 DEF NewWriter, readerVars, ringVars, NoLostWakeup, TypeOK
  <1>8. ASSUME NEW g \in 1..MaxWriters, ReadPipe(g)
        PROVE  NoLostWakeup'
    BY <1>8 DEF ReadPipe, readerVars, ringVars, NoLostWakeup, TypeOK
  <1>9. ASSUME NEW t \in Loggers, LogMessage(t)
        PROVE  NoLostWakeup'
    BY <1>9 DEF LogMessage, readerVars, ringVars, NoLostWakeup, TypeOK
  <1>10. ASSUME NEW r \in Readers, OpenReader(r)
        PROVE  NoLostWakeup'
    BY <1>10 DEF OpenReader, ringVars, NoLostWakeup, TypeOK
  <1>11. ASSUME NEW r \in Readers, ClientTakes(r)
        PROVE  NoLostWakeup'
    BY <1>11 DEF ClientTakes, ringVars, NoLostWakeup, TypeOK
  <1>12. ASSUME NEW r \in Readers, ClientLeaves(r)
        PROVE  NoLostWakeup'
    BY <1>12 DEF ClientLeaves, ringVars, NoLostWakeup, TypeOK
  <1>13. CASE CopyLogs
    BY <1>13 DEF CopyLogs, readerVars, ringVars, NoLostWakeup, TypeOK
  <1>14. CASE DropLogs
    BY <1>14 DEF DropLogs, readerVars, ringVars, NoLostWakeup, TypeOK
  <1>15. CASE UNCHANGED vars
    BY <1>15 DEF vars, NoLostWakeup
  <1>16. CASE RestartFails
    BY <1>16 DEF RestartFails, readerVars, ringVars, NoLostWakeup, TypeOK
  <1>17. CASE MainPush
    BY <1>17 DEF MainPush, Push, NotifyWaiters, readerVars, NoLostWakeup, TypeOK
  <1>18. QED
    BY <1>1, <1>2, <1>3, <1>4, <1>5, <1>6, <1>7, <1>8,
       <1>9, <1>10, <1>11, <1>12, <1>13, <1>14, <1>15, <1>16, <1>17 DEF Next, Runtime

-----------------------------------------------------------------------------
(* Theorems.                                                               *)

\* LogsInv is an invariant: the queue and the owner of the mutex agree with where the tasks
\* are, only the last writer is alive, and the three properties below hold.
THEOREM LogsInvariant == Spec => []LogsInv
  <1>1. Init => LogsInv
    <2> SUFFICES ASSUME Init PROVE LogsInv
      OBVIOUS
    <2>1. TypeOK
      <3>1. out \in [Readers -> {Stream!Lost, Stream!Nothing} \cup {Stream!Line(l) : l \in Lines}]
        BY DEF Init
      <3>2. /\ gen \in 0..MaxWriters
            /\ writer \in [0..MaxWriters -> {"none", "reading", "pushing", "closing"}]
        BY LogsAssumption DEF Init
      <3>3. entries \in Seq(Lines) /\ Len(entries) <= RetentionLines /\ log \in Seq(Lines)
        BY LogsAssumption DEF Init
      <3>4. /\ nextIdx \in Nat /\ waiters \in Seq(Task) /\ pos \in [Readers -> Nat]
            /\ holder \in SUBSET Readers /\ notified \in SUBSET Readers
        BY DEF Init
      <3>5. /\ reader \in [Readers -> {"closed", "locking", "yielding", "waiting"}]
            /\ logger \in [Loggers -> {"idle", "pushing"}]
            /\ main \in {"idle", "locking", "pushing"} /\ dropped \in BOOLEAN
        BY DEF Init
      <3>6. QED
        BY <3>1, <3>2, <3>3, <3>4, <3>5 DEF TypeOK
    <2>2. QueueInv /\ MutexInv /\ WriterInv
      BY DEF Init, QueueInv, MutexInv, WriterInv, InQueue, Distinct
    <2>3. RingIsTail /\ NoLostWakeup /\ SingleWriter
      BY LogsAssumption DEF Init, RingIsTail, FirstIdx, NoLostWakeup, SingleWriter
    <2>4. QED
      BY <2>1, <2>2, <2>3 DEF LogsInv
  <1>2. LogsInv /\ [Next]_vars => LogsInv'
    BY TypeStep, QueueStep, MutexStep, WriterStep, RingStep, WakeStep DEF LogsInv
  <1>3. QED
    BY <1>1, <1>2, PTL DEF Spec

\* The variables keep their types, and the buffer never holds more than log_retention_lines.
THEOREM LogsTypes == Spec => []TypeOK
  BY LogsInvariant, PTL DEF LogsInv

\* RingBuffer is the tail of the list it emulates, for every retention, and no reader is
\* ever past its end (the debug_assert of RingBuffer::get).
THEOREM RingBufferIsTail == Spec => []RingIsTail
  BY LogsInvariant, PTL DEF LogsInv

\* A stream of new_reader never sleeps through a line, however its check of the buffer and
\* its wait for the Notify interleave with pushes.
THEOREM WakeupsAreKept == Spec => []NoLostWakeup
  BY LogsInvariant, PTL DEF LogsInv

\* The lines of one incarnation of a service never follow those of a later one
\* (new_writer aborts the old task).
THEOREM WritersDoNotMix == Spec => []SingleWriter
  BY LogsInvariant, PTL DEF LogsInv

\* Logs implements LogStream: whatever the tasks do, each reader is handed the lines in
\* order and once each, and where it misses some it is told.
THEOREM LogsIsStream == Spec => StreamSpec
  <1>1. Init => Stream!Init
    BY DEF Init, Stream!Init
  <1>2. LogsInv /\ [Next]_vars => [Stream!Next]_<<log, pos, out>>
    <2> SUFFICES ASSUME LogsInv, [Next]_vars
                 PROVE  [Stream!Next]_<<log, pos, out>>
      OBVIOUS
    <2> USE DEF LogsInv
    <2>1. ASSUME NEW g \in 1..MaxWriters, WriterPush(g)
          PROVE  Stream!Next
      <3>1. g \in Lines /\ Stream!Push(g)
        BY <2>1, LogsAssumption DEF WriterPush, Push, readerVars, Lines, Stream!Push
      <3>2. QED
        BY <3>1 DEF Stream!Next
    <2>2. ASSUME NEW t \in Loggers, LoggerPush(t)
          PROVE  Stream!Next
      <3>1. 0 \in Lines /\ Stream!Push(0)
        BY <2>2, LogsAssumption DEF LoggerPush, Push, readerVars, Lines, Stream!Push
      <3>2. QED
        BY <3>1 DEF Stream!Next
    <2>3. ASSUME NEW r \in Readers, ReaderYield(r)
          PROVE  Stream!Next
      <3>1. RingGet(r) /\ ~NothingNew(r) /\ UNCHANGED log
        BY <2>3 DEF ReaderYield, ringVars
      <3>2. Stream!Deliver(r) \/ Stream!Skip(r)
        BY <3>1, GetFacts DEF Stream!Deliver, Stream!Skip
      <3>3. QED
        BY <3>2 DEF Stream!Next
    <2>4. ASSUME NEW r \in Readers, OpenReader(r)
          PROVE  Stream!Next
      <3>1. Stream!Open(r)
        BY <2>4 DEF OpenReader, ringVars, Stream!Open
      <3>2. QED
        BY <3>1 DEF Stream!Next
    <2>5. ASSUME NEW r \in Readers,
                 ReaderEmpty(r) \/ ReaderWakes(r) \/ ClientTakes(r) \/ ClientLeaves(r)
          PROVE  UNCHANGED <<log, pos, out>>
      BY <2>5 DEF ReaderEmpty, ReaderWakes, ClientTakes, ClientLeaves, ringVars
    <2>6. CASE NewWriter \/ CopyLogs \/ CopyLogsDone \/ RestartFails \/ DropLogs
               \/ UNCHANGED vars
      BY <2>6 DEF NewWriter, CopyLogs, CopyLogsDone, RestartFails, DropLogs, vars, ringVars, readerVars
    <2>7. ASSUME NEW g \in 1..MaxWriters, ReadPipe(g)
          PROVE  UNCHANGED <<log, pos, out>>
      BY <2>7 DEF ReadPipe, ringVars, readerVars
    <2>8. ASSUME NEW t \in Loggers, LogMessage(t)
          PROVE  UNCHANGED <<log, pos, out>>
      BY <2>8 DEF LogMessage, ringVars, readerVars
    <2>9. CASE MainPush
      <3>1. 0 \in Lines /\ Stream!Push(0)
        BY <2>9, LogsAssumption DEF MainPush, Push, readerVars, Lines, Stream!Push
      <3>2. QED
        BY <3>1 DEF Stream!Next
    <2>10. QED
      BY <2>1, <2>2, <2>3, <2>4, <2>5, <2>6, <2>7, <2>8, <2>9 DEF Next, Runtime
  <1>3. QED
    BY <1>1, <1>2, LogsInvariant, PTL DEF Spec, StreamSpec, Stream!Spec
=============================================================================
