------------------------ MODULE WatchedServiceProofs ------------------------
(***************************************************************************)
(* Proofs, for every set of waiting clients, every channel size and all    *)
(* probe configurations, that `wait` is exact and that the probe's verdict *)
(* is right, in a service that is created, stopped, restarted and pruned   *)
(* meanwhile.                                                              *)
(***************************************************************************)
EXTENDS WatchedService, SequenceTheorems, TLAPS

-----------------------------------------------------------------------------
(* The inductive invariant.                                                *)

\* A service in the table has published the status it has.
PublisherInv == view # Absent => latest = view

\* What a waiting request has not looked at yet.
Unseen(w) ==
    \/ \E s \in current[w] : Holds(w, s)
    \/ \E i \in 1..Len(rx[w].unread) : Holds(w, rx[w].unread[i])

\* The condition was met exactly if it shows in what the request has still to look at, as
\* long as nothing was pushed out of the channel; and the channel only overflows when that
\* many changes went by.  An answer stays right.
WaiterInv(w) ==
    /\ waiter[w] \in {"idle", "asked"} => behind[w] = 0
    /\ waiter[w] = "waiting" =>
         /\ Unseen(w) => met[w]
         /\ met[w] => Unseen(w) \/ rx[w].lagged
         /\ rx[w].lagged => rx[w].unread # <<>> /\ behind[w] > ChannelSize
         /\ ~rx[w].lagged => Len(rx[w].unread) <= behind[w]
         /\ ~rx[w].closed => view # Absent /\ (want[w] = view.kind => met[w])
    /\ waiter[w] = "reached" => met[w]
    /\ waiter[w] = "pruned" => ~met[w]
    /\ waiter[w] = "lagged" => behind[w] > ChannelSize

BroadcastInv ==
    /\ BroadcastTypeOK
    /\ PublisherInv
    /\ \A w \in Waiters : WaiterInv(w)

\* consecutive_failures counts the failed answers at the end of what was answered.
FailuresCounted ==
    /\ failures <= Len(answers)
    /\ \A i \in Len(answers) - failures + 1..Len(answers) : ~answers[i]
    /\ failures < Len(answers) => answers[Len(answers) - failures]

\* What the counter says in each state of the task.
ProbeInv ==
    /\ FailuresCounted
    /\ task = "none" => failures = 0 /\ answers = <<>>
    /\ task = "asking" => failures < Required /\ failures <= liveness.retries
    /\ task = "failed" => failures \in 1..Required /\ failures <= liveness.retries + 1
    /\ task = "exhausted" => failures = Required /\ failures <= liveness.retries
    /\ task = "exceeded" => failures = liveness.retries + 1 /\ Required > liveness.retries

WatchedInv ==
    /\ WatchedTypeOK
    /\ BroadcastInv
    /\ ProbeInv

-----------------------------------------------------------------------------
(* Facts about the data.                                                   *)

\* Statuses are told apart by their kind, except for what follows a stop.
LEMMA ViewFacts ==
    /\ Absent \in Views /\ Absent.kind = "Absent"
    /\ \A k \in Kinds \ {"Stopping"} : Plain(k) \in Views /\ Plain(k).kind = k
    /\ \A o \in Outcomes : StoppingTo(o) \in Views /\ StoppingTo(o).kind = "Stopping"
    /\ \A v \in Views : v.kind \in Kinds \/ v = Absent
    /\ "Absent" \notin Kinds
  BY DEF Views, Absent, Plain, StoppingTo, Kinds, Outcomes

\* The contents of a receiver as a sequence.
LEMMA ReceiverFacts ==
    /\ NewReceiver \in Receiver
    /\ NewReceiver.unread = <<>> /\ ~NewReceiver.lagged /\ ~NewReceiver.closed
    /\ \A r \in Receiver : /\ r.unread \in Seq(Views) /\ Len(r.unread) <= ChannelSize
                           /\ r.lagged \in BOOLEAN /\ r.closed \in BOOLEAN
    /\ \A q \in Seq(Views), l, c \in BOOLEAN :
         Len(q) <= ChannelSize => [unread |-> q, lagged |-> l, closed |-> c] \in Receiver
  <1>1. \A q : q \in UNION {[1..i -> Views] : i \in 0..ChannelSize}
                 <=> q \in Seq(Views) /\ Len(q) <= ChannelSize
    <2>1. ASSUME NEW q, q \in UNION {[1..i -> Views] : i \in 0..ChannelSize}
          PROVE  q \in Seq(Views) /\ Len(q) <= ChannelSize
      <3>1. PICK i \in 0..ChannelSize : q \in [1..i -> Views]
        BY <2>1
      <3>2. q \in Seq(Views)
        BY <3>1, BroadcastAssumption, SeqDef
      <3>3. Len(q) = i
        BY <3>1, <3>2, BroadcastAssumption, LenProperties
      <3>4. QED
        BY <3>2, <3>3, BroadcastAssumption
    <2>2. ASSUME NEW q \in Seq(Views), Len(q) <= ChannelSize
          PROVE  q \in UNION {[1..i -> Views] : i \in 0..ChannelSize}
      <3>1. q \in [1..Len(q) -> Views] /\ Len(q) \in 0..ChannelSize
        BY <2>2, BroadcastAssumption, LenProperties
      <3>2. QED
        BY <3>1
    <2>3. QED
      BY <2>1, <2>2
  <1>2. <<>> \in Seq(Views) /\ Len(<<>>) <= ChannelSize
    BY BroadcastAssumption
  <1>3. QED
    BY <1>1, <1>2 DEF Receiver, NewReceiver

\* broadcast::Sender::send, as one receiver sees it: the new value is last; the others stay
\* unless the oldest had to make room, which the receiver is told.
LEMMA ReceivedFacts ==
    ASSUME NEW r \in Receiver, NEW s \in Views
    PROVE  /\ Received(r, s) \in Receiver
           /\ Received(r, s).closed = r.closed
           /\ Received(r, s).unread # <<>>
           /\ \A i \in 1..Len(Received(r, s).unread) :
                \/ Received(r, s).unread[i] = s
                \/ \E j \in 1..Len(r.unread) : Received(r, s).unread[i] = r.unread[j]
           /\ \E i \in 1..Len(Received(r, s).unread) : Received(r, s).unread[i] = s
           /\ \/ /\ Received(r, s).lagged
                 /\ Len(r.unread) = ChannelSize
              \/ /\ Received(r, s).lagged = r.lagged
                 /\ Len(Received(r, s).unread) = Len(r.unread) + 1
                 /\ \A j \in 1..Len(r.unread) : Received(r, s).unread[j] = r.unread[j]
  <1> DEFINE q == r.unread
  <1>1. /\ q \in Seq(Views) /\ Len(q) \in Nat /\ Len(q) <= ChannelSize
        /\ r.lagged \in BOOLEAN /\ r.closed \in BOOLEAN
        /\ r = [unread |-> q, lagged |-> r.lagged, closed |-> r.closed]
        /\ ChannelSize \in Nat \ {0}
    BY ReceiverFacts, BroadcastAssumption DEF Receiver
  <1> DEFINE u == Received(r, s).unread
  <1>2. CASE Len(q) < ChannelSize
    <2>1. /\ Received(r, s) = [unread |-> Append(q, s), lagged |-> r.lagged, closed |-> r.closed]
          /\ u = Append(q, s) /\ Received(r, s).lagged = r.lagged /\ Received(r, s).closed = r.closed
      BY <1>1, <1>2 DEF Received
    <2>2. /\ Append(q, s) \in Seq(Views) /\ Len(Append(q, s)) = Len(q) + 1
          /\ Append(q, s)[Len(q) + 1] = s
          /\ \A i \in 1..Len(q) : Append(q, s)[i] = q[i]
      BY <1>1
    <2> HIDE DEF q, u
    <2>3. [unread |-> Append(q, s), lagged |-> r.lagged, closed |-> r.closed] \in Receiver
      <3>1. Len(Append(q, s)) <= ChannelSize
        BY <1>1, <1>2, <2>2
      <3>2. QED
        BY <1>1, <2>2, <3>1, ReceiverFacts
    <2>4. /\ u \in Seq(Views) /\ Len(u) = Len(q) + 1 /\ u[Len(q) + 1] = s
          /\ \A i \in 1..Len(q) : u[i] = q[i]
      BY <2>1, <2>2
    <2>5. u # <<>> /\ \E i \in 1..Len(u) : u[i] = s
      BY <1>1, <2>4
    <2>6. \A i \in 1..Len(u) : u[i] = s \/ \E j \in 1..Len(q) : u[i] = q[j]
      <3> SUFFICES ASSUME NEW i \in 1..Len(u), u[i] # s
                   PROVE  \E j \in 1..Len(q) : u[i] = q[j]
        OBVIOUS
      <3>1. i \in 1..Len(q)
        BY <1>1, <2>4
      <3>2. QED
        BY <2>4, <3>1
    <2>7. QED
      BY <2>1, <2>3, <2>4, <2>5, <2>6 DEF q, u
  <1>3. CASE Len(q) = ChannelSize
    <2> DEFINE t == Tail(q)
    <2>1. ~(Len(q) < ChannelSize)
      BY <1>1, <1>3
    <2>2. /\ Received(r, s) = [unread |-> Append(t, s), lagged |-> TRUE, closed |-> r.closed]
          /\ u = Append(t, s) /\ Received(r, s).lagged /\ Received(r, s).closed = r.closed
      <3>1. Received(r, s) = [r EXCEPT !.unread = Append(Tail(@), s), !.lagged = TRUE]
        BY <2>1 DEF Received
      <3> HIDE DEF t, q
      <3>2. Received(r, s) = [unread |-> Append(t, s), lagged |-> TRUE, closed |-> r.closed]
        <4>1. Tail(r.unread) = t
          BY DEF t, q
        <4>2. r.unread = q
          BY DEF q
        <4> DEFINE a == Append(t, s)
        <4>3. Received(r, s) = [r EXCEPT !.unread = a, !.lagged = TRUE]
          BY <3>1, <4>1
        <4> HIDE DEF a
        <4>4. Received(r, s) = [unread |-> a, lagged |-> TRUE, closed |-> r.closed]
          BY <1>1, <4>2, <4>3
        <4>5. QED
          BY <4>4 DEF a
      <3>3. QED
        BY <3>2
    <2>3. q # <<>>
      BY <1>1, <1>3
    <2>4. /\ t \in Seq(Views) /\ Len(t) = Len(q) - 1
          /\ \A i \in 1..Len(t) : t[i] = q[i + 1]
      BY <1>1, <2>3, HeadTailProperties
    <2> HIDE DEF q, t, u
    <2>5. /\ Append(t, s) \in Seq(Views) /\ Len(Append(t, s)) = Len(q)
          /\ Append(t, s)[Len(q)] = s
          /\ \A i \in 1..Len(q) - 1 : Append(t, s)[i] = q[i + 1]
      BY <1>1, <1>3, <2>4
    <2>6. [unread |-> Append(t, s), lagged |-> TRUE, closed |-> r.closed] \in Receiver
      BY <1>1, <1>3, <2>5, ReceiverFacts
    <2>7. /\ u \in Seq(Views) /\ Len(u) = Len(q) /\ u[Len(q)] = s
          /\ \A i \in 1..Len(q) - 1 : u[i] = q[i + 1]
      BY <2>2, <2>5
    <2>8. u # <<>> /\ \E i \in 1..Len(u) : u[i] = s
      BY <1>1, <1>3, <2>7
    <2>9. \A i \in 1..Len(u) : u[i] = s \/ \E j \in 1..Len(q) : u[i] = q[j]
      <3> SUFFICES ASSUME NEW i \in 1..Len(u), u[i] # s
                   PROVE  \E j \in 1..Len(q) : u[i] = q[j]
        OBVIOUS
      <3>1. i \in 1..Len(q) - 1 /\ i + 1 \in 1..Len(q)
        BY <1>1, <2>7
      <3>2. QED
        BY <2>7, <3>1
    <2>10. QED
      BY <1>3, <2>2, <2>6, <2>8, <2>9 DEF q, u
  <1>4. QED
    BY <1>1, <1>2, <1>3

\* A Running service is not pruned, and what is not in the table stays so until it is created.
LEMMA FollowFacts ==
    /\ Absent \notin Follow(Plain("Running"))
    /\ \A v \in Views : v.kind = "Running" => v = Plain("Running")
  <1> DEFINE R == Plain("Running")
  <1>1. /\ R # Absent /\ R # Plain("Frozen") /\ R \notin Idle
        /\ R # StoppingTo("Stop") /\ R # StoppingTo("Restart") /\ R # StoppingTo("Prune")
    BY DEF Plain, Absent, StoppingTo, Idle
  <1>2. \A o \in Outcomes : StoppingTo(o) # Absent
    BY DEF StoppingTo, Absent, Plain
  <1>3. Plain("Frozen") # Absent /\ Plain("Exited") # Absent
    BY DEF Absent, Plain
  <1>4. \A v \in Views : v.kind = "Running" => v = R
    BY DEF Views, Plain, StoppingTo
  <1> HIDE DEF R
  <1>5. R = Plain("Running")
    BY DEF R
  <1>6. Follow(R)
          = {Plain("Frozen"), Plain("Exited")} \cup {StoppingTo(o) : o \in Outcomes}
    BY <1>1, <1>5 DEF Follow
  <1>7. QED
    BY <1>2, <1>3, <1>4, <1>5, <1>6

-----------------------------------------------------------------------------
(* The broadcast.                                                          *)

\* The invariant holds of a broadcast nobody waits on.
LEMMA BroadcastStart == BroadcastInit => BroadcastInv
  <1> SUFFICES ASSUME BroadcastInit PROVE BroadcastInv
    OBVIOUS
  <1>1. BroadcastTypeOK
    <2>1. /\ view \in Views /\ latest \in Views
          /\ "Running" \in Kinds /\ 0 \in 0..ChannelSize + 1
      BY ViewFacts, BroadcastAssumption DEF BroadcastInit, Init, Kinds
    <2>2. QED
      BY <2>1, ReceiverFacts DEF BroadcastInit, BroadcastTypeOK
  <1>2. PublisherInv
    BY DEF BroadcastInit, Init, PublisherInv
  <1>3. ASSUME NEW w \in Waiters PROVE WaiterInv(w)
    BY DEF BroadcastInit, WaiterInv
  <1>4. QED
    BY <1>1, <1>2, <1>3 DEF BroadcastInv

\* A step that leaves the broadcast alone keeps its invariant.
LEMMA BroadcastStutters == BroadcastInv /\ UNCHANGED broadcastVars => BroadcastInv'
  <1> SUFFICES ASSUME BroadcastInv, UNCHANGED broadcastVars PROVE BroadcastInv'
    OBVIOUS
  <1> USE DEF broadcastVars
  <1>1. BroadcastTypeOK'
    BY DEF BroadcastInv, BroadcastTypeOK
  <1>2. PublisherInv'
    BY DEF BroadcastInv, PublisherInv
  <1>3. ASSUME NEW w \in Waiters PROVE WaiterInv(w)'
    BY DEF BroadcastInv, WaiterInv, Unseen, Holds
  <1>4. QED
    BY <1>1, <1>2, <1>3 DEF BroadcastInv

\* Service::set_status: who is subscribed gets the status, or had it before.
LEMMA SetStatusKeeps ==
    ASSUME BroadcastInv, NEW s \in Views, SetStatus(s)
    PROVE  BroadcastInv'
  <1>1. /\ BroadcastTypeOK /\ PublisherInv
        /\ \A w \in Waiters : WaiterInv(w)
        /\ ChannelSize \in Nat \ {0}
    BY BroadcastAssumption DEF BroadcastInv
  <1>2. /\ view # Absent /\ latest = view /\ s # Absent
        /\ view' = s /\ waiter' = waiter /\ want' = want /\ current' = current
    BY <1>1 DEF SetStatus, PublisherInv
  <1>3. CASE latest = s
    <2>1. latest' = latest /\ rx' = rx /\ view' = view
      BY <1>2, <1>3 DEF SetStatus, Publish
    <2>2. behind' = behind
      BY <1>1, <1>2, <1>3 DEF SetStatus, Witness, BroadcastTypeOK
    <2>3. ASSUME NEW w \in Waiters
          PROVE  met[w] = (met[w] \/ (Subscribed(w) /\ want[w] = s.kind))
      BY <1>1, <1>2, <1>3 DEF WaiterInv, Subscribed, BroadcastTypeOK
    <2>4. met' = met
      BY <1>1, <2>3 DEF SetStatus, Witness, BroadcastTypeOK
    <2>5. UNCHANGED broadcastVars
      BY <1>2, <2>1, <2>2, <2>4 DEF broadcastVars
    <2>6. QED
      BY <2>5, BroadcastStutters
  <1>4. CASE latest # s
    <2>1. /\ latest' = s
          /\ rx' = [w \in Waiters |-> IF Subscribed(w) THEN Received(rx[w], s) ELSE rx[w]]
          /\ met' = [w \in Waiters |-> met[w] \/ (Subscribed(w) /\ want[w] = s.kind)]
          /\ behind' = [w \in Waiters |->
                          IF Subscribed(w) /\ behind[w] <= ChannelSize
                          THEN behind[w] + 1 ELSE behind[w]]
      BY <1>2, <1>4 DEF SetStatus, Publish, Witness
    <2>2. ASSUME NEW w \in Waiters
          PROVE  /\ rx[w] \in Receiver /\ met[w] \in BOOLEAN /\ behind[w] \in 0..ChannelSize + 1
                 /\ Received(rx[w], s) \in Receiver
      BY <1>1, ReceivedFacts DEF BroadcastTypeOK
    <2>3. BroadcastTypeOK'
      <3>1. rx' \in [Waiters -> Receiver]
        BY <2>1, <2>2
      <3>2. met' \in [Waiters -> BOOLEAN]
        BY <2>1, <2>2
      <3>3. behind' \in [Waiters -> 0..ChannelSize + 1]
        BY <1>1, <2>1, <2>2
      <3>4. QED
        BY <1>1, <1>2, <2>1, <3>1, <3>2, <3>3 DEF BroadcastTypeOK
    <2>4. PublisherInv'
      BY <1>2, <2>1 DEF PublisherInv
    <2>5. ASSUME NEW w \in Waiters, Subscribed(w) PROVE WaiterInv(w)'
      <3> DEFINE r == rx[w]
                 n == Received(rx[w], s)
      <3>1. /\ rx'[w] = n /\ met'[w] = (met[w] \/ want[w] = s.kind)
            /\ behind'[w] = IF behind[w] <= ChannelSize THEN behind[w] + 1 ELSE behind[w]
            /\ waiter[w] = "waiting" /\ ~r.closed
        BY <2>1, <2>5 DEF Subscribed
      <3>2. /\ Unseen(w) => met[w]
            /\ met[w] => Unseen(w) \/ r.lagged
            /\ r.lagged => r.unread # <<>> /\ behind[w] > ChannelSize
            /\ ~r.lagged => Len(r.unread) <= behind[w]
        BY <1>1, <3>1 DEF WaiterInv
      <3>3. r \in Receiver /\ met[w] \in BOOLEAN /\ behind[w] \in 0..ChannelSize + 1
        BY <2>2
      <3>4. /\ n \in Receiver
            /\ n.closed = r.closed
            /\ n.unread # <<>>
            /\ \A i \in 1..Len(n.unread) :
                 \/ n.unread[i] = s
                 \/ \E j \in 1..Len(r.unread) : n.unread[i] = r.unread[j]
            /\ \E i \in 1..Len(n.unread) : n.unread[i] = s
            /\ \/ n.lagged /\ Len(r.unread) = ChannelSize
               \/ /\ n.lagged = r.lagged
                  /\ Len(n.unread) = Len(r.unread) + 1
                  /\ \A j \in 1..Len(r.unread) : n.unread[j] = r.unread[j]
        BY <3>3, ReceivedFacts
      <3>5. /\ Len(r.unread) \in Nat /\ Len(n.unread) \in Nat
            /\ Len(r.unread) <= ChannelSize /\ Len(n.unread) <= ChannelSize
            /\ r.lagged \in BOOLEAN /\ n.lagged \in BOOLEAN
        BY <3>3, <3>4, ReceiverFacts, LenProperties
      <3> HIDE DEF r, n
      <3>6. Unseen(w)' <=> \/ \E v \in current[w] : v.kind = want[w]
                           \/ \E i \in 1..Len(n.unread) : n.unread[i].kind = want[w]
        BY <1>2, <3>1 DEF Unseen, Holds
      <3>7. Unseen(w) <=> \/ \E v \in current[w] : v.kind = want[w]
                          \/ \E i \in 1..Len(r.unread) : r.unread[i].kind = want[w]
        BY DEF Unseen, Holds, r
      <3>8. Unseen(w)' => met'[w]
        <4>1. CASE \E v \in current[w] : v.kind = want[w]
          BY <3>1, <3>2, <3>7, <4>1
        <4>2. ASSUME NEW i \in 1..Len(n.unread), n.unread[i].kind = want[w]
              PROVE  met'[w]
          <5>1. CASE n.unread[i] = s
            BY <3>1, <4>2, <5>1
          <5>2. ASSUME NEW j \in 1..Len(r.unread), n.unread[i] = r.unread[j]
                PROVE  met'[w]
            <6>1. Unseen(w)
              BY <3>7, <4>2, <5>2
            <6>2. QED
              BY <3>1, <3>2, <6>1
          <5>3. QED
            BY <3>4, <5>1, <5>2
        <4>3. QED
          BY <3>6, <4>1, <4>2
      <3>9. met'[w] => Unseen(w)' \/ n.lagged
        <4>1. CASE want[w] = s.kind
          BY <3>4, <3>6, <4>1
        <4>2. CASE met[w] /\ ~n.lagged
          <5>1. Unseen(w) /\ Len(n.unread) = Len(r.unread) + 1
                  /\ \A j \in 1..Len(r.unread) : n.unread[j] = r.unread[j]
            BY <3>2, <3>4, <4>2
          <5>2. \A j \in 1..Len(r.unread) : j \in 1..Len(n.unread)
            BY <3>5, <5>1
          <5>3. QED
            BY <3>6, <3>7, <5>1, <5>2
        <4>3. QED
          BY <3>1, <4>1, <4>2
      <3>10. n.lagged => behind'[w] > ChannelSize
        <4>1. CASE r.lagged
          BY <1>1, <3>1, <3>2, <3>3, <4>1
        <4>2. CASE n.lagged /\ ~r.lagged
          <5>1. ChannelSize <= behind[w]
            BY <3>2, <3>4, <3>5, <4>2
          <5>2. QED
            BY <1>1, <3>1, <3>3, <5>1
        <4>3. QED
          BY <4>1, <4>2
      <3>11. ~n.lagged => Len(n.unread) <= behind'[w]
        BY <1>1, <3>1, <3>2, <3>3, <3>4, <3>5
      <3>12. want[w] = s.kind => met'[w]
        BY <3>1
      <3>13. QED
        BY <1>2, <3>1, <3>4, <3>8, <3>9, <3>10, <3>11, <3>12 DEF WaiterInv
    <2>6. ASSUME NEW w \in Waiters, ~Subscribed(w) PROVE WaiterInv(w)'
      <3>1. rx'[w] = rx[w] /\ met'[w] = met[w] /\ behind'[w] = behind[w]
        BY <2>1, <2>2, <2>6
      <3>2. Unseen(w)' <=> Unseen(w)
        BY <1>2, <3>1 DEF Unseen, Holds
      <3>3. waiter[w] = "waiting" => rx[w].closed
        BY <2>6 DEF Subscribed
      <3>4. QED
        BY <1>1, <1>2, <3>1, <3>2, <3>3 DEF WaiterInv
    <2>7. QED
      BY <2>3, <2>4, <2>5, <2>6 DEF BroadcastInv
  <1>5. QED
    BY <1>3, <1>4

\* create_service: all who still wait do so for the incarnation before.
LEMMA CreateKeeps ==
    ASSUME BroadcastInv, NEW s \in Views, Create(s)
    PROVE  BroadcastInv'
  <1>1. /\ view = Absent /\ view' = s /\ latest' = s
        /\ waiter' = waiter /\ want' = want /\ current' = current /\ rx' = rx
        /\ met' = met /\ behind' = behind
    BY DEF Create, waitVars
  <1>2. BroadcastTypeOK'
    BY <1>1 DEF BroadcastInv, BroadcastTypeOK
  <1>3. PublisherInv'
    BY <1>1 DEF PublisherInv
  <1>4. ASSUME NEW w \in Waiters PROVE WaiterInv(w)'
    <2>1. Unseen(w)' <=> Unseen(w)
      BY <1>1 DEF Unseen, Holds
    <2>2. waiter[w] = "waiting" => rx[w].closed
      BY <1>1 DEF BroadcastInv, WaiterInv
    <2>3. QED
      BY <1>1, <2>1, <2>2 DEF BroadcastInv, WaiterInv
  <1>5. QED
    BY <1>2, <1>3, <1>4 DEF BroadcastInv

\* The Sender is dropped: receivers keep what they hold and learn that it is all.
LEMMA PruneKeeps == BroadcastInv /\ Prune => BroadcastInv'
  <1> SUFFICES ASSUME BroadcastInv, Prune PROVE BroadcastInv'
    OBVIOUS
  <1>1. /\ view' = Absent /\ latest' = latest
        /\ waiter' = waiter /\ want' = want /\ current' = current
        /\ met' = met /\ behind' = behind
        /\ rx' = [w \in Waiters |-> IF waiter[w] = "waiting" THEN [rx[w] EXCEPT !.closed = TRUE]
                                    ELSE rx[w]]
    BY DEF Prune
  <1>2. ASSUME NEW w \in Waiters
        PROVE  /\ rx'[w] \in Receiver
               /\ rx'[w].unread = rx[w].unread /\ rx'[w].lagged = rx[w].lagged
               /\ waiter[w] = "waiting" => rx'[w].closed
    <2>1. rx[w] \in Receiver
      BY DEF BroadcastInv, BroadcastTypeOK
    <2>2. QED
      BY <1>1, <2>1 DEF Receiver
  <1>3. BroadcastTypeOK'
    <2>1. rx' \in [Waiters -> Receiver]
      BY <1>1, <1>2
    <2>2. QED
      BY <1>1, <2>1, ViewFacts DEF BroadcastInv, BroadcastTypeOK
  <1>4. PublisherInv'
    BY <1>1 DEF PublisherInv
  <1>5. ASSUME NEW w \in Waiters PROVE WaiterInv(w)'
    <2>1. Unseen(w)' <=> Unseen(w)
      BY <1>1, <1>2 DEF Unseen, Holds
    <2>2. QED
      BY <1>1, <1>2, <2>1 DEF BroadcastInv, WaiterInv
  <1>6. QED
    BY <1>3, <1>4, <1>5 DEF BroadcastInv

\* What a request does leaves the publisher and the other requests alone.
LEMMA OthersKeep ==
    ASSUME BroadcastInv, NEW w \in Waiters, NEW o \in Waiters \ {w},
           view' = view,
           waiter'[o] = waiter[o], want'[o] = want[o], current'[o] = current[o],
           rx'[o] = rx[o], met'[o] = met[o], behind'[o] = behind[o]
    PROVE  WaiterInv(o)'
  <1>1. Unseen(o)' <=> Unseen(o)
    BY DEF Unseen, Holds
  <1>2. QED
    BY <1>1 DEF BroadcastInv, WaiterInv

\* wait_service: the request goes to the main loop.
LEMMA RequestWaitKeeps ==
    ASSUME BroadcastInv, NEW w \in Waiters, RequestWait(w)
    PROVE  BroadcastInv'
  <1>1. BroadcastTypeOK /\ PublisherInv /\ WaiterInv(w)
    BY DEF BroadcastInv
  <1>2. PICK k \in WantedKinds : want' = [want EXCEPT ![w] = k]
    BY DEF RequestWait
  <1>3. BroadcastTypeOK'
    BY <1>1, <1>2, BroadcastAssumption DEF RequestWait, BroadcastTypeOK
  <1>4. PublisherInv'
    BY <1>1 DEF RequestWait, PublisherInv
  <1>5. WaiterInv(w)'
    BY <1>1 DEF RequestWait, WaiterInv, BroadcastTypeOK
  <1>6. ASSUME NEW o \in Waiters \ {w} PROVE WaiterInv(o)'
    <2>1. waiter'[o] = waiter[o] /\ want'[o] = want[o]
      BY <1>1, <1>2 DEF RequestWait, BroadcastTypeOK
    <2>2. QED
      BY <2>1, OthersKeep DEF RequestWait
  <1>7. QED
    BY <1>3, <1>4, <1>5, <1>6 DEF BroadcastInv

\* ServiceManager::subscribe: the status of now is the first thing the request looks at, so
\* nothing falls between the question and the subscription.
LEMMA SubscribeKeeps ==
    ASSUME BroadcastInv, NEW w \in Waiters, Subscribe(w)
    PROVE  BroadcastInv'
  <1>1. BroadcastTypeOK /\ PublisherInv /\ WaiterInv(w)
    BY DEF BroadcastInv
  <1>2. /\ waiter[w] = "asked" /\ view # Absent /\ latest = view
        /\ waiter' = [waiter EXCEPT ![w] = "waiting"]
        /\ current' = [current EXCEPT ![w] = {latest}]
        /\ rx' = [rx EXCEPT ![w] = NewReceiver]
        /\ met' = [met EXCEPT ![w] = want[w] = view.kind]
        /\ view' = view /\ latest' = latest /\ want' = want /\ behind' = behind
    BY <1>1 DEF Subscribe, PublisherInv
  <1>3. BroadcastTypeOK'
    BY <1>1, <1>2, ReceiverFacts DEF BroadcastTypeOK
  <1>4. PublisherInv'
    BY <1>1, <1>2 DEF PublisherInv
  <1>5. WaiterInv(w)'
    <2>1. /\ waiter'[w] = "waiting" /\ current'[w] = {view} /\ rx'[w] = NewReceiver
          /\ met'[w] = (want[w] = view.kind)
          /\ behind[w] = 0
      BY <1>1, <1>2 DEF BroadcastTypeOK, WaiterInv
    <2>2. /\ NewReceiver.unread = <<>> /\ ~NewReceiver.lagged /\ ~NewReceiver.closed
          /\ Len(<<>>) = 0
      BY ReceiverFacts
    <2>3. Unseen(w)' <=> view.kind = want[w]
      BY <1>2, <2>1, <2>2 DEF Unseen, Holds
    <2>4. Unseen(w)' <=> met'[w]
      BY <2>1, <2>3
    <2>5. ~rx'[w].lagged
      BY <2>1, <2>2
    <2>6. Len(rx'[w].unread) <= behind'[w]
      BY <1>2, <2>1, <2>2
    <2>7. view' # Absent /\ (want'[w] = view'.kind => met'[w])
      BY <1>2, <2>1
    <2>8. QED
      BY <2>1, <2>4, <2>5, <2>6, <2>7 DEF WaiterInv
  <1>6. ASSUME NEW o \in Waiters \ {w} PROVE WaiterInv(o)'
    <2>1. /\ waiter'[o] = waiter[o] /\ current'[o] = current[o] /\ rx'[o] = rx[o]
          /\ met'[o] = met[o]
      BY <1>1, <1>2 DEF BroadcastTypeOK
    <2>2. QED
      BY <1>2, <2>1, OthersKeep
  <1>7. QED
    BY <1>3, <1>4, <1>5, <1>6 DEF BroadcastInv

\* A wait refused: the service is already where it can no longer be waited for.
LEMMA RefuseKeeps ==
    ASSUME BroadcastInv, NEW w \in Waiters, Refuse(w)
    PROVE  BroadcastInv'
  <1>1. BroadcastTypeOK /\ PublisherInv /\ WaiterInv(w)
    BY DEF BroadcastInv
  <1>2. BroadcastTypeOK'
    BY <1>1 DEF Refuse, BroadcastTypeOK
  <1>3. PublisherInv'
    BY <1>1 DEF Refuse, PublisherInv
  <1>4. WaiterInv(w)'
    BY <1>1 DEF Refuse, WaiterInv, BroadcastTypeOK
  <1>5. ASSUME NEW o \in Waiters \ {w} PROVE WaiterInv(o)'
    <2>1. waiter'[o] = waiter[o]
      BY <1>1 DEF Refuse, BroadcastTypeOK
    <2>2. QED
      BY <2>1, OthersKeep DEF Refuse
  <1>6. QED
    BY <1>2, <1>3, <1>4, <1>5 DEF BroadcastInv

\* The loop of wait_service looks at all there is: what it answers is right, and if it goes on
\* waiting nothing it has seen was what it waits for.
LEMMA PollKeeps ==
    ASSUME BroadcastInv, NEW w \in Waiters, Poll(w)
    PROVE  BroadcastInv'
  <1>1. BroadcastTypeOK /\ PublisherInv /\ WaiterInv(w) /\ ChannelSize \in Nat \ {0}
    BY BroadcastAssumption DEF BroadcastInv
  <1>2. /\ waiter[w] = "waiting"
        /\ waiter' = [waiter EXCEPT ![w] = Verdict(w)]
        /\ current' = [current EXCEPT ![w] = {}]
        /\ rx' = [rx EXCEPT ![w] = NewReceiver]
        /\ behind' = [behind EXCEPT ![w] = IF rx[w].lagged THEN @ ELSE 0]
        /\ view' = view /\ latest' = latest /\ want' = want /\ met' = met
    BY DEF Poll
  <1>3. Verdict(w) \in {"reached", "lagged", "pruned", "waiting"}
    BY DEF Verdict
  <1>4. /\ Verdict(w) = "reached" => Unseen(w)
        /\ Verdict(w) = "lagged" => rx[w].lagged
        /\ Verdict(w) = "pruned" => ~Unseen(w) /\ ~rx[w].lagged
        /\ Verdict(w) = "waiting" => ~Unseen(w) /\ ~rx[w].lagged /\ ~rx[w].closed
    BY DEF Verdict, Unseen
  <1>5. BroadcastTypeOK'
    <2>1. behind' \in [Waiters -> 0..ChannelSize + 1]
      BY <1>1, <1>2 DEF BroadcastTypeOK
    <2>2. QED
      BY <1>1, <1>2, <1>3, <2>1, ReceiverFacts DEF BroadcastTypeOK
  <1>6. PublisherInv'
    BY <1>1, <1>2 DEF PublisherInv
  <1>7. WaiterInv(w)'
    <2>1. /\ waiter'[w] = Verdict(w) /\ current'[w] = {} /\ rx'[w] = NewReceiver
          /\ behind'[w] = IF rx[w].lagged THEN behind[w] ELSE 0
      BY <1>1, <1>2 DEF BroadcastTypeOK
    <2>2. /\ Unseen(w) => met[w]
          /\ met[w] => Unseen(w) \/ rx[w].lagged
          /\ rx[w].lagged => behind[w] > ChannelSize
          /\ ~rx[w].closed => view # Absent /\ (want[w] = view.kind => met[w])
      BY <1>1, <1>2 DEF WaiterInv
    <2>3. /\ NewReceiver.unread = <<>> /\ ~NewReceiver.lagged /\ ~NewReceiver.closed
          /\ Len(<<>>) = 0
      BY ReceiverFacts
    <2>4. ~Unseen(w)'
      BY <2>1, <2>3 DEF Unseen
    <2>5. CASE Verdict(w) = "waiting"
      <3>1. ~Unseen(w) /\ ~rx[w].lagged /\ ~rx[w].closed
        BY <1>4, <2>5
      <3>2. ~met[w] /\ behind'[w] = 0
        BY <2>1, <2>2, <3>1
      <3>3. QED
        BY <1>2, <2>1, <2>2, <2>3, <2>4, <2>5, <3>1, <3>2 DEF WaiterInv
    <2>6. CASE Verdict(w) # "waiting"
      BY <1>2, <1>3, <1>4, <2>1, <2>2, <2>6 DEF WaiterInv
    <2>7. QED
      BY <2>5, <2>6
  <1>8. ASSUME NEW o \in Waiters \ {w} PROVE WaiterInv(o)'
    <2>1. /\ waiter'[o] = waiter[o] /\ current'[o] = current[o] /\ rx'[o] = rx[o]
          /\ behind'[o] = behind[o]
      BY <1>1, <1>2 DEF BroadcastTypeOK
    <2>2. QED
      BY <1>2, <2>1, OthersKeep
  <1>9. QED
    BY <1>5, <1>6, <1>7, <1>8 DEF BroadcastInv

\* A wait that has answered is forgotten.
LEMMA LeaveKeeps ==
    ASSUME BroadcastInv, NEW w \in Waiters, Leave(w)
    PROVE  BroadcastInv'
  <1>1. BroadcastTypeOK /\ PublisherInv /\ WaiterInv(w) /\ ChannelSize \in Nat \ {0}
    BY BroadcastAssumption DEF BroadcastInv
  <1>2. /\ waiter' = [waiter EXCEPT ![w] = "idle"]
        /\ current' = [current EXCEPT ![w] = {}]
        /\ rx' = [rx EXCEPT ![w] = NewReceiver]
        /\ met' = [met EXCEPT ![w] = FALSE]
        /\ behind' = [behind EXCEPT ![w] = 0]
        /\ view' = view /\ latest' = latest /\ want' = want
    BY DEF Leave
  <1>3. BroadcastTypeOK'
    BY <1>1, <1>2, ReceiverFacts DEF BroadcastTypeOK
  <1>4. PublisherInv'
    BY <1>1, <1>2 DEF PublisherInv
  <1>5. WaiterInv(w)'
    BY <1>1, <1>2 DEF WaiterInv, BroadcastTypeOK
  <1>6. ASSUME NEW o \in Waiters \ {w} PROVE WaiterInv(o)'
    <2>1. /\ waiter'[o] = waiter[o] /\ current'[o] = current[o] /\ rx'[o] = rx[o]
          /\ met'[o] = met[o] /\ behind'[o] = behind[o]
      BY <1>1, <1>2 DEF BroadcastTypeOK
    <2>2. QED
      BY <1>2, <2>1, OthersKeep
  <1>7. QED
    BY <1>3, <1>4, <1>5, <1>6 DEF BroadcastInv

\* With nothing left to look at, the condition was not met; a receiver that lagged holds
\* something, so it is looked at.
LEMMA InvariantIsExact == BroadcastInv => WaitIsExact
  <1> SUFFICES ASSUME BroadcastInv, NEW w \in Waiters
               PROVE  /\ waiter[w] = "reached" => met[w]
                      /\ waiter[w] = "pruned" => ~met[w]
                      /\ waiter[w] = "waiting" /\ ~Ready(w) => ~met[w]
                      /\ waiter[w] = "lagged" => behind[w] > ChannelSize
    BY DEF WaitIsExact
  <1>1. WaiterInv(w)
    BY DEF BroadcastInv
  <1>2. ASSUME waiter[w] = "waiting", ~Ready(w) PROVE ~met[w]
    <2>1. current[w] = {} /\ rx[w].unread = <<>>
      BY <1>2 DEF Ready
    <2>2. ~Unseen(w)
      BY <2>1 DEF Unseen
    <2>3. QED
      BY <1>1, <1>2, <2>1, <2>2 DEF WaiterInv
  <1>3. QED
    BY <1>1, <1>2 DEF WaiterInv

-----------------------------------------------------------------------------
(* The probe.                                                              *)

\* The greatest element of a set of numbers, once it is known.
LEMMA MaxIs ==
    ASSUME NEW S \in SUBSET Nat, NEW m \in S, \A x \in S : x <= m
    PROVE  Max(S) = m
  <1>1. \E x \in S : \A y \in S : x >= y
    BY SMT
  <1>2. Max(S) \in S /\ \A y \in S : Max(S) >= y
    BY <1>1 DEF Max
  <1>3. Max(S) \in Nat /\ m \in Nat /\ Max(S) <= m /\ Max(S) >= m
    BY <1>2
  <1>4. QED
    BY <1>3

\* A threshold of zero counts as one.
LEMMA ThresholdIs ==
    ASSUME NEW l \in Probes
    PROVE  /\ l.threshold \in Nat /\ l.retries \in Nat
           /\ Max({1, l.threshold}) = IF l.threshold = 0 THEN 1 ELSE l.threshold
           /\ Max({1, l.threshold}) \in Nat \ {0}
  <1> DEFINE t == l.threshold
  <1>1. t \in Nat /\ l.retries \in Nat
    BY ProbeAssumption
  <1> HIDE DEF t
  <1>2. CASE t = 0
    BY <1>1, <1>2, MaxIs DEF t
  <1>3. CASE t # 0
    BY <1>1, <1>3, MaxIs DEF t
  <1>4. QED
    BY <1>2, <1>3

\* The counter is the number of failed answers in a row.
LEMMA StreakIs ==
    ASSUME ProbeTypeOK, FailuresCounted
    PROVE  Streak = failures
  <1> DEFINE n == Len(answers)
             S == {k \in 0..n : \A i \in n - k + 1..n : ~answers[i]}
  <1>1. failures \in Nat /\ n \in Nat
    BY ProbeAssumption, LenProperties DEF ProbeTypeOK
  <1>2. /\ failures <= n
        /\ \A i \in n - failures + 1..n : ~answers[i]
        /\ failures < n => answers[n - failures]
    BY DEF FailuresCounted
  <1>3. Streak = Max(S)
    BY DEF Streak
  <1> HIDE DEF n
  <1>4. failures \in S
    BY <1>1, <1>2
  <1>5. ASSUME NEW k \in S PROVE k <= failures
    <2>1. k \in 0..n /\ \A i \in n - k + 1..n : ~answers[i]
      OBVIOUS
    <2> SUFFICES ASSUME k > failures PROVE FALSE
      BY <1>1, <2>1
    <2>2. n - failures \in n - k + 1..n /\ failures < n
      BY <1>1, <2>1
    <2>3. QED
      BY <1>2, <2>1, <2>2
  <1>6. S \in SUBSET Nat
    BY <1>1
  <1> HIDE DEF S
  <1>7. QED
    BY <1>3, <1>4, <1>5, <1>6, MaxIs

\* What the counter says of the task, it says of the answers.
LEMMA InvariantIsRight == ProbeTypeOK /\ ProbeInv => VerdictIsRight
  BY StreakIs DEF ProbeInv, VerdictIsRight

\* A task that starts, or that is over, has counted nothing.
LEMMA NothingCounted ==
    ASSUME liveness' \in Probes, failures' = 0, answers' = <<>>, task' \in {"none", "asking"},
           reports' \in 0..QueueSize
    PROVE  ProbeTypeOK' /\ ProbeInv'
  <1>1. Required' \in Nat \ {0} /\ liveness'.retries \in Nat /\ liveness'.threshold \in Nat
    BY ThresholdIs DEF Required
  <1>2. answers' \in Seq(BOOLEAN) /\ Len(answers') = 0
    OBVIOUS
  <1>3. ProbeTypeOK'
    BY <1>1, <1>2 DEF ProbeTypeOK
  <1>4. FailuresCounted'
    BY <1>2 DEF FailuresCounted
  <1>5. QED
    BY <1>1, <1>3, <1>4 DEF ProbeInv

\* The history of the answers: the new one is last, and the oldest goes when it is full.
LEMMA RememberFacts ==
    ASSUME ProbeTypeOK, NEW h \in BOOLEAN, Remember(h)
    PROVE  /\ answers' \in Seq(BOOLEAN)
           /\ Len(answers') = IF Len(answers) <= liveness.retries THEN Len(answers) + 1
                              ELSE Len(answers)
           /\ answers'[Len(answers')] = h
           /\ \A i \in 1..Len(answers') - 1 :
                answers'[i] = answers[i + Len(answers) + 1 - Len(answers')]
  <1> DEFINE a == answers
             t == Tail(answers)
  <1>1. a \in Seq(BOOLEAN) /\ Len(a) \in Nat /\ liveness.retries \in Nat
    BY ProbeAssumption, LenProperties DEF ProbeTypeOK
  <1>2. CASE Len(a) <= liveness.retries
    <2>1. answers' = Append(a, h)
      BY <1>2 DEF Remember
    <2> HIDE DEF a
    <2>2. /\ Append(a, h) \in Seq(BOOLEAN) /\ Len(Append(a, h)) = Len(a) + 1
          /\ Append(a, h)[Len(a) + 1] = h
          /\ \A i \in 1..Len(a) : Append(a, h)[i] = a[i]
      BY <1>1
    <2> DEFINE b == answers'
    <2>3. /\ b \in Seq(BOOLEAN) /\ Len(b) = Len(a) + 1 /\ b[Len(a) + 1] = h
          /\ \A i \in 1..Len(a) : b[i] = a[i]
      BY <2>1, <2>2
    <2> HIDE DEF b
    <2>4. \A i \in 1..Len(b) - 1 : b[i] = a[i + Len(a) + 1 - Len(b)]
      <3> SUFFICES ASSUME NEW i \in 1..Len(b) - 1 PROVE b[i] = a[i + Len(a) + 1 - Len(b)]
        OBVIOUS
      <3>1. i \in 1..Len(a) /\ i + Len(a) + 1 - Len(b) = i
        BY <1>1, <2>3
      <3>2. QED
        BY <2>3, <3>1
    <2>5. QED
      BY <1>2, <2>3, <2>4 DEF a, b
  <1>3. CASE ~(Len(a) <= liveness.retries)
    <2>1. answers' = Append(t, h) /\ a # <<>>
      BY <1>1, <1>3 DEF Remember
    <2>2. /\ t \in Seq(BOOLEAN) /\ Len(t) = Len(a) - 1
          /\ \A i \in 1..Len(t) : t[i] = a[i + 1]
      BY <1>1, <2>1, HeadTailProperties
    <2> HIDE DEF a, t
    <2>3. /\ Append(t, h) \in Seq(BOOLEAN) /\ Len(Append(t, h)) = Len(a)
          /\ Append(t, h)[Len(a)] = h
          /\ \A i \in 1..Len(a) - 1 : Append(t, h)[i] = a[i + 1]
      BY <1>1, <2>2
    <2> DEFINE b == answers'
    <2>4. /\ b \in Seq(BOOLEAN) /\ Len(b) = Len(a) /\ b[Len(a)] = h
          /\ \A i \in 1..Len(a) - 1 : b[i] = a[i + 1]
      BY <2>1, <2>3
    <2> HIDE DEF b
    <2>5. \A i \in 1..Len(b) - 1 : b[i] = a[i + Len(a) + 1 - Len(b)]
      <3> SUFFICES ASSUME NEW i \in 1..Len(b) - 1 PROVE b[i] = a[i + Len(a) + 1 - Len(b)]
        OBVIOUS
      <3>1. i \in 1..Len(a) - 1 /\ i + Len(a) + 1 - Len(b) = i + 1
        BY <1>1, <2>4
      <3>2. QED
        BY <2>4, <3>1
    <2>6. QED
      BY <1>3, <2>4, <2>5 DEF a, b
  <1>4. QED
    BY <1>2, <1>3

\* An answer: a good one resets the counter, a failed one adds to what it counts.
LEMMA AskKeeps ==
    ASSUME ProbeTypeOK, ProbeInv, NEW h \in BOOLEAN, Ask(h)
    PROVE  ProbeTypeOK' /\ ProbeInv'
  <1> DEFINE n == Len(answers)
             m == Len(answers')
  <1>1. /\ answers' \in Seq(BOOLEAN)
        /\ m = IF n <= liveness.retries THEN n + 1 ELSE n
        /\ answers'[m] = h
        /\ \A i \in 1..m - 1 : answers'[i] = answers[i + n + 1 - m]
    BY RememberFacts DEF Ask
  <1>2. /\ liveness.retries \in Nat /\ failures \in Nat /\ n \in Nat /\ n <= liveness.retries + 1
        /\ Required \in Nat \ {0}
    BY ThresholdIs, LenProperties DEF ProbeTypeOK, Required
  <1>3. /\ task = "asking" /\ failures < Required /\ failures <= liveness.retries
        /\ failures <= n
        /\ \A i \in n - failures + 1..n : ~answers[i]
        /\ failures < n => answers[n - failures]
    BY DEF Ask, ProbeInv, FailuresCounted
  <1>4. /\ liveness' = liveness /\ reports' = reports /\ Required' = Required
        /\ h => failures' = 0 /\ task' = "asking"
        /\ ~h => failures' = failures + 1 /\ task' = "failed"
    BY DEF Ask, Required
  <1> HIDE DEF n, m
  <1>5. m \in Nat \ {0} /\ m <= liveness.retries + 1
    BY <1>1, <1>2
  <1>6. ProbeTypeOK'
    <2>1. failures' \in 0..liveness.retries + 1
      BY <1>2, <1>3, <1>4
    <2>2. answers' \in Seq(BOOLEAN) /\ Len(answers') <= liveness.retries + 1
      BY <1>1, <1>5 DEF m
    <2>3. QED
      BY <1>4, <2>1, <2>2 DEF ProbeTypeOK
  <1>7. FailuresCounted'
    <2>1. CASE h
      <3>1. \A i \in m - 0 + 1..m : ~answers'[i]
        BY <1>5
      <3>2. m - 0 = m /\ answers'[m]
        BY <1>1, <1>5, <2>1
      <3>3. QED
        BY <1>4, <1>5, <2>1, <3>1, <3>2 DEF FailuresCounted, m
    <2>2. CASE ~h
      <3>1. failures + 1 <= m
        BY <1>1, <1>2, <1>3
      <3>2. ASSUME NEW i \in m - (failures + 1) + 1..m PROVE ~answers'[i]
        <4>1. CASE i = m
          BY <1>1, <2>2, <4>1
        <4>2. CASE i # m
          <5>1. i \in 1..m - 1 /\ i + n + 1 - m \in n - failures + 1..n
            BY <1>1, <1>2, <1>5, <3>1, <4>2
          <5>2. QED
            BY <1>1, <1>3, <5>1
        <4>3. QED
          BY <4>1, <4>2
      <3>3. ASSUME failures + 1 < m PROVE answers'[m - (failures + 1)]
        <4> DEFINE i == m - (failures + 1)
        <4>1. i \in 1..m - 1 /\ i + n + 1 - m = n - failures /\ failures < n
          BY <1>1, <1>2, <1>5, <3>3
        <4>2. QED
          BY <1>1, <1>3, <4>1
      <3>4. QED
        BY <1>4, <2>2, <3>1, <3>2, <3>3 DEF FailuresCounted, m
    <2>3. QED
      BY <2>1, <2>2
  <1>8. QED
    BY <1>2, <1>3, <1>4, <1>6, <1>7 DEF ProbeInv

\* The comparisons with max_retries and failure_threshold, in this order.
LEMMA JudgeKeeps ==
    ASSUME ProbeTypeOK, ProbeInv, Judge
    PROVE  ProbeTypeOK' /\ ProbeInv'
  <1> DEFINE n == liveness.retries
             t == liveness.threshold
             R == Required
  <1>1. /\ n \in Nat /\ t \in Nat /\ R = (IF t = 0 THEN 1 ELSE t) /\ failures \in Nat
    BY ThresholdIs DEF ProbeTypeOK, Required
  <1>2. /\ task = "failed" /\ failures \in 1..R /\ failures <= n + 1
        /\ FailuresCounted
    BY DEF Judge, ProbeInv
  <1>3. /\ liveness' = liveness /\ failures' = failures /\ reports' = reports
        /\ answers' = answers /\ Required' = R
        /\ FailuresCounted'
    BY <1>2 DEF Judge, Required, FailuresCounted
  <1>4. \/ task' = "exceeded" /\ failures > n
        \/ task' = "exhausted" /\ failures <= n /\ failures >= t
        \/ task' = "asking" /\ ~(failures > n) /\ ~(failures <= n /\ failures >= t)
    BY DEF Judge
  <1> HIDE DEF n, t, R
  <1>5. \/ task' = "exceeded" /\ failures = n + 1 /\ R > n
        \/ task' = "exhausted" /\ failures = R /\ failures <= n
        \/ task' = "asking" /\ failures < R /\ failures <= n
    BY <1>1, <1>2, <1>4
  <1>6. ProbeTypeOK'
    BY <1>3, <1>5 DEF ProbeTypeOK
  <1>7. QED
    BY <1>3, <1>5, <1>6 DEF ProbeInv, n, R

-----------------------------------------------------------------------------
(* The two together.                                                       *)

\* The probe starts and ends with Running, so it runs in no other status.
LEMMA ProbeFollowsKeeps ==
    ASSUME WatchedTypeOK, ProbeInv, NEW s \in Views, ProbeFollows(s), view' = s,
           reports' \in 0..QueueSize, liveness' = liveness
    PROVE  ProbeTypeOK' /\ ProbeInv' /\ (task' # "none" => view'.kind = "Running")
  <1>1. liveness' \in Probes
    BY DEF WatchedTypeOK, ProbeTypeOK
  <1>2. CASE s.kind = "Running" /\ view.kind # "Running"
    <2>1. StartProbe
      BY <1>2 DEF ProbeFollows
    <2>2. QED
      BY <1>1, <1>2, <2>1, NothingCounted DEF StartProbe
  <1>3. CASE s.kind # "Running" /\ view.kind = "Running"
    <2>1. AbortTask
      BY <1>3 DEF ProbeFollows
    <2>2. QED
      BY <1>1, <2>1, NothingCounted DEF AbortTask
  <1>4. CASE (s.kind = "Running") <=> (view.kind = "Running")
    <2>1. task' = task /\ failures' = failures /\ answers' = answers
      BY <1>4 DEF ProbeFollows
    <2>2. ProbeTypeOK'
      BY <2>1 DEF WatchedTypeOK, ProbeTypeOK
    <2>3. ProbeInv'
      BY <2>1 DEF ProbeInv, FailuresCounted, Required
    <2>4. QED
      BY <1>4, <2>1, <2>2, <2>3 DEF WatchedTypeOK
  <1>5. QED
    BY <1>2, <1>3, <1>4

\* The invariant holds before anything is sent or probed.
LEMMA WatchedStart == WatchedInit => WatchedInv
  <1> SUFFICES ASSUME WatchedInit PROVE WatchedInv
    OBVIOUS
  <1>1. BroadcastInv
    BY BroadcastStart DEF WatchedInit
  <1>2. /\ liveness \in Probes /\ failures = 0 /\ answers = <<>> /\ task = "none" /\ reports = 0
        /\ healthy \in BOOLEAN
    BY DEF WatchedInit, ProbeInit
  <1>3. /\ liveness.retries \in Nat /\ QueueSize \in Nat /\ Len(answers) = 0
        /\ answers \in Seq(BOOLEAN)
    BY <1>2, ProbeAssumption, ThresholdIs
  <1>4. ProbeTypeOK
    BY <1>2, <1>3 DEF ProbeTypeOK
  <1>5. ProbeInv
    BY <1>2, <1>3 DEF ProbeInv, FailuresCounted
  <1>6. QED
    BY <1>1, <1>2, <1>4, <1>5 DEF WatchedInv, WatchedTypeOK, BroadcastInv

\* WatchedInv from its parts.
LEMMA WatchedParts ==
    ASSUME BroadcastInv', ProbeTypeOK', ProbeInv', healthy' \in BOOLEAN,
           task' # "none" => view'.kind = "Running"
    PROVE  WatchedInv'
  BY DEF WatchedInv, WatchedTypeOK, BroadcastInv

\* Every handler, every await of the task and of a request keeps the invariant.
LEMMA WatchedStep == WatchedInv /\ [WatchedNext]_watchedVars => WatchedInv'
  <1> SUFFICES ASSUME WatchedInv, [WatchedNext]_watchedVars PROVE WatchedInv'
    OBVIOUS
  <1>1. /\ WatchedTypeOK /\ BroadcastInv /\ ProbeTypeOK /\ ProbeInv
        /\ healthy \in BOOLEAN /\ view \in Views /\ liveness \in Probes
        /\ reports \in 0..QueueSize /\ QueueSize \in Nat \ {0}
        /\ task # "none" => view.kind = "Running"
    BY ProbeAssumption DEF WatchedInv, WatchedTypeOK, BroadcastTypeOK, ProbeTypeOK
  <1>2. ASSUME UNCHANGED probeVars PROVE ProbeTypeOK' /\ ProbeInv'
    <2>1. ProbeTypeOK'
      BY <1>1, <1>2 DEF ProbeTypeOK, probeVars
    <2>2. ProbeInv'
      BY <1>1, <1>2 DEF ProbeInv, FailuresCounted, Required, probeVars
    <2>3. QED
      BY <2>1, <2>2
  <1>3. ASSUME NEW s \in Views, ChangeStatus(s) PROVE WatchedInv'
    <2>1. BroadcastInv' /\ view' = s
      BY <1>1, <1>3, SetStatusKeeps DEF ChangeStatus, SetStatus
    <2>2. ProbeTypeOK' /\ ProbeInv' /\ (task' # "none" => view'.kind = "Running")
      BY <1>1, <1>3, <2>1, ProbeFollowsKeeps DEF ChangeStatus
    <2>3. healthy' \in BOOLEAN
      BY <1>1, <1>3 DEF ChangeStatus
    <2>4. QED
      BY <2>1, <2>2, <2>3, WatchedParts
  <1>4. ASSUME NEW s \in Views, CreateService(s) PROVE WatchedInv'
    <2>1. BroadcastInv' /\ view' = s /\ view = Absent
      BY <1>1, <1>4, CreateKeeps DEF CreateService, Create
    <2>2. view.kind # "Running"
      BY <2>1, ViewFacts
    <2>3. task = "none" /\ failures = 0 /\ answers = <<>>
      BY <1>1, <2>2 DEF ProbeInv
    <2>4. /\ failures' = 0 /\ answers' = <<>> /\ task' \in {"none", "asking"}
          /\ task' # "none" => s.kind = "Running"
      <3>1. CASE s.kind = "Running"
        BY <1>4, <2>2, <3>1 DEF CreateService, ProbeFollows, StartProbe
      <3>2. CASE s.kind # "Running"
        BY <1>4, <2>2, <2>3, <3>2 DEF CreateService, ProbeFollows
      <3>3. QED
        BY <3>1, <3>2
    <2>5. ProbeTypeOK' /\ ProbeInv'
      BY <1>1, <1>4, <2>4, NothingCounted DEF CreateService
    <2>6. QED
      BY <1>1, <1>4, <2>1, <2>4, <2>5, WatchedParts DEF CreateService
  <1>5. CASE PruneService
    <2>1. BroadcastInv' /\ Absent \in Follow(view)
      BY <1>1, <1>5, PruneKeeps DEF PruneService, Prune
    <2>2. view.kind # "Running"
      BY <1>1, <2>1, FollowFacts
    <2>3. task' = "none" /\ healthy' = healthy /\ UNCHANGED probeVars
      BY <1>1, <1>5, <2>2 DEF PruneService, probeVars
    <2>4. QED
      BY <1>1, <1>2, <2>1, <2>3, WatchedParts
  <1>6. CASE HandleReport
    <2>1. /\ reports' \in 0..QueueSize /\ liveness' = liveness /\ healthy' = healthy
      BY <1>1, <1>6 DEF HandleReport
    <2>2. ASSUME NEW s \in Views, SetStatus(s), ProbeFollows(s) PROVE WatchedInv'
      <3>1. BroadcastInv' /\ view' = s
        BY <1>1, <2>2, SetStatusKeeps DEF SetStatus
      <3>2. ProbeTypeOK' /\ ProbeInv' /\ (task' # "none" => view'.kind = "Running")
        BY <1>1, <2>1, <2>2, <3>1, ProbeFollowsKeeps
      <3>3. QED
        BY <1>1, <2>1, <3>1, <3>2, WatchedParts
    <2>3. StoppingTo("Restart") \in Views /\ Started \subseteq Views
      BY ViewFacts DEF Started, Outcomes, Kinds
    <2>4. CASE view = Absent /\ UNCHANGED <<broadcastVars, task, failures, answers>>
      <3>1. BroadcastInv' /\ view' = view
        BY <1>1, <2>4, BroadcastStutters DEF broadcastVars
      <3>2. task = "none" /\ failures = 0 /\ answers = <<>>
        BY <1>1, <2>4, ViewFacts DEF ProbeInv
      <3>3. ProbeTypeOK' /\ ProbeInv'
        BY <1>1, <2>1, <2>4, <3>2, NothingCounted
      <3>4. QED
        BY <1>1, <2>1, <2>4, <3>1, <3>2, <3>3, WatchedParts
    <2>5. QED
      BY <1>1, <1>6, <2>2, <2>3, <2>4 DEF HandleReport
  <1>7. CASE EndpointChanges
    <2>1. BroadcastInv' /\ ProbeTypeOK' /\ ProbeInv'
      BY <1>1, <1>2, <1>7, BroadcastStutters DEF EndpointChanges
    <2>2. QED
      BY <1>1, <1>7, <2>1, WatchedParts DEF EndpointChanges, probeVars, broadcastVars
  <1>8. CASE ProbeStep
    <2>1. BroadcastInv' /\ view' = view /\ healthy' = healthy
      BY <1>1, <1>8, BroadcastStutters DEF ProbeStep, broadcastVars
    <2>2. CASE Ask(healthy)
      <3>1. ProbeTypeOK' /\ ProbeInv' /\ task = "asking"
        BY <1>1, <2>2, AskKeeps DEF Ask
      <3>2. QED
        BY <1>1, <2>1, <3>1, WatchedParts
    <2>3. CASE Judge
      <3>1. ProbeTypeOK' /\ ProbeInv' /\ task = "failed"
        BY <1>1, <2>3, JudgeKeeps DEF Judge
      <3>2. QED
        BY <1>1, <2>1, <3>1, WatchedParts
    <2>4. CASE Report \/ GiveUp
      <3>1. /\ failures' = 0 /\ answers' = <<>> /\ task' = "none" /\ liveness' = liveness
            /\ reports' \in 0..QueueSize
        BY <1>1, <2>4 DEF Report, GiveUp, AbortTask
      <3>2. ProbeTypeOK' /\ ProbeInv'
        BY <1>1, <3>1, NothingCounted
      <3>3. QED
        BY <1>1, <2>1, <3>1, <3>2, WatchedParts
    <2>5. QED
      BY <1>8, <2>2, <2>3, <2>4 DEF ProbeStep
  <1>9. ASSUME NEW w \in Waiters, WaitStep(w) PROVE WatchedInv'
    <2>1. BroadcastInv'
      BY <1>1, <1>9, RequestWaitKeeps, SubscribeKeeps, RefuseKeeps, PollKeeps, LeaveKeeps
         DEF WaitStep
    <2>2. view' = view
      BY <1>9 DEF WaitStep, RequestWait, Subscribe, Refuse, Poll, Leave
    <2>3. UNCHANGED probeVars /\ healthy' = healthy
      BY <1>9 DEF WaitStep
    <2>4. ProbeTypeOK' /\ ProbeInv' /\ task' = task
      BY <1>2, <2>3 DEF probeVars
    <2>5. QED
      BY <1>1, <2>1, <2>2, <2>3, <2>4, WatchedParts
  <1>10. CASE UNCHANGED watchedVars
    <2>1. UNCHANGED broadcastVars /\ UNCHANGED probeVars /\ healthy' = healthy
      BY <1>10 DEF watchedVars
    <2>2. BroadcastInv' /\ ProbeTypeOK' /\ ProbeInv' /\ view' = view /\ task' = task
      BY <1>1, <1>2, <2>1, BroadcastStutters DEF probeVars, broadcastVars
    <2>3. QED
      BY <1>1, <2>1, <2>2, WatchedParts
  <1>11. QED
    BY <1>3, <1>4, <1>5, <1>6, <1>7, <1>8, <1>9, <1>10 DEF WatchedNext

-----------------------------------------------------------------------------
(* The theorems.                                                           *)

\* The inductive invariant holds in every reachable state, for any number of waiting
\* requests, any size of the broadcast channel and of the main loop's channel, and any
\* failure_threshold and max_retries.
THEOREM WatchedInvariant == WatchedSpec => []WatchedInv
  BY WatchedStart, WatchedStep, PTL DEF WatchedSpec

\* Type correctness; and a probe task exists only while its service is Running.
THEOREM WatchedTypes == WatchedSpec => []WatchedTypeOK
  <1>1. WatchedInv => WatchedTypeOK
    BY DEF WatchedInv
  <1>2. QED
    BY <1>1, WatchedInvariant, PTL

\* wait_service answers reached, pruned and lagged only when it should, and goes on waiting
\* with nothing to read only while its condition was not met: no status is missed between
\* the subscription and the answer.
THEOREM WaitAnswersAreExact == WatchedSpec => []WaitIsExact
  <1>1. WatchedInv => WaitIsExact
    BY InvariantIsExact DEF WatchedInv
  <1>2. QED
    BY <1>1, WatchedInvariant, PTL

\* run_liveness_probe asks for a restart on exactly the failure_threshold-th failure in a
\* row, and gives up exactly when max_retries keeps it from seeing that many.
THEOREM ProbeVerdicts == WatchedSpec => []VerdictIsRight
  <1>1. WatchedInv => VerdictIsRight
    BY InvariantIsRight DEF WatchedInv, WatchedTypeOK
  <1>2. QED
    BY <1>1, WatchedInvariant, PTL
=============================================================================
