-------------------------- MODULE StatusBroadcast ---------------------------
(***************************************************************************)
(* How `wait` learns of a status (service_status_publisher in services.rs, *)
(* wait_service in api_impl.rs): a service publishes every change of its   *)
(* status on a bounded broadcast channel, which dies with the service; a   *)
(* waiting request subscribes through the main loop and then reads the     *)
(* channel until it meets the kind of status it waits for.  The service    *)
(* goes through Lifecycle.                                                 *)
(***************************************************************************)
EXTENDS Naturals, Sequences, Lifecycle

CONSTANTS
    Waiters,      \* requests for .../wait
    WantedKinds,  \* the kinds they may wait for
    ChannelSize   \* of broadcast::channel (32)

VARIABLES
    latest,  \* ServiceStatusPublisher::latest
    waiter,  \* waiter[w]: where the request is
    want,    \* want[w]: status_kind
    current, \* current[w]: ServiceStatusSubscription::current, None is {}
    rx,      \* rx[w]: ServiceStatusSubscription::rx
    met,     \* met[w]: a status of the wanted kind was current since w subscribed (history)
    behind   \* behind[w]: changes since w was polled, at most ChannelSize + 1 (history)

waitVars == <<waiter, want, current, rx, met, behind>>
broadcastVars == <<view, latest, waiter, want, current, rx, met, behind>>

ASSUME BroadcastAssumption ==
    /\ ChannelSize \in Nat \ {0}
    /\ WantedKinds \subseteq Kinds

\* A broadcast::Receiver is what it has not received yet: a value that no longer fits
\* pushes out the oldest one and the receiver has lagged.
Receiver == [unread : UNION {[1..i -> Views] : i \in 0..ChannelSize},
             lagged : BOOLEAN, closed : BOOLEAN]
NewReceiver == [unread |-> <<>>, lagged |-> FALSE, closed |-> FALSE]

BroadcastTypeOK ==
    /\ view \in Views
    /\ latest \in Views
    /\ waiter \in [Waiters -> {"idle", "asked", "waiting", "refused", "reached", "pruned", "lagged"}]
    /\ want \in [Waiters -> Kinds]
    /\ current \in [Waiters -> SUBSET Views]
    /\ rx \in [Waiters -> Receiver]
    /\ met \in [Waiters -> BOOLEAN]
    /\ behind \in [Waiters -> 0..ChannelSize + 1]

-----------------------------------------------------------------------------
(* The publisher.                                                          *)

\* broadcast::Sender::send, as one receiver sees it.
Received(r, s) ==
    IF Len(r.unread) < ChannelSize
    THEN [r EXCEPT !.unread = Append(@, s)]
    ELSE [r EXCEPT !.unread = Append(Tail(@), s), !.lagged = TRUE]

Subscribed(w) == waiter[w] = "waiting" /\ ~rx[w].closed

\* Mutant of Publish: repeated statuses are sent again.
PublishAlways(s) ==
    /\ latest' = s
    /\ rx' = [w \in Waiters |-> IF Subscribed(w) THEN Received(rx[w], s) ELSE rx[w]]

\* ServiceStatusPublisher::publish.  Two errors with different texts would be published
\* both; here a status is what a wait can tell apart.
Publish(s) ==
    IF latest = s THEN UNCHANGED <<latest, rx>>
    ELSE /\ latest' = s
         /\ rx' = [w \in Waiters |-> IF Subscribed(w) THEN Received(rx[w], s) ELSE rx[w]]

\* What happened to those who wait, for the properties.
Witness(s) ==
    /\ met' = [w \in Waiters |-> met[w] \/ (Subscribed(w) /\ want[w] = s.kind)]
    /\ behind' = [w \in Waiters |->
                    IF Subscribed(w) /\ s # view /\ behind[w] <= ChannelSize
                    THEN behind[w] + 1 ELSE behind[w]]

\* Service::set_status.  A handler may set the status the service already has for its
\* clients: a stop that merges with a stop, a restart that fails again.
SetStatus(s) ==
    /\ view # Absent
    /\ s \in Follow(view) \cup {view}
    /\ s # Absent
    /\ view' = s
    /\ Publish(s)
    /\ Witness(s)
    /\ UNCHANGED <<waiter, want, current>>

\* create_service makes the publisher of a Stopped service, and starts the service in
\* the same handler: nobody can have subscribed in between.
Create(s) ==
    /\ view = Absent
    /\ s \in Follow(view)
    /\ view' = s
    /\ latest' = s
    /\ UNCHANGED waitVars

\* Mutant of Prune: the publisher outlives the service.
PruneKeepsSender ==
    /\ Absent \in Follow(view)
    /\ view' = Absent
    /\ UNCHANGED <<latest, waiter, want, current, met, behind, rx>>

\* The service is removed, and with it the Sender.
Prune ==
    /\ Absent \in Follow(view)
    /\ view' = Absent
    /\ rx' = [w \in Waiters |-> IF waiter[w] = "waiting" THEN [rx[w] EXCEPT !.closed = TRUE]
                                ELSE rx[w]]
    /\ UNCHANGED <<latest, waiter, want, current, met, behind>>

-----------------------------------------------------------------------------
(* wait_service.                                                           *)

RequestWait(w) ==
    /\ waiter[w] = "idle"
    /\ waiter' = [waiter EXCEPT ![w] = "asked"]
    /\ \E k \in WantedKinds : want' = [want EXCEPT ![w] = k]
    /\ UNCHANGED <<view, latest, current, rx, met, behind>>

\* Mutant of Subscribe: only what changes from now on is reported.
SubscribeToChanges(w) ==
    /\ waiter[w] = "asked"
    /\ view # Absent
    /\ waiter' = [waiter EXCEPT ![w] = "waiting"]
    /\ rx' = [rx EXCEPT ![w] = NewReceiver]
    /\ met' = [met EXCEPT ![w] = want[w] = view.kind]
    /\ UNCHANGED <<view, latest, want, current, behind>>

\* The main loop handles WaitService: ServiceManager::subscribe.
Subscribe(w) ==
    /\ waiter[w] = "asked"
    /\ view # Absent
    /\ waiter' = [waiter EXCEPT ![w] = "waiting"]
    /\ current' = [current EXCEPT ![w] = {latest}]
    /\ rx' = [rx EXCEPT ![w] = NewReceiver]
    /\ met' = [met EXCEPT ![w] = want[w] = view.kind]
    /\ UNCHANGED <<view, latest, want, behind>>

\* The service does not exist, or is not the caller's.
Refuse(w) ==
    /\ waiter[w] = "asked"
    /\ waiter' = [waiter EXCEPT ![w] = "refused"]
    /\ UNCHANGED <<view, latest, want, current, rx, met, behind>>

\* What the loop of wait_service meets in one poll: recv yields current, then what the
\* receiver holds, and waits only when that is all.
Ready(w) ==
    \/ current[w] # {}
    \/ rx[w].unread # <<>>
    \/ rx[w].closed

Holds(w, s) == s.kind = want[w]

\* Mutants of Verdict: a closed channel is looked at before what it still holds; the
\* values are not all looked at.
VerdictClosedFirst(w) ==
    IF rx[w].closed THEN "pruned"
    ELSE IF \E s \in current[w] : Holds(w, s) THEN "reached"
    ELSE IF rx[w].lagged THEN "lagged"
    ELSE IF \E i \in 1..Len(rx[w].unread) : Holds(w, rx[w].unread[i]) THEN "reached"
    ELSE "waiting"
VerdictLast(w) ==
    IF \E s \in current[w] : Holds(w, s) THEN "reached"
    ELSE IF rx[w].lagged THEN "lagged"
    ELSE IF rx[w].unread # <<>> /\ Holds(w, rx[w].unread[Len(rx[w].unread)]) THEN "reached"
    ELSE IF rx[w].closed THEN "pruned"
    ELSE "waiting"

Verdict(w) ==
    IF \E s \in current[w] : Holds(w, s) THEN "reached"
    ELSE IF rx[w].lagged THEN "lagged"
    ELSE IF \E i \in 1..Len(rx[w].unread) : Holds(w, rx[w].unread[i]) THEN "reached"
    ELSE IF rx[w].closed THEN "pruned"
    ELSE "waiting"

Poll(w) ==
    /\ waiter[w] = "waiting"
    /\ Ready(w)
    /\ waiter' = [waiter EXCEPT ![w] = Verdict(w)]
    /\ current' = [current EXCEPT ![w] = {}]
    /\ rx' = [rx EXCEPT ![w] = NewReceiver]
    /\ behind' = [behind EXCEPT ![w] = IF rx[w].lagged THEN @ ELSE 0]
    /\ UNCHANGED <<view, latest, want, met>>

\* The client has its answer, gave up (its --timeout) or is gone: the request is over.
Leave(w) ==
    /\ waiter[w] # "idle"
    /\ waiter' = [waiter EXCEPT ![w] = "idle"]
    /\ current' = [current EXCEPT ![w] = {}]
    /\ rx' = [rx EXCEPT ![w] = NewReceiver]
    /\ met' = [met EXCEPT ![w] = FALSE]
    /\ behind' = [behind EXCEPT ![w] = 0]
    /\ UNCHANGED <<view, latest, want>>

-----------------------------------------------------------------------------
BroadcastInit ==
    /\ Init
    /\ latest = Plain("Stopped")
    /\ waiter = [w \in Waiters |-> "idle"]
    /\ want = [w \in Waiters |-> "Running"]
    /\ current = [w \in Waiters |-> {}]
    /\ rx = [w \in Waiters |-> NewReceiver]
    /\ met = [w \in Waiters |-> FALSE]
    /\ behind = [w \in Waiters |-> 0]

-----------------------------------------------------------------------------
(* Properties.                                                             *)

\* The answer of `wait` is right whatever happened while it was on its way: it says
\* reached only if the service has had the status since the subscription; it says pruned,
\* and it keeps waiting with nothing left to read, only if the service has not, however
\* short-lived the status was; and it says lagged only if more statuses than the
\* channel holds were published before the task was polled once.
WaitIsExact ==
    \A w \in Waiters :
        /\ waiter[w] = "reached" => met[w]
        /\ waiter[w] = "pruned" => ~met[w]
        /\ waiter[w] = "waiting" /\ ~Ready(w) => ~met[w]
        /\ waiter[w] = "lagged" => behind[w] > ChannelSize

\* A wait ends once the service has met its condition or is pruned.
WaitAnswered ==
    \A w \in Waiters :
        (waiter[w] = "waiting" /\ (met[w] \/ rx[w].closed)) ~> (waiter[w] # "waiting")
=============================================================================
