----------------------------- MODULE LogStream ------------------------------
(***************************************************************************)
(* What the log of a service promises the clients that follow it           *)
(* (RingBuffer's comment in logs.rs: it "emulates a list"): lines are only *)
(* ever appended, and a reader is handed them in order and once each.      *)
(* Where it is not handed one it is told so.                               *)
(***************************************************************************)
EXTENDS Naturals, Sequences

CONSTANTS Readers, Lines

VARIABLES
    log, \* every line ever logged
    pos, \* pos[r]: how many of them reader r is past
    out  \* out[r]: what r was handed last

Lost == [kind |-> "lost"]
Nothing == [kind |-> "nothing"]
Line(l) == [kind |-> "line", line |-> l]

Init ==
    /\ log = <<>>
    /\ pos = [r \in Readers |-> 0]
    /\ out = [r \in Readers |-> Nothing]

Push(l) ==
    /\ log' = Append(log, l)
    /\ UNCHANGED <<pos, out>>

\* A new stream starts at the first line.
Open(r) ==
    /\ pos' = [pos EXCEPT ![r] = 0]
    /\ out' = [out EXCEPT ![r] = Nothing]
    /\ UNCHANGED log

Deliver(r) ==
    /\ pos[r] < Len(log)
    /\ out' = [out EXCEPT ![r] = Line(log[pos[r] + 1])]
    /\ pos' = [pos EXCEPT ![r] = @ + 1]
    /\ UNCHANGED log

Skip(r) ==
    /\ \E i \in pos[r] + 1 .. Len(log) : pos' = [pos EXCEPT ![r] = i]
    /\ out' = [out EXCEPT ![r] = Lost]
    /\ UNCHANGED log

Next ==
    \/ \E l \in Lines : Push(l)
    \/ \E r \in Readers : Open(r) \/ Deliver(r) \/ Skip(r)

Spec == Init /\ [][Next]_<<log, pos, out>>
=============================================================================
