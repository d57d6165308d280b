------------------------------ MODULE Beamctl -------------------------------
(***************************************************************************)
(* One run of beamctl (bin/beamctl.rs) and its blocking client             *)
(* (beam-init-client): it lists the services, matches a name prefix or a   *)
(* selector and sends one request after the other, while other clients and *)
(* the services change the table.  A request may time out after thirty     *)
(* seconds and be executed all the same.  The name travels in a URL, and   *)
(* need not arrive as it was sent.                                         *)
(***************************************************************************)
EXTENDS Naturals, Sequences, SequencesExt, FiniteSetsExt

CONSTANTS
    Names,      \* names of services: sequences of numbers, as strings are of characters
    Bootstrap,  \* BOOTSTRAP_NAME
    Arguments,  \* names and prefixes typed by the user
    NewNames,   \* names for start
    Selectors,  \* label selectors: functions from keys to values
    LabelSets,  \* labels of services
    Ops,        \* requests made on a service, among Requestable
    Query, Slash, Dot, Blank, Space, \* what a URL takes apart: '?' or '#'; '/' or '\'; '.';
                \* tab or line end; space or another control character
    Decoded,    \* the characters that sequences %hh stand for; each counts as one number
    Words,      \* "service" and the last words of the routes, one number each
    MaxChanges, \* bound on what other clients do meanwhile
    MaxRuns     \* bound on the starts of one service

Requestable == {"Stop", "Prune", "Restart", "Freeze", "Thaw"}

\* What POST and DELETE can ask for.  "Notify" is attaching to and detaching from a pty.
Operations == Requestable \cup {"Start", "Show", "Notify"}

\* Keys of labels are numbers, as they are ordered.  A service may have no labels.
ASSUME BeamctlAssumption ==
    /\ IsFiniteSet(Names)
    /\ Names \cup Arguments \subseteq Seq(Nat)
    /\ {Bootstrap} \cup NewNames \subseteq Names
    /\ \A sel \in Selectors : DOMAIN sel \subseteq Nat /\ IsFiniteSet(DOMAIN sel)
    /\ <<>> \in LabelSets
    /\ Ops \subseteq Requestable
    /\ DOMAIN Words = {"service"} \cup (Operations \ {"Start", "Prune"})
    /\ MaxChanges \in Nat

VARIABLES
    table,   \* table[n]: what beam-init knows of n
    changes, \* what other clients did so far
    cmd,     \* Cli::command
    pc,      \* what beamctl does: the request it makes, or "next" between two services
    req,     \* its request: "none", "sent", "ok", "error"
    listed,  \* the answer of list_services
    todo,    \* names service_match has still to look at
    target,  \* the name in hand
    shown,   \* the answer of show_service
    exit,    \* exit status of beamctl
    late,    \* a request that timed out and may still be executed
    gens,    \* gens[n]: the incarnation of n when the list was made (history)
    hits     \* services the command was executed on (history)

tableVars == <<table, changes>>
ctlVars == <<cmd, pc, req, listed, todo, target, shown, exit, late, gens, hits>>
beamctlVars == <<table, changes, cmd, pc, req, listed, todo, target, shown, exit, late, gens, hits>>

\* "dead": the process is gone and the status still Running; "leaving": being pruned.
States == {"absent", "up", "dead", "ended", "leaving"}
Service == [state : States, gen : Nat, run : Nat, labels : LabelSets, mine : BOOLEAN]

NoService == [state |-> "absent", gen |-> 0, run |-> 0, labels |-> <<>>, mine |-> TRUE]

NotShown == [labels |-> <<>>, gen |-> 0]

ByName(op, arg) == [op |-> op, name |-> arg]
BySelector(op, sel) == [op |-> op, selector |-> sel]
Commands ==
    {ByName(op, a) : op \in Ops \cup {"Attach"}, a \in Arguments}
      \cup {BySelector(op, s) : op \in Ops, s \in Selectors}
      \cup {ByName("Start", n) : n \in NewNames}
Selecting == "selector" \in DOMAIN cmd

\* Labels are looked at by selectors only.
Labels == IF Selecting THEN LabelSets ELSE {<<>>}

-----------------------------------------------------------------------------
(* Matching.                                                               *)

\* The values of the selected labels that exist, compared with those asked for.
KeysMatchFound(sel, labels) ==
    \A k \in DOMAIN sel \cap DOMAIN labels : labels[k] = sel[k]

\* The place of k in a BTreeMap with these keys.
Position(k, keys) == Cardinality({j \in keys : j < k})

\* Iterator::eq: as many values, and the same value at each place.
KeysMatch(sel, labels) ==
    LET keys == DOMAIN sel
        found == keys \cap DOMAIN labels
    IN  /\ Cardinality(found) = Cardinality(keys)
        /\ \A k \in found, j \in keys :
             Position(k, found) = Position(j, keys) => labels[k] = sel[j]

\* The order of strings.
Before(a, b) ==
    \E k \in 0..Len(a) :
        /\ k < Len(b)
        /\ \A i \in 1..k : a[i] = b[i]
        /\ k = Len(a) \/ a[k + 1] < b[k + 1]

First(names) == CHOOSE n \in names : \A m \in names \ {n} : Before(n, m)

\* Mutant of PrefixMatch: the first service with the prefix is good enough.
PrefixMatchFirst(names, arg) ==
    LET found == {n \in names : IsPrefix(arg, n)}
    IN  IF found # {} /\ First(found) # Bootstrap THEN First(found) ELSE arg

\* split_off, take_while and the two calls of next.
PrefixMatch(names, arg) ==
    LET rest == {n \in names : ~Before(n, arg)}
        found == {n \in rest : \A m \in rest : IsPrefix(arg, m) \/ Before(n, m)}
    IN  IF Cardinality(found) = 1 /\ First(found) # Bootstrap THEN First(found) ELSE arg

-----------------------------------------------------------------------------
(* From a name to a service: service_path and service_action_path put the  *)
(* name into a URL as it is, the url crate normalises it, and the router   *)
(* decodes what it finds in the place of the name.                         *)

\* A name in which none of this finds anything to do.
Plain(n) ==
    /\ n \notin {<<>>, <<Dot>>, <<Dot, Dot>>}
    /\ \A i \in DOMAIN n : n[i] \notin {Query, Slash, Blank} \cup DOMAIN Decoded
    /\ n[Len(n)] # Space

Decode(s) == [i \in DOMAIN s |-> IF s[i] \in DOMAIN Decoded THEN Decoded[s[i]] ELSE s[i]]

\* Blanks vanish, spaces at the end do, and a query or fragment is not part of the path.
PathText(op, n) ==
    LET url == <<Words["service"], Slash>> \o n
                 \o IF op \in {"Start", "Prune"} THEN <<>> ELSE <<Slash, Words[op]>>
        kept == SelectSeq(url, LAMBDA c : c # Blank)
        text == SubSeq(kept, 1, Max({i \in DOMAIN kept : kept[i] # Space}))
    IN  SubSeq(text, 1, Min({i \in DOMAIN text : text[i] = Query} \cup {Len(text) + 1}) - 1)

Segments(text) ==
    FoldLeft(LAMBDA path, c : IF c = Slash THEN Append(path, <<>>)
                              ELSE [path EXCEPT ![Len(path)] = Append(@, c)],
             <<<<>>>>, text)

\* Dot segments, which may be written with %2e, are resolved.
IsDots(s) == Decode(s) \in {<<Dot>>, <<Dot, Dot>>}
Normalised(path) ==
    FoldLeft(LAMBDA done, s : IF ~IsDots(s) THEN Append(done, s)
                              ELSE IF Len(Decode(s)) = 1 \/ done = <<>> THEN done
                              ELSE Front(done),
             <<>>, path)
      \o IF IsDots(Last(path)) THEN <<<<>>>> ELSE <<>>

\* What the router takes the request for, by path, method and body.  The name, which may
\* not be empty, is decoded; the words are not.
Routed(op, path) ==
    {[op |-> o, name |-> Decode(path[2])] :
       o \in {o \in Operations :
                /\ Len(path) = IF o \in {"Start", "Prune"} THEN 2 ELSE 3
                /\ path[1] = <<Words["service"]>> /\ path[2] # <<>>
                /\ o \notin {"Start", "Prune"} => path[3] = <<Words[o]>>
                /\ o = "Prune" <=> op = "Prune"
                /\ o = "Start" => op = "Start"}}

\* The request that arrives when op is asked for on n, if any does: at most one.
Asked ==
    [op \in Operations |->
       [n \in Names \cup Arguments |->
          IF Plain(n) THEN {[op |-> op, name |-> n]}
          ELSE Routed(op, Normalised(Segments(PathText(op, n))))]]

\* Whatever start can create has a place in the table.
ASSUME NamesAssumption ==
    \A n \in NewNames : \A r \in Asked["Start"][n] : r.op = "Start" => r.name \in Names

-----------------------------------------------------------------------------
(* What beam-init answers (ServiceManager models how).                     *)

Known(n) == n \in Names /\ table[n].state # "absent"

\* get_service and get_service_mut.
Permitted(n) == Known(n) /\ table[n].mine
PermittedMut(n) == n # Bootstrap /\ Permitted(n)

Answer(a) == req = "sent" /\ req' = a

\* Pruning removes a service at once or when its process has ended (for one that is
\* dead the SIGCHLD is on its way).
Gone(s) == [NoService EXCEPT !.gen = s.gen]
Pruned(s) == IF s.state \in {"dead", "ended"} THEN Gone(s) ELSE [s EXCEPT !.state = "leaving"]

Incarnation(s, labels, mine) ==
    [s EXCEPT !.state = "up", !.gen = @ + 1, !.run = 1, !.labels = labels, !.mine = mine]

\* What beamctl asks for, and what beam-init gets of it.
Operation == IF pc = "create" THEN "Start" ELSE IF pc = "act" THEN cmd.op ELSE "Show"
Arrived == Asked[Operation][target]

\* r is executed for the command: what is left in the table.
Executed(r) ==
    LET n == r.name
    IN  /\ table' = IF r.op = "Prune" THEN [table EXCEPT ![n] = Pruned(@)]
                    ELSE IF r.op = "Restart" /\ table[n].state = "ended" /\ table[n].run < MaxRuns
                    THEN [table EXCEPT ![n].state = "up", ![n].run = @ + 1]
                    ELSE table
        /\ hits' = Append(hits, [asked |-> target, op |-> r.op, name |-> n, gen |-> table[n].gen,
                                 shown |-> shown.gen, labels |-> table[n].labels])

ServeList ==
    /\ pc = "list"
    /\ Answer("ok")
    /\ listed' = {n \in Names : Permitted(n)}
    /\ gens' = [n \in Names |-> table[n].gen]
    /\ UNCHANGED <<tableVars, cmd, pc, todo, target, shown, exit, late, hits>>

\* Only the labels are used, and only by a selection.
ServeShow ==
    /\ pc \in {"show", "explain", "report"}
    /\ \E r \in Arrived :
         /\ r.op = "Show" /\ Permitted(r.name)
         /\ shown' = IF pc = "show" THEN [labels |-> table[r.name].labels, gen |-> table[r.name].gen]
                     ELSE shown
    /\ Answer("ok")
    /\ UNCHANGED <<tableVars, cmd, pc, listed, todo, target, exit, late, gens, hits>>

\* What stop, freeze and thaw do to the process is left to Dies.  Their answer is none
\* that start or show can read.
ServeAct ==
    /\ pc \in {"create", "show", "act", "explain", "report"}
    /\ \E r \in Arrived : r.op \notin {"Start", "Show"} /\ PermittedMut(r.name) /\ Executed(r)
    /\ Answer(IF pc = "act" THEN "ok" ELSE "error")
    /\ UNCHANGED <<changes, cmd, pc, listed, todo, target, shown, exit, late, gens>>

\* create_service, then start_service: when only the latter fails the service stays.
Creates(n) ==
    \/ UNCHANGED table
    \/ /\ ~Known(n)
       /\ \E l \in Labels, s \in {"up", "ended"} :
            table' = [table EXCEPT ![n] = [Incarnation(@, l, TRUE) EXCEPT !.state = s]]

ServeCreate ==
    /\ pc = "create"
    /\ \E r \in Arrived :
         /\ r.op = "Start" /\ Creates(r.name)
         /\ Answer(IF table'[r.name] # table[r.name] /\ table'[r.name].state = "up"
                   THEN "ok" ELSE "error")
    /\ UNCHANGED <<changes, cmd, pc, listed, todo, target, shown, exit, late, gens, hits>>

\* No route, no service or no permission.  A restart may be refused during shutdown, or
\* fail to start an ended service.  stop and the like cannot read what show answers.
ServeError ==
    /\ pc \in {"create", "show", "act", "explain", "report"}
    /\ \A r \in Arrived :
         \/ r.op \notin {"Start", "Show"} /\ ~PermittedMut(r.name)
         \/ r.op = "Restart"
         \/ r.op = "Show" /\ (pc \in {"create", "act"} \/ ~Permitted(r.name))
    /\ Answer("error")
    /\ UNCHANGED <<tableVars, cmd, pc, listed, todo, target, shown, exit, late, gens, hits>>

\* beam-init gets round to a request nobody waits for any more.
ServeLate ==
    /\ late # {}
    /\ late' = {}
    /\ \E r \in late :
         \/ r.op # "Start" /\ PermittedMut(r.name) /\ Executed(r)
         \/ r.op # "Start" /\ ~PermittedMut(r.name) /\ UNCHANGED <<table, hits>>
         \/ r.op = "Start" /\ Creates(r.name) /\ UNCHANGED hits
    /\ UNCHANGED <<changes, cmd, pc, req, listed, todo, target, shown, exit, gens>>

\* The handler was still waiting for room in the channel when its connection closed.
DropLate ==
    /\ late # {}
    /\ late' = {}
    /\ UNCHANGED <<tableVars, cmd, pc, req, listed, todo, target, shown, exit, gens, hits>>

-----------------------------------------------------------------------------
(* beamctl.                                                                *)

Exits(code) == pc' = "done" /\ req' = "none" /\ exit' = code

Sends(p) == pc' = p /\ req' = "sent" /\ UNCHANGED exit

\* On to the next service of a selection.
Advances == pc' = "next" /\ req' = "none" /\ shown' = NotShown /\ UNCHANGED exit

Run(c) ==
    /\ pc = "idle"
    /\ cmd' = c
    /\ IF c.op = "Start" THEN Sends("create") /\ target' = c.name
       ELSE Sends("list") /\ UNCHANGED target
    /\ UNCHANGED <<tableVars, listed, todo, shown, late, gens, hits>>

\* prefix_match has its list.
Matched ==
    /\ pc = "list" /\ req = "ok" /\ ~Selecting
    /\ target' = PrefixMatch(listed, cmd.name)
    /\ Sends(IF cmd.op = "Attach" THEN "getpty" ELSE "act")
    /\ UNCHANGED <<tableVars, cmd, listed, todo, shown, late, gens, hits>>

\* service_match has its list; the filter looks at a name when the loop asks for it.
Filtered ==
    /\ pc = "list" /\ req = "ok" /\ Selecting
    /\ todo' = listed
    /\ Advances
    /\ UNCHANGED <<tableVars, cmd, listed, target, late, gens, hits>>

ShowNext ==
    /\ pc = "next" /\ todo # {}
    /\ target' = First(todo)
    /\ todo' = todo \ {First(todo)}
    /\ Sends("show")
    /\ UNCHANGED <<tableVars, cmd, listed, shown, late, gens, hits>>

Shown ==
    /\ pc = "show" /\ req = "ok"
    /\ \/ KeysMatch(cmd.selector, shown.labels) /\ Sends("act") /\ UNCHANGED shown
       \/ ~KeysMatch(cmd.selector, shown.labels) /\ Advances
    /\ UNCHANGED <<tableVars, cmd, listed, todo, target, late, gens, hits>>

Acted ==
    /\ pc = "act" /\ req = "ok"
    /\ IF Selecting THEN Advances ELSE Exits("ok") /\ UNCHANGED shown
    /\ UNCHANGED <<tableVars, cmd, listed, todo, target, late, gens, hits>>

AllDone ==
    /\ pc = "next" /\ todo = {}
    /\ Exits("ok")
    /\ UNCHANGED <<tableVars, cmd, listed, todo, target, shown, late, gens, hits>>

\* start without --pty ends here; Attach goes on with it.
Created ==
    /\ pc = "create" /\ req = "ok"
    /\ Exits("ok") \/ Sends("getpty")
    /\ UNCHANGED <<tableVars, cmd, listed, todo, target, shown, late, gens, hits>>

Requests == {"create", "list", "show", "act", "explain", "report"}

\* Mutant of Failed: the loop goes on with the next service.
FailedGoesOn ==
    /\ pc \in Requests /\ req = "error"
    /\ IF pc = "act" /\ Selecting THEN Advances ELSE Exits("failed") /\ UNCHANGED shown
    /\ UNCHANGED <<tableVars, cmd, listed, todo, target, late, gens, hits>>

\* show_error_and_exit.
Failed ==
    /\ pc \in Requests /\ req = "error"
    /\ Exits("failed")
    /\ UNCHANGED <<tableVars, cmd, listed, todo, target, shown, late, gens, hits>>

\* What beam-init may still do when beamctl has given up.
Unanswered == IF pc = "list" THEN {} ELSE {r \in Arrived : r.op # "Show"}

\* Mutants of TimedOut: post has no timeout; the request is sent again.
TimedOutGet ==
    /\ pc = "list" /\ req = "sent"
    /\ Exits("failed")
    /\ UNCHANGED <<tableVars, cmd, listed, todo, target, shown, late, gens, hits>>
TimedOutRetry ==
    /\ pc \in Requests /\ req = "sent"
    /\ IF pc = "act" /\ late = {} THEN UNCHANGED <<pc, req, exit>> ELSE Exits("failed")
    /\ late' = Unanswered
    /\ UNCHANGED <<tableVars, cmd, listed, todo, target, shown, gens, hits>>

\* Thirty seconds are over, or the connection broke; the error is shown.
TimedOut ==
    /\ pc \in Requests /\ req = "sent"
    /\ Exits("failed")
    /\ late' = Unanswered
    /\ UNCHANGED <<tableVars, cmd, listed, todo, target, shown, gens, hits>>

-----------------------------------------------------------------------------
(* Services and other clients.                                             *)

OthersCreate(n) ==
    /\ changes < MaxChanges
    /\ changes' = changes + 1
    /\ ~Known(n)
    /\ \E l \in Labels, m \in BOOLEAN : table' = [table EXCEPT ![n] = Incarnation(@, l, m)]
    /\ UNCHANGED ctlVars

OthersPrune(n) ==
    /\ changes < MaxChanges
    /\ changes' = changes + 1
    /\ n # Bootstrap
    /\ table[n].state \in {"up", "dead", "ended"}
    /\ table' = [table EXCEPT ![n] = Pruned(@)]
    /\ UNCHANGED ctlVars

OthersRestart(n) ==
    /\ changes < MaxChanges
    /\ changes' = changes + 1
    /\ table[n].state = "ended"
    /\ table[n].run < MaxRuns
    /\ table' = [table EXCEPT ![n].state = "up", ![n].run = @ + 1]
    /\ UNCHANGED ctlVars

\* The process ends by itself or because it was stopped; handle_signal follows, and only
\* attach can tell the difference.
Dies(n) ==
    /\ n # Bootstrap
    /\ \/ /\ table[n].state = "up"
          /\ table' = [table EXCEPT ![n].state = IF Selecting THEN "ended" ELSE "dead"]
       \/ table[n].state = "leaving" /\ table' = [table EXCEPT ![n] = Gone(@)]
    /\ UNCHANGED <<changes, ctlVars>>

Reaped(n) ==
    /\ table[n].state = "dead"
    /\ table' = [table EXCEPT ![n].state = "ended"]
    /\ UNCHANGED <<changes, ctlVars>>

-----------------------------------------------------------------------------
\* Any services have been created before, by any user, the bootstrap service among them.
BeamctlInit ==
    /\ cmd \in Commands
    /\ table \in [Names -> {NoService}
                     \cup {[Incarnation(NoService, l, m) EXCEPT !.state = s] :
                              l \in Labels, m \in BOOLEAN, s \in {"up", "ended"}}]
    /\ table[Bootstrap].state = "up" /\ table[Bootstrap].labels = <<>>
    /\ changes = 0
    /\ pc = "idle"
    /\ req = "none"
    /\ listed = {} /\ todo = {}
    /\ target = Bootstrap
    /\ shown = NotShown
    /\ exit = "none"
    /\ late = {}
    /\ gens = [n \in Names |-> 0]
    /\ hits = <<>>

ServerStep ==
    ServeList \/ ServeShow \/ ServeAct \/ ServeCreate \/ ServeError \/ ServeLate \/ DropLate
ClientStep ==
    \/ Run(cmd) \/ Matched \/ Filtered \/ ShowNext \/ Shown \/ Acted \/ AllDone \/ Created
    \/ Failed \/ TimedOut

\* The services the command can still have to do with; what their processes do matters
\* for the one in hand, or for all of a selection.
Addressed ==
    {r.name : r \in Asked["Show"][target]
                    \cup IF cmd.op \in Operations THEN Asked[cmd.op][target] ELSE {}}
Concerned ==
    IF pc = "done" /\ late = {} THEN {}
    ELSE IF Selecting \/ pc \in {"idle", "list"} THEN Names
    ELSE Addressed \cap Names
InHand == IF Selecting THEN Concerned ELSE Concerned \cap Addressed

WorldStep ==
    \/ \E n \in Concerned : OthersCreate(n) \/ OthersPrune(n)
    \/ \E n \in InHand : OthersRestart(n) \/ Dies(n) \/ Reaped(n)

-----------------------------------------------------------------------------
(* Properties.                                                             *)

\* The names on account of which a service was touched.
Touched == {hits[i].asked : i \in DOMAIN hits}

\* What it means that a service has the selected labels.
Selected(sel, labels) == \A k \in DOMAIN sel : k \in DOMAIN labels /\ labels[k] = sel[k]

\* The user means a service by its name or by the beginning that it has alone.
Meant(n) == n = cmd.name \/ {m \in listed : IsPrefix(cmd.name, m)} = {n}

\* A command makes one request about a name, and only about one that the user can have
\* meant: with a selector, one that was listed; with a name, that name or the only one
\* listed that starts with it.  Unless the name is one that a URL changes, it is this
\* service that is touched and never twice, the operation is the one asked for, and a
\* service that lacks the selected labels is touched only if it took the place of one that
\* had them after that one was shown.  The bootstrap service is never touched.  All this
\* holds of what is executed after beamctl gave up, too.
HitsAreIntended ==
    \A i \in DOMAIN hits :
        /\ \A j \in DOMAIN hits : hits[i].asked = hits[j].asked => i = j
        /\ IF Selecting THEN hits[i].asked \in listed ELSE Meant(hits[i].asked)
        /\ hits[i].name # Bootstrap
        /\ Plain(hits[i].asked) =>
             /\ hits[i].name = hits[i].asked /\ hits[i].op = cmd.op
             /\ Selecting => Selected(cmd.selector, hits[i].labels) \/ hits[i].gen > hits[i].shown

\* "Remove this service" (beamctl.rs:83), "Stops the service" (blocking.rs:83): a name
\* stands for the service of that name, or for the one listed of which it is the
\* beginning.  A URL changes some names, so another service may be touched.
OnlyMeantServices == \A i \in DOMAIN hits : ~Selecting => Meant(hits[i].name)

\* A selector command works through the services in the order of their names: whatever
\* happens on the way, those before the one in hand that were listed, match and are still
\* there have all been touched and none after it has, on its own account.  So a failure
\* leaves a prefix of them touched and one in doubt, and exit status 0 says that all were.
\* Names that a URL changes count only as none after the one in hand.
SelectionIsComplete ==
    Selecting /\ pc # "list" =>
        LET behind == listed \ (todo \cup IF pc = "next" \/ exit = "ok" THEN {} ELSE {target})
        IN  /\ todo \cap Touched = {}
            /\ \A n \in behind :
                 /\ Plain(n)
                 /\ table[n].state # "absent"
                 /\ table[n].gen = gens[n]
                 /\ Selected(cmd.selector, table[n].labels)
                 => n \in Touched

\* Every command that has no session to wait for, which attach has and start may have,
\* ends, even if beam-init never answers.
CommandEnds == (pc # "idle" /\ cmd.op \notin {"Attach", "Start"}) ~> (pc = "done")
=============================================================================
