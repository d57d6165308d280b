------------------------------- MODULE Attach -------------------------------
(***************************************************************************)
(* beamctl attach: the pty is fetched from the pty store (ptystore.rs),    *)
(* the user's terminal goes into raw mode and terminal::manage             *)
(* (bin/terminal) relays between the two until the service ends, the user  *)
(* detaches or something fails.  Requests go through Beamctl's client.     *)
(***************************************************************************)
EXTENDS Beamctl

VARIABLES
    pty,     \* the pty in hand, by incarnation and start of the service; none is {}
    tty,     \* settings of the user's terminal: "user" or "raw"
    masked,  \* SignalFdRestore: SIGINT, SIGQUIT, SIGTSTP, SIGWINCH are blocked
    sigs,    \* signals pending in the signalfd
    output,  \* the pty's output: "none", "new" or "stale" (its edge was consumed)
    hangup,  \* the edge of the pty's hang-up was consumed
    dropped  \* the terminal was full: output was dropped (history)

attachVars == <<pty, tty, masked, sigs, output, hangup, dropped>>
allVars == <<beamctlVars, attachVars>>

AttachTypeOK ==
    /\ table \in [Names -> Service]
    /\ changes \in 0..MaxChanges
    /\ cmd \in Commands
    /\ pc \in Requests \cup {"idle", "next", "getpty", "notify", "relay", "signal", "detach", "done"}
    /\ req \in {"none", "sent", "ok", "error"}
    /\ listed \subseteq Names /\ todo \subseteq Names
    /\ target \in Names \cup Arguments
    /\ shown \in [labels : LabelSets, gen : Nat]
    /\ exit \in {"none", "ok", "failed", "interrupted", "killed"}
    /\ \A r \in late : r.op \in Operations \ {"Show"}
    /\ gens \in [Names -> Nat]
    /\ hits \in Seq([asked : Names \cup Arguments, op : Operations \ {"Start", "Show"}, name : Names,
                      gen : Nat, shown : Nat, labels : LabelSets])
    /\ pty \subseteq Nat \X Nat /\ Cardinality(pty) <= 1
    /\ tty \in {"user", "raw"}
    /\ masked \in BOOLEAN
    /\ sigs \subseteq {"SIGINT", "SIGTSTP"}
    /\ output \in {"none", "new", "stale"}
    /\ hangup \in BOOLEAN /\ dropped \in BOOLEAN
    /\ (req = "none") <=> (pc \in {"idle", "next", "relay", "done"})
    /\ (exit = "none") <=> (pc # "done")
    /\ masked <=> (pc \in {"notify", "relay", "signal", "detach"})

\* Nobody holds the other end: the process of that start is gone.
PtyClosed ==
    \A p \in pty : ~(/\ table[target].state \in {"up", "leaving"}
                     /\ p = <<table[target].gen, table[target].run>>)

keptVars == <<tableVars, cmd, listed, todo, target, shown, late, gens, hits>>

-----------------------------------------------------------------------------
(* The pty store.                                                          *)

\* GetPty and handle_connection: a service that runs and has a pty, if a descriptor can
\* be had; else the connection closes without one.  There is no timeout.  The bootstrap
\* service has no pty.  The name comes as it is; a service whose name a URL changes has no
\* pty here, as the requests of its session would go to another one.
ServePty ==
    /\ pc = "getpty"
    /\ Answer("ok")
    /\ \/ pty' = {}
       \/ /\ Permitted(target)
          /\ target # Bootstrap /\ Plain(target)
          /\ table[target].state \in {"up", "dead"}
          /\ pty' = {<<table[target].gen, table[target].run>>}
    /\ UNCHANGED <<keptVars, pc, exit, tty, masked, sigs, output, hangup, dropped>>

\* Without a pty, the reason is looked up and printed.
Explain ==
    /\ pc = "getpty" /\ req = "ok" /\ pty = {}
    /\ Sends("explain")
    /\ UNCHANGED <<keptVars, attachVars>>

-----------------------------------------------------------------------------
(* terminal::manage.                                                       *)

\* Mutant of Open: the signals are left alone.
OpenUnmasked ==
    /\ pc = "getpty" /\ req = "ok" /\ pty # {}
    /\ Exits("failed") \/ Sends("notify")
    /\ UNCHANGED <<keptVars, pty, tty, masked, sigs, output, hangup, dropped>>

\* /dev/tty is opened, then the signals are blocked, then a new client notifies.
Open ==
    /\ pc = "getpty" /\ req = "ok" /\ pty # {}
    /\ \/ Exits("failed") /\ UNCHANGED masked
       \/ Sends("notify") /\ masked' = TRUE
    /\ UNCHANGED <<keptVars, pty, tty, sigs, output, hangup, dropped>>

\* notify_pty_attached, notify_pty_detached and send_signal are answered; Plain(target)
\* holds in a session.
ServeAttached ==
    /\ pc \in {"notify", "signal", "detach"}
    /\ Answer(IF PermittedMut(target) THEN "ok" ELSE "error")
    /\ UNCHANGED <<keptVars, pc, exit, attachVars>>

\* What manage holds is dropped.
Closes ==
    /\ pty' = {} /\ sigs' = {}
    /\ output' = "none" /\ hangup' = FALSE
    /\ UNCHANGED <<keptVars, dropped>>

\* Mutant of Fail: only the signal mask is restored.
FailRaw ==
    /\ masked' = FALSE
    /\ Exits("failed")
    /\ Closes /\ UNCHANGED tty

\* `?` in manage: the values are dropped in reverse order, the signal mask before the
\* terminal.  A SIGINT that is pending, or that comes in between, ends beamctl there (a
\* SIGTSTP would suspend it, and it restores the terminal once it is continued).
Fail ==
    /\ masked' = FALSE
    /\ \/ Exits("killed") /\ UNCHANGED tty
       \/ "SIGINT" \notin sigs /\ Exits("failed") /\ tty' = "user"
    /\ Closes

\* Mutant of End: the signals are let through before the terminal is restored.
EndUnmasked ==
    /\ masked' = FALSE
    /\ IF "SIGINT" \in sigs THEN Exits("interrupted") /\ UNCHANGED tty
       ELSE Sends("report") /\ tty' = "user"
    /\ Closes

\* The relay is over: drop(tty), then the mask, then the new status is asked for.
End ==
    /\ tty' = "user"
    /\ masked' = FALSE
    /\ IF "SIGINT" \in sigs THEN Exits("interrupted") ELSE Sends("report")
    /\ Closes

\* UserTerm::sync, then everything is registered with the poller.
Attached ==
    /\ pc = "notify" /\ req = "ok"
    /\ tty' = "raw"
    /\ pc' = "relay" /\ req' = "none"
    /\ UNCHANGED <<keptVars, exit, pty, masked, sigs, output, hangup, dropped>>

\* A request failed or timed out.
RequestFails ==
    /\ pc \in {"notify", "signal", "detach"}
    /\ req \in {"sent", "error"}
    /\ Fail

\* sync, poll or a copy failed.
RelayFails ==
    /\ pc = "relay"
    /\ Fail

Returns ==
    /\ pc = "signal" /\ req = "ok"
    /\ pc' = "relay" /\ req' = "none"
    /\ UNCHANGED <<keptVars, exit, attachVars>>

\* Mutant of CopyOut: a hang-up is not an end.
CopyOutNoEnd ==
    /\ pc = "relay"
    /\ output = "new" \/ (PtyClosed /\ ~hangup)
    /\ output' = "none"
    /\ hangup' = PtyClosed
    /\ UNCHANGED <<keptVars, pc, req, exit, pty, tty, masked, sigs, dropped>>

\* CAN_READ_FROM_PTY.  The poller reports edges; the copy reads until the pty has no
\* more (WouldBlock) or is hung up (EIO), unless the terminal takes no more first: then
\* what was read is lost and no edge is left.
CopyOut ==
    /\ pc = "relay"
    /\ output = "new" \/ (PtyClosed /\ ~hangup)
    /\ \/ /\ PtyClosed
          /\ End
       \/ /\ ~PtyClosed
          /\ output' = "none"
          /\ UNCHANGED <<keptVars, pc, req, exit, pty, tty, masked, sigs, hangup, dropped>>
       \/ /\ output # "none"
          /\ output' = "stale"
          /\ hangup' = PtyClosed
          /\ dropped' = TRUE
          /\ UNCHANGED <<keptVars, pc, req, exit, pty, tty, masked, sigs>>

\* CAN_READ_FROM_CONTROLLER: input for a pty that is hung up, or the terminal's end.
CopyIn ==
    /\ pc = "relay"
    /\ End

ReadSignal ==
    /\ pc = "relay"
    /\ \E s \in sigs :
         /\ sigs' = sigs \ {s}
         /\ Sends(IF s = "SIGINT" THEN "signal" ELSE "detach")
    /\ UNCHANGED <<keptVars, pty, tty, masked, output, hangup, dropped>>

Detached ==
    /\ pc = "detach" /\ req = "ok"
    /\ End

\* The reason or the new status is printed.
Printed ==
    /\ pc \in {"explain", "report"} /\ req = "ok"
    /\ Exits("ok")
    /\ UNCHANGED <<keptVars, attachVars>>

-----------------------------------------------------------------------------
(* The user and the service.                                               *)

SignalArrives(s) ==
    /\ masked
    /\ sigs' = sigs \cup {s}
    /\ UNCHANGED <<beamctlVars, pty, tty, masked, output, hangup, dropped>>

Prints ==
    /\ pc = "relay" /\ ~PtyClosed
    /\ output' = "new"
    /\ UNCHANGED <<beamctlVars, pty, tty, masked, sigs, hangup, dropped>>

-----------------------------------------------------------------------------
AttachInit ==
    /\ BeamctlInit
    /\ pty = {}
    /\ tty = "user"
    /\ masked = FALSE
    /\ sigs = {}
    /\ output = "none"
    /\ hangup = FALSE
    /\ dropped = FALSE

AttachStep ==
    \/ Explain \/ Open \/ Attached \/ Returns \/ Detached \/ Printed
    \/ RequestFails \/ RelayFails \/ CopyIn \/ ReadSignal

BeamctlStep == ClientStep /\ UNCHANGED attachVars

Next ==
    \/ BeamctlStep \/ AttachStep \/ CopyOut
    \/ ServePty \/ ServeAttached
    \/ (ServerStep \/ WorldStep) /\ UNCHANGED attachVars
    \/ \E s \in {"SIGINT", "SIGTSTP"} : SignalArrives(s)
    \/ Prints

Spec == AttachInit /\ [][Next]_allVars

\* beamctl takes its next step and its timeouts expire; whatever poll reports is handled
\* before it is called again, so output and a hang-up are not overtaken for ever by
\* signals.  Neither beam-init nor the user owes anything.
FairSpec ==
    /\ Spec
    /\ WF_allVars(BeamctlStep)
    /\ WF_allVars(Returns \/ Detached \/ Printed \/ RequestFails)
    /\ SF_allVars(CopyOut)

-----------------------------------------------------------------------------
(* Properties.                                                             *)

\* beamctl never leaves the terminal in raw mode: whichever way attach ends, the settings
\* are restored, and while they are not, the keys that would end or stop beamctl are
\* blocked.  The exception is a SIGINT that ends beamctl between the two drops of a
\* failing manage (Fail).
TerminalRestored ==
    /\ tty = "raw" => masked \/ exit = "killed"
    /\ pc = "done" /\ exit # "killed" => tty = "user"

\* Once the service is gone attach ends, unless the terminal was ever too slow for its
\* output: then the hang-up may have been consumed and only a key or a signal helps.
RelayEnds == (pc = "relay" /\ PtyClosed) ~> (pc = "done" \/ dropped)
=============================================================================
