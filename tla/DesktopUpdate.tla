----------------------------- MODULE DesktopUpdate -----------------------------
(***************************************************************************)
(* The Desktop Edition update: Desktop Hosts prepare an update, hand over  *)
(* to the updater worker and exit; the worker swaps the deployment slots   *)
(* and launches the candidate; the candidate confirms its health; a Host   *)
(* that starts reconciles what a crash left behind.  The only thing these  *)
(* processes share is the disk, and a step of this module is one check of  *)
(* the disk or one write to it, so that a crash, or a step of another      *)
(* process, may fall between any two of them.  Reads that follow one       *)
(* another are one check; a ticket is created and consumed by a rename     *)
(* that fails when its target exists, so that the test is in the write.    *)
(***************************************************************************)
EXTENDS Naturals

CONSTANTS
  Tx,            \* update transactions; the content of t's package is named t
  Proc,          \* process identifiers, for Hosts and updater workers alike
  Base,          \* the deployment that is in Current before any update
  Absent,        \* a directory or a file that does not exist
  NoTx,          \* no transaction
  NoProc,        \* no process
  MaxCrash,      \* how many crashes a behaviour may have
  Overlap,       \* may a process work beside another one on the same slots?
  TornRollback   \* may a crash hit between the moves of a slot rollback?

ASSUME ConstantsAssumption ==
  /\ Base \notin Tx /\ Absent \notin Tx /\ NoTx \notin Tx
  /\ NoProc \notin Proc
  /\ Absent # Base
  /\ MaxCrash \in Nat
  /\ Overlap \in BOOLEAN /\ TornRollback \in BOOLEAN

VARIABLES
  journal,        \* State of transaction.json, or None
  current,        \* what is in the slot Current
  previous,       \* what is in the slot Previous
  payload,        \* is there a verified Candidate/<t>/Payload?
  failedCurrent,  \* what is in the quarantine Candidate/<t>/FailedCurrent
  abandoned,      \* what is in the quarantine Candidate/<t>/AbandonedCurrent
  activation,     \* Phase of activation.json, or Absent
  health,         \* health.json: Absent, "issued" or "confirmed"
  expired,        \* has the clock passed ExpiresAt of health.json?
  launched,       \* "started" when launch.json exists, "failed" when a write
                  \* of it failed: history that no step of a process reads
  ticket,         \* the Host pid in shutdown.json, or NoProc
  consumed,       \* does shutdown-consumed.json exist?
  pc,             \* where each process is, "off" when it does not run
  kind,           \* "host", "worker" or "none"
  arg,            \* the transaction a process works on
  cred,           \* the transaction whose health token a Host captured
  image,          \* the content of Current a Host was started from
  todo,           \* transactions startup recovery still has to reconcile
  crashes         \* crashes so far

slots  == <<current, previous, payload, failedCurrent, abandoned>>
health_vars == <<health, expired, launched>>
files  == <<activation, health_vars, ticket, consumed>>
disk   == <<journal, slots, files>>
locals == <<kind, arg, cred, image, todo>>
vars   == <<disk, pc, locals, crashes>>

-------------------------------------------------------------------------------
(* The states of a transaction and the transitions its journal accepts.      *)

\* The transaction has no transaction.json yet.
None == "none"

\* AllowedStates: what the State field of transaction.json may hold.
JournalState ==
  {"prepared", "applying", "awaiting-health-check", "committed",
   "rollback-pending", "rolled-back", "failed"}

\* What RecoverIncomplete leaves out, and what Recover reports as "terminal".
Terminal == {"committed", "rolled-back", "failed"}

\* RecoverIncomplete: the transactions that startup still has to look at.
Incomplete == JournalState \ Terminal

\* Incomplete transactions that have begun to touch the deployment slots.
InFlight == Incomplete \ {"prepared"}

\* Outcomes in which the update was given up.
Undone == {"rolled-back", "failed"}

\* The table of legal transitions.
CanTransition(from, to) ==
  <<from, to>> \in
    ({"prepared"} \X {"applying", "failed"})
    \cup ({"applying"} \X {"awaiting-health-check", "rollback-pending", "failed"})
    \cup ({"awaiting-health-check"} \X {"committed", "rollback-pending", "failed"})
    \cup ({"rollback-pending"} \X {"rolled-back", "failed"})

Deployment == Tx \cup {Base}
Slot       == Deployment \cup {Absent}
Phase      == {"prepared", "current-backed-up", "candidate-promoted",
               "awaiting-health-check"}

-------------------------------------------------------------------------------
(* Program counters, grouped by the method they are in.                      *)

HostAtWork  == {"shell", "fetch", "extract", "fail.write", "selected",
                "handoff"}
Preparing   == {"fetch", "extract", "fail.write"}
Confirming  == {"confirm.write", "confirm.stamp"}
Activating  == {"begin", "apply.check", "apply.write", "backup",
                "backup.phase", "promote", "promote.phase", "await.check",
                "await.write", "await.phase"}
RollingBack == {"pend.check", "pend.write", "rollback", "quarantine", "restore",
                "undo.check", "undo.write"}
Reverting   == {"revert", "abandon", "reinstate", "revert.check", "revert.write",
                "reverted.check", "reverted.write", "giveup.check",
                "giveup.write"}
Label == {"off", "boot", "list", "recover", "load", "verify", "wait",
          "activate", "issue", "issue.write", "launch", "record", "probe",
          "exiting"}
         \cup HostAtWork \cup Confirming \cup Activating \cup RollingBack
         \cup Reverting

(* Inside a rollback, after it has begun to move the slots back and before   *)
(* the journal says so.                                                      *)
Torn == {"restore", "undo.check", "undo.write", "reverted.check",
         "reverted.write"}

Running(p) == pc[p] # "off"
Goto(p, l) == pc' = [pc EXCEPT ![p] = l]

(* The process ends: normally, by a crash, or by an exception its caller     *)
(* turns into an exit (the worker returns 1 or 2, the Host closes itself).   *)
End(p) ==
  /\ Goto(p, "off")
  /\ kind'  = [kind  EXCEPT ![p] = "none"]
  /\ arg'   = [arg   EXCEPT ![p] = NoTx]
  /\ cred'  = [cred  EXCEPT ![p] = NoTx]
  /\ image' = [image EXCEPT ![p] = Absent]
  /\ todo'  = [todo  EXCEPT ![p] = {}]

(* The step ahead of p needs ok: p goes on to label l, or throws.            *)
Require(p, ok, l) ==
  \/ ok  /\ Goto(p, l) /\ UNCHANGED locals
  \/ ~ok /\ End(p)

(* What remains of Recover or of the worker's command once a transaction     *)
(* has been rolled back or given up.                                         *)
Finish(p) ==
  \/ /\ kind[p] = "host"
     /\ Goto(p, "recover")
     /\ todo' = [todo EXCEPT ![p] = @ \ {arg[p]}]
     /\ UNCHANGED <<kind, arg, cred, image>>
  \/ kind[p] # "host" /\ End(p)

\* Mutant: a transition that does not compare the file with what it holds.
TransitionUnchecked(p, at, expected, next) ==
  /\ pc[p] = at
  /\ Goto(p, next)
  /\ UNCHANGED <<disk, locals, crashes>>

(* UpdateTransactionJournal.Transition: read the file and compare it with    *)
(* the state the caller holds, then, in a step of its own, replace the file. *)
TransitionCheck(p, at, expected, next) ==
  /\ pc[p] = at
  /\ Require(p, journal[arg[p]] = expected, next)
  /\ UNCHANGED <<disk, crashes>>

SetJournal(p, state) == journal' = [journal EXCEPT ![arg[p]] = state]

TransitionWrite(p, at, state, next) ==
  /\ pc[p] = at
  /\ SetJournal(p, state)
  /\ Goto(p, next)
  /\ UNCHANGED <<slots, files, locals, crashes>>

-------------------------------------------------------------------------------
(* Host: startup and shell.                                                  *)

\* Mutant: a process is started from the slot Previous.
StartFromPrevious(q, k, t, c) ==
  /\ kind'  = [kind  EXCEPT ![q] = k]
  /\ arg'   = [arg   EXCEPT ![q] = t]
  /\ cred'  = [cred  EXCEPT ![q] = c]
  /\ image' = [image EXCEPT ![q] = IF k = "host" THEN previous ELSE Absent]
  /\ UNCHANGED todo

StartProcess(q, k, t, c) ==
  /\ kind'  = [kind  EXCEPT ![q] = k]
  /\ arg'   = [arg   EXCEPT ![q] = t]
  /\ cred'  = [cred  EXCEPT ![q] = c]
  /\ image' = [image EXCEPT ![q] = IF k = "host" THEN current ELSE Absent]
  /\ UNCHANGED todo

\* The user starts the Desktop Host.
StartHost(p) ==
  /\ ~Running(p)
  /\ Overlap \/ \A q \in Proc : ~Running(q)
  /\ Goto(p, "boot")
  /\ StartProcess(p, "host", NoTx, NoTx)
  /\ UNCHANGED <<disk, crashes>>

\* The updater worker's "recover" command on transaction t, which the program
\* never runs itself: somebody runs it by hand while no Host comes up.
StartRecoverCommand(p, t) ==
  /\ ~Running(p)
  /\ \A q \in Proc : ~Running(q)
  /\ journal[t] # None
  /\ Goto(p, "recover")
  /\ kind' = [kind EXCEPT ![p] = "worker"]
  /\ todo' = [todo EXCEPT ![p] = {t}]
  /\ UNCHANGED <<disk, arg, cred, image, crashes>>

\* CaptureFromEnvironment: a health token must be of a transaction that awaits.
Boot(p) ==
  /\ pc[p] = "boot"
  /\ Require(p, cred[p] # NoTx => journal[cred[p]] = "awaiting-health-check",
             "list")
  /\ UNCHANGED <<disk, crashes>>

\* Mutant: startup recovery overlooks the transactions caught in the swap.
ListAwaiting(p) ==
  /\ pc[p] = "list"
  /\ todo' = [todo EXCEPT ![p] = {t \in Tx : journal[t] = "awaiting-health-check"}]
  /\ Goto(p, "recover")
  /\ UNCHANGED <<disk, kind, arg, cred, image, crashes>>

\* RecoverBeforeShellStart lists the transactions it has to reconcile.
ListIncomplete(p) ==
  /\ pc[p] = "list"
  /\ todo' = [todo EXCEPT ![p] = {t \in Tx : journal[t] \in InFlight}]
  /\ Goto(p, "recover")
  /\ UNCHANGED <<disk, kind, arg, cred, image, crashes>>

\* Everything is reconciled: the Host loads the shell, the command ends.
RecoveryDone(p) ==
  /\ pc[p] = "recover" /\ todo[p] = {}
  /\ Require(p, kind[p] = "host", "load")
  /\ UNCHANGED <<disk, crashes>>

\* The trusted shell document has loaded: a candidate proves its health, any
\* other Host is ready.  Confirm needs a pending, unexpired challenge.
ShellReady(p) ==
  /\ pc[p] = "load"
  /\ \/ cred[p] = NoTx /\ Goto(p, "shell") /\ UNCHANGED locals
     \/ /\ cred[p] # NoTx
        /\ Require(p, /\ journal[cred[p]] = "awaiting-health-check"
                      /\ health[cred[p]] = "issued"
                      /\ ~expired[cred[p]], "confirm.write")
  /\ UNCHANGED <<disk, crashes>>

\* WebView2 or the navigation fails: the Host shows the error and exits.
ShellFails(p) ==
  /\ pc[p] = "load" /\ End(p)
  /\ UNCHANGED <<disk, crashes>>

\* The journal is authoritative: it is committed first ...
ConfirmCommit(p) ==
  /\ pc[p] = "confirm.write"
  /\ journal' = [journal EXCEPT ![cred[p]] = "committed"]
  /\ Goto(p, "confirm.stamp")
  /\ UNCHANGED <<slots, files, locals, crashes>>

\* ... and the challenge is marked confirmed afterwards.
ConfirmStamp(p) ==
  /\ pc[p] = "confirm.stamp"
  /\ health' = [health EXCEPT ![cred[p]] = "confirmed"]
  /\ Goto(p, "shell")
  /\ UNCHANGED <<journal, slots, activation, expired, launched, ticket,
                 consumed, locals, crashes>>

\* The Host is closed; in "exiting" it closes itself (requestHostExit).
HostExit(p) ==
  /\ pc[p] \in {"shell", "exiting"} \cup Preparing
  /\ End(p)
  /\ UNCHANGED <<disk, crashes>>

-------------------------------------------------------------------------------
(* Host: preparing an update.                                                *)

\* PrepareAsync refuses while a transaction is incomplete, then downloads.
PrepareStart(p) ==
  /\ pc[p] = "shell"
  /\ \A t \in Tx : journal[t] \notin Incomplete
  /\ Goto(p, "fetch")
  /\ UNCHANGED <<disk, locals, crashes>>

\* The download is staged and handed off: the journal begins.
PrepareBegin(p, t) ==
  /\ pc[p] = "fetch" /\ journal[t] = None
  /\ journal' = [journal EXCEPT ![t] = "prepared"]
  /\ arg' = [arg EXCEPT ![p] = t]
  /\ Goto(p, "extract")
  /\ UNCHANGED <<slots, files, kind, cred, image, todo, crashes>>

\* The candidate payload is extracted and verified.
PrepareDone(p) ==
  /\ pc[p] = "extract"
  /\ journal[arg[p]] = "prepared"
  /\ payload' = [payload EXCEPT ![arg[p]] = TRUE]
  /\ Goto(p, "shell")
  /\ UNCHANGED <<journal, current, previous, failedCurrent, abandoned, files,
                 locals, crashes>>

\* A failure before the journal begins, or a cancellation: a transaction that
\* has begun stays prepared, without a candidate.
PrepareAbandoned(p) ==
  /\ pc[p] \in {"fetch", "extract"}
  /\ Goto(p, "shell")
  /\ UNCHANGED <<disk, locals, crashes>>

\* FailPreparedTransaction: a transaction that is still prepared has failed.
PrepareFails(p) ==
  /\ pc[p] = "extract"
  /\ Goto(p, IF journal[arg[p]] = "prepared" THEN "fail.write" ELSE "shell")
  /\ UNCHANGED <<disk, locals, crashes>>

-------------------------------------------------------------------------------
(* Host: handing over to the updater worker.                                 *)

\* RequireReady: exactly one incomplete transaction, prepared, with its
\* candidate verified.
RequestRestart(p, t) ==
  /\ pc[p] = "shell"
  /\ {u \in Tx : journal[u] \in Incomplete} = {t}
  /\ journal[t] = "prepared" /\ payload[t]
  /\ arg' = [arg EXCEPT ![p] = t]
  /\ Goto(p, "selected")
  /\ UNCHANGED <<disk, kind, cred, image, todo, crashes>>

\* HostShutdownHandoff.Issue, which needs that no ticket exists yet; it may
\* fail, and the Host stays open.
IssueTicket(p) ==
  /\ pc[p] = "selected"
  /\ \/ /\ journal[arg[p]] = "prepared" /\ ticket[arg[p]] = NoProc
        /\ ticket' = [ticket EXCEPT ![arg[p]] = p]
        /\ Goto(p, "handoff")
     \/ Goto(p, "shell") /\ UNCHANGED ticket
  /\ UNCHANGED <<journal, slots, activation, health_vars, consumed, locals,
                 crashes>>

\* The worker is started and the Host asks itself to exit.
StartWorker(p, q) ==
  /\ pc[p] = "handoff" /\ ~Running(q)
  /\ pc' = [pc EXCEPT ![p] = "exiting", ![q] = "verify"]
  /\ StartProcess(q, "worker", arg[p], NoTx)
  /\ UNCHANGED <<disk, crashes>>

\* The worker could not be started: the ticket is revoked.
StartWorkerFails(p) ==
  /\ pc[p] = "handoff"
  /\ ticket' = [ticket EXCEPT ![arg[p]] = NoProc]
  /\ Goto(p, "shell")
  /\ UNCHANGED <<journal, slots, activation, health_vars, consumed, locals,
                 crashes>>

-------------------------------------------------------------------------------
(* Worker: activate-and-launch.                                              *)

\* VerifyAndWait, up to the wait: the transaction is prepared and its ticket
\* exists.
VerifyTicket(p) ==
  /\ pc[p] = "verify"
  /\ Require(p, journal[arg[p]] = "prepared" /\ ticket[arg[p]] # NoProc, "wait")
  /\ UNCHANGED <<disk, crashes>>

\* Mutant: the worker does not wait for the Host.
ConsumeTicketAtOnce(p) ==
  LET ok == ~consumed[arg[p]]
  IN  /\ pc[p] = "wait"
      /\ Require(p, ok, "activate")
      /\ IF ok THEN /\ ticket'   = [ticket   EXCEPT ![arg[p]] = NoProc]
                    /\ consumed' = [consumed EXCEPT ![arg[p]] = TRUE]
               ELSE UNCHANGED <<ticket, consumed>>
      /\ UNCHANGED <<journal, slots, activation, health_vars, crashes>>

\* Mutant: a second ticket of a transaction is as good as the first.
ConsumeTicketAgain(p) ==
  /\ pc[p] = "wait"
  /\ ticket[arg[p]] # NoProc /\ ~Running(ticket[arg[p]])
  /\ ticket'   = [ticket   EXCEPT ![arg[p]] = NoProc]
  /\ consumed' = [consumed EXCEPT ![arg[p]] = TRUE]
  /\ Goto(p, "activate")
  /\ UNCHANGED <<journal, slots, activation, health_vars, locals, crashes>>

\* The Host that issued the ticket is gone; the ticket is used up, unless one
\* was used up before for this transaction.
ConsumeTicket(p) ==
  LET ok == ~consumed[arg[p]]
  IN  /\ pc[p] = "wait"
      /\ ticket[arg[p]] # NoProc /\ ~Running(ticket[arg[p]])
      /\ Require(p, ok, "activate")
      /\ IF ok THEN /\ ticket'   = [ticket   EXCEPT ![arg[p]] = NoProc]
                    /\ consumed' = [consumed EXCEPT ![arg[p]] = TRUE]
               ELSE UNCHANGED <<ticket, consumed>>
      /\ UNCHANGED <<journal, slots, activation, health_vars, crashes>>

\* The ticket has expired, or the Host is still alive when the wait times out.
WaitTimesOut(p) ==
  /\ pc[p] \in {"verify", "wait"} /\ End(p)
  /\ UNCHANGED <<disk, crashes>>

\* Mutant: an activation that does not look at the slot Previous.
BeginOverPrevious(p) ==
  LET t  == arg[p]
      ok == /\ journal[t] = "prepared" /\ payload[t]
            /\ current # Absent
            /\ activation[t] = Absent
  IN  /\ pc[p] = "activate"
      /\ Require(p, ok, "begin")
      /\ UNCHANGED <<disk, crashes>>

\* Activate, up to the first write: every precondition of the swap.
BeginActivation(p) ==
  LET t  == arg[p]
      ok == /\ journal[t] = "prepared" /\ payload[t]
            /\ current # Absent /\ previous = Absent
            /\ activation[t] = Absent
  IN  /\ pc[p] = "activate"
      /\ Require(p, ok, "begin")
      /\ UNCHANGED <<disk, crashes>>

SetPhase(p, phase) == activation' = [activation EXCEPT ![arg[p]] = phase]

PersistPhase(p, at, phase, next) ==
  /\ pc[p] = at
  /\ SetPhase(p, phase)
  /\ Goto(p, next)
  /\ UNCHANGED <<journal, slots, health_vars, ticket, consumed, locals, crashes>>

\* Directory.Move(Current, Previous).
BackUpCurrent(p) ==
  LET ok == current # Absent /\ previous = Absent
  IN  /\ pc[p] = "backup"
      /\ Require(p, ok, "backup.phase")
      /\ IF ok THEN previous' = current /\ current' = Absent
               ELSE UNCHANGED <<previous, current>>
      /\ UNCHANGED <<journal, payload, failedCurrent, abandoned, files, crashes>>

\* Directory.Move(Payload, Current).
PromoteCandidate(p) ==
  LET ok == payload[arg[p]] /\ current = Absent
  IN  /\ pc[p] = "promote"
      /\ Require(p, ok, "promote.phase")
      /\ IF ok THEN /\ current' = arg[p]
                    /\ payload' = [payload EXCEPT ![arg[p]] = FALSE]
               ELSE UNCHANGED <<current, payload>>
      /\ UNCHANGED <<journal, previous, failedCurrent, abandoned, files, crashes>>

(* An exception behind the swap is answered by a rollback, but only while    *)
(* the transaction still awaits its health check.                            *)
Answer(p) == Require(p, journal[arg[p]] = "awaiting-health-check", "pend.check")

\* ActivateAndIssueHealth: the challenge is issued once per transaction ...
IssueHealth(p) ==
  /\ pc[p] = "issue"
  /\ journal[arg[p]] = "awaiting-health-check" /\ health[arg[p]] = Absent
  /\ Goto(p, "issue.write")
  /\ UNCHANGED <<disk, locals, crashes>>

\* ... and kept as a hash in health.json.
WriteHealth(p) ==
  /\ pc[p] = "issue.write"
  /\ health' = [health EXCEPT ![arg[p]] = "issued"]
  /\ Goto(p, "launch")
  /\ UNCHANGED <<journal, slots, activation, expired, launched, ticket, consumed,
                 locals, crashes>>

IssueHealthFails(p) ==
  /\ pc[p] \in {"issue", "issue.write"} /\ Answer(p)
  /\ UNCHANGED <<disk, crashes>>

LaunchAllowed(t) ==
  /\ journal[t] = "awaiting-health-check"
  /\ activation[t] = "awaiting-health-check"
  /\ current # Absent
  /\ "started" \notin launched[t]

\* Launch: the candidate is started from Current with the health token.
LaunchCandidate(p, q) ==
  /\ pc[p] = "launch" /\ LaunchAllowed(arg[p]) /\ ~Running(q)
  /\ pc' = [pc EXCEPT ![p] = "record", ![q] = "boot"]
  /\ StartProcess(q, "host", NoTx, arg[p])
  /\ UNCHANGED <<disk, crashes>>

\* A failed precondition is not answered by a rollback, a failed start is.
LaunchFails(p) ==
  /\ pc[p] = "launch"
  /\ \/ ~LaunchAllowed(arg[p]) /\ End(p)
     \/ LaunchAllowed(arg[p]) /\ Answer(p)
  /\ UNCHANGED <<disk, crashes>>

\* launch.json is written beside the running candidate.
RecordLaunch(p) ==
  /\ pc[p] = "record"
  /\ launched' = [launched EXCEPT ![arg[p]] = @ \cup {"started"}]
  /\ Goto(p, "probe")
  /\ UNCHANGED <<journal, slots, activation, health, expired, ticket, consumed,
                 locals, crashes>>

\* launch.json cannot be written: the transaction is rolled back if it still
\* awaits its health check, beside the candidate, which is not stopped.
RecordLaunchFails(p) ==
  /\ pc[p] = "record" /\ Answer(p)
  /\ launched' = [launched EXCEPT ![arg[p]] = @ \cup {"failed"}]
  /\ UNCHANGED <<journal, slots, activation, health, expired, ticket, consumed,
                 crashes>>

CandidateRuns(t) == \E q \in Proc : Running(q) /\ cred[q] = t

\* The startup probe: a candidate that exits early is rolled back.
ProbeEarlyExit(p) ==
  /\ pc[p] = "probe" /\ ~CandidateRuns(arg[p])
  /\ Goto(p, "pend.check")
  /\ UNCHANGED <<disk, locals, crashes>>

ProbePassed(p) ==
  /\ pc[p] = "probe" /\ CandidateRuns(arg[p]) /\ End(p)
  /\ UNCHANGED <<disk, crashes>>

-------------------------------------------------------------------------------
(* Slot rollback and recovery.                                               *)

\* Mutant: a transaction whose challenge was never issued is left waiting.
RecoverExpired(p, t) ==
  LET settled == \/ journal[t] \in Terminal \cup {"prepared"}
                 \/ /\ journal[t] = "awaiting-health-check"
                    /\ ~(health[t] = "issued" /\ expired[t])
  IN  /\ pc[p] = "recover" /\ t \in todo[p]
      /\ \/ /\ settled
            /\ todo' = [todo EXCEPT ![p] = @ \ {t}]
            /\ UNCHANGED <<pc, arg>>
         \/ /\ ~settled
            /\ arg' = [arg EXCEPT ![p] = t]
            /\ UNCHANGED todo
            /\ \/ journal[t] = "applying" /\ Goto(p, "revert")
               \/ journal[t] = "awaiting-health-check" /\ Goto(p, "pend.check")
               \/ journal[t] = "rollback-pending" /\ Goto(p, "rollback")
      /\ UNCHANGED <<disk, kind, cred, image, crashes>>

\* UpdateRecoveryCoordinator.Recover, for one transaction of the list.
Recover(p, t) ==
  LET unconfirmable == \/ health[t] = Absent
                       \/ health[t] = "issued" /\ expired[t]
      settled == \/ journal[t] \in Terminal \cup {"prepared"}
                 \/ journal[t] = "awaiting-health-check" /\ ~unconfirmable
  IN  /\ pc[p] = "recover" /\ t \in todo[p]
      /\ \/ /\ settled
            /\ todo' = [todo EXCEPT ![p] = @ \ {t}]
            /\ UNCHANGED <<pc, arg>>
         \/ /\ ~settled
            /\ arg' = [arg EXCEPT ![p] = t]
            /\ UNCHANGED todo
            /\ \/ journal[t] = "applying" /\ Goto(p, "revert")
               \/ journal[t] = "awaiting-health-check" /\ Goto(p, "pend.check")
               \/ journal[t] = "rollback-pending" /\ Goto(p, "rollback")
      /\ UNCHANGED <<disk, kind, cred, image, crashes>>

\* Mutant: what is in Current is taken for the deployment to keep.
KeepCurrent(p) ==
  /\ pc[p] = "revert"
  /\ Require(p, journal[arg[p]] = "applying",
             IF current = Absent THEN "reinstate" ELSE "revert.check")
  /\ UNCHANGED <<disk, crashes>>

\* Mutant: what is in Current is taken for the candidate.
DistrustCurrent(p) ==
  /\ pc[p] = "revert"
  /\ Require(p, journal[arg[p]] = "applying",
             IF current = Absent THEN "reinstate" ELSE "abandon")
  /\ UNCHANGED <<disk, crashes>>

\* RecoverApplying: Previous, when it exists, is authoritative.
RecoverApplying(p) ==
  LET t == arg[p]
  IN  /\ pc[p] = "revert"
      /\ \/ /\ journal[t] = "applying" /\ previous # Absent
            /\ \/ current = Absent /\ Goto(p, "reinstate") /\ UNCHANGED locals
               \/ /\ current # Absent
                  /\ Require(p, abandoned[t] = Absent, "abandon")
         \/ /\ journal[t] = "applying" /\ previous = Absent
            /\ Require(p, current # Absent, "giveup.check")
         \/ journal[t] # "applying" /\ End(p)
      /\ UNCHANGED <<disk, crashes>>

\* Mutant: Current is deleted where it should be moved away.
DeleteCurrent(p) ==
  /\ pc[p] = "abandon"
  /\ Require(p, current # Absent, "reinstate")
  /\ current' = Absent
  /\ UNCHANGED <<journal, previous, payload, failedCurrent, abandoned, files,
                 crashes>>

\* Directory.Move(Current, AbandonedCurrent).
AbandonCurrent(p) ==
  LET ok == current # Absent /\ abandoned[arg[p]] = Absent
  IN  /\ pc[p] = "abandon"
      /\ Require(p, ok, "reinstate")
      /\ IF ok THEN /\ abandoned' = [abandoned EXCEPT ![arg[p]] = current]
                    /\ current' = Absent
               ELSE UNCHANGED <<abandoned, current>>
      /\ UNCHANGED <<journal, previous, payload, failedCurrent, files, crashes>>

\* Directory.Move(Previous, Current), from label at.
RestorePrevious(p, at, next) ==
  LET ok == previous # Absent /\ current = Absent
  IN  /\ pc[p] = at
      /\ Require(p, ok, next)
      /\ IF ok THEN current' = previous /\ previous' = Absent
               ELSE UNCHANGED <<current, previous>>
      /\ UNCHANGED <<journal, payload, failedCurrent, abandoned, files, crashes>>

\* Rollback: Previous must be there and the quarantine must be free.
BeginRollback(p) ==
  LET t == arg[p]
  IN  /\ pc[p] = "rollback"
      /\ Require(p, /\ journal[t] = "rollback-pending"
                    /\ previous # Absent /\ failedCurrent[t] = Absent,
                 IF current = Absent THEN "restore" ELSE "quarantine")
      /\ UNCHANGED <<disk, crashes>>

\* Directory.Move(Current, FailedCurrent).
QuarantineCurrent(p) ==
  LET ok == current # Absent /\ failedCurrent[arg[p]] = Absent
  IN  /\ pc[p] = "quarantine"
      /\ Require(p, ok, "restore")
      /\ IF ok THEN /\ failedCurrent' = [failedCurrent EXCEPT ![arg[p]] = current]
                    /\ current' = Absent
               ELSE UNCHANGED <<failedCurrent, current>>
      /\ UNCHANGED <<journal, previous, payload, abandoned, files, crashes>>

\* Mutant: the last write of a rollback is forgotten.
ConcludeUnsaved(p, at, state) ==
  /\ pc[p] = at
  /\ Finish(p)
  /\ UNCHANGED <<disk, crashes>>

\* The last write of a rollback or of a given-up activation.
Conclude(p, at, state) ==
  /\ pc[p] = at
  /\ SetJournal(p, state)
  /\ Finish(p)
  /\ UNCHANGED <<slots, files, crashes>>

-------------------------------------------------------------------------------
(* The system.                                                               *)

Init ==
  /\ journal = [t \in Tx |-> None]
  /\ current = Base /\ previous = Absent
  /\ payload = [t \in Tx |-> FALSE]
  /\ failedCurrent = [t \in Tx |-> Absent]
  /\ abandoned = [t \in Tx |-> Absent]
  /\ activation = [t \in Tx |-> Absent]
  /\ health = [t \in Tx |-> Absent]
  /\ expired = [t \in Tx |-> FALSE]
  /\ launched = [t \in Tx |-> {}]
  /\ ticket = [t \in Tx |-> NoProc]
  /\ consumed = [t \in Tx |-> FALSE]
  /\ pc = [p \in Proc |-> "off"]
  /\ kind = [p \in Proc |-> "none"]
  /\ arg = [p \in Proc |-> NoTx]
  /\ cred = [p \in Proc |-> NoTx]
  /\ image = [p \in Proc |-> Absent]
  /\ todo = [p \in Proc |-> {}]
  /\ crashes = 0

\* DeploymentSlotActivator.Activate after BeginActivation, statement by statement.
Activate(p) ==
  \/ PersistPhase(p, "begin", "prepared", "apply.check")
  \/ TransitionCheck(p, "apply.check", "prepared", "apply.write")
  \/ TransitionWrite(p, "apply.write", "applying", "backup")
  \/ BackUpCurrent(p)
  \/ PersistPhase(p, "backup.phase", "current-backed-up", "promote")
  \/ PromoteCandidate(p)
  \/ PersistPhase(p, "promote.phase", "candidate-promoted", "await.check")
  \/ TransitionCheck(p, "await.check", "applying", "await.write")
  \/ TransitionWrite(p, "await.write", "awaiting-health-check", "await.phase")
  \/ PersistPhase(p, "await.phase", "awaiting-health-check", "issue")

\* The transition to rollback-pending of a promoted candidate, and Rollback.
Rollback(p) ==
  \/ TransitionCheck(p, "pend.check", "awaiting-health-check", "pend.write")
  \/ TransitionWrite(p, "pend.write", "rollback-pending", "rollback")
  \/ BeginRollback(p)
  \/ QuarantineCurrent(p)
  \/ RestorePrevious(p, "restore", "undo.check")
  \/ TransitionCheck(p, "undo.check", "rollback-pending", "undo.write")
  \/ Conclude(p, "undo.write", "rolled-back")

\* RecoverApplying, statement by statement.
Revert(p) ==
  \/ RecoverApplying(p)
  \/ AbandonCurrent(p)
  \/ RestorePrevious(p, "reinstate", "revert.check")
  \/ TransitionCheck(p, "revert.check", "applying", "revert.write")
  \/ TransitionWrite(p, "revert.write", "rollback-pending", "reverted.check")
  \/ TransitionCheck(p, "reverted.check", "rollback-pending", "reverted.write")
  \/ Conclude(p, "reverted.write", "rolled-back")
  \/ TransitionCheck(p, "giveup.check", "applying", "giveup.write")
  \/ Conclude(p, "giveup.write", "failed")

\* What a running process does without anybody asking it to.
Step(p) ==
  \/ Boot(p) \/ ListIncomplete(p) \/ (\E t \in Tx : Recover(p, t))
  \/ RecoveryDone(p)
  \/ ShellReady(p) \/ ShellFails(p) \/ ConfirmCommit(p) \/ ConfirmStamp(p)
  \/ (\E t \in Tx : PrepareBegin(p, t))
  \/ PrepareDone(p) \/ PrepareAbandoned(p) \/ PrepareFails(p)
  \/ TransitionWrite(p, "fail.write", "failed", "shell")
  \/ IssueTicket(p)
  \/ (\E q \in Proc : StartWorker(p, q)) \/ StartWorkerFails(p)
  \/ VerifyTicket(p) \/ ConsumeTicket(p) \/ WaitTimesOut(p)
  \/ BeginActivation(p) \/ Activate(p)
  \/ IssueHealth(p) \/ WriteHealth(p) \/ IssueHealthFails(p)
  \/ (\E q \in Proc : LaunchCandidate(p, q)) \/ LaunchFails(p)
  \/ RecordLaunch(p) \/ RecordLaunchFails(p)
  \/ ProbeEarlyExit(p) \/ ProbePassed(p)
  \/ Rollback(p) \/ Revert(p)

\* What the user does.
UserStep(p) ==
  \/ StartHost(p) \/ HostExit(p) \/ PrepareStart(p)
  \/ \E t \in Tx : RequestRestart(p, t) \/ StartRecoverCommand(p, t)

\* Power loss, a killed process, or an I/O error that nothing catches.
Crash(p) ==
  /\ Running(p) /\ crashes < MaxCrash
  /\ TornRollback \/ pc[p] \notin Torn
  /\ End(p)
  /\ crashes' = crashes + 1
  /\ UNCHANGED disk

\* The clock passes ExpiresAt.
Expire(t) ==
  /\ health[t] = "issued" /\ ~expired[t]
  /\ expired' = [expired EXCEPT ![t] = TRUE]
  /\ UNCHANGED <<journal, slots, activation, health, launched, ticket, consumed,
                 pc, locals, crashes>>

Next ==
  \/ \E p \in Proc : Step(p) \/ UserStep(p) \/ Crash(p)
  \/ \E t \in Tx : Expire(t)

Spec == Init /\ [][Next]_vars

(* A running process keeps running its code, the clock advances, and the     *)
(* user closes a Host some time and starts one again when none runs.         *)
Fairness ==
  /\ \A p \in Proc : WF_vars(Step(p)) /\ WF_vars(HostExit(p))
  /\ WF_vars(\E p \in Proc : StartHost(p))
  /\ \A t \in Tx : WF_vars(Expire(t))

FairSpec == Spec /\ Fairness

-------------------------------------------------------------------------------
(* Properties.                                                               *)

\* The type invariant.
TypeOK ==
  /\ journal \in [Tx -> JournalState \cup {None}]
  /\ current \in Slot /\ previous \in Slot
  /\ payload \in [Tx -> BOOLEAN]
  /\ failedCurrent \in [Tx -> Slot]
  /\ abandoned \in [Tx -> Slot]
  /\ activation \in [Tx -> Phase \cup {Absent}]
  /\ health \in [Tx -> {Absent, "issued", "confirmed"}]
  /\ expired \in [Tx -> BOOLEAN]
  /\ launched \in [Tx -> SUBSET {"started", "failed"}]
  /\ ticket \in [Tx -> Proc \cup {NoProc}]
  /\ consumed \in [Tx -> BOOLEAN]
  /\ pc \in [Proc -> Label]
  /\ kind \in [Proc -> {"none", "host", "worker"}]
  /\ arg \in [Proc -> Tx \cup {NoTx}]
  /\ cred \in [Proc -> Tx \cup {NoTx}]
  /\ image \in [Proc -> Slot]
  /\ todo \in [Proc -> SUBSET Tx]
  /\ crashes \in 0 .. MaxCrash

(* launch.json of t could not be written.  The worker then rolls t back       *)
(* beside the candidate it has just started: the one place where two         *)
(* processes work on one transaction although every Host was waited for.     *)
(* What holds of t only without that says so below; desktop_launch_record    *)
(* shows the loss.                                                           *)
Unrecorded(t) == "failed" \in launched[t]
EveryLaunchRecorded == \A t \in Tx : ~Unrecorded(t)

\* A rollback the journal announces and nobody is half-way through can be
\* carried out: Rollback finds Previous, and its quarantine is free.  (Not for
\* a transaction whose launch could not be recorded.)
RollbackReady ==
  \A t \in Tx :
    /\ journal[t] = "rollback-pending" /\ ~Unrecorded(t)
    /\ \A p \in Proc : arg[p] = t => pc[p] \notin Torn
    => previous # Absent /\ failedCurrent[t] = Absent

\* A committed update is the one in Current, unless its launch could not be
\* recorded.
CommittedInPlace ==
  \A t \in Tx : journal[t] = "committed" /\ ~Unrecorded(t) => current = t

\* An update that was rolled back or given up is in neither slot.
UndoneOutOfSlots ==
  \A t \in Tx : journal[t] \in Undone => t \notin {current, previous}

\* A deployment that is known to work is always in one of the two slots,
\* whatever crashes: the first one, or one that confirmed its health.
KnownGoodOnDisk ==
  \E d \in {current, previous} :
    d = Base \/ (d \in Tx /\ journal[d] = "committed")

\* "Ambiguous state never gets hidden behind a normally running shell": while
\* a shell loads or runs, Current is there, and no transaction is between its
\* first slot move and its verdict other than one that awaits its health check,
\* or one whose launch could not be recorded.
ShellHidesNothing ==
  (\E p \in Proc : pc[p] \in HostAtWork \cup Confirming \cup {"load"}) =>
    /\ current # Absent \/ \E t \in Tx : Unrecorded(t)
    /\ \A t \in Tx :
         journal[t] \in {"applying", "rollback-pending"} => Unrecorded(t)

\* The slots are swapped only when no Host runs.
SwapAfterHostExit ==
  \A p, q \in Proc : pc[p] \in Activating => kind[q] # "host"

\* The one-shot ticket and activation.json let one worker activate a
\* transaction, whatever runs beside it.
OneActivation ==
  \A p, q \in Proc :
    /\ pc[p] \in Activating /\ pc[q] \in Activating /\ arg[p] = arg[q]
    => p = q

\* No slot move destroys the deployment the update started from: it is in a
\* slot or in a quarantine, whatever runs beside what.
FirstDeploymentKept ==
  \/ Base \in {current, previous}
  \/ \E t \in Tx : Base \in {failedCurrent[t], abandoned[t]}

\* A prepared update that RequireReady has selected can be activated: the
\* selector "resolves the one prepared Desktop update that is safe to hand to
\* the restart lifecycle".  It does not hold of a second update, whose Previous
\* is occupied, and no run checks it.
SelectedCanActivate ==
  \A p \in Proc : pc[p] = "handoff" =>
    /\ current # Absent /\ previous = Absent
    /\ activation[arg[p]] = Absent /\ ~consumed[arg[p]]

\* A step leaves the journal of t alone, begins it, or follows the table.
LegalWrite(t) ==
  \/ journal'[t] = journal[t]
  \/ journal[t] = None /\ journal'[t] = "prepared"
  \/ CanTransition(journal[t], journal'[t])

\* Every write of a transaction.json follows the table of legal transitions,
\* unless the launch of that transaction could not be recorded.
JournalDiscipline == [][\A t \in Tx : LegalWrite(t) \/ Unrecorded(t)]_journal

\* "`UpdateTransactionJournal` records recoverable state transitions atomically
\* and rejects stale writers": the same without the exception
\* (desktop/windows/README.md:124).
RejectsStaleWriters == [][\A t \in Tx : LegalWrite(t)]_journal

\* A step commits t only while a Host that was started from it runs.
CommitsTarget(t) ==
  journal[t] # "committed" /\ journal'[t] = "committed" =>
    \E p \in Proc : Running(p) /\ image[p] = t

\* An update commits only while a Host that was started from it runs.
CommitByTarget == [][\A t \in Tx : CommitsTarget(t)]_journal

\* An update that has begun to touch the slots gets a verdict, unless its
\* launch could not be recorded.
Settles ==
  \A t \in Tx : journal[t] \in InFlight
                 ~> journal[t] \in Terminal \/ Unrecorded(t)
================================================================================
