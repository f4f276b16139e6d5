--------------------------- MODULE UpdatePreparation ---------------------------
(***************************************************************************)
(* Preparing an update inside one Desktop Host.  Two services do it: the   *)
(* one of the main window, which the shell asks, and the one of the        *)
(* background runtime, which a scheduler runs in cycles under the policy   *)
(* of the user.  They share the policy file and the transactions on disk.  *)
(* A step is what a service does under one lock, or one read or write of a *)
(* shared file; between two of them the other service, the user or the     *)
(* scheduler may act.                                                      *)
(***************************************************************************)
EXTENDS Naturals, FiniteSets

CONSTANTS
  Tx,    \* update transactions, each one fresh (its name is a GUID)
  NoTx   \* no transaction

ASSUME ConstantsAssumption == NoTx \notin Tx

VARIABLES
  mode,        \* the policy in update-user-policy.json
  state,       \* _state of a service's preparation bridge
  auto,        \* _automaticPreparationQueuedOrRunning of a service
  cancelled,   \* has the token of a service's operation been cancelled?
  pc,          \* where a service's cycle or operation is
  cur,         \* the transaction a service's operation has begun
  scheduler,   \* "on", "stopping" (its token is cancelled) or "off"
  setter,      \* where SetUserPolicyAsync is
  journal,     \* the state of each transaction, or "none"
  candidate    \* has the candidate of a transaction been prepared?

service == <<state, auto, cancelled, cur>>
policy  == <<mode, scheduler, setter>>
disk    == <<journal, candidate>>
vars    == <<service, policy, disk, pc>>

Shell      == "shell"
Background == "background"
Service    == {Shell, Background}
Mode       == {"manual", "notify", "automatic"}

(* DesktopUpdateUserPolicyStore.Evaluate.                                    *)
BackgroundCheck  == mode # "manual"
AutomaticPrepare == mode = "automatic"

Cycle     == {"check", "found", "queue", "enqueue"}
Operation == {"execute", "run", "start", "fetch", "extract", "ready", "fail",
              "cancel", "clear"}
Label     == {"rest"} \cup Cycle \cup Operation

Goto(s, l)  == pc' = [pc EXCEPT ![s] = l]
Set(f, s, v) == [f EXCEPT ![s] = v]
Cancelled(s) == cancelled[s] \/ (s = Background /\ scheduler = "stopping")

-------------------------------------------------------------------------------
(* The background cycle: RunBackgroundCycleAsync.                            *)

\* The scheduler begins a cycle; the policy must allow background checks.
BeginCycle ==
  /\ scheduler = "on" /\ pc[Background] = "rest"
  /\ BackgroundCheck
  /\ Goto(Background, "check")
  /\ UNCHANGED <<service, policy, disk>>

\* CheckAsync reads the policy again, then the signed feed; it finds an update,
\* or finds none, or fails.
CheckFeed ==
  /\ pc[Background] = "check"
  /\ \/ BackgroundCheck /\ Goto(Background, "found")
     \/ Goto(Background, "rest")
  /\ UNCHANGED <<service, policy, disk>>

\* The policy is read once more: only an automatic one prepares what was found.
DecideOnUpdate ==
  /\ pc[Background] = "found"
  /\ Goto(Background, IF AutomaticPrepare THEN "queue" ELSE "rest")
  /\ UNCHANGED <<service, policy, disk>>

\* QueueAutomaticPrepare reads the policy before it takes the lock.
AuthorizeQueue ==
  /\ pc[Background] = "queue"
  /\ Goto(Background, IF AutomaticPrepare THEN "enqueue" ELSE "rest")
  /\ UNCHANGED <<service, policy, disk>>

\* QueuePrepare under the lock: the bridge must be idle.
Enqueue ==
  /\ pc[Background] = "enqueue"
  /\ \/ /\ state[Background] = "idle"
        /\ state' = Set(state, Background, "queued")
        /\ auto' = Set(auto, Background, TRUE)
        /\ Goto(Background, "execute")
     \/ /\ state[Background] # "idle" /\ Goto(Background, "rest")
        /\ UNCHANGED <<state, auto>>
  /\ UNCHANGED <<cancelled, cur, policy, disk>>

-------------------------------------------------------------------------------
(* The shell.                                                                *)

\* A prepare request is queued, acknowledged and executed in one turn of the UI
\* thread; if the acknowledgement cannot be posted it is cancelled again.
UserPrepare ==
  /\ pc[Shell] = "rest" /\ state[Shell] = "idle"
  /\ state' = Set(state, Shell, "queued")
  /\ auto' = Set(auto, Shell, FALSE)
  /\ Goto(Shell, "execute")
  /\ UNCHANGED <<cancelled, cur, policy, disk>>

UserCancel ==
  /\ state[Shell] = "running"
  /\ cancelled' = Set(cancelled, Shell, TRUE)
  /\ auto' = Set(auto, Shell, FALSE)
  /\ UNCHANGED <<state, cur, policy, disk, pc>>

\* ResetTerminalState; nobody resets the service of the background runtime.
UserReset ==
  /\ state[Shell] \in {"ready", "failed"}
  /\ state' = Set(state, Shell, "idle")
  /\ auto' = Set(auto, Shell, FALSE)
  /\ UNCHANGED <<cancelled, cur, policy, disk, pc>>

-------------------------------------------------------------------------------
(* An operation: ExecuteQueuedAsync of the service and of its bridge.        *)

\* Mutant: what the policy no longer allows is not run, and stays queued.
ExecuteKeepQueued(s) ==
  /\ pc[s] = "execute"
  /\ \/ auto[s] /\ ~AutomaticPrepare /\ Goto(s, "rest")
     \/ ~(auto[s] /\ ~AutomaticPrepare) /\ Goto(s, "run")
  /\ UNCHANGED <<service, policy, disk>>

\* Under the policy lock: an automatic preparation that the policy no longer
\* allows is cancelled before it starts.
Execute(s) ==
  /\ pc[s] = "execute"
  /\ \/ /\ auto[s] /\ ~AutomaticPrepare
        /\ state' = [state EXCEPT ![s] = IF @ = "queued" THEN "idle" ELSE @]
        /\ auto' = Set(auto, s, FALSE)
        /\ Goto(s, "rest")
     \/ /\ ~(auto[s] /\ ~AutomaticPrepare) /\ Goto(s, "run")
        /\ UNCHANGED <<state, auto>>
  /\ UNCHANGED <<cancelled, cur, policy, disk>>

\* Under the lock of the bridge: what was revoked meanwhile is not run.
Run(s) ==
  /\ pc[s] = "run"
  /\ \/ /\ state[s] = "queued"
        /\ state' = Set(state, s, "running")
        /\ cancelled' = Set(cancelled, s, FALSE)
        /\ Goto(s, "start")
     \/ state[s] # "queued" /\ Goto(s, "clear") /\ UNCHANGED <<state, cancelled>>
  /\ UNCHANGED <<auto, cur, policy, disk>>

\* Mutant: a preparation starts beside a transaction that is not complete.
StartBeside(s) ==
  /\ pc[s] = "start"
  /\ Goto(s, "fetch")
  /\ UNCHANGED <<service, policy, disk>>

\* PrepareAsync refuses while a transaction is incomplete.
Start(s) ==
  /\ pc[s] = "start"
  /\ Goto(s, IF \E t \in Tx : journal[t] = "prepared" THEN "fail" ELSE "fetch")
  /\ UNCHANGED <<service, policy, disk>>

\* The update is downloaded and handed off, and its transaction begins.
BeginTransaction(s, t) ==
  /\ pc[s] = "fetch" /\ journal[t] = "none"
  /\ journal' = [journal EXCEPT ![t] = "prepared"]
  /\ cur' = Set(cur, s, t)
  /\ Goto(s, "extract")
  /\ UNCHANGED <<state, auto, cancelled, policy, candidate>>

\* The updater worker extracts the candidate and it is verified.
Extract(s) ==
  /\ pc[s] = "extract" /\ journal[cur[s]] = "prepared"
  /\ candidate' = [candidate EXCEPT ![cur[s]] = TRUE]
  /\ Goto(s, "ready")
  /\ UNCHANGED <<service, policy, journal>>

\* The download or the worker fails: a transaction that has begun has failed.
PreparationFails(s) ==
  /\ \/ pc[s] = "fetch" /\ UNCHANGED journal
     \/ pc[s] = "extract" /\ journal' = [journal EXCEPT ![cur[s]] = "failed"]
  /\ Goto(s, "fail")
  /\ UNCHANGED <<service, policy, candidate>>

\* A cancelled operation throws; a transaction that has begun stays prepared.
ObserveCancellation(s) ==
  /\ pc[s] \in {"fetch", "extract"} /\ Cancelled(s)
  /\ Goto(s, "cancel")
  /\ UNCHANGED <<service, policy, disk>>

\* The bridge notes the outcome.
Conclude(s) ==
  /\ \/ pc[s] = "ready" /\ state' = Set(state, s, "ready")
     \/ pc[s] = "fail" /\ state' = Set(state, s, "failed")
     \/ pc[s] = "cancel" /\ state' = Set(state, s, "idle")
  /\ Goto(s, "clear")
  /\ UNCHANGED <<auto, cancelled, cur, policy, disk>>

\* The finally of the service, under the policy lock.
Clear(s) ==
  /\ pc[s] = "clear"
  /\ auto' = Set(auto, s, FALSE)
  /\ cur' = Set(cur, s, NoTx)
  /\ Goto(s, "rest")
  /\ UNCHANGED <<state, cancelled, policy, disk>>

-------------------------------------------------------------------------------
(* The policy: SetUserPolicyAsync of the background runtime.                 *)

SavePolicy(m) ==
  /\ setter = "idle"
  /\ mode' = m
  /\ setter' = IF m = "automatic" THEN "reconcile" ELSE "revoke"
  /\ UNCHANGED <<service, scheduler, disk, pc>>

\* Mutant: a running automatic preparation is left alone.
RevokeQueuedOnly ==
  /\ setter = "revoke"
  /\ state' = [state EXCEPT ![Background] =
                 IF auto[Background] /\ @ = "queued" THEN "idle" ELSE @]
  /\ auto' = Set(auto, Background, FALSE)
  /\ setter' = "reconcile"
  /\ UNCHANGED <<cancelled, cur, mode, scheduler, disk, pc>>

\* RevokeAutomaticPreparationAfterPolicyDowngrade, under the policy lock.
Revoke ==
  /\ setter = "revoke"
  /\ state' = [state EXCEPT ![Background] =
                 IF auto[Background] /\ @ = "queued" THEN "idle" ELSE @]
  /\ cancelled' = [cancelled EXCEPT ![Background] =
                     @ \/ (auto[Background] /\ state[Background] = "running")]
  /\ auto' = Set(auto, Background, FALSE)
  /\ setter' = "reconcile"
  /\ UNCHANGED <<cur, mode, scheduler, disk, pc>>

\* ReconcileSchedulerAsync: the scheduler runs only under a policy that allows
\* background checks, in a Host whose release feed and worker are in place.
Reconcile ==
  /\ setter = "reconcile"
  /\ \/ BackgroundCheck /\ scheduler' = "on" /\ setter' = "idle"
     \/ /\ scheduler' = IF scheduler = "off" THEN "off" ELSE "stopping"
        /\ setter' = "stop"
  /\ UNCHANGED <<service, mode, disk, pc>>

\* StopAsync has cancelled the loop; a cycle that waits throws, one that works
\* is waited for.
Stopped ==
  /\ setter = "stop" /\ pc[Background] = "rest"
  /\ scheduler' = "off" /\ setter' = "idle"
  /\ UNCHANGED <<service, mode, disk, pc>>

-------------------------------------------------------------------------------
Init ==
  /\ mode \in Mode
  /\ state = [s \in Service |-> "idle"]
  /\ auto = [s \in Service |-> FALSE]
  /\ cancelled = [s \in Service |-> FALSE]
  /\ pc = [s \in Service |-> "rest"]
  /\ cur = [s \in Service |-> NoTx]
  /\ scheduler = IF mode = "manual" THEN "off" ELSE "on"
  /\ setter = "idle"
  /\ journal = [t \in Tx |-> "none"]
  /\ candidate = [t \in Tx |-> FALSE]

Work(s) ==
  \/ Execute(s) \/ Run(s) \/ Start(s) \/ (\E t \in Tx : BeginTransaction(s, t))
  \/ Extract(s) \/ PreparationFails(s) \/ ObserveCancellation(s)
  \/ Conclude(s) \/ Clear(s)

CycleStep == CheckFeed \/ DecideOnUpdate \/ AuthorizeQueue \/ Enqueue

SetPolicyStep == Revoke \/ Reconcile \/ Stopped

UserStep ==
  \/ UserPrepare \/ UserCancel \/ UserReset
  \/ \E m \in Mode : SavePolicy(m)

Next ==
  \/ BeginCycle \/ CycleStep \/ SetPolicyStep \/ UserStep
  \/ \E s \in Service : Work(s)

Spec == Init /\ [][Next]_vars

(* What has begun goes on: the tasks of the Host keep running, and the feed, *)
(* the download and the worker answer or time out.                           *)
Fairness ==
  /\ WF_vars(CycleStep) /\ WF_vars(SetPolicyStep)
  /\ \A s \in Service : WF_vars(Work(s))

FairSpec == Spec /\ Fairness

-------------------------------------------------------------------------------
(* Properties.                                                               *)

\* The type invariant.
TypeOK ==
  /\ mode \in Mode
  /\ state \in [Service -> {"idle", "queued", "running", "ready", "failed"}]
  /\ auto \in [Service -> BOOLEAN]
  /\ cancelled \in [Service -> BOOLEAN]
  /\ pc \in [Service -> Label]
  /\ cur \in [Service -> Tx \cup {NoTx}]
  /\ scheduler \in {"on", "stopping", "off"}
  /\ setter \in {"idle", "revoke", "reconcile", "stop"}
  /\ journal \in [Tx -> {"none", "prepared", "failed"}]
  /\ candidate \in [Tx -> BOOLEAN]

Working  == {"start", "fetch", "extract", "ready", "fail", "cancel"}
Holding  == {"extract", "ready"}

\* A service runs one operation at a time, and its bridge says so: work on disk
\* goes on only while the bridge is running.
SingleFlight == \A s \in Service : pc[s] \in Working <=> state[s] = "running"

(* What makes the properties below inductive.                                *)

\* An automatic preparation can be recognised and revoked from the moment it is
\* queued until it has been cancelled.
AutomaticIsKnown ==
  /\ state[Background] = "queued" =>
       auto[Background] /\ pc[Background] \in {"execute", "run"}
  /\ state[Background] = "running" => auto[Background] \/ cancelled[Background]

\* Once a downgrade has revoked, nothing is left that could start or go on.
DowngradeIsFinal ==
  setter # "revoke" /\ ~AutomaticPrepare =>
    /\ pc[Background] = "run" => state[Background] # "queued"
    /\ state[Background] = "running" => cancelled[Background]

\* A cycle runs only under a scheduler, and under manual there is none.
CycleHasScheduler ==
  /\ scheduler = "off" => pc[Background] = "rest"
  /\ setter = "idle" /\ mode = "manual" => scheduler = "off"

\* The transaction of an operation is its own, and prepared; when it is called
\* ready, so is its candidate.
OwnTransaction ==
  /\ \A s \in Service : pc[s] \in Holding =>
       cur[s] \in Tx /\ journal[cur[s]] = "prepared"
  /\ \A s, q \in Service :
       pc[s] \in Holding /\ pc[q] \in Holding /\ cur[s] = cur[q] => s = q
  /\ \A s \in Service : pc[s] = "ready" => candidate[cur[s]]

\* The inductive invariant.
IInv ==
  /\ TypeOK /\ SingleFlight /\ AutomaticIsKnown /\ DowngradeIsFinal
  /\ CycleHasScheduler /\ OwnTransaction

\* "A downgrade cannot race into background work": once SetUserPolicyAsync has
\* returned, no automatic preparation runs that has not been cancelled, at
\* whatever point of its cycle the change caught it.
DowngradeStopsAutomatic ==
  setter = "idle" /\ ~AutomaticPrepare /\ state[Background] = "running"
    => Cancelled(Background)

\* "Manual mode performs no network I/O": once the policy has been set to
\* manual, no cycle is under way.
ManualIsSilent ==
  setter = "idle" /\ mode = "manual" => pc[Background] = "rest"

\* The selector needs "exactly one prepared transaction": never two of them.
\* (It does not hold: see TwoAtMost.)
OnePrepared ==
  \A t, u \in Tx : journal[t] = "prepared" /\ journal[u] = "prepared" => t = u

\* Both services may pass the check for an incomplete transaction before either
\* begins its own; that is the worst of it: however they retry, fail and are
\* cancelled, each leaves at most one prepared transaction behind.
TwoAtMost ==
  \A t, u, v \in Tx :
    journal[t] = "prepared" /\ journal[u] = "prepared" /\ journal[v] = "prepared"
      => t = u \/ u = v \/ t = v

\* "automatic mode must prepare a verified available update": when a cycle is
\* about to queue one, an earlier failure does not stand in its way.  It does not
\* hold, and no run checks it: nothing resets the service of the background.
AutomaticPrepares == pc[Background] = "enqueue" => state[Background] # "failed"

\* An operation that is queued gets an outcome.
PreparationEnds ==
  \A s \in Service :
    state[s] \in {"queued", "running"} ~> state[s] \notin {"queued", "running"}
================================================================================
