-------------------------- MODULE PackageTransaction --------------------------
(***************************************************************************)
(* System package transactions: SystemPackageTransactionService with its   *)
(* journal, the privileged executor, the snapshot and the health verifier, *)
(* and the two recoveries, recoverPending of the service and the one of    *)
(* AptInterruptedTransactionRecoveryService.  All transactions are about   *)
(* one package.  A step is what the code does between two awaits or two    *)
(* writes of the journal; the package manager, which is external, goes on  *)
(* by itself, and the service may crash or the machine reboot anywhere.    *)
(* dnf, pacman and zypper behave as apt without its recovery.              *)
(***************************************************************************)
EXTENDS Naturals, TLC

CONSTANTS
  Tx,        \* transactions, each with a fresh id
  NoTx,      \* no transaction
  NoEntry,   \* bound: managers for which a manifest may lack an entry point
  Installed, \* bound: versions that may be installed at first
  Spares     \* bound: versions in the deployment behind that one

ASSUME NoTxAssumption == NoTx \notin Tx
ASSUME FirstAssumption == Installed \subseteq 0..2 /\ Spares \subseteq 0..2

\* Transactions are interchangeable.
Symmetry == Permutations(Tx)

VARIABLES
  manager,    \* host.packageManager of every plan, "apt" or "rpm-ostree"
  entry,      \* do the manifests name an absolute native entry point?
  journal,    \* the state in the record of a transaction, or "none"
  op,         \* the operation of its plan
  before,     \* the version in its snapshot
  pc,         \* where execute() of a transaction is
  child,      \* its package manager: "none", "running", "ok" or "error"
  package,    \* version in the default deployment, 0: not installed
  booted,     \* version in the booted deployment
  spare,      \* version in the deployment a rollback makes the default
  broken,     \* is the package database interrupted?
  rec,        \* recoverPending: where it is, for what, and what it has found
  contested,  \* history: was it interfered with while under way?
  stage       \* history: what became of the deployment of a transaction

host   == <<package, booted, spare, broken>>
config == <<manager, entry>>
vars   == <<config, host, journal, op, before, pc, child, rec, contested, stage>>

Active    == {"prepared", "mutating", "verifying", "rolling-back"}
Terminal  == {"committed", "rolled-back", "aborted", "failed-needs-recovery"}
State     == {"none"} \cup Active \cup Terminal
Operation == {"install", "update", "remove"}
Version   == 0..2
Latest    == 2
RECOVERABLE == {"mutating", "verifying", "failed-needs-recovery"}

\* What the operation makes of a version; --only-upgrade installs nothing.
Result(o, v) ==
  CASE o = "install" -> Latest
    [] o = "update"  -> IF v = 0 THEN 0 ELSE Latest
    [] o = "remove"  -> 0

RollbackSupported == manager = "rpm-ostree"

\* The query of the state provider: rpm -q and the entry point see the booted
\* deployment, dpkg-query sees what is installed.
Visible == IF RollbackSupported THEN booted ELSE package

\* NativePackageHealthVerifier.verify.
Healthy(o) == o = "remove" \/ (entry /\ Visible > 0)

\* Did the operation reach its goal, seen from the snapshot?
DesiredStateReached(o, b, v) ==
  CASE o = "install" -> v > 0
    [] o = "remove"  -> v = 0
    [] o = "update"  -> b > 0 /\ v > 0 /\ b # v

Live(t)    == pc[t] # "idle"
Busy(t)    == Live(t) \/ child[t] = "running"
UnderWay(t) == Busy(t) \/ rec.tx = t

Goto(t, l)     == pc' = [pc EXCEPT ![t] = l]
Write(t, s)    == journal' = [journal EXCEPT ![t] = s]
WriteFails     == UNCHANGED journal

\* A deployment is in front, is rolled back from there, and is moved by every
\* other deployment and every other rollback, a second one of its own included.
Stage == {"none", "front", "restored", "moved"}
Displaced(t) == IF stage[t] = "none" THEN "none" ELSE "moved"

\* Whoever acts on the package contests the others that are under way.
Contests(t) == contested' = [u \in Tx |-> contested[u] \/ (u # t /\ UnderWay(u))]

-------------------------------------------------------------------------------
(* execute().                                                                *)

\* A plan that is valid, of a repository that is trusted.
Submit(t, o) ==
  /\ pc[t] = "idle" /\ journal[t] = "none" /\ child[t] = "none"
  /\ op' = [op EXCEPT ![t] = o]
  /\ Goto(t, "authorize")
  /\ UNCHANGED <<config, host, journal, before, child, rec, contested, stage>>

\* #authorize: packages.mutate is granted, or there is no transaction.
Authorize(t) ==
  /\ pc[t] = "authorize"
  /\ Goto(t, "capture") \/ Goto(t, "idle")
  /\ UNCHANGED <<config, host, journal, op, before, child, rec, contested, stage>>

\* Mutant: the snapshot is taken of the deployment that is booted next.
CaptureDefault(t) ==
  /\ pc[t] = "capture"
  /\ before' = [before EXCEPT ![t] = package]
  /\ Goto(t, "prepare")
  /\ UNCHANGED <<config, host, journal, op, child, rec, contested, stage>>

\* The version in a snapshot.
SnapshotOf(t) == before' = [before EXCEPT ![t] = Visible]

\* The snapshot of the state provider, before anything is written; there is no
\* transaction without one that is well formed and about this package.
Capture(t) ==
  /\ pc[t] = "capture"
  /\ \/ SnapshotOf(t) /\ Goto(t, "prepare")
     \/ UNCHANGED before /\ Goto(t, "idle")
  /\ UNCHANGED <<config, host, journal, op, child, rec, contested, stage>>

\* The first write of the record; if it fails there is no transaction.
Prepare(t) ==
  /\ pc[t] = "prepare"
  /\ \/ Write(t, "prepared") /\ Goto(t, "handoff")
     \/ WriteFails /\ Goto(t, "idle")
  /\ UNCHANGED <<config, host, op, before, child, rec, contested, stage>>

\* The record says mutating before the executor is called; if it cannot, the
\* transaction is aborted, as far as that can be written.
Handoff(t) ==
  /\ pc[t] = "handoff"
  /\ \/ Write(t, "mutating") /\ Goto(t, "execute")
     \/ (Write(t, "aborted") \/ WriteFails) /\ Goto(t, "idle")
  /\ UNCHANGED <<config, host, op, before, child, rec, contested, stage>>

\* pkexec runs the package manager, which fails at once while another has the
\* lock of the package database.
Started == IF \E u \in Tx : child[u] = "running" THEN "error" ELSE "running"

\* Mutant: the executor is called before the record says so.
ExecuteEarly(t) ==
  /\ pc[t] \in {"prepare", "execute"}
  /\ child' = [child EXCEPT ![t] = Started]
  /\ Goto(t, "wait")
  /\ Contests(t)
  /\ UNCHANGED <<config, host, journal, op, before, rec, stage>>

\* The executor is handed the command of the validated plan.
Execute(t) ==
  /\ pc[t] = "execute"
  /\ child' = [child EXCEPT ![t] = Started]
  /\ Goto(t, "wait")
  /\ Contests(t)
  /\ UNCHANGED <<config, host, journal, op, before, rec, stage>>

\* The package manager (external): it does its work, or fails before, during
\* or after it.  rpm-ostree stages a new default deployment beside the booted
\* one; apt leaves its database interrupted when it fails on the way.
Deploy(v) ==
  /\ package' = v
  /\ spare' = IF RollbackSupported THEN booted ELSE spare
  /\ booted' = booted

ManagerSucceeds(t) ==
  /\ child[t] = "running"
  /\ child' = [child EXCEPT ![t] = "ok"]
  /\ Deploy(Result(op[t], package)) /\ broken' = FALSE
  /\ stage' = IF RollbackSupported
              THEN [u \in Tx |-> IF u = t THEN "front" ELSE Displaced(u)]
              ELSE stage
  /\ Contests(t)
  /\ UNCHANGED <<config, journal, op, before, pc, rec>>

ManagerFails(t) ==
  /\ child[t] = "running"
  /\ child' = [child EXCEPT ![t] = "error"]
  /\ \/ UNCHANGED host
     \/ /\ ~RollbackSupported
        /\ package' \in {package, Result(op[t], package)} /\ broken' = TRUE
        /\ UNCHANGED <<booted, spare>>
  /\ Contests(t)
  /\ UNCHANGED <<config, journal, op, before, pc, rec, stage>>

\* Mutant: the health of the package is not looked at.
ExecutedUnverified(t) ==
  /\ pc[t] = "wait"
  /\ \/ child[t] = "ok" /\ (WriteFails \/ Write(t, "verifying")) /\ Goto(t, "commit")
     \/ child[t] \in {"running", "error"} /\ WriteFails /\ Goto(t, "fail")
  /\ UNCHANGED <<config, host, op, before, child, rec, contested, stage>>

\* The executor answers, or gives up after its time or output limit while the
\* package manager goes on.  Install and update are verified, remove commits.
Executed(t) ==
  /\ pc[t] = "wait"
  /\ \/ /\ child[t] = "ok" /\ op[t] # "remove"
        /\ \/ Write(t, "verifying") /\ Goto(t, "verify")
           \/ WriteFails /\ Goto(t, "fail")
     \/ child[t] = "ok" /\ op[t] = "remove" /\ WriteFails /\ Goto(t, "commit")
     \/ child[t] \in {"running", "error"} /\ WriteFails /\ Goto(t, "fail")
  /\ UNCHANGED <<config, host, op, before, child, rec, contested, stage>>

\* A verifier that throws, or answers what is not a health result, has found none.
HealthResult(o) == {Healthy(o), FALSE}

Verify(t) ==
  /\ pc[t] = "verify"
  /\ \E healthy \in HealthResult(op[t]) : Goto(t, IF healthy THEN "commit" ELSE "fail")
  /\ UNCHANGED <<config, host, journal, op, before, child, rec, contested, stage>>

Commit(t) ==
  /\ pc[t] = "commit"
  /\ \/ Write(t, "committed") /\ Goto(t, "idle")
     \/ WriteFails /\ Goto(t, "fail")
  /\ UNCHANGED <<config, host, op, before, child, rec, contested, stage>>

\* The first step of #rollbackAfterFailure: apt and the others end here.
Fail(t) ==
  /\ pc[t] = "fail"
  /\ \/ ~RollbackSupported /\ Write(t, "failed-needs-recovery") /\ Goto(t, "idle")
     \/ ~RollbackSupported /\ WriteFails /\ Goto(t, "idle")
     \/ RollbackSupported /\ Write(t, "rolling-back") /\ Goto(t, "rollback")
     \/ RollbackSupported /\ WriteFails /\ Goto(t, "give-up")
  /\ UNCHANGED <<config, host, op, before, child, rec, contested, stage>>

\* rpm-ostree rollback (external) exchanges the first two deployments.
Exchange(t) ==
  /\ package' = spare /\ spare' = package
  /\ UNCHANGED <<booted, broken>>
  /\ stage' = [u \in Tx |-> IF u # t THEN Displaced(u)
                            ELSE IF stage[t] = "front" THEN "restored" ELSE "moved"]

Rollback(t) ==
  /\ pc[t] = "rollback"
  /\ \/ /\ \A u \in Tx : child[u] # "running"
        /\ Exchange(t)
        /\ Goto(t, "rolled") /\ Contests(t)
     \/ Goto(t, "give-up") /\ UNCHANGED <<host, contested, stage>>
  /\ UNCHANGED <<config, journal, op, before, child, rec>>

RolledBack(t) ==
  /\ pc[t] = "rolled"
  /\ \/ Write(t, "rolled-back") /\ Goto(t, "idle")
     \/ WriteFails /\ Goto(t, "give-up")
  /\ UNCHANGED <<config, host, op, before, child, rec, contested, stage>>

GiveUp(t) ==
  /\ pc[t] = "give-up"
  /\ Write(t, "failed-needs-recovery") \/ WriteFails
  /\ Goto(t, "idle")
  /\ UNCHANGED <<config, host, op, before, child, rec, contested, stage>>

-------------------------------------------------------------------------------
(* recoverPending(), of the service and of the recovery for apt.             *)

NoRec == [at |-> "idle", tx |-> NoTx, version |-> 0, clean |-> FALSE]
Recovering(t, l) == rec.at = l /\ rec.tx = t
Reaches(l) == rec' = [rec EXCEPT !.at = l]
Meddles(t) == contested' = [contested EXCEPT ![t] = @ \/ Busy(t)]

\* The service reads an active record.  Without a rollback it ends it at once;
\* otherwise it waits for packages.recover.
RecoverRead(t) ==
  /\ rec.at = "idle" /\ journal[t] \in Active
  /\ \/ /\ ~RollbackSupported /\ UNCHANGED rec
        /\ Write(t, "failed-needs-recovery") \/ WriteFails
     \/ /\ RollbackSupported /\ UNCHANGED journal
        /\ rec' = [NoRec EXCEPT !.at = "authorize", !.tx = t]
  /\ Meddles(t)
  /\ UNCHANGED <<config, host, op, before, pc, child, stage>>

\* Whatever fails from here on, a write of the record included, needs recovery;
\* if that cannot be written either, the record stays as it is.
RecoverFails(t) ==
  /\ Write(t, "failed-needs-recovery") \/ WriteFails
  /\ rec' = NoRec

RecoverAuthorized(t) ==
  /\ Recovering(t, "authorize")
  /\ \/ Write(t, "rolling-back") /\ Reaches("rollback")
     \/ RecoverFails(t)
  /\ Meddles(t)
  /\ UNCHANGED <<config, host, op, before, pc, child, stage>>

RecoverRollback(t) ==
  /\ Recovering(t, "rollback")
  /\ \/ /\ \A u \in Tx : child[u] # "running"
        /\ Exchange(t)
        /\ Reaches("rolled") /\ UNCHANGED journal
     \/ RecoverFails(t) /\ UNCHANGED <<host, stage>>
  /\ contested' = [u \in Tx |-> contested[u] \/ Busy(u)]
  /\ UNCHANGED <<config, op, before, pc, child>>

RecoverRolledBack(t) ==
  /\ Recovering(t, "rolled")
  /\ \/ Write(t, "rolled-back") /\ rec' = NoRec
     \/ RecoverFails(t)
  /\ Meddles(t)
  /\ UNCHANGED <<config, host, op, before, pc, child, stage>>

\* apt: the record is read and packages.recover granted.
AptRead(t) ==
  /\ rec.at = "idle" /\ manager = "apt" /\ journal[t] \in RECOVERABLE
  /\ rec' = [NoRec EXCEPT !.at = "snapshot", !.tx = t]
  /\ Meddles(t)
  /\ UNCHANGED <<config, host, journal, op, before, pc, child, stage>>

AptSnapshot(t) ==
  /\ Recovering(t, "snapshot")
  /\ rec' = [rec EXCEPT !.at = "consistency", !.version = Visible]
  /\ Meddles(t)
  /\ UNCHANGED <<config, host, journal, op, before, pc, child, stage>>

AptConsistency(t) ==
  /\ Recovering(t, "consistency")
  /\ rec' = [rec EXCEPT !.at = "health", !.clean = ~broken]
  /\ Meddles(t)
  /\ UNCHANGED <<config, host, journal, op, before, pc, child, stage>>

\* The record that was read, with its last state.
Conclude(t, s) == Write(t, s) /\ rec' = NoRec

\* Health is the last probe; the record that was read is written, whatever has
\* been written meanwhile.
AptWrite(t) ==
  /\ Recovering(t, "health")
  /\ Conclude(t, IF /\ DesiredStateReached(op[t], before[t], rec.version)
                    /\ rec.clean /\ Healthy(op[t])
                 THEN "committed" ELSE "failed-needs-recovery")
  /\ Meddles(t)
  /\ UNCHANGED <<config, host, op, before, pc, child, stage>>

\* A query that cannot be spawned, is too slow or says too much ends a probe.
ProbeFails == rec.at \in {"snapshot", "consistency", "health"}

\* A probe or a write throws: the transaction is reported blocked, as it is.
AptBlocked ==
  /\ ProbeFails
  /\ rec' = NoRec
  /\ UNCHANGED <<config, host, journal, op, before, pc, child, contested, stage>>

-------------------------------------------------------------------------------
(* Faults.                                                                   *)

\* The service dies; the package manager may go on.
Crash ==
  /\ pc' = [t \in Tx |-> "idle"] /\ rec' = NoRec
  /\ UNCHANGED <<config, host, journal, op, before, child, contested, stage>>

\* The machine restarts into the default deployment.
Reboot ==
  /\ pc' = [t \in Tx |-> "idle"] /\ rec' = NoRec
  /\ child' = [t \in Tx |-> IF child[t] = "running" THEN "error" ELSE child[t]]
  /\ \/ ~RollbackSupported /\ UNCHANGED <<booted, spare>>
     \/ /\ RollbackSupported /\ booted' = package
        /\ spare' = IF booted = package THEN spare ELSE booted
  /\ broken' = (broken \/ (manager = "apt" /\ \E t \in Tx : child[t] = "running"))
  /\ UNCHANGED <<config, package, journal, op, before, contested, stage>>

-------------------------------------------------------------------------------
Init ==
  /\ manager \in {"apt", "rpm-ostree"} /\ entry \in {TRUE, manager \notin NoEntry}
  /\ journal = [t \in Tx |-> "none"]
  /\ op = [t \in Tx |-> "install"]
  /\ before = [t \in Tx |-> 0]
  /\ pc = [t \in Tx |-> "idle"]
  /\ child = [t \in Tx |-> "none"]
  /\ package \in Installed
  /\ booted = IF RollbackSupported THEN package ELSE 0
  /\ spare \in IF RollbackSupported THEN Spares ELSE {0}
  /\ broken = FALSE
  /\ rec = NoRec
  /\ contested = [t \in Tx |-> FALSE]
  /\ stage = [t \in Tx |-> "none"]

Service(t) ==
  \/ (\E o \in Operation : Submit(t, o)) \/ Authorize(t) \/ Capture(t) \/ Prepare(t)
  \/ Handoff(t) \/ Execute(t) \/ Executed(t) \/ Verify(t) \/ Commit(t)
  \/ Fail(t) \/ Rollback(t) \/ RolledBack(t) \/ GiveUp(t)

Manager(t) == ManagerSucceeds(t) \/ ManagerFails(t)

Recovery(t) ==
  \/ RecoverRead(t) \/ RecoverAuthorized(t) \/ RecoverRollback(t)
  \/ RecoverRolledBack(t)
  \/ AptRead(t) \/ AptSnapshot(t) \/ AptConsistency(t) \/ AptWrite(t)

Next ==
  \/ \E t \in Tx : Service(t) \/ Manager(t) \/ Recovery(t)
  \/ AptBlocked \/ Crash \/ Reboot

Spec == Init /\ [][Next]_vars

-------------------------------------------------------------------------------
(* Properties.                                                               *)

\* The abstract journal, of the transactions that nobody interferes with.
Phase(t) ==
  IF contested[t] THEN "contested"
  ELSE CASE journal[t] = "none" -> "none"
         [] journal[t] \in Active -> "active"
         [] journal[t] = "committed" -> "committed"
         [] journal[t] = "rolled-back" -> "undone"
         [] journal[t] = "aborted" -> "aborted"
         [] journal[t] = "failed-needs-recovery" -> "stuck"

Abstract == INSTANCE JournaledMutation WITH
  phase <- [t \in Tx |-> Phase(t)],
  touched <- [t \in Tx |-> child[t] # "none"]

\* The service implements the abstract journal: a record before the handoff, one
\* end, and an end that stays, over crashes, reboots, failed writes and both
\* recoveries; only interference by others takes a transaction out of it.
JournaledTransaction == Abstract!Spec

Ends(t, s) == journal[t] # s /\ journal'[t] = s

\* "It may convert an interrupted transaction to committed only after ... the
\* original intended state was reached": what is committed is in place, on a
\* clean database, whether execute() or the recovery commits it.
CommitIsDesired ==
  [][\A t \in Tx : manager = "apt" /\ Ends(t, "committed") /\ ~contested'[t] =>
       /\ op[t] = "remove" <=> package = 0
       /\ ~broken]_vars

\* A record says rolled-back over the version its snapshot holds, whether
\* execute() or the recovery rolled back, before or after a reboot, unless the
\* one rollback of its own deployment was not what was run: rpm-ostree rollback
\* exchanges the first two deployments whatever they are, so where it runs a
\* second time, or after a mutation that deployed nothing, or where another
\* transaction deployed between, the record ends over some other version.
RollbackRestores ==
  [][\A t \in Tx : Ends(t, "rolled-back") /\ ~contested'[t] =>
       \/ stage[t] = "restored" /\ package' = before[t]
       \/ stage[t] = "moved"]_vars

================================================================================
