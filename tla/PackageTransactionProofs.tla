----------------------- MODULE PackageTransactionProofs -----------------------
(***************************************************************************)
(* What holds of the system package transactions for every set of them:    *)
(* the service implements JournaledMutation, commits what was asked for,   *)
(* and rolls back to the snapshot.                                         *)
(***************************************************************************)
EXTENDS PackageTransaction, TLAPS

-------------------------------------------------------------------------------
(* The inductive invariant.                                                  *)

\* Where execute() is: before the first write of the record, and after it.
Unrecorded == {"authorize", "capture", "prepare"}
Recorded   == {"handoff", "execute", "wait", "verify", "commit", "fail",
               "rollback", "rolled", "give-up"}

\* Where a recovery is: the one of the service, and the one for apt.
ServiceRecovery == {"authorize", "rollback", "rolled"}
AptRecovery     == {"snapshot", "consistency", "health"}

\* What a recovery remembers of a record.
Recollection ==
  [at : {"idle"} \cup ServiceRecovery \cup AptRecovery, tx : Tx \cup {NoTx},
   version : Version, clean : BOOLEAN]

TypeOK ==
  /\ manager \in {"apt", "rpm-ostree"} /\ entry \in BOOLEAN
  /\ journal \in [Tx -> State] /\ op \in [Tx -> Operation] /\ before \in [Tx -> Version]
  /\ pc \in [Tx -> {"idle"} \cup Unrecorded \cup Recorded]
  /\ child \in [Tx -> {"none", "running", "ok", "error"}]
  /\ package \in Version /\ booted \in Version /\ spare \in Version /\ broken \in BOOLEAN
  /\ rec \in Recollection
  /\ contested \in [Tx -> BOOLEAN]
  /\ stage \in [Tx -> Stage]

\* Nothing is handed off without a record, nor before the record says so.
HandoffHasRecord ==
  \A t \in Tx : journal[t] = "none" \/ pc[t] \in {"handoff", "execute"} => child[t] = "none"

\* A transaction that nobody interferes with works under an active record.
WorksOnRecord ==
  \A t \in Tx :
    /\ pc[t] \in Unrecorded => journal[t] = "none"
    /\ pc[t] \in Recorded => journal[t] # "none"
    /\ pc[t] \in Recorded /\ ~contested[t] => journal[t] \in Active

\* A recovery that interferes with nobody still has the record it read, of a
\* transaction that has come to rest.
RecoversRecord ==
  rec.at # "idle" =>
    /\ rec.tx \in Tx /\ journal[rec.tx] # "none"
    /\ ~contested[rec.tx] =>
         /\ ~Busy(rec.tx)
         /\ rec.at \in ServiceRecovery => journal[rec.tx] \in Active
         /\ rec.at \in AptRecovery => journal[rec.tx] \in RECOVERABLE

\* Deployments are exchanged where they exist, and packages probed where they do not.
RollsBackDeployments ==
  /\ \A t \in Tx : pc[t] \in {"rollback", "rolled"} => RollbackSupported
  /\ rec.at \in ServiceRecovery => RollbackSupported
  /\ rec.at \in AptRecovery => ~RollbackSupported

\* What execute() is about to commit is in place.
GoalInPlace ==
  \A t \in Tx :
    /\ pc[t] \in {"verify", "commit"} => child[t] = "ok"
    /\ manager = "apt" /\ pc[t] \in {"wait", "verify", "commit"} /\ child[t] = "ok"
         /\ ~contested[t] => ~broken /\ (op[t] = "remove" => package = 0)
    /\ manager = "apt" /\ pc[t] = "commit" /\ op[t] # "remove" /\ ~contested[t] => package # 0

\* What the recovery for apt has found is still so.
ProbesHold ==
  rec.at # "idle" /\ ~contested[rec.tx] =>
    /\ rec.at \in {"consistency", "health"} => rec.version = package
    /\ rec.at = "health" /\ rec.clean => ~broken

\* A snapshot is of the booted deployment until the package manager is done, and from
\* then on its version is the one a rollback makes the default.
SnapshotKept ==
  RollbackSupported =>
    /\ \A t \in Tx : pc[t] \in {"prepare", "handoff", "execute"} \/ child[t] = "running"
                       => before[t] = booted
    /\ \A t \in Tx :
         /\ stage[t] = "front" => spare = before[t] /\ booted \in {package, before[t]}
         /\ stage[t] = "restored" => package = before[t]

\* Only what is deployed is in front, and whoever has rolled back knows of one rollback.
StageIsKnown ==
  \A t \in Tx :
    /\ stage[t] \in {"front", "restored"} => child[t] = "ok"
    /\ pc[t] = "rolled" => child[t] # "running" /\ stage[t] \in {"restored", "moved"}
    /\ rec.at = "rolled" /\ rec.tx = t /\ ~contested[t] =>
         stage[t] \in {"restored", "moved"}

IInv ==
  /\ TypeOK
  /\ HandoffHasRecord /\ WorksOnRecord /\ RecoversRecord /\ RollsBackDeployments
  /\ GoalInPlace /\ ProbesHold
  /\ SnapshotKept /\ StageIsKnown

\* The bookkeeping of a step is expanded in every proof.
USE DEF Goto, Write, WriteFails, config, host

-------------------------------------------------------------------------------
(* Operators of the model.                                                   *)

\* An operation makes a version of a version.
LEMMA ResultIsVersion ==
  ASSUME NEW o \in Operation, NEW v \in Version
  PROVE  Result(o, v) \in Version /\ (o = "remove" => Result(o, v) = 0)
BY DEF Operation, Version, Result, Latest

\* A recovery that is at its end, has read a record, or goes on.
LEMMA RecoveryEnds == NoRec \in Recollection /\ NoRec.at = "idle"
BY DEF NoRec, Recollection, Version

LEMMA RecoveryBegins ==
  ASSUME NEW l \in ServiceRecovery \cup AptRecovery, NEW t \in Tx
  PROVE  /\ [NoRec EXCEPT !.at = l, !.tx = t] \in Recollection
         /\ [NoRec EXCEPT !.at = l, !.tx = t].at = l
         /\ [NoRec EXCEPT !.at = l, !.tx = t].tx = t
BY RecoveryEnds DEF Recollection

LEMMA RecoveryGoesOn ==
  ASSUME rec \in Recollection, NEW l \in ServiceRecovery, Reaches(l)
  PROVE  rec' \in Recollection /\ rec'.at = l /\ rec'.tx = rec.tx
BY DEF Reaches, Recollection

\* An exchange restores what was in front, and moves whatever else is deployed.
LEMMA ExchangeMoves ==
  ASSUME stage \in [Tx -> Stage], NEW t \in Tx, Exchange(t)
  PROVE  stage' \in [Tx -> Stage] /\ stage'[t] \in {"restored", "moved"}
BY DEF Exchange, Displaced, Stage

\* A recovery contests the transaction it works on if that is still at work.
LEMMA MeddledWith ==
  ASSUME TypeOK, NEW t \in Tx, Meddles(t)
  PROVE  /\ contested' \in [Tx -> BOOLEAN]
         /\ \A u \in Tx : contested'[u] = IF u = t THEN contested[u] \/ Busy(u) ELSE contested[u]
BY DEF TypeOK, Meddles, Busy, Live

-------------------------------------------------------------------------------
(* The inductive invariant, part by part and action by action.               *)

\* The type invariant.
LEMMA TypeKept ==
  ASSUME IInv, [Next]_vars
  PROVE  TypeOK'
<1> USE DEF IInv, TypeOK, State, Stage, Active, Terminal, Unrecorded, Recorded,
     ServiceRecovery, AptRecovery, Recollection
<1>1. CASE UNCHANGED vars
  BY <1>1 DEF vars
<1>2. ASSUME NEW t \in Tx, Service(t) PROVE TypeOK'
  <2>1. ASSUME NEW o \in Operation, Submit(t, o) PROVE TypeOK'
    BY <2>1, NoTxAssumption DEF Submit
  <2>2. CASE Authorize(t)
    BY <2>2, NoTxAssumption DEF Authorize
  <2>3. CASE Capture(t)
    BY <2>3, NoTxAssumption DEF Capture, SnapshotOf, Visible
  <2>4. CASE Prepare(t)
    BY <2>4, NoTxAssumption DEF Prepare
  <2>5. CASE Handoff(t)
    BY <2>5, NoTxAssumption DEF Handoff
  <2>6. CASE Execute(t)
    BY <2>6, NoTxAssumption DEF Execute, Started, Contests, UnderWay, Busy, Live
  <2>7. CASE Executed(t)
    BY <2>7, NoTxAssumption DEF Executed
  <2>8. CASE Verify(t)
    BY <2>8, NoTxAssumption DEF Verify, HealthResult, Healthy, Visible
  <2>9. CASE Commit(t)
    BY <2>9, NoTxAssumption DEF Commit
  <2>10. CASE Fail(t)
    BY <2>10, NoTxAssumption DEF Fail
  <2>11. CASE Rollback(t)
    <3>1. stage' \in [Tx -> Stage]
      BY <2>11, ExchangeMoves DEF Rollback
    <3> QED
      BY <2>11, <3>1 DEF Rollback, Exchange, Contests, UnderWay, Busy, Live
  <2>12. CASE RolledBack(t)
    BY <2>12, NoTxAssumption DEF RolledBack
  <2>13. CASE GiveUp(t)
    BY <2>13, NoTxAssumption DEF GiveUp
  <2> QED
    BY <1>2, <2>1, <2>2, <2>3, <2>4, <2>5, <2>6, <2>7, <2>8, <2>9, <2>10,
       <2>11, <2>12, <2>13 DEF Service
<1>3. ASSUME NEW t \in Tx, Manager(t) PROVE TypeOK'
  <2>1. CASE ManagerSucceeds(t)
    <3>1. stage' \in [Tx -> Stage]
      BY <2>1 DEF ManagerSucceeds, Displaced
    <3>2. package' \in Version /\ booted' \in Version /\ spare' \in Version
      BY <2>1, ResultIsVersion DEF ManagerSucceeds, Deploy
    <3> QED
      BY <2>1, <3>1, <3>2 DEF ManagerSucceeds, Contests, UnderWay, Busy, Live
  <2>2. CASE ManagerFails(t)
    <3>1. Result(op[t], package) \in Version
      BY ResultIsVersion
    <3> QED
      BY <2>2, <3>1 DEF ManagerFails, Contests, UnderWay, Busy, Live
  <2> QED
    BY <1>3, <2>1, <2>2 DEF Manager
<1>4. ASSUME NEW t \in Tx, Recovery(t) PROVE TypeOK'
  <2>1. CASE RecoverRead(t)
    <3>1. [NoRec EXCEPT !.at = "authorize", !.tx = t] \in Recollection
      BY RecoveryBegins
    <3>2. rec' \in Recollection
      BY <2>1, <3>1 DEF RecoverRead
    <3> QED
      BY <2>1, <3>2, MeddledWith DEF RecoverRead
  <2>2. CASE RecoverAuthorized(t)
    <3>1. rec' \in Recollection
      BY <2>2, RecoveryGoesOn, RecoveryEnds DEF RecoverAuthorized, RecoverFails
    <3> QED
      BY <2>2, <3>1, MeddledWith DEF RecoverAuthorized, RecoverFails
  <2>3. CASE RecoverRollback(t)
    <3>1. rec' \in Recollection
      BY <2>3, RecoveryGoesOn, RecoveryEnds DEF RecoverRollback, RecoverFails
    <3>2. stage' \in [Tx -> Stage]
      BY <2>3, ExchangeMoves DEF RecoverRollback
    <3> QED
      BY <2>3, <3>1, <3>2 DEF RecoverRollback, RecoverFails, Exchange, Busy, Live
  <2>4. CASE RecoverRolledBack(t)
    <3>1. rec' \in Recollection
      BY <2>4, RecoveryEnds DEF RecoverRolledBack, RecoverFails
    <3> QED
      BY <2>4, <3>1, MeddledWith DEF RecoverRolledBack, RecoverFails
  <2>5. CASE AptRead(t)
    <3>1. rec' \in Recollection
      BY <2>5, RecoveryBegins DEF AptRead
    <3> QED
      BY <2>5, <3>1, MeddledWith DEF AptRead
  <2>6. CASE AptSnapshot(t)
    BY <2>6, NoTxAssumption, MeddledWith DEF AptSnapshot, Recovering, Visible
  <2>7. CASE AptConsistency(t)
    BY <2>7, NoTxAssumption, MeddledWith DEF AptConsistency, Recovering
  <2>8. CASE AptWrite(t)
    BY <2>8, NoTxAssumption, MeddledWith DEF AptWrite, Recovering, Conclude, NoRec,
       Version
  <2> QED
    BY <1>4, <2>1, <2>2, <2>3, <2>4, <2>5, <2>6, <2>7, <2>8 DEF Recovery
<1>5. CASE AptBlocked
  BY <1>5, NoTxAssumption DEF AptBlocked, ProbeFails, NoRec, Version
<1>6. CASE Crash
  BY <1>6, NoTxAssumption DEF Crash, NoRec, Version
<1>7. CASE Reboot
  BY <1>7, NoTxAssumption DEF Reboot, NoRec, Version
<1> QED
  BY <1>1, <1>2, <1>3, <1>4, <1>5, <1>6, <1>7 DEF Next

\* Records and the work that is done under them.
LEMMA RecordKept ==
  ASSUME IInv, [Next]_vars
  PROVE  HandoffHasRecord' /\ WorksOnRecord'
<1> USE DEF IInv, TypeOK, HandoffHasRecord, WorksOnRecord, RecoversRecord, Unrecorded,
     Recorded, Active
<1>1. CASE UNCHANGED vars
  BY <1>1 DEF vars, RollbackSupported
<1>2. ASSUME NEW t \in Tx, Service(t) PROVE HandoffHasRecord' /\ WorksOnRecord'
  <2>1. ASSUME NEW o \in Operation, Submit(t, o) PROVE HandoffHasRecord' /\ WorksOnRecord'
    BY <2>1 DEF Submit
  <2>2. CASE Authorize(t)
    BY <2>2 DEF Authorize
  <2>3. CASE Capture(t)
    BY <2>3 DEF Capture, SnapshotOf, Visible
  <2>4. CASE Prepare(t)
    BY <2>4 DEF Prepare
  <2>5. CASE Handoff(t)
    BY <2>5 DEF Handoff
  <2>6. CASE Execute(t)
    BY <2>6 DEF Execute, Started, Contests, UnderWay, Busy, Live
  <2>7. CASE Executed(t)
    BY <2>7 DEF Executed
  <2>8. CASE Verify(t)
    BY <2>8 DEF Verify, HealthResult, Healthy, Visible
  <2>9. CASE Commit(t)
    BY <2>9 DEF Commit
  <2>10. CASE Fail(t)
    BY <2>10 DEF Fail
  <2>11. CASE Rollback(t)
    BY <2>11 DEF Rollback, Exchange, Displaced, Contests, UnderWay, Busy, Live
  <2>12. CASE RolledBack(t)
    BY <2>12 DEF RolledBack
  <2>13. CASE GiveUp(t)
    BY <2>13 DEF GiveUp
  <2> QED
    BY <1>2, <2>1, <2>2, <2>3, <2>4, <2>5, <2>6, <2>7, <2>8, <2>9, <2>10,
       <2>11, <2>12, <2>13 DEF Service
<1>3. ASSUME NEW t \in Tx, Manager(t) PROVE HandoffHasRecord' /\ WorksOnRecord'
  <2>1. CASE ManagerSucceeds(t)
    BY <2>1 DEF ManagerSucceeds, Deploy, Result, Latest, Contests, UnderWay, Busy,
       Live
  <2>2. CASE ManagerFails(t)
    BY <2>2 DEF ManagerFails, Result, Latest, Contests, UnderWay, Busy, Live
  <2> QED
    BY <1>3, <2>1, <2>2 DEF Manager
<1>4. ASSUME NEW t \in Tx, Recovery(t) PROVE HandoffHasRecord' /\ WorksOnRecord'
  <2>1. CASE RecoverRead(t)
    BY <2>1, MeddledWith DEF RecoverRead, NoRec, Busy, Live
  <2>2. CASE RecoverAuthorized(t)
    BY <2>2, MeddledWith DEF RecoverAuthorized, RecoverFails, Recovering, Reaches, NoRec, Busy, Live
  <2>3. CASE RecoverRollback(t)
    BY <2>3 DEF RecoverRollback, RecoverFails, Recovering, Reaches, NoRec, Exchange, Displaced, Busy, Live
  <2>4. CASE RecoverRolledBack(t)
    BY <2>4, MeddledWith DEF RecoverRolledBack, RecoverFails, Recovering, NoRec, Busy, Live
  <2>5. CASE AptRead(t)
    BY <2>5, MeddledWith DEF AptRead, NoRec, Busy, Live
  <2>6. CASE AptSnapshot(t)
    BY <2>6, MeddledWith DEF AptSnapshot, Recovering, Visible, Busy, Live
  <2>7. CASE AptConsistency(t)
    BY <2>7, MeddledWith DEF AptConsistency, Recovering, Busy, Live
  <2>8. CASE AptWrite(t)
    BY <2>8, MeddledWith DEF AptWrite, Recovering, Conclude, NoRec, Busy, Live
  <2> QED
    BY <1>4, <2>1, <2>2, <2>3, <2>4, <2>5, <2>6, <2>7, <2>8 DEF Recovery
<1>5. CASE AptBlocked
  BY <1>5 DEF AptBlocked, ProbeFails, NoRec
<1>6. CASE Crash
  BY <1>6 DEF Crash, NoRec
<1>7. CASE Reboot
  BY <1>7 DEF Reboot, NoRec
<1> QED
  BY <1>1, <1>2, <1>3, <1>4, <1>5, <1>6, <1>7 DEF Next

\* The recoveries and the records they have read.
LEMMA RecoveryKept ==
  ASSUME IInv, [Next]_vars
  PROVE  RecoversRecord' /\ RollsBackDeployments'
<1> USE DEF IInv, TypeOK, RecoversRecord, RollsBackDeployments, WorksOnRecord,
     Recollection, Busy, Live, ServiceRecovery, AptRecovery, RECOVERABLE, Active,
     RollbackSupported
<1>1. CASE UNCHANGED vars
  BY <1>1 DEF vars
<1>2. ASSUME NEW t \in Tx, Service(t) PROVE RecoversRecord' /\ RollsBackDeployments'
  <2>1. ASSUME NEW o \in Operation, Submit(t, o) PROVE RecoversRecord' /\ RollsBackDeployments'
    BY <2>1 DEF Submit
  <2>2. CASE Authorize(t)
    BY <2>2 DEF Authorize
  <2>3. CASE Capture(t)
    BY <2>3 DEF Capture, SnapshotOf, Visible
  <2>4. CASE Prepare(t)
    BY <2>4 DEF Prepare
  <2>5. CASE Handoff(t)
    BY <2>5 DEF Handoff
  <2>6. CASE Execute(t)
    BY <2>6 DEF Execute, Started, Contests, UnderWay
  <2>7. CASE Executed(t)
    BY <2>7 DEF Executed
  <2>8. CASE Verify(t)
    BY <2>8 DEF Verify, HealthResult, Healthy, Visible
  <2>9. CASE Commit(t)
    BY <2>9 DEF Commit
  <2>10. CASE Fail(t)
    BY <2>10 DEF Fail
  <2>11. CASE Rollback(t)
    BY <2>11 DEF Rollback, Exchange, Displaced, Contests, UnderWay
  <2>12. CASE RolledBack(t)
    BY <2>12 DEF RolledBack
  <2>13. CASE GiveUp(t)
    BY <2>13 DEF GiveUp
  <2> QED
    BY <1>2, <2>1, <2>2, <2>3, <2>4, <2>5, <2>6, <2>7, <2>8, <2>9, <2>10,
       <2>11, <2>12, <2>13 DEF Service
<1>3. ASSUME NEW t \in Tx, Manager(t) PROVE RecoversRecord' /\ RollsBackDeployments'
  <2>1. CASE ManagerSucceeds(t)
    BY <2>1 DEF ManagerSucceeds, Deploy, Result, Latest, Contests, UnderWay
  <2>2. CASE ManagerFails(t)
    BY <2>2 DEF ManagerFails, Result, Latest, Contests, UnderWay
  <2> QED
    BY <1>3, <2>1, <2>2 DEF Manager
<1>4. ASSUME NEW t \in Tx, Recovery(t) PROVE RecoversRecord' /\ RollsBackDeployments'
  <2>1. CASE RecoverRead(t)
    <3>1. CASE UNCHANGED rec
      BY <2>1, <3>1 DEF RecoverRead, WorksOnRecord
    <3>2. CASE rec' = [NoRec EXCEPT !.at = "authorize", !.tx = t] /\ RollbackSupported
               /\ UNCHANGED journal
      <4>1. rec'.at = "authorize" /\ rec'.tx = t
        BY <3>2, RecoveryBegins
      <4> QED
        BY <2>1, <3>2, <4>1, MeddledWith DEF RecoverRead
    <3> QED
      BY <2>1, <3>1, <3>2 DEF RecoverRead
  <2>2. CASE RecoverAuthorized(t)
    BY <2>2, MeddledWith DEF RecoverAuthorized, RecoverFails, Recovering, Reaches, NoRec
  <2>3. CASE RecoverRollback(t)
    BY <2>3 DEF RecoverRollback, RecoverFails, Recovering, Reaches, NoRec, Exchange
  <2>4. CASE RecoverRolledBack(t)
    BY <2>4, MeddledWith DEF RecoverRolledBack, RecoverFails, Recovering, NoRec
  <2>5. CASE AptRead(t)
    BY <2>5, MeddledWith DEF AptRead, NoRec
  <2>6. CASE AptSnapshot(t)
    BY <2>6, MeddledWith DEF AptSnapshot, Recovering, Visible
  <2>7. CASE AptConsistency(t)
    BY <2>7, MeddledWith DEF AptConsistency, Recovering
  <2>8. CASE AptWrite(t)
    BY <2>8, MeddledWith DEF AptWrite, Recovering, Conclude, NoRec
  <2> QED
    BY <1>4, <2>1, <2>2, <2>3, <2>4, <2>5, <2>6, <2>7, <2>8 DEF Recovery
<1>5. CASE AptBlocked
  BY <1>5 DEF AptBlocked, ProbeFails, NoRec
<1>6. CASE Crash
  BY <1>6 DEF Crash, NoRec
<1>7. CASE Reboot
  BY <1>7 DEF Reboot, NoRec
<1> QED
  BY <1>1, <1>2, <1>3, <1>4, <1>5, <1>6, <1>7 DEF Next

\* What is found to be in place stays so until it is concluded from.
LEMMA GoalKept ==
  ASSUME IInv, [Next]_vars
  PROVE  GoalInPlace' /\ ProbesHold'
<1> USE DEF IInv, TypeOK, GoalInPlace, ProbesHold, RollsBackDeployments,
     HandoffHasRecord, RecoversRecord, Recollection, Busy, Live, RollbackSupported,
     ServiceRecovery, AptRecovery
<1>1. CASE UNCHANGED vars
  BY <1>1 DEF vars
<1>2. ASSUME NEW t \in Tx, Service(t) PROVE GoalInPlace' /\ ProbesHold'
  <2>1. ASSUME NEW o \in Operation, Submit(t, o) PROVE GoalInPlace' /\ ProbesHold'
    BY <2>1 DEF Submit
  <2>2. CASE Authorize(t)
    BY <2>2 DEF Authorize
  <2>3. CASE Capture(t)
    BY <2>3 DEF Capture, SnapshotOf, Visible
  <2>4. CASE Prepare(t)
    BY <2>4 DEF Prepare
  <2>5. CASE Handoff(t)
    BY <2>5 DEF Handoff
  <2>6. CASE Execute(t)
    BY <2>6 DEF Execute, Started, Contests, UnderWay
  <2>7. CASE Executed(t)
    BY <2>7 DEF Executed
  <2>8. CASE Verify(t)
    <3>1. pc'[t] = "commit" => Healthy(op[t])
      BY <2>8 DEF Verify, HealthResult
    <3>2. manager = "apt" /\ pc'[t] = "commit" /\ op[t] # "remove" => package # 0
      BY <3>1 DEF Healthy, Visible, Version
    <3>3. GoalInPlace'
      BY <2>8, <3>2 DEF Verify
    <3>4. ProbesHold'
      BY <2>8 DEF Verify
    <3> QED
      BY <3>3, <3>4
  <2>9. CASE Commit(t)
    BY <2>9 DEF Commit
  <2>10. CASE Fail(t)
    BY <2>10 DEF Fail
  <2>11. CASE Rollback(t)
    BY <2>11 DEF Rollback, Exchange, Displaced, Contests, UnderWay
  <2>12. CASE RolledBack(t)
    BY <2>12 DEF RolledBack
  <2>13. CASE GiveUp(t)
    BY <2>13 DEF GiveUp
  <2> QED
    BY <1>2, <2>1, <2>2, <2>3, <2>4, <2>5, <2>6, <2>7, <2>8, <2>9, <2>10,
       <2>11, <2>12, <2>13 DEF Service
<1>3. ASSUME NEW t \in Tx, Manager(t) PROVE GoalInPlace' /\ ProbesHold'
  <2>1. CASE ManagerSucceeds(t)
    BY <2>1 DEF ManagerSucceeds, Deploy, Result, Latest, Contests, UnderWay
  <2>2. CASE ManagerFails(t)
    BY <2>2 DEF ManagerFails, Result, Latest, Contests, UnderWay
  <2> QED
    BY <1>3, <2>1, <2>2 DEF Manager
<1>4. ASSUME NEW t \in Tx, Recovery(t) PROVE GoalInPlace' /\ ProbesHold'
  <2>1. CASE RecoverRead(t)
    BY <2>1, MeddledWith DEF RecoverRead, NoRec
  <2>2. CASE RecoverAuthorized(t)
    BY <2>2, MeddledWith DEF RecoverAuthorized, RecoverFails, Recovering, Reaches, NoRec
  <2>3. CASE RecoverRollback(t)
    BY <2>3 DEF RecoverRollback, RecoverFails, Recovering, Reaches, NoRec, Exchange
  <2>4. CASE RecoverRolledBack(t)
    BY <2>4, MeddledWith DEF RecoverRolledBack, RecoverFails, Recovering, NoRec
  <2>5. CASE AptRead(t)
    BY <2>5, MeddledWith DEF AptRead, NoRec
  <2>6. CASE AptSnapshot(t)
    BY <2>6, MeddledWith DEF AptSnapshot, Recovering, Visible
  <2>7. CASE AptConsistency(t)
    BY <2>7, MeddledWith DEF AptConsistency, Recovering
  <2>8. CASE AptWrite(t)
    BY <2>8, MeddledWith DEF AptWrite, Recovering, Conclude, NoRec
  <2> QED
    BY <1>4, <2>1, <2>2, <2>3, <2>4, <2>5, <2>6, <2>7, <2>8 DEF Recovery
<1>5. CASE AptBlocked
  BY <1>5 DEF AptBlocked, ProbeFails, NoRec
<1>6. CASE Crash
  BY <1>6 DEF Crash, NoRec
<1>7. CASE Reboot
  BY <1>7 DEF Reboot, NoRec
<1> QED
  BY <1>1, <1>2, <1>3, <1>4, <1>5, <1>6, <1>7 DEF Next

\* Snapshots and deployments.
LEMMA DeploymentsKept ==
  ASSUME IInv, [Next]_vars
  PROVE  SnapshotKept' /\ StageIsKnown'
<1> USE DEF IInv, TypeOK, SnapshotKept, StageIsKnown, HandoffHasRecord, WorksOnRecord,
     RecoversRecord, ServiceRecovery, AptRecovery, Recollection, RollbackSupported,
     Unrecorded, Stage, Displaced
<1>1. CASE UNCHANGED vars
  BY <1>1 DEF vars
<1>2. ASSUME NEW t \in Tx, Service(t) PROVE SnapshotKept' /\ StageIsKnown'
  <2>1. ASSUME NEW o \in Operation, Submit(t, o) PROVE SnapshotKept' /\ StageIsKnown'
    BY <2>1, NoTxAssumption DEF Submit
  <2>2. CASE Authorize(t)
    BY <2>2, NoTxAssumption DEF Authorize
  <2>3. CASE Capture(t)
    BY <2>3, NoTxAssumption DEF Capture, SnapshotOf, Visible
  <2>4. CASE Prepare(t)
    BY <2>4, NoTxAssumption DEF Prepare
  <2>5. CASE Handoff(t)
    BY <2>5, NoTxAssumption DEF Handoff
  <2>6. CASE Execute(t)
    BY <2>6, NoTxAssumption DEF Execute, Started, Contests, UnderWay, Busy, Live
  <2>7. CASE Executed(t)
    BY <2>7, NoTxAssumption DEF Executed
  <2>8. CASE Verify(t)
    BY <2>8, NoTxAssumption DEF Verify, HealthResult, Healthy, Visible
  <2>9. CASE Commit(t)
    BY <2>9, NoTxAssumption DEF Commit
  <2>10. CASE Fail(t)
    BY <2>10, NoTxAssumption DEF Fail
  <2>11. CASE Rollback(t)
    BY <2>11, NoTxAssumption DEF Rollback, Exchange, Displaced, Contests, UnderWay, Busy, Live
  <2>12. CASE RolledBack(t)
    BY <2>12, NoTxAssumption DEF RolledBack
  <2>13. CASE GiveUp(t)
    BY <2>13, NoTxAssumption DEF GiveUp
  <2> QED
    BY <1>2, <2>1, <2>2, <2>3, <2>4, <2>5, <2>6, <2>7, <2>8, <2>9, <2>10,
       <2>11, <2>12, <2>13 DEF Service
<1>3. ASSUME NEW t \in Tx, Manager(t) PROVE SnapshotKept' /\ StageIsKnown'
  <2>1. CASE ManagerSucceeds(t)
    BY <2>1, NoTxAssumption DEF ManagerSucceeds, Deploy, Result, Latest, Contests,
       UnderWay, Busy, Live
  <2>2. CASE ManagerFails(t)
    BY <2>2, NoTxAssumption DEF ManagerFails, Result, Latest, Contests, UnderWay,
       Busy, Live
  <2> QED
    BY <1>3, <2>1, <2>2 DEF Manager
<1>4. ASSUME NEW t \in Tx, Recovery(t) PROVE SnapshotKept' /\ StageIsKnown'
  <2>1. CASE RecoverRead(t)
    BY <2>1, NoTxAssumption, MeddledWith DEF RecoverRead, NoRec
  <2>2. CASE RecoverAuthorized(t)
    BY <2>2, NoTxAssumption, MeddledWith DEF RecoverAuthorized, RecoverFails, Recovering, Reaches,
       NoRec
  <2>3. CASE RecoverRollback(t)
    BY <2>3, NoTxAssumption DEF RecoverRollback, RecoverFails, Recovering, Reaches, NoRec, Exchange
  <2>4. CASE RecoverRolledBack(t)
    BY <2>4, NoTxAssumption, MeddledWith DEF RecoverRolledBack, RecoverFails, Recovering, NoRec
  <2>5. CASE AptRead(t)
    BY <2>5, NoTxAssumption, MeddledWith DEF AptRead, NoRec
  <2>6. CASE AptSnapshot(t)
    BY <2>6, NoTxAssumption, MeddledWith DEF AptSnapshot, Recovering, Visible
  <2>7. CASE AptConsistency(t)
    BY <2>7, NoTxAssumption, MeddledWith DEF AptConsistency, Recovering
  <2>8. CASE AptWrite(t)
    BY <2>8, NoTxAssumption, MeddledWith DEF AptWrite, Recovering, Conclude, NoRec
  <2> QED
    BY <1>4, <2>1, <2>2, <2>3, <2>4, <2>5, <2>6, <2>7, <2>8 DEF Recovery
<1>5. CASE AptBlocked
  BY <1>5, NoTxAssumption DEF AptBlocked, ProbeFails, NoRec
<1>6. CASE Crash
  BY <1>6, NoTxAssumption DEF Crash, NoRec
<1>7. CASE Reboot
  BY <1>7, NoTxAssumption DEF Reboot, NoRec
<1> QED
  BY <1>1, <1>2, <1>3, <1>4, <1>5, <1>6, <1>7 DEF Next

\* A host on which nothing has been asked for yet satisfies the invariant.
LEMMA InitInv == Init => IInv
<1> SUFFICES ASSUME Init PROVE IInv
  OBVIOUS
<1>1. package \in Version /\ booted \in Version /\ spare \in Version
  BY FirstAssumption DEF Init, Version
<1>2. manager \in {"apt", "rpm-ostree"} /\ entry \in BOOLEAN
  BY DEF Init
<1>3. TypeOK
  <2>1. /\ journal \in [Tx -> State] /\ op \in [Tx -> Operation] /\ before \in [Tx -> Version]
        /\ contested \in [Tx -> BOOLEAN] /\ stage \in [Tx -> Stage]
    BY DEF Init, State, Operation, Version, Stage
  <2> QED
    BY <1>1, <1>2, <2>1, RecoveryEnds DEF Init, TypeOK
<1> QED
  BY <1>3, RecoveryEnds
     DEF Init, IInv, HandoffHasRecord, WorksOnRecord, RecoversRecord, RollsBackDeployments,
         GoalInPlace, ProbesHold, SnapshotKept, StageIsKnown, Unrecorded, Recorded,
         ServiceRecovery, AptRecovery

\* The invariant is one.
LEMMA NextInv == IInv /\ [Next]_vars => IInv'
BY TypeKept, RecordKept, RecoveryKept, GoalKept, DeploymentsKept DEF IInv

\* Between any two steps of whoever is at work, records, snapshots, deployments and
\* the two recoveries agree.
THEOREM TransactionsAreOrderly == Spec => []IInv
BY InitInv, NextInv, PTL DEF Spec

-------------------------------------------------------------------------------
(* The service implements the abstract journal.                              *)

\* Whatever step is taken, each transaction takes one of the abstract journal.
LEMMA StepMoves ==
  ASSUME IInv, Next, NEW u \in Tx
  PROVE  Abstract!Moves(u)
<1> USE DEF IInv, TypeOK, HandoffHasRecord, WorksOnRecord, RecoversRecord, Unrecorded,
     Recorded, ServiceRecovery, AptRecovery, RECOVERABLE, State, Active, Terminal,
     Busy, Live, Phase, Abstract!Moves, Abstract!Stays, Abstract!Begin,
     Abstract!Touch, Abstract!End, Abstract!Reconcile, Abstract!Contest,
     Abstract!Ended
<1>1. ASSUME NEW t \in Tx, Service(t) PROVE Abstract!Moves(u)
  <2>1. ASSUME NEW o \in Operation, Submit(t, o) PROVE Abstract!Moves(u)
    BY <2>1 DEF Submit
  <2>2. CASE Authorize(t)
    BY <2>2 DEF Authorize
  <2>3. CASE Capture(t)
    BY <2>3 DEF Capture
  <2>4. CASE Prepare(t)
    BY <2>4 DEF Prepare
  <2>5. CASE Handoff(t)
    BY <2>5 DEF Handoff
  <2>6. CASE Execute(t)
    BY <2>6 DEF Execute, Started, Contests, UnderWay
  <2>7. CASE Executed(t)
    BY <2>7 DEF Executed
  <2>8. CASE Verify(t)
    BY <2>8 DEF Verify
  <2>9. CASE Commit(t)
    BY <2>9 DEF Commit
  <2>10. CASE Fail(t)
    BY <2>10 DEF Fail
  <2>11. CASE Rollback(t)
    BY <2>11 DEF Rollback, Contests, UnderWay
  <2>12. CASE RolledBack(t)
    BY <2>12 DEF RolledBack
  <2>13. CASE GiveUp(t)
    BY <2>13 DEF GiveUp
  <2> QED
    BY <1>1, <2>1, <2>2, <2>3, <2>4, <2>5, <2>6, <2>7, <2>8, <2>9, <2>10,
       <2>11, <2>12, <2>13 DEF Service
<1>2. ASSUME NEW t \in Tx, Manager(t) PROVE Abstract!Moves(u)
  <2>1. CASE ManagerSucceeds(t)
    BY <2>1 DEF ManagerSucceeds, Contests, UnderWay
  <2>2. CASE ManagerFails(t)
    BY <2>2 DEF ManagerFails, Contests, UnderWay
  <2> QED
    BY <1>2, <2>1, <2>2 DEF Manager
<1>3. ASSUME NEW t \in Tx, Recovery(t) PROVE Abstract!Moves(u)
  <2>1. CASE RecoverRead(t)
    BY <2>1 DEF RecoverRead, NoRec, Meddles
  <2>2. CASE RecoverAuthorized(t)
    BY <2>2 DEF RecoverAuthorized, RecoverFails, Recovering, Reaches, NoRec, Meddles
  <2>3. CASE RecoverRollback(t)
    BY <2>3 DEF RecoverRollback, RecoverFails, Recovering, Reaches, NoRec
  <2>4. CASE RecoverRolledBack(t)
    BY <2>4 DEF RecoverRolledBack, RecoverFails, Recovering, NoRec, Meddles
  <2>5. CASE AptRead(t)
    BY <2>5 DEF AptRead, NoRec, Meddles
  <2>6. CASE AptSnapshot(t)
    BY <2>6 DEF AptSnapshot, Recovering, Meddles
  <2>7. CASE AptConsistency(t)
    BY <2>7 DEF AptConsistency, Recovering, Meddles
  <2>8. CASE AptWrite(t)
    BY <2>8 DEF AptWrite, Recovering, Conclude, NoRec, Meddles
  <2> QED
    BY <1>3, <2>1, <2>2, <2>3, <2>4, <2>5, <2>6, <2>7, <2>8 DEF Recovery
<1>4. CASE AptBlocked
  BY <1>4 DEF AptBlocked, ProbeFails, NoRec
<1>5. CASE Crash
  BY <1>5 DEF Crash, NoRec
<1>6. CASE Reboot
  BY <1>6 DEF Reboot, NoRec
<1> QED
  BY <1>1, <1>2, <1>3, <1>4, <1>5, <1>6 DEF Next

\* The service implements JournaledMutation: a record before the handoff, one end, and
\* an end that stays, whoever crashes, reboots, recovers or interferes.
THEOREM ServiceImplementsJournal == Spec => JournaledTransaction
<1>1. Init => Abstract!Init
  <2> SUFFICES ASSUME Init PROVE Abstract!Init
    OBVIOUS
  <2>1. \A t \in Tx : ~contested[t] /\ journal[t] = "none" /\ (child[t] # "none") = FALSE
    BY DEF Init
  <2>2. \A t \in Tx : Phase(t) = "none"
    BY <2>1 DEF Phase, Active
  <2> QED
    BY <2>1, <2>2 DEF Abstract!Init
<1>2. IInv /\ [Next]_vars => [Abstract!Next]_Abstract!vars
  <2> SUFFICES ASSUME IInv, [Next]_vars PROVE [Abstract!Next]_Abstract!vars
    OBVIOUS
  <2>1. CASE Next
    BY <2>1, StepMoves DEF Abstract!Next
  <2>2. CASE UNCHANGED vars
    BY <2>2 DEF vars, Abstract!vars, Phase
  <2> QED
    BY <2>1, <2>2
<1> QED
  BY <1>1, <1>2, TransactionsAreOrderly, PTL DEF Spec, JournaledTransaction, Abstract!Spec

-------------------------------------------------------------------------------
(* What is committed, and what a rollback restores.                          *)

\* The result of an operation that a verifier accepts is what was asked for.
LEMMA CommitStepIsDesired ==
  ASSUME IInv, [Next]_vars, manager = "apt", NEW t \in Tx, Ends(t, "committed"), ~contested'[t]
  PROVE  (op[t] = "remove" <=> package = 0) /\ ~broken
<1> USE DEF IInv, TypeOK, Ends, State
<1>1. CASE Commit(t)
  BY <1>1 DEF Commit, GoalInPlace
<1>2. CASE AptWrite(t)
  <2>1. ~contested[t] /\ rec.at = "health" /\ rec.tx = t
    BY <1>2, MeddledWith DEF AptWrite, Recovering
  <2>2. DesiredStateReached(op[t], before[t], rec.version) /\ rec.clean
    BY <1>2 DEF AptWrite, Conclude
  <2>3. rec.version = package /\ ~broken
    BY <2>1, <2>2 DEF ProbesHold
  <2>4. op[t] = "remove" <=> package = 0
    <3>1. op[t] \in {"install", "update", "remove"} /\ package \in 0..2
      BY DEF Operation, Version
    <3>2. CASE op[t] = "remove"
      BY <2>2, <2>3, <3>2 DEF DesiredStateReached
    <3>3. CASE op[t] \in {"install", "update"}
      <4>1. package > 0
        BY <2>2, <2>3, <3>3 DEF DesiredStateReached
      <4> QED
        BY <3>1, <3>3, <4>1
    <3> QED
      BY <3>1, <3>2, <3>3
  <2> QED
    BY <2>3, <2>4
<1>3. Next
  BY DEF vars
<1>4. ASSUME NEW u \in Tx, Service(u) PROVE Commit(t)
  BY <1>4 DEF Service, Submit, Authorize, Capture, Prepare, Handoff, Execute, Executed, Verify, Commit,
         Fail, Rollback, RolledBack, GiveUp
<1>5. ASSUME NEW u \in Tx, Manager(u) PROVE FALSE
  BY <1>5 DEF Manager, ManagerSucceeds, ManagerFails
<1>6. ASSUME NEW u \in Tx, Recovery(u) PROVE AptWrite(t)
  BY <1>6 DEF Recovery, RecoverRead, RecoverAuthorized, RecoverRollback, RecoverRolledBack, RecoverFails,
         AptRead, AptSnapshot, AptConsistency, AptWrite, Conclude
<1> QED
  BY <1>1, <1>2, <1>3, <1>4, <1>5, <1>6 DEF Next, AptBlocked, Crash, Reboot

\* What is committed with apt is what was asked for, on a database that is not interrupted,
\* whether execute() or the recovery commits it.
THEOREM CommittedIsDesired == Spec => CommitIsDesired
<1>1. IInv /\ [Next]_vars =>
        [\A t \in Tx : manager = "apt" /\ Ends(t, "committed") /\ ~contested'[t] =>
           /\ op[t] = "remove" <=> package = 0
           /\ ~broken]_vars
  BY CommitStepIsDesired
<1> QED
  BY <1>1, TransactionsAreOrderly, PTL DEF Spec, CommitIsDesired

\* A record ends rolled-back where its rollback has run, over what that has restored.
LEMMA RolledBackStep ==
  ASSUME IInv, [Next]_vars, NEW t \in Tx, Ends(t, "rolled-back"), ~contested'[t]
  PROVE  (stage[t] = "restored" /\ package' = before[t]) \/ stage[t] = "moved"
<1> USE DEF IInv, TypeOK, Ends, State, StageIsKnown, SnapshotKept, RollsBackDeployments,
     ServiceRecovery
<1>1. CASE RolledBack(t)
  BY <1>1 DEF RolledBack
<1>2. CASE RecoverRolledBack(t)
  <2>1. ~contested[t] /\ rec.at = "rolled" /\ rec.tx = t
    BY <1>2, MeddledWith DEF RecoverRolledBack, Recovering
  <2> QED
    BY <1>2, <2>1 DEF RecoverRolledBack
<1>3. Next
  BY DEF vars
<1>4. ASSUME NEW u \in Tx, Service(u) PROVE RolledBack(t)
  BY <1>4 DEF Service, Submit, Authorize, Capture, Prepare, Handoff, Execute, Executed, Verify,
         Commit, Fail, Rollback, RolledBack, GiveUp
<1>5. ASSUME NEW u \in Tx, Manager(u) PROVE FALSE
  BY <1>5 DEF Manager, ManagerSucceeds, ManagerFails
<1>6. ASSUME NEW u \in Tx, Recovery(u) PROVE RecoverRolledBack(t)
  BY <1>6 DEF Recovery, RecoverRead, RecoverAuthorized, RecoverRollback, RecoverRolledBack,
         RecoverFails, AptRead, AptSnapshot, AptConsistency, AptWrite, Conclude
<1> QED
  BY <1>1, <1>2, <1>3, <1>4, <1>5, <1>6 DEF Next, AptBlocked, Crash, Reboot

\* A record says rolled-back over the version its snapshot holds, if the deployment of
\* its transaction was in front when the rollback command ran and nothing has moved the
\* deployments since.
THEOREM RollbackIsToSnapshot == Spec => RollbackRestores
<1>1. IInv /\ [Next]_vars =>
        [\A t \in Tx : Ends(t, "rolled-back") /\ ~contested'[t] =>
           \/ stage[t] = "restored" /\ package' = before[t]
           \/ stage[t] = "moved"]_vars
  BY RolledBackStep
<1> QED
  BY <1>1, TransactionsAreOrderly, PTL DEF Spec, RollbackRestores

===============================================================================
