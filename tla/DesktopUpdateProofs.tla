-------------------------- MODULE DesktopUpdateProofs --------------------------
(***************************************************************************)
(* The inductive invariant of DesktopUpdate when the user starts no Host   *)
(* beside a process (Overlap = FALSE), as long as every launch.json could  *)
(* be written: who may run beside whom, what the slots hold for every      *)
(* state of the journal, and what a process knows about the disk at every  *)
(* one of its labels.  And what holds of the Desktop update for every set  *)
(* of transactions and of processes, any number of crashes, whatever runs  *)
(* beside what and whichever write fails.                                  *)
(***************************************************************************)
EXTENDS DesktopUpdate, TLAPS

-------------------------------------------------------------------------------
(* Which kind of process is at which label, and what it holds there.         *)

HostLabel   == {"boot", "list", "load", "exiting"} \cup HostAtWork \cup Confirming
WorkerLabel == {"verify", "wait", "activate", "issue", "issue.write", "launch",
                "record", "probe"} \cup Activating
ArgLabel    == WorkerLabel \cup RollingBack \cup Reverting
               \cup {"extract", "fail.write", "selected", "handoff"}

\* A process that works on a transaction knows which one.
ArgOK == \A p \in Proc : pc[p] \in ArgLabel => arg[p] \in Tx

DiskType ==
  /\ journal \in [Tx -> JournalState \cup {None}]
  /\ current \in Slot /\ previous \in Slot
  /\ payload \in [Tx -> BOOLEAN]
  /\ failedCurrent \in [Tx -> Slot]
  /\ abandoned \in [Tx -> Slot]
  /\ activation \in [Tx -> Phase \cup {Absent}]
  /\ health \in [Tx -> {Absent, "issued", "confirmed"}]
  /\ expired \in [Tx -> BOOLEAN]
  /\ launched \in [Tx -> SUBSET {"started", "failed"}]
  /\ ticket \in [Tx -> Proc \cup {NoProc}]
  /\ consumed \in [Tx -> BOOLEAN]
  /\ crashes \in 0 .. MaxCrash

LocalType ==
  /\ pc \in [Proc -> Label]
  /\ kind \in [Proc -> {"none", "host", "worker"}]
  /\ arg \in [Proc -> Tx \cup {NoTx}]
  /\ cred \in [Proc -> Tx \cup {NoTx}]
  /\ image \in [Proc -> Slot]
  /\ todo \in [Proc -> SUBSET Tx]
  /\ ArgOK

\* TypeOK, made inductive, in two parts: the disk and the processes.
TInv == DiskType /\ LocalType

Kinds ==
  \A p \in Proc :
    /\ pc[p] = "off" <=> kind[p] = "none"
    /\ pc[p] = "off" => cred[p] = NoTx
    /\ pc[p] \in HostLabel => kind[p] = "host"
    /\ pc[p] \in WorkerLabel => kind[p] = "worker"
    /\ pc[p] \in Confirming => cred[p] \in Tx
    /\ cred[p] # NoTx => kind[p] = "host" /\ image[p] = cred[p]

-------------------------------------------------------------------------------
(* Who runs beside whom.                                                     *)

\* Labels at which a process has nothing to say about the disk.
Silent == {"off", "exiting", "record", "probe", "pend.check"}

\* A process that may still roll back a transaction that awaits its verdict.
Claims(p) ==
  pc[p] \in {"record", "probe", "pend.check"}
  /\ journal[arg[p]] = "awaiting-health-check"

\* The worker w watches the candidate c.
Watches(w, c) == pc[w] \in {"record", "probe"} /\ cred[c] = arg[w]

\* One process at a time works on the disk.
OneWorks ==
  \A p, q \in Proc : p # q /\ pc[p] \notin Silent => pc[q] \in Silent

\* While a worker may roll back, only the candidate it watches works.
OnlyWatched ==
  \A p, q \in Proc : p # q /\ Claims(p) => pc[q] \in Silent \/ Watches(p, q)

OneClaims ==
  \A p, q \in Proc :
    p # q /\ Claims(p) /\ Claims(q) => Watches(p, q) \/ Watches(q, p)

\* Nobody watches or rolls back what is not promoted yet.
ClaimsPromoted ==
  \A p \in Proc :
    pc[p] \in {"record", "probe", "pend.check"} =>
      journal[arg[p]] \notin {None, "prepared", "applying"}

\* There is one Host, and none during the swap; a worker waits for it.
OneHost ==
  \A p, q \in Proc : kind[p] = "host" /\ kind[q] = "host" => p = q

NoHostDuringSwap ==
  \A p, q \in Proc :
    pc[p] \in {"activate", "issue", "issue.write", "launch"} \cup Activating => kind[q] # "host"

TicketNamesHost ==
  /\ \A p \in Proc : pc[p] = "handoff" => ticket[arg[p]] = p
  /\ \A p, q \in Proc :
       pc[p] \in {"verify", "wait"} /\ kind[q] = "host" => ticket[arg[p]] = q

Alone ==
  /\ OneWorks /\ OnlyWatched /\ OneClaims /\ ClaimsPromoted
  /\ OneHost /\ NoHostDuringSwap /\ TicketNamesHost

-------------------------------------------------------------------------------
(* What the disk holds.                                                      *)

Good(d) == d = Base \/ (d \in Tx /\ journal[d] = "committed")

\* Where the slots can be while t is in flight.
Untouched == previous = Absent /\ Good(current)
BackedUp  == Good(previous) /\ current = Absent
Promoted(t) == Good(previous) /\ current = t

DiskOf(t) ==
  /\ journal[t] \in {None, "prepared"} \cup Undone => t \notin {current, previous}
  /\ journal[t] \in {None, "prepared", "applying", "awaiting-health-check"} =>
       failedCurrent[t] = Absent
  /\ journal[t] = "applying" => Untouched \/ BackedUp \/ Promoted(t)
  /\ journal[t] = "awaiting-health-check" => Promoted(t)
  /\ journal[t] = "rollback-pending" =>
       \/ Promoted(t) /\ failedCurrent[t] = Absent
       \/ BackedUp /\ failedCurrent[t] # Absent
       \/ Untouched
  /\ journal[t] = "committed" => Promoted(t)

Disk ==
  /\ \A t \in Tx : DiskOf(t)
  /\ \A t, u \in Tx :
       journal[t] \in Incomplete /\ journal[u] \in Incomplete => t = u
  /\ \A t, u \in Tx :
       journal[t] = "committed" => journal[u] \notin InFlight
  /\ (\A t \in Tx : journal[t] \notin InFlight) => Good(current)

-------------------------------------------------------------------------------
(* What a process knows about the disk at each of its labels.                *)

Applying(p) == journal[arg[p]] = "applying"
Pending(p)  == journal[arg[p]] = "rollback-pending"

At(p) ==
  /\ pc[p] = "fetch" => \A t \in Tx : journal[t] \notin Incomplete
  /\ pc[p] \in {"fail.write", "apply.write"} => journal[arg[p]] = "prepared"
  /\ pc[p] \in {"begin", "apply.check", "apply.write"} =>
       previous = Absent /\ journal[arg[p]] = "prepared"
  /\ pc[p] \in {"backup", "giveup.check", "giveup.write", "revert.check",
                "revert.write"} => Applying(p) /\ Untouched
  /\ pc[p] \in {"backup.phase", "promote", "reinstate"} =>
       Applying(p) /\ BackedUp
  /\ pc[p] \in {"promote.phase", "await.check", "await.write", "abandon"} =>
       Applying(p) /\ Promoted(arg[p])
  /\ pc[p] \in {"await.phase", "issue", "issue.write", "launch", "pend.write"} =>
       journal[arg[p]] = "awaiting-health-check"
  /\ pc[p] = "quarantine" =>
       Pending(p) /\ Promoted(arg[p]) /\ failedCurrent[arg[p]] = Absent
  /\ pc[p] = "restore" => Pending(p) /\ BackedUp
  /\ pc[p] \in {"undo.check", "undo.write", "reverted.check",
                "reverted.write"} => Pending(p) /\ Untouched
  /\ pc[p] = "confirm.write" => journal[cred[p]] = "awaiting-health-check"
  /\ pc[p] \in HostAtWork \cup {"confirm.stamp", "exiting"} /\ cred[p] # NoTx =>
       journal[cred[p]] = "committed"
  /\ pc[p] \in HostAtWork \cup Confirming \cup {"load"} =>
       \A t \in Tx : journal[t] \notin {"applying", "rollback-pending"}
  /\ pc[p] = "recover" /\ kind[p] = "host" =>
       \A t \in Tx : journal[t] \in {"applying", "rollback-pending"} =>
         t \in todo[p]

IInv ==
  /\ TInv
  /\ Kinds
  /\ Alone
  /\ Disk
  /\ \A p \in Proc : At(p)

-------------------------------------------------------------------------------
(* Type correctness: a process that works on a transaction knows which one.  *)

\* The empty system has the types the invariant gives.
LEMMA InitType == Init => TInv
BY ConstantsAssumption
DEF Init, TInv, DiskType, LocalType, ArgOK, Slot, Deployment, None, Label,
    ArgLabel, WorkerLabel, Activating, RollingBack, Reverting

\* Moving a process to a label that needs no transaction, or to one that
\* does when it has one, keeps the types of what it holds.
LEMMA GotoType ==
  ASSUME LocalType, NEW p \in Proc, NEW l \in Label, Goto(p, l),
         l \in ArgLabel => arg[p] \in Tx, UNCHANGED locals
  PROVE  LocalType'
<1> USE DEF LocalType, locals
<1>1. pc' \in [Proc -> Label]
  BY DEF Goto
<1>2. ArgOK'
  <2> SUFFICES ASSUME NEW q \in Proc, pc'[q] \in ArgLabel
               PROVE  arg'[q] \in Tx
    BY DEF ArgOK
  <2> QED
    BY DEF ArgOK, Goto
<1> QED
  BY <1>1, <1>2

\* Ending a process keeps the types of what it holds.
LEMMA EndType ==
  ASSUME LocalType, NEW p \in Proc, End(p)
  PROVE  LocalType'
<1> USE DEF LocalType, End
<1>1. "off" \in Label /\ "off" \notin ArgLabel
  BY DEF Label, ArgLabel, WorkerLabel, Activating, RollingBack, Reverting
<1>2. Absent \in Slot
  BY DEF Slot
<1>3. pc' \in [Proc -> Label]
  BY <1>1 DEF Goto
<1>4. ArgOK'
  <2> SUFFICES ASSUME NEW q \in Proc, pc'[q] \in ArgLabel
               PROVE  arg'[q] \in Tx
    BY DEF ArgOK
  <2> QED
    BY <1>1 DEF ArgOK, Goto
<1>5. /\ kind' \in [Proc -> {"none", "host", "worker"}]
      /\ arg' \in [Proc -> Tx \cup {NoTx}]
      /\ cred' \in [Proc -> Tx \cup {NoTx}]
  OBVIOUS
<1>6. image' \in [Proc -> Slot]
  BY <1>2
<1>7. todo' \in [Proc -> SUBSET Tx]
  <2>1. {} \in SUBSET Tx
    OBVIOUS
  <2> QED
    BY <2>1
<1> QED
  BY <1>3, <1>4, <1>5, <1>6, <1>7

\* So does letting it go on, or end.
LEMMA RequireType ==
  ASSUME LocalType, NEW p \in Proc, NEW ok, NEW l \in Label,
         l \in ArgLabel => arg[p] \in Tx, Require(p, ok, l)
  PROVE  LocalType'
<1>1. CASE Goto(p, l) /\ UNCHANGED locals
  BY <1>1, GotoType
<1>2. CASE End(p)
  BY <1>2, EndType
<1> QED
  BY <1>1, <1>2 DEF Require

\* So does the start of a process, which needs a transaction where its label does.
LEMMA StartType ==
  ASSUME TInv, NEW q \in Proc, NEW k \in {"host", "worker"},
         NEW t \in Tx \cup {NoTx}, NEW c \in Tx \cup {NoTx},
         StartProcess(q, k, t, c), pc' \in [Proc -> Label],
         \A r \in Proc : pc'[r] \in ArgLabel =>
           IF r = q THEN t \in Tx ELSE arg[r] \in Tx
  PROVE  LocalType'
<1> USE DEF StartProcess, TInv, DiskType, LocalType
<1>1. image' \in [Proc -> Slot]
  BY DEF Slot
<1>2. /\ kind' \in [Proc -> {"none", "host", "worker"}]
      /\ arg' \in [Proc -> Tx \cup {NoTx}]
      /\ cred' \in [Proc -> Tx \cup {NoTx}]
      /\ todo' \in [Proc -> SUBSET Tx]
  OBVIOUS
<1>3. ArgOK'
  BY DEF ArgOK
<1> QED
  BY <1>1, <1>2, <1>3

\* The shared steps keep the types.
LEMMA TransitionCheckType ==
  ASSUME TInv, NEW p \in Proc, NEW at \in ArgLabel, NEW s, NEW l \in Label,
         TransitionCheck(p, at, s, l)
  PROVE  TInv'
<1>1. LocalType'
  BY RequireType DEF TInv, TransitionCheck, LocalType, ArgOK
<1>2. DiskType'
  BY DEF TInv, TransitionCheck, DiskType, disk, slots, files, health_vars
<1> QED
  BY <1>1, <1>2 DEF TInv

LEMMA TransitionWriteType ==
  ASSUME TInv, NEW p \in Proc, NEW at \in ArgLabel, NEW s \in JournalState,
         NEW l \in Label, TransitionWrite(p, at, s, l)
  PROVE  TInv'
<1>1. LocalType'
  BY GotoType DEF TInv, TransitionWrite, LocalType, ArgOK
<1>2. DiskType'
  BY DEF TInv, TransitionWrite, SetJournal, DiskType, slots, files, health_vars
<1> QED
  BY <1>1, <1>2 DEF TInv

LEMMA PersistPhaseType ==
  ASSUME TInv, NEW p \in Proc, NEW at \in ArgLabel, NEW f \in Phase,
         NEW l \in Label, PersistPhase(p, at, f, l)
  PROVE  TInv'
<1>1. LocalType'
  BY GotoType DEF TInv, PersistPhase, LocalType, ArgOK
<1>2. DiskType'
  BY DEF TInv, PersistPhase, SetPhase, DiskType, slots, health_vars
<1> QED
  BY <1>1, <1>2 DEF TInv

LEMMA RestorePreviousType ==
  ASSUME TInv, NEW p \in Proc, NEW at \in ArgLabel, NEW l \in Label,
         RestorePrevious(p, at, l)
  PROVE  TInv'
<1>1. LocalType'
  BY RequireType DEF TInv, RestorePrevious, LocalType, ArgOK
<1>2. DiskType'
  BY DEF TInv, RestorePrevious, DiskType, files, health_vars, Slot
<1> QED
  BY <1>1, <1>2 DEF TInv

LEMMA ConcludeType ==
  ASSUME TInv, NEW p \in Proc, NEW at \in ArgLabel, NEW s \in JournalState,
         Conclude(p, at, s)
  PROVE  TInv'
<1>1. CASE End(p)
  BY <1>1, EndType
  DEF TInv, Conclude, SetJournal, DiskType, slots, files, health_vars
<1>2. CASE ~End(p)
  <2>1. LocalType'
    BY <1>2
    DEF TInv, LocalType, ArgOK, Conclude, Finish, Goto, Label, ArgLabel,
                WorkerLabel, Activating, RollingBack, Reverting
  <2>2. DiskType'
    BY DEF TInv, Conclude, SetJournal, DiskType, slots, files, health_vars
  <2> QED
    BY <2>1, <2>2 DEF TInv
<1> QED
  BY <1>1, <1>2

\* The swap of the slots keeps the types.
LEMMA ActivateType ==
  ASSUME TInv, NEW p \in Proc, Activate(p)
  PROVE  TInv'
<1> USE DEF Label, ArgLabel, WorkerLabel, HostAtWork, Preparing, Confirming,
            Activating, RollingBack, Reverting
<1>1. CASE TransitionCheck(p, "apply.check", "prepared", "apply.write")
  BY <1>1, TransitionCheckType
<1>2. CASE TransitionWrite(p, "apply.write", "applying", "backup")
  BY <1>2, TransitionWriteType DEF JournalState
<1>3. CASE BackUpCurrent(p)
  <2>1. LocalType'
    BY <1>3, RequireType DEF TInv, BackUpCurrent, LocalType, ArgOK
  <2>2. DiskType'
    BY <1>3
    DEF TInv, BackUpCurrent, DiskType, disk, slots, files, health_vars,
        JournalState, Phase, Slot
  <2> QED
    BY <2>1, <2>2 DEF TInv
<1>4. CASE PersistPhase(p, "backup.phase", "current-backed-up", "promote")
  BY <1>4, PersistPhaseType DEF Phase
<1>5. CASE PromoteCandidate(p)
  <2>1. LocalType'
    BY <1>5, RequireType
    DEF TInv, PromoteCandidate, Deployment, LocalType, ArgOK
  <2>2. arg[p] \in Tx
    BY <1>5 DEF TInv, PromoteCandidate, LocalType, ArgOK
  <2>3. DiskType'
    BY <1>5, <2>2
    DEF TInv, PromoteCandidate, DiskType, Slot, Deployment, files, health_vars
  <2> QED
    BY <2>1, <2>3 DEF TInv
<1>6. CASE PersistPhase(p, "promote.phase", "candidate-promoted", "await.check")
  BY <1>6, PersistPhaseType DEF Phase
<1>7. CASE TransitionCheck(p, "await.check", "applying", "await.write")
  BY <1>7, TransitionCheckType
<1>8. CASE TransitionWrite(p, "await.write", "awaiting-health-check", "await.phase")
  BY <1>8, TransitionWriteType DEF JournalState
<1>9. CASE PersistPhase(p, "await.phase", "awaiting-health-check", "issue")
  BY <1>9, PersistPhaseType DEF Phase
<1>10. CASE PersistPhase(p, "begin", "prepared", "apply.check")
  BY <1>10, PersistPhaseType DEF Phase
<1> QED
  BY <1>1, <1>2, <1>3, <1>4, <1>5, <1>6, <1>7, <1>8, <1>9, <1>10 DEF Activate

\* The rollback of a promoted candidate keeps the types.
LEMMA RollbackType ==
  ASSUME TInv, NEW p \in Proc, Rollback(p)
  PROVE  TInv'
<1> USE DEF Label, ArgLabel, WorkerLabel, HostAtWork, Preparing, Confirming,
            Activating, RollingBack, Reverting
<1>1. CASE TransitionCheck(p, "pend.check", "awaiting-health-check", "pend.write")
  BY <1>1, TransitionCheckType
<1>2. CASE TransitionWrite(p, "pend.write", "rollback-pending", "rollback")
  BY <1>2, TransitionWriteType DEF JournalState
<1>3. CASE BeginRollback(p)
  <2>1. LocalType'
    BY <1>3, RequireType DEF TInv, BeginRollback, LocalType, ArgOK
  <2>2. DiskType'
    BY <1>3
    DEF TInv, BeginRollback, DiskType, disk, slots, files, health_vars,
        JournalState, Phase, Slot
  <2> QED
    BY <2>1, <2>2 DEF TInv
<1>4. CASE QuarantineCurrent(p)
  <2>1. LocalType'
    BY <1>4, RequireType DEF TInv, QuarantineCurrent, LocalType, ArgOK
  <2>2. DiskType'
    BY <1>4
    DEF TInv, QuarantineCurrent, DiskType, disk, slots, files, health_vars,
        JournalState, Phase, Slot
  <2> QED
    BY <2>1, <2>2 DEF TInv
<1>5. CASE RestorePrevious(p, "restore", "undo.check")
  BY <1>5, RestorePreviousType
<1>6. CASE TransitionCheck(p, "undo.check", "rollback-pending", "undo.write")
  BY <1>6, TransitionCheckType
<1>7. CASE Conclude(p, "undo.write", "rolled-back")
  BY <1>7, ConcludeType DEF JournalState
<1> QED
  BY <1>1, <1>2, <1>3, <1>4, <1>5, <1>6, <1>7 DEF Rollback

\* The recovery of an interrupted swap keeps the types.
LEMMA RevertType ==
  ASSUME TInv, NEW p \in Proc, Revert(p)
  PROVE  TInv'
<1> USE DEF Label, ArgLabel, WorkerLabel, HostAtWork, Preparing, Confirming,
            Activating, RollingBack, Reverting
<1>1. CASE RecoverApplying(p)
  <2>1. LocalType'
    BY <1>1, RequireType, GotoType, EndType
    DEF TInv, RecoverApplying, LocalType, ArgOK
  <2>2. DiskType'
    BY <1>1
    DEF TInv, RecoverApplying, DiskType, disk, slots, files, health_vars,
        JournalState, Phase, Slot
  <2> QED
    BY <2>1, <2>2 DEF TInv
<1>2. CASE AbandonCurrent(p)
  <2>1. LocalType'
    BY <1>2, RequireType DEF TInv, AbandonCurrent, LocalType, ArgOK
  <2>2. DiskType'
    BY <1>2
    DEF TInv, AbandonCurrent, DiskType, disk, slots, files, health_vars,
        JournalState, Phase, Slot
  <2> QED
    BY <2>1, <2>2 DEF TInv
<1>3. CASE RestorePrevious(p, "reinstate", "revert.check")
  BY <1>3, RestorePreviousType
<1>4. CASE TransitionCheck(p, "revert.check", "applying", "revert.write")
  BY <1>4, TransitionCheckType
<1>5. CASE TransitionWrite(p, "revert.write", "rollback-pending", "reverted.check")
  BY <1>5, TransitionWriteType DEF JournalState
<1>6. CASE TransitionCheck(p, "reverted.check", "rollback-pending", "reverted.write")
  BY <1>6, TransitionCheckType
<1>7. CASE Conclude(p, "reverted.write", "rolled-back")
  BY <1>7, ConcludeType DEF JournalState
<1>8. CASE TransitionCheck(p, "giveup.check", "applying", "giveup.write")
  BY <1>8, TransitionCheckType
<1>9. CASE Conclude(p, "giveup.write", "failed")
  BY <1>9, ConcludeType DEF JournalState
<1> QED
  BY <1>1, <1>2, <1>3, <1>4, <1>5, <1>6, <1>7, <1>8, <1>9 DEF Revert

\* So does every other step of a running process.
LEMMA StepType ==
  ASSUME TInv, NEW p \in Proc, Step(p)
  PROVE  TInv'
<1> USE DEF Label, ArgLabel, WorkerLabel, HostAtWork, Preparing, Confirming,
            Activating, RollingBack, Reverting
<1>1. CASE Boot(p)
  <2>1. LocalType'
    BY <1>1, RequireType DEF TInv, Boot, LocalType, ArgOK
  <2>2. DiskType'
    BY <1>1
    DEF TInv, Boot, DiskType, disk, slots, files, health_vars, JournalState,
        Phase, Slot
  <2> QED
    BY <2>1, <2>2 DEF TInv
<1>2. CASE RecoveryDone(p)
  <2>1. LocalType'
    BY <1>2, RequireType DEF TInv, RecoveryDone, LocalType, ArgOK
  <2>2. DiskType'
    BY <1>2
    DEF TInv, RecoveryDone, DiskType, disk, slots, files, health_vars,
        JournalState, Phase, Slot
  <2> QED
    BY <2>1, <2>2 DEF TInv
<1>3. CASE \E t \in Tx : Recover(p, t)
  <2>1. LocalType'
    BY <1>3 DEF TInv, Recover, LocalType, ArgOK, Goto
  <2>2. DiskType'
    BY <1>3
    DEF TInv, Recover, DiskType, disk, slots, files, health_vars, JournalState,
        Phase, Slot
  <2> QED
    BY <2>1, <2>2 DEF TInv
<1>4. CASE ShellReady(p)
  <2>1. LocalType'
    BY <1>4, RequireType, GotoType DEF TInv, ShellReady, LocalType, ArgOK
  <2>2. DiskType'
    BY <1>4
    DEF TInv, ShellReady, DiskType, disk, slots, files, health_vars,
        JournalState, Phase, Slot
  <2> QED
    BY <2>1, <2>2 DEF TInv
<1>5. CASE ShellFails(p)
  <2>1. LocalType'
    BY <1>5, EndType DEF TInv, ShellFails, LocalType, ArgOK
  <2>2. DiskType'
    BY <1>5
    DEF TInv, ShellFails, DiskType, disk, slots, files, health_vars,
        JournalState, Phase, Slot
  <2> QED
    BY <2>1, <2>2 DEF TInv
<1>6. CASE ConfirmCommit(p)
  <2>1. LocalType'
    BY <1>6, GotoType DEF TInv, ConfirmCommit, LocalType, ArgOK
  <2>2. DiskType'
    BY <1>6
    DEF TInv, ConfirmCommit, DiskType, disk, slots, files, health_vars,
        JournalState, Phase, Slot
  <2> QED
    BY <2>1, <2>2 DEF TInv
<1>7. CASE ConfirmStamp(p)
  <2>1. LocalType'
    BY <1>7, GotoType DEF TInv, ConfirmStamp, LocalType, ArgOK
  <2>2. DiskType'
    BY <1>7
    DEF TInv, ConfirmStamp, DiskType, disk, slots, files, health_vars,
        JournalState, Phase, Slot
  <2> QED
    BY <2>1, <2>2 DEF TInv
<1>8. CASE \E t \in Tx : PrepareBegin(p, t)
  <2>1. LocalType'
    BY <1>8 DEF TInv, PrepareBegin, LocalType, ArgOK, Goto
  <2>2. DiskType'
    BY <1>8
    DEF TInv, PrepareBegin, DiskType, disk, slots, files, health_vars,
        JournalState, Phase, Slot
  <2> QED
    BY <2>1, <2>2 DEF TInv
<1>9. CASE PrepareDone(p)
  <2>1. LocalType'
    BY <1>9, GotoType DEF TInv, PrepareDone, LocalType, ArgOK
  <2>2. DiskType'
    BY <1>9
    DEF TInv, PrepareDone, DiskType, disk, slots, files, health_vars,
        JournalState, Phase, Slot
  <2> QED
    BY <2>1, <2>2 DEF TInv
<1>10. CASE PrepareAbandoned(p)
  <2>1. LocalType'
    BY <1>10, GotoType DEF TInv, PrepareAbandoned, LocalType, ArgOK
  <2>2. DiskType'
    BY <1>10
    DEF TInv, PrepareAbandoned, DiskType, disk, slots, files, health_vars,
        JournalState, Phase, Slot
  <2> QED
    BY <2>1, <2>2 DEF TInv
<1>11. CASE PrepareFails(p)
  <2>1. LocalType'
    BY <1>11, GotoType DEF TInv, PrepareFails, LocalType, ArgOK
  <2>2. DiskType'
    BY <1>11
    DEF TInv, PrepareFails, DiskType, disk, slots, files, health_vars,
        JournalState, Phase, Slot
  <2> QED
    BY <2>1, <2>2 DEF TInv
<1>12. CASE TransitionWrite(p, "fail.write", "failed", "shell")
  BY <1>12, TransitionWriteType DEF JournalState
<1>13. CASE \E q \in Proc : StartWorker(p, q)
  <2>1. LocalType'
    <3> PICK q \in Proc : StartWorker(p, q)
      BY <1>13
    <3>1. pc' \in [Proc -> Label]
      BY DEF TInv, LocalType, StartWorker
    <3>2. arg[p] \in Tx
      BY DEF TInv, LocalType, ArgOK, StartWorker
    <3>3. \A r \in Proc : pc'[r] \in ArgLabel /\ r # q => arg[r] \in Tx
      BY DEF TInv, LocalType, ArgOK, StartWorker
    <3> QED
      BY <3>1, <3>2, <3>3, StartType DEF StartWorker
  <2>2. DiskType'
    BY <1>13
    DEF TInv, StartWorker, DiskType, disk, slots, files, health_vars,
        JournalState, Phase, Slot
  <2> QED
    BY <2>1, <2>2 DEF TInv
<1>14. CASE StartWorkerFails(p)
  <2>1. LocalType'
    BY <1>14, GotoType DEF TInv, StartWorkerFails, LocalType, ArgOK
  <2>2. DiskType'
    BY <1>14
    DEF TInv, StartWorkerFails, DiskType, disk, slots, files, health_vars,
        JournalState, Phase, Slot
  <2> QED
    BY <2>1, <2>2 DEF TInv
<1>15. CASE ConsumeTicket(p)
  <2>1. LocalType'
    BY <1>15, RequireType DEF TInv, ConsumeTicket, LocalType, ArgOK
  <2>2. DiskType'
    BY <1>15
    DEF TInv, ConsumeTicket, DiskType, disk, slots, files, health_vars,
        JournalState, Phase, Slot
  <2> QED
    BY <2>1, <2>2 DEF TInv
<1>16. CASE WaitTimesOut(p)
  <2>1. LocalType'
    BY <1>16, EndType DEF TInv, WaitTimesOut, LocalType, ArgOK
  <2>2. DiskType'
    BY <1>16
    DEF TInv, WaitTimesOut, DiskType, disk, slots, files, health_vars,
        JournalState, Phase, Slot
  <2> QED
    BY <2>1, <2>2 DEF TInv
<1>17. CASE BeginActivation(p)
  <2>1. LocalType'
    BY <1>17, RequireType DEF TInv, BeginActivation, LocalType, ArgOK
  <2>2. DiskType'
    BY <1>17
    DEF TInv, BeginActivation, DiskType, disk, slots, files, health_vars,
        JournalState, Phase, Slot
  <2> QED
    BY <2>1, <2>2 DEF TInv
<1>18. CASE Activate(p)
  BY <1>18, ActivateType
<1>19. CASE IssueHealth(p)
  <2>1. LocalType'
    BY <1>19, GotoType DEF TInv, IssueHealth, LocalType, ArgOK
  <2>2. DiskType'
    BY <1>19
    DEF TInv, IssueHealth, DiskType, disk, slots, files, health_vars,
        JournalState, Phase, Slot
  <2> QED
    BY <2>1, <2>2 DEF TInv
<1>20. CASE IssueHealthFails(p)
  <2>1. LocalType'
    BY <1>20, RequireType DEF TInv, IssueHealthFails, Answer, LocalType, ArgOK
  <2>2. DiskType'
    BY <1>20
    DEF TInv, IssueHealthFails, Answer, DiskType, disk, slots, files,
        health_vars, JournalState, Phase, Slot
  <2> QED
    BY <2>1, <2>2 DEF TInv
<1>21. CASE \E q \in Proc : LaunchCandidate(p, q)
  <2>1. LocalType'
    <3> PICK q \in Proc : LaunchCandidate(p, q)
      BY <1>21
    <3>1. pc' \in [Proc -> Label]
      BY DEF TInv, LocalType, LaunchCandidate
    <3>2. arg[p] \in Tx
      BY DEF TInv, LocalType, ArgOK, LaunchCandidate
    <3>3. \A r \in Proc : pc'[r] \in ArgLabel => arg[r] \in Tx /\ r # q
      BY DEF TInv, LocalType, ArgOK, LaunchCandidate
    <3> QED
      BY <3>1, <3>2, <3>3, StartType DEF LaunchCandidate
  <2>2. DiskType'
    BY <1>21
    DEF TInv, LaunchCandidate, DiskType, disk, slots, files, health_vars,
        JournalState, Phase, Slot
  <2> QED
    BY <2>1, <2>2 DEF TInv
<1>22. CASE LaunchFails(p)
  <2>1. LocalType'
    BY <1>22, RequireType, EndType
    DEF TInv, LaunchFails, Answer, LocalType, ArgOK
  <2>2. DiskType'
    BY <1>22
    DEF TInv, LaunchFails, Answer, DiskType, disk, slots, files, health_vars,
        JournalState, Phase, Slot
  <2> QED
    BY <2>1, <2>2 DEF TInv
<1>23. CASE RecordLaunch(p)
  <2>1. LocalType'
    BY <1>23, GotoType DEF TInv, RecordLaunch, LocalType, ArgOK
  <2>2. DiskType'
    BY <1>23
    DEF TInv, RecordLaunch, DiskType, disk, slots, files, health_vars,
        JournalState, Phase, Slot
  <2> QED
    BY <2>1, <2>2 DEF TInv
<1>24. CASE RecordLaunchFails(p)
  <2>1. LocalType'
    BY <1>24, RequireType DEF TInv, RecordLaunchFails, Answer, LocalType, ArgOK
  <2>2. DiskType'
    BY <1>24 DEF TInv, RecordLaunchFails, DiskType, slots, JournalState, Phase, Slot
  <2> QED
    BY <2>1, <2>2 DEF TInv
<1>25. CASE ProbeEarlyExit(p)
  <2>1. LocalType'
    BY <1>25, GotoType DEF TInv, ProbeEarlyExit, LocalType, ArgOK
  <2>2. DiskType'
    BY <1>25
    DEF TInv, ProbeEarlyExit, DiskType, disk, slots, files, health_vars,
        JournalState, Phase, Slot
  <2> QED
    BY <2>1, <2>2 DEF TInv
<1>26. CASE ProbePassed(p)
  <2>1. LocalType'
    BY <1>26, EndType DEF TInv, ProbePassed, LocalType, ArgOK
  <2>2. DiskType'
    BY <1>26
    DEF TInv, ProbePassed, DiskType, disk, slots, files, health_vars,
        JournalState, Phase, Slot
  <2> QED
    BY <2>1, <2>2 DEF TInv
<1>27. CASE Rollback(p)
  BY <1>27, RollbackType
<1>28. CASE Revert(p)
  BY <1>28, RevertType
<1>29. CASE ListIncomplete(p)
  <2>1. LocalType'
    BY <1>29 DEF TInv, ListIncomplete, LocalType, ArgOK, Goto
  <2>2. DiskType'
    BY <1>29
    DEF TInv, ListIncomplete, DiskType, disk, slots, files, health_vars,
        JournalState, Phase, Slot
  <2> QED
    BY <2>1, <2>2 DEF TInv
<1>30. CASE IssueTicket(p)
  <2>1. LocalType'
    BY <1>30, GotoType DEF TInv, IssueTicket, LocalType, ArgOK
  <2>2. DiskType'
    BY <1>30
    DEF TInv, IssueTicket, DiskType, disk, slots, files, health_vars,
        JournalState, Phase, Slot
  <2> QED
    BY <2>1, <2>2 DEF TInv
<1>31. CASE VerifyTicket(p)
  <2>1. LocalType'
    BY <1>31, RequireType DEF TInv, VerifyTicket, LocalType, ArgOK
  <2>2. DiskType'
    BY <1>31
    DEF TInv, VerifyTicket, DiskType, disk, slots, files, health_vars,
        JournalState, Phase, Slot
  <2> QED
    BY <2>1, <2>2 DEF TInv
<1>32. CASE WriteHealth(p)
  <2>1. LocalType'
    BY <1>32, GotoType DEF TInv, WriteHealth, LocalType, ArgOK
  <2>2. DiskType'
    BY <1>32
    DEF TInv, WriteHealth, DiskType, disk, slots, files, health_vars,
        JournalState, Phase, Slot
  <2> QED
    BY <2>1, <2>2 DEF TInv
<1> QED
  BY <1>1, <1>2, <1>3, <1>4, <1>5, <1>6, <1>7, <1>8, <1>9, <1>10, <1>11, <1>12,
     <1>13, <1>14, <1>15, <1>16, <1>17, <1>18, <1>19, <1>20, <1>21, <1>22,
     <1>23, <1>24, <1>25, <1>26, <1>27, <1>28, <1>29, <1>30, <1>31, <1>32
  DEF Step

\* So does what the user does.
LEMMA UserStepType ==
  ASSUME TInv, NEW p \in Proc, UserStep(p)
  PROVE  TInv'
<1> USE DEF Label, ArgLabel, WorkerLabel, HostAtWork, Preparing, Confirming,
            Activating, RollingBack, Reverting
<1>1. CASE StartHost(p)
  <2>1. LocalType'
    <3>1. pc' \in [Proc -> Label]
      BY <1>1 DEF TInv, LocalType, StartHost, Goto
    <3>2. \A r \in Proc : pc'[r] \in ArgLabel => arg[r] \in Tx /\ r # p
      BY <1>1 DEF TInv, LocalType, ArgOK, StartHost, Goto
    <3> QED
      BY <1>1, <3>1, <3>2, StartType DEF StartHost
  <2>2. DiskType'
    BY <1>1
    DEF TInv, StartHost, DiskType, disk, slots, files, health_vars,
        JournalState, Phase, Slot
  <2> QED
    BY <2>1, <2>2 DEF TInv
<1>2. CASE HostExit(p)
  <2>1. LocalType'
    BY <1>2, EndType DEF TInv, HostExit, LocalType, ArgOK
  <2>2. DiskType'
    BY <1>2
    DEF TInv, HostExit, DiskType, disk, slots, files, health_vars,
        JournalState, Phase, Slot
  <2> QED
    BY <2>1, <2>2 DEF TInv
<1>3. CASE PrepareStart(p)
  <2>1. LocalType'
    BY <1>3, GotoType DEF TInv, PrepareStart, LocalType, ArgOK
  <2>2. DiskType'
    BY <1>3
    DEF TInv, PrepareStart, DiskType, disk, slots, files, health_vars,
        JournalState, Phase, Slot
  <2> QED
    BY <2>1, <2>2 DEF TInv
<1>4. CASE \E t \in Tx : RequestRestart(p, t)
  <2>1. LocalType'
    BY <1>4 DEF TInv, RequestRestart, LocalType, ArgOK, Goto
  <2>2. DiskType'
    BY <1>4
    DEF TInv, RequestRestart, DiskType, disk, slots, files, health_vars,
        JournalState, Phase, Slot
  <2> QED
    BY <2>1, <2>2 DEF TInv
<1>5. CASE \E t \in Tx : StartRecoverCommand(p, t)
  <2>1. LocalType'
    BY <1>5 DEF TInv, StartRecoverCommand, LocalType, ArgOK, Goto
  <2>2. DiskType'
    BY <1>5
    DEF TInv, StartRecoverCommand, DiskType, disk, slots, files, health_vars,
        JournalState, Phase, Slot
  <2> QED
    BY <2>1, <2>2 DEF TInv
<1> QED
  BY <1>1, <1>2, <1>3, <1>4, <1>5 DEF UserStep

\* A step of the system keeps the types.
LEMMA NextType == TInv /\ [Next]_vars => TInv'
<1> SUFFICES ASSUME TInv, [Next]_vars
             PROVE  TInv'
  OBVIOUS
<1>1. ASSUME NEW p \in Proc, Crash(p)
      PROVE  TInv'
  BY <1>1, EndType, ConstantsAssumption
  DEF Crash, TInv, DiskType, disk, slots, files, health_vars
<1>2. ASSUME NEW t \in Tx, Expire(t)
      PROVE  TInv'
  BY <1>2 DEF Expire, TInv, DiskType, LocalType, ArgOK, slots, locals
<1>3. CASE UNCHANGED vars
  BY <1>3
  DEF vars, disk, slots, files, health_vars, locals, TInv, DiskType, LocalType,
      ArgOK
<1> QED
  BY <1>1, <1>2, <1>3, StepType, UserStepType DEF Next

\* Every reachable state has the types TypeOK gives: for every set of
\* transactions and processes, with or without overlapping processes.
THEOREM TypeCorrect == Spec => []TypeOK
<1>1. TInv => TypeOK
  BY DEF TInv, DiskType, LocalType, TypeOK
<1> QED
  BY <1>1, InitType, NextType, PTL DEF Spec

-------------------------------------------------------------------------------
(* The safety properties of the Desktop update, from its inductive           *)
(* invariant: for every set of transactions and of processes, when no        *)
(* process works beside another one on the same slots.                       *)

\* A launch.json that cannot be written is remembered.
LEMMA FailureIsRemembered ==
  ASSUME TInv, EveryLaunchRecorded', NEW p \in Proc
  PROVE  ~RecordLaunchFails(p)
BY DEF TInv, DiskType, LocalType, ArgOK, ArgLabel, WorkerLabel,
       RecordLaunchFails, EveryLaunchRecorded, Unrecorded

-------------------------------------------------------------------------------
(* Kinds.                                                                    *)

\* A step keeps every process at a label of its kind.
LEMMA KindsStep ==
  ASSUME ~Overlap, IInv, TInv', EveryLaunchRecorded', NEW p \in Proc,
         Step(p) \/ UserStep(p) \/ Crash(p)
  PROVE  Kinds'
<1> USE DEF TInv, IInv, LocalType, ArgOK, ArgLabel, HostLabel, WorkerLabel,
            HostAtWork, Preparing, Confirming, Activating, RollingBack,
            Reverting, Silent, Goto, End, Require, locals, slots, disk, files,
            health_vars
<1>1. CASE Activate(p)
  BY <1>1, SMTT(30)
  DEF Activate, PersistPhase, SetPhase, TransitionCheck, TransitionWrite,
      SetJournal, BackUpCurrent, PromoteCandidate, Kinds, At, Disk, DiskOf,
      Promoted
<1>2. CASE Rollback(p)
  BY <1>2, SMTT(30)
  DEF Rollback, TransitionCheck, TransitionWrite, SetJournal, BeginRollback,
      QuarantineCurrent, RestorePrevious, Conclude, Finish, Kinds, At, Disk,
      DiskOf, Promoted
<1>3. CASE Revert(p)
  BY <1>3, SMTT(30)
  DEF Revert, RecoverApplying, AbandonCurrent, RestorePrevious,
      TransitionCheck, TransitionWrite, SetJournal, Conclude, Finish, Kinds,
      At, Disk, DiskOf, Promoted
<1>4. CASE Boot(p)
  BY <1>4 DEF Boot, Kinds, At, Disk, DiskOf, Promoted
<1>5. CASE ListIncomplete(p)
  BY <1>5 DEF ListIncomplete, Kinds, At, Disk, DiskOf, Promoted
<1>6. CASE RecoveryDone(p)
  BY <1>6 DEF RecoveryDone, Kinds, At, Disk, DiskOf, Promoted
<1>7. CASE \E t \in Tx : Recover(p, t)
  BY <1>7 DEF Recover, Kinds, At, Disk, DiskOf, Promoted
<1>8. CASE ShellReady(p)
  BY <1>8 DEF ShellReady, Kinds, At, Disk, DiskOf, Promoted
<1>9. CASE ShellFails(p)
  BY <1>9 DEF ShellFails, Kinds, At, Disk, DiskOf, Promoted
<1>10. CASE ConfirmCommit(p)
  BY <1>10 DEF ConfirmCommit, Kinds, At, Disk, DiskOf, Promoted
<1>11. CASE ConfirmStamp(p)
  BY <1>11 DEF ConfirmStamp, Kinds, At, Disk, DiskOf, Promoted
<1>12. CASE \E t \in Tx : PrepareBegin(p, t)
  BY <1>12 DEF PrepareBegin, Kinds, At, Disk, DiskOf, Promoted
<1>13. CASE PrepareDone(p)
  BY <1>13 DEF PrepareDone, Kinds, At, Disk, DiskOf, Promoted
<1>14. CASE PrepareAbandoned(p)
  BY <1>14 DEF PrepareAbandoned, Kinds, At, Disk, DiskOf, Promoted
<1>15. CASE PrepareFails(p)
  BY <1>15 DEF PrepareFails, Kinds, At, Disk, DiskOf, Promoted
<1>16. CASE TransitionWrite(p, "fail.write", "failed", "shell")
  BY <1>16 DEF TransitionWrite, SetJournal, Kinds, At, Disk, DiskOf, Promoted
<1>17. CASE IssueTicket(p)
  BY <1>17 DEF IssueTicket, Kinds, At, Disk, DiskOf, Promoted
<1>18. CASE \E q \in Proc : StartWorker(p, q)
  BY <1>18
  DEF StartWorker, StartProcess, Running, Kinds, At, Disk, DiskOf, Promoted
<1>19. CASE StartWorkerFails(p)
  BY <1>19 DEF StartWorkerFails, Kinds, At, Disk, DiskOf, Promoted
<1>20. CASE VerifyTicket(p)
  BY <1>20 DEF VerifyTicket, Kinds, At, Disk, DiskOf, Promoted
<1>21. CASE ConsumeTicket(p)
  BY <1>21 DEF ConsumeTicket, Running, Kinds, At, Disk, DiskOf, Promoted
<1>22. CASE WaitTimesOut(p)
  BY <1>22 DEF WaitTimesOut, Kinds, At, Disk, DiskOf, Promoted
<1>23. CASE BeginActivation(p)
  BY <1>23 DEF BeginActivation, Kinds, At, Disk, DiskOf, Promoted
<1>24. CASE IssueHealth(p)
  BY <1>24 DEF IssueHealth, Kinds, At, Disk, DiskOf, Promoted
<1>25. CASE WriteHealth(p)
  BY <1>25 DEF WriteHealth, Kinds, At, Disk, DiskOf, Promoted
<1>26. CASE IssueHealthFails(p)
  BY <1>26 DEF IssueHealthFails, Answer, Kinds, At, Disk, DiskOf, Promoted
<1>27. CASE \E q \in Proc : LaunchCandidate(p, q)
  BY <1>27
  DEF LaunchCandidate, StartProcess, Running, LaunchAllowed, Kinds, At, Disk,
      DiskOf, Promoted
<1>28. CASE LaunchFails(p)
  BY <1>28 DEF LaunchFails, Answer, Kinds, At, Disk, DiskOf, Promoted
<1>29. CASE RecordLaunch(p)
  BY <1>29 DEF RecordLaunch, Kinds, At, Disk, DiskOf, Promoted
<1>30. CASE RecordLaunchFails(p)
  BY <1>30, FailureIsRemembered
<1>31. CASE ProbeEarlyExit(p)
  BY <1>31
  DEF ProbeEarlyExit, CandidateRuns, Running, Kinds, At, Disk, DiskOf, Promoted
<1>32. CASE ProbePassed(p)
  BY <1>32 DEF ProbePassed, Kinds, At, Disk, DiskOf, Promoted
<1>33. CASE StartHost(p)
  BY <1>33
  DEF StartHost, StartProcess, Running, Kinds, At, Disk, DiskOf, Promoted
<1>34. CASE HostExit(p)
  BY <1>34 DEF HostExit, Kinds, At, Disk, DiskOf, Promoted
<1>35. CASE PrepareStart(p)
  BY <1>35 DEF PrepareStart, Kinds, At, Disk, DiskOf, Promoted
<1>36. CASE \E t \in Tx : RequestRestart(p, t)
  BY <1>36 DEF RequestRestart, Kinds, At, Disk, DiskOf, Promoted
<1>37. CASE \E t \in Tx : StartRecoverCommand(p, t)
  BY <1>37 DEF StartRecoverCommand, Running, Kinds, At, Disk, DiskOf, Promoted
<1>38. CASE Crash(p)
  BY <1>38 DEF Crash, Kinds, At, Disk, DiskOf, Promoted
<1> QED
  BY <1>1, <1>2, <1>3, <1>4, <1>5, <1>6, <1>7, <1>8, <1>9, <1>10, <1>11, <1>12,
     <1>13, <1>14, <1>15, <1>16, <1>17, <1>18, <1>19, <1>20, <1>21, <1>22,
     <1>23, <1>24, <1>25, <1>26, <1>27, <1>28, <1>29, <1>30, <1>31, <1>32,
     <1>33, <1>34, <1>35, <1>36, <1>37, <1>38
  DEF Step, UserStep

-------------------------------------------------------------------------------
(* Who runs beside whom.                                                     *)

\* What a step may do to a journal without making somebody a claimant.
JournalForward ==
  \A t \in Tx :
    /\ journal[t] \notin {None, "prepared", "applying"} =>
         journal'[t] \notin {None, "prepared", "applying"}
    /\ journal[t] \notin {"applying", "awaiting-health-check"} =>
         journal'[t] # "awaiting-health-check"

Swapping == {"activate", "issue", "issue.write", "launch"} \cup Activating

\* The process that works on the disk goes on: the others stay silent.
LEMMA WorkAlone ==
  ASSUME IInv, NEW p \in Proc, pc[p] \notin Silent, NEW l \in Label,
         Goto(p, l), UNCHANGED <<kind, cred>>, JournalForward,
         \A q \in Proc : q # p => arg'[q] = arg[q],
         l \notin {"record", "probe", "verify"},
         l = "wait" => pc[p] = "verify" /\ UNCHANGED <<arg, ticket>>,
         l = "handoff" => ticket'[arg'[p]] = p,
         l = "pend.check" => journal'[arg'[p]] = "awaiting-health-check",
         l \in Swapping => \/ pc[p] \in Swapping
                           \/ \A q \in Proc : kind[q] # "host"
  PROVE  Alone'
<1> USE DEF IInv, TInv, LocalType, Alone, Goto
<1>1. OneWorks'
  BY DEF OneWorks, Silent
<1>2. ClaimsPromoted'
  BY DEF ClaimsPromoted, JournalForward, DiskType, ArgOK, ArgLabel, WorkerLabel,
         RollingBack, Silent, None
<1>3. OnlyWatched'
  BY DEF OnlyWatched, OneWorks, Silent, Claims, Watches, ClaimsPromoted,
         JournalForward, DiskType, ArgOK, ArgLabel, WorkerLabel, RollingBack
<1>4. OneClaims'
  BY DEF OnlyWatched, OneWorks, OneClaims, Silent, Claims, Watches,
         ClaimsPromoted, JournalForward, DiskType, ArgOK, ArgLabel, WorkerLabel,
         RollingBack
<1>5. OneHost' /\ NoHostDuringSwap'
  BY DEF OneHost, NoHostDuringSwap, Swapping
<1>6. TicketNamesHost'
  BY DEF TicketNamesHost, OneWorks, Silent
<1> QED
  BY <1>1, <1>2, <1>3, <1>4, <1>5, <1>6

\* A process ends: the others are as alone as they were.
LEMMA EndAlone ==
  ASSUME IInv, NEW p \in Proc, End(p), JournalForward,
         pc[p] \in Silent => ticket' = ticket
  PROVE  Alone'
<1> USE DEF IInv, TInv, LocalType, Alone, End, Goto
<1>1. OneWorks'
  BY DEF OneWorks, Silent
<1>2. ClaimsPromoted'
  BY DEF ClaimsPromoted, JournalForward, DiskType, ArgOK, ArgLabel, WorkerLabel,
         RollingBack
<1>3. OnlyWatched'
  BY DEF OnlyWatched, OneWorks, Silent, Claims, Watches, ClaimsPromoted,
         JournalForward, DiskType, ArgOK, ArgLabel, WorkerLabel, RollingBack
<1>4. OneClaims'
  BY DEF OnlyWatched, OneWorks, OneClaims, Silent, Claims, Watches,
         ClaimsPromoted, JournalForward, DiskType, ArgOK, ArgLabel, WorkerLabel,
         RollingBack, Kinds
<1>5. OneHost' /\ NoHostDuringSwap'
  BY DEF OneHost, NoHostDuringSwap, Activating
<1>6. TicketNamesHost'
  BY DEF TicketNamesHost, OneWorks, Silent
<1> QED
  BY <1>1, <1>2, <1>3, <1>4, <1>5, <1>6

\* A step keeps the processes alone.
LEMMA AloneStep ==
  ASSUME ~Overlap, IInv, EveryLaunchRecorded', NEW p \in Proc,
         Step(p) \/ UserStep(p) \/ Crash(p)
  PROVE  Alone'
<1> USE DEF Label, HostAtWork, Preparing, Confirming, Activating, RollingBack,
            Reverting, Silent, Require, locals, slots, disk, files,
            health_vars, JournalForward, None, Swapping
<1>a. \A q \in Proc : At(q)
  BY DEF IInv
<1>b. DiskType
  BY DEF IInv, TInv
<1>1. CASE PersistPhase(p, "begin", "prepared", "apply.check")
  BY <1>1, WorkAlone, EndAlone DEF PersistPhase, SetPhase
<1>2. CASE TransitionCheck(p, "apply.check", "prepared", "apply.write")
  BY <1>2, WorkAlone, EndAlone DEF TransitionCheck
<1>3. CASE TransitionWrite(p, "apply.write", "applying", "backup")
  BY <1>3, WorkAlone, EndAlone, <1>a, <1>b
  DEF TransitionWrite, SetJournal, DiskType, At, Applying, Pending
<1>4. CASE BackUpCurrent(p)
  BY <1>4, WorkAlone, EndAlone DEF BackUpCurrent
<1>5. CASE PersistPhase(p, "backup.phase", "current-backed-up", "promote")
  BY <1>5, WorkAlone, EndAlone DEF PersistPhase, SetPhase
<1>6. CASE PromoteCandidate(p)
  BY <1>6, WorkAlone, EndAlone DEF PromoteCandidate
<1>7. CASE PersistPhase(p, "promote.phase", "candidate-promoted", "await.check")
  BY <1>7, WorkAlone, EndAlone DEF PersistPhase, SetPhase
<1>8. CASE TransitionCheck(p, "await.check", "applying", "await.write")
  BY <1>8, WorkAlone, EndAlone DEF TransitionCheck
<1>9. CASE TransitionWrite(p, "await.write", "awaiting-health-check", "await.phase")
  BY <1>9, WorkAlone, EndAlone, <1>a, <1>b
  DEF TransitionWrite, SetJournal, DiskType, At, Applying, Pending
<1>10. CASE PersistPhase(p, "await.phase", "awaiting-health-check", "issue")
  BY <1>10, WorkAlone, EndAlone DEF PersistPhase, SetPhase
<1>11. CASE TransitionCheck(p, "pend.check", "awaiting-health-check", "pend.write")
  <2>1. OneWorks'
    BY <1>11, <1>a, <1>b
    DEF TransitionCheck, IInv, TInv, LocalType, ArgOK, Alone, Goto, End,
        ArgLabel, WorkerLabel, HostLabel, Kinds, At, Claims, Watches, DiskType,
        None, Disk, Incomplete, JournalState, Terminal, OneWorks, OnlyWatched,
        OneClaims, ClaimsPromoted, OneHost, NoHostDuringSwap, TicketNamesHost
  <2>2. OnlyWatched'
    BY <1>11, <1>a, <1>b
    DEF TransitionCheck, IInv, TInv, LocalType, ArgOK, Alone, Goto, End,
        ArgLabel, WorkerLabel, HostLabel, Kinds, At, Claims, Watches, DiskType,
        None, Disk, Incomplete, JournalState, Terminal, OneWorks, OnlyWatched,
        OneClaims, ClaimsPromoted, OneHost, NoHostDuringSwap, TicketNamesHost
  <2>3. OneClaims'
    BY <1>11, <1>a, <1>b
    DEF TransitionCheck, IInv, TInv, LocalType, ArgOK, Alone, Goto, End,
        ArgLabel, WorkerLabel, HostLabel, Kinds, At, Claims, Watches, DiskType,
        None, Disk, Incomplete, JournalState, Terminal, OneWorks, OnlyWatched,
        OneClaims, ClaimsPromoted, OneHost, NoHostDuringSwap, TicketNamesHost
  <2>4. ClaimsPromoted'
    BY <1>11, <1>a, <1>b
    DEF TransitionCheck, IInv, TInv, LocalType, ArgOK, Alone, Goto, End,
        ArgLabel, WorkerLabel, HostLabel, Kinds, At, Claims, Watches, DiskType,
        None, Disk, Incomplete, JournalState, Terminal, OneWorks, OnlyWatched,
        OneClaims, ClaimsPromoted, OneHost, NoHostDuringSwap, TicketNamesHost
  <2>5. OneHost'
    BY <1>11, <1>a, <1>b
    DEF TransitionCheck, IInv, TInv, LocalType, ArgOK, Alone, Goto, End,
        ArgLabel, WorkerLabel, HostLabel, Kinds, At, Claims, Watches, DiskType,
        None, Disk, Incomplete, JournalState, Terminal, OneWorks, OnlyWatched,
        OneClaims, ClaimsPromoted, OneHost, NoHostDuringSwap, TicketNamesHost
  <2>6. NoHostDuringSwap'
    BY <1>11, <1>a, <1>b
    DEF TransitionCheck, IInv, TInv, LocalType, ArgOK, Alone, Goto, End,
        ArgLabel, WorkerLabel, HostLabel, Kinds, At, Claims, Watches, DiskType,
        None, Disk, Incomplete, JournalState, Terminal, OneWorks, OnlyWatched,
        OneClaims, ClaimsPromoted, OneHost, NoHostDuringSwap, TicketNamesHost
  <2>7. TicketNamesHost'
    BY <1>11, <1>a, <1>b
    DEF TransitionCheck, IInv, TInv, LocalType, ArgOK, Alone, Goto, End,
        ArgLabel, WorkerLabel, HostLabel, Kinds, At, Claims, Watches, DiskType,
        None, Disk, Incomplete, JournalState, Terminal, OneWorks, OnlyWatched,
        OneClaims, ClaimsPromoted, OneHost, NoHostDuringSwap, TicketNamesHost
  <2> QED
    BY <2>1, <2>2, <2>3, <2>4, <2>5, <2>6, <2>7 DEF Alone
<1>12. CASE TransitionWrite(p, "pend.write", "rollback-pending", "rollback")
  BY <1>12, WorkAlone, EndAlone, <1>a, <1>b
  DEF TransitionWrite, SetJournal, DiskType, At, Applying, Pending
<1>13. CASE BeginRollback(p)
  BY <1>13, WorkAlone, EndAlone DEF BeginRollback
<1>14. CASE QuarantineCurrent(p)
  BY <1>14, WorkAlone, EndAlone DEF QuarantineCurrent
<1>15. CASE RestorePrevious(p, "restore", "undo.check")
  BY <1>15, WorkAlone, EndAlone DEF RestorePrevious
<1>16. CASE TransitionCheck(p, "undo.check", "rollback-pending", "undo.write")
  BY <1>16, WorkAlone, EndAlone DEF TransitionCheck
<1>17. CASE Conclude(p, "undo.write", "rolled-back")
  BY <1>17, WorkAlone, EndAlone, <1>a, <1>b
  DEF Conclude, SetJournal, Finish, DiskType, At, Applying, Pending
<1>18. CASE RecoverApplying(p)
  BY <1>18, WorkAlone, EndAlone DEF RecoverApplying
<1>19. CASE AbandonCurrent(p)
  BY <1>19, WorkAlone, EndAlone DEF AbandonCurrent
<1>20. CASE RestorePrevious(p, "reinstate", "revert.check")
  BY <1>20, WorkAlone, EndAlone DEF RestorePrevious
<1>21. CASE TransitionCheck(p, "revert.check", "applying", "revert.write")
  BY <1>21, WorkAlone, EndAlone DEF TransitionCheck
<1>22. CASE TransitionWrite(p, "revert.write", "rollback-pending", "reverted.check")
  BY <1>22, WorkAlone, EndAlone, <1>a, <1>b
  DEF TransitionWrite, SetJournal, DiskType, At, Applying, Pending
<1>23. CASE TransitionCheck(p, "reverted.check", "rollback-pending", "reverted.write")
  BY <1>23, WorkAlone, EndAlone DEF TransitionCheck
<1>24. CASE Conclude(p, "reverted.write", "rolled-back")
  BY <1>24, WorkAlone, EndAlone, <1>a, <1>b
  DEF Conclude, SetJournal, Finish, DiskType, At, Applying, Pending
<1>25. CASE TransitionCheck(p, "giveup.check", "applying", "giveup.write")
  BY <1>25, WorkAlone, EndAlone DEF TransitionCheck
<1>26. CASE Conclude(p, "giveup.write", "failed")
  BY <1>26, WorkAlone, EndAlone, <1>a, <1>b
  DEF Conclude, SetJournal, Finish, DiskType, At, Applying, Pending
<1>27. CASE Boot(p)
  BY <1>27, WorkAlone, EndAlone DEF Boot
<1>28. CASE ListIncomplete(p)
  BY <1>28, WorkAlone, EndAlone DEF ListIncomplete
<1>29. CASE RecoveryDone(p)
  BY <1>29, WorkAlone, EndAlone DEF RecoveryDone
<1>30. CASE \E t \in Tx : Recover(p, t)
  <2> PICK t \in Tx : Recover(p, t)
    BY <1>30
  <2>1. CASE UNCHANGED <<pc, arg>>
    <3>1. Goto(p, "recover")
      BY <2>1 DEF Recover, Goto, IInv, TInv, LocalType
    <3> QED
      BY <2>1, <3>1, WorkAlone DEF Recover
  <2>2. CASE Goto(p, "pend.check") /\ arg' = [arg EXCEPT ![p] = t]
    <3>1. journal[t] = "awaiting-health-check" /\ arg'[p] = t
      BY <2>2 DEF Recover, Goto, IInv, TInv, LocalType
    <3> QED
      BY <2>2, <3>1, WorkAlone DEF Recover
  <2>3. CASE /\ Goto(p, "revert") \/ Goto(p, "rollback")
             /\ arg' = [arg EXCEPT ![p] = t]
    BY <2>3, WorkAlone DEF Recover
  <2> QED
    BY <2>1, <2>2, <2>3 DEF Recover
<1>31. CASE ShellReady(p)
  BY <1>31, WorkAlone, EndAlone DEF ShellReady
<1>32. CASE ShellFails(p)
  BY <1>32, WorkAlone, EndAlone DEF ShellFails
<1>33. CASE ConfirmCommit(p)
  BY <1>33, WorkAlone, EndAlone, <1>a, <1>b
  DEF ConfirmCommit, DiskType, At, Applying, Pending
<1>34. CASE ConfirmStamp(p)
  BY <1>34, WorkAlone, EndAlone DEF ConfirmStamp
<1>35. CASE \E t \in Tx : PrepareBegin(p, t)
  BY <1>35, WorkAlone, EndAlone, <1>a, <1>b
  DEF PrepareBegin, DiskType, At, Applying, Pending
<1>36. CASE PrepareDone(p)
  BY <1>36, WorkAlone, EndAlone DEF PrepareDone
<1>37. CASE PrepareAbandoned(p)
  BY <1>37, WorkAlone, EndAlone DEF PrepareAbandoned
<1>38. CASE PrepareFails(p)
  BY <1>38, WorkAlone, EndAlone DEF PrepareFails
<1>39. CASE TransitionWrite(p, "fail.write", "failed", "shell")
  BY <1>39, WorkAlone, EndAlone, <1>a, <1>b
  DEF TransitionWrite, SetJournal, DiskType, At, Applying, Pending
<1>40. CASE IssueTicket(p)
  BY <1>40, WorkAlone, EndAlone, <1>b
  DEF IssueTicket, DiskType, IInv, TInv, LocalType, ArgOK, ArgLabel,
      WorkerLabel
<1>41. CASE \E q \in Proc : StartWorker(p, q)
  <2>1. OneWorks'
    BY <1>41
    DEF StartWorker, StartProcess, Running, IInv, TInv, LocalType, Alone,
        Kinds, OneWorks
  <2>2. OnlyWatched'
    BY <1>41, <1>a, <1>b
    DEF StartWorker, StartProcess, Running, IInv, TInv, LocalType, ArgOK,
        Alone, Goto, End, ArgLabel, WorkerLabel, HostLabel, Kinds, At, Claims,
        Watches, DiskType, None, Disk, Incomplete, JournalState, Terminal,
        OneWorks, OnlyWatched, OneClaims, ClaimsPromoted, OneHost,
        NoHostDuringSwap, TicketNamesHost
  <2>3. OneClaims'
    BY <1>41, <1>a, <1>b
    DEF StartWorker, StartProcess, Running, IInv, TInv, LocalType, ArgOK,
        Alone, Goto, End, ArgLabel, WorkerLabel, HostLabel, Kinds, At, Claims,
        Watches, DiskType, None, Disk, Incomplete, JournalState, Terminal,
        OneWorks, OnlyWatched, OneClaims, ClaimsPromoted, OneHost,
        NoHostDuringSwap, TicketNamesHost
  <2>4. ClaimsPromoted'
    BY <1>41, <1>a, <1>b
    DEF StartWorker, StartProcess, Running, IInv, TInv, LocalType, ArgOK,
        Alone, Goto, End, ArgLabel, WorkerLabel, HostLabel, Kinds, At, Claims,
        Watches, DiskType, None, Disk, Incomplete, JournalState, Terminal,
        OneWorks, OnlyWatched, OneClaims, ClaimsPromoted, OneHost,
        NoHostDuringSwap, TicketNamesHost
  <2>5. OneHost'
    BY <1>41, <1>a, <1>b
    DEF StartWorker, StartProcess, Running, IInv, TInv, LocalType, ArgOK,
        Alone, Goto, End, ArgLabel, WorkerLabel, HostLabel, Kinds, At, Claims,
        Watches, DiskType, None, Disk, Incomplete, JournalState, Terminal,
        OneWorks, OnlyWatched, OneClaims, ClaimsPromoted, OneHost,
        NoHostDuringSwap, TicketNamesHost
  <2>6. NoHostDuringSwap'
    BY <1>41, <1>a, <1>b
    DEF StartWorker, StartProcess, Running, IInv, TInv, LocalType, ArgOK,
        Alone, Goto, End, ArgLabel, WorkerLabel, HostLabel, Kinds, At, Claims,
        Watches, DiskType, None, Disk, Incomplete, JournalState, Terminal,
        OneWorks, OnlyWatched, OneClaims, ClaimsPromoted, OneHost,
        NoHostDuringSwap, TicketNamesHost
  <2>7. TicketNamesHost'
    BY <1>41, <1>a, <1>b
    DEF StartWorker, StartProcess, Running, IInv, TInv, LocalType, ArgOK,
        Alone, Goto, End, ArgLabel, WorkerLabel, HostLabel, Kinds, At, Claims,
        Watches, DiskType, None, Disk, Incomplete, JournalState, Terminal,
        OneWorks, OnlyWatched, OneClaims, ClaimsPromoted, OneHost,
        NoHostDuringSwap, TicketNamesHost
  <2> QED
    BY <2>1, <2>2, <2>3, <2>4, <2>5, <2>6, <2>7 DEF Alone
<1>42. CASE StartWorkerFails(p)
  BY <1>42, WorkAlone, EndAlone DEF StartWorkerFails
<1>43. CASE VerifyTicket(p)
  BY <1>43, WorkAlone, EndAlone DEF VerifyTicket
<1>44. CASE ConsumeTicket(p)
  BY <1>44, WorkAlone, EndAlone
  DEF ConsumeTicket, Running, IInv, Alone, TicketNamesHost, Kinds
<1>45. CASE WaitTimesOut(p)
  BY <1>45, WorkAlone, EndAlone DEF WaitTimesOut
<1>46. CASE BeginActivation(p)
  BY <1>46, WorkAlone, EndAlone DEF BeginActivation
<1>47. CASE IssueHealth(p)
  BY <1>47, WorkAlone, EndAlone DEF IssueHealth
<1>48. CASE WriteHealth(p)
  BY <1>48, WorkAlone, EndAlone DEF WriteHealth
<1>49. CASE IssueHealthFails(p)
  BY <1>49, WorkAlone, EndAlone DEF IssueHealthFails, Answer
<1>50. CASE \E q \in Proc : LaunchCandidate(p, q)
  <2>1. OneWorks'
    BY <1>50
    DEF LaunchCandidate, StartProcess, Running, LaunchAllowed, IInv, TInv,
        LocalType, Alone, OneWorks
  <2>2. OnlyWatched'
    <3> PICK q \in Proc : LaunchCandidate(p, q)
      BY <1>50
    <3>1. \A r \in Proc : Claims(r) => arg[r] \in Tx
      BY DEF Claims, IInv, TInv, LocalType, ArgOK, ArgLabel, WorkerLabel
    <3>2. \A r \in Proc : r # p => ~Claims(r)
      BY <3>1, ConstantsAssumption
      DEF LaunchCandidate, IInv, Alone, OnlyWatched, Watches, Kinds, WorkerLabel
    <3>3. \A r \in Proc : Claims(r)' => r = p
      BY <3>2 DEF LaunchCandidate, StartProcess, Claims, Running, IInv, TInv, LocalType
    <3>4. Watches(p, q)'
      BY DEF LaunchCandidate, StartProcess, Watches, Running, IInv, TInv, LocalType
    <3>5. \A r \in Proc : r \notin {p, q} => pc'[r] \in Silent
      BY DEF LaunchCandidate, IInv, TInv, LocalType, Alone, OneWorks
    <3> QED
      BY <3>3, <3>4, <3>5 DEF OnlyWatched
  <2>3. OneClaims'
    BY <1>50, <1>a, <1>b
    DEF LaunchCandidate, StartProcess, Running, LaunchAllowed, IInv, TInv,
        LocalType, ArgOK, Alone, Goto, End, ArgLabel, WorkerLabel, HostLabel,
        Kinds, At, Claims, Watches, DiskType, None, Disk, Incomplete,
        JournalState, Terminal, OneWorks, OnlyWatched, OneClaims,
        ClaimsPromoted, OneHost, NoHostDuringSwap, TicketNamesHost
  <2>4. ClaimsPromoted'
    BY <1>50, <1>a, <1>b
    DEF LaunchCandidate, StartProcess, Running, LaunchAllowed, IInv, TInv,
        LocalType, ArgOK, Alone, Goto, End, ArgLabel, WorkerLabel, HostLabel,
        Kinds, At, Claims, Watches, DiskType, None, Disk, Incomplete,
        JournalState, Terminal, OneWorks, OnlyWatched, OneClaims,
        ClaimsPromoted, OneHost, NoHostDuringSwap, TicketNamesHost
  <2>5. OneHost'
    BY <1>50, <1>a, <1>b
    DEF LaunchCandidate, StartProcess, Running, LaunchAllowed, IInv, TInv,
        LocalType, ArgOK, Alone, Goto, End, ArgLabel, WorkerLabel, HostLabel,
        Kinds, At, Claims, Watches, DiskType, None, Disk, Incomplete,
        JournalState, Terminal, OneWorks, OnlyWatched, OneClaims,
        ClaimsPromoted, OneHost, NoHostDuringSwap, TicketNamesHost
  <2>6. NoHostDuringSwap'
    BY <1>50
    DEF LaunchCandidate, StartProcess, Running, LaunchAllowed, IInv, TInv,
        LocalType, Alone, OneWorks, NoHostDuringSwap
  <2>7. TicketNamesHost'
    BY <1>50
    DEF LaunchCandidate, StartProcess, Running, LaunchAllowed, IInv, TInv,
        LocalType, Alone, OneWorks, TicketNamesHost
  <2> QED
    BY <2>1, <2>2, <2>3, <2>4, <2>5, <2>6, <2>7 DEF Alone
<1>51. CASE LaunchFails(p)
  BY <1>51, WorkAlone, EndAlone DEF LaunchFails, Answer
<1>52. CASE RecordLaunch(p)
  <2>1. OneWorks'
    BY <1>52, <1>a, <1>b
    DEF RecordLaunch, IInv, TInv, LocalType, ArgOK, Alone, Goto, End, ArgLabel,
        WorkerLabel, HostLabel, Kinds, At, Claims, Watches, DiskType, None,
        Disk, Incomplete, JournalState, Terminal, OneWorks, OnlyWatched,
        OneClaims, ClaimsPromoted, OneHost, NoHostDuringSwap, TicketNamesHost
  <2>2. OnlyWatched'
    BY <1>52, <1>a, <1>b
    DEF RecordLaunch, IInv, TInv, LocalType, ArgOK, Alone, Goto, End, ArgLabel,
        WorkerLabel, HostLabel, Kinds, At, Claims, Watches, DiskType, None,
        Disk, Incomplete, JournalState, Terminal, OneWorks, OnlyWatched,
        OneClaims, ClaimsPromoted, OneHost, NoHostDuringSwap, TicketNamesHost
  <2>3. OneClaims'
    BY <1>52, <1>a, <1>b
    DEF RecordLaunch, IInv, TInv, LocalType, ArgOK, Alone, Goto, End, ArgLabel,
        WorkerLabel, HostLabel, Kinds, At, Claims, Watches, DiskType, None,
        Disk, Incomplete, JournalState, Terminal, OneWorks, OnlyWatched,
        OneClaims, ClaimsPromoted, OneHost, NoHostDuringSwap, TicketNamesHost
  <2>4. ClaimsPromoted'
    BY <1>52, <1>a, <1>b
    DEF RecordLaunch, IInv, TInv, LocalType, ArgOK, Alone, Goto, End, ArgLabel,
        WorkerLabel, HostLabel, Kinds, At, Claims, Watches, DiskType, None,
        Disk, Incomplete, JournalState, Terminal, OneWorks, OnlyWatched,
        OneClaims, ClaimsPromoted, OneHost, NoHostDuringSwap, TicketNamesHost
  <2>5. OneHost'
    BY <1>52, <1>a, <1>b
    DEF RecordLaunch, IInv, TInv, LocalType, ArgOK, Alone, Goto, End, ArgLabel,
        WorkerLabel, HostLabel, Kinds, At, Claims, Watches, DiskType, None,
        Disk, Incomplete, JournalState, Terminal, OneWorks, OnlyWatched,
        OneClaims, ClaimsPromoted, OneHost, NoHostDuringSwap, TicketNamesHost
  <2>6. NoHostDuringSwap'
    BY <1>52, <1>a, <1>b
    DEF RecordLaunch, IInv, TInv, LocalType, ArgOK, Alone, Goto, End, ArgLabel,
        WorkerLabel, HostLabel, Kinds, At, Claims, Watches, DiskType, None,
        Disk, Incomplete, JournalState, Terminal, OneWorks, OnlyWatched,
        OneClaims, ClaimsPromoted, OneHost, NoHostDuringSwap, TicketNamesHost
  <2>7. TicketNamesHost'
    BY <1>52, <1>a, <1>b
    DEF RecordLaunch, IInv, TInv, LocalType, ArgOK, Alone, Goto, End, ArgLabel,
        WorkerLabel, HostLabel, Kinds, At, Claims, Watches, DiskType, None,
        Disk, Incomplete, JournalState, Terminal, OneWorks, OnlyWatched,
        OneClaims, ClaimsPromoted, OneHost, NoHostDuringSwap, TicketNamesHost
  <2> QED
    BY <2>1, <2>2, <2>3, <2>4, <2>5, <2>6, <2>7 DEF Alone
<1>53. CASE RecordLaunchFails(p)
  BY <1>53, FailureIsRemembered DEF IInv
<1>54. CASE ProbeEarlyExit(p)
  <2>1. OneWorks'
    BY <1>54, <1>a, <1>b
    DEF ProbeEarlyExit, CandidateRuns, Running, IInv, TInv, LocalType, ArgOK,
        Alone, Goto, End, ArgLabel, WorkerLabel, HostLabel, Kinds, At, Claims,
        Watches, DiskType, None, Disk, Incomplete, JournalState, Terminal,
        OneWorks, OnlyWatched, OneClaims, ClaimsPromoted, OneHost,
        NoHostDuringSwap, TicketNamesHost
  <2>2. OnlyWatched'
    BY <1>54, <1>a, <1>b
    DEF ProbeEarlyExit, CandidateRuns, Running, IInv, TInv, LocalType, ArgOK,
        Alone, Goto, End, ArgLabel, WorkerLabel, HostLabel, Kinds, At, Claims,
        Watches, DiskType, None, Disk, Incomplete, JournalState, Terminal,
        OneWorks, OnlyWatched, OneClaims, ClaimsPromoted, OneHost,
        NoHostDuringSwap, TicketNamesHost
  <2>3. OneClaims'
    BY <1>54, <1>a, <1>b
    DEF ProbeEarlyExit, CandidateRuns, Running, IInv, TInv, LocalType, ArgOK,
        Alone, Goto, End, ArgLabel, WorkerLabel, HostLabel, Kinds, At, Claims,
        Watches, DiskType, None, Disk, Incomplete, JournalState, Terminal,
        OneWorks, OnlyWatched, OneClaims, ClaimsPromoted, OneHost,
        NoHostDuringSwap, TicketNamesHost
  <2>4. ClaimsPromoted'
    BY <1>54, <1>a, <1>b
    DEF ProbeEarlyExit, CandidateRuns, Running, IInv, TInv, LocalType, ArgOK,
        Alone, Goto, End, ArgLabel, WorkerLabel, HostLabel, Kinds, At, Claims,
        Watches, DiskType, None, Disk, Incomplete, JournalState, Terminal,
        OneWorks, OnlyWatched, OneClaims, ClaimsPromoted, OneHost,
        NoHostDuringSwap, TicketNamesHost
  <2>5. OneHost'
    BY <1>54, <1>a, <1>b
    DEF ProbeEarlyExit, CandidateRuns, Running, IInv, TInv, LocalType, ArgOK,
        Alone, Goto, End, ArgLabel, WorkerLabel, HostLabel, Kinds, At, Claims,
        Watches, DiskType, None, Disk, Incomplete, JournalState, Terminal,
        OneWorks, OnlyWatched, OneClaims, ClaimsPromoted, OneHost,
        NoHostDuringSwap, TicketNamesHost
  <2>6. NoHostDuringSwap'
    BY <1>54, <1>a, <1>b
    DEF ProbeEarlyExit, CandidateRuns, Running, IInv, TInv, LocalType, ArgOK,
        Alone, Goto, End, ArgLabel, WorkerLabel, HostLabel, Kinds, At, Claims,
        Watches, DiskType, None, Disk, Incomplete, JournalState, Terminal,
        OneWorks, OnlyWatched, OneClaims, ClaimsPromoted, OneHost,
        NoHostDuringSwap, TicketNamesHost
  <2>7. TicketNamesHost'
    BY <1>54, <1>a, <1>b
    DEF ProbeEarlyExit, CandidateRuns, Running, IInv, TInv, LocalType, ArgOK,
        Alone, Goto, End, ArgLabel, WorkerLabel, HostLabel, Kinds, At, Claims,
        Watches, DiskType, None, Disk, Incomplete, JournalState, Terminal,
        OneWorks, OnlyWatched, OneClaims, ClaimsPromoted, OneHost,
        NoHostDuringSwap, TicketNamesHost
  <2> QED
    BY <2>1, <2>2, <2>3, <2>4, <2>5, <2>6, <2>7 DEF Alone
<1>55. CASE ProbePassed(p)
  BY <1>55, WorkAlone, EndAlone DEF ProbePassed
<1>56. CASE StartHost(p)
  <2>1. OneWorks'
    BY <1>56, <1>a, <1>b
    DEF StartHost, StartProcess, Running, IInv, TInv, LocalType, ArgOK, Alone,
        Goto, End, ArgLabel, WorkerLabel, HostLabel, Kinds, At, Claims,
        Watches, DiskType, None, Disk, Incomplete, JournalState, Terminal,
        OneWorks, OnlyWatched, OneClaims, ClaimsPromoted, OneHost,
        NoHostDuringSwap, TicketNamesHost
  <2>2. OnlyWatched'
    BY <1>56, <1>a, <1>b
    DEF StartHost, StartProcess, Running, IInv, TInv, LocalType, ArgOK, Alone,
        Goto, End, ArgLabel, WorkerLabel, HostLabel, Kinds, At, Claims,
        Watches, DiskType, None, Disk, Incomplete, JournalState, Terminal,
        OneWorks, OnlyWatched, OneClaims, ClaimsPromoted, OneHost,
        NoHostDuringSwap, TicketNamesHost
  <2>3. OneClaims'
    BY <1>56, <1>a, <1>b
    DEF StartHost, StartProcess, Running, IInv, TInv, LocalType, ArgOK, Alone,
        Goto, End, ArgLabel, WorkerLabel, HostLabel, Kinds, At, Claims,
        Watches, DiskType, None, Disk, Incomplete, JournalState, Terminal,
        OneWorks, OnlyWatched, OneClaims, ClaimsPromoted, OneHost,
        NoHostDuringSwap, TicketNamesHost
  <2>4. ClaimsPromoted'
    BY <1>56, <1>a, <1>b
    DEF StartHost, StartProcess, Running, IInv, TInv, LocalType, ArgOK, Alone,
        Goto, End, ArgLabel, WorkerLabel, HostLabel, Kinds, At, Claims,
        Watches, DiskType, None, Disk, Incomplete, JournalState, Terminal,
        OneWorks, OnlyWatched, OneClaims, ClaimsPromoted, OneHost,
        NoHostDuringSwap, TicketNamesHost
  <2>5. OneHost'
    BY <1>56, <1>a, <1>b
    DEF StartHost, StartProcess, Running, IInv, TInv, LocalType, ArgOK, Alone,
        Goto, End, ArgLabel, WorkerLabel, HostLabel, Kinds, At, Claims,
        Watches, DiskType, None, Disk, Incomplete, JournalState, Terminal,
        OneWorks, OnlyWatched, OneClaims, ClaimsPromoted, OneHost,
        NoHostDuringSwap, TicketNamesHost
  <2>6. NoHostDuringSwap'
    BY <1>56, <1>a, <1>b
    DEF StartHost, StartProcess, Running, IInv, TInv, LocalType, ArgOK, Alone,
        Goto, End, ArgLabel, WorkerLabel, HostLabel, Kinds, At, Claims,
        Watches, DiskType, None, Disk, Incomplete, JournalState, Terminal,
        OneWorks, OnlyWatched, OneClaims, ClaimsPromoted, OneHost,
        NoHostDuringSwap, TicketNamesHost
  <2>7. TicketNamesHost'
    BY <1>56, <1>a, <1>b
    DEF StartHost, StartProcess, Running, IInv, TInv, LocalType, ArgOK, Alone,
        Goto, End, ArgLabel, WorkerLabel, HostLabel, Kinds, At, Claims,
        Watches, DiskType, None, Disk, Incomplete, JournalState, Terminal,
        OneWorks, OnlyWatched, OneClaims, ClaimsPromoted, OneHost,
        NoHostDuringSwap, TicketNamesHost
  <2> QED
    BY <2>1, <2>2, <2>3, <2>4, <2>5, <2>6, <2>7 DEF Alone
<1>57. CASE HostExit(p)
  BY <1>57, WorkAlone, EndAlone DEF HostExit
<1>58. CASE PrepareStart(p)
  BY <1>58, WorkAlone, EndAlone DEF PrepareStart
<1>59. CASE \E t \in Tx : RequestRestart(p, t)
  BY <1>59, WorkAlone, EndAlone DEF RequestRestart
<1>60. CASE \E t \in Tx : StartRecoverCommand(p, t)
  <2>1. OneWorks'
    BY <1>60, <1>a, <1>b
    DEF StartRecoverCommand, Running, IInv, TInv, LocalType, ArgOK, Alone,
        Goto, End, ArgLabel, WorkerLabel, HostLabel, Kinds, At, Claims,
        Watches, DiskType, None, Disk, Incomplete, JournalState, Terminal,
        OneWorks, OnlyWatched, OneClaims, ClaimsPromoted, OneHost,
        NoHostDuringSwap, TicketNamesHost
  <2>2. OnlyWatched'
    BY <1>60, <1>a, <1>b
    DEF StartRecoverCommand, Running, IInv, TInv, LocalType, ArgOK, Alone,
        Goto, End, ArgLabel, WorkerLabel, HostLabel, Kinds, At, Claims,
        Watches, DiskType, None, Disk, Incomplete, JournalState, Terminal,
        OneWorks, OnlyWatched, OneClaims, ClaimsPromoted, OneHost,
        NoHostDuringSwap, TicketNamesHost
  <2>3. OneClaims'
    BY <1>60, <1>a, <1>b
    DEF StartRecoverCommand, Running, IInv, TInv, LocalType, ArgOK, Alone,
        Goto, End, ArgLabel, WorkerLabel, HostLabel, Kinds, At, Claims,
        Watches, DiskType, None, Disk, Incomplete, JournalState, Terminal,
        OneWorks, OnlyWatched, OneClaims, ClaimsPromoted, OneHost,
        NoHostDuringSwap, TicketNamesHost
  <2>4. ClaimsPromoted'
    BY <1>60, <1>a, <1>b
    DEF StartRecoverCommand, Running, IInv, TInv, LocalType, ArgOK, Alone,
        Goto, End, ArgLabel, WorkerLabel, HostLabel, Kinds, At, Claims,
        Watches, DiskType, None, Disk, Incomplete, JournalState, Terminal,
        OneWorks, OnlyWatched, OneClaims, ClaimsPromoted, OneHost,
        NoHostDuringSwap, TicketNamesHost
  <2>5. OneHost'
    BY <1>60, <1>a, <1>b
    DEF StartRecoverCommand, Running, IInv, TInv, LocalType, ArgOK, Alone,
        Goto, End, ArgLabel, WorkerLabel, HostLabel, Kinds, At, Claims,
        Watches, DiskType, None, Disk, Incomplete, JournalState, Terminal,
        OneWorks, OnlyWatched, OneClaims, ClaimsPromoted, OneHost,
        NoHostDuringSwap, TicketNamesHost
  <2>6. NoHostDuringSwap'
    BY <1>60, <1>a, <1>b
    DEF StartRecoverCommand, Running, IInv, TInv, LocalType, ArgOK, Alone,
        Goto, End, ArgLabel, WorkerLabel, HostLabel, Kinds, At, Claims,
        Watches, DiskType, None, Disk, Incomplete, JournalState, Terminal,
        OneWorks, OnlyWatched, OneClaims, ClaimsPromoted, OneHost,
        NoHostDuringSwap, TicketNamesHost
  <2>7. TicketNamesHost'
    BY <1>60, <1>a, <1>b
    DEF StartRecoverCommand, Running, IInv, TInv, LocalType, ArgOK, Alone,
        Goto, End, ArgLabel, WorkerLabel, HostLabel, Kinds, At, Claims,
        Watches, DiskType, None, Disk, Incomplete, JournalState, Terminal,
        OneWorks, OnlyWatched, OneClaims, ClaimsPromoted, OneHost,
        NoHostDuringSwap, TicketNamesHost
  <2> QED
    BY <2>1, <2>2, <2>3, <2>4, <2>5, <2>6, <2>7 DEF Alone
<1>61. CASE Crash(p)
  BY <1>61, WorkAlone, EndAlone DEF Crash
<1> QED
  BY <1>1, <1>2, <1>3, <1>4, <1>5, <1>6, <1>7, <1>8, <1>9, <1>10, <1>11, <1>12,
     <1>13, <1>14, <1>15, <1>16, <1>17, <1>18, <1>19, <1>20, <1>21, <1>22,
     <1>23, <1>24, <1>25, <1>26, <1>27, <1>28, <1>29, <1>30, <1>31, <1>32,
     <1>33, <1>34, <1>35, <1>36, <1>37, <1>38, <1>39, <1>40, <1>41, <1>42,
     <1>43, <1>44, <1>45, <1>46, <1>47, <1>48, <1>49, <1>50, <1>51, <1>52,
     <1>53, <1>54, <1>55, <1>56, <1>57, <1>58, <1>59, <1>60, <1>61
  DEF Step, UserStep, Activate, Rollback, Revert

-------------------------------------------------------------------------------
(* What the disk holds.                                                      *)

\* A step keeps what the slots hold in line with the journal.
LEMMA DiskStep ==
  ASSUME ~Overlap, IInv, TInv', EveryLaunchRecorded', NEW p \in Proc,
         Step(p) \/ UserStep(p) \/ Crash(p)
  PROVE  Disk'
<1> USE DEF Require, slots, disk, files, health_vars, Preparing
<1>a. DiskType /\ Disk
  BY DEF IInv, TInv
<1>b. At(p)
  BY DEF IInv
<1>c. /\ pc[p] \in ArgLabel => arg[p] \in Tx
      /\ pc[p] \in Confirming => cred[p] \in Tx
  BY DEF IInv, TInv, LocalType, ArgOK, Kinds
<1> USE DEF ArgLabel, Confirming, WorkerLabel, Activating, RollingBack, Reverting
<1>1. CASE PersistPhase(p, "begin", "prepared", "apply.check")
  BY <1>1, <1>a, <1>b, <1>c, ConstantsAssumption
  DEF PersistPhase, SetPhase, At, Disk, DiskOf, DiskType, Applying, Pending,
      Untouched, BackedUp, Promoted, Good, Incomplete, Terminal, InFlight,
      Undone, JournalState, None
<1>2. CASE TransitionCheck(p, "apply.check", "prepared", "apply.write")
  BY <1>2, <1>a, <1>b, <1>c, ConstantsAssumption
  DEF TransitionCheck, At, Disk, DiskOf, DiskType, Applying, Pending,
      Untouched, BackedUp, Promoted, Good, Incomplete, Terminal, InFlight,
      Undone, JournalState, None
<1>3. CASE TransitionWrite(p, "apply.write", "applying", "backup")
  BY <1>3, <1>a, <1>b, <1>c, ConstantsAssumption
  DEF TransitionWrite, SetJournal, At, Disk, DiskOf, DiskType, Applying,
      Pending, Untouched, BackedUp, Promoted, Good, Incomplete, Terminal,
      InFlight, Undone, JournalState, None
<1>4. CASE BackUpCurrent(p)
  BY <1>4, <1>a, <1>b, <1>c, ConstantsAssumption
  DEF BackUpCurrent, At, Disk, DiskOf, DiskType, Applying, Pending, Untouched,
      BackedUp, Promoted, Good, Incomplete, Terminal, InFlight, Undone,
      JournalState, None
<1>5. CASE PersistPhase(p, "backup.phase", "current-backed-up", "promote")
  BY <1>5, <1>a, <1>b, <1>c, ConstantsAssumption
  DEF PersistPhase, SetPhase, At, Disk, DiskOf, DiskType, Applying, Pending,
      Untouched, BackedUp, Promoted, Good, Incomplete, Terminal, InFlight,
      Undone, JournalState, None
<1>6. CASE PromoteCandidate(p)
  BY <1>6, <1>a, <1>b, <1>c, ConstantsAssumption
  DEF PromoteCandidate, At, Disk, DiskOf, DiskType, Applying, Pending,
      Untouched, BackedUp, Promoted, Good, Incomplete, Terminal, InFlight,
      Undone, JournalState, None
<1>7. CASE PersistPhase(p, "promote.phase", "candidate-promoted", "await.check")
  BY <1>7, <1>a, <1>b, <1>c, ConstantsAssumption
  DEF PersistPhase, SetPhase, At, Disk, DiskOf, DiskType, Applying, Pending,
      Untouched, BackedUp, Promoted, Good, Incomplete, Terminal, InFlight,
      Undone, JournalState, None
<1>8. CASE TransitionCheck(p, "await.check", "applying", "await.write")
  BY <1>8, <1>a, <1>b, <1>c, ConstantsAssumption
  DEF TransitionCheck, At, Disk, DiskOf, DiskType, Applying, Pending,
      Untouched, BackedUp, Promoted, Good, Incomplete, Terminal, InFlight,
      Undone, JournalState, None
<1>9. CASE TransitionWrite(p, "await.write", "awaiting-health-check", "await.phase")
  BY <1>9, <1>a, <1>b, <1>c, ConstantsAssumption
  DEF TransitionWrite, SetJournal, At, Disk, DiskOf, DiskType, Applying,
      Pending, Untouched, BackedUp, Promoted, Good, Incomplete, Terminal,
      InFlight, Undone, JournalState, None
<1>10. CASE PersistPhase(p, "await.phase", "awaiting-health-check", "issue")
  BY <1>10, <1>a, <1>b, <1>c, ConstantsAssumption
  DEF PersistPhase, SetPhase, At, Disk, DiskOf, DiskType, Applying, Pending,
      Untouched, BackedUp, Promoted, Good, Incomplete, Terminal, InFlight,
      Undone, JournalState, None
<1>11. CASE TransitionCheck(p, "pend.check", "awaiting-health-check", "pend.write")
  BY <1>11, <1>a, <1>b, <1>c, ConstantsAssumption
  DEF TransitionCheck, At, Disk, DiskOf, DiskType, Applying, Pending,
      Untouched, BackedUp, Promoted, Good, Incomplete, Terminal, InFlight,
      Undone, JournalState, None
<1>12. CASE TransitionWrite(p, "pend.write", "rollback-pending", "rollback")
  BY <1>12, <1>a, <1>b, <1>c, ConstantsAssumption
  DEF TransitionWrite, SetJournal, At, Disk, DiskOf, DiskType, Applying,
      Pending, Untouched, BackedUp, Promoted, Good, Incomplete, Terminal,
      InFlight, Undone, JournalState, None
<1>13. CASE BeginRollback(p)
  BY <1>13, <1>a, <1>b, <1>c, ConstantsAssumption
  DEF BeginRollback, At, Disk, DiskOf, DiskType, Applying, Pending, Untouched,
      BackedUp, Promoted, Good, Incomplete, Terminal, InFlight, Undone,
      JournalState, None
<1>14. CASE QuarantineCurrent(p)
  BY <1>14, <1>a, <1>b, <1>c, ConstantsAssumption
  DEF QuarantineCurrent, At, Disk, DiskOf, DiskType, Applying, Pending,
      Untouched, BackedUp, Promoted, Good, Incomplete, Terminal, InFlight,
      Undone, JournalState, None
<1>15. CASE RestorePrevious(p, "restore", "undo.check")
  BY <1>15, <1>a, <1>b, <1>c, ConstantsAssumption
  DEF RestorePrevious, At, Disk, DiskOf, DiskType, Applying, Pending,
      Untouched, BackedUp, Promoted, Good, Incomplete, Terminal, InFlight,
      Undone, JournalState, None
<1>16. CASE TransitionCheck(p, "undo.check", "rollback-pending", "undo.write")
  BY <1>16, <1>a, <1>b, <1>c, ConstantsAssumption
  DEF TransitionCheck, At, Disk, DiskOf, DiskType, Applying, Pending,
      Untouched, BackedUp, Promoted, Good, Incomplete, Terminal, InFlight,
      Undone, JournalState, None
<1>17. CASE Conclude(p, "undo.write", "rolled-back")
  BY <1>17, <1>a, <1>b, <1>c, ConstantsAssumption
  DEF Conclude, SetJournal, Finish, At, Disk, DiskOf, DiskType, Applying,
      Pending, Untouched, BackedUp, Promoted, Good, Incomplete, Terminal,
      InFlight, Undone, JournalState, None
<1>18. CASE RecoverApplying(p)
  BY <1>18, <1>a, <1>b, <1>c, ConstantsAssumption
  DEF RecoverApplying, At, Disk, DiskOf, DiskType, Applying, Pending,
      Untouched, BackedUp, Promoted, Good, Incomplete, Terminal, InFlight,
      Undone, JournalState, None
<1>19. CASE AbandonCurrent(p)
  BY <1>19, <1>a, <1>b, <1>c, ConstantsAssumption
  DEF AbandonCurrent, At, Disk, DiskOf, DiskType, Applying, Pending, Untouched,
      BackedUp, Promoted, Good, Incomplete, Terminal, InFlight, Undone,
      JournalState, None
<1>20. CASE RestorePrevious(p, "reinstate", "revert.check")
  BY <1>20, <1>a, <1>b, <1>c, ConstantsAssumption
  DEF RestorePrevious, At, Disk, DiskOf, DiskType, Applying, Pending,
      Untouched, BackedUp, Promoted, Good, Incomplete, Terminal, InFlight,
      Undone, JournalState, None
<1>21. CASE TransitionCheck(p, "revert.check", "applying", "revert.write")
  BY <1>21, <1>a, <1>b, <1>c, ConstantsAssumption
  DEF TransitionCheck, At, Disk, DiskOf, DiskType, Applying, Pending,
      Untouched, BackedUp, Promoted, Good, Incomplete, Terminal, InFlight,
      Undone, JournalState, None
<1>22. CASE TransitionWrite(p, "revert.write", "rollback-pending", "reverted.check")
  BY <1>22, <1>a, <1>b, <1>c, ConstantsAssumption
  DEF TransitionWrite, SetJournal, At, Disk, DiskOf, DiskType, Applying,
      Pending, Untouched, BackedUp, Promoted, Good, Incomplete, Terminal,
      InFlight, Undone, JournalState, None
<1>23. CASE TransitionCheck(p, "reverted.check", "rollback-pending", "reverted.write")
  BY <1>23, <1>a, <1>b, <1>c, ConstantsAssumption
  DEF TransitionCheck, At, Disk, DiskOf, DiskType, Applying, Pending,
      Untouched, BackedUp, Promoted, Good, Incomplete, Terminal, InFlight,
      Undone, JournalState, None
<1>24. CASE Conclude(p, "reverted.write", "rolled-back")
  BY <1>24, <1>a, <1>b, <1>c, ConstantsAssumption
  DEF Conclude, SetJournal, Finish, At, Disk, DiskOf, DiskType, Applying,
      Pending, Untouched, BackedUp, Promoted, Good, Incomplete, Terminal,
      InFlight, Undone, JournalState, None
<1>25. CASE TransitionCheck(p, "giveup.check", "applying", "giveup.write")
  BY <1>25, <1>a, <1>b, <1>c, ConstantsAssumption
  DEF TransitionCheck, At, Disk, DiskOf, DiskType, Applying, Pending,
      Untouched, BackedUp, Promoted, Good, Incomplete, Terminal, InFlight,
      Undone, JournalState, None
<1>26. CASE Conclude(p, "giveup.write", "failed")
  BY <1>26, <1>a, <1>b, <1>c, ConstantsAssumption
  DEF Conclude, SetJournal, Finish, At, Disk, DiskOf, DiskType, Applying,
      Pending, Untouched, BackedUp, Promoted, Good, Incomplete, Terminal,
      InFlight, Undone, JournalState, None
<1>27. CASE Boot(p)
  BY <1>27, <1>a, <1>b, <1>c, ConstantsAssumption
  DEF Boot, At, Disk, DiskOf, DiskType, Applying, Pending, Untouched, BackedUp,
      Promoted, Good, Incomplete, Terminal, InFlight, Undone, JournalState,
      None
<1>28. CASE ListIncomplete(p)
  BY <1>28, <1>a, <1>b, <1>c, ConstantsAssumption
  DEF ListIncomplete, At, Disk, DiskOf, DiskType, Applying, Pending, Untouched,
      BackedUp, Promoted, Good, Incomplete, Terminal, InFlight, Undone,
      JournalState, None
<1>29. CASE RecoveryDone(p)
  BY <1>29, <1>a, <1>b, <1>c, ConstantsAssumption
  DEF RecoveryDone, At, Disk, DiskOf, DiskType, Applying, Pending, Untouched,
      BackedUp, Promoted, Good, Incomplete, Terminal, InFlight, Undone,
      JournalState, None
<1>30. CASE \E t \in Tx : Recover(p, t)
  BY <1>30, <1>a, <1>b, <1>c, ConstantsAssumption
  DEF Recover, At, Disk, DiskOf, DiskType, Applying, Pending, Untouched,
      BackedUp, Promoted, Good, Incomplete, Terminal, InFlight, Undone,
      JournalState, None
<1>31. CASE ShellReady(p)
  BY <1>31, <1>a, <1>b, <1>c, ConstantsAssumption
  DEF ShellReady, At, Disk, DiskOf, DiskType, Applying, Pending, Untouched,
      BackedUp, Promoted, Good, Incomplete, Terminal, InFlight, Undone,
      JournalState, None
<1>32. CASE ShellFails(p)
  BY <1>32, <1>a, <1>b, <1>c, ConstantsAssumption
  DEF ShellFails, At, Disk, DiskOf, DiskType, Applying, Pending, Untouched,
      BackedUp, Promoted, Good, Incomplete, Terminal, InFlight, Undone,
      JournalState, None
<1>33. CASE ConfirmCommit(p)
  BY <1>33, <1>a, <1>b, <1>c, ConstantsAssumption
  DEF ConfirmCommit, At, Disk, DiskOf, DiskType, Applying, Pending, Untouched,
      BackedUp, Promoted, Good, Incomplete, Terminal, InFlight, Undone,
      JournalState, None
<1>34. CASE ConfirmStamp(p)
  BY <1>34, <1>a, <1>b, <1>c, ConstantsAssumption
  DEF ConfirmStamp, At, Disk, DiskOf, DiskType, Applying, Pending, Untouched,
      BackedUp, Promoted, Good, Incomplete, Terminal, InFlight, Undone,
      JournalState, None
<1>35. CASE \E t \in Tx : PrepareBegin(p, t)
  BY <1>35, <1>a, <1>b, <1>c, ConstantsAssumption
  DEF PrepareBegin, At, Disk, DiskOf, DiskType, Applying, Pending, Untouched,
      BackedUp, Promoted, Good, Incomplete, Terminal, InFlight, Undone,
      JournalState, None
<1>36. CASE PrepareDone(p)
  BY <1>36, <1>a, <1>b, <1>c, ConstantsAssumption
  DEF PrepareDone, At, Disk, DiskOf, DiskType, Applying, Pending, Untouched,
      BackedUp, Promoted, Good, Incomplete, Terminal, InFlight, Undone,
      JournalState, None
<1>37. CASE PrepareAbandoned(p)
  BY <1>37, <1>a, <1>b, <1>c, ConstantsAssumption
  DEF PrepareAbandoned, At, Disk, DiskOf, DiskType, Applying, Pending,
      Untouched, BackedUp, Promoted, Good, Incomplete, Terminal, InFlight,
      Undone, JournalState, None
<1>38. CASE PrepareFails(p)
  BY <1>38, <1>a, <1>b, <1>c, ConstantsAssumption
  DEF PrepareFails, At, Disk, DiskOf, DiskType, Applying, Pending, Untouched,
      BackedUp, Promoted, Good, Incomplete, Terminal, InFlight, Undone,
      JournalState, None
<1>39. CASE TransitionWrite(p, "fail.write", "failed", "shell")
  BY <1>39, <1>a, <1>b, <1>c, ConstantsAssumption
  DEF TransitionWrite, SetJournal, At, Disk, DiskOf, DiskType, Applying,
      Pending, Untouched, BackedUp, Promoted, Good, Incomplete, Terminal,
      InFlight, Undone, JournalState, None
<1>40. CASE IssueTicket(p)
  BY <1>40, <1>a, <1>b, <1>c, ConstantsAssumption
  DEF IssueTicket, At, Disk, DiskOf, DiskType, Applying, Pending, Untouched,
      BackedUp, Promoted, Good, Incomplete, Terminal, InFlight, Undone,
      JournalState, None
<1>41. CASE \E q \in Proc : StartWorker(p, q)
  BY <1>41, <1>a, <1>b, <1>c, ConstantsAssumption
  DEF StartWorker, StartProcess, Running, At, Disk, DiskOf, DiskType, Applying,
      Pending, Untouched, BackedUp, Promoted, Good, Incomplete, Terminal,
      InFlight, Undone, JournalState, None
<1>42. CASE StartWorkerFails(p)
  BY <1>42, <1>a, <1>b, <1>c, ConstantsAssumption
  DEF StartWorkerFails, At, Disk, DiskOf, DiskType, Applying, Pending,
      Untouched, BackedUp, Promoted, Good, Incomplete, Terminal, InFlight,
      Undone, JournalState, None
<1>43. CASE VerifyTicket(p)
  BY <1>43, <1>a, <1>b, <1>c, ConstantsAssumption
  DEF VerifyTicket, At, Disk, DiskOf, DiskType, Applying, Pending, Untouched,
      BackedUp, Promoted, Good, Incomplete, Terminal, InFlight, Undone,
      JournalState, None
<1>44. CASE ConsumeTicket(p)
  BY <1>44, <1>a, <1>b, <1>c, ConstantsAssumption
  DEF ConsumeTicket, Running, At, Disk, DiskOf, DiskType, Applying, Pending,
      Untouched, BackedUp, Promoted, Good, Incomplete, Terminal, InFlight,
      Undone, JournalState, None
<1>45. CASE WaitTimesOut(p)
  BY <1>45, <1>a, <1>b, <1>c, ConstantsAssumption
  DEF WaitTimesOut, At, Disk, DiskOf, DiskType, Applying, Pending, Untouched,
      BackedUp, Promoted, Good, Incomplete, Terminal, InFlight, Undone,
      JournalState, None
<1>46. CASE BeginActivation(p)
  BY <1>46, <1>a, <1>b, <1>c, ConstantsAssumption
  DEF BeginActivation, At, Disk, DiskOf, DiskType, Applying, Pending,
      Untouched, BackedUp, Promoted, Good, Incomplete, Terminal, InFlight,
      Undone, JournalState, None
<1>47. CASE IssueHealth(p)
  BY <1>47, <1>a, <1>b, <1>c, ConstantsAssumption
  DEF IssueHealth, At, Disk, DiskOf, DiskType, Applying, Pending, Untouched,
      BackedUp, Promoted, Good, Incomplete, Terminal, InFlight, Undone,
      JournalState, None
<1>48. CASE WriteHealth(p)
  BY <1>48, <1>a, <1>b, <1>c, ConstantsAssumption
  DEF WriteHealth, At, Disk, DiskOf, DiskType, Applying, Pending, Untouched,
      BackedUp, Promoted, Good, Incomplete, Terminal, InFlight, Undone,
      JournalState, None
<1>49. CASE IssueHealthFails(p)
  BY <1>49, <1>a, <1>b, <1>c, ConstantsAssumption
  DEF IssueHealthFails, Answer, At, Disk, DiskOf, DiskType, Applying, Pending,
      Untouched, BackedUp, Promoted, Good, Incomplete, Terminal, InFlight,
      Undone, JournalState, None
<1>50. CASE \E q \in Proc : LaunchCandidate(p, q)
  BY <1>50, <1>a, <1>b, <1>c, ConstantsAssumption
  DEF LaunchCandidate, StartProcess, Running, LaunchAllowed, At, Disk, DiskOf,
      DiskType, Applying, Pending, Untouched, BackedUp, Promoted, Good,
      Incomplete, Terminal, InFlight, Undone, JournalState, None
<1>51. CASE LaunchFails(p)
  BY <1>51, <1>a, <1>b, <1>c, ConstantsAssumption
  DEF LaunchFails, Answer, At, Disk, DiskOf, DiskType, Applying, Pending,
      Untouched, BackedUp, Promoted, Good, Incomplete, Terminal, InFlight,
      Undone, JournalState, None
<1>52. CASE RecordLaunch(p)
  BY <1>52, <1>a, <1>b, <1>c, ConstantsAssumption
  DEF RecordLaunch, At, Disk, DiskOf, DiskType, Applying, Pending, Untouched,
      BackedUp, Promoted, Good, Incomplete, Terminal, InFlight, Undone,
      JournalState, None
<1>53. CASE RecordLaunchFails(p)
  BY <1>53, FailureIsRemembered DEF IInv
<1>54. CASE ProbeEarlyExit(p)
  BY <1>54, <1>a, <1>b, <1>c, ConstantsAssumption
  DEF ProbeEarlyExit, CandidateRuns, Running, At, Disk, DiskOf, DiskType,
      Applying, Pending, Untouched, BackedUp, Promoted, Good, Incomplete,
      Terminal, InFlight, Undone, JournalState, None
<1>55. CASE ProbePassed(p)
  BY <1>55, <1>a, <1>b, <1>c, ConstantsAssumption
  DEF ProbePassed, At, Disk, DiskOf, DiskType, Applying, Pending, Untouched,
      BackedUp, Promoted, Good, Incomplete, Terminal, InFlight, Undone,
      JournalState, None
<1>56. CASE StartHost(p)
  BY <1>56, <1>a, <1>b, <1>c, ConstantsAssumption
  DEF StartHost, StartProcess, Running, At, Disk, DiskOf, DiskType, Applying,
      Pending, Untouched, BackedUp, Promoted, Good, Incomplete, Terminal,
      InFlight, Undone, JournalState, None
<1>57. CASE HostExit(p)
  BY <1>57, <1>a, <1>b, <1>c, ConstantsAssumption
  DEF HostExit, At, Disk, DiskOf, DiskType, Applying, Pending, Untouched,
      BackedUp, Promoted, Good, Incomplete, Terminal, InFlight, Undone,
      JournalState, None
<1>58. CASE PrepareStart(p)
  BY <1>58, <1>a, <1>b, <1>c, ConstantsAssumption
  DEF PrepareStart, At, Disk, DiskOf, DiskType, Applying, Pending, Untouched,
      BackedUp, Promoted, Good, Incomplete, Terminal, InFlight, Undone,
      JournalState, None
<1>59. CASE \E t \in Tx : RequestRestart(p, t)
  BY <1>59, <1>a, <1>b, <1>c, ConstantsAssumption
  DEF RequestRestart, At, Disk, DiskOf, DiskType, Applying, Pending, Untouched,
      BackedUp, Promoted, Good, Incomplete, Terminal, InFlight, Undone,
      JournalState, None
<1>60. CASE \E t \in Tx : StartRecoverCommand(p, t)
  BY <1>60, <1>a, <1>b, <1>c, ConstantsAssumption
  DEF StartRecoverCommand, Running, At, Disk, DiskOf, DiskType, Applying,
      Pending, Untouched, BackedUp, Promoted, Good, Incomplete, Terminal,
      InFlight, Undone, JournalState, None
<1>61. CASE Crash(p)
  BY <1>61, <1>a, <1>b, <1>c, ConstantsAssumption
  DEF Crash, At, Disk, DiskOf, DiskType, Applying, Pending, Untouched,
      BackedUp, Promoted, Good, Incomplete, Terminal, InFlight, Undone,
      JournalState, None
<1> QED
  BY <1>1, <1>2, <1>3, <1>4, <1>5, <1>6, <1>7, <1>8, <1>9, <1>10, <1>11, <1>12,
     <1>13, <1>14, <1>15, <1>16, <1>17, <1>18, <1>19, <1>20, <1>21, <1>22,
     <1>23, <1>24, <1>25, <1>26, <1>27, <1>28, <1>29, <1>30, <1>31, <1>32,
     <1>33, <1>34, <1>35, <1>36, <1>37, <1>38, <1>39, <1>40, <1>41, <1>42,
     <1>43, <1>44, <1>45, <1>46, <1>47, <1>48, <1>49, <1>50, <1>51, <1>52,
     <1>53, <1>54, <1>55, <1>56, <1>57, <1>58, <1>59, <1>60, <1>61
  DEF Step, UserStep, Activate, Rollback, Revert

-------------------------------------------------------------------------------
(* What a process knows about the disk.                                      *)

\* What a silent process knows stays true whatever the others do.
LEMMA AtSilent ==
  ASSUME IInv, NEW q \in Proc, pc[q] \in Silent, pc'[q] = pc[q],
         cred'[q] = cred[q],
         \A t \in Tx : journal[t] = "committed" => journal'[t] = "committed"
  PROVE  At(q)'
BY DEF IInv, TInv, LocalType, At, Silent, HostAtWork, Confirming

\* A step keeps what every process knows about the disk.
LEMMA AtStep ==
  ASSUME ~Overlap, IInv, TInv', EveryLaunchRecorded', NEW p \in Proc,
         Step(p) \/ UserStep(p) \/ Crash(p)
  PROVE  \A q \in Proc : At(q)'
<1> USE DEF TInv, IInv, LocalType, ArgOK, ArgLabel, HostLabel, WorkerLabel,
            HostAtWork, Preparing, Confirming, Activating, RollingBack,
            Reverting, Silent, Goto, End, Require, locals, slots, disk, files,
            health_vars
<1>1. CASE PersistPhase(p, "begin", "prepared", "apply.check")
  BY <1>1
  DEF PersistPhase, SetPhase, Alone, OneWorks, Kinds, At, DiskType, Disk,
      DiskOf, Applying, Pending, Untouched, BackedUp, Promoted, Good, Terminal,
      Incomplete, InFlight, JournalState, None
<1>2. CASE TransitionCheck(p, "apply.check", "prepared", "apply.write")
  BY <1>2
  DEF TransitionCheck, Alone, OneWorks, Kinds, At, DiskType, Disk, DiskOf,
      Applying, Pending, Untouched, BackedUp, Promoted, Good, Terminal,
      Incomplete, InFlight, JournalState, None
<1>3. CASE TransitionWrite(p, "apply.write", "applying", "backup")
  <2>1. At(p)'
    BY <1>3, SMTT(40)
    DEF TransitionWrite, SetJournal, Alone, OneWorks, Kinds, At, DiskType,
        Disk, DiskOf, Applying, Pending, Untouched, BackedUp, Promoted, Good,
        Terminal, Incomplete, InFlight, JournalState, None
  <2>2. ASSUME NEW q \in Proc, q # p
        PROVE  At(q)'
    BY <1>3, <2>2, AtSilent, SMTT(40)
    DEF TransitionWrite, SetJournal, Alone, OneWorks, At, Applying, Pending,
        DiskType
  <2> QED
    BY <2>1, <2>2
<1>4. CASE BackUpCurrent(p)
  <2>1. At(p)'
    BY <1>4, SMTT(40)
    DEF BackUpCurrent, Alone, OneWorks, Kinds, At, DiskType, Disk, DiskOf,
        Applying, Pending, Untouched, BackedUp, Promoted, Good, Terminal,
        Incomplete, InFlight, JournalState, None
  <2>2. ASSUME NEW q \in Proc, q # p
        PROVE  At(q)'
    BY <1>4, <2>2, AtSilent, SMTT(40) DEF BackUpCurrent, Alone, OneWorks
  <2> QED
    BY <2>1, <2>2
<1>5. CASE PersistPhase(p, "backup.phase", "current-backed-up", "promote")
  BY <1>5
  DEF PersistPhase, SetPhase, Alone, OneWorks, Kinds, At, DiskType, Disk,
      DiskOf, Applying, Pending, Untouched, BackedUp, Promoted, Good, Terminal,
      Incomplete, InFlight, JournalState, None
<1>6. CASE PromoteCandidate(p)
  <2>1. At(p)'
    BY <1>6, SMTT(40)
    DEF PromoteCandidate, Alone, OneWorks, Kinds, At, DiskType, Disk, DiskOf,
        Applying, Pending, Untouched, BackedUp, Promoted, Good, Terminal,
        Incomplete, InFlight, JournalState, None
  <2>2. ASSUME NEW q \in Proc, q # p
        PROVE  At(q)'
    BY <1>6, <2>2, AtSilent, SMTT(40) DEF PromoteCandidate, Alone, OneWorks
  <2> QED
    BY <2>1, <2>2
<1>7. CASE PersistPhase(p, "promote.phase", "candidate-promoted", "await.check")
  BY <1>7
  DEF PersistPhase, SetPhase, Alone, OneWorks, Kinds, At, DiskType, Disk,
      DiskOf, Applying, Pending, Untouched, BackedUp, Promoted, Good, Terminal,
      Incomplete, InFlight, JournalState, None
<1>8. CASE TransitionCheck(p, "await.check", "applying", "await.write")
  <2>1. At(p)'
    BY <1>8, SMTT(40)
    DEF TransitionCheck, Alone, OneWorks, Kinds, At, DiskType, Disk, DiskOf,
        Applying, Pending, Untouched, BackedUp, Promoted, Good, Terminal,
        Incomplete, InFlight, JournalState, None
  <2>2. ASSUME NEW q \in Proc, q # p
        PROVE  At(q)'
    BY <1>8, <2>2, AtSilent, SMTT(40) DEF TransitionCheck, Alone, OneWorks
  <2> QED
    BY <2>1, <2>2
<1>9. CASE TransitionWrite(p, "await.write", "awaiting-health-check", "await.phase")
  <2>1. At(p)'
    BY <1>9, SMTT(40)
    DEF TransitionWrite, SetJournal, Alone, OneWorks, Kinds, At, DiskType,
        Disk, DiskOf, Applying, Pending, Untouched, BackedUp, Promoted, Good,
        Terminal, Incomplete, InFlight, JournalState, None
  <2>2. ASSUME NEW q \in Proc, q # p
        PROVE  At(q)'
    BY <1>9, <2>2, AtSilent, SMTT(40)
    DEF TransitionWrite, SetJournal, Alone, OneWorks, At, Applying, Pending,
        DiskType
  <2> QED
    BY <2>1, <2>2
<1>10. CASE PersistPhase(p, "await.phase", "awaiting-health-check", "issue")
  BY <1>10
  DEF PersistPhase, SetPhase, Alone, OneWorks, Kinds, At, DiskType, Disk,
      DiskOf, Applying, Pending, Untouched, BackedUp, Promoted, Good, Terminal,
      Incomplete, InFlight, JournalState, None
<1>11. CASE TransitionCheck(p, "pend.check", "awaiting-health-check", "pend.write")
  BY <1>11
  DEF TransitionCheck, Alone, OneWorks, Kinds, At, DiskType, Disk, DiskOf,
      Applying, Pending, Untouched, BackedUp, Promoted, Good, Terminal,
      Incomplete, InFlight, JournalState, None
<1>12. CASE TransitionWrite(p, "pend.write", "rollback-pending", "rollback")
  <2>1. At(p)'
    BY <1>12, SMTT(40)
    DEF TransitionWrite, SetJournal, Alone, OneWorks, Kinds, At, DiskType,
        Disk, DiskOf, Applying, Pending, Untouched, BackedUp, Promoted, Good,
        Terminal, Incomplete, InFlight, JournalState, None
  <2>2. ASSUME NEW q \in Proc, q # p
        PROVE  At(q)'
    BY <1>12, <2>2, AtSilent, SMTT(40)
    DEF TransitionWrite, SetJournal, Alone, OneWorks, At, Applying, Pending,
        DiskType
  <2> QED
    BY <2>1, <2>2
<1>13. CASE BeginRollback(p)
  BY <1>13
  DEF BeginRollback, Alone, OneWorks, Kinds, At, DiskType, Disk, DiskOf,
      Applying, Pending, Untouched, BackedUp, Promoted, Good, Terminal,
      Incomplete, InFlight, JournalState, None
<1>14. CASE QuarantineCurrent(p)
  <2>1. At(p)'
    BY <1>14, SMTT(40)
    DEF QuarantineCurrent, Alone, OneWorks, Kinds, At, DiskType, Disk, DiskOf,
        Applying, Pending, Untouched, BackedUp, Promoted, Good, Terminal,
        Incomplete, InFlight, JournalState, None
  <2>2. ASSUME NEW q \in Proc, q # p
        PROVE  At(q)'
    BY <1>14, <2>2, AtSilent, SMTT(40) DEF QuarantineCurrent, Alone, OneWorks
  <2> QED
    BY <2>1, <2>2
<1>15. CASE RestorePrevious(p, "restore", "undo.check")
  <2>1. At(p)'
    BY <1>15, SMTT(40)
    DEF RestorePrevious, Alone, OneWorks, Kinds, At, DiskType, Disk, DiskOf,
        Applying, Pending, Untouched, BackedUp, Promoted, Good, Terminal,
        Incomplete, InFlight, JournalState, None
  <2>2. ASSUME NEW q \in Proc, q # p
        PROVE  At(q)'
    BY <1>15, <2>2, AtSilent, SMTT(40) DEF RestorePrevious, Alone, OneWorks
  <2> QED
    BY <2>1, <2>2
<1>16. CASE TransitionCheck(p, "undo.check", "rollback-pending", "undo.write")
  BY <1>16
  DEF TransitionCheck, Alone, OneWorks, Kinds, At, DiskType, Disk, DiskOf,
      Applying, Pending, Untouched, BackedUp, Promoted, Good, Terminal,
      Incomplete, InFlight, JournalState, None
<1>17. CASE Conclude(p, "undo.write", "rolled-back")
  <2>1. At(p)'
    BY <1>17, SMTT(40)
    DEF Conclude, SetJournal, Finish, Alone, OneWorks, Kinds, At, DiskType,
        Disk, DiskOf, Applying, Pending, Untouched, BackedUp, Promoted, Good,
        Terminal, Incomplete, InFlight, JournalState, None
  <2>2. ASSUME NEW q \in Proc, q # p
        PROVE  At(q)'
    <3>1. pc[q] \in Silent
      BY <1>17, <2>2 DEF Conclude, Alone, OneWorks
    <3>2. pc'[q] = pc[q] /\ cred'[q] = cred[q]
      BY <1>17, <2>2 DEF Conclude, Finish
    <3>3. Pending(p) /\ arg[p] \in Tx
      BY <1>17 DEF Conclude, At
    <3>4. \A t \in Tx : journal[t] = "committed" => journal'[t] = "committed"
      BY <1>17, <3>3 DEF Conclude, SetJournal, Pending, DiskType
    <3> QED
      BY <3>1, <3>2, <3>4, AtSilent
  <2> QED
    BY <2>1, <2>2
<1>18. CASE RecoverApplying(p)
  <2>1. /\ TInv /\ TInv' /\ Disk /\ At(p)
        /\ arg[p] \in Tx
    BY <1>18 DEF RecoverApplying
  <2>2. ASSUME NEW q \in Proc, q # p
        PROVE  At(q)'
    <3>1. pc[q] \in Silent
      BY <1>18, <2>2 DEF RecoverApplying, Alone, OneWorks
    <3>2. pc'[q] = pc[q] /\ cred'[q] = cred[q] /\ journal' = journal
      BY <1>18, <2>2 DEF RecoverApplying
    <3> QED
      BY <3>1, <3>2, AtSilent
  <2>3. CASE /\ journal[arg[p]] = "applying" /\ previous # Absent
             /\ current # Absent
    <3>1. Promoted(arg[p])
      BY <2>1, <2>3, ConstantsAssumption DEF Disk, DiskOf, Untouched, BackedUp, Promoted, Good
    <3>2. At(p)'
      BY <1>18, <2>1, <2>3, <3>1 DEF RecoverApplying, At, Applying, Promoted, Good
    <3> QED
      BY <3>2, <2>2
  <2>4. CASE /\ journal[arg[p]] = "applying" /\ previous # Absent
             /\ current = Absent
    <3>1. BackedUp
      BY <2>1, <2>4, ConstantsAssumption DEF Disk, DiskOf, Untouched, BackedUp, Promoted, Good
    <3>2. At(p)'
      BY <1>18, <2>1, <2>4, <3>1 DEF RecoverApplying, At, Applying, BackedUp, Good
    <3> QED
      BY <3>2, <2>2
  <2>5. CASE journal[arg[p]] = "applying" /\ previous = Absent
    <3>1. Untouched \/ current = Absent
      BY <2>1, <2>5, ConstantsAssumption DEF Disk, DiskOf, Untouched, BackedUp, Promoted, Good
    <3>2. At(p)'
      BY <1>18, <2>1, <2>5, <3>1 DEF RecoverApplying, At, Applying, Untouched, Good
    <3> QED
      BY <3>2, <2>2
  <2>6. CASE journal[arg[p]] # "applying"
    <3>2. At(p)'
      BY <1>18, <2>1, <2>6 DEF RecoverApplying, At
    <3> QED
      BY <3>2, <2>2
  <2> QED
    BY <2>3, <2>4, <2>5, <2>6
<1>19. CASE AbandonCurrent(p)
  <2>1. At(p)'
    BY <1>19, SMTT(40)
    DEF AbandonCurrent, Alone, OneWorks, Kinds, At, DiskType, Disk, DiskOf,
        Applying, Pending, Untouched, BackedUp, Promoted, Good, Terminal,
        Incomplete, InFlight, JournalState, None
  <2>2. ASSUME NEW q \in Proc, q # p
        PROVE  At(q)'
    BY <1>19, <2>2, AtSilent, SMTT(40) DEF AbandonCurrent, Alone, OneWorks
  <2> QED
    BY <2>1, <2>2
<1>20. CASE RestorePrevious(p, "reinstate", "revert.check")
  <2>1. At(p)'
    BY <1>20, SMTT(40)
    DEF RestorePrevious, Alone, OneWorks, Kinds, At, DiskType, Disk, DiskOf,
        Applying, Pending, Untouched, BackedUp, Promoted, Good, Terminal,
        Incomplete, InFlight, JournalState, None
  <2>2. ASSUME NEW q \in Proc, q # p
        PROVE  At(q)'
    BY <1>20, <2>2, AtSilent, SMTT(40) DEF RestorePrevious, Alone, OneWorks
  <2> QED
    BY <2>1, <2>2
<1>21. CASE TransitionCheck(p, "revert.check", "applying", "revert.write")
  <2>1. At(p)'
    BY <1>21, SMTT(40)
    DEF TransitionCheck, Alone, OneWorks, Kinds, At, DiskType, Disk, DiskOf,
        Applying, Pending, Untouched, BackedUp, Promoted, Good, Terminal,
        Incomplete, InFlight, JournalState, None
  <2>2. ASSUME NEW q \in Proc, q # p
        PROVE  At(q)'
    BY <1>21, <2>2, AtSilent, SMTT(40) DEF TransitionCheck, Alone, OneWorks
  <2> QED
    BY <2>1, <2>2
<1>22. CASE TransitionWrite(p, "revert.write", "rollback-pending", "reverted.check")
  <2>1. At(p)'
    BY <1>22, SMTT(40)
    DEF TransitionWrite, SetJournal, Alone, OneWorks, Kinds, At, DiskType,
        Disk, DiskOf, Applying, Pending, Untouched, BackedUp, Promoted, Good,
        Terminal, Incomplete, InFlight, JournalState, None
  <2>2. ASSUME NEW q \in Proc, q # p
        PROVE  At(q)'
    BY <1>22, <2>2, AtSilent, SMTT(40)
    DEF TransitionWrite, SetJournal, Alone, OneWorks, At, Applying, Pending,
        DiskType
  <2> QED
    BY <2>1, <2>2
<1>23. CASE TransitionCheck(p, "reverted.check", "rollback-pending", "reverted.write")
  BY <1>23
  DEF TransitionCheck, Alone, OneWorks, Kinds, At, DiskType, Disk, DiskOf,
      Applying, Pending, Untouched, BackedUp, Promoted, Good, Terminal,
      Incomplete, InFlight, JournalState, None
<1>24. CASE Conclude(p, "reverted.write", "rolled-back")
  <2>1. At(p)'
    BY <1>24, SMTT(40)
    DEF Conclude, SetJournal, Finish, Alone, OneWorks, Kinds, At, DiskType,
        Disk, DiskOf, Applying, Pending, Untouched, BackedUp, Promoted, Good,
        Terminal, Incomplete, InFlight, JournalState, None
  <2>2. ASSUME NEW q \in Proc, q # p
        PROVE  At(q)'
    BY <1>24, <2>2, AtSilent, SMTT(40)
    DEF Conclude, SetJournal, Finish, Alone, OneWorks, At, Applying, Pending,
        DiskType
  <2> QED
    BY <2>1, <2>2
<1>25. CASE TransitionCheck(p, "giveup.check", "applying", "giveup.write")
  BY <1>25
  DEF TransitionCheck, Alone, OneWorks, Kinds, At, DiskType, Disk, DiskOf,
      Applying, Pending, Untouched, BackedUp, Promoted, Good, Terminal,
      Incomplete, InFlight, JournalState, None
<1>26. CASE Conclude(p, "giveup.write", "failed")
  <2>1. At(p)'
    BY <1>26, SMTT(40)
    DEF Conclude, SetJournal, Finish, Alone, OneWorks, Kinds, At, DiskType,
        Disk, DiskOf, Applying, Pending, Untouched, BackedUp, Promoted, Good,
        Terminal, Incomplete, InFlight, JournalState, None
  <2>2. ASSUME NEW q \in Proc, q # p
        PROVE  At(q)'
    BY <1>26, <2>2, AtSilent, SMTT(40)
    DEF Conclude, SetJournal, Finish, Alone, OneWorks, At, Applying, Pending,
        DiskType
  <2> QED
    BY <2>1, <2>2
<1>27. CASE Boot(p)
  <2>1. At(p)'
    BY <1>27, SMTT(40)
    DEF Boot, Alone, OneWorks, Kinds, At, DiskType, Disk, DiskOf, Applying,
        Pending, Untouched, BackedUp, Promoted, Good, Terminal, Incomplete,
        InFlight, JournalState, None
  <2>2. ASSUME NEW q \in Proc, q # p
        PROVE  At(q)'
    BY <1>27, <2>2, AtSilent, SMTT(40) DEF Boot, Alone, OneWorks
  <2> QED
    BY <2>1, <2>2
<1>28. CASE ListIncomplete(p)
  <2>1. At(p)'
    BY <1>28, SMTT(40)
    DEF ListIncomplete, Alone, OneWorks, Kinds, At, DiskType, Disk, DiskOf,
        Applying, Pending, Untouched, BackedUp, Promoted, Good, Terminal,
        Incomplete, InFlight, JournalState, None
  <2>2. ASSUME NEW q \in Proc, q # p
        PROVE  At(q)'
    BY <1>28, <2>2, AtSilent, SMTT(40) DEF ListIncomplete, Alone, OneWorks
  <2> QED
    BY <2>1, <2>2
<1>29. CASE RecoveryDone(p)
  BY <1>29
  DEF RecoveryDone, Alone, OneWorks, Kinds, At, DiskType, Disk, DiskOf,
      Applying, Pending, Untouched, BackedUp, Promoted, Good, Terminal,
      Incomplete, InFlight, JournalState, None
<1>30. CASE \E t \in Tx : Recover(p, t)
  BY <1>30
  DEF Recover, Alone, OneWorks, Kinds, At, DiskType, Disk, DiskOf, Applying,
      Pending, Untouched, BackedUp, Promoted, Good, Terminal, Incomplete,
      InFlight, JournalState, None
<1>31. CASE ShellReady(p)
  BY <1>31
  DEF ShellReady, Alone, OneWorks, Kinds, At, DiskType, Disk, DiskOf, Applying,
      Pending, Untouched, BackedUp, Promoted, Good, Terminal, Incomplete,
      InFlight, JournalState, None
<1>32. CASE ShellFails(p)
  BY <1>32
  DEF ShellFails, Alone, OneWorks, Kinds, At, DiskType, Disk, DiskOf, Applying,
      Pending, Untouched, BackedUp, Promoted, Good, Terminal, Incomplete,
      InFlight, JournalState, None
<1>33. CASE ConfirmCommit(p)
  <2>1. At(p)'
    BY <1>33, SMTT(40)
    DEF ConfirmCommit, Alone, OneWorks, Kinds, At, DiskType, Disk, DiskOf,
        Applying, Pending, Untouched, BackedUp, Promoted, Good, Terminal,
        Incomplete, InFlight, JournalState, None
  <2>2. ASSUME NEW q \in Proc, q # p
        PROVE  At(q)'
    BY <1>33, <2>2, AtSilent, SMTT(40) DEF ConfirmCommit, Alone, OneWorks
  <2> QED
    BY <2>1, <2>2
<1>34. CASE ConfirmStamp(p)
  BY <1>34
  DEF ConfirmStamp, Alone, OneWorks, Kinds, At, DiskType, Disk, DiskOf,
      Applying, Pending, Untouched, BackedUp, Promoted, Good, Terminal,
      Incomplete, InFlight, JournalState, None
<1>35. CASE \E t \in Tx : PrepareBegin(p, t)
  BY <1>35
  DEF PrepareBegin, Alone, OneWorks, Kinds, At, DiskType, Disk, DiskOf,
      Applying, Pending, Untouched, BackedUp, Promoted, Good, Terminal,
      Incomplete, InFlight, JournalState, None
<1>36. CASE PrepareDone(p)
  <2>1. At(p)'
    BY <1>36, SMTT(40)
    DEF PrepareDone, Alone, OneWorks, Kinds, At, DiskType, Disk, DiskOf,
        Applying, Pending, Untouched, BackedUp, Promoted, Good, Terminal,
        Incomplete, InFlight, JournalState, None
  <2>2. ASSUME NEW q \in Proc, q # p
        PROVE  At(q)'
    BY <1>36, <2>2, AtSilent, SMTT(40) DEF PrepareDone, Alone, OneWorks
  <2> QED
    BY <2>1, <2>2
<1>37. CASE PrepareAbandoned(p)
  BY <1>37
  DEF PrepareAbandoned, Alone, OneWorks, Kinds, At, DiskType, Disk, DiskOf,
      Applying, Pending, Untouched, BackedUp, Promoted, Good, Terminal,
      Incomplete, InFlight, JournalState, None
<1>38. CASE PrepareFails(p)
  BY <1>38
  DEF PrepareFails, Alone, OneWorks, Kinds, At, DiskType, Disk, DiskOf,
      Applying, Pending, Untouched, BackedUp, Promoted, Good, Terminal,
      Incomplete, InFlight, JournalState, None
<1>39. CASE TransitionWrite(p, "fail.write", "failed", "shell")
  <2>1. At(p)'
    BY <1>39, SMTT(40)
    DEF TransitionWrite, SetJournal, Alone, OneWorks, Kinds, At, DiskType,
        Disk, DiskOf, Applying, Pending, Untouched, BackedUp, Promoted, Good,
        Terminal, Incomplete, InFlight, JournalState, None
  <2>2. ASSUME NEW q \in Proc, q # p
        PROVE  At(q)'
    BY <1>39, <2>2, AtSilent, SMTT(40)
    DEF TransitionWrite, SetJournal, Alone, OneWorks, At, Applying, Pending,
        DiskType
  <2> QED
    BY <2>1, <2>2
<1>40. CASE IssueTicket(p)
  BY <1>40
  DEF IssueTicket, Alone, OneWorks, Kinds, At, DiskType, Disk, DiskOf,
      Applying, Pending, Untouched, BackedUp, Promoted, Good, Terminal,
      Incomplete, InFlight, JournalState, None
<1>41. CASE \E q \in Proc : StartWorker(p, q)
  BY <1>41
  DEF StartWorker, StartProcess, Running, Alone, OneWorks, Kinds, At, DiskType,
      Disk, DiskOf, Applying, Pending, Untouched, BackedUp, Promoted, Good,
      Terminal, Incomplete, InFlight, JournalState, None
<1>42. CASE StartWorkerFails(p)
  BY <1>42
  DEF StartWorkerFails, Alone, OneWorks, Kinds, At, DiskType, Disk, DiskOf,
      Applying, Pending, Untouched, BackedUp, Promoted, Good, Terminal,
      Incomplete, InFlight, JournalState, None
<1>43. CASE VerifyTicket(p)
  BY <1>43
  DEF VerifyTicket, Alone, OneWorks, Kinds, At, DiskType, Disk, DiskOf,
      Applying, Pending, Untouched, BackedUp, Promoted, Good, Terminal,
      Incomplete, InFlight, JournalState, None
<1>44. CASE ConsumeTicket(p)
  BY <1>44
  DEF ConsumeTicket, Running, Alone, OneWorks, Kinds, At, DiskType, Disk,
      DiskOf, Applying, Pending, Untouched, BackedUp, Promoted, Good, Terminal,
      Incomplete, InFlight, JournalState, None
<1>45. CASE WaitTimesOut(p)
  BY <1>45
  DEF WaitTimesOut, Alone, OneWorks, Kinds, At, DiskType, Disk, DiskOf,
      Applying, Pending, Untouched, BackedUp, Promoted, Good, Terminal,
      Incomplete, InFlight, JournalState, None
<1>46. CASE BeginActivation(p)
  BY <1>46
  DEF BeginActivation, Alone, OneWorks, Kinds, At, DiskType, Disk, DiskOf,
      Applying, Pending, Untouched, BackedUp, Promoted, Good, Terminal,
      Incomplete, InFlight, JournalState, None
<1>47. CASE IssueHealth(p)
  BY <1>47
  DEF IssueHealth, Alone, OneWorks, Kinds, At, DiskType, Disk, DiskOf,
      Applying, Pending, Untouched, BackedUp, Promoted, Good, Terminal,
      Incomplete, InFlight, JournalState, None
<1>48. CASE WriteHealth(p)
  BY <1>48
  DEF WriteHealth, Alone, OneWorks, Kinds, At, DiskType, Disk, DiskOf,
      Applying, Pending, Untouched, BackedUp, Promoted, Good, Terminal,
      Incomplete, InFlight, JournalState, None
<1>49. CASE IssueHealthFails(p)
  BY <1>49
  DEF IssueHealthFails, Answer, Alone, OneWorks, Kinds, At, DiskType, Disk,
      DiskOf, Applying, Pending, Untouched, BackedUp, Promoted, Good, Terminal,
      Incomplete, InFlight, JournalState, None
<1>50. CASE \E q \in Proc : LaunchCandidate(p, q)
  BY <1>50
  DEF LaunchCandidate, StartProcess, Running, LaunchAllowed, Alone, OneWorks,
      Kinds, At, DiskType, Disk, DiskOf, Applying, Pending, Untouched,
      BackedUp, Promoted, Good, Terminal, Incomplete, InFlight, JournalState,
      None
<1>51. CASE LaunchFails(p)
  BY <1>51
  DEF LaunchFails, Answer, Alone, OneWorks, Kinds, At, DiskType, Disk, DiskOf,
      Applying, Pending, Untouched, BackedUp, Promoted, Good, Terminal,
      Incomplete, InFlight, JournalState, None
<1>52. CASE RecordLaunch(p)
  BY <1>52
  DEF RecordLaunch, Alone, OneWorks, Kinds, At, DiskType, Disk, DiskOf,
      Applying, Pending, Untouched, BackedUp, Promoted, Good, Terminal,
      Incomplete, InFlight, JournalState, None
<1>53. CASE RecordLaunchFails(p)
  BY <1>53, FailureIsRemembered DEF IInv
<1>54. CASE ProbeEarlyExit(p)
  BY <1>54
  DEF ProbeEarlyExit, CandidateRuns, Running, Alone, OneWorks, Kinds, At,
      DiskType, Disk, DiskOf, Applying, Pending, Untouched, BackedUp, Promoted,
      Good, Terminal, Incomplete, InFlight, JournalState, None
<1>55. CASE ProbePassed(p)
  BY <1>55
  DEF ProbePassed, Alone, OneWorks, Kinds, At, DiskType, Disk, DiskOf,
      Applying, Pending, Untouched, BackedUp, Promoted, Good, Terminal,
      Incomplete, InFlight, JournalState, None
<1>56. CASE StartHost(p)
  BY <1>56
  DEF StartHost, StartProcess, Running, Alone, OneWorks, Kinds, At, DiskType,
      Disk, DiskOf, Applying, Pending, Untouched, BackedUp, Promoted, Good,
      Terminal, Incomplete, InFlight, JournalState, None
<1>57. CASE HostExit(p)
  BY <1>57
  DEF HostExit, Alone, OneWorks, Kinds, At, DiskType, Disk, DiskOf, Applying,
      Pending, Untouched, BackedUp, Promoted, Good, Terminal, Incomplete,
      InFlight, JournalState, None
<1>58. CASE PrepareStart(p)
  BY <1>58
  DEF PrepareStart, Alone, OneWorks, Kinds, At, DiskType, Disk, DiskOf,
      Applying, Pending, Untouched, BackedUp, Promoted, Good, Terminal,
      Incomplete, InFlight, JournalState, None
<1>59. CASE \E t \in Tx : RequestRestart(p, t)
  BY <1>59
  DEF RequestRestart, Alone, OneWorks, Kinds, At, DiskType, Disk, DiskOf,
      Applying, Pending, Untouched, BackedUp, Promoted, Good, Terminal,
      Incomplete, InFlight, JournalState, None
<1>60. CASE \E t \in Tx : StartRecoverCommand(p, t)
  BY <1>60
  DEF StartRecoverCommand, Running, Alone, OneWorks, Kinds, At, DiskType, Disk,
      DiskOf, Applying, Pending, Untouched, BackedUp, Promoted, Good, Terminal,
      Incomplete, InFlight, JournalState, None
<1>61. CASE Crash(p)
  BY <1>61
  DEF Crash, Alone, OneWorks, Kinds, At, DiskType, Disk, DiskOf, Applying,
      Pending, Untouched, BackedUp, Promoted, Good, Terminal, Incomplete,
      InFlight, JournalState, None
<1> QED
  BY <1>1, <1>2, <1>3, <1>4, <1>5, <1>6, <1>7, <1>8, <1>9, <1>10, <1>11, <1>12,
     <1>13, <1>14, <1>15, <1>16, <1>17, <1>18, <1>19, <1>20, <1>21, <1>22,
     <1>23, <1>24, <1>25, <1>26, <1>27, <1>28, <1>29, <1>30, <1>31, <1>32,
     <1>33, <1>34, <1>35, <1>36, <1>37, <1>38, <1>39, <1>40, <1>41, <1>42,
     <1>43, <1>44, <1>45, <1>46, <1>47, <1>48, <1>49, <1>50, <1>51, <1>52,
     <1>53, <1>54, <1>55, <1>56, <1>57, <1>58, <1>59, <1>60, <1>61
  DEF Step, UserStep, Activate, Rollback, Revert

-------------------------------------------------------------------------------
(* The invariant.                                                            *)

\* It holds before the first update.
LEMMA InitInv == Init => IInv
<1> SUFFICES ASSUME Init
             PROVE  IInv
  OBVIOUS
<1>1. Kinds
  BY DEF Init, Kinds, HostLabel, WorkerLabel, HostAtWork, Confirming, Activating
<1>2. Alone
  BY DEF Init, Alone, OneWorks, OnlyWatched, OneClaims, ClaimsPromoted, OneHost,
         NoHostDuringSwap, TicketNamesHost, Silent, Claims, Activating
<1>3. Disk
  BY ConstantsAssumption
  DEF Init, Disk, DiskOf, Good, Incomplete, InFlight, JournalState, Terminal,
      Undone, None
<1>4. \A p \in Proc : At(p)
  BY DEF Init, At, HostAtWork, Confirming
<1> QED
  BY <1>1, <1>2, <1>3, <1>4, InitType DEF IInv

\* Every step keeps it, if no Host is started beside a process and every launch
\* is recorded.
LEMMA NextInv ==
  ASSUME ~Overlap, IInv, EveryLaunchRecorded', [Next]_vars
  PROVE  IInv'
<1>1. TInv'
  BY NextType DEF IInv
<1>2. ASSUME NEW p \in Proc, Step(p) \/ UserStep(p) \/ Crash(p)
      PROVE  IInv'
  BY <1>1, <1>2, KindsStep, AloneStep, DiskStep, AtStep DEF IInv
<1>3. ASSUME NEW t \in Tx, Expire(t)
      PROVE  IInv'
  <2> USE <1>3 DEF Expire, IInv, slots, locals
  <2>1. Kinds'
    BY DEF Kinds
  <2>2. Alone'
    BY DEF Alone, OneWorks, OnlyWatched, OneClaims, ClaimsPromoted, OneHost,
           NoHostDuringSwap, TicketNamesHost, Claims, Watches
  <2>3. Disk'
    BY DEF Disk, DiskOf, Good, Untouched, BackedUp, Promoted
  <2>4. \A p \in Proc : At(p)'
    BY DEF At, Applying, Pending, Good, Untouched, BackedUp, Promoted
  <2> QED
    BY <1>1, <2>1, <2>2, <2>3, <2>4
<1>4. CASE UNCHANGED vars
  <2> USE <1>4 DEF vars, disk, files, health_vars, IInv, slots, locals
  <2>1. Kinds'
    BY DEF Kinds
  <2>2. Alone'
    BY DEF Alone, OneWorks, OnlyWatched, OneClaims, ClaimsPromoted, OneHost,
           NoHostDuringSwap, TicketNamesHost, Claims, Watches
  <2>3. Disk'
    BY DEF Disk, DiskOf, Good, Untouched, BackedUp, Promoted
  <2>4. \A p \in Proc : At(p)'
    BY DEF At, Applying, Pending, Good, Untouched, BackedUp, Promoted
  <2> QED
    BY <1>1, <2>1, <2>2, <2>3, <2>4
<1> QED
  BY <1>2, <1>3, <1>4 DEF Next

\* Only the worker that has started the candidate writes launch.json.
LEMMA WhoRecords ==
  ASSUME NEW p \in Proc, Step(p) \/ UserStep(p) \/ Crash(p)
  PROVE  launched' = launched \/ RecordLaunch(p) \/ RecordLaunchFails(p)
<1> USE DEF disk, slots, files, health_vars
<1>1. CASE Activate(p)
  BY <1>1 DEF Activate, PersistPhase, TransitionCheck, TransitionWrite,
              BackUpCurrent, PromoteCandidate
<1>2. CASE Rollback(p)
  BY <1>2 DEF Rollback, TransitionCheck, TransitionWrite, BeginRollback,
              QuarantineCurrent, RestorePrevious, Conclude
<1>3. CASE Revert(p)
  BY <1>3 DEF Revert, TransitionCheck, TransitionWrite, RecoverApplying,
              AbandonCurrent, RestorePrevious, Conclude
<1>4. CASE \/ Boot(p) \/ ListIncomplete(p) \/ (\E t \in Tx : Recover(p, t))
           \/ RecoveryDone(p) \/ ShellReady(p) \/ ShellFails(p)
           \/ ConfirmCommit(p) \/ ConfirmStamp(p)
  BY <1>4 DEF Boot, ListIncomplete, Recover, RecoveryDone, ShellReady, ShellFails,
              ConfirmCommit, ConfirmStamp
<1>5. CASE \/ (\E t \in Tx : PrepareBegin(p, t))
           \/ PrepareDone(p) \/ PrepareAbandoned(p) \/ PrepareFails(p)
           \/ TransitionWrite(p, "fail.write", "failed", "shell")
           \/ IssueTicket(p)
           \/ (\E q \in Proc : StartWorker(p, q)) \/ StartWorkerFails(p)
  BY <1>5 DEF PrepareBegin, PrepareDone, PrepareAbandoned, PrepareFails,
              TransitionWrite, IssueTicket, StartWorker, StartWorkerFails
<1>6. CASE \/ VerifyTicket(p) \/ ConsumeTicket(p) \/ WaitTimesOut(p)
           \/ BeginActivation(p)
           \/ IssueHealth(p) \/ WriteHealth(p) \/ IssueHealthFails(p)
  BY <1>6 DEF VerifyTicket, ConsumeTicket, WaitTimesOut, BeginActivation,
              IssueHealth, WriteHealth, IssueHealthFails
<1>7. CASE \/ (\E q \in Proc : LaunchCandidate(p, q)) \/ LaunchFails(p)
           \/ ProbeEarlyExit(p) \/ ProbePassed(p)
  BY <1>7 DEF LaunchCandidate, LaunchFails, ProbeEarlyExit, ProbePassed
<1>8. CASE UserStep(p)
  BY <1>8 DEF UserStep, StartHost, HostExit, PrepareStart, RequestRestart,
              StartRecoverCommand
<1>9. CASE Crash(p)
  BY <1>9 DEF Crash
<1> QED
  BY <1>1, <1>2, <1>3, <1>4, <1>5, <1>6, <1>7, <1>8, <1>9 DEF Step

\* A launch that could not be recorded is never forgotten.
LEMMA FailuresStay ==
  ASSUME TInv, [Next]_vars, EveryLaunchRecorded'
  PROVE  EveryLaunchRecorded
<1> USE DEF TInv, DiskType, EveryLaunchRecorded, Unrecorded
<1>1. ASSUME NEW p \in Proc, Step(p) \/ UserStep(p) \/ Crash(p)
      PROVE  EveryLaunchRecorded
  <2>1. CASE launched' = launched
    BY <2>1
  <2>2. CASE RecordLaunch(p) \/ RecordLaunchFails(p)
    BY <2>2 DEF RecordLaunch, RecordLaunchFails
  <2> QED
    BY <1>1, <2>1, <2>2, WhoRecords
<1>2. CASE (\E t \in Tx : Expire(t)) \/ UNCHANGED vars
  BY <1>2 DEF Expire, vars, disk, files, health_vars
<1> QED
  BY <1>1, <1>2 DEF Next

\* So it holds as long as every launch is recorded.
LEMMA Invariance ==
  ASSUME ~Overlap
  PROVE  Spec => [](EveryLaunchRecorded => IInv)
<1> DEFINE Inv == TInv /\ (EveryLaunchRecorded => IInv)
<1>1. Init => Inv
  BY InitInv, InitType
<1>2. Inv /\ [Next]_vars => Inv'
  BY NextInv, NextType, FailuresStay
<1>3. Inv => (EveryLaunchRecorded => IInv)
  OBVIOUS
<1> HIDE DEF Inv
<1> QED
  BY <1>1, <1>2, <1>3, PTL DEF Spec

--------------------------------------------------------------------------------
(* The properties.                                                          *)

\* What IInv says of a state, in the words of the properties.
LEMMA StateSafety ==
  ASSUME IInv, EveryLaunchRecorded
  PROVE  /\ CommittedInPlace /\ UndoneOutOfSlots /\ KnownGoodOnDisk
         /\ ShellHidesNothing /\ SwapAfterHostExit
<1>a. Disk /\ DiskType
  BY DEF IInv, TInv
<1>1. CommittedInPlace
  BY <1>a DEF CommittedInPlace, Disk, DiskOf, Promoted
<1>2. UndoneOutOfSlots
  BY <1>a DEF UndoneOutOfSlots, Disk, DiskOf
<1>3. Good(current) \/ Good(previous)
  BY <1>a DEF Disk, DiskOf, Untouched, BackedUp, Promoted, InFlight, Incomplete,
              JournalState, Terminal
<1>4. KnownGoodOnDisk
  BY <1>3 DEF KnownGoodOnDisk, Good
<1>5. ShellHidesNothing
  <2> SUFFICES ASSUME NEW p \in Proc,
                      pc[p] \in HostAtWork \cup Confirming \cup {"load"}
               PROVE  /\ current # Absent
                      /\ \A t \in Tx :
                           journal[t] \notin {"applying", "rollback-pending"}
    BY DEF ShellHidesNothing, EveryLaunchRecorded
  <2>1. \A t \in Tx : journal[t] \notin {"applying", "rollback-pending"}
    BY DEF IInv, At
  <2>2. (\E t \in Tx : current = t) \/ Good(current)
    BY <2>1, <1>a DEF Disk, DiskOf, Promoted, InFlight, Incomplete,
                      JournalState, Terminal, DiskType
  <2> QED
    BY <2>1, <2>2, ConstantsAssumption DEF Good
<1>6. SwapAfterHostExit
  BY DEF SwapAfterHostExit, IInv, Alone, NoHostDuringSwap
<1> QED
  BY <1>1, <1>2, <1>4, <1>5, <1>6

\* Whatever crashes between any two writes, one of the two slots holds a
\* deployment that is known to work.
THEOREM KnownGoodStays ==
  ASSUME ~Overlap
  PROVE  Spec => [](EveryLaunchRecorded => KnownGoodOnDisk)
<1>1. IInv /\ EveryLaunchRecorded => KnownGoodOnDisk
  BY StateSafety
<1> QED
  BY <1>1, Invariance, PTL

\* As long as every launch could be recorded, a committed update stays the one in
\* Current, beside the worker that started it and over every crash.
THEOREM CommittedStays ==
  ASSUME ~Overlap
  PROVE  Spec => [](EveryLaunchRecorded => CommittedInPlace)
<1>1. IInv /\ EveryLaunchRecorded => CommittedInPlace
  BY StateSafety
<1> QED
  BY <1>1, Invariance, PTL

\* An update that was rolled back or given up is in neither slot.
THEOREM UndoneGone ==
  ASSUME ~Overlap
  PROVE  Spec => [](EveryLaunchRecorded => UndoneOutOfSlots)
<1>1. IInv /\ EveryLaunchRecorded => UndoneOutOfSlots
  BY StateSafety
<1> QED
  BY <1>1, Invariance, PTL

\* As long as every launch could be recorded, no shell loads or runs over a
\* half-done swap or rollback.
THEOREM NothingHidden ==
  ASSUME ~Overlap
  PROVE  Spec => [](EveryLaunchRecorded => ShellHidesNothing)
<1>1. IInv /\ EveryLaunchRecorded => ShellHidesNothing
  BY StateSafety
<1> QED
  BY <1>1, Invariance, PTL

\* The slots are swapped only when no Host runs.
THEOREM SwapAlone ==
  ASSUME ~Overlap
  PROVE  Spec => [](EveryLaunchRecorded => SwapAfterHostExit)
<1>1. IInv /\ EveryLaunchRecorded => SwapAfterHostExit
  BY StateSafety
<1> QED
  BY <1>1, Invariance, PTL

-------------------------------------------------------------------------------
(* What a step may do to a journal.                                          *)

\* A write of a journal follows the table of transitions, whatever step it is.
LegalWrites == \A t \in Tx : LegalWrite(t)

\* It commits only the update of a running Host that was started from it.
LegalCommit == \A t \in Tx : CommitsTarget(t)

\* A step of a process writes and commits like that ...
LEMMA LegalStep ==
  ASSUME IInv, NEW p \in Proc, Step(p) \/ UserStep(p) \/ Crash(p)
  PROVE  LegalWrites /\ LegalCommit
<1> USE DEF LegalWrites, LegalWrite, LegalCommit, CommitsTarget, CanTransition, disk, slots, files, health_vars
<1>a. At(p) /\ DiskType
  BY DEF IInv, TInv
<1>b. pc[p] \in Confirming =>
        Running(p) /\ cred[p] \in Tx /\ image[p] = cred[p]
  BY ConstantsAssumption DEF IInv, Kinds, Running, Confirming

<1>1. CASE PersistPhase(p, "begin", "prepared", "apply.check")
  BY <1>1 DEF PersistPhase
<1>2. CASE TransitionCheck(p, "apply.check", "prepared", "apply.write")
  BY <1>2 DEF TransitionCheck
<1>3. CASE TransitionWrite(p, "apply.write", "applying", "backup")
  BY <1>3, <1>a
  DEF TransitionWrite, SetJournal, At, DiskType, Applying, Pending, None,
      Confirming
<1>4. CASE BackUpCurrent(p)
  BY <1>4 DEF BackUpCurrent
<1>5. CASE PersistPhase(p, "backup.phase", "current-backed-up", "promote")
  BY <1>5 DEF PersistPhase
<1>6. CASE PromoteCandidate(p)
  BY <1>6 DEF PromoteCandidate
<1>7. CASE PersistPhase(p, "promote.phase", "candidate-promoted", "await.check")
  BY <1>7 DEF PersistPhase
<1>8. CASE TransitionCheck(p, "await.check", "applying", "await.write")
  BY <1>8 DEF TransitionCheck
<1>9. CASE TransitionWrite(p, "await.write", "awaiting-health-check", "await.phase")
  BY <1>9, <1>a
  DEF TransitionWrite, SetJournal, At, DiskType, Applying, Pending, None,
      Confirming
<1>10. CASE PersistPhase(p, "await.phase", "awaiting-health-check", "issue")
  BY <1>10 DEF PersistPhase
<1>11. CASE TransitionCheck(p, "pend.check", "awaiting-health-check", "pend.write")
  BY <1>11 DEF TransitionCheck
<1>12. CASE TransitionWrite(p, "pend.write", "rollback-pending", "rollback")
  BY <1>12, <1>a
  DEF TransitionWrite, SetJournal, At, DiskType, Applying, Pending, None,
      Confirming
<1>13. CASE BeginRollback(p)
  BY <1>13 DEF BeginRollback
<1>14. CASE QuarantineCurrent(p)
  BY <1>14 DEF QuarantineCurrent
<1>15. CASE RestorePrevious(p, "restore", "undo.check")
  BY <1>15 DEF RestorePrevious
<1>16. CASE TransitionCheck(p, "undo.check", "rollback-pending", "undo.write")
  BY <1>16 DEF TransitionCheck
<1>17. CASE Conclude(p, "undo.write", "rolled-back")
  BY <1>17, <1>a
  DEF Conclude, SetJournal, At, DiskType, Applying, Pending, None, Confirming
<1>18. CASE RecoverApplying(p)
  BY <1>18 DEF RecoverApplying
<1>19. CASE AbandonCurrent(p)
  BY <1>19 DEF AbandonCurrent
<1>20. CASE RestorePrevious(p, "reinstate", "revert.check")
  BY <1>20 DEF RestorePrevious
<1>21. CASE TransitionCheck(p, "revert.check", "applying", "revert.write")
  BY <1>21 DEF TransitionCheck
<1>22. CASE TransitionWrite(p, "revert.write", "rollback-pending", "reverted.check")
  BY <1>22, <1>a
  DEF TransitionWrite, SetJournal, At, DiskType, Applying, Pending, None,
      Confirming
<1>23. CASE TransitionCheck(p, "reverted.check", "rollback-pending", "reverted.write")
  BY <1>23 DEF TransitionCheck
<1>24. CASE Conclude(p, "reverted.write", "rolled-back")
  BY <1>24, <1>a
  DEF Conclude, SetJournal, At, DiskType, Applying, Pending, None, Confirming
<1>25. CASE TransitionCheck(p, "giveup.check", "applying", "giveup.write")
  BY <1>25 DEF TransitionCheck
<1>26. CASE Conclude(p, "giveup.write", "failed")
  BY <1>26, <1>a
  DEF Conclude, SetJournal, At, DiskType, Applying, Pending, None, Confirming
<1>27. CASE Boot(p)
  BY <1>27 DEF Boot
<1>28. CASE ListIncomplete(p)
  BY <1>28 DEF ListIncomplete
<1>29. CASE RecoveryDone(p)
  BY <1>29 DEF RecoveryDone
<1>30. CASE \E t \in Tx : Recover(p, t)
  BY <1>30 DEF Recover
<1>31. CASE ShellReady(p)
  BY <1>31 DEF ShellReady
<1>32. CASE ShellFails(p)
  BY <1>32 DEF ShellFails
<1>33. CASE ConfirmCommit(p)
  BY <1>33, <1>a, <1>b
  DEF ConfirmCommit, At, DiskType, Applying, Pending, None, Confirming
<1>34. CASE ConfirmStamp(p)
  BY <1>34 DEF ConfirmStamp
<1>35. CASE \E t \in Tx : PrepareBegin(p, t)
  BY <1>35, <1>a
  DEF PrepareBegin, At, DiskType, Applying, Pending, None, Confirming
<1>36. CASE PrepareDone(p)
  BY <1>36 DEF PrepareDone
<1>37. CASE PrepareAbandoned(p)
  BY <1>37 DEF PrepareAbandoned
<1>38. CASE PrepareFails(p)
  BY <1>38 DEF PrepareFails
<1>39. CASE TransitionWrite(p, "fail.write", "failed", "shell")
  BY <1>39, <1>a
  DEF TransitionWrite, SetJournal, At, DiskType, Applying, Pending, None,
      Confirming
<1>40. CASE IssueTicket(p)
  BY <1>40 DEF IssueTicket
<1>41. CASE \E q \in Proc : StartWorker(p, q)
  BY <1>41 DEF StartWorker
<1>42. CASE StartWorkerFails(p)
  BY <1>42 DEF StartWorkerFails
<1>43. CASE VerifyTicket(p)
  BY <1>43 DEF VerifyTicket
<1>44. CASE ConsumeTicket(p)
  BY <1>44 DEF ConsumeTicket
<1>45. CASE WaitTimesOut(p)
  BY <1>45 DEF WaitTimesOut
<1>46. CASE BeginActivation(p)
  BY <1>46 DEF BeginActivation
<1>47. CASE IssueHealth(p)
  BY <1>47 DEF IssueHealth
<1>48. CASE WriteHealth(p)
  BY <1>48 DEF WriteHealth
<1>49. CASE IssueHealthFails(p)
  BY <1>49 DEF IssueHealthFails
<1>50. CASE \E q \in Proc : LaunchCandidate(p, q)
  BY <1>50 DEF LaunchCandidate
<1>51. CASE LaunchFails(p)
  BY <1>51 DEF LaunchFails
<1>52. CASE RecordLaunch(p)
  BY <1>52 DEF RecordLaunch
<1>53. CASE RecordLaunchFails(p)
  BY <1>53 DEF RecordLaunchFails
<1>54. CASE ProbeEarlyExit(p)
  BY <1>54 DEF ProbeEarlyExit
<1>55. CASE ProbePassed(p)
  BY <1>55 DEF ProbePassed
<1>56. CASE StartHost(p)
  BY <1>56 DEF StartHost
<1>57. CASE HostExit(p)
  BY <1>57 DEF HostExit
<1>58. CASE PrepareStart(p)
  BY <1>58 DEF PrepareStart
<1>59. CASE \E t \in Tx : RequestRestart(p, t)
  BY <1>59 DEF RequestRestart
<1>60. CASE \E t \in Tx : StartRecoverCommand(p, t)
  BY <1>60 DEF StartRecoverCommand
<1>61. CASE Crash(p)
  BY <1>61 DEF Crash
<1> QED
  BY <1>1, <1>2, <1>3, <1>4, <1>5, <1>6, <1>7, <1>8, <1>9, <1>10, <1>11, <1>12,
     <1>13, <1>14, <1>15, <1>16, <1>17, <1>18, <1>19, <1>20, <1>21, <1>22,
     <1>23, <1>24, <1>25, <1>26, <1>27, <1>28, <1>29, <1>30, <1>31, <1>32,
     <1>33, <1>34, <1>35, <1>36, <1>37, <1>38, <1>39, <1>40, <1>41, <1>42,
     <1>43, <1>44, <1>45, <1>46, <1>47, <1>48, <1>49, <1>50, <1>51, <1>52,
     <1>53, <1>54, <1>55, <1>56, <1>57, <1>58, <1>59, <1>60, <1>61
  DEF Step, UserStep, Activate, Rollback, Revert

\* ... and so does every step of the system.
LEMMA LegalNext ==
  ASSUME IInv, [Next]_vars
  PROVE  LegalWrites /\ LegalCommit
<1>1. CASE \E t \in Tx : Expire(t)
  BY <1>1 DEF Expire, LegalWrites, LegalWrite, LegalCommit, CommitsTarget
<1>2. CASE UNCHANGED vars
  BY <1>2 DEF vars, disk, LegalWrites, LegalWrite, LegalCommit, CommitsTarget
<1> QED
  BY <1>1, <1>2, LegalStep DEF Next

\* Every write of a journal follows the table of transitions, although the
\* check of a transition and its write are two steps, until a launch cannot be
\* recorded (then a stale writer does get between them).
THEOREM WritesAreLegal ==
  ASSUME ~Overlap
  PROVE  Spec => [][EveryLaunchRecorded => \A t \in Tx : LegalWrite(t)]_journal
<1>1. (EveryLaunchRecorded => IInv) /\ [Next]_vars =>
        [EveryLaunchRecorded => LegalWrites]_journal
  BY LegalNext
<1>2. Spec => [][EveryLaunchRecorded => LegalWrites]_journal
  BY <1>1, Invariance, PTL DEF Spec
<1> QED
  BY <1>2 DEF LegalWrites

\* An update commits only while a Host that was started from it runs.
THEOREM CommitsAreRun ==
  ASSUME ~Overlap
  PROVE  Spec => [][EveryLaunchRecorded =>
                      \A t \in Tx : CommitsTarget(t)]_journal
<1>1. (EveryLaunchRecorded => IInv) /\ [Next]_vars =>
        [EveryLaunchRecorded => LegalCommit]_journal
  BY LegalNext
<1>2. Spec => [][EveryLaunchRecorded => LegalCommit]_journal
  BY <1>1, Invariance, PTL DEF Spec
<1> QED
  BY <1>2 DEF LegalCommit

-------------------------------------------------------------------------------
(* What holds whatever runs beside what.                                     *)

\* A step of a process moves a deployment from one place to another, or it
\* leaves the slots and the quarantines alone.
LEMMA WhatMoves ==
  ASSUME NEW p \in Proc, Step(p) \/ UserStep(p) \/ Crash(p)
  PROVE  \/ UNCHANGED <<current, previous, failedCurrent, abandoned>>
         \/ BackUpCurrent(p) \/ PromoteCandidate(p) \/ AbandonCurrent(p)
         \/ QuarantineCurrent(p)
         \/ RestorePrevious(p, "restore", "undo.check")
         \/ RestorePrevious(p, "reinstate", "revert.check")
<1> USE DEF disk, slots, files, health_vars
<1>1. CASE Activate(p)
  BY <1>1 DEF Activate, PersistPhase, TransitionCheck, TransitionWrite
<1>2. CASE Rollback(p)
  BY <1>2 DEF Rollback, TransitionCheck, TransitionWrite, BeginRollback, Conclude
<1>3. CASE Revert(p)
  BY <1>3 DEF Revert, TransitionCheck, TransitionWrite, RecoverApplying, Conclude
<1>4. CASE \/ Boot(p) \/ ListIncomplete(p) \/ (\E t \in Tx : Recover(p, t))
           \/ RecoveryDone(p) \/ ShellReady(p) \/ ShellFails(p)
           \/ ConfirmCommit(p) \/ ConfirmStamp(p)
  BY <1>4 DEF Boot, ListIncomplete, Recover, RecoveryDone, ShellReady, ShellFails,
              ConfirmCommit, ConfirmStamp
<1>5. CASE \/ (\E t \in Tx : PrepareBegin(p, t))
           \/ PrepareDone(p) \/ PrepareAbandoned(p) \/ PrepareFails(p)
           \/ TransitionWrite(p, "fail.write", "failed", "shell")
           \/ IssueTicket(p)
           \/ (\E q \in Proc : StartWorker(p, q)) \/ StartWorkerFails(p)
  BY <1>5 DEF PrepareBegin, PrepareDone, PrepareAbandoned, PrepareFails,
              TransitionWrite, IssueTicket, StartWorker, StartWorkerFails
<1>6. CASE \/ VerifyTicket(p) \/ ConsumeTicket(p) \/ WaitTimesOut(p)
           \/ BeginActivation(p)
           \/ IssueHealth(p) \/ WriteHealth(p) \/ IssueHealthFails(p)
  BY <1>6 DEF VerifyTicket, ConsumeTicket, WaitTimesOut, BeginActivation,
              IssueHealth, WriteHealth, IssueHealthFails
<1>7. CASE \/ (\E q \in Proc : LaunchCandidate(p, q)) \/ LaunchFails(p)
           \/ RecordLaunch(p) \/ RecordLaunchFails(p)
           \/ ProbeEarlyExit(p) \/ ProbePassed(p)
  BY <1>7 DEF LaunchCandidate, LaunchFails, RecordLaunch, RecordLaunchFails,
              ProbeEarlyExit, ProbePassed
<1>8. CASE UserStep(p)
  BY <1>8 DEF UserStep, StartHost, HostExit, PrepareStart, RequestRestart,
              StartRecoverCommand
<1>9. CASE Crash(p)
  BY <1>9 DEF Crash
<1> QED
  BY <1>1, <1>2, <1>3, <1>4, <1>5, <1>6, <1>7, <1>8, <1>9 DEF Step

\* A move needs that its target is free, so that it destroys nothing.
LEMMA MovesKeepFirst ==
  ASSUME TInv, FirstDeploymentKept, NEW p \in Proc,
         Step(p) \/ UserStep(p) \/ Crash(p)
  PROVE  FirstDeploymentKept'
<1> USE ConstantsAssumption DEF TInv, DiskType, FirstDeploymentKept
<1>a. pc[p] \in {"backup", "promote", "abandon", "quarantine", "restore", "reinstate"}
        => arg[p] \in Tx
  BY DEF LocalType, ArgOK, ArgLabel, WorkerLabel, Activating, RollingBack, Reverting
<1>1. CASE UNCHANGED <<current, previous, failedCurrent, abandoned>>
  BY <1>1
<1>2. CASE BackUpCurrent(p)
  BY <1>2 DEF BackUpCurrent
<1>3. CASE PromoteCandidate(p)
  BY <1>3 DEF PromoteCandidate
<1>4. CASE AbandonCurrent(p)
  BY <1>4, <1>a DEF AbandonCurrent
<1>5. CASE QuarantineCurrent(p)
  BY <1>5, <1>a DEF QuarantineCurrent
<1>6. CASE \/ RestorePrevious(p, "restore", "undo.check")
           \/ RestorePrevious(p, "reinstate", "revert.check")
  BY <1>6 DEF RestorePrevious
<1> QED
  BY <1>1, <1>2, <1>3, <1>4, <1>5, <1>6, WhatMoves

\* Whatever runs beside what, whatever crashes where: no slot move destroys the
\* deployment the first update started from.
THEOREM FirstIsNeverLost ==
  Spec => []FirstDeploymentKept
<1>1. Init => FirstDeploymentKept
  BY DEF Init, FirstDeploymentKept
<1>2. TInv /\ FirstDeploymentKept /\ [Next]_vars => FirstDeploymentKept'
  <2> SUFFICES ASSUME TInv, FirstDeploymentKept, [Next]_vars
               PROVE  FirstDeploymentKept'
    OBVIOUS
  <2>1. CASE \E t \in Tx : Expire(t)
    BY <2>1 DEF Expire, slots, FirstDeploymentKept
  <2>2. CASE UNCHANGED vars
    BY <2>2 DEF vars, disk, slots, FirstDeploymentKept
  <2> QED
    BY <2>1, <2>2, MovesKeepFirst DEF Next
<1> QED
  BY <1>1, <1>2, InitType, NextType, PTL DEF Spec

-------------------------------------------------------------------------------
(* One activation of a transaction.                                          *)

\* A process that activates, or is about to, has used up the one ticket of its
\* transaction, and nobody else has it.
Activates == {"activate"} \cup Activating

UsedOnce ==
  \A p \in Proc :
    pc[p] \in Activates =>
      /\ consumed[arg[p]]
      /\ \A q \in Proc : pc[q] \in Activates /\ arg[q] = arg[p] => q = p

NobodyBegins ==
  /\ consumed' = consumed
  /\ \A q \in Proc :
       pc'[q] \in Activates => pc[q] \in Activates /\ arg'[q] = arg[q]

\* Only who consumes a ticket begins to activate.
LEMMA WhoActivates ==
  ASSUME TInv, NEW p \in Proc, Step(p) \/ UserStep(p) \/ Crash(p)
  PROVE  NobodyBegins \/ ConsumeTicket(p)
<1> USE DEF TInv, LocalType, NobodyBegins, Activates, Activating, Goto, End,
            Require, locals, disk, slots, files, health_vars
<1>1. CASE Activate(p)
  BY <1>1 DEF Activate, PersistPhase, TransitionCheck, TransitionWrite,
              BackUpCurrent, PromoteCandidate
<1>2. CASE Rollback(p)
  BY <1>2 DEF Rollback, TransitionCheck, TransitionWrite, BeginRollback,
              QuarantineCurrent, RestorePrevious, Conclude, Finish
<1>3. CASE Revert(p)
  BY <1>3 DEF Revert, TransitionCheck, TransitionWrite, RecoverApplying,
              AbandonCurrent, RestorePrevious, Conclude, Finish
<1>4. CASE \/ Boot(p) \/ ListIncomplete(p) \/ (\E t \in Tx : Recover(p, t))
           \/ RecoveryDone(p) \/ ShellReady(p) \/ ShellFails(p)
           \/ ConfirmCommit(p) \/ ConfirmStamp(p)
  BY <1>4 DEF Boot, ListIncomplete, Recover, RecoveryDone, ShellReady, ShellFails,
              ConfirmCommit, ConfirmStamp
<1>5. CASE \/ (\E t \in Tx : PrepareBegin(p, t))
           \/ PrepareDone(p) \/ PrepareAbandoned(p) \/ PrepareFails(p)
           \/ TransitionWrite(p, "fail.write", "failed", "shell")
           \/ IssueTicket(p)
           \/ (\E q \in Proc : StartWorker(p, q)) \/ StartWorkerFails(p)
  BY <1>5 DEF PrepareBegin, PrepareDone, PrepareAbandoned, PrepareFails,
              TransitionWrite, IssueTicket, StartWorker, StartWorkerFails,
              StartProcess
<1>6. CASE \/ VerifyTicket(p) \/ WaitTimesOut(p) \/ BeginActivation(p)
           \/ IssueHealth(p) \/ WriteHealth(p) \/ IssueHealthFails(p)
  BY <1>6 DEF VerifyTicket, WaitTimesOut, BeginActivation, IssueHealth,
              WriteHealth, IssueHealthFails, Answer
<1>7. CASE \/ (\E q \in Proc : LaunchCandidate(p, q)) \/ LaunchFails(p)
           \/ RecordLaunch(p) \/ RecordLaunchFails(p)
           \/ ProbeEarlyExit(p) \/ ProbePassed(p)
  BY <1>7 DEF LaunchCandidate, LaunchFails, RecordLaunch, RecordLaunchFails,
              ProbeEarlyExit, ProbePassed, StartProcess, Answer
<1>8. CASE UserStep(p)
  BY <1>8 DEF UserStep, StartHost, HostExit, PrepareStart, RequestRestart,
              StartRecoverCommand, StartProcess, Preparing
<1>9. CASE Crash(p)
  BY <1>9 DEF Crash
<1> QED
  BY <1>1, <1>2, <1>3, <1>4, <1>5, <1>6, <1>7, <1>8, <1>9 DEF Step

\* A second worker may be started while a transaction is still prepared; the ticket
\* that was used up before keeps it from beginning.
THEOREM ActivatedOnce ==
  Spec => []OneActivation
<1>1. Init => UsedOnce
  BY DEF Init, UsedOnce, Activates, Activating
<1>2. TInv /\ UsedOnce /\ [Next]_vars => UsedOnce'
  <2> SUFFICES ASSUME TInv, UsedOnce, [Next]_vars
               PROVE  UsedOnce'
    OBVIOUS
  <2>1. CASE (\E t \in Tx : Expire(t)) \/ UNCHANGED vars
    BY <2>1 DEF Expire, vars, disk, files, health_vars, locals, UsedOnce
  <2>2. CASE NobodyBegins
    BY <2>2 DEF NobodyBegins, UsedOnce
  <2>3. ASSUME NEW p \in Proc, ConsumeTicket(p)
        PROVE  UsedOnce'
    <3>a. arg[p] \in Tx /\ arg \in [Proc -> Tx \cup {NoTx}]
      BY <2>3 DEF ConsumeTicket, TInv, LocalType, ArgOK, ArgLabel, WorkerLabel
    <3>1. CASE consumed[arg[p]]
      BY <2>3, <3>1, <3>a DEF ConsumeTicket, Require, End, Goto, locals, UsedOnce,
            TInv, LocalType, Activates, Activating
    <3>2. CASE ~consumed[arg[p]]
      <4>1. /\ pc' = [pc EXCEPT ![p] = "activate"] /\ arg' = arg
            /\ consumed' = [consumed EXCEPT ![arg[p]] = TRUE]
        BY <2>3, <3>2 DEF ConsumeTicket, Require, Goto, locals
      <4>2. \A q \in Proc : q # p /\ pc'[q] \in Activates =>
              pc[q] \in Activates /\ arg[q] # arg[p]
        BY <4>1, <3>2 DEF UsedOnce, TInv, LocalType
      <4> QED
        BY <4>1, <4>2, <3>a DEF UsedOnce, TInv, DiskType, LocalType
    <3> QED
      BY <3>1, <3>2
  <2> QED
    BY <2>1, <2>2, <2>3, WhoActivates DEF Next
<1>3. UsedOnce => OneActivation
  BY DEF UsedOnce, OneActivation, Activates
<1> QED
  BY <1>1, <1>2, <1>3, InitType, NextType, PTL DEF Spec

-------------------------------------------------------------------------------
(* A rollback that begins finds what it needs.                               *)

\* Who makes a rollback pending, and from where.
LEMMA WhoPends ==
  ASSUME TInv, NEW p \in Proc, NEW t \in Tx,
         Step(p) \/ UserStep(p) \/ Crash(p),
         journal'[t] = "rollback-pending"
  PROVE  \/ journal[t] = "rollback-pending"
         \/ /\ TransitionWrite(p, "pend.write", "rollback-pending", "rollback")
            /\ t = arg[p]
         \/ /\ TransitionWrite(p, "revert.write", "rollback-pending",
                               "reverted.check")
            /\ t = arg[p]
<1> USE DEF TInv, DiskType, disk, files, health_vars, SetJournal
<1>1. CASE Activate(p)
  BY <1>1 DEF Activate, PersistPhase, TransitionCheck, TransitionWrite,
              BackUpCurrent, PromoteCandidate
<1>2. CASE Rollback(p)
  BY <1>2 DEF Rollback, TransitionCheck, TransitionWrite, BeginRollback,
              QuarantineCurrent, RestorePrevious, Conclude
<1>3. CASE Revert(p)
  BY <1>3 DEF Revert, TransitionCheck, TransitionWrite, RecoverApplying,
              AbandonCurrent, RestorePrevious, Conclude
<1>4. CASE \/ Boot(p) \/ ListIncomplete(p) \/ (\E u \in Tx : Recover(p, u))
           \/ RecoveryDone(p) \/ ShellReady(p) \/ ShellFails(p)
           \/ ConfirmCommit(p) \/ ConfirmStamp(p)
  BY <1>4 DEF Boot, ListIncomplete, Recover, RecoveryDone, ShellReady, ShellFails,
              ConfirmCommit, ConfirmStamp
<1>5. CASE \/ (\E u \in Tx : PrepareBegin(p, u))
           \/ PrepareDone(p) \/ PrepareAbandoned(p) \/ PrepareFails(p)
           \/ TransitionWrite(p, "fail.write", "failed", "shell")
           \/ IssueTicket(p)
           \/ (\E q \in Proc : StartWorker(p, q)) \/ StartWorkerFails(p)
  BY <1>5 DEF PrepareBegin, PrepareDone, PrepareAbandoned, PrepareFails,
              TransitionWrite, IssueTicket, StartWorker, StartWorkerFails
<1>6. CASE \/ VerifyTicket(p) \/ ConsumeTicket(p) \/ WaitTimesOut(p)
           \/ BeginActivation(p)
           \/ IssueHealth(p) \/ WriteHealth(p) \/ IssueHealthFails(p)
  BY <1>6 DEF VerifyTicket, ConsumeTicket, WaitTimesOut, BeginActivation,
              IssueHealth, WriteHealth, IssueHealthFails
<1>7. CASE \/ (\E q \in Proc : LaunchCandidate(p, q)) \/ LaunchFails(p)
           \/ RecordLaunch(p) \/ RecordLaunchFails(p)
           \/ ProbeEarlyExit(p) \/ ProbePassed(p)
  BY <1>7 DEF LaunchCandidate, LaunchFails, RecordLaunch, RecordLaunchFails,
              ProbeEarlyExit, ProbePassed
<1>8. CASE UserStep(p)
  BY <1>8 DEF UserStep, StartHost, HostExit, PrepareStart, RequestRestart,
              StartRecoverCommand
<1>9. CASE Crash(p)
  BY <1>9 DEF Crash
<1> QED
  BY <1>1, <1>2, <1>3, <1>4, <1>5, <1>6, <1>7, <1>8, <1>9 DEF Step

\* A rollback that moves the slots goes on to its last write.
LEMMA TornGoesOn ==
  ASSUME ~TornRollback, IInv, NEW p \in Proc,
         Step(p) \/ UserStep(p) \/ Crash(p),
         NEW q \in Proc, pc[q] \in Torn, journal'[arg[q]] = "rollback-pending"
  PROVE  pc'[q] \in Torn /\ arg'[q] = arg[q]
<1> USE DEF Torn, Goto, End, locals, Require
<1>a. TInv /\ LocalType /\ DiskType /\ At(q) /\ Kinds
  BY DEF IInv, TInv
<1>b. arg[q] \in Tx
  BY <1>a DEF LocalType, ArgOK, ArgLabel, WorkerLabel, RollingBack, Reverting
<1>1. CASE p # q
  <2> USE <1>1, <1>a DEF LocalType
  <2>1. CASE Activate(p) \/ Rollback(p) \/ Revert(p)
    BY <2>1 DEF Activate, Rollback, Revert, PersistPhase, TransitionCheck,
         TransitionWrite, BackUpCurrent, PromoteCandidate, BeginRollback,
         QuarantineCurrent, RestorePrevious, Conclude, Finish,
         RecoverApplying, AbandonCurrent
  <2>2. CASE \/ Boot(p) \/ ListIncomplete(p) \/ (\E t \in Tx : Recover(p, t))
             \/ RecoveryDone(p) \/ ShellReady(p) \/ ShellFails(p)
             \/ ConfirmCommit(p) \/ ConfirmStamp(p)
    BY <2>2 DEF Boot, ListIncomplete, Recover, RecoveryDone, ShellReady,
         ShellFails, ConfirmCommit, ConfirmStamp
  <2>3. CASE \/ (\E t \in Tx : PrepareBegin(p, t))
             \/ PrepareDone(p) \/ PrepareAbandoned(p) \/ PrepareFails(p)
             \/ TransitionWrite(p, "fail.write", "failed", "shell")
             \/ IssueTicket(p)
             \/ (\E r \in Proc : StartWorker(p, r)) \/ StartWorkerFails(p)
    BY <2>3 DEF PrepareBegin, PrepareDone, PrepareAbandoned, PrepareFails,
         TransitionWrite, IssueTicket, StartWorker, StartWorkerFails,
         StartProcess, Running
  <2>4. CASE \/ VerifyTicket(p) \/ ConsumeTicket(p) \/ WaitTimesOut(p)
             \/ BeginActivation(p)
             \/ IssueHealth(p) \/ WriteHealth(p) \/ IssueHealthFails(p)
    BY <2>4 DEF VerifyTicket, ConsumeTicket, WaitTimesOut, BeginActivation,
         IssueHealth, WriteHealth, IssueHealthFails, Answer
  <2>5. CASE \/ (\E r \in Proc : LaunchCandidate(p, r)) \/ LaunchFails(p)
             \/ RecordLaunch(p) \/ RecordLaunchFails(p)
             \/ ProbeEarlyExit(p) \/ ProbePassed(p)
    BY <2>5 DEF LaunchCandidate, LaunchFails, RecordLaunch, RecordLaunchFails,
         ProbeEarlyExit, ProbePassed, StartProcess, Answer, Running
  <2>6. CASE UserStep(p) \/ Crash(p)
    BY <2>6 DEF UserStep, StartHost, HostExit, PrepareStart, RequestRestart,
         StartRecoverCommand, StartProcess, Crash
  <2> QED
    BY <2>1, <2>2, <2>3, <2>4, <2>5, <2>6 DEF Step
<1>2. CASE p = q
  <2> USE <1>2, <1>a, <1>b DEF LocalType
  <2>1. pc[p] = "restore" => previous # Absent /\ current = Absent
    BY ConstantsAssumption DEF At, BackedUp, Good
  <2>2. pc[p] # "restore" => journal[arg[p]] = "rollback-pending"
    BY DEF At, Pending
  <2>3. CASE Activate(p) \/ Rollback(p) \/ Revert(p)
    BY <2>1, <2>2, <2>3
    DEF Activate, Rollback, Revert, PersistPhase, TransitionCheck,
        TransitionWrite, BackUpCurrent, PromoteCandidate, BeginRollback,
        QuarantineCurrent, RestorePrevious, Conclude, SetJournal,
        RecoverApplying, AbandonCurrent, DiskType
  <2>4. CASE \/ Boot(p) \/ ListIncomplete(p) \/ (\E t \in Tx : Recover(p, t))
             \/ RecoveryDone(p) \/ ShellReady(p) \/ ShellFails(p)
             \/ ConfirmCommit(p) \/ ConfirmStamp(p)
    BY <2>4 DEF Boot, ListIncomplete, Recover, RecoveryDone, ShellReady,
         ShellFails, ConfirmCommit, ConfirmStamp
  <2>5. CASE \/ (\E t \in Tx : PrepareBegin(p, t))
             \/ PrepareDone(p) \/ PrepareAbandoned(p) \/ PrepareFails(p)
             \/ TransitionWrite(p, "fail.write", "failed", "shell")
             \/ IssueTicket(p)
             \/ (\E r \in Proc : StartWorker(p, r)) \/ StartWorkerFails(p)
    BY <2>5 DEF PrepareBegin, PrepareDone, PrepareAbandoned, PrepareFails,
         TransitionWrite, IssueTicket, StartWorker, StartWorkerFails
  <2>6. CASE \/ VerifyTicket(p) \/ ConsumeTicket(p) \/ WaitTimesOut(p)
             \/ BeginActivation(p)
             \/ IssueHealth(p) \/ WriteHealth(p) \/ IssueHealthFails(p)
    BY <2>6 DEF VerifyTicket, ConsumeTicket, WaitTimesOut, BeginActivation,
         IssueHealth, WriteHealth, IssueHealthFails
  <2>7. CASE \/ (\E r \in Proc : LaunchCandidate(p, r)) \/ LaunchFails(p)
             \/ RecordLaunch(p) \/ RecordLaunchFails(p)
             \/ ProbeEarlyExit(p) \/ ProbePassed(p)
    BY <2>7 DEF LaunchCandidate, LaunchFails, RecordLaunch, RecordLaunchFails,
         ProbeEarlyExit, ProbePassed
  <2>8. CASE UserStep(p) \/ Crash(p)
    BY <2>8 DEF UserStep, StartHost, HostExit, PrepareStart, RequestRestart,
         StartRecoverCommand, Crash, Preparing, Running
  <2> QED
    BY <2>3, <2>4, <2>5, <2>6, <2>7, <2>8 DEF Step
<1> QED
  BY <1>1, <1>2

\* What a pending rollback needs stays in place until the rollback moves it.
LEMMA ReadyStep ==
  ASSUME ~Overlap, ~TornRollback, IInv, RollbackReady, EveryLaunchRecorded,
         NEW p \in Proc, Step(p) \/ UserStep(p) \/ Crash(p)
  PROVE  RollbackReady'
<1> SUFFICES ASSUME NEW t \in Tx, journal'[t] = "rollback-pending",
                    \A q \in Proc : arg'[q] = t => pc'[q] \notin Torn
             PROVE  previous' # Absent /\ failedCurrent'[t] = Absent
  BY DEF RollbackReady
<1>a. TInv /\ LocalType /\ DiskType /\ At(p) /\ DiskOf(t) /\ Disk
  BY DEF IInv, TInv, Disk
<1>b. pc[p] \in ArgLabel => arg[p] \in Tx
  BY <1>a DEF LocalType, ArgOK
<1> USE DEF ArgLabel, WorkerLabel, Activating, RollingBack, Reverting
<1>1. CASE TransitionWrite(p, "pend.write", "rollback-pending", "rollback")
           /\ t = arg[p]
  BY <1>1, <1>a, ConstantsAssumption
  DEF TransitionWrite, slots, At, DiskOf, Promoted, Good
<1>2. CASE TransitionWrite(p, "revert.write", "rollback-pending",
                           "reverted.check") /\ t = arg[p]
  BY <1>2, <1>a DEF TransitionWrite, Goto, locals, Torn, LocalType
<1>3. CASE journal[t] = "rollback-pending"
  <2>1. \A q \in Proc : arg[q] = t => pc[q] \notin Torn
    BY TornGoesOn
  <2>2. /\ previous # Absent /\ failedCurrent[t] = Absent
        /\ Promoted(t)
    BY <2>1, <1>3, <1>a
    DEF RollbackReady, EveryLaunchRecorded, DiskOf, BackedUp, Untouched
  <2>3. t # Absent /\ current = t
    BY <2>2, ConstantsAssumption DEF Promoted
  <2>4. ~Applying(p) \/ pc[p] \notin ArgLabel
    BY <1>3, <1>a, <1>b DEF Applying, Disk, Incomplete, Terminal, JournalState
  <2>5. CASE UNCHANGED <<current, previous, failedCurrent, abandoned>>
    BY <2>2, <2>5
  <2>6. CASE BackUpCurrent(p) \/ PromoteCandidate(p) \/ AbandonCurrent(p)
             \/ RestorePrevious(p, "restore", "undo.check")
             \/ RestorePrevious(p, "reinstate", "revert.check")
    BY <2>3, <2>4, <2>6, <1>a
    DEF BackUpCurrent, PromoteCandidate, AbandonCurrent, RestorePrevious, At,
        BackedUp
  <2>7. CASE QuarantineCurrent(p)
    <3>1. pc[p] = "quarantine" /\ arg[p] = t
      BY <2>7, <1>3, <1>a, <1>b
      DEF QuarantineCurrent, At, Pending, Disk, Incomplete, Terminal,
          JournalState
    <3>2. current # Absent /\ failedCurrent[arg[p]] = Absent
      BY <2>2, <2>3, <3>1
    <3> QED
      BY <2>7, <3>1, <3>2, <1>a
      DEF QuarantineCurrent, Require, Goto, locals, Torn, LocalType
  <2> QED
    BY <2>5, <2>6, <2>7, WhatMoves
<1> QED
  BY <1>1, <1>2, <1>3, <1>a, WhoPends

\* If no crash hits inside a slot rollback and every launch could be recorded, a
\* rollback that is pending has the deployment to go back to in Previous and a
\* free quarantine.
THEOREM RollbacksAreReady ==
  ASSUME ~Overlap, ~TornRollback
  PROVE  Spec => [](EveryLaunchRecorded => RollbackReady)
<1> DEFINE Ready == EveryLaunchRecorded => RollbackReady
<1>1. Init => Ready
  BY DEF Init, RollbackReady, None
<1>2. TInv /\ (EveryLaunchRecorded => IInv) /\ Ready /\ [Next]_vars => Ready'
  <2> SUFFICES ASSUME TInv, EveryLaunchRecorded => IInv, Ready, [Next]_vars,
                      EveryLaunchRecorded'
               PROVE  RollbackReady'
    OBVIOUS
  <2>0. EveryLaunchRecorded /\ IInv /\ RollbackReady
    BY FailuresStay
  <2>1. CASE (\E t \in Tx : Expire(t)) \/ UNCHANGED vars
    BY <2>0, <2>1 DEF Expire, vars, disk, slots, files, health_vars, locals,
                      RollbackReady, Unrecorded
  <2> QED
    BY <2>0, <2>1, ReadyStep DEF Next
<1>3. Spec => []TInv
  BY InitType, NextType, PTL DEF Spec
<1> HIDE DEF Ready
<1>4. Spec => []Ready
  BY <1>1, <1>2, <1>3, Invariance, PTL DEF Spec
<1> QED
  BY <1>4 DEF Ready
================================================================================
