----------------------------- MODULE FirmwareUpdate -----------------------------
(***************************************************************************)
(* Firmware updates of one device.  Two services update firmware through   *)
(* fwupdmgr and keep their records in the same directory: the reviewed one *)
(* (system/hardware), which takes a plan whose digest has been confirmed,  *)
(* and the granted one (system/firmware), which asks polkit.  A reviewed   *)
(* update is verified afterwards, a granted one reconciled after a reboot. *)
(* fwupd and its daemon are external: they go on when a service gives up   *)
(* or dies, and always install the latest release.                         *)
(***************************************************************************)
EXTENDS Naturals

CONSTANTS
  Tx,     \* transactions, each with a fresh id
  NoTx,   \* no transaction
  Look    \* verifications and reconciliations at a time

NoTxAssumption == NoTx \notin Tx

VARIABLES
  version,    \* what the device runs
  latest,     \* the latest release LVFS offers for it
  reboot,     \* do its releases need a reboot?
  pending,    \* staged for the next boot, 0: nothing
  history,    \* fwupd's history of the device
  record,     \* status in the record of a transaction, or "none"
  plan,       \* the service, and the versions it is bound to
  pc,         \* where update() of a transaction is
  child,      \* its fwupdmgr: "none", "running", "ok" or "error"
  rebooted,   \* a granted one: has the boot id changed since it began?
  look,       \* verify() and reconcileAfterBoot(): what they have read
  disturbed,  \* history: others changed the device while it was looked at
  overlapped  \* history: looked at twice at a time

device == <<version, latest, reboot, pending, history>>
flags  == <<disturbed, overlapped>>
fwVars == <<device, record, plan, pc, child, rebooted, look, flags>>

Newest     == 2
Unknown    == Newest + 1   \* the version of a candidate that names none
Reviewed   == "reviewed"
Granted    == "granted"
SafeSource == {"committed", "staged", "verified"}
NoLook     == [at |-> "idle", tx |-> NoTx, was |-> "none", seen |-> 0, proven |-> FALSE]

Goto(t, l)     == pc' = [pc EXCEPT ![t] = l]
Write(t, s)    == record' = [record EXCEPT ![t] = s]
WriteFails     == UNCHANGED record
Service(t)     == plan[t].service
LookedAt(t)    == \E l \in Look : look[l].tx = t
Looking(t)     == pc[t] = "settle" \/ LookedAt(t)

\* A release that the inventory offers, and the plan that is bound to it.
Offered == latest > version
Bound(k) == [service |-> k, from |-> version, target |-> latest, seen |-> 0]

\* The directory can be listed while it holds records of this service only, and
\* none of them is active.
Idle == \A t \in Tx :
  record[t] # "none" => Service(t) = Reviewed /\ record[t] \notin {"prepared", "executing"}

Planned(t, p) ==
  /\ pc[t] = "idle" /\ record[t] = "none" /\ child[t] = "none"
  /\ Offered
  /\ plan' = [plan EXCEPT ![t] = p]
  /\ Goto(t, "asked")
  /\ UNCHANGED <<device, record, child, rebooted, look, flags>>

\* plan() of the reviewed service.
Discover(t) == Planned(t, Bound(Reviewed))

\* buildFirmwareUpdatePlan of the candidate that is handed to the granted service,
\* which need not name the version it updates from.
Nominate(t) ==
  \E from \in {version, Unknown} : Planned(t, [Bound(Granted) EXCEPT !.from = from])

-------------------------------------------------------------------------------
(* The reviewed service.                                                     *)

\* assertPlan: what is handed in is not the plan its digest was made of.
Refuse(t) ==
  /\ pc[t] = "asked" /\ Service(t) = Reviewed
  /\ Goto(t, "idle")
  /\ UNCHANGED <<device, record, plan, child, rebooted, look, flags>>

\* The plan is confirmed and nothing else is active.
Admit(t) ==
  /\ pc[t] = "asked" /\ Service(t) = Reviewed
  /\ Goto(t, IF Idle THEN "revalidate" ELSE "idle")
  /\ UNCHANGED <<device, record, plan, child, rebooted, look, flags>>

\* The live inventory still offers what was reviewed, fwupdmgr is trusted, and
\* the record is written.
Prepare(t) ==
  /\ pc[t] = "revalidate"
  /\ \/ /\ Bound(Reviewed) = plan[t] /\ Offered
        /\ Write(t, "prepared") /\ Goto(t, "launch")
     \/ WriteFails /\ Goto(t, "idle")
  /\ UNCHANGED <<device, plan, child, rebooted, look, flags>>

\* The record is written again and fwupdmgr started; if that write fails, the
\* failure may or may not be written.
Launch(t) ==
  /\ pc[t] = "launch"
  /\ \/ Write(t, "executing") /\ Goto(t, "wait") /\ child' = [child EXCEPT ![t] = "running"]
     \/ (Write(t, "failed") \/ WriteFails) /\ Goto(t, "idle") /\ UNCHANGED child
  /\ UNCHANGED <<device, plan, rebooted, look, flags>>

\* fwupdmgr answers, or is given up after 30 minutes.
Answer(t) ==
  /\ pc[t] = "wait" /\ Service(t) = Reviewed
  /\ \/ child[t] = "ok" /\ Write(t, IF reboot THEN "staged" ELSE "committed")
     \/ Write(t, "failed")
     \/ WriteFails
  /\ Goto(t, "idle")
  /\ UNCHANGED <<device, plan, child, rebooted, look, flags>>

-------------------------------------------------------------------------------
(* The granted service.                                                      *)

\* The version is still the one of the candidate, if it names one, and the record
\* is written before polkit is asked.
Begin(t) ==
  /\ pc[t] = "asked" /\ Service(t) = Granted
  /\ \/ plan[t].from \in {version, Unknown} /\ Write(t, "planned") /\ Goto(t, "authorize")
     \/ WriteFails /\ Goto(t, "idle")
  /\ rebooted' = [rebooted EXCEPT ![t] = FALSE]
  /\ UNCHANGED <<device, plan, child, look, flags>>

\* A refusal, or a write that fails, leaves the record as it is.
Authorize(t) ==
  /\ pc[t] = "authorize"
  /\ \/ Write(t, "authorized") /\ Goto(t, "execute")
     \/ WriteFails /\ Goto(t, "idle")
  /\ UNCHANGED <<device, plan, child, rebooted, look, flags>>

Execute(t) ==
  /\ pc[t] = "execute"
  /\ \/ Write(t, "executing") /\ Goto(t, "wait") /\ child' = [child EXCEPT ![t] = "running"]
     \/ Write(t, "executing") /\ Goto(t, "fail") /\ UNCHANGED child
     \/ WriteFails /\ Goto(t, "idle") /\ UNCHANGED child
  /\ UNCHANGED <<device, plan, rebooted, look, flags>>

\* After fwupdmgr the inventory is read again.
Observe(t) ==
  /\ pc[t] = "wait" /\ Service(t) = Granted
  /\ \/ /\ child[t] = "ok"
        /\ Goto(t, "settle")
        /\ plan' = [plan EXCEPT ![t].seen = version]
     \/ Goto(t, "fail") /\ UNCHANGED plan
  /\ UNCHANGED <<device, record, child, rebooted, look, flags>>

\* What the inventory showed decides; an unexpected version is written and fails.
Settle(t) ==
  /\ pc[t] = "settle"
  /\ LET applied == plan[t].seen = plan[t].target IN
       \/ applied /\ Write(t, "committed") /\ Goto(t, "idle")
       \/ ~applied /\ reboot /\ Write(t, "staged") /\ Goto(t, "idle")
       \/ ~applied /\ ~reboot /\ Write(t, "verification-failed") /\ Goto(t, "fail")
       \/ WriteFails /\ Goto(t, "fail")
  /\ UNCHANGED <<device, plan, child, rebooted, look, flags>>

Fail(t) ==
  /\ pc[t] = "fail"
  /\ Write(t, "failed") \/ WriteFails
  /\ Goto(t, "idle")
  /\ UNCHANGED <<device, plan, child, rebooted, look, flags>>

-------------------------------------------------------------------------------
(* verify() of reviewed and reconcileAfterBoot() of granted updates.         *)

\* The record is read; a granted one must be staged, and the boot id changed.
LookRead(l, t) ==
  /\ look[l].at = "idle"
  /\ \/ Service(t) = Reviewed /\ record[t] \in SafeSource
     \/ Service(t) = Granted /\ record[t] = "staged" /\ rebooted[t]
  /\ look' = [look EXCEPT ![l] = [NoLook EXCEPT !.at = "inventory", !.tx = t, !.was = record[t]]]
  /\ overlapped' = IF LookedAt(t) THEN overlapped \cup {t} ELSE overlapped
  /\ UNCHANGED <<device, record, plan, pc, child, rebooted, disturbed>>

\* The inventory shows the version and the history of the device.
LookInventory(l) ==
  /\ look[l].at = "inventory"
  /\ LET failed == history = "failed"
         proven == ~failed /\ (~reboot \/ history = "success")
     IN look' = [look EXCEPT ![l] = [@ EXCEPT !.at = "write", !.seen = version, !.proven = proven]]
  /\ UNCHANGED <<device, record, plan, pc, child, rebooted, flags>>

\* Mutant: what is not verified waits for its reboot again.
VerdictResets(l) ==
  LET t == look[l].tx
      applied == look[l].seen = plan[t].target
  IN CASE Service(t) = Granted /\ applied -> "committed"
       [] Service(t) = Granted /\ ~applied -> "failed"
       [] Service(t) = Reviewed /\ applied /\ look[l].proven -> "verified"
       [] OTHER -> "staged"

\* assessmentFor of verify: version and history, and otherwise the record that
\* was read; the reconciliation looks at the version only.
Verdict(l) ==
  LET t == look[l].tx
      applied == look[l].seen = plan[t].target
  IN CASE Service(t) = Granted /\ applied -> "committed"
       [] Service(t) = Granted /\ ~applied -> "failed"
       [] Service(t) = Reviewed /\ applied /\ look[l].proven -> "verified"
       [] OTHER -> look[l].was

LookWrite(l) ==
  /\ look[l].at = "write"
  /\ Write(look[l].tx, Verdict(l)) \/ WriteFails
  /\ look' = [look EXCEPT ![l] = NoLook]
  /\ UNCHANGED <<device, plan, pc, child, rebooted, flags>>

-------------------------------------------------------------------------------
(* fwupd (external), LVFS and faults.                                        *)

Disturbs(t) == disturbed' = disturbed \cup {u \in Tx \ {t} : Looking(u)}

ManagerSucceeds(t) ==
  /\ child[t] = "running"
  /\ child' = [child EXCEPT ![t] = "ok"]
  /\ IF reboot
     THEN pending' = latest /\ history' = "pending" /\ UNCHANGED version
     ELSE version' = latest /\ history' = "success" /\ UNCHANGED pending
  /\ Disturbs(t)
  /\ UNCHANGED <<latest, reboot, record, plan, pc, rebooted, look, overlapped>>

ManagerFails(t) ==
  /\ child[t] = "running"
  /\ child' = [child EXCEPT ![t] = "error"]
  /\ history' \in {history, "failed"}
  /\ UNCHANGED <<version, latest, reboot, pending, record, plan, pc, rebooted, look, flags>>

Release ==
  /\ latest < Newest /\ latest' = latest + 1
  /\ UNCHANGED <<version, reboot, pending, history, record, plan, pc, child, rebooted, look, flags>>

Crash ==
  /\ pc' = [t \in Tx |-> "idle"] /\ look' = [l \in Look |-> NoLook]
  /\ UNCHANGED <<device, record, plan, child, rebooted, flags>>

\* What is staged is applied, or fails to be.
Reboot ==
  /\ pc' = [t \in Tx |-> "idle"] /\ look' = [l \in Look |-> NoLook]
  /\ child' = [t \in Tx |-> IF child[t] = "running" THEN "error" ELSE child[t]]
  /\ rebooted' = [t \in Tx |-> record[t] # "none" /\ Service(t) = Granted]
  /\ pending' = 0
  /\ \/ pending > 0 /\ version' = pending /\ history' = "success"
     \/ UNCHANGED version /\ history' = IF pending > 0 THEN "failed" ELSE history
  /\ UNCHANGED <<latest, reboot, record, plan, flags>>

Init ==
  /\ version = 0 /\ latest = 1 /\ reboot \in BOOLEAN /\ pending = 0
  /\ history \in {"none", "success"}
  /\ record = [t \in Tx |-> "none"]
  /\ plan = [t \in Tx |-> Bound(Reviewed)]
  /\ pc = [t \in Tx |-> "idle"]
  /\ child = [t \in Tx |-> "none"]
  /\ rebooted = [t \in Tx |-> FALSE]
  /\ look = [l \in Look |-> NoLook]
  /\ disturbed = {} /\ overlapped = {}

Next ==
  \/ \E t \in Tx :
       \/ Discover(t) \/ Nominate(t)
       \/ Refuse(t) \/ Admit(t) \/ Prepare(t) \/ Launch(t) \/ Answer(t)
       \/ Begin(t) \/ Authorize(t) \/ Execute(t) \/ Observe(t) \/ Settle(t) \/ Fail(t)
       \/ ManagerSucceeds(t) \/ ManagerFails(t)
       \/ \E l \in Look : LookRead(l, t)
  \/ \E l \in Look : LookInventory(l) \/ LookWrite(l)
  \/ Release \/ Crash \/ Reboot

Spec == Init /\ [][Next]_fwVars

-------------------------------------------------------------------------------
Phase(t) ==
  IF t \in overlapped THEN "contested"
  ELSE CASE record[t] = "none" -> "none"
         [] record[t] \in {"committed", "verified"} -> "committed"
         [] record[t] \in {"failed", "verification-failed"} -> "stuck"
         [] OTHER -> "active"

Abstract == INSTANCE JournaledMutation WITH
  phase <- [t \in Tx |-> Phase(t)],
  touched <- [t \in Tx |-> child[t] # "none"]

\* Both services keep the journal they promise: fwupdmgr is started under an
\* active record, a firmware transaction is committed once and only after it, and
\* no verification, reconciliation, crash or failed write takes that back; only
\* two verifications at a time can.
FirmwareJournaledStep == [Abstract!Next]_(Abstract!vars)
FirmwareJournaled == Abstract!Init /\ [][FirmwareJournaledStep]_fwVars

\* "postUpdateInventoryRequired", "targetVersionMatchRequired": the granted service
\* commits, and a reviewed update is called verified, only while the device runs
\* the version that was planned, unless another update changed it meanwhile.  The
\* committed of the reviewed service is not meant: that one says that fwupdmgr
\* exited with 0, whichever release it found.
ObservedFirmwareIsTargetStep ==
  \A t \in Tx :
    /\ record'[t] # record[t] /\ t \notin disturbed
    /\ record'[t] = "verified" \/ (record'[t] = "committed" /\ Service(t) = Granted)
    => version = plan[t].target
ObservedFirmwareIsTarget == [][ObservedFirmwareIsTargetStep]_fwVars

-------------------------------------------------------------------------------
(* Why: the record, the step and the child of an update go together, and   *)
(* what is looked at stays as it was read.                                   *)

Steps ==
  {"idle", "asked", "revalidate", "launch", "authorize", "execute", "wait", "settle", "fail"}
Statuses ==
  {"none", "prepared", "planned", "authorized", "executing", "verification-failed", "failed"}
    \cup SafeSource

FirmwareType ==
  /\ version \in Nat /\ latest \in Nat /\ reboot \in BOOLEAN /\ pending \in Nat
  /\ history \in {"none", "success", "pending", "failed"}
  /\ record \in [Tx -> Statuses] /\ pc \in [Tx -> Steps] /\ rebooted \in [Tx -> BOOLEAN]
  /\ child \in [Tx -> {"none", "running", "ok", "error"}]
  /\ plan \in [Tx -> [service : {Reviewed, Granted}, from : Nat, target : Nat, seen : Nat]]
  /\ look \in [Look -> {NoLook} \cup
       [at : {"inventory", "write"}, tx : Tx, was : SafeSource, seen : Nat, proven : BOOLEAN]]
  /\ disturbed \subseteq Tx /\ overlapped \subseteq Tx

\* The record and the child that go with a step of update(), and whose step it is.
Updating(t) ==
  /\ pc[t] \in {"asked", "revalidate"} => record[t] = "none"
  /\ pc[t] = "launch" => record[t] = "prepared" /\ child[t] = "none"
  /\ pc[t] = "authorize" => record[t] = "planned" /\ child[t] = "none"
  /\ pc[t] = "execute" => record[t] = "authorized" /\ child[t] = "none"
  /\ pc[t] = "wait" => record[t] = "executing" /\ child[t] # "none"
  /\ pc[t] = "settle" => record[t] = "executing" /\ child[t] = "ok"
  /\ pc[t] = "fail" => record[t] \in {"executing", "verification-failed"}
  /\ pc[t] \in {"revalidate", "launch"} => Service(t) = Reviewed
  /\ pc[t] \in {"authorize", "execute", "settle", "fail"} => Service(t) = Granted
  /\ record[t] = "none" => child[t] = "none"
  /\ record[t] \in SafeSource => child[t] = "ok"
  /\ record[t] = "verified" => Service(t) = Reviewed

\* What is looked at is not updated any more, and its record is the one that was read,
\* but for other looks at it.
LooksAt(l, t) ==
  look[l].tx = t =>
    /\ pc[t] = "idle" /\ child[t] = "ok" /\ record[t] \in SafeSource \cup {"failed"}
    /\ Service(t) = Granted => look[l].was = "staged"
    /\ t \notin overlapped => record[t] = look[l].was
    /\ \A m \in Look : look[m].tx = t /\ m # l => t \in overlapped

\* The version that was seen is the one that the device runs.
SeenIsVersion(t) ==
  t \notin disturbed =>
    /\ pc[t] = "settle" => plan[t].seen = version
    /\ \A l \in Look : look[l].tx = t /\ look[l].at = "write" => look[l].seen = version

SomeLook(t, s) == \E l \in Look : look[l].tx = t /\ look[l].was \in s

\* One verification said verified while another was under way that had not read so:
\* the device still runs what was planned.
VerifiedMeanwhile(t) ==
  /\ t \notin disturbed
  /\ record[t] = "verified" \/ SomeLook(t, {"verified"})
  /\ record[t] # "verified" \/ SomeLook(t, SafeSource \ {"verified"})
  => version = plan[t].target

UpdateCoherent(t) ==
  /\ Updating(t) /\ SeenIsVersion(t) /\ VerifiedMeanwhile(t)
  /\ \A l \in Look : LooksAt(l, t)

FirmwareInv == FirmwareType /\ \A t \in Tx : UpdateCoherent(t)
================================================================================
