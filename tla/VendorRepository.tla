---------------------------- MODULE VendorRepository ----------------------------
(***************************************************************************)
(* Activation of one vendor repository: the evidence of its signed         *)
(* metadata, the binding of that evidence to the policy of the machine,    *)
(* the activation plan, and VendorRepositoryActivationTransactionService,  *)
(* which writes the APT source and refreshes its metadata, with recovery   *)
(* and deactivation.  The broker that runs it may crash anywhere and       *)
(* authorizations take any time; nothing keeps two transactions on the     *)
(* same repository apart.                                                  *)
(***************************************************************************)
EXTENDS Integers

CONSTANTS
  Tx,        \* transactions, each with a fresh id
  NoTx,      \* none of them
  MaxTime,   \* bound of the clock
  MaxAge     \* MAX_INRELEASE_AGE_MS

VendorAssumption == NoTx \notin Tx /\ MaxTime \in Nat /\ MaxAge \in Nat

VARIABLES
  now,        \* the clock
  release,    \* the signed metadata of the vendor: Date and Valid-Until
  evidence,   \* when the evidence that was collected expires, and its Date
  order,      \* the activation plan of a transaction
  source,     \* the APT source on disk, 0: none
  record,     \* state in the record of a transaction, or "none"
  previous,   \* previousSource in that record
  pc,         \* where execute() of a transaction is
  apt,        \* has apt-get update been started for it?
  redo,       \* recoverSource() and deactivate(): where, and of what
  owner,      \* history: the last transaction that changed the source
  contested   \* history: transactions that were recovered while they ran

vTrust  == <<now, release, evidence>>
vClaims == <<order, previous, apt>>
vVars   == <<vTrust, vClaims, source, record, pc, redo, owner, contested>>

Documents   == 1..2
None        == 0
Foreign     == 3
Source      == {None, Foreign} \cup Documents
Never       == MaxTime + MaxAge + 1
NoRedo      == [at |-> "idle", tx |-> NoTx]

\* What recoverSource() accepts.
Unsettled == {"prepared", "source-staged", "failed"}

Goto(t, l)     == pc' = [pc EXCEPT ![t] = l]
Write(t, s)    == record' = [record EXCEPT ![t] = s]
WriteFails     == UNCHANGED record
Puts(t, s)     == source' = s /\ owner' = t
Keeps          == UNCHANGED <<source, owner>>
Redoing(t, l)  == redo.tx = t /\ redo.at = l
Live(t)        == pc[t] # "idle"

-------------------------------------------------------------------------------
(* Evidence, binding and plan.                                               *)

\* verifyInReleaseFreshness: the effective end of validity.
Expiry(r) ==
  IF r.until < r.date + MaxAge THEN r.until ELSE r.date + MaxAge

Fresh(r) == r.date < r.until /\ now <= Expiry(r)

\* The vendor signs new metadata (external).
Publish ==
  /\ release.date < now
  /\ \E u \in {now + 1, Never} : release' = [date |-> now, until |-> u]
  /\ UNCHANGED <<now, evidence, vClaims, source, record, pc, redo, owner, contested>>

\* collectVendorRepositoryEvidence: fetched, fresh and signed by the pinned key.
Collect ==
  /\ Fresh(release)
  /\ evidence' = [expires |-> Expiry(release), date |-> release.date]
  /\ UNCHANGED <<now, release, vClaims, source, record, pc, redo, owner, contested>>

\* Evidence, a binding and a plan are valid up to their common expiry.
Valid(e) == e.expires >= now

\* buildVendorRepositoryActivationPlan keeps the expiry of its evidence.
Plan(document, e) == [document |-> document, expires |-> e.expires, date |-> e.date]

\* The review that the policy of the machine allows, whose source document the
\* administrator may change any time, is bound to evidence that is still valid,
\* and the plan is built from the binding.
Bind(t, document) ==
  /\ record[t] = "none" /\ pc[t] = "idle" /\ order[t].document = None
  /\ Valid(evidence)
  /\ order' = [order EXCEPT ![t] = Plan(document, evidence)]
  /\ UNCHANGED <<vTrust, previous, apt, source, record, pc, redo, owner, contested>>

-------------------------------------------------------------------------------
(* execute().                                                                *)

\* The plan is valid still, confirmed, and its keyring the reviewed one.
Ask(t) ==
  /\ pc[t] = "idle" /\ record[t] = "none"
  /\ order[t].document # None /\ Valid(order[t])
  /\ Goto(t, "prepare")
  /\ UNCHANGED <<vTrust, vClaims, source, record, redo, owner, contested>>

\* Authorized: the source is read and recorded; or refused.
Prepare(t) ==
  /\ pc[t] = "prepare"
  /\ \/ /\ previous' = [previous EXCEPT ![t] = source]
        /\ Write(t, "prepared") /\ Goto(t, "stage")
     \/ WriteFails /\ Goto(t, "idle") /\ UNCHANGED previous
  /\ UNCHANGED <<vTrust, order, apt, source, redo, owner, contested>>

Stage(t) ==
  /\ pc[t] = "stage"
  /\ \/ Puts(t, order[t].document) /\ Goto(t, "staged")
     \/ Keeps /\ Goto(t, "undo")
  /\ UNCHANGED <<vTrust, vClaims, record, redo, contested>>

\* The record says so before the metadata is refreshed.
Staged(t) ==
  /\ pc[t] = "staged"
  /\ \/ Write(t, "source-staged") /\ Goto(t, "refresh") /\ apt' = [apt EXCEPT ![t] = TRUE]
     \/ WriteFails /\ Goto(t, "undo") /\ UNCHANGED apt
  /\ UNCHANGED <<vTrust, order, previous, source, redo, owner, contested>>

\* apt-get update answers; the source must still be what was written.
Refreshed(t) ==
  /\ pc[t] = "refresh"
  /\ \/ source = order[t].document /\ Write(t, "committed") /\ Goto(t, "idle")
     \/ WriteFails /\ Goto(t, "undo")
  /\ UNCHANGED <<vTrust, vClaims, source, redo, owner, contested>>

\* The previous source is restored, whatever is there now.
Undo(t) ==
  /\ pc[t] = "undo"
  /\ \/ Puts(t, previous[t]) /\ Goto(t, "undone")
     \/ Keeps /\ Goto(t, "stuck")
  /\ UNCHANGED <<vTrust, vClaims, record, redo, contested>>

Undone(t) ==
  /\ pc[t] \in {"undone", "stuck"}
  /\ \/ Write(t, IF pc[t] = "undone" THEN "rolled-back" ELSE "failed")
     \/ WriteFails
  /\ Goto(t, "idle")
  /\ UNCHANGED <<vTrust, vClaims, source, redo, owner, contested>>

-------------------------------------------------------------------------------
(* recoverSource() and deactivate().                                         *)

RecoverAsk(t) ==
  /\ redo.at = "idle" /\ record[t] \in Unsettled
  /\ redo' = [at |-> "recover", tx |-> t]
  /\ contested' = IF Live(t) THEN contested \cup {t} ELSE contested
  /\ UNCHANGED <<vTrust, vClaims, source, record, pc, owner>>

\* Mutant: a recovery that cannot restore says it has.
RecoverUnrestored(t) ==
  /\ Redoing(t, "recover")
  /\ \/ /\ source \in {None, order[t].document, previous[t]}
        /\ Puts(t, previous[t])
     \/ Keeps
  /\ redo' = [at |-> "recovered", tx |-> t]
  /\ UNCHANGED <<vTrust, vClaims, record, pc, contested>>

\* Authorized: the source is restored unless it has diverged.
Recover(t) ==
  /\ Redoing(t, "recover")
  /\ \/ /\ source \in {None, order[t].document, previous[t]}
        /\ Puts(t, previous[t])
        /\ redo' = [at |-> "recovered", tx |-> t]
     \/ Keeps /\ redo' = NoRedo
  /\ UNCHANGED <<vTrust, vClaims, record, pc, contested>>

\* The record that was read is written as rolled back.
Recovered(t) ==
  /\ Redoing(t, "recovered")
  /\ Write(t, "rolled-back") \/ WriteFails
  /\ redo' = NoRedo
  /\ UNCHANGED <<vTrust, vClaims, source, pc, owner, contested>>

DeactivateAsk(t) ==
  /\ redo.at = "idle" /\ record[t] = "committed" /\ source = order[t].document
  /\ redo' = [at |-> "deactivate", tx |-> t]
  /\ UNCHANGED <<vTrust, vClaims, source, record, pc, owner, contested>>

\* Authorized: the source is restored without another look.
Deactivate(t) ==
  /\ Redoing(t, "deactivate")
  /\ \/ Puts(t, previous[t]) /\ redo' = [at |-> "deactivated", tx |-> t]
     \/ Keeps /\ redo' = NoRedo
  /\ UNCHANGED <<vTrust, vClaims, record, pc, contested>>

\* rolled-back, with explicitDeactivation in its result.
Deactivated(t) ==
  /\ Redoing(t, "deactivated")
  /\ Write(t, "deactivated") \/ WriteFails
  /\ redo' = NoRedo
  /\ UNCHANGED <<vTrust, vClaims, source, pc, owner, contested>>

-------------------------------------------------------------------------------
(* The world.                                                                *)

Tick ==
  /\ now < MaxTime /\ now' = now + 1
  /\ UNCHANGED <<release, evidence, vClaims, source, record, pc, redo, owner, contested>>

\* Somebody edits the source by hand.
Edit ==
  /\ source \in Documents /\ source' = Foreign /\ owner' = NoTx
  /\ UNCHANGED <<vTrust, vClaims, record, pc, redo, contested>>

Crash ==
  /\ pc' = [t \in Tx |-> "idle"] /\ redo' = NoRedo
  /\ UNCHANGED <<vTrust, vClaims, source, record, owner, contested>>

Init ==
  /\ now = 0 /\ release \in [date : {0}, until : {1, Never}]
  /\ evidence = [expires |-> -1, date |-> 0]
  /\ order = [t \in Tx |-> [document |-> None, expires |-> 0, date |-> 0]]
  /\ source = None
  /\ record = [t \in Tx |-> "none"]
  /\ previous = [t \in Tx |-> None]
  /\ pc = [t \in Tx |-> "idle"]
  /\ apt = [t \in Tx |-> FALSE]
  /\ redo = NoRedo /\ owner = NoTx /\ contested = {}

Next ==
  \/ Publish \/ Collect \/ Tick \/ Edit \/ Crash
  \/ \E t \in Tx :
       \/ (\E d \in Documents : Bind(t, d)) \/ Ask(t) \/ Prepare(t) \/ Stage(t) \/ Staged(t) \/ Refreshed(t)
       \/ Undo(t) \/ Undone(t)
       \/ RecoverAsk(t) \/ Recover(t) \/ Recovered(t)
       \/ DeactivateAsk(t) \/ Deactivate(t) \/ Deactivated(t)

Spec == Init /\ [][Next]_vVars

-------------------------------------------------------------------------------
Phase(t) ==
  IF t \in contested THEN "contested"
  ELSE CASE record[t] = "none" -> "none"
         [] record[t] \in {"prepared", "source-staged"} -> "active"
         [] record[t] \in {"committed", "deactivated"} -> "committed"
         [] record[t] = "rolled-back" -> "undone"
         [] record[t] = "failed" -> "stuck"

Abstract == INSTANCE JournaledMutation WITH
  phase <- [t \in Tx |-> Phase(t)],
  touched <- apt

\* An activation keeps the journal: apt-get update runs under an active record, a
\* record ends once, and only an explicit deactivation follows a commit; only the
\* recovery of a transaction that is still running breaks that.
ActivationJournaledStep == [Abstract!Next]_(Abstract!vars)

ActivationJournaled == Abstract!Init /\ [][ActivationJournaledStep]_vVars

\* A record that says rolled back left the source as it was before, whoever rolled
\* it back, as long as nobody has changed the source since.
RolledBackIsRestored ==
  \A t \in Tx \ contested : record[t] \in {"rolled-back", "deactivated"} /\ owner = t
                  /\ redo.tx # t /\ pc[t] = "idle" =>
    source = previous[t]

\* "maxInReleaseAgeSeconds": no activation is asked for metadata that its vendor
\* signed longer ago than the maximum age, or that has expired, although the age
\* is only looked at when the evidence is collected.
ActivatesFreshMetadataStep ==
  \A t \in Tx : pc[t] = "idle" /\ pc'[t] = "prepare" =>
     now - order[t].date <= MaxAge

ActivatesFreshMetadata == [][ActivatesFreshMetadataStep]_vVars
================================================================================
