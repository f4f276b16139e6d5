------------------------ MODULE VendorRepositoryProofs -------------------------
(***************************************************************************)
(* What holds of VendorRepository for any transactions, clock and maximum  *)
(* age: what says that it was rolled back is as before, an activation      *)
(* implements JournaledMutation, and it is asked for metadata that is not  *)
(* too old.  The invariant says which record goes with which step of       *)
(* execute(), recoverSource() and deactivate(), that only what is          *)
(* contested is worked on twice, and that the one who put the source back  *)
(* finds the previous one there as long as it owns it.                     *)
(***************************************************************************)
EXTENDS VendorRepository, TLAPS

Steps   == {"idle", "prepare", "stage", "staged", "refresh", "undo", "undone", "stuck"}
Records == {"none", "prepared", "source-staged", "committed", "rolled-back", "failed",
            "deactivated"}
Redos   == {"recover", "recovered", "deactivate", "deactivated"}

VendorType ==
  /\ now \in Nat /\ release \in [date : Nat, until : Nat]
  /\ evidence \in [expires : Int, date : Nat]
  /\ order \in [Tx -> [document : Source, expires : Int, date : Nat]]
  /\ source \in Source /\ previous \in [Tx -> Source]
  /\ record \in [Tx -> Records] /\ pc \in [Tx -> Steps] /\ apt \in [Tx -> BOOLEAN]
  /\ redo \in [at : Redos, tx : Tx] \cup {NoRedo}
  /\ owner \in Tx \cup {NoTx} /\ contested \subseteq Tx

\* Evidence and plans expire with the metadata they are from.
ExpiresInTime ==
  /\ evidence.expires <= evidence.date + MaxAge
  /\ \A t \in Tx : order[t].expires <= order[t].date + MaxAge

\* The record that goes with a step of execute(), and when APT may have been started.
RecordOfStep(t) ==
  /\ pc[t] = "prepare" => record[t] = "none"
  /\ pc[t] \in {"stage", "staged"} => record[t] = "prepared" /\ ~apt[t]
  /\ pc[t] = "refresh" => record[t] = "source-staged"
  /\ pc[t] \in {"undo", "undone", "stuck"} => record[t] \in {"prepared", "source-staged"}
  /\ record[t] = "none" => ~apt[t]

\* The record that goes with a step of recoverSource() or deactivate().
RecordOfRedo(t) ==
  /\ redo.at \in {"recover", "recovered"} => record[t] \in Unsettled
  /\ redo.at \in {"deactivate", "deactivated"} => record[t] = "committed"
  /\ pc[t] = "idle"

\* A transaction has just put the previous source back, or says that it did.
SaysRestored(t) ==
  \/ pc[t] = "undone"
  \/ redo.tx = t /\ redo.at \in {"recovered", "deactivated"}
  \/ record[t] \in {"rolled-back", "deactivated"} /\ redo.tx # t /\ pc[t] = "idle"

Coherent(t) ==
  /\ RecordOfStep(t)
  /\ redo.tx = t => RecordOfRedo(t)
  /\ SaysRestored(t) /\ owner = t => source = previous[t]

Uncontested == \A t \in Tx \ contested : Coherent(t)

IInv == VendorType /\ ExpiresInTime /\ Uncontested

-------------------------------------------------------------------------------
\* Nothing is planned, recorded or restored.
LEMMA VendorInit ==
  ASSUME VendorAssumption
  PROVE  Init => IInv
<1> SUFFICES ASSUME Init
             PROVE  IInv
  OBVIOUS
<1>1. [document |-> None, expires |-> 0, date |-> 0] \in
        [document : Source, expires : Int, date : Nat]
  BY DEF Source, None
<1>2. release \in [date : Nat, until : Nat]
  BY DEF Init, Never, VendorAssumption
<1>3. evidence \in [expires : Int, date : Nat] /\ evidence.expires <= 0 /\ evidence.date = 0
  BY DEF Init
<1>4. VendorType
  BY <1>1, <1>2, <1>3 DEF Init, VendorType, Steps, Records, Redos, Source, None
<1>5. \A t \in Tx : order[t].expires = 0 /\ order[t].date = 0
  BY DEF Init
<1>6. MaxAge \in Nat
  BY DEF VendorAssumption
<1>7. evidence.expires \in Int
  BY <1>3
<1>8. ExpiresInTime
  BY <1>3, <1>5, <1>6, <1>7 DEF ExpiresInTime
<1>9. \A t \in Tx : record[t] = "none" /\ pc[t] = "idle" /\ ~apt[t]
  BY DEF Init
<1>10. \A t \in Tx : redo.tx # t
  BY DEF Init, NoRedo, VendorAssumption
<1>11. Uncontested
  BY <1>9, <1>10, Zenon DEF Uncontested, Coherent, RecordOfStep, SaysRestored
<1> QED
  BY <1>4, <1>8, <1>11 DEF IInv

\* Metadata is valid for the maximum age at most.
LEMMA ExpiryCapped ==
  ASSUME VendorAssumption, NEW r \in [date : Nat, until : Nat]
  PROVE  Expiry(r) \in Int /\ Expiry(r) <= r.date + MaxAge
BY DEF VendorAssumption, Expiry

\* Records, plans, evidence and steps stay what they are, and in time.
LEMMA VendorTyped ==
  ASSUME VendorAssumption, VendorType, ExpiresInTime, Next
  PROVE  VendorType' /\ ExpiresInTime'
<1> USE DEF vTrust, vClaims, Goto, Write, WriteFails, Puts, Keeps
<1> USE DEF VendorType
<1>1. CASE Publish
  <2>1. \A u \in {now + 1, Never} : [date |-> now, until |-> u] \in [date : Nat, until : Nat]
    BY DEF Never, VendorAssumption
  <2> QED
    BY <1>1, <2>1 DEF Publish, ExpiresInTime
<1>2. CASE Collect
  <2>1. Expiry(release) \in Int /\ Expiry(release) <= release.date + MaxAge
    BY ExpiryCapped
  <2>2. evidence' \in [expires : Int, date : Nat]
        /\ evidence'.expires = Expiry(release) /\ evidence'.date = release.date
    BY <1>2, <2>1 DEF Collect
  <2> QED
    BY <1>2, <2>1, <2>2 DEF Collect, ExpiresInTime
<1>3. CASE Tick \/ Edit \/ Crash
  BY <1>3 DEF Tick, Edit, Crash, ExpiresInTime, Steps, Source, Foreign
<1>4. ASSUME NEW t \in Tx, NEW d \in Documents, Bind(t, d)
      PROVE  VendorType' /\ ExpiresInTime'
  <2> DEFINE p == Plan(d, evidence)
  <2>1. /\ p \in [document : Source, expires : Int, date : Nat]
        /\ p.expires = evidence.expires /\ p.date = evidence.date
    BY DEF Plan, Source
  <2>2. order' = [order EXCEPT ![t] = p]
        /\ UNCHANGED <<vTrust, previous, apt, source, record, pc, redo, owner, contested>>
    BY <1>4 DEF Bind
  <2> HIDE DEF p
  <2>3. \A u \in Tx : order'[u] = IF u = t THEN p ELSE order[u]
    BY <2>2
  <2> QED
    BY <2>1, <2>2, <2>3 DEF ExpiresInTime
<1>5. ASSUME NEW t \in Tx,
             Ask(t) \/ Prepare(t) \/ Stage(t) \/ Staged(t) \/ Refreshed(t)
      PROVE  VendorType' /\ ExpiresInTime'
  <2>1. VendorType'
    <3> USE DEF Steps, Records
    <3>1. CASE Ask(t)
      BY <3>1 DEF Ask
    <3>2. CASE Prepare(t)
      <4>1. \/ /\ previous' = [previous EXCEPT ![t] = source]
               /\ record' = [record EXCEPT ![t] = "prepared"]
               /\ pc' = [pc EXCEPT ![t] = "stage"]
            \/ UNCHANGED <<previous, record>> /\ pc' = [pc EXCEPT ![t] = "idle"]
        BY <3>2 DEF Prepare
      <4> QED
        BY <3>2, <4>1 DEF Prepare
    <3>3. CASE Stage(t)
      BY <3>3 DEF Stage
    <3>4. CASE Staged(t)
      BY <3>4 DEF Staged
    <3>5. CASE Refreshed(t)
      BY <3>5 DEF Refreshed
    <3> QED
      BY <1>5, <3>1, <3>2, <3>3, <3>4, <3>5
  <2>2. UNCHANGED <<evidence, order>>
    BY <1>5 DEF Ask, Prepare, Stage, Staged, Refreshed
  <2> QED
    BY <2>1, <2>2 DEF ExpiresInTime
<1>6. ASSUME NEW t \in Tx,
             Undo(t) \/ Undone(t) \/ RecoverAsk(t) \/ Recover(t) \/ Recovered(t)
             \/ DeactivateAsk(t) \/ Deactivate(t) \/ Deactivated(t)
      PROVE  VendorType' /\ ExpiresInTime'
  <2>1. VendorType'
    <3> USE DEF Steps, Records, Redos, NoRedo
    <3>1. CASE Undo(t)
      BY <3>1 DEF Undo
    <3>2. CASE Undone(t)
      BY <3>2 DEF Undone
    <3>3. CASE RecoverAsk(t)
      BY <3>3 DEF RecoverAsk
    <3>4. CASE Recover(t)
      BY <3>4 DEF Recover
    <3>5. CASE Recovered(t)
      BY <3>5 DEF Recovered
    <3>6. CASE DeactivateAsk(t)
      BY <3>6 DEF DeactivateAsk
    <3>7. CASE Deactivate(t)
      BY <3>7 DEF Deactivate
    <3>8. CASE Deactivated(t)
      BY <3>8 DEF Deactivated
    <3> QED
      BY <1>6, <3>1, <3>2, <3>3, <3>4, <3>5, <3>6, <3>7, <3>8
  <2>2. UNCHANGED <<evidence, order>>
    BY <1>6 DEF Undo, Undone, RecoverAsk, Recover, Recovered, DeactivateAsk,
                Deactivate, Deactivated
  <2> QED
    BY <2>1, <2>2 DEF ExpiresInTime
<1> QED
  BY <1>1, <1>2, <1>3, <1>4, <1>5, <1>6 DEF Next

\* Whoever moves, the record of every other transaction goes with its step, and what
\* nobody contests is worked on by one only.
LEMMA VendorCoherent ==
  ASSUME VendorAssumption, VendorType, Uncontested, Next, NEW u \in Tx \ contested'
  PROVE  Coherent(u)'
<1> USE DEF VendorType, Coherent, RecordOfStep, RecordOfRedo, SaysRestored, Steps, Records,
      Redos, Unsettled, vTrust, vClaims, Goto, Write, WriteFails, Puts, Keeps, Redoing
<1>1. NoTx \notin Tx
  BY DEF VendorAssumption
<1>2. contested \subseteq contested'
  BY DEF Next, Publish, Collect, Tick, Edit, Crash, Bind, Ask, Prepare, Stage, Staged,
     Refreshed, Undo, Undone, RecoverAsk, Recover, Recovered, DeactivateAsk, Deactivate,
     Deactivated
<1>3. Coherent(u)
  BY <1>2 DEF Uncontested
<1>4. CASE Publish \/ Collect \/ Tick
  BY <1>3, <1>4 DEF Publish, Collect, Tick
<1>5. CASE Edit
  BY <1>1, <1>3, <1>5 DEF Edit
<1>6. CASE Crash
  BY <1>1, <1>3, <1>6 DEF Crash, NoRedo
<1>7. ASSUME NEW t \in Tx, NEW d \in Documents, Bind(t, d)
      PROVE  Coherent(u)'
  BY <1>3, <1>7 DEF Bind
<1>8. ASSUME NEW t \in Tx, Ask(t)
      PROVE  Coherent(u)'
  BY <1>1, <1>3, <1>8 DEF Ask, NoRedo
<1>9. ASSUME NEW t \in Tx, Prepare(t)
      PROVE  Coherent(u)'
  BY <1>3, <1>9 DEF Prepare
<1>10. ASSUME NEW t \in Tx, Stage(t)
       PROVE  Coherent(u)'
  BY <1>3, <1>10 DEF Stage
<1>11. ASSUME NEW t \in Tx, Staged(t)
       PROVE  Coherent(u)'
  BY <1>3, <1>11 DEF Staged
<1>12. ASSUME NEW t \in Tx, Refreshed(t)
       PROVE  Coherent(u)'
  BY <1>3, <1>12 DEF Refreshed
<1>13. ASSUME NEW t \in Tx, Undo(t)
       PROVE  Coherent(u)'
  BY <1>3, <1>13 DEF Undo
<1>14. ASSUME NEW t \in Tx, Undone(t)
       PROVE  Coherent(u)'
  BY <1>3, <1>14 DEF Undone
<1>15. ASSUME NEW t \in Tx, RecoverAsk(t)
       PROVE  Coherent(u)'
  BY <1>1, <1>3, <1>15 DEF RecoverAsk, Live, NoRedo
<1>16. ASSUME NEW t \in Tx, Recover(t)
       PROVE  Coherent(u)'
  BY <1>1, <1>3, <1>16 DEF Recover, NoRedo
<1>17. ASSUME NEW t \in Tx, Recovered(t)
       PROVE  Coherent(u)'
  BY <1>1, <1>3, <1>17 DEF Recovered, NoRedo
<1>18. ASSUME NEW t \in Tx, DeactivateAsk(t)
       PROVE  Coherent(u)'
  BY <1>1, <1>3, <1>18 DEF DeactivateAsk, NoRedo
<1>19. ASSUME NEW t \in Tx, Deactivate(t)
       PROVE  Coherent(u)'
  BY <1>1, <1>3, <1>19 DEF Deactivate, NoRedo
<1>20. ASSUME NEW t \in Tx, Deactivated(t)
       PROVE  Coherent(u)'
  BY <1>1, <1>3, <1>20 DEF Deactivated, NoRedo
<1> QED
  BY <1>4, <1>5, <1>6, <1>7, <1>8, <1>9, <1>10, <1>11, <1>12, <1>13, <1>14, <1>15,
     <1>16, <1>17, <1>18, <1>19, <1>20 DEF Next

\* The invariant is one.
LEMMA VendorStep ==
  ASSUME VendorAssumption
  PROVE  IInv /\ Next => IInv'
BY VendorTyped, VendorCoherent DEF IInv, Uncontested

LEMMA VendorStutter == IInv /\ UNCHANGED vVars => IInv'
BY DEF IInv, VendorType, ExpiresInTime, Uncontested, Coherent, RecordOfStep, RecordOfRedo,
   SaysRestored, vVars, vTrust, vClaims

\* What says that it was rolled back is as before.
LEMMA VendorRestored == IInv => RolledBackIsRestored
BY DEF IInv, VendorType, Uncontested, Coherent, SaysRestored, RolledBackIsRestored

-------------------------------------------------------------------------------
(* An activation implements JournaledMutation.                               *)

\* Each transaction takes one of its steps, or is contested.
LEMMA VendorMoves ==
  ASSUME VendorAssumption, IInv, Next, NEW u \in Tx
  PROVE  Abstract!Moves(u)
<1> USE DEF IInv, VendorType, Coherent, RecordOfStep, RecordOfRedo, Steps, Records,
      Redos, Unsettled, vTrust, vClaims, Goto, Write, WriteFails, Redoing,
      Phase, Abstract!Moves, Abstract!Stays, Abstract!Begin, Abstract!Touch, Abstract!End,
      Abstract!Reconcile, Abstract!Contest, Abstract!Ended
<1>1. contested \subseteq contested'
  BY DEF Next, Publish, Collect, Tick, Edit, Crash, Bind, Ask, Prepare, Stage, Staged,
     Refreshed, Undo, Undone, RecoverAsk, Recover, Recovered, DeactivateAsk, Deactivate,
     Deactivated
<1>2. CASE u \in contested'
  BY <1>2
<1>3. CASE u \notin contested'
  <2>1. Coherent(u) /\ u \notin contested
    BY <1>1, <1>3 DEF Uncontested
  <2>2. CASE UNCHANGED <<record, apt>>
    BY <1>3, <2>1, <2>2
  <2>3. ASSUME NEW t \in Tx, Prepare(t)
        PROVE  Abstract!Moves(u)
    BY <1>3, <2>1, <2>3 DEF Prepare
  <2>4. ASSUME NEW t \in Tx, Staged(t)
        PROVE  Abstract!Moves(u)
    BY <1>3, <2>1, <2>4 DEF Staged
  <2>5. ASSUME NEW t \in Tx, Refreshed(t)
        PROVE  Abstract!Moves(u)
    BY <1>3, <2>1, <2>5 DEF Refreshed
  <2>6. ASSUME NEW t \in Tx, Undone(t)
        PROVE  Abstract!Moves(u)
    BY <1>3, <2>1, <2>6 DEF Undone
  <2>7. ASSUME NEW t \in Tx, Recovered(t)
        PROVE  Abstract!Moves(u)
    BY <1>3, <2>1, <2>7 DEF Recovered
  <2>8. ASSUME NEW t \in Tx, Deactivated(t)
        PROVE  Abstract!Moves(u)
    BY <1>3, <2>1, <2>8 DEF Deactivated
  <2>9. \/ UNCHANGED <<record, apt>>
        \/ \E t \in Tx : \/ Prepare(t) \/ Staged(t) \/ Refreshed(t) \/ Undone(t)
                         \/ Recovered(t) \/ Deactivated(t)
    BY DEF Next, Publish, Collect, Tick, Edit, Crash, Bind, Ask, Stage, Undo, RecoverAsk,
       Recover, DeactivateAsk, Deactivate
  <2> QED
    BY <2>2, <2>3, <2>4, <2>5, <2>6, <2>7, <2>8, <2>9
<1> QED
  BY <1>2, <1>3

\* From a state of the invariant, every step is one of the abstract journal.
LEMMA VendorJournaled ==
  ASSUME VendorAssumption
  PROVE  IInv /\ [Next]_vVars => ActivationJournaledStep
<1> SUFFICES ASSUME IInv, [Next]_vVars
             PROVE  ActivationJournaledStep
  OBVIOUS
<1>1. CASE Next
  BY <1>1, VendorMoves DEF Abstract!Next, ActivationJournaledStep
<1>2. CASE UNCHANGED vVars
  BY <1>2 DEF vVars, vClaims, Abstract!vars, Phase, ActivationJournaledStep
<1> QED
  BY <1>1, <1>2

\* An activation is asked for metadata that is not older than the maximum age.
LEMMA VendorFresh ==
  ASSUME VendorAssumption
  PROVE  IInv /\ [Next]_vVars => ActivatesFreshMetadataStep
<1> SUFFICES ASSUME IInv, [Next]_vVars, NEW u \in Tx, pc[u] = "idle", pc'[u] = "prepare"
             PROVE  now - order[u].date <= MaxAge
  BY DEF ActivatesFreshMetadataStep
<1> USE DEF IInv, VendorType, Goto
<1>1. Ask(u)
  BY DEF Next, Publish, Collect, Tick, Edit, Crash, Bind, Ask, Prepare, Stage, Staged,
     Refreshed, Undo, Undone, RecoverAsk, Recover, Recovered, DeactivateAsk, Deactivate,
     Deactivated, vVars
<1>2. order[u].expires >= now
  BY <1>1 DEF Ask, Valid
<1>3. order[u].expires <= order[u].date + MaxAge
  BY DEF ExpiresInTime
<1>4. now \in Int /\ order[u].expires \in Int /\ order[u].date \in Int /\ MaxAge \in Int
  BY DEF VendorAssumption
<1> QED
  BY <1>2, <1>3, <1>4

-------------------------------------------------------------------------------
\* Whoever rolled a record back left the source as it was before, as long as nobody has
\* changed it since.
THEOREM WhatIsRolledBackIsRestored ==
  ASSUME VendorAssumption
  PROVE  Spec => []RolledBackIsRestored
BY VendorInit, VendorStep, VendorStutter, VendorRestored, PTL DEF Spec

\* An activation implements JournaledMutation over crashes, recoveries and deactivation,
\* but for transactions that are recovered while they run.
THEOREM ActivationImplementsJournal ==
  ASSUME VendorAssumption
  PROVE  Spec => ActivationJournaled
<1>1. Init => Abstract!Init
  <2> SUFFICES ASSUME Init PROVE Abstract!Init
    OBVIOUS
  <2>1. \A t \in Tx : record[t] = "none" /\ apt = [s \in Tx |-> FALSE] /\ contested = {}
    BY DEF Init
  <2>2. \A t \in Tx : Phase(t) = "none"
    BY <2>1 DEF Phase
  <2>3. apt = [t \in Tx |-> FALSE]
    BY DEF Init
  <2> QED
    BY <2>2, <2>3 DEF Abstract!Init
<1> QED
  BY <1>1, VendorInit, VendorStep, VendorStutter, VendorJournaled, PTL
  DEF Spec, ActivationJournaled

\* No activation is asked for metadata older than the maximum age.
THEOREM ActivationsAreFresh ==
  ASSUME VendorAssumption
  PROVE  Spec => ActivatesFreshMetadata
BY VendorInit, VendorStep, VendorStutter, VendorFresh, PTL DEF Spec, ActivatesFreshMetadata
================================================================================
