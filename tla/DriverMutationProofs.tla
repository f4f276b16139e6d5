------------------------- MODULE DriverMutationProofs --------------------------
(***************************************************************************)
(* What holds of FirmwareUpdate and DriverMutation for any number of       *)
(* updates, looks and driver mutations: the firmware services implement    *)
(* JournaledMutation and say committed or verified only of what the device *)
(* runs, and a driver mutation is never ahead of the record it delegates   *)
(* to.  The invariant is FirmwareInv, that the record, the step and the    *)
(* child of an update go together and that what is looked at stays as it   *)
(* was read, with FollowsChild, that an update which belongs to a mutation *)
(* waits for its call and keeps what it has answered.                      *)
(***************************************************************************)
EXTENDS DriverMutation, TLAPS

-------------------------------------------------------------------------------
(* The invariant of the firmware services.                                   *)

\* Nothing is planned, recorded or looked at.
LEMMA FirmwareInit ==
  ASSUME NoTxAssumption
  PROVE  Init => FirmwareInv
<1> SUFFICES ASSUME Init
             PROVE  FirmwareInv
  OBVIOUS
<1> DEFINE p == Bound(Reviewed)
<1>1. p \in [service : {Reviewed, Granted}, from : Nat, target : Nat, seen : Nat]
  BY DEF Init, Bound
<1>2. plan = [t \in Tx |-> p]
  BY DEF Init
<1> HIDE DEF p
<1>3. FirmwareType
  BY <1>1, <1>2 DEF Init, FirmwareType, Steps, Statuses
<1>4. \A t \in Tx : record[t] = "none" /\ pc[t] = "idle" /\ child[t] = "none"
  BY DEF Init
<1>5. \A t \in Tx, l \in Look : look[l].tx # t
  BY DEF Init, NoLook, NoTxAssumption
<1>6. \A t \in Tx : UpdateCoherent(t)
  BY <1>4, <1>5 DEF UpdateCoherent, Updating, SeenIsVersion, VerifiedMeanwhile, LooksAt,
    SomeLook, SafeSource
<1> QED
  BY <1>3, <1>6 DEF FirmwareInv

\* What a verification or a reconciliation concludes.
LEMMA VerdictIs ==
  ASSUME NEW l \in Look
  PROVE  /\ Service(look[l].tx) = Granted =>
              \/ Verdict(l) = "committed" /\ look[l].seen = plan[look[l].tx].target
              \/ Verdict(l) = "failed"
         /\ Service(look[l].tx) # Granted =>
              \/ Verdict(l) = "verified" /\ look[l].seen = plan[look[l].tx].target
              \/ Verdict(l) = look[l].was
<1>1. CASE Service(look[l].tx) = Granted
  BY <1>1 DEF Verdict, Reviewed, Granted
<1>2. CASE Service(look[l].tx) # Granted
  BY <1>2 DEF Verdict, Reviewed, Granted
<1> QED
  BY <1>1, <1>2

\* What is looked at is one of the updates.
LEMMA LookIs ==
  ASSUME NoTxAssumption, FirmwareType, NEW l \in Look
  PROVE  /\ look[l].at = "idle" <=> look[l] = NoLook
         /\ look[l].at # "idle" <=> look[l].tx \in Tx
         /\ look[l].at # "idle" =>
              look[l] \in [at : {"inventory", "write"}, tx : Tx, was : SafeSource, seen : Nat,
                           proven : BOOLEAN]
BY DEF NoTxAssumption, FirmwareType, NoLook

\* Whoever plans an update binds it to versions and to a service.
Plans == [service : {Reviewed, Granted}, from : Nat, target : Nat, seen : Nat]

LEMMA PlannedIsPlan ==
  ASSUME FirmwareType, NEW t \in Tx, Discover(t) \/ Nominate(t)
  PROVE  \E p \in Plans : Planned(t, p)
<1>1. CASE Discover(t)
  <2>1. Bound(Reviewed) \in Plans
    BY DEF FirmwareType, Bound, Plans
  <2> QED
    BY <1>1, <2>1 DEF Discover
<1>2. CASE Nominate(t)
  <2>1. PICK from \in {version, Unknown} : Planned(t, [Bound(Granted) EXCEPT !.from = from])
    BY <1>2 DEF Nominate
  <2>2. from \in Nat
    BY DEF FirmwareType, Unknown, Newest
  <2>3. Bound(Granted) \in Plans
    BY DEF FirmwareType, Bound, Plans
  <2>4. [Bound(Granted) EXCEPT !.from = from] \in Plans
    BY <2>2, <2>3 DEF Plans
  <2> QED
    BY <2>1, <2>4
<1> QED
  BY <1>1, <1>2

\* Versions, records, plans and looks stay what they are.
LEMMA FirmwareTyped ==
  ASSUME NoTxAssumption, FirmwareType, Next
  PROVE  FirmwareType'
<1> USE DEF FirmwareType, Steps, Statuses, Goto, Write, WriteFails, device, flags, SafeSource
<1>1. ASSUME NEW t \in Tx, Discover(t) \/ Nominate(t)
      PROVE  FirmwareType'
  <2>1. PICK p \in Plans : Planned(t, p)
    BY <1>1, PlannedIsPlan
  <2> QED
    BY <2>1 DEF Planned, Plans
<1>2. ASSUME NEW t \in Tx, Refuse(t) \/ Admit(t)
      PROVE  FirmwareType'
  BY <1>2 DEF Refuse, Admit
<1>3. ASSUME NEW t \in Tx, Prepare(t)
      PROVE  FirmwareType'
  <2>1. record' \in [Tx -> Statuses]
    BY <1>3 DEF Prepare
  <2>2. pc' \in [Tx -> Steps]
    BY <1>3 DEF Prepare
  <2>3. child' \in [Tx -> {"none", "running", "ok", "error"}]
    BY <1>3 DEF Prepare
  <2>4. UNCHANGED <<device, plan, rebooted, look, flags>>
    BY <1>3 DEF Prepare
  <2> QED
    BY <2>1, <2>2, <2>3, <2>4
<1>4. ASSUME NEW t \in Tx, Launch(t)
      PROVE  FirmwareType'
  <2>1. record' \in [Tx -> Statuses]
    BY <1>4 DEF Launch
  <2>2. pc' \in [Tx -> Steps]
    BY <1>4 DEF Launch
  <2>3. child' \in [Tx -> {"none", "running", "ok", "error"}]
    BY <1>4 DEF Launch
  <2>4. UNCHANGED <<device, plan, rebooted, look, flags>>
    BY <1>4 DEF Launch
  <2> QED
    BY <2>1, <2>2, <2>3, <2>4
<1>5. ASSUME NEW t \in Tx, Answer(t)
      PROVE  FirmwareType'
  BY <1>5 DEF Answer
<1>6. ASSUME NEW t \in Tx, Begin(t)
      PROVE  FirmwareType'
  BY <1>6 DEF Begin
<1>7. ASSUME NEW t \in Tx, Authorize(t)
      PROVE  FirmwareType'
  <2>1. record' \in [Tx -> Statuses]
    BY <1>7 DEF Authorize
  <2>2. pc' \in [Tx -> Steps]
    BY <1>7 DEF Authorize
  <2>3. child' \in [Tx -> {"none", "running", "ok", "error"}]
    BY <1>7 DEF Authorize
  <2>4. UNCHANGED <<device, plan, rebooted, look, flags>>
    BY <1>7 DEF Authorize
  <2> QED
    BY <2>1, <2>2, <2>3, <2>4
<1>8. ASSUME NEW t \in Tx, Execute(t)
      PROVE  FirmwareType'
  BY <1>8 DEF Execute
<1>9. ASSUME NEW t \in Tx, Observe(t)
      PROVE  FirmwareType'
  <2>1. pc' \in [Tx -> Steps]
    BY <1>9 DEF Observe
  <2>2. plan' = plan \/ plan' = [plan EXCEPT ![t] = [@ EXCEPT !.seen = version]]
    BY <1>9 DEF Observe
  <2> DEFINE p == [plan[t] EXCEPT !.seen = version]
  <2>5. p \in [service : {Reviewed, Granted}, from : Nat, target : Nat, seen : Nat]
    OBVIOUS
  <2>6. plan' = plan \/ plan' = [plan EXCEPT ![t] = p]
    BY <2>2
  <2> HIDE DEF p
  <2>3. plan' \in [Tx -> [service : {Reviewed, Granted}, from : Nat, target : Nat, seen : Nat]]
    BY <2>5, <2>6
  <2>4. UNCHANGED <<device, record, child, rebooted, look, flags>>
    BY <1>9 DEF Observe
  <2> QED
    BY <2>1, <2>3, <2>4
<1>10. ASSUME NEW t \in Tx, Settle(t)
       PROVE  FirmwareType'
  BY <1>10 DEF Settle
<1>11. ASSUME NEW t \in Tx, Fail(t)
       PROVE  FirmwareType'
  BY <1>11 DEF Fail
<1>12. ASSUME NEW t \in Tx, ManagerSucceeds(t)
       PROVE  FirmwareType'
  BY <1>12 DEF ManagerSucceeds, Disturbs
<1>13. ASSUME NEW t \in Tx, ManagerFails(t)
       PROVE  FirmwareType'
  BY <1>13 DEF ManagerFails
<1>14. ASSUME NEW t \in Tx, NEW l \in Look, LookRead(l, t)
       PROVE  FirmwareType'
  <2> DEFINE n == [NoLook EXCEPT !.at = "inventory", !.tx = t, !.was = record[t]]
  <2>1. record[t] \in SafeSource
    BY <1>14 DEF LookRead
  <2>2. n \in [at : {"inventory", "write"}, tx : Tx, was : SafeSource, seen : Nat,
               proven : BOOLEAN]
    BY <2>1 DEF NoLook
  <2>3. look' = [look EXCEPT ![l] = n]
    BY <1>14 DEF LookRead
  <2> HIDE DEF n
  <2>4. look' \in [Look -> {NoLook} \cup
       [at : {"inventory", "write"}, tx : Tx, was : SafeSource, seen : Nat, proven : BOOLEAN]]
    BY <2>2, <2>3
  <2>5. overlapped' \subseteq Tx
    BY <1>14 DEF LookRead
  <2>6. UNCHANGED <<device, record, plan, pc, child, rebooted, disturbed>>
    BY <1>14 DEF LookRead
  <2> QED
    BY <2>4, <2>5, <2>6
<1>15. ASSUME NEW l \in Look, LookInventory(l)
       PROVE  FirmwareType'
  <2>1. PICK pr \in BOOLEAN : look' = [look EXCEPT ![l] =
                             [@ EXCEPT !.at = "write", !.seen = version, !.proven = pr]]
    BY <1>15 DEF LookInventory
  <2> DEFINE n == [look[l] EXCEPT !.at = "write", !.seen = version, !.proven = pr]
  <2>2. look[l] \in [at : {"inventory", "write"}, tx : Tx, was : SafeSource, seen : Nat,
               proven : BOOLEAN]
    BY <1>15, LookIs DEF LookInventory
  <2>3. n \in [at : {"inventory", "write"}, tx : Tx, was : SafeSource, seen : Nat,
               proven : BOOLEAN]
    BY <2>2
  <2>4. look' = [look EXCEPT ![l] = n]
    BY <2>1
  <2> HIDE DEF n
  <2>5. look' \in [Look -> {NoLook} \cup
       [at : {"inventory", "write"}, tx : Tx, was : SafeSource, seen : Nat, proven : BOOLEAN]]
    BY <2>3, <2>4
  <2>6. UNCHANGED <<device, record, plan, pc, child, rebooted, flags>>
    BY <1>15 DEF LookInventory
  <2> QED
    BY <2>5, <2>6
<1>16. ASSUME NEW l \in Look, LookWrite(l)
       PROVE  FirmwareType'
  <2>1. look[l].tx \in Tx /\ look[l].was \in SafeSource
    BY <1>16, LookIs DEF LookWrite
  <2>2. Verdict(l) \in Statuses
    BY <2>1, VerdictIs
  <2>3. record' \in [Tx -> Statuses]
    BY <1>16, <2>1, <2>2 DEF LookWrite
  <2>4. look' = [look EXCEPT ![l] = NoLook]
    BY <1>16 DEF LookWrite
  <2>5. UNCHANGED <<device, plan, pc, child, rebooted, flags>>
    BY <1>16 DEF LookWrite
  <2> QED
    BY <2>3, <2>4, <2>5
<1>17. CASE Release
  BY <1>17 DEF Release
<1>18. CASE Crash
  BY <1>18 DEF Crash
<1>19. CASE Reboot
  BY <1>19 DEF Reboot
<1> QED
  BY <1>1, <1>2, <1>3, <1>4, <1>5, <1>6, <1>7, <1>8, <1>9, <1>10, <1>11, <1>12, <1>13,
     <1>14, <1>15, <1>16, <1>17, <1>18, <1>19 DEF Next, Discover, Nominate

\* What belongs to an update stays coherent, whoever takes a step.
LEMMA UpdatesCoherent ==
  ASSUME NoTxAssumption, FirmwareInv, Next, NEW u \in Tx
  PROVE  UpdateCoherent(u)'
<1> USE DEF FirmwareInv, FirmwareType, Steps, Statuses, SafeSource, Goto, Write, WriteFails,
      device, flags, UpdateCoherent, Updating, Service, SeenIsVersion, VerifiedMeanwhile,
      LooksAt, SomeLook, Reviewed, Granted
<1>0. UpdateCoherent(u)
  OBVIOUS
<1>1. ASSUME NEW t \in Tx, Discover(t) \/ Nominate(t)
      PROVE  UpdateCoherent(u)'
  <2>1. PICK p \in Plans : Planned(t, p)
    BY <1>1, PlannedIsPlan
  <2> QED
    BY <1>0, <2>1 DEF Planned, Plans
<1>2. ASSUME NEW t \in Tx, Refuse(t)
      PROVE  UpdateCoherent(u)'
  BY <1>0, <1>2 DEF Refuse
<1>3. ASSUME NEW t \in Tx, Admit(t)
      PROVE  UpdateCoherent(u)'
  BY <1>0, <1>3 DEF Admit
<1>4. ASSUME NEW t \in Tx, Prepare(t)
      PROVE  UpdateCoherent(u)'
  BY <1>0, <1>4 DEF Prepare
<1>5. ASSUME NEW t \in Tx, Launch(t)
      PROVE  UpdateCoherent(u)'
  BY <1>0, <1>5 DEF Launch
<1>6. ASSUME NEW t \in Tx, Answer(t)
      PROVE  UpdateCoherent(u)'
  BY <1>0, <1>6 DEF Answer
<1>7. ASSUME NEW t \in Tx, Begin(t)
      PROVE  UpdateCoherent(u)'
  BY <1>0, <1>7 DEF Begin
<1>8. ASSUME NEW t \in Tx, Authorize(t)
      PROVE  UpdateCoherent(u)'
  BY <1>0, <1>8 DEF Authorize
<1>9. ASSUME NEW t \in Tx, Execute(t)
      PROVE  UpdateCoherent(u)'
  BY <1>0, <1>9 DEF Execute
<1>10. ASSUME NEW t \in Tx, Observe(t)
      PROVE  UpdateCoherent(u)'
  BY <1>0, <1>10 DEF Observe
<1>11. ASSUME NEW t \in Tx, Settle(t)
      PROVE  UpdateCoherent(u)'
  BY <1>0, <1>11 DEF Settle
<1>12. ASSUME NEW t \in Tx, Fail(t)
      PROVE  UpdateCoherent(u)'
  BY <1>0, <1>12 DEF Fail
<1>13. ASSUME NEW t \in Tx, ManagerSucceeds(t)
      PROVE  UpdateCoherent(u)'
  BY <1>0, <1>13 DEF ManagerSucceeds, Disturbs, Looking, LookedAt
<1>14. ASSUME NEW t \in Tx, ManagerFails(t)
      PROVE  UpdateCoherent(u)'
  BY <1>0, <1>14 DEF ManagerFails
<1>15. ASSUME NEW t \in Tx, NEW l \in Look, LookRead(l, t)
      PROVE  UpdateCoherent(u)'
  <2> DEFINE n == [NoLook EXCEPT !.at = "inventory", !.tx = t, !.was = record[t]]
  <2>1. n.at = "inventory" /\ n.tx = t /\ n.was = record[t]
    BY DEF NoLook
  <2>2. /\ look' = [look EXCEPT ![l] = n] /\ look[l].at = "idle"
        /\ UNCHANGED <<device, record, plan, pc, child, rebooted, disturbed>>
        /\ record[t] \in SafeSource
        /\ Service(t) = Granted => record[t] = "staged"
        /\ LookedAt(t) => t \in overlapped'
        /\ overlapped \subseteq overlapped'
    BY <1>15 DEF LookRead
  <2>3. look[l].tx \notin Tx
    BY <2>2, LookIs
  <2> HIDE DEF n
  <2>4. Updating(u)' /\ SeenIsVersion(u)'
    BY <1>0, <2>1, <2>2, <2>3
  <2>5. VerifiedMeanwhile(u)'
    BY <1>0, <2>1, <2>2, <2>3
  <2>6. ASSUME NEW m \in Look
        PROVE  LooksAt(m, u)'
    <3>1. LooksAt(m, u)
      OBVIOUS
    <3>2. \A k \in Look : look[k].tx = t => t \in overlapped'
      BY <2>2 DEF LookedAt
    <3> QED
      BY <1>0, <2>1, <2>2, <2>3, <3>1, <3>2
  <2> QED
    BY <2>4, <2>5, <2>6
<1>16. ASSUME NEW l \in Look, LookInventory(l)
      PROVE  UpdateCoherent(u)'
  BY <1>0, <1>16 DEF LookInventory
<1>17. ASSUME NEW l \in Look, LookWrite(l)
      PROVE  UpdateCoherent(u)'
  BY <1>0, <1>17, VerdictIs DEF LookWrite, NoLook, NoTxAssumption
<1>18. CASE Release
  BY <1>0, <1>18 DEF Release
<1>19. CASE Crash
  BY <1>0, <1>19 DEF Crash, NoLook, NoTxAssumption
<1>20. CASE Reboot
  BY <1>0, <1>20 DEF Reboot, NoLook, NoTxAssumption
<1> QED
  BY <1>1, <1>2, <1>3, <1>4, <1>5, <1>6, <1>7, <1>8, <1>9, <1>10, <1>11, <1>12, <1>13, <1>14, <1>15, <1>16, <1>17, <1>18, <1>19, <1>20
  DEF Next, Discover, Nominate

\* The invariant of the firmware services is one.
LEMMA FirmwareStutter == FirmwareInv /\ UNCHANGED fwVars => FirmwareInv'
BY DEF FirmwareInv, FirmwareType, UpdateCoherent, Updating, Service, SeenIsVersion,
   VerifiedMeanwhile, LooksAt, SomeLook, fwVars, device, flags

LEMMA FirmwareStep ==
  ASSUME NoTxAssumption
  PROVE  FirmwareInv /\ [Next]_fwVars => FirmwareInv'
BY FirmwareTyped, UpdatesCoherent, FirmwareStutter DEF FirmwareInv

-------------------------------------------------------------------------------
(* The firmware services implement JournaledMutation, and are on target.     *)

\* Only these steps touch a record or a child.
LEMMA FirmwareSteps ==
  ASSUME Next
  PROVE  \/ UNCHANGED <<record, child, overlapped>>
         \/ Reboot
         \/ \E l \in Look : LookWrite(l)
         \/ \E t \in Tx : \/ Prepare(t) \/ Launch(t) \/ Answer(t) \/ Begin(t) \/ Authorize(t)
                          \/ Execute(t) \/ Settle(t) \/ Fail(t)
                          \/ ManagerSucceeds(t) \/ ManagerFails(t)
                          \/ \E l \in Look : LookRead(l, t)
<1>1. ASSUME NEW l \in Look, LookInventory(l)
      PROVE  UNCHANGED <<record, child, overlapped>>
  BY <1>1, Zenon DEF LookInventory, flags
<1>2. ASSUME NEW t \in Tx,
             Discover(t) \/ Nominate(t) \/ Refuse(t) \/ Admit(t) \/ Observe(t)
      PROVE  UNCHANGED <<record, child, overlapped>>
  BY <1>2, Zenon DEF Discover, Nominate, Planned, Refuse, Admit, Observe, flags
<1>3. Release \/ Crash => UNCHANGED <<record, child, overlapped>>
  BY Zenon DEF Release, Crash, flags
<1> QED
  BY <1>1, <1>2, <1>3 DEF Next

\* Each update takes a step of the abstract journal, or is contested.
LEMMA FirmwareMoves ==
  ASSUME NoTxAssumption, FirmwareInv, Next, NEW u \in Tx
  PROVE  Abstract!Moves(u)
<1> USE DEF FirmwareInv, FirmwareType, Steps, Statuses, SafeSource, Goto, Write, WriteFails,
      UpdateCoherent, Updating, Service, Reviewed, Granted,
      Phase, Abstract!Moves, Abstract!Stays, Abstract!Begin, Abstract!Touch, Abstract!End,
      Abstract!Reconcile, Abstract!Contest, Abstract!Ended
<1>1. UpdateCoherent(u)
  OBVIOUS
<1>2. CASE /\ UNCHANGED <<record, overlapped>>
           /\ child'[u] # "none" <=> child[u] # "none"
  <2>1. Phase(u)' = Phase(u)
    BY <1>2
  <2>2. (child'[u] # "none") = (child[u] # "none")
    BY <1>2
  <2> QED
    BY <2>1, <2>2, Zenon
<1>3. ASSUME record[u] = "none", child[u] = "none", child'[u] = "none",
              record'[u] \in {"prepared", "planned"}, UNCHANGED overlapped
       PROVE  Abstract!Moves(u)
  <2>1. CASE u \in overlapped
    BY <1>3, <2>1
  <2>2. CASE u \notin overlapped
    <3>1. Phase(u) = "none" /\ Phase(u)' = "active"
      BY <1>3, <2>2
    <3> QED
      BY <1>3, <3>1
  <2> QED
    BY <2>1, <2>2
<1>4. ASSUME record[u] \in {"prepared", "authorized"}, child[u] = "none",
              record'[u] = "executing", UNCHANGED overlapped
       PROVE  Abstract!Moves(u)
  <2>1. CASE u \in overlapped
    BY <1>4, <2>1
  <2>2. CASE u \notin overlapped
    <3>1. Phase(u) = "active" /\ Phase(u)' = "active"
      BY <1>4, <2>2
    <3> QED
      BY <1>4, <3>1
  <2> QED
    BY <2>1, <2>2
<1>5. ASSUME NEW t \in Tx, Prepare(t)
      PROVE  Abstract!Moves(u)
  BY <1>1, <1>2, <1>3, <1>5 DEF Prepare, flags
<1>6. ASSUME NEW t \in Tx, Launch(t)
      PROVE  Abstract!Moves(u)
  BY <1>1, <1>2, <1>4, <1>6 DEF Launch, flags
<1>7. ASSUME NEW t \in Tx, Answer(t)
      PROVE  Abstract!Moves(u)
  BY <1>1, <1>7 DEF Answer, flags
<1>8. ASSUME NEW t \in Tx, Begin(t)
      PROVE  Abstract!Moves(u)
  BY <1>1, <1>2, <1>3, <1>8 DEF Begin, flags
<1>9. ASSUME NEW t \in Tx, Authorize(t)
      PROVE  Abstract!Moves(u)
  BY <1>1, <1>9 DEF Authorize, flags
<1>10. ASSUME NEW t \in Tx, Execute(t)
      PROVE  Abstract!Moves(u)
  BY <1>1, <1>2, <1>4, <1>10 DEF Execute, flags
<1>11. ASSUME NEW t \in Tx, Settle(t)
      PROVE  Abstract!Moves(u)
  BY <1>1, <1>11 DEF Settle, flags
<1>12. ASSUME NEW t \in Tx, Fail(t)
      PROVE  Abstract!Moves(u)
  BY <1>1, <1>12 DEF Fail, flags
<1>13. ASSUME NEW t \in Tx, ManagerSucceeds(t)
      PROVE  Abstract!Moves(u)
  BY <1>2, <1>13 DEF ManagerSucceeds
<1>14. ASSUME NEW t \in Tx, ManagerFails(t)
      PROVE  Abstract!Moves(u)
  BY <1>2, <1>14 DEF ManagerFails, flags
<1>15. ASSUME NEW t \in Tx, NEW l \in Look, LookRead(l, t)
       PROVE  Abstract!Moves(u)
  BY <1>1, <1>15 DEF LookRead
<1>16. ASSUME NEW l \in Look, LookWrite(l)
       PROVE  Abstract!Moves(u)
  <2>1. look[l].tx \in Tx /\ look[l].was \in SafeSource
    BY <1>16, LookIs DEF LookWrite
  <2>2. LooksAt(l, u)
    OBVIOUS
  <2> QED
    BY <1>1, <1>16, <2>1, <2>2, VerdictIs DEF LookWrite, LooksAt, flags
<1>17. CASE Reboot
  BY <1>2, <1>17 DEF Reboot, flags
<1>18. CASE UNCHANGED <<record, child, overlapped>>
  BY <1>2, <1>18
<1> QED
  BY <1>5, <1>6, <1>7, <1>8, <1>9, <1>10, <1>11, <1>12, <1>13, <1>14, <1>15, <1>16, <1>17, <1>18,
     FirmwareSteps

\* From a state of the invariant, every step is one of the abstract journal.
LEMMA FirmwareJournals ==
  ASSUME NoTxAssumption
  PROVE  FirmwareInv /\ [Next]_fwVars => FirmwareJournaledStep
<1> SUFFICES ASSUME FirmwareInv, [Next]_fwVars
             PROVE  FirmwareJournaledStep
  OBVIOUS
<1>1. CASE Next
  BY <1>1, FirmwareMoves DEF Abstract!Next, FirmwareJournaledStep
<1>2. CASE UNCHANGED fwVars
  BY <1>2 DEF fwVars, flags, Abstract!vars, Phase, FirmwareJournaledStep
<1> QED
  BY <1>1, <1>2

\* What says committed or verified runs what was planned.
LEMMA FirmwareOnTarget ==
  ASSUME NoTxAssumption
  PROVE  FirmwareInv /\ [Next]_fwVars => ObservedFirmwareIsTargetStep
<1> SUFFICES ASSUME FirmwareInv, [Next]_fwVars, NEW u \in Tx,
                    record'[u] # record[u], u \notin disturbed,
                    record'[u] = "verified" \/ (record'[u] = "committed" /\ Service(u) = Granted)
             PROVE  version = plan[u].target
  BY DEF ObservedFirmwareIsTargetStep
<1> USE DEF FirmwareInv, FirmwareType, Steps, Statuses, SafeSource, Goto, Write, WriteFails,
      Reviewed, Granted
<1>1. UpdateCoherent(u)
  OBVIOUS
<1>2. \/ Settle(u) \/ \E l \in Look : LookWrite(l)
  <2>1. ASSUME NEW t \in Tx,
               \/ Prepare(t) \/ Launch(t) \/ Answer(t) \/ Begin(t) \/ Authorize(t) \/ Execute(t)
               \/ Fail(t)
        PROVE  FALSE
    BY <1>1, <2>1 DEF Prepare, Launch, Answer, Begin, Authorize, Execute, Fail, UpdateCoherent,
      Updating
  <2>2. ASSUME NEW t \in Tx,
               \/ Discover(t) \/ Nominate(t) \/ Refuse(t) \/ Admit(t) \/ Observe(t)
               \/ ManagerSucceeds(t) \/ ManagerFails(t)
        PROVE  record' = record
    BY <2>2, Zenon DEF Discover, Nominate, Planned, Refuse, Admit, Observe, ManagerSucceeds,
       ManagerFails
  <2>3. ASSUME NEW l \in Look, LookInventory(l) \/ \E t \in Tx : LookRead(l, t)
        PROVE  record' = record
    BY <2>3, Zenon DEF LookInventory, LookRead
  <2>4. Release \/ Crash \/ Reboot \/ UNCHANGED fwVars => record' = record
    BY Zenon DEF Release, Crash, Reboot, fwVars
  <2>5. ASSUME NEW t \in Tx, Settle(t)
        PROVE  t = u
    BY <2>5 DEF Settle
  <2>6. PICK t \in Tx : Settle(t) \/ \E l \in Look : LookWrite(l)
    BY <2>1, <2>2, <2>3, <2>4, Zenon DEF Next
  <2> QED
    BY <2>5, <2>6
<1>3. CASE Settle(u)
  BY <1>1, <1>3 DEF Settle, UpdateCoherent, SeenIsVersion
<1>4. ASSUME NEW l \in Look, LookWrite(l)
      PROVE  version = plan[u].target
  <2>1. look[l].tx = u /\ record'[u] = Verdict(l) /\ look[l].at = "write"
    BY <1>4 DEF LookWrite
  <2>2. look[l].seen = version
    BY <1>1, <2>1 DEF UpdateCoherent, SeenIsVersion
  <2>3. LooksAt(l, u) /\ VerifiedMeanwhile(u)
    BY <1>1 DEF UpdateCoherent
  <2>4. CASE Service(u) = Granted
    BY <1>4, <2>1, <2>2, <2>4, VerdictIs
  <2>5. CASE Service(u) # Granted
    <3>1. look[l].seen = plan[u].target \/ look[l].was = "verified"
      BY <2>1, <2>5, VerdictIs
    <3> QED
      BY <2>1, <2>2, <2>3, <2>5, <3>1 DEF VerifiedMeanwhile, SomeLook
  <2> QED
    BY <2>4, <2>5
<1> QED
  BY <1>2, <1>3, <1>4

-------------------------------------------------------------------------------
(* The mutations that delegate to them.                                      *)

\* Every step of a mutation is one of the firmware services, or none of theirs.
LEMMA DriverSteps ==
  ASSUME DNext
  PROVE  [Next]_fwVars
<1>1. ASSUME NEW d \in Driver,
             \/ \E t \in Tx \cup {NoTx} : Propose(d, t)
             \/ Delegate(d) \/ PackageAnswers(d) \/ Resolve(d)
      PROVE  UNCHANGED fwVars
  BY <1>1, Zenon DEF Propose, Delegate, PackageAnswers, Resolve
<1>2. CASE Firmware
  BY <1>2, Zenon DEF Firmware, Next
<1>3. CASE Restarts
  BY <1>3, Zenon DEF Restarts, Next
<1> QED
  BY <1>1, <1>2, <1>3 DEF DNext

\* No mutation has been proposed.
LEMMA DriverInit ==
  ASSUME NoTxAssumption
  PROVE  DInit => IInv
<1> SUFFICES ASSUME DInit
             PROVE  IInv
  OBVIOUS
<1>1. FirmwareInv
  BY FirmwareInit DEF DInit
<1> QED
  BY <1>1 DEF DInit, IInv, DriverType, RoutesApart, FollowsChild

\* A mutation's firmware update is planned by nobody else, waits for its call, keeps what
\* it has answered, and nobody looks at it before it has.
LEMMA OwnedUpdate ==
  ASSUME NoTxAssumption, FirmwareInv, Firmware, NEW u \in Tx, Service(u) = Reviewed,
         ~Unowned(u)
  PROVE  /\ Service(u)' = Reviewed
         /\ \A s \in {"committed", "staged"} : Settled(u, s) => Settled(u, s)'
         /\ record[u] = "none" /\ pc[u] \in {"asked", "idle"} /\ ~Called(u) =>
              record'[u] = "none" /\ pc'[u] \in {"asked", "idle"}
         /\ pc[u] # "idle" /\ pc'[u] = "idle" => \A l \in Look : look'[l].tx # u
<1> DEFINE Kept == /\ Service(u)' = Reviewed
                   /\ \A s \in {"committed", "staged"} : Settled(u, s) => Settled(u, s)'
                   /\ record[u] = "none" /\ pc[u] \in {"asked", "idle"} /\ ~Called(u) =>
                        record'[u] = "none" /\ pc'[u] \in {"asked", "idle"}
                   /\ pc[u] # "idle" /\ pc'[u] = "idle" => \A l \in Look : look'[l].tx # u
<1> SUFFICES Kept
  OBVIOUS
<1> USE DEF FirmwareInv, FirmwareType, Steps, Statuses, SafeSource, Goto, Write, WriteFails,
      Service, Settled, Reviewed, Granted
<1>0. Updating(u) /\ (\A l \in Look : LooksAt(l, u))
  BY DEF UpdateCoherent
<1>a. pc[u] # "idle" => \A l \in Look : look[l].tx # u
  BY <1>0 DEF LooksAt
<1>1. ASSUME NEW t \in Tx, Unowned(t), Discover(t) \/ Nominate(t)
      PROVE  Kept
  <2>1. t # u /\ pc'[u] = pc[u] /\ plan'[u] = plan[u] /\ UNCHANGED <<record, look>>
    BY <1>1 DEF Discover, Nominate, Planned
  <2> QED
    BY <2>1
<1>2. ASSUME NEW t \in Tx, Unowned(t) \/ Called(t), Refuse(t) \/ Admit(t)
      PROVE  Kept
  BY <1>0, <1>a, <1>2 DEF Refuse, Admit, Updating
<1>3. ASSUME NEW t \in Tx, Prepare(t)
      PROVE  Kept
  BY <1>0, <1>a, <1>3 DEF Prepare, Updating
<1>4. ASSUME NEW t \in Tx, Launch(t)
      PROVE  Kept
  BY <1>0, <1>a, <1>4 DEF Launch, Updating
<1>5. ASSUME NEW t \in Tx, Answer(t)
      PROVE  Kept
  BY <1>0, <1>a, <1>5 DEF Answer, Updating
<1>6. ASSUME NEW t \in Tx, Begin(t)
      PROVE  Kept
  BY <1>0, <1>a, <1>6 DEF Begin, Updating
<1>7. ASSUME NEW t \in Tx, Authorize(t)
      PROVE  Kept
  BY <1>0, <1>a, <1>7 DEF Authorize, Updating
<1>8. ASSUME NEW t \in Tx, Execute(t)
      PROVE  Kept
  BY <1>0, <1>a, <1>8 DEF Execute, Updating
<1>9. ASSUME NEW t \in Tx, Observe(t)
      PROVE  Kept
  BY <1>0, <1>a, <1>9 DEF Observe, Updating
<1>10. ASSUME NEW t \in Tx, Settle(t)
      PROVE  Kept
  BY <1>0, <1>a, <1>10 DEF Settle, Updating
<1>11. ASSUME NEW t \in Tx, Fail(t)
      PROVE  Kept
  BY <1>0, <1>a, <1>11 DEF Fail, Updating
<1>12. ASSUME NEW t \in Tx, ManagerSucceeds(t)
      PROVE  Kept
  BY <1>0, <1>a, <1>12 DEF ManagerSucceeds, Updating
<1>13. ASSUME NEW t \in Tx, ManagerFails(t)
      PROVE  Kept
  BY <1>0, <1>a, <1>13 DEF ManagerFails, Updating
<1>14. ASSUME NEW t \in Tx, NEW l \in Look, LookRead(l, t)
       PROVE  Kept
  <2> DEFINE n == [NoLook EXCEPT !.at = "inventory", !.tx = t, !.was = record[t]]
  <2>1. n.tx = t /\ n.was = record[t]
    BY DEF NoLook
  <2>2. look' = [look EXCEPT ![l] = n] /\ UNCHANGED <<record, plan, pc>>
    BY <1>14 DEF LookRead
  <2> HIDE DEF n
  <2> QED
    BY <2>1, <2>2
<1>15. ASSUME NEW l \in Look, LookInventory(l)
       PROVE  Kept
  <2>1. UNCHANGED <<record, plan, pc>> /\
        \A m \in Look : look'[m].tx = look[m].tx /\ look'[m].was = look[m].was
    BY <1>15 DEF LookInventory
  <2> QED
    BY <2>1
<1>16. ASSUME NEW l \in Look, LookWrite(l)
       PROVE  Kept
  <2>1. NoLook.tx \notin Tx
    BY DEF NoLook, NoTxAssumption
  <2>2. /\ look' = [look EXCEPT ![l] = NoLook] /\ UNCHANGED <<plan, pc>>
        /\ record' = [record EXCEPT ![look[l].tx] = Verdict(l)] \/ record' = record
        /\ look[l].at = "write"
    BY <1>16 DEF LookWrite
  <2>3. look[l].tx = u => Verdict(l) \in {look[l].was, "verified"}
    BY VerdictIs
  <2>4. look[l].tx = u => record[u] # "none"
    BY <1>0 DEF LooksAt
  <2> QED
    BY <2>1, <2>2, <2>3, <2>4
<1>17. CASE Release
  BY <1>17 DEF Release
<1> QED
  BY <1>1, <1>2, <1>3, <1>4, <1>5, <1>6, <1>7, <1>8, <1>9, <1>10, <1>11, <1>12, <1>13, <1>14, <1>15, <1>16, <1>17 DEF Firmware

\* What a restart leaves of an update.
LEMMA RestartKeeps ==
  ASSUME NoTxAssumption, Crash \/ Reboot, NEW u \in Tx
  PROVE  /\ UNCHANGED <<record, plan>> /\ pc'[u] = "idle"
         /\ \A l \in Look : look'[l].tx # u
BY DEF Crash, Reboot, NoLook, NoTxAssumption

\* The mutations' own records stay what they are.
LEMMA DriverTyped ==
  ASSUME DriverType, RoutesApart, (\A d \in Driver : FollowsChild(d)), DNext
  PROVE  DriverType' /\ RoutesApart'
<1> USE DEF DriverType, RoutesApart, Resolves
<1>1. ASSUME NEW d \in Driver, NEW t \in Tx \cup {NoTx}, Propose(d, t)
      PROVE  DriverType' /\ RoutesApart'
  BY <1>1 DEF Propose, FollowsChild
<1>2. ASSUME NEW d \in Driver, Delegate(d) \/ PackageAnswers(d) \/ Resolve(d)
      PROVE  DriverType' /\ RoutesApart'
  BY <1>2 DEF Delegate, PackageAnswers, Resolve
<1>3. CASE Firmware
  <2>1. UNCHANGED <<driver, route>>
    BY <1>3, Zenon DEF Firmware
  <2>2. reply' = [d \in Driver |->
       IF /\ route[d] # NoTx /\ reply[d] = "waiting"
          /\ pc[route[d]] # "idle" /\ pc'[route[d]] = "idle"
       THEN Answered(route[d]) ELSE reply[d]]
    BY <1>3, Zenon DEF Firmware
  <2>3. \A t : Answered(t) \in {"committed", "staged", "threw"}
    BY DEF Answered
  <2>4. reply' \in [Driver -> {"none", "ready", "waiting", "committed", "staged", "threw"}]
    BY <2>2, <2>3
  <2> QED
    BY <2>1, <2>4
<1>4. CASE Restarts
  BY <1>4 DEF Restarts
<1> QED
  BY <1>1, <1>2, <1>3, <1>4 DEF DNext

\* A mutation goes on following its child.
LEMMA ChildFollowed ==
  ASSUME NoTxAssumption, IInv, DNext, NEW d \in Driver
  PROVE  FollowsChild(d)'
<1> USE DEF IInv, DriverType, Resolves
<1>0. FollowsChild(d)
  OBVIOUS
<1>1. ASSUME NEW e \in Driver, NEW t \in Tx \cup {NoTx}, Propose(e, t)
      PROVE  FollowsChild(d)'
  <2>1. t # NoTx => pc[t] = "asked" /\ Service(t) = Reviewed /\ record[t] = "none"
    BY <1>1 DEF Propose, FirmwareInv, UpdateCoherent, Updating
  <2>2. /\ route' = [route EXCEPT ![e] = t] /\ driver' = [driver EXCEPT ![e] = "prepared"]
        /\ reply' = [reply EXCEPT ![e] = "ready"] /\ UNCHANGED <<pc, record, plan, look>>
    BY <1>1 DEF Propose, fwVars, device
  <2> QED
    BY <1>0, <2>1, <2>2 DEF FollowsChild, Settled, Service
<1>2. ASSUME NEW e \in Driver, Delegate(e) \/ PackageAnswers(e) \/ Resolve(e)
      PROVE  FollowsChild(d)'
  BY <1>0, <1>2
  DEF Delegate, PackageAnswers, Resolve, FollowsChild, Settled, Service, fwVars, device
<1>3. CASE Firmware
  <2>1. UNCHANGED <<driver, route>>
    BY <1>3, Zenon DEF Firmware
  <2>2. reply' = [e \in Driver |->
       IF /\ route[e] # NoTx /\ reply[e] = "waiting"
          /\ pc[route[e]] # "idle" /\ pc'[route[e]] = "idle"
       THEN Answered(route[e]) ELSE reply[e]]
    BY <1>3, Zenon DEF Firmware
  <2> SUFFICES ASSUME NEW u \in Tx, route[d] = u
               PROVE  FollowsChild(d)'
    BY <2>1 DEF FollowsChild
  <2>3. Service(u) = Reviewed /\ ~Unowned(u) /\ driver[d] # "none" /\ u # NoTx
    BY <1>0 DEF FollowsChild, Unowned, NoTxAssumption
  <2>4. driver[d] = "prepared" => ~Called(u)
    BY <1>0, <2>3 DEF FollowsChild, Called, RoutesApart
  <2>5. reply'[d] = IF reply[d] = "waiting" /\ pc[u] # "idle" /\ pc'[u] = "idle"
                    THEN Answered(u) ELSE reply[d]
    BY <2>2, <2>3
  <2>6. /\ Service(u)' = Reviewed
        /\ \A s \in {"committed", "staged"} : Settled(u, s) => Settled(u, s)'
        /\ record[u] = "none" /\ pc[u] \in {"asked", "idle"} /\ ~Called(u) =>
             record'[u] = "none" /\ pc'[u] \in {"asked", "idle"}
        /\ pc[u] # "idle" /\ pc'[u] = "idle" => \A l \in Look : look'[l].tx # u
    BY <1>3, <2>3, OwnedUpdate
  <2>7. /\ driver[d] = "prepared" =>
             /\ pc[u] \in {"asked", "idle"} /\ record[u] = "none" /\ reply[d] # "waiting"
        /\ \A s \in {"committed", "staged"} :
             driver[d] = s \/ reply[d] = s => Settled(u, s)
    BY <1>0, <2>3 DEF FollowsChild
  <2>8. ASSUME NEW s \in {"committed", "staged"}, driver'[d] = s \/ reply'[d] = s
        PROVE  Settled(u, s)'
    <3>1. CASE driver[d] = s \/ reply[d] = s
      BY <2>6, <2>7, <3>1
    <3>2. CASE ~(driver[d] = s \/ reply[d] = s)
      <4>1. Answered(u) = s /\ pc[u] # "idle" /\ pc'[u] = "idle"
        BY <2>1, <2>5, <2>8, <3>2
      <4>2. record'[u] = s
        BY <4>1 DEF Answered
      <4> QED
        BY <2>6, <4>1, <4>2 DEF Settled
    <3> QED
      BY <3>1, <3>2
  <2>9. driver[d] = "prepared" =>
          /\ pc'[u] \in {"asked", "idle"} /\ record'[u] = "none" /\ reply'[d] # "waiting"
    BY <2>4, <2>5, <2>6, <2>7 DEF Answered
  <2>10. route'[d] = u /\ driver'[d] = driver[d]
    BY <2>1
  <2> QED
    BY <2>3, <2>6, <2>8, <2>9, <2>10 DEF FollowsChild, Service
<1>4. CASE Restarts
  <2> SUFFICES ASSUME route[d] # NoTx
               PROVE  FollowsChild(d)'
    BY <1>4 DEF FollowsChild, Restarts
  <2>1. /\ UNCHANGED <<record, plan>> /\ pc'[route[d]] = "idle"
        /\ \A l \in Look : look'[l].tx # route[d]
    BY <1>4, RestartKeeps DEF Restarts
  <2>2. UNCHANGED <<driver, route>> /\ reply' = [e \in Driver |-> "none"]
    BY <1>4 DEF Restarts
  <2> QED
    BY <1>0, <2>1, <2>2 DEF FollowsChild, Settled, Service
<1> QED
  BY <1>1, <1>2, <1>3, <1>4 DEF DNext

\* The invariant is one.
LEMMA DriverStep ==
  ASSUME NoTxAssumption
  PROVE  IInv /\ DNext => IInv'
BY FirmwareStep, DriverSteps, DriverTyped, ChildFollowed DEF IInv

LEMMA DriverStutter == IInv /\ UNCHANGED dVars => IInv'
<1> SUFFICES ASSUME IInv, UNCHANGED dVars
             PROVE  IInv'
  OBVIOUS
<1>1. FirmwareInv'
  BY FirmwareStutter DEF dVars, IInv
<1>2. UNCHANGED <<driver, route, reply, pc, record, plan, look>>
  BY DEF dVars, fwVars
<1> QED
  BY <1>1, <1>2 DEF IInv, DriverType, RoutesApart, FollowsChild, Settled, Service

\* A mutation is never ahead of its child.
LEMMA DriverFollows == IInv => DriverFollowsChild
BY DEF IInv, FollowsChild, DriverFollowsChild, Settled, FirmwareInv, UpdateCoherent, Updating,
   DriverType

-------------------------------------------------------------------------------
\* A driver mutation is never ahead of the firmware record it delegates to, whatever is
\* verified, reconciled, interrupted or not written.
THEOREM MutationsFollowTheirChild ==
  ASSUME NoTxAssumption
  PROVE  DSpec => []DriverFollowsChild
BY DriverInit, DriverStep, DriverStutter, DriverFollows, PTL DEF DSpec

\* Both firmware services keep the journal they promise, and say committed or verified
\* only of what the device runs.
THEOREM FirmwareIsJournaled ==
  ASSUME NoTxAssumption
  PROVE  Spec => FirmwareJournaled /\ ObservedFirmwareIsTarget
<1>1. Init => Abstract!Init
  <2> SUFFICES ASSUME Init PROVE Abstract!Init
    OBVIOUS
  <2>1. \A t \in Tx : record[t] = "none" /\ (child[t] # "none") = FALSE /\ overlapped = {}
    BY DEF Init
  <2>2. \A t \in Tx : Phase(t) = "none"
    BY <2>1 DEF Phase
  <2> QED
    BY <2>1, <2>2 DEF Abstract!Init
<1> QED
  BY <1>1, FirmwareInit, FirmwareStep, FirmwareJournals, FirmwareOnTarget, PTL
  DEF Spec, FirmwareJournaled, ObservedFirmwareIsTarget
================================================================================
