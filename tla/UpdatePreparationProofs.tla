------------------------ MODULE UpdatePreparationProofs ------------------------
(***************************************************************************)
(* What holds of the preparation for every set of transactions.            *)
(***************************************************************************)
EXTENDS UpdatePreparation, TLAPS

-------------------------------------------------------------------------------
(* The inductive invariant, step by step.                                    *)

\* Clearing the flag of a service leaves a flag for each service.
LEMMA FlagCleared ==
  ASSUME NEW f \in [Service -> BOOLEAN], NEW s \in Service
  PROVE  [f EXCEPT ![s] = FALSE] \in [Service -> BOOLEAN]
BY Zenon

\* A Host that has just been started satisfies the invariant.
LEMMA InitInv == Init => IInv
BY DEF Init, IInv, TypeOK, SingleFlight, AutomaticIsKnown, DowngradeIsFinal,
   CycleHasScheduler, OwnTransaction, Service, Shell, Background, Label, Mode,
   Working, Holding, AutomaticPrepare

\* A step that changes nothing keeps the invariant.
LEMMA StutterInv == IInv /\ UNCHANGED vars => IInv'
BY DEF IInv, vars, service, policy, disk, TypeOK, SingleFlight, OwnTransaction,
   AutomaticIsKnown, DowngradeIsFinal, CycleHasScheduler, AutomaticPrepare

\* A cycle of the scheduler touches no operation until it queues one.
LEMMA CycleInv ==
  ASSUME IInv, BeginCycle \/ CycleStep
  PROVE  IInv'
<1> USE DEF IInv, TypeOK, Goto, Set, Service, Shell, Background, Label, Cycle,
            Operation, service, policy, disk
<1>1. CASE BeginCycle
  BY <1>1 DEF BeginCycle, SingleFlight, AutomaticIsKnown, DowngradeIsFinal,
     CycleHasScheduler, OwnTransaction, Working, Holding, AutomaticPrepare
<1>2. CASE CheckFeed \/ DecideOnUpdate \/ AuthorizeQueue
  BY <1>2 DEF CheckFeed, DecideOnUpdate, AuthorizeQueue, SingleFlight,
     AutomaticIsKnown, DowngradeIsFinal, CycleHasScheduler, OwnTransaction,
     Working, Holding, AutomaticPrepare
<1>3. CASE Enqueue
  <2> USE <1>3 DEF Enqueue
  <2>1. TypeOK'
    <3>1. auto' \in [Service -> BOOLEAN]
      BY Zenon
    <3>2. cancelled' \in [Service -> BOOLEAN]
      BY Zenon
    <3> QED
      BY <3>1, <3>2
  <2>2. SingleFlight'
    BY DEF SingleFlight, Working
  <2>3. AutomaticIsKnown'
    BY DEF SingleFlight, Working, AutomaticIsKnown
  <2>4. DowngradeIsFinal'
    BY DEF SingleFlight, Working, AutomaticIsKnown, DowngradeIsFinal, AutomaticPrepare
  <2>5. CycleHasScheduler'
    BY DEF CycleHasScheduler
  <2>6. OwnTransaction'
    BY DEF SingleFlight, OwnTransaction, Working, Holding
  <2> QED
    BY <2>1, <2>2, <2>3, <2>4, <2>5, <2>6
<1> QED
  BY <1>1, <1>2, <1>3 DEF CycleStep

\* What the shell asks concerns its own service only.
LEMMA ShellInv ==
  ASSUME IInv, UserPrepare \/ UserCancel \/ UserReset
  PROVE  IInv'
<1> USE DEF IInv, TypeOK, Goto, Set, Service, Shell, Background, Label,
            Operation, service, policy, disk
<1>1. CASE UserPrepare
  BY <1>1 DEF UserPrepare, SingleFlight, AutomaticIsKnown, DowngradeIsFinal,
     CycleHasScheduler, OwnTransaction, Working, Holding, AutomaticPrepare
<1>2. CASE UserCancel \/ UserReset
  <2> USE <1>2 DEF UserCancel, UserReset
  <2>1. TypeOK'
    <3>1. auto' \in [Service -> BOOLEAN]
      BY Zenon
    <3>2. cancelled' \in [Service -> BOOLEAN]
      BY Zenon
    <3> QED
      BY <3>1, <3>2
  <2>2. SingleFlight'
    BY DEF SingleFlight, Working
  <2>3. AutomaticIsKnown'
    BY DEF SingleFlight, Working, AutomaticIsKnown
  <2>4. DowngradeIsFinal'
    BY DEF SingleFlight, Working, AutomaticIsKnown, DowngradeIsFinal, AutomaticPrepare
  <2>5. CycleHasScheduler'
    BY DEF CycleHasScheduler
  <2>6. OwnTransaction'
    BY DEF SingleFlight, OwnTransaction, Working, Holding
  <2> QED
    BY <2>1, <2>2, <2>3, <2>4, <2>5, <2>6
<1> QED
  BY <1>1, <1>2

\* Setting the policy revokes before anybody can rely on it.
LEMMA PolicyInv ==
  ASSUME IInv, SetPolicyStep \/ \E m \in Mode : SavePolicy(m)
  PROVE  IInv'
<1> USE DEF IInv, TypeOK, Service, Shell, Background, service, policy, disk
<1>1. ASSUME NEW m \in Mode, SavePolicy(m)
      PROVE  IInv'
  BY <1>1 DEF SavePolicy, SingleFlight, AutomaticIsKnown, DowngradeIsFinal,
     CycleHasScheduler, OwnTransaction, AutomaticPrepare
<1>2. CASE Revoke
  BY <1>2 DEF Revoke, Set, SingleFlight, AutomaticIsKnown, DowngradeIsFinal,
     CycleHasScheduler, OwnTransaction, AutomaticPrepare, Working, Holding
<1>3. CASE Reconcile \/ Stopped
  BY <1>3 DEF Reconcile, Stopped, SingleFlight, AutomaticIsKnown,
     DowngradeIsFinal, CycleHasScheduler, OwnTransaction, AutomaticPrepare,
     BackgroundCheck
<1> QED
  BY <1>1, <1>2, <1>3 DEF SetPolicyStep

\* An operation only ever clears a flag of its own service.
LEMMA WorkFlags ==
  ASSUME IInv, NEW s \in Service, Work(s)
  PROVE  auto' \in [Service -> BOOLEAN] /\ cancelled' \in [Service -> BOOLEAN]
<1>1. auto \in [Service -> BOOLEAN] /\ cancelled \in [Service -> BOOLEAN]
  BY Zenon DEF IInv, TypeOK
<1>2. auto' = auto \/ auto' = [auto EXCEPT ![s] = FALSE]
  <2>1. CASE Execute(s)
    BY <2>1, Zenon DEF Execute, Set
  <2>2. CASE Clear(s)
    BY <2>2, Zenon DEF Clear, Set
  <2>3. CASE Run(s) \/ Conclude(s)
    BY <2>3, Zenon DEF Run, Conclude
  <2>4. CASE Start(s) \/ Extract(s) \/ PreparationFails(s) \/ ObserveCancellation(s)
    BY <2>4, Zenon DEF Start, Extract, PreparationFails, ObserveCancellation, service
  <2>5. CASE \E t \in Tx : BeginTransaction(s, t)
    BY <2>5, Zenon DEF BeginTransaction
  <2> QED
    BY <2>1, <2>2, <2>3, <2>4, <2>5, Zenon DEF Work
<1>3. cancelled' = cancelled \/ cancelled' = [cancelled EXCEPT ![s] = FALSE]
  <2>1. CASE Execute(s) \/ Clear(s) \/ Conclude(s)
    BY <2>1, Zenon DEF Execute, Clear, Conclude
  <2>2. CASE Run(s)
    BY <2>2, Zenon DEF Run, Set
  <2>3. CASE Start(s) \/ Extract(s) \/ PreparationFails(s) \/ ObserveCancellation(s)
    BY <2>3, Zenon DEF Start, Extract, PreparationFails, ObserveCancellation, service
  <2>4. CASE \E t \in Tx : BeginTransaction(s, t)
    BY <2>4, Zenon DEF BeginTransaction
  <2> QED
    BY <2>1, <2>2, <2>3, <2>4, Zenon DEF Work
<1> QED
  BY <1>1, <1>2, <1>3, FlagCleared, Zenon

\* An operation keeps its own books, and the two services stay apart.
LEMMA WorkInv ==
  ASSUME IInv, NEW s \in Service, Work(s)
  PROVE  IInv'
<1>0. auto' \in [Service -> BOOLEAN] /\ cancelled' \in [Service -> BOOLEAN]
  BY WorkFlags
<1> USE DEF IInv, TypeOK, Goto, Set, Service, Shell, Background, Label,
            Operation, service, policy, disk
<1>1. CASE Execute(s) \/ Run(s)
  <2> USE <1>1 DEF Execute, Run
  <2>1. TypeOK'
    BY <1>0
  <2>2. SingleFlight'
    BY DEF SingleFlight, Working
  <2>3. AutomaticIsKnown'
    BY DEF SingleFlight, Working, AutomaticIsKnown
  <2>4. DowngradeIsFinal'
    BY DEF SingleFlight, Working, AutomaticIsKnown, DowngradeIsFinal, AutomaticPrepare
  <2>5. CycleHasScheduler'
    BY DEF CycleHasScheduler
  <2>6. OwnTransaction'
    BY DEF SingleFlight, OwnTransaction, Working, Holding
  <2> QED
    BY <2>1, <2>2, <2>3, <2>4, <2>5, <2>6
<1>2. CASE Start(s) \/ ObserveCancellation(s)
  BY <1>2 DEF Start, ObserveCancellation, SingleFlight, AutomaticIsKnown,
     DowngradeIsFinal, CycleHasScheduler, OwnTransaction, Working, Holding,
     AutomaticPrepare
<1>3. ASSUME NEW t \in Tx, BeginTransaction(s, t)
      PROVE  IInv'
  BY <1>3 DEF BeginTransaction, SingleFlight, AutomaticIsKnown,
     DowngradeIsFinal, CycleHasScheduler, OwnTransaction, Working, Holding,
     AutomaticPrepare
<1>4. CASE Extract(s)
  BY <1>4 DEF Extract, SingleFlight, AutomaticIsKnown, DowngradeIsFinal,
     CycleHasScheduler, OwnTransaction, Working, Holding, AutomaticPrepare
<1>5. CASE PreparationFails(s)
  BY <1>5 DEF PreparationFails, SingleFlight, AutomaticIsKnown,
     DowngradeIsFinal, CycleHasScheduler, OwnTransaction, Working, Holding,
     AutomaticPrepare
<1>6. CASE Conclude(s) \/ Clear(s)
  <2> USE <1>6 DEF Conclude, Clear
  <2>1. TypeOK'
    BY <1>0
  <2>2. SingleFlight'
    BY DEF SingleFlight, Working
  <2>3. AutomaticIsKnown'
    BY DEF SingleFlight, Working, AutomaticIsKnown
  <2>4. DowngradeIsFinal'
    BY DEF SingleFlight, Working, AutomaticIsKnown, DowngradeIsFinal, AutomaticPrepare
  <2>5. CycleHasScheduler'
    BY DEF CycleHasScheduler
  <2>6. OwnTransaction'
    BY DEF SingleFlight, OwnTransaction, Working, Holding
  <2> QED
    BY <2>1, <2>2, <2>3, <2>4, <2>5, <2>6
<1> QED
  BY <1>1, <1>2, <1>3, <1>4, <1>5, <1>6 DEF Work

-------------------------------------------------------------------------------
(* Theorems.                                                                 *)

\* The bridges, the flags by which a downgrade finds an automatic preparation,
\* the scheduler and the transactions agree between any two steps.
THEOREM PreparationIsOrderly == Spec => []IInv
<1>1. IInv /\ [Next]_vars => IInv'
  BY StutterInv, CycleInv, ShellInv, PolicyInv, WorkInv DEF Next, UserStep
<1> QED
  BY <1>1, InitInv, PTL DEF Spec

\* Every variable keeps its type.
THEOREM TypeCorrect == Spec => []TypeOK
<1>1. IInv => TypeOK
  BY DEF IInv
<1> QED
  BY <1>1, PreparationIsOrderly, PTL

\* Once the policy has been set to something less than automatic, no automatic
\* preparation runs that has not been cancelled.
THEOREM DowngradeStops == Spec => []DowngradeStopsAutomatic
<1>1. IInv => DowngradeStopsAutomatic
  BY DEF IInv, DowngradeIsFinal, DowngradeStopsAutomatic, Cancelled
<1> QED
  BY <1>1, PreparationIsOrderly, PTL

\* Once the policy has been set to manual, no cycle is under way.
THEOREM ManualStaysSilent == Spec => []ManualIsSilent
<1>1. IInv => ManualIsSilent
  BY DEF IInv, CycleHasScheduler, ManualIsSilent
<1> QED
  BY <1>1, PreparationIsOrderly, PTL

-------------------------------------------------------------------------------
(* How many prepared transactions there can be.                              *)

\* A service that has passed the check has found no prepared transaction, and
\* only the other one can have begun one since.
CheckPassed ==
  /\ (\E s \in Service : pc[s] = "fetch") => OnePrepared
  /\ (\A s \in Service : pc[s] = "fetch") => \A t \in Tx : journal[t] # "prepared"
  /\ TwoAtMost

\* However the two services overlap, they leave at most two prepared
\* transactions, one each.
THEOREM OneForEach == Spec => []TwoAtMost
<1>1. Init => CheckPassed
  BY DEF Init, CheckPassed, TwoAtMost
<1>2. ASSUME IInv, CheckPassed, [Next]_vars
      PROVE  CheckPassed'
  <2> USE <1>2 DEF IInv, TypeOK, CheckPassed, OnePrepared, TwoAtMost, Goto, Set,
              Service, Shell, Background, service, policy, disk
  <2>1. CASE UNCHANGED vars
    BY <2>1 DEF vars
  <2>2. CASE BeginCycle \/ CycleStep
    BY <2>2 DEF BeginCycle, CycleStep, CheckFeed, DecideOnUpdate,
       AuthorizeQueue, Enqueue
  <2>3. CASE SetPolicyStep \/ UserStep
    BY <2>3 DEF SetPolicyStep, Revoke, Reconcile, Stopped, UserStep,
       UserPrepare, UserCancel, UserReset, SavePolicy
  <2>4. ASSUME NEW s \in Service, Work(s)
        PROVE  CheckPassed'
    <3>1. CASE Execute(s) \/ Run(s) \/ ObserveCancellation(s)
      BY <3>1 DEF Execute, Run, ObserveCancellation
    <3>2. CASE Start(s)
      BY <3>2 DEF Start
    <3>3. ASSUME NEW t \in Tx, BeginTransaction(s, t)
          PROVE  CheckPassed'
      BY <3>3 DEF BeginTransaction
    <3>4. CASE Extract(s) \/ Conclude(s) \/ Clear(s)
      BY <3>4 DEF Extract, Conclude, Clear
    <3>5. CASE PreparationFails(s)
      BY <3>5 DEF PreparationFails
    <3> QED
      BY <2>4, <3>1, <3>2, <3>3, <3>4, <3>5 DEF Work
  <2> QED
    BY <1>2, <2>1, <2>2, <2>3, <2>4 DEF Next
<1>3. CheckPassed => TwoAtMost
  BY DEF CheckPassed
<1> QED
  BY <1>1, <1>2, <1>3, PreparationIsOrderly, PTL DEF Spec
================================================================================
