--------------------------- MODULE HostRestartProofs ---------------------------
(***************************************************************************)
(* What holds of a restart for every finite set of requests.               *)
(***************************************************************************)
EXTENDS HostRestart, FiniteSetTheorems, TLAPS

-------------------------------------------------------------------------------
(* Leases and the requests that hold them.                                   *)

\* The requests that hold a lease are finitely many.
LEMMA HoldersFinite == IsFiniteSet(Holders) /\ Cardinality(Holders) \in Nat
<1>1. IsFiniteSet(Holders)
  BY FS_Subset, ConstantsAssumption DEF Holders
<1> QED
  BY <1>1, FS_CardinalityType

\* A request that comes to hold a lease is one more.
LEMMA LeaseTaken ==
  ASSUME TypeOK, NEW r \in Req, NEW l \in Leased, pc[r] \notin Leased, Goto(r, l)
  PROVE  Cardinality(Holders') = Cardinality(Holders) + 1
<1>1. Holders' = Holders \cup {r} /\ r \notin Holders
  BY DEF Holders, Goto, TypeOK
<1> QED
  BY <1>1, HoldersFinite, FS_AddElement

\* A request that gives its lease back is one less.
LEMMA LeaseReleased ==
  ASSUME TypeOK, NEW r \in Req, NEW l, l \notin Leased, pc[r] \in Leased,
         Goto(r, l)
  PROVE  Cardinality(Holders') = Cardinality(Holders) - 1
<1>1. Holders' = Holders \ {r} /\ r \in Holders
  BY DEF Holders, Goto, TypeOK
<1> QED
  BY <1>1, HoldersFinite, FS_RemoveElement

\* Any other step of a request leaves the holders as they are.
LEMMA LeaseKept ==
  ASSUME TypeOK, NEW r \in Req, NEW l, (l \in Leased) <=> (pc[r] \in Leased),
         Goto(r, l)
  PROVE  Cardinality(Holders') = Cardinality(Holders)
<1>1. Holders' = Holders
  BY DEF Holders, Goto, TypeOK
<1> QED
  BY <1>1

-------------------------------------------------------------------------------
(* The inductive invariant, action by action.                                *)

\* An idle Host satisfies the invariant.
LEMMA InitInv == Init => IInv
<1> SUFFICES ASSUME Init PROVE IInv
  OBVIOUS
<1>1. Holders = {}
  BY DEF Init, Holders, Leased
<1>2. LeasesCounted
  BY <1>1, FS_EmptySet DEF LeasesCounted, Init
<1>3. TypeOK
  BY ConstantsAssumption DEF Init, TypeOK, Label, Leased, Restarting
<1> QED
  BY <1>2, <1>3 DEF Init, IInv, TurnIsHeld, SlotIsOwned, GateIsShut,
     WorkerIsLast, OneWorker, InTurn, Restarting, Closed, Emptied

\* A step that changes nothing keeps the invariant.
LEMMA StutterInv == IInv /\ UNCHANGED vars => IInv'
BY DEF IInv, vars, gate, host, TypeOK, LeasesCounted, Holders, TurnIsHeld,
   SlotIsOwned, GateIsShut, WorkerIsLast, OneWorker

\* Admitting a request takes a lease of an open gate.
LEMMA EnterInv ==
  ASSUME IInv, NEW r \in Req, Enter(r)
  PROVE  IInv'
<1> USE DEF Enter, Goto, gate, host
<1>1. TypeOK'
  BY DEF IInv, TypeOK, Label, Leased, Restarting, LeasesCounted
<1>2. LeasesCounted'
  BY LeaseTaken, HoldersFinite
  DEF IInv, TypeOK, LeasesCounted, Label, Leased, Restarting
<1>3. TurnIsHeld' /\ SlotIsOwned'
  BY ConstantsAssumption
  DEF IInv, TypeOK, TurnIsHeld, SlotIsOwned, InTurn, Restarting, Leased
<1>4. GateIsShut' /\ WorkerIsLast' /\ OneWorker'
  BY DEF IInv, TypeOK, SlotIsOwned, GateIsShut, WorkerIsLast, OneWorker, Closed,
     Emptied, Restarting, Leased
<1> QED
  BY <1>1, <1>2, <1>3, <1>4 DEF IInv

\* An answered request gives its lease back.
LEMMA FinishInv ==
  ASSUME IInv, NEW r \in Req, Finish(r)
  PROVE  IInv'
<1> USE DEF Finish, Goto, Leave, Exit, gate, host
<1>1. TypeOK'
  BY DEF IInv, TypeOK, Label, Leased, Restarting, LeasesCounted
<1>2. LeasesCounted'
  BY LeaseReleased, HoldersFinite
  DEF IInv, TypeOK, LeasesCounted, Label, Leased, Restarting
<1>3. TurnIsHeld' /\ SlotIsOwned'
  BY DEF IInv, TypeOK, TurnIsHeld, SlotIsOwned, InTurn, Restarting, Leased
<1>4. GateIsShut' /\ WorkerIsLast' /\ OneWorker'
  BY DEF IInv, TypeOK, SlotIsOwned, GateIsShut, WorkerIsLast, OneWorker, Closed,
     Emptied, Restarting, Leased
<1> QED
  BY <1>1, <1>2, <1>3, <1>4 DEF IInv

\* Taking the command slot changes no lease.
LEMMA PrepareApplyInv ==
  ASSUME IInv, NEW r \in Req, PrepareApply(r)
  PROVE  IInv'
<1> USE DEF PrepareApply, Goto, gate, host
<1>1. TypeOK'
  BY DEF IInv, TypeOK, Label, Leased, Restarting, LeasesCounted
<1>2. LeasesCounted'
  BY LeaseKept, HoldersFinite
  DEF IInv, TypeOK, LeasesCounted, Label, Leased, Restarting
<1>3. TurnIsHeld' /\ SlotIsOwned'
  BY DEF IInv, TypeOK, TurnIsHeld, SlotIsOwned, InTurn, Restarting, Leased
<1>4. GateIsShut' /\ WorkerIsLast' /\ OneWorker'
  BY DEF IInv, TypeOK, SlotIsOwned, GateIsShut, WorkerIsLast, OneWorker, Closed,
     Emptied, Restarting, Leased
<1> QED
  BY <1>1, <1>2, <1>3, <1>4 DEF IInv

\* The acknowledgement releases the lease, whatever becomes of the command.
LEMMA RespondInv ==
  ASSUME IInv, NEW r \in Req, Respond(r)
  PROVE  IInv'
<1> USE DEF Respond, Goto, Leave, Exit, gate, host
<1>1. TypeOK'
  <2>1. faults' \subseteq {"drain", "stop", "attach", "post"}
    BY DEF IInv, TypeOK
  <2>2. /\ coord' \in {"idle", "queued", "running", "requested"}
        /\ active' \in Nat /\ drained' \in BOOLEAN
        /\ turn' \in Req \cup {Nobody} /\ pc' \in [Req -> Label]
    BY DEF IInv, TypeOK, Label, Leased, Restarting, LeasesCounted
  <2> QED
    BY <2>1, <2>2 DEF IInv, TypeOK
<1>2. LeasesCounted'
  BY LeaseReleased, HoldersFinite
  DEF IInv, TypeOK, LeasesCounted, Label, Leased, Restarting
<1>3. TurnIsHeld' /\ SlotIsOwned'
  <2>1. \A q \in Req : pc[q] \in InTurn => q = r
    BY ConstantsAssumption DEF IInv, TurnIsHeld, InTurn
  <2>2. \A q \in Req \ {r} : pc'[q] = pc[q]
    BY DEF IInv, TypeOK
  <2>3. TurnIsHeld'
    BY <2>1, <2>2 DEF IInv, TypeOK, TurnIsHeld, InTurn
  <2>4. pc[r] = "acked" => coord = "queued" /\ \A q \in Req : pc[q] \notin Restarting
    BY DEF IInv, SlotIsOwned
  <2>5. SlotIsOwned'
    BY <2>1, <2>2, <2>4
    DEF IInv, TypeOK, SlotIsOwned, InTurn, Restarting, Leased
  <2> QED
    BY <2>3, <2>5
<1>4. GateIsShut' /\ WorkerIsLast' /\ OneWorker'
  BY DEF IInv, TypeOK, SlotIsOwned, GateIsShut, WorkerIsLast, OneWorker, Closed,
     Emptied, Restarting, Leased
<1> QED
  BY <1>1, <1>2, <1>3, <1>4 DEF IInv

\* A command starts a restart only if the lifecycle is free.
LEMMA ExecuteQueuedInv ==
  ASSUME IInv, NEW r \in Req, ExecuteQueued(r)
  PROVE  IInv'
<1> USE DEF ExecuteQueued, Goto, Leave, gate, host
<1>1. TypeOK'
  BY DEF IInv, TypeOK, Label, Leased, Restarting, LeasesCounted
<1>2. LeasesCounted'
  BY LeaseKept, HoldersFinite
  DEF IInv, TypeOK, LeasesCounted, Label, Leased, Restarting
<1>3. TurnIsHeld' /\ SlotIsOwned'
  <2>1. turn = r /\ coord = "queued" /\ pc[r] = "execute"
    BY DEF IInv, TurnIsHeld, SlotIsOwned, InTurn
  <2>2. \A q \in Req : pc[q] \in InTurn => q = r
    BY <2>1 DEF IInv, TurnIsHeld
  <2>3. \A q \in Req : pc[q] \notin Restarting
    BY <2>1 DEF IInv, SlotIsOwned
  <2>4. \A q \in Req \ {r} : pc'[q] = pc[q]
    BY DEF IInv, TypeOK
  <2>5. TurnIsHeld'
    BY <2>1, <2>2, <2>4 DEF IInv, TypeOK, TurnIsHeld, InTurn
  <2>6. SlotIsOwned'
    BY <2>1, <2>2, <2>3, <2>4
    DEF IInv, TypeOK, SlotIsOwned, InTurn, Restarting
  <2> QED
    BY <2>5, <2>6
<1>4. GateIsShut' /\ WorkerIsLast' /\ OneWorker'
  BY DEF IInv, TypeOK, SlotIsOwned, GateIsShut, WorkerIsLast, OneWorker, Closed,
     Emptied, Restarting, Leased
<1> QED
  BY <1>1, <1>2, <1>3, <1>4 DEF IInv

\* Closing the gate leaves the leases as they are.
LEMMA QuiesceInv ==
  ASSUME IInv, NEW r \in Req, Quiesce(r)
  PROVE  IInv'
<1> USE DEF Quiesce, Goto, gate, host
<1>1. TypeOK'
  BY DEF IInv, TypeOK, Label, Leased, Restarting, LeasesCounted
<1>2. LeasesCounted'
  BY LeaseKept, HoldersFinite
  DEF IInv, TypeOK, LeasesCounted, Label, Leased, Restarting
<1>3. TurnIsHeld' /\ SlotIsOwned'
  BY DEF IInv, TypeOK, TurnIsHeld, SlotIsOwned, InTurn, Restarting, Leased
<1>4. GateIsShut' /\ WorkerIsLast' /\ OneWorker'
  BY DEF IInv, TypeOK, SlotIsOwned, GateIsShut, WorkerIsLast, OneWorker, Closed,
     Emptied, Restarting, Leased
<1> QED
  BY <1>1, <1>2, <1>3, <1>4 DEF IInv

\* A drain ends when the gate is empty.
LEMMA DrainDoneInv ==
  ASSUME IInv, NEW r \in Req, DrainDone(r)
  PROVE  IInv'
<1> USE DEF DrainDone, Goto, gate, host
<1>1. TypeOK'
  BY DEF IInv, TypeOK, Label, Leased, Restarting, LeasesCounted
<1>2. LeasesCounted'
  BY LeaseKept, HoldersFinite
  DEF IInv, TypeOK, LeasesCounted, Label, Leased, Restarting
<1>3. TurnIsHeld' /\ SlotIsOwned'
  BY DEF IInv, TypeOK, TurnIsHeld, SlotIsOwned, InTurn, Restarting, Leased
<1>4. GateIsShut' /\ WorkerIsLast' /\ OneWorker'
  BY DEF IInv, TypeOK, SlotIsOwned, GateIsShut, WorkerIsLast, OneWorker, Closed,
     Emptied, Restarting, Leased
<1> QED
  BY <1>1, <1>2, <1>3, <1>4 DEF IInv

\* A drain that times out leaves the gate closed.
LEMMA DrainTimesOutInv ==
  ASSUME IInv, NEW r \in Req, DrainTimesOut(r)
  PROVE  IInv'
<1> USE DEF DrainTimesOut, Goto, gate, host
<1>1. TypeOK'
  BY DEF IInv, TypeOK, Label, Leased, Restarting, LeasesCounted
<1>2. LeasesCounted'
  BY LeaseKept, HoldersFinite
  DEF IInv, TypeOK, LeasesCounted, Label, Leased, Restarting
<1>3. TurnIsHeld' /\ SlotIsOwned'
  BY DEF IInv, TypeOK, TurnIsHeld, SlotIsOwned, InTurn, Restarting, Leased
<1>4. GateIsShut' /\ WorkerIsLast' /\ OneWorker'
  BY DEF IInv, TypeOK, SlotIsOwned, GateIsShut, WorkerIsLast, OneWorker, Closed,
     Emptied, Restarting, Leased
<1> QED
  BY <1>1, <1>2, <1>3, <1>4 DEF IInv

\* Suspending the Host touches neither gate nor slot.
LEMMA PrepareForExitInv ==
  ASSUME IInv, NEW r \in Req, PrepareForExit(r)
  PROVE  IInv'
<1> USE DEF PrepareForExit, Goto, gate, host
<1>1. TypeOK'
  BY DEF IInv, TypeOK, Label, Leased, Restarting, LeasesCounted
<1>2. LeasesCounted'
  BY LeaseKept, HoldersFinite
  DEF IInv, TypeOK, LeasesCounted, Label, Leased, Restarting
<1>3. TurnIsHeld' /\ SlotIsOwned'
  BY DEF IInv, TypeOK, TurnIsHeld, SlotIsOwned, InTurn, Restarting, Leased
<1>4. GateIsShut' /\ WorkerIsLast' /\ OneWorker'
  BY DEF IInv, TypeOK, SlotIsOwned, GateIsShut, WorkerIsLast, OneWorker, Closed,
     Emptied, Restarting, Leased
<1> QED
  BY <1>1, <1>2, <1>3, <1>4 DEF IInv

\* The worker is started behind a closed and empty gate.
LEMMA StartWorkerInv ==
  ASSUME IInv, NEW r \in Req, StartWorker(r)
  PROVE  IInv'
<1> USE DEF StartWorker, Goto, gate, host
<1>1. TypeOK'
  BY DEF IInv, TypeOK, Label, Leased, Restarting, LeasesCounted
<1>2. LeasesCounted'
  BY LeaseKept, HoldersFinite
  DEF IInv, TypeOK, LeasesCounted, Label, Leased, Restarting
<1>3. TurnIsHeld' /\ SlotIsOwned'
  BY DEF IInv, TypeOK, TurnIsHeld, SlotIsOwned, InTurn, Restarting, Leased
<1>4. GateIsShut' /\ WorkerIsLast' /\ OneWorker'
  BY DEF IInv, TypeOK, SlotIsOwned, GateIsShut, WorkerIsLast, OneWorker, Closed,
     Emptied, Restarting, Leased
<1> QED
  BY <1>1, <1>2, <1>3, <1>4 DEF IInv

\* After the exit request nothing of the restart is left to run.
LEMMA RequestExitInv ==
  ASSUME IInv, NEW r \in Req, RequestExit(r)
  PROVE  IInv'
<1> USE DEF RequestExit, Goto, Leave, gate, host
<1>1. TypeOK'
  BY DEF IInv, TypeOK, Label, Leased, Restarting, LeasesCounted
<1>2. LeasesCounted'
  BY LeaseKept, HoldersFinite
  DEF IInv, TypeOK, LeasesCounted, Label, Leased, Restarting
<1>3. TurnIsHeld' /\ SlotIsOwned'
  BY DEF IInv, TypeOK, TurnIsHeld, SlotIsOwned, InTurn, Restarting, Leased
<1>4. GateIsShut' /\ WorkerIsLast' /\ OneWorker'
  BY DEF IInv, TypeOK, SlotIsOwned, GateIsShut, WorkerIsLast, OneWorker, Closed,
     Emptied, Restarting, Leased
<1> QED
  BY <1>1, <1>2, <1>3, <1>4 DEF IInv

\* Resuming the Host touches neither gate nor slot.
LEMMA ResumeHostInv ==
  ASSUME IInv, NEW r \in Req, ResumeHost(r)
  PROVE  IInv'
<1> USE DEF ResumeHost, Goto, gate, host
<1>1. TypeOK'
  BY DEF IInv, TypeOK, Label, Leased, Restarting, LeasesCounted
<1>2. LeasesCounted'
  BY LeaseKept, HoldersFinite
  DEF IInv, TypeOK, LeasesCounted, Label, Leased, Restarting
<1>3. TurnIsHeld' /\ SlotIsOwned'
  BY DEF IInv, TypeOK, TurnIsHeld, SlotIsOwned, InTurn, Restarting, Leased
<1>4. GateIsShut' /\ WorkerIsLast' /\ OneWorker'
  BY DEF IInv, TypeOK, SlotIsOwned, GateIsShut, WorkerIsLast, OneWorker, Closed,
     Emptied, Restarting, Leased
<1> QED
  BY <1>1, <1>2, <1>3, <1>4 DEF IInv

\* The gate is reopened only by a restart that started no worker.
LEMMA ReopenInv ==
  ASSUME IInv, NEW r \in Req, Reopen(r)
  PROVE  IInv'
<1> USE DEF Reopen, Goto, gate, host
<1>1. TypeOK'
  BY DEF IInv, TypeOK, Label, Leased, Restarting, LeasesCounted
<1>2. LeasesCounted'
  BY LeaseKept, HoldersFinite
  DEF IInv, TypeOK, LeasesCounted, Label, Leased, Restarting
<1>3. TurnIsHeld' /\ SlotIsOwned'
  BY DEF IInv, TypeOK, TurnIsHeld, SlotIsOwned, InTurn, Restarting, Leased
<1>4. GateIsShut' /\ WorkerIsLast' /\ OneWorker'
  BY DEF IInv, TypeOK, SlotIsOwned, GateIsShut, WorkerIsLast, OneWorker, Closed,
     Emptied, Restarting, Leased
<1> QED
  BY <1>1, <1>2, <1>3, <1>4 DEF IInv

\* The latch is freed by the restart that holds it.
LEMMA UnlatchInv ==
  ASSUME IInv, NEW r \in Req, Unlatch(r)
  PROVE  IInv'
<1> USE DEF Unlatch, Goto, gate, host
<1>1. TypeOK'
  BY DEF IInv, TypeOK, Label, Leased, Restarting, LeasesCounted
<1>2. LeasesCounted'
  BY LeaseKept, HoldersFinite
  DEF IInv, TypeOK, LeasesCounted, Label, Leased, Restarting
<1>3. TurnIsHeld' /\ SlotIsOwned'
  BY DEF IInv, TypeOK, TurnIsHeld, SlotIsOwned, InTurn, Restarting, Leased
<1>4. GateIsShut' /\ WorkerIsLast' /\ OneWorker'
  BY DEF IInv, TypeOK, SlotIsOwned, GateIsShut, WorkerIsLast, OneWorker, Closed,
     Emptied, Restarting, Leased
<1> QED
  BY <1>1, <1>2, <1>3, <1>4 DEF IInv

\* The slot is freed by the restart that holds it.
LEMMA ResetInv ==
  ASSUME IInv, NEW r \in Req, Reset(r)
  PROVE  IInv'
<1> USE DEF Reset, Goto, Leave, gate, host
<1>1. TypeOK'
  BY DEF IInv, TypeOK, Label, Leased, Restarting, LeasesCounted
<1>2. LeasesCounted'
  BY LeaseKept, HoldersFinite
  DEF IInv, TypeOK, LeasesCounted, Label, Leased, Restarting
<1>3. TurnIsHeld' /\ SlotIsOwned'
  BY DEF IInv, TypeOK, TurnIsHeld, SlotIsOwned, InTurn, Restarting, Leased
<1>4. GateIsShut' /\ WorkerIsLast' /\ OneWorker'
  BY DEF IInv, TypeOK, SlotIsOwned, GateIsShut, WorkerIsLast, OneWorker, Closed,
     Emptied, Restarting, Leased
<1> QED
  BY <1>1, <1>2, <1>3, <1>4 DEF IInv

-------------------------------------------------------------------------------
(* Theorems.                                                                 *)

\* Every step keeps the inductive invariant.
LEMMA NextInv == IInv /\ [Next]_vars => IInv'
<1> SUFFICES ASSUME IInv, [Next]_vars PROVE IInv'
  OBVIOUS
<1>1. CASE Next
  <2>1. PICK r \in Req : Enter(r) \/ Continue(r)
    BY <1>1 DEF Next
  <2> QED
    BY <2>1,
       EnterInv, FinishInv, PrepareApplyInv, RespondInv, ExecuteQueuedInv,
       QuiesceInv, DrainDoneInv, DrainTimesOutInv, PrepareForExitInv,
       StartWorkerInv, RequestExitInv, ResumeHostInv, ReopenInv, UnlatchInv,
       ResetInv
    DEF Continue
<1>2. CASE UNCHANGED vars
  BY <1>2, StutterInv
<1> QED
  BY <1>1, <1>2

\* The gate, the command slot and the lifecycle agree at every await: the
\* invariant of RestartAsync and the gate it drains.
THEOREM RestartIsOrderly == Spec => []IInv
BY InitInv, NextInv, PTL DEF Spec

\* Every variable keeps its type; in particular the lease count of the gate
\* never runs below zero.
THEOREM TypeCorrect == Spec => []TypeOK
<1>1. IInv => TypeOK
  BY DEF IInv
<1> QED
  BY <1>1, RestartIsOrderly, PTL

\* The gate counts exactly the requests that hold a lease.
THEOREM LeasesAreCounted == Spec => []LeasesCounted
<1>1. IInv => LeasesCounted
  BY DEF IInv
<1> QED
  BY <1>1, RestartIsOrderly, PTL

\* A Host starts at most one updater worker.
THEOREM OneWorkerPerHost == Spec => []OneWorker
<1>1. IInv => OneWorker
  BY DEF IInv
<1> QED
  BY <1>1, RestartIsOrderly, PTL

\* No native request is under way or admitted while the Host is prepared for
\* its exit, the worker is started or the exit is requested, and ever after.
THEOREM HandoffQuiet == Spec => []HandoffIsQuiet
<1>1. IInv => HandoffIsQuiet
  <2> SUFFICES ASSUME IInv,
                      workers > 0 \/ \E r \in Req :
                                       pc[r] \in {"prepare", "start", "exit"}
               PROVE  ~accepting /\ \A r \in Req : pc[r] \notin Leased
    BY DEF HandoffIsQuiet
  <2>1. ~accepting /\ active = 0
    BY DEF IInv, GateIsShut, WorkerIsLast, Closed, Emptied
  <2>2. Holders = {}
    BY <2>1, HoldersFinite, FS_EmptySet DEF IInv, LeasesCounted
  <2> QED
    BY <2>1, <2>2 DEF Holders
<1> QED
  BY <1>1, RestartIsOrderly, PTL

-------------------------------------------------------------------------------
(* Going back into service.                                                  *)

\* A closed gate and a detached bridge keep a request from beginning.
NothingBegins ==
  (\E r \in Req : pc[r] \in InTurn) => accepting /\ attached

\* What a restart finds and leaves at each of its steps.
HostIsKnown ==
  \A r \in Req :
    /\ pc[r] \in {"drain", "prepare"} => Serving
    /\ pc[r] = "start" => Suspended
    /\ pc[r] = "resume" => Suspended \/ Deaf
    /\ pc[r] = "reopen" => Serving \/ Deaf
    /\ pc[r] = "exit" => workers > 0

\* Where nobody is about to change that, the gate says what the Host is.
GateIsHonest ==
  workers = 0 /\ (\A r \in Req : pc[r] \notin Closed) =>
    \/ accepting /\ (Serving \/ Deaf)
    \/ ~accepting /\ Serving /\ "drain" \in faults
    \/ ~accepting /\ Suspended /\ "attach" \in faults

HostInv == NothingBegins /\ HostIsKnown /\ GateIsHonest

\* With the gate open nobody is past the drain, so that the Host is in service
\* or deaf.
LEMMA OpenIsKnown ==
  ASSUME IInv, HostInv, accepting
  PROVE  Serving \/ Deaf
BY DEF IInv, TypeOK, GateIsShut, Closed, WorkerIsLast, HostInv, GateIsHonest

\* Before the restart: requests come and go.
LEMMA RequestKeepsHost ==
  ASSUME IInv, HostInv, NEW r \in Req,
         Enter(r) \/ Finish(r) \/ PrepareApply(r) \/ Respond(r) \/ ExecuteQueued(r)
  PROVE  HostInv'
<1> USE DEF IInv, TypeOK, HostInv, Goto, Leave, Exit, gate, host, Closed, InTurn,
            Serving, Suspended, Deaf
<1>1. CASE Enter(r)
  BY <1>1 DEF Enter, NothingBegins, HostIsKnown, GateIsHonest
<1>2. CASE Finish(r)
  BY <1>2 DEF Finish, NothingBegins, HostIsKnown, GateIsHonest
<1>3. CASE PrepareApply(r)
  BY <1>3 DEF PrepareApply, NothingBegins, HostIsKnown, GateIsHonest
<1>4. CASE Respond(r)
  BY <1>4 DEF Respond, NothingBegins, HostIsKnown, GateIsHonest
<1>5. CASE ExecuteQueued(r)
  BY <1>5 DEF ExecuteQueued, NothingBegins, HostIsKnown, GateIsHonest
<1> QED
  BY <1>1, <1>2, <1>3, <1>4, <1>5

\* The restart closes the gate of a Host in service.
LEMMA DrainKeepsHost ==
  ASSUME IInv, HostInv, NEW r \in Req,
         Quiesce(r) \/ DrainDone(r) \/ DrainTimesOut(r)
  PROVE  HostInv'
<1> USE DEF IInv, TypeOK, HostInv, Goto, gate, host, Closed, InTurn
<1>1. CASE Quiesce(r)
  <2>1. \A q \in Req : pc[q] \in InTurn => q = r
    BY <1>1, ConstantsAssumption DEF Quiesce, TurnIsHeld
  <2>2. Serving
    BY <1>1, OpenIsKnown DEF Quiesce, NothingBegins, Deaf
  <2> QED
    BY <1>1, <2>1, <2>2
    DEF Quiesce, NothingBegins, HostIsKnown, GateIsHonest, Serving, Suspended,
        Deaf
<1>2. CASE DrainDone(r)
  BY <1>2 DEF DrainDone, NothingBegins, HostIsKnown, GateIsHonest, Serving,
              Suspended, Deaf
<1>3. CASE DrainTimesOut(r)
  BY <1>3 DEF DrainTimesOut, NothingBegins, HostIsKnown, GateIsHonest, Serving,
              Suspended, Deaf, GateIsShut
<1> QED
  BY <1>1, <1>2, <1>3

\* It suspends the Host, and hands over or goes back.
LEMMA HandoffKeepsHost ==
  ASSUME IInv, HostInv, NEW r \in Req,
         PrepareForExit(r) \/ StartWorker(r) \/ RequestExit(r)
  PROVE  HostInv'
<1> USE DEF IInv, TypeOK, HostInv, Goto, Leave, gate, host, Closed, InTurn,
            Serving, Suspended, Deaf
<1>1. pc[r] \in {"prepare", "start", "exit"}
  BY DEF PrepareForExit, StartWorker, RequestExit
<1>2. \A q \in Req : pc[q] \in Restarting => q = r
  BY <1>1 DEF SlotIsOwned, Restarting
<1>3. ~accepting
  BY <1>1 DEF GateIsShut
<1>4. CASE PrepareForExit(r)
  BY <1>2, <1>3, <1>4
  DEF PrepareForExit, NothingBegins, HostIsKnown, GateIsHonest, Restarting
<1>5. CASE StartWorker(r)
  BY <1>2, <1>3, <1>5
  DEF StartWorker, NothingBegins, HostIsKnown, GateIsHonest, Restarting
<1>6. CASE RequestExit(r)
  BY <1>2, <1>3, <1>6
  DEF RequestExit, NothingBegins, HostIsKnown, GateIsHonest, Restarting
<1> QED
  BY <1>4, <1>5, <1>6

\* Going back, it resumes the Host before it opens the gate.
LEMMA ResumeKeepsHost ==
  ASSUME IInv, HostInv, NEW r \in Req,
         ResumeHost(r) \/ Reopen(r) \/ Unlatch(r) \/ Reset(r)
  PROVE  HostInv'
<1> USE DEF IInv, TypeOK, HostInv, Goto, Leave, gate, host, Closed, InTurn,
            Serving, Suspended, Deaf
<1>1. \A q \in Req : pc[q] \in Restarting => q = r
  BY DEF ResumeHost, Reopen, Unlatch, Reset, SlotIsOwned, Restarting
<1>2. CASE ResumeHost(r)
  <2>1. ~accepting
    BY <1>2 DEF ResumeHost, GateIsShut
  <2> QED
    BY <1>1, <1>2, <2>1
    DEF ResumeHost, NothingBegins, HostIsKnown, GateIsHonest, Restarting
<1>3. CASE Reopen(r)
  <2>1. ~accepting /\ active = 0
    BY <1>3 DEF Reopen, GateIsShut, Emptied
  <2> QED
    BY <1>1, <1>3, <2>1
    DEF Reopen, NothingBegins, HostIsKnown, GateIsHonest, Restarting
<1>4. CASE Unlatch(r)
  BY <1>1, <1>4
  DEF Unlatch, NothingBegins, HostIsKnown, GateIsHonest, Restarting
<1>5. CASE Reset(r)
  BY <1>1, <1>5 DEF Reset, NothingBegins, HostIsKnown, GateIsHonest, Restarting
<1> QED
  BY <1>2, <1>3, <1>4, <1>5

\* Gate and Host agree at every step.
LEMMA HostIsFollowed == Spec => [](IInv /\ HostInv)
<1>1. Init => HostInv
  BY DEF Init, HostInv, NothingBegins, HostIsKnown, GateIsHonest, InTurn, Serving
<1>2. IInv /\ HostInv /\ [Next]_vars => HostInv'
  <2> SUFFICES ASSUME IInv, HostInv, [Next]_vars PROVE HostInv'
    OBVIOUS
  <2>1. CASE UNCHANGED vars
    BY <2>1 DEF vars, gate, host, HostInv, NothingBegins, HostIsKnown,
                GateIsHonest, Serving, Suspended, Deaf
  <2>2. ASSUME NEW r \in Req, Enter(r) \/ Continue(r)
        PROVE  HostInv'
    BY <2>2, RequestKeepsHost, DrainKeepsHost, HandoffKeepsHost, ResumeKeepsHost
    DEF Continue
  <2> QED
    BY <2>1, <2>2 DEF Next
<1> QED
  BY <1>1, <1>2, RestartIsOrderly, PTL DEF Spec

\* Requests are admitted only by a Host whose bridge is attached and which is not
\* prepared for its exit, whatever threw before; but for Stop(), after which the
\* gate is opened although the bridge is detached.
THEOREM OpenOnlyWhenOperational == Spec => []OpenMeansOperational
<1>1. IInv /\ HostInv => OpenMeansOperational
  BY OpenIsKnown DEF OpenMeansOperational
<1> QED
  BY <1>1, HostIsFollowed, PTL

\* A restart that ends without a worker leaves the Host in service, or in one of
\* three known states, each the effect of the one call that failed.
THEOREM ServiceIsRestored == Spec => []ServiceRestored
<1>1. HostInv => ServiceRestored
  BY DEF HostInv, GateIsHonest, ServiceRestored, Closed, Restarting
<1> QED
  BY <1>1, HostIsFollowed, PTL
================================================================================
