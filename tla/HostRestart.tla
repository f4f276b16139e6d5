------------------------------ MODULE HostRestart ------------------------------
(***************************************************************************)
(* "Apply update & restart" inside one Desktop Host: the gate every native *)
(* request of the shell is admitted by, the command slot a restart request *)
(* waits in, and the lifecycle that closes the gate, drains it, suspends   *)
(* the Host, starts the updater worker and asks the Host to exit.          *)
(*                                                                         *)
(* Requests run on the UI thread; a turn of it ends at an await that does  *)
(* not complete at once.  A restart that finds the gate empty runs to its  *)
(* end in the turn of its request, one that has to wait for the drain goes *)
(* on in the thread pool.  "turn" is the request that has the UI thread.   *)
(* A request may outlast the drain, and a call into WebView2 may throw     *)
(* when its browser process is gone.                                       *)
(***************************************************************************)
EXTENDS Naturals, FiniteSets

CONSTANTS
  Req,     \* requests that can be under way together
  Nobody   \* the UI thread is free

ASSUME ConstantsAssumption == IsFiniteSet(Req) /\ Nobody \notin Req

VARIABLES
  coord,       \* _state of the bridge coordinator
  accepting,   \* _accepting of the drain gate
  active,      \* _active of the drain gate
  drained,     \* is _drained a signal somebody has to set?
  inProgress,  \* _inProgress of the lifecycle
  prepared,    \* _prepared of the restart hooks
  attached,    \* _bridgeAttached of the main window
  workers,     \* how many updater workers the Host has started
  exiting,     \* has the Host been asked to exit?
  faults,      \* history: what threw in a way no restart recovers from, of
               \* the drain (a time-out), Stop(), AttachBridge() and posting
               \* the acknowledgement
  turn,        \* the request that has the UI thread, or Nobody
  pc           \* where each request is

gate  == <<accepting, active, drained>>
host  == <<prepared, attached, exiting, faults>>
vars  == <<coord, gate, inProgress, host, workers, turn, pc>>

Leased     == {"working", "dispatch", "acked", "denied"}
Restarting == {"quiesce", "drain", "prepare", "start", "exit", "resume",
               "reopen", "unlatch", "reset"}
Label      == {"none", "execute"} \cup Leased \cup Restarting

Goto(r, l) == pc' = [pc EXCEPT ![r] = l]

\* r is done; if it has the UI thread, its turn ends.
Leave(r) ==
  /\ Goto(r, "none")
  /\ turn' = IF turn = r THEN Nobody ELSE turn

\* DesktopBridgeDrainGate.Exit: the last lease sets the signal of a drain.
Exit ==
  /\ active > 0
  /\ active' = active - 1
  /\ drained' = (drained /\ active # 1)
  /\ UNCHANGED accepting

-------------------------------------------------------------------------------
(* The UI thread: a request of the shell.                                    *)

\* TryEnterBridgeRequest admits a request: applyAndRestart, which is dispatched
\* in the same turn, or one whose broker answers later.
Enter(r) ==
  /\ pc[r] = "none" /\ turn = Nobody /\ attached
  /\ accepting
  /\ active' = active + 1
  /\ \/ Goto(r, "dispatch") /\ turn' = r
     \/ Goto(r, "working") /\ UNCHANGED turn
  /\ UNCHANGED <<coord, accepting, drained, inProgress, host, workers>>

\* A broker has answered: the response is posted and the lease released.
Finish(r) ==
  /\ pc[r] = "working" /\ turn = Nobody
  /\ Exit /\ Leave(r)
  /\ UNCHANGED <<coord, inProgress, host, workers>>

\* PrepareApply takes the command slot and keeps it if an update is ready.
PrepareApply(r) ==
  /\ pc[r] = "dispatch"
  /\ \/ coord = "idle" /\ coord' = "queued" /\ Goto(r, "acked")
     \/ Goto(r, "denied") /\ UNCHANGED coord
  /\ UNCHANGED <<gate, inProgress, host, workers, turn>>

\* The acknowledgement is posted and the lease released, then the command is
\* executed; without the acknowledgement it is cancelled.  A post that throws
\* releases the lease and does neither.
Respond(r) ==
  /\ pc[r] \in {"acked", "denied"}
  /\ Exit
  /\ UNCHANGED <<inProgress, prepared, attached, exiting, workers>>
  /\ \/ /\ pc[r] = "acked" /\ Goto(r, "execute")
        /\ UNCHANGED <<coord, turn, faults>>
     \/ /\ pc[r] = "acked" /\ Leave(r)
        /\ coord' = IF coord = "queued" THEN "idle" ELSE coord
        /\ UNCHANGED faults
     \/ pc[r] = "denied" /\ Leave(r) /\ UNCHANGED <<coord, faults>>
     \/ /\ pc[r] = "acked" /\ Leave(r)
        /\ faults' = faults \cup {"post"} /\ UNCHANGED coord

\* Mutant: the command is executed while the request still holds its lease.
ExecuteUnderLease(r) ==
  /\ pc[r] = "acked" /\ coord = "queued"
  /\ coord' = "running"
  /\ ~inProgress
  /\ inProgress' = TRUE
  /\ Goto(r, "quiesce")
  /\ UNCHANGED <<gate, host, workers, turn>>

\* ExecuteQueuedAsync: the update must still be ready and no restart under way.
ExecuteQueued(r) ==
  /\ pc[r] = "execute"
  /\ \/ /\ coord = "queued" /\ ~inProgress
        /\ coord' = "running" /\ inProgress' = TRUE
        /\ Goto(r, "quiesce") /\ UNCHANGED turn
     \/ /\ coord' = IF coord = "queued" THEN "idle" ELSE coord
        /\ Leave(r) /\ UNCHANGED inProgress
  /\ UNCHANGED <<gate, host, workers>>

-------------------------------------------------------------------------------
(* The restart: DesktopUpdateRestartLifecycle.RestartAsync.                  *)

\* Mutant: the restart does not wait for the requests that were admitted.
QuiesceOnly(r) ==
  /\ pc[r] = "quiesce"
  /\ accepting' = FALSE
  /\ Goto(r, "prepare")
  /\ UNCHANGED <<coord, active, drained, inProgress, host, workers, turn>>

\* QuiesceAndDrainAsync closes the gate; it gives the UI thread away to wait.
Quiesce(r) ==
  /\ pc[r] = "quiesce"
  /\ accepting' = FALSE
  /\ \/ active = 0 /\ Goto(r, "prepare") /\ UNCHANGED <<drained, turn>>
     \/ active # 0 /\ Goto(r, "drain") /\ drained' = TRUE /\ turn' = Nobody
  /\ UNCHANGED <<coord, active, inProgress, host, workers>>

DrainDone(r) ==
  /\ pc[r] = "drain" /\ ~drained
  /\ Goto(r, "prepare")
  /\ UNCHANGED <<coord, gate, inProgress, host, workers, turn>>

\* A request outlasts the 15 seconds: the drain throws before the lifecycle notes that it has quiesced the gate.
DrainTimesOut(r) ==
  /\ pc[r] = "drain" /\ drained
  /\ faults' = faults \cup {"drain"}
  /\ Goto(r, "unlatch")
  /\ UNCHANGED <<coord, gate, inProgress, prepared, attached, exiting, workers,
                 turn>>

\* DesktopHostRestartHooks.PrepareAsync: the bridge is detached, and the
\* document stopped, which may throw.
PrepareForExit(r) ==
  /\ pc[r] = "prepare"
  /\ attached' = (attached /\ prepared)
  /\ \/ /\ prepared' = TRUE /\ Goto(r, IF prepared THEN "resume" ELSE "start")
        /\ UNCHANGED faults
     \/ /\ Goto(r, "resume")
        /\ faults' = faults \cup {"stop"} /\ UNCHANGED prepared
  /\ UNCHANGED <<coord, gate, inProgress, exiting, workers, turn>>

\* Mutant: a failed start is not answered by going back into service.
StartOrUnlatch(r) ==
  /\ pc[r] = "start"
  /\ \/ workers' = workers + 1 /\ Goto(r, "exit")
     \/ Goto(r, "unlatch") /\ UNCHANGED workers
  /\ UNCHANGED <<coord, gate, inProgress, host, turn>>

\* UpdateRestartLauncher.Start issues the ticket and starts the worker, or
\* throws.
StartWorker(r) ==
  /\ pc[r] = "start"
  /\ \/ workers' = workers + 1 /\ Goto(r, "exit")
     \/ Goto(r, "resume") /\ UNCHANGED workers
  /\ UNCHANGED <<coord, gate, inProgress, host, turn>>

\* Mutant: a Host that cannot be asked to exit goes back into service.
ExitOrResume(r) ==
  /\ pc[r] = "exit"
  /\ \/ exiting' = TRUE /\ coord' = "requested" /\ Leave(r)
     \/ Goto(r, "resume") /\ UNCHANGED <<exiting, coord, turn>>
  /\ UNCHANGED <<gate, inProgress, prepared, attached, faults, workers>>

\* requestHostExit; if it throws, the worker owns the handoff all the same.
RequestExit(r) ==
  /\ pc[r] = "exit"
  /\ \/ exiting' = TRUE /\ coord' = "requested"
     \/ coord' = "idle" /\ UNCHANGED exiting
  /\ Leave(r)
  /\ UNCHANGED <<gate, inProgress, prepared, attached, faults, workers>>

\* Mutant: the gate is reopened and the Host is not resumed.
ResumeGateOnly(r) ==
  /\ pc[r] = "resume"
  /\ Goto(r, "reopen")
  /\ UNCHANGED <<coord, gate, inProgress, host, workers, turn>>

\* DesktopHostRestartHooks.ResumeAsync: nothing to do unless it is prepared.
\* Its exceptions are swallowed, and the gate stays closed then.
ResumeHost(r) ==
  /\ pc[r] = "resume"
  /\ \/ ~prepared /\ Goto(r, "reopen") /\ UNCHANGED <<prepared, attached, faults>>
     \/ /\ prepared /\ prepared' = FALSE /\ attached' = TRUE
        /\ Goto(r, "reopen") /\ UNCHANGED faults
     \/ /\ prepared /\ Goto(r, "unlatch")
        /\ faults' = faults \cup {"attach"} /\ UNCHANGED <<prepared, attached>>
  /\ UNCHANGED <<coord, gate, inProgress, exiting, workers, turn>>

\* DesktopBridgeDrainGate.ResumeAsync refuses while requests are active.
Reopen(r) ==
  /\ pc[r] = "reopen"
  /\ accepting' = (accepting \/ active = 0)
  /\ drained' = (drained /\ active # 0)
  /\ Goto(r, "unlatch")
  /\ UNCHANGED <<coord, active, inProgress, host, workers, turn>>

\* The lifecycle may be entered again ...
Unlatch(r) ==
  /\ pc[r] = "unlatch"
  /\ inProgress' = FALSE
  /\ Goto(r, "reset")
  /\ UNCHANGED <<coord, gate, host, workers, turn>>

\* ... and so may the command slot.
Reset(r) ==
  /\ pc[r] = "reset"
  /\ coord' = "idle"
  /\ Leave(r)
  /\ UNCHANGED <<gate, inProgress, host, workers>>

-------------------------------------------------------------------------------
Init ==
  /\ coord = "idle"
  /\ accepting = TRUE /\ active = 0 /\ drained = FALSE
  /\ inProgress = FALSE
  /\ prepared = FALSE /\ attached = TRUE
  /\ exiting = FALSE /\ faults = {}
  /\ workers = 0
  /\ turn = Nobody
  /\ pc = [r \in Req |-> "none"]

\* What follows once a request has been admitted.
Continue(r) ==
  \/ Finish(r) \/ PrepareApply(r) \/ Respond(r) \/ ExecuteQueued(r)
  \/ Quiesce(r) \/ DrainDone(r) \/ DrainTimesOut(r)
  \/ PrepareForExit(r) \/ StartWorker(r) \/ RequestExit(r)
  \/ ResumeHost(r) \/ Reopen(r) \/ Unlatch(r) \/ Reset(r)

Next == \E r \in Req : Enter(r) \/ Continue(r)

Spec == Init /\ [][Next]_vars

(* The UI thread and the thread pool keep running what they have begun, and  *)
(* brokers answer; the user need not ask for anything.                       *)
Fairness == \A r \in Req : WF_vars(Continue(r))

FairSpec == Spec /\ Fairness

-------------------------------------------------------------------------------
(* Properties.                                                               *)

\* The type invariant.
TypeOK ==
  /\ coord \in {"idle", "queued", "running", "requested"}
  /\ accepting \in BOOLEAN /\ active \in Nat /\ drained \in BOOLEAN
  /\ inProgress \in BOOLEAN
  /\ prepared \in BOOLEAN /\ attached \in BOOLEAN
  /\ exiting \in BOOLEAN /\ faults \subseteq {"drain", "stop", "attach", "post"}
  /\ workers \in Nat
  /\ turn \in Req \cup {Nobody}
  /\ pc \in [Req -> Label]

\* The requests that hold a lease of the gate.
Holders == {r \in Req : pc[r] \in Leased}

\* The gate counts the leases that are held: what it takes for _active to be a
\* test of "no request is under way" and for Exit never to underflow.
LeasesCounted == active = Cardinality(Holders)

\* From the moment the Host is prepared for its exit, no native request is
\* under way and none is admitted: none is "abandoned before the updater
\* handoff starts".
HandoffIsQuiet ==
  workers > 0 \/ (\E r \in Req : pc[r] \in {"prepare", "start", "exit"})
    => ~accepting /\ \A r \in Req : pc[r] \notin Leased

\* A Host starts one updater worker, however many restarts are requested and
\* whatever of them fails.
OneWorker == workers <= 1

(* What makes HandoffIsQuiet and OneWorker inductive.                        *)
Closed  == {"drain", "prepare", "start", "exit", "resume", "reopen"}
Emptied == Closed \ {"drain"}
InTurn  == {"dispatch", "acked", "denied", "execute", "quiesce"}

\* A request holds the UI thread from its dispatch to its first await.
TurnIsHeld == \A r \in Req : pc[r] \in InTurn => turn = r

\* The command slot belongs to one request, whatever phase that is in.
SlotIsOwned ==
  /\ \A r \in Req : pc[r] \in {"acked", "execute"} => coord = "queued"
  /\ \A r \in Req : pc[r] \in Restarting => coord = "running"
  /\ \A r, q \in Req : pc[r] \in Restarting /\ pc[q] \in Restarting => r = q
  /\ \A r \in Req : pc[r] \in Restarting \ {"reset"} => inProgress

\* Past the drain the gate is closed and empty.
GateIsShut ==
  /\ \A r \in Req : pc[r] \in Closed => ~accepting
  /\ \A r \in Req : pc[r] \in Emptied => active = 0
  /\ \A r \in Req : pc[r] = "drain" /\ ~drained => active = 0

\* A worker that was started is the last thing a restart does.
WorkerIsLast ==
  workers > 0 =>
    /\ ~accepting /\ active = 0 /\ inProgress
    /\ \A r \in Req : pc[r] \notin Restarting \ {"exit"}

\* The inductive invariant: the gate, the slot, the latch of the lifecycle and
\* the restart in progress agree at every await.
IInv ==
  /\ TypeOK /\ LeasesCounted /\ TurnIsHeld /\ SlotIsOwned
  /\ GateIsShut /\ WorkerIsLast /\ OneWorker

\* A command that is queued belongs to a request that will execute or cancel it.
\* It does not hold where posting the acknowledgement throws, and no run checks it.
QueuedHasOwner ==
  coord = "queued" => \E r \in Req : pc[r] \in {"acked", "execute"}

(* What the Host is to the shell: in service, suspended for an exit, or deaf, *)
(* when Stop() threw behind DetachBridge() and nothing attached it again.     *)
Serving   == attached /\ ~prepared
Suspended == ~attached /\ prepared
Deaf      == ~attached /\ ~prepared /\ "stop" \in faults

\* "The host must be operational again before bridge admission is reopened":
\* whatever fails, an open gate is that of a Host in service, with the one
\* exception of a Host whose Stop() threw, which the code takes for operational.
OpenMeansOperational == accepting => Serving \/ Deaf

\* "bridge must resume after failure before updater ownership": once no restart
\* is under way and no worker was started, the Host is in service and its gate
\* is open, unless one of three calls failed, and each of them costs no more
\* than this: a drain that timed out leaves the gate closed, a Stop() that threw
\* leaves the Host deaf, an AttachBridge() that threw leaves it suspended.
ServiceRestored ==
  workers = 0 /\ (\A r \in Req : pc[r] \notin Restarting) =>
    \/ accepting /\ (Serving \/ Deaf)
    \/ ~accepting /\ Serving /\ "drain" \in faults
    \/ ~accepting /\ Suspended /\ "attach" \in faults

\* A restart that was accepted comes to an end: the Host is asked to exit, or
\* the command slot is free for a retry.  Only posting the acknowledgement may
\* not throw: the command stays queued then, and nobody executes or cancels it.
RestartEnds ==
  coord \in {"queued", "running"}
    ~> coord \in {"idle", "requested"} \/ "post" \in faults
================================================================================
