----------------------------- MODULE DriverMutation -----------------------------
(***************************************************************************)
(* Driver mutations: DriverMutationTransactionService keeps a record of    *)
(* its own and delegates to a child, the reviewed firmware service or the  *)
(* package transactions, which keep theirs.  The firmware child is the one *)
(* of FirmwareUpdate; of a package child only how it answers is modelled,  *)
(* the rest is PackageTransaction.                                         *)
(***************************************************************************)
EXTENDS FirmwareUpdate

CONSTANT Driver    \* driver mutations, each with a fresh id

VARIABLES
  driver,    \* the state in the record of a driver mutation, or "none"
  route,     \* the firmware transaction it delegates to, or NoTx: a package
  reply      \* "none", or how the child is doing: "waiting", its status, "threw"

dVars == <<fwVars, driver, route, reply>>

Resolves(d, s) == driver' = [driver EXCEPT ![d] = s]

\* findOperation and the binding of the operation to its child: a firmware
\* candidate that nobody else handles, or a package plan; then the first record.
Propose(d, t) ==
  /\ driver[d] = "none"
  /\ t # NoTx => /\ pc[t] = "asked" /\ Service(t) = Reviewed
                 /\ \A e \in Driver : route[e] # t
  /\ route' = [route EXCEPT ![d] = t]
  /\ Resolves(d, "prepared")
  /\ reply' = [reply EXCEPT ![d] = "ready"]
  /\ UNCHANGED fwVars

\* The record says delegating before the child is called.
Delegate(d) ==
  /\ reply[d] = "ready"
  /\ \/ Resolves(d, "delegating") /\ reply' = [reply EXCEPT ![d] = "waiting"]
     \/ UNCHANGED driver /\ reply' = [reply EXCEPT ![d] = "threw"]
  /\ UNCHANGED <<fwVars, route>>

\* A package transaction commits or throws.
PackageAnswers(d) ==
  /\ reply[d] = "waiting" /\ route[d] = NoTx
  /\ \E a \in {"committed", "threw"} : reply' = [reply EXCEPT ![d] = a]
  /\ UNCHANGED <<fwVars, driver, route>>

\* What a firmware update has answered once it is through: the status it wrote.
Answered(t) ==
  IF record'[t] # record[t] /\ record'[t] \in {"committed", "staged"}
  THEN record'[t] ELSE "threw"

Unowned(t) == \A d \in Driver : route[d] # t
Called(t)  == \E d \in Driver : route[d] = t /\ reply[d] = "waiting"

\* A step of the firmware services; an update that belongs to a driver mutation
\* waits for its call, and its answer reaches the mutation.
Firmware ==
  /\ \/ \E t \in Tx :
          \/ Unowned(t) /\ (Discover(t) \/ Nominate(t))
          \/ (Unowned(t) \/ Called(t)) /\ (Refuse(t) \/ Admit(t))
          \/ Prepare(t) \/ Launch(t) \/ Answer(t)
          \/ Begin(t) \/ Authorize(t) \/ Execute(t) \/ Observe(t) \/ Settle(t) \/ Fail(t)
          \/ ManagerSucceeds(t) \/ ManagerFails(t)
          \/ \E l \in Look : LookRead(l, t)
     \/ (\E l \in Look : LookInventory(l) \/ LookWrite(l))
     \/ Release
  /\ reply' = [d \in Driver |->
       IF /\ route[d] # NoTx /\ reply[d] = "waiting"
          /\ pc[route[d]] # "idle" /\ pc'[route[d]] = "idle"
       THEN Answered(route[d]) ELSE reply[d]]
  /\ UNCHANGED <<driver, route>>

\* Mutant: a staged child counts as committed.
ResolveStaged(d) ==
  /\ reply[d] \in {"committed", "staged", "threw"}
  /\ \/ reply[d] # "threw" /\ Resolves(d, "committed")
     \/ Resolves(d, "failed") \/ UNCHANGED driver
  /\ reply' = [reply EXCEPT ![d] = "none"]
  /\ UNCHANGED <<fwVars, route>>

\* The answer is written; if the child threw or the write fails, the mutation
\* needs recovery, as far as that can be written.
Resolve(d) ==
  /\ reply[d] \in {"committed", "staged", "threw"}
  /\ \/ reply[d] # "threw" /\ Resolves(d, reply[d])
     \/ Resolves(d, "failed") \/ UNCHANGED driver
  /\ reply' = [reply EXCEPT ![d] = "none"]
  /\ UNCHANGED <<fwVars, route>>

\* The services share a process.
Restarts ==
  /\ Crash \/ Reboot
  /\ reply' = [d \in Driver |-> "none"]
  /\ UNCHANGED <<driver, route>>

DInit ==
  /\ Init
  /\ driver = [d \in Driver |-> "none"]
  /\ route = [d \in Driver |-> NoTx]
  /\ reply = [d \in Driver |-> "none"]

DNext ==
  \/ \E d \in Driver :
       \/ \E t \in Tx \cup {NoTx} : Propose(d, t)
       \/ Delegate(d) \/ PackageAnswers(d) \/ Resolve(d)
  \/ Firmware \/ Restarts

DSpec == DInit /\ [][DNext]_dVars

-------------------------------------------------------------------------------
\* "The child journal is owned by the child": what a driver mutation says of its
\* firmware is still what the firmware record says, after verifications, crashes
\* and failed writes of either; it is never ahead of its child.
DriverFollowsChild ==
  \A d \in Driver : route[d] # NoTx =>
    /\ driver[d] = "committed" => record[route[d]] \in {"committed", "verified"}
    /\ driver[d] = "staged" => record[route[d]] \in {"staged", "verified"}
    /\ driver[d] = "prepared" => child[route[d]] = "none"

-------------------------------------------------------------------------------
(* Why: a firmware update that belongs to a mutation waits for its call, and *)
(* whatever verifies it later keeps what it answered.                        *)

DriverType ==
  /\ driver \in [Driver -> {"none", "prepared", "delegating", "committed", "staged", "failed"}]
  /\ route \in [Driver -> Tx \cup {NoTx}]
  /\ reply \in [Driver -> {"none", "ready", "waiting", "committed", "staged", "threw"}]

\* An update belongs to one mutation.
RoutesApart ==
  \A d \in Driver, e \in Driver : route[d] = route[e] /\ route[d] # NoTx => d = e

\* The update has been answered with this status, and nobody who looks at it has read,
\* or will write, anything else but that it is verified.
Settled(t, s) ==
  /\ record[t] \in {s, "verified"}
  /\ \A l \in Look : look[l].tx = t => look[l].was \in {s, "verified"}

FollowsChild(d) ==
  route[d] # NoTx =>
    /\ driver[d] # "none" /\ Service(route[d]) = Reviewed
    /\ driver[d] = "prepared" =>
         /\ pc[route[d]] \in {"asked", "idle"} /\ record[route[d]] = "none"
         /\ reply[d] # "waiting"
    /\ \A s \in {"committed", "staged"} :
         driver[d] = s \/ reply[d] = s => Settled(route[d], s)

IInv == FirmwareInv /\ DriverType /\ RoutesApart /\ \A d \in Driver : FollowsChild(d)
================================================================================
