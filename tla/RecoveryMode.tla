------------------------------ MODULE RecoveryMode ------------------------------
(***************************************************************************)
(* The recovery boot.  Normal boots run package and firmware transactions, *)
(* each recorded in its journal, and may lose power at any step; a         *)
(* recovery boot mounts the root read-only and its agent scans the two     *)
(* journals, one record after the other, and reports whether an operator   *)
(* has to recover something.                                               *)
(***************************************************************************)
EXTENDS FiniteSets, Naturals

CONSTANTS Package, Firmware,  \* transactions, each with a record of its own
          Reviewed            \* those of Firmware that the reviewed update service writes

RecoveryAssumption == Reviewed \subseteq Firmware /\ Package \cap Firmware = {}

VARIABLES
  boot,     \* "off", "normal" or "recovery"
  options,  \* what the loader entry asks for: ro, remount masked, network
  state,    \* state in the record of a transaction, "none" without a record
  agent,    \* where the agent is, what it has to scan, and what it counted
  report    \* the report of this boot: "none", "manual" or "nothing"

recVars == <<boot, options, state, agent, report>>

Tx == Package \cup Firmware

\* ACTIVE_STATES and TERMINAL_STATES of the package transactions.
ActivePackage == {"prepared", "mutating", "verifying", "rolling-back"}

\* The same of the reviewed firmware updates, whose schema is another one.
ActiveReviewed == {"prepared", "executing"}

\* What an interrupted transaction looks like to the service that wrote it: what it would
\* recover, reconcile or refuse to begin anew, or marks with operatorReviewRequired.
Interrupted(t) ==
  CASE t \in Package  -> state[t] \in ActivePackage \cup {"failed-needs-recovery"}
    [] t \in Reviewed ->
         state[t] \in ActiveReviewed \cup {"failed-needs-recovery", "staged-reboot-required"}
    [] OTHER          ->
         state[t] \in {"planned", "authorized", "executing", "staged-reboot-required",
                       "verification-failed", "failed-needs-recovery"}

\* PENDING_PACKAGE_STATES
PendingPackage == {"prepared", "mutating", "verifying", "rolling-back", "failed-needs-recovery"}

\* PENDING_FIRMWARE_STATUSES
PendingFirmware == {"planned", "authorized", "executing", "staged-reboot-required", "failed-needs-recovery"}

-------------------------------------------------------------------------------
(* Normal boots (package-transaction-service.mjs and the two firmware        *)
(* services, in the steps that they record).                                 *)

PackageSteps ==
  {<<"none", "prepared">>, <<"prepared", "mutating">>, <<"mutating", "verifying">>,
   <<"verifying", "committed">>, <<"prepared", "aborted">>, <<"mutating", "rolling-back">>,
   <<"verifying", "rolling-back">>, <<"rolling-back", "rolled-back">>,
   <<"rolling-back", "failed-needs-recovery">>}

FirmwareSteps ==
  {<<"none", "planned">>, <<"planned", "authorized">>, <<"authorized", "executing">>,
   <<"executing", "committed">>, <<"executing", "staged-reboot-required">>,
   <<"executing", "verification-failed">>, <<"verification-failed", "failed-needs-recovery">>,
   <<"executing", "failed-needs-recovery">>,
   <<"staged-reboot-required", "committed-after-reboot">>,
   <<"staged-reboot-required", "failed-needs-recovery">>}

ReviewedSteps ==
  {<<"none", "prepared">>, <<"prepared", "executing">>, <<"executing", "committed">>,
   <<"executing", "staged-reboot-required">>, <<"executing", "failed-needs-recovery">>,
   <<"committed", "verified">>, <<"staged-reboot-required", "verified">>}

Write(t, steps) ==
  /\ boot = "normal"
  /\ \E s \in steps : s[1] = state[t] /\ state' = [state EXCEPT ![t] = s[2]]
  /\ UNCHANGED <<boot, options, agent, report>>

PackageWrites(t)  == t \in Package /\ Write(t, PackageSteps)
FirmwareWrites(t) == t \in Firmware \ Reviewed /\ Write(t, FirmwareSteps)
ReviewedWrites(t) == t \in Reviewed /\ Write(t, ReviewedSteps)

-------------------------------------------------------------------------------
(* Power and the loader.                                                     *)

Idle == [at |-> "idle", left |-> {}, pending |-> {}, corrupt |-> {}]

Options == [ro : BOOLEAN, masked : BOOLEAN, network : BOOLEAN]

Boot ==
  /\ boot = "off"
  /\ \/ boot' = "normal" /\ UNCHANGED options
     \/ boot' = "recovery" /\ options' \in Options
  /\ UNCHANGED <<state, agent, report>>

\* The power goes at any moment; /run does not survive it.
PowerOff ==
  /\ boot # "off" /\ boot' = "off" /\ agent' = Idle /\ report' = "none"
  /\ UNCHANGED <<options, state>>

\* systemd-remount-fs, unless it is masked, makes the root writable again.
RootReadOnly == options.ro /\ options.masked

-------------------------------------------------------------------------------
(* recovery-mode-agent.mjs                                                   *)

\* NOT_RECOVERY_BOOT, RECOVERY_ROOT_NOT_REQUESTED_READ_ONLY, ROOT_REMOUNT_NOT_BLOCKED.
Start ==
  /\ boot = "recovery" /\ agent = Idle /\ report = "none"
  /\ options.ro /\ options.masked
  /\ agent' = [Idle EXCEPT !.at = "packages", !.left = {t \in Package : state[t] # "none"}]
  /\ UNCHANGED <<boot, options, state, report>>

\* scanTransactionDirectory, for one record.
Scan(t, from, pending, corrupt) ==
  /\ boot = "recovery" /\ agent.at = from /\ t \in agent.left
  /\ agent' = [agent EXCEPT !.left = @ \ {t},
                 !.pending = IF pending /\ ~corrupt THEN @ \cup {t} ELSE @,
                 !.corrupt = IF corrupt THEN @ \cup {t} ELSE @]
  /\ UNCHANGED <<boot, options, state, report>>

ScanPackage(t)  == Scan(t, "packages", state[t] \in PendingPackage, FALSE)

\* A record of the reviewed service has another schema in the same directory: corrupt.
ScanFirmware(t) == Scan(t, "firmware", state[t] \in PendingFirmware, t \in Reviewed)

NextDirectory ==
  /\ boot = "recovery" /\ agent.at = "packages" /\ agent.left = {}
  /\ agent' = [agent EXCEPT !.at = "firmware", !.left = {t \in Firmware : state[t] # "none"}]
  /\ UNCHANGED <<boot, options, state, report>>

\* Mutant: records that cannot be read are no reason for a recovery.
ManualForPending == agent.pending # {}

\* manualRecoveryRequiredForPendingTransactions
Manual == agent.pending # {} \/ agent.corrupt # {}

\* safeReadOnlyRecoveryBoot, and the report.
Report ==
  /\ boot = "recovery" /\ agent.at = "firmware" /\ agent.left = {}
  /\ agent' = [agent EXCEPT !.at = "done"]
  /\ report' = IF RootReadOnly /\ ~options.network
               THEN IF Manual THEN "manual" ELSE "nothing" ELSE "none"
  /\ UNCHANGED <<boot, options, state>>

Init ==
  /\ boot = "off" /\ options = [ro |-> TRUE, masked |-> TRUE, network |-> FALSE]
  /\ state = [t \in Tx |-> "none"] /\ agent = Idle /\ report = "none"

Next ==
  \/ Boot \/ PowerOff \/ Start \/ NextDirectory \/ Report
  \/ \E t \in Tx : \/ PackageWrites(t) \/ FirmwareWrites(t) \/ ReviewedWrites(t)
                   \/ ScanPackage(t) \/ ScanFirmware(t)

Spec == Init /\ [][Next]_recVars

-------------------------------------------------------------------------------
\* "Recovery reports that manual recovery is required when either pending transaction is
\* present", "rather than silently ignoring them": wherever the power was lost, when a
\* recovery boot reports that nothing needs an operator, no transaction is one that its
\* service had begun and not settled, but for a granted firmware update that lost the power
\* right after it recorded that its target version was not observed.
Unnoticed(t) == t \in Firmware \ Reviewed /\ state[t] = "verification-failed"

NothingOverlooked == report = "nothing" => \A t \in Tx : Interrupted(t) => Unnoticed(t)

\* The same without the exception, which the agent does not meet: the firmware service
\* marks a record with verification-failed operatorReviewRequired, and the report passes
\* over it.  No run checks it; see the README.
ReviewReported == report = "nothing" => \A t \in Tx : ~Interrupted(t)

-------------------------------------------------------------------------------
(* What every step keeps, and NothingOverlooked rests on.                    *)

RecoveryType ==
  /\ boot \in {"off", "normal", "recovery"}
  /\ agent \in [at : {"idle", "packages", "firmware", "done"}, left : SUBSET Tx,
                pending : SUBSET Tx, corrupt : SUBSET Tx]
  /\ report \in {"none", "manual", "nothing"}

\* The agent runs, and reports, in a recovery boot only, where nobody writes records.
AgentInRecovery == boot # "recovery" => agent = Idle /\ report = "none"

\* An interrupted transaction that the agent knows is still to be scanned, or was counted.
Noticed(t) == Interrupted(t) /\ ~Unnoticed(t)

Counted(t, from) ==
  Noticed(t) => \/ agent.at = from /\ t \in agent.left
                \/ t \in agent.pending \cup agent.corrupt

AllCounted ==
  /\ agent.at = "packages" => agent.left \subseteq Package
  /\ agent.at = "firmware" => agent.left \subseteq Firmware
  /\ agent.at # "idle" => \A t \in Package : Counted(t, "packages")
  /\ agent.at \in {"firmware", "done"} => \A t \in Firmware : Counted(t, "firmware")

NothingWasCounted ==
  report = "nothing" =>
    agent.at = "done" /\ agent.pending = {} /\ agent.corrupt = {}

RecoveryInv == RecoveryType /\ AgentInRecovery /\ AllCounted /\ NothingWasCounted
===============================================================================
