# SWIR OS: TLA+ models and proofs

SWIR OS is one shell in three editions: a Web Edition in the browser, a Windows
Desktop Edition (a C# Host around WebView2 with native brokers) and a Debian
based System Edition (Node services, Python brokers and GTK applications). This
directory holds TLA+ models of the parts whose correctness depends on the order
of things, the TLC configurations that check them, and the theorems that TLAPS
checks about them.

The README goes from the inventory of the system (1) over the modules (2 to 5)
to the runs (6), the proofs (7), what the checks found (8) and what is left out
(9). `PROJECT.json` names, for every definition that models code, the lines it
was translated from.

## 1. Inventory

### 1.1 System Edition (`system`)

| Component | State it keeps | Operations | What is hard, what makes it correct |
|---|---|---|---|
| Package transactions | one journal file per transaction | `execute`, `rollback`, `recoverPending`, the apt recovery | records in memory beside files on disk, awaits between read and write, `rpm-ostree rollback` being a toggle; what is committed is in place, what is rolled back is back on its snapshot, an outcome is not overwritten |
| Package providers and executor | package state of the distribution, files of AppImages | plan, simulate, validate, execute; the AppImage transaction | three tables of commands in three layers; an AppImage replaced by five file operations; a plan that is shown can be run, a file is the old or the new one |
| Peer authorization and package broker | used grants, connections, the calls to polkit | issue, consume, expire; look up who is at the machine and ask | one message may arrive in many data events; sessions are listed first and shown one at a time; a grant pays once and belongs to the user who was asked |
| Catalog trust state | high-water files, trust roots | authorize, store, rotate | append-only files written by several processes; no catalog older than one already authorized |
| Driver, firmware and vendor repositories | journals, one per service | update, verify, reconcile after a reboot; activate, recover, deactivate; qualification sessions | records that delegate to records, reboots in between, a history that belongs to fwupd; what a record says of a device that was looked at is what the device runs |
| Inventory, driver planning | none | snapshot, match, resolve, report | catalog, policy, devices and clock are read at different moments |
| Native and Windows runtimes | processes, prefixes, runtimes | launch, stop, exit events, provision | one process per prefix, no process without an owner |
| Network, session, recovery mode | NetworkManager and logind | plan, authorize, execute, verify; scan the journals | others use them too; a call that says verified has done its work |
| System image | files of the root filesystem and records of them | stage, verify, finalize | builders beside each other without a lock |

### 1.2 Desktop Edition (`desktop/windows`)

| Component | State it keeps | Operations | Interacts with |
|---|---|---|---|
| Update journal, slots, worker, handoff, launch and health, startup recovery, selection | `transaction.json`, the slots `Current` and `Previous`, tickets and challenges | begin, activate, roll back, recover, launch, confirm | processes that share only files |
| Host restart | gate, latch, command slot, hooks | admit, drain, suspend, start the worker, exit, resume | UI thread, thread pool, WebView2 |
| Update preparation, background updates and policy | bridge state, policy file, scheduler | queue, execute, cancel, revoke; cycles | feed, worker, journal |
| Feed and download, app packages, brokers, shell integration, installer | files | one process each | not modelled, section 9 |

### 1.3 Web Edition and releases (`swir-*.js`, `scripts`, `.github`)

| Component | State it keeps | Operations | What is hard, what makes it correct |
|---|---|---|---|
| Package pipeline | installed packages, permissions, a journal that is one list | install, update, remove, roll back | awaits between read and write of the list; a package and its permissions change together |
| Shell page | windows, panels, bell, icons; update policy | event handlers; startup run of the policy | frames that reload and report late |
| Files, profiles, notifications | a record, a list, a history | save, hydrate, send, set a PIN | storage that fails or falls back, several writers, storage events |
| App bridge, widgets, media, native contexts, language, appearance, terminal | frames, cards, queue, contexts, texts, tokens | messages, renders, timers, scripts that load in any order | what is shown follows what is stored |
| Releases | feed, trust roots, keys | build, promote, rotate | reruns and branches; the feed never goes back |

All components, modelled or not, are listed in `PROJECT.json`; `hazards` there
lists what is hard to test, each at its line, with the property that covers it.

## 2. Modules and how they are composed

| Layer | Modules |
|---|---|
| Abstract specification | `JournaledMutation` |
| Desktop update | `DesktopUpdate`, `MCDesktopUpdate`, `DesktopUpdateProofs`; `HostRestart`, `HostRestartProofs`; `UpdatePreparation`, `UpdatePreparationProofs` |
| System services | `PackageTransaction` with `PackageTransactionProofs`; `FirmwareUpdate`, `DriverMutation` with `DriverMutationProofs`; `VendorRepository` with `VendorRepositoryProofs`; `VendorReview`, `FirmwareQualification`, `PackageBroker`, `PackagePlanning`, `AppImageTransaction`, `CatalogTrust`, `AppRuntime`, `WindowsRuntime`, `NetworkMutation`, `SystemAuthorization`, `SystemImage`, `DriverCenter`, `RecoveryMode`; together in `MCSystem`, with `SystemProofs` |
| Web shell | `WebPackages`, `DesktopShell`, `UpdatePolicy` (over `DesktopShell`), `WebFiles`, `WebIdentity`, `WebNotifications`, `AppBridge`, `WidgetHost`, `MediaQueue`, `NativeContexts`, `ShellLocale`, `ShellAppearance`, `ShellTerminal`, `ReleaseFeed`; together in `MCShell`, with `ShellProofs` |

`JournaledMutation` is what every journaled mutation of the System Edition
promises: its record is written before it is handed off, it ends once, and only
a record that asked for recovery is reconciled. `PackageTransaction`,
`FirmwareUpdate` and `VendorRepository` each state a refinement mapping
(`Abstract == INSTANCE JournaledMutation WITH phase <- ..., touched <- ...`) and
are shown to implement it, by TLC and by TLAPS. A transaction that somebody
else works on while it is under way is `"contested"`: the code takes no lock, and
nothing is promised of it from then on. `DriverMutation` EXTENDS `FirmwareUpdate`
and adds the records that delegate to it.

**One behaviour, one component.** The services share no state, and modelling
them in one process space would only multiply them. `MCSystem` and `MCShell`
therefore have a variable `focus` that says whose behaviour this is, and slots
`v1, v2, ...` that stand for the variables of that component, in the order it
declares them; each component is an `INSTANCE` that substitutes slots for its
variables. The state space of a run is the union over `Foci`, not the product.
A property of `MCSystem` or `MCShell` is a conjunction of
`focus = "component" => ...`. Some components have two instances, where one set
of constants would have to be large in two directions at once: `vendor` (two
transactions, no time) and `expiry` (one, three times); `review` and `aging`; in
the shell, `release` and `reruns`.

## 3. The System Edition, module by module

**`PackageTransaction`.** All transactions are about one package on one host;
`manager` is apt or rpm-ostree. A step is what the code does between two awaits
or two writes of the journal (`Submit` to `RolledBack` of `execute` and `rollback`,
`Recover*` of `recoverPending`, `Apt*` of the apt recovery). The package manager is external and goes on
when the service dies; `Crash`, `Reboot`, failing writes, those of the recovery
included (`RecoverFails`), and a user who works on the packages (`contested`)
come at any step. `stage` follows the one `rpm-ostree rollback` a transaction is
owed: `front`, its deployment would be left by it; `restored`, it has been; and
`moved`, the exchange was of other deployments, or a second one.

**`FirmwareUpdate`, `DriverMutation`.** The reviewed and the granted service
share a directory of records; `look` are `verify()` and `reconcileAfterBoot()`,
which read a record, wait for the inventory, and write the record back. The
granted service finds what an update became by fwupd's history (`Verdict`); the
reviewed one commits on the exit code of `fwupdmgr` and looks at the version
afterwards. A device may report no version (`Unknown`), which the revalidation
lets pass. A
driver mutation is routed to a firmware update or to a package (`route`), and
its record resolves by what that child says.

**`VendorRepository`, `VendorReview`.** The first is the activation transaction:
binding, APT source, refresh, recovery and deactivation, by two transactions
that nothing keeps apart. The second is the way from the policy file and the
vendor's metadata to the review that the user confirms; each of its steps keeps
what the one before it returned, while the vendor, the administrator and the
clock go on.

**`FirmwareQualification`.** Sessions of `preflight`, `apply`, `verify`,
`finalize`, each command a process that reads the session file and writes it
back; the machine reboots, the disk moves to another machine.

**`PackageBroker`, `SystemAuthorization`, `NetworkMutation`.** Connections that
deliver one line in several events and answer each; grants with lifetime,
skew and one use; the lookup of the session at the machine, the question to
polkit, and the network calls that are paid by its answer.

**`PackagePlanning`, `AppImageTransaction`.** From a manifest to the command
that is run, through the tables of provider, service and executor; and the
transaction over `target`, `temp`, `backup` and `journal` of an AppImage, with a
recovery that may run beside it or die in turn.

**`CatalogTrust`.** Authorizations that list the high-water files, decide and
create one exclusively; the web edition's mark; the release scripts that rotate
the roots.

**`AppRuntime`, `WindowsRuntime`, `SystemImage`, `DriverCenter`,
`RecoveryMode`.** Supervisors and their processes, prefixes and providers,
staging of a root filesystem, the driver report, and the recovery boot. A child
of `WindowsRuntime` whose record was replaced exits as a stray one
(`StrayExit`). What the recovery agent does not look for is named in
`RecoveryMode` (`Unnoticed`).

## 4. The Desktop update

**`DesktopUpdate`.** A member of `Proc` is a process identifier: it is off, or
runs as a Host or as an updater worker. Processes share the disk and nothing
else: `journal` (the state in `transaction.json`), the slots `current` and
`previous`, the directories of each transaction (`payload`, `failedCurrent`,
`abandoned`) and its files. The content of a directory is the transaction it was
extracted for, or `Base`. A step is one check of the disk or one write to it;
`Transition` is a check and a write of its own (`TransitionCheck`,
`TransitionWrite`), while a rename that fails when its target exists tests and
writes at once. A process may crash between any two steps, up to `MaxCrash`
times.

| Actions | Code |
|---|---|
| `StartHost`, `Boot`, `ListIncomplete`, `Recover`, `RecoveryDone` | `Program.cs` startup, `DesktopStartupRecovery`, `UpdateRecoveryCoordinator.Recover` |
| `ShellReady`, `ShellFails`, `ConfirmCommit`, `ConfirmStamp` | navigation completed, `UpdateHealthBroker.Confirm` |
| `PrepareStart` … `PrepareFails` | `DesktopUpdatePreparationCoordinator.PrepareAsync`, seen from the disk |
| `RequestRestart`, `IssueTicket`, `StartWorker`, `StartWorkerFails` | `DesktopPreparedUpdateSelector`, `HostShutdownHandoff.Issue`, `UpdateRestartLauncher.Start` |
| `VerifyTicket`, `ConsumeTicket`, `WaitTimesOut` | `HostShutdownHandoff.VerifyAndWait` |
| `BeginActivation`, `Activate`, `IssueHealth`, `LaunchCandidate` … `ProbePassed` | `DeploymentSlotActivator.Activate`, `UpdateActivationCoordinator`, `ControlledCandidateLauncher.Launch` |
| `Rollback`, `Revert` | `DeploymentSlotActivator.Rollback`, `RecoverApplying`, and their callers |
| `Crash`, `Expire` | power loss or an uncaught I/O error; the clock passing `ExpiresAt` |

`Overlap = FALSE` means that a user starts a Host only when no process runs.
Nothing in the code enforces it: no single-instance lock exists, so
`Overlap = TRUE` is the whole truth, and the properties of `desktop_overlap` are
what is left of it. `RecordLaunchFails` needs no such constant: a launch.json
that cannot be written makes the worker roll back beside the candidate it has
started, in every run. That is the one way to two processes on one transaction
when no Host is started beside others; `Unrecorded(t)` names it, and what does
not hold of such a transaction says so (finding 3). `TornRollback = FALSE` means that no crash hits between the
moves of a slot rollback, see finding 1.

**`HostRestart`.** One Host; `Req` are the native requests under way together,
some of them `applyAndRestart`. The UI thread runs one turn at a time; a restart
that had to wait for the drain goes on in the thread pool. A request may outlast
the 15 seconds of the drain, and any call into WebView2 may throw because its
browser process is gone; `faults` remembers which of the failures that cost
something have happened (`"drain"`, `"stop"`, `"attach"`, `"post"`), and a
property that one of them breaks names it.

**`UpdatePreparation`.** Two preparation services of one Host: the main
window's and the background runtime's. They share the policy file and the
transactions on disk. The policy is read four times on the way to an automatic
preparation, and the user may change it between any two of the reads; only the
last is under the lock the revocation takes. The two services run beside each
other throughout, as nothing in the code keeps them apart.

## 5. The web shell, module by module

The page is one thread: an action is one event handler, or the part of one
between two awaits. `WebPackages` has operations that overlap, a journal read
and written back whole, storage that fails or falls back to a list nobody reads,
and pages that go away, whose records stay as they are: `rollback()` takes
committed ones only. A rollback that fails records nothing. `DesktopShell` is the window manager with panels, bell
and icons; `UpdatePolicy` adds the startup run of the update policy and the
frame that claims it. `WebFiles` has the three writers of the file record and
the storage events between them; `WebIdentity` profiles and PINs over a
database that comes and goes; `WebNotifications` sends that wait twice before
they copy the history. `AppBridge` is a packaged app, its calls, and the files
it is opened with. `WidgetHost`, `MediaQueue`, `NativeContexts`, `ShellLocale`,
`ShellAppearance` and `ShellTerminal` relate what is shown or played to what is
stored. `ReleaseFeed` is the promotion of releases into the update feed, beside
releases published by hand and reruns; the first feed of a channel is an
untracked file to `git diff` and stays uncommitted (`Promote`), until somebody
commits it (`FirstFeed`).

## 6. Runs

| Run | Instance | Question |
|---|---|---|
| `desktop_update` | 2 updates, 3 processes, no Host started beside another process, 2 crashes anywhere, launch records that fail | do slots, journal and processes stay in line? |
| `desktop_recovery` | 1 update, 3 processes, 2 crashes outside a slot rollback, fairness | can an announced rollback be carried out, and does every update get a verdict? |
| `desktop_overlap` | 1 update, 3 processes beside each other, no crash | what holds when a Host is started beside a working updater? |
| `desktop_torn_rollback` | 1 update, 1 crash, anywhere | violation: finding 1 |
| `desktop_launch_record` | 1 update, 3 processes, no crash, a launch record that fails | violation: finding 3 |
| `host_restart` | 4 requests that may outlast the drain, a restart and a WebView2 that may fail anywhere, fairness | is the handoff quiet and single, does a restart end, and what does a failed one leave? |
| `preparation` | 3 transactions, both services beside each other, fairness | does a downgrade stop automatic work, what do two services leave behind, and does everything end? |
| `packages` | 2 transactions of one package, both managers, crashes, reboots, interference | does the service implement the journal, and do its verdicts tell the truth? |
| `hardware` | 2 firmware updates with 1 look and 1 driver; vendor repositories; qualification; image | do the services implement the same journal, and is evidence evidence? |
| `system` | the other services of the System Edition | grants, plans, processes, files, actors, reports and catalogs |
| `shell` | the web shell and the releases | what belongs together, what is shown, and what must not go back |
| `files_wiped` | 1 file, 2 edits | violation: finding 2 |

**Bounds, and why they are enough.** *Identities* (`One`, `Pair`, `Other`,
`Third`): hazards here are between two actors, one who has read and one who
writes, so two of what competes and one of what does not; identities are
interchangeable (`Symmetry`) unless they are named. *Processes* of the Desktop
update: a Host that hands over, a worker and a candidate, three reach every pair
of roles; identifiers are reused, so a behaviour has any number of process
lives. *Crashes*: one tears an activation or a rollback, the second tears the
recovery from the first. *Requests*: two restarts contend, a third holds a
lease, a fourth is admitted or refused beside them. *`NoEntry`* (packages): the
managers for which a manifest may lack an entry point; with both the run
doubles and shows the same. *`Installed`* and *`Spares`* (packages): the versions
that may be installed and, for a manager with rollback, behind it at first; 1
and 0, so that an update, a removal and a rollback each change something.
*`Beside`* (planning): the package managers that a
host may have beside each other. *`BrokerTime`, `BrokerTtl`, `BrokerSkew`*: a
grant of lifetime 1 with skew 1 is issued, pays, expires and is forgotten
within 4 times. *`CatalogSequences`*: two, one below the other. *Machines* of the qualification:
`m1`, `m2` and the virtual `vm`. *The shell*:
`Once` and `Twice` are 1 and 2 and bound what its instances count; `Keys` of
releases are two, one superseded by the other, and `Versions` three: a first
feed, one that follows it, and a third while it is under way. `FirstTwo` gives
the component `release`, which also publishes by hand and rotates keys, the
first two only, and `OneCommit` lets no release be made from a later commit than
the first, where the order of commits is not asked about. `OneMishap` keeps a
failing access of the file store and a reload of the page apart. `Words` are a
command that two scripts know, one that is answered after an await, and `help`; `Wants1` and `Wants2` are the permissions of two
versions of a package, neither a part of the other; `Beside`, the windows beside
the Update Center in the startup run, is empty, since the windows among
themselves are the component `shell`. `MaxAge` and
`MaxTime` of the vendor modules, and `MaxCalls`, `MaxFaults`, `MaxReload`,
`MaxEdits`, `MaxOpens`, `MaxUser`, `MaxTick`, `MaxRender`, `MaxSync`, `MaxSend`,
`MaxHydrate`, `MaxSignals`, `MaxEnters`, `MaxMain`, `MaxByHand`, `MaxRotate`,
`MaxRerun` and `MaxBoot` count what
users, networks and machines do; each is at least what one complete hazard
needs (two calls that overlap, one fault between them, one reload after it) and
stands in the guard of the action it bounds, or beside the step
(`ReleaseNext`). *`FewPlainHosts`* (overlap only):
at most two Hosts that the user started, and both beside a third process only
while one of them hands over. For everything in section 7 no bound is left to
be argued: the theorems hold for every value.

**Deadlock** is checked in the Desktop update and the preparation. A Host that
has been asked to exit really stops, a transaction that has ended does nothing
more, and a behaviour of the shell ends when its bounds are used up: those runs
say `CHECK_DEADLOCK FALSE`.

**Fairness.** *Desktop update*: a running process executes its next statement
(weak fairness of `Step`), the clock advances (`Expire`), a user closes a Host
at some time and starts one when none runs. The last two are about people, and
`Settles` needs them: a Host started while the health window is open runs the
unconfirmed deployment and leaves the verdict to a later start. *Restart*: the
UI thread and the thread pool run what they have begun, brokers answer; nobody
need ask for anything. *Preparation*: tasks run on; feed, download and worker
answer or time out. No strong fairness is used. The System and shell runs check
safety and refinement only: what they wait for are package managers, users and
networks, whose progress no code there promises.

**Mutants.** Every property of a passing run is paired in `PROJECT.json` with a
mutated definition (a dropped guard, a wrong order, a missing write) that breaks
it. These definitions stand before the originals, under comments that begin with
"Mutant:", and no specification uses them.

## 7. Proofs

The theorems hold for every set of transactions, processes, requests, calls,
users and files, every bound on clocks and crashes, from the named assumptions
on the constants alone (distinct "nobody" values, natural numbers as bounds,
finite `Req`).

| Theorem | Module | Assumption | States |
|---|---|---|---|
| `TypeCorrect` | `DesktopUpdateProofs` | none | `[]TypeOK`, overlap included |
| `KnownGoodStays`, `CommittedStays`, `UndoneGone`, `NothingHidden`, `SwapAlone` | `DesktopUpdateProofs` | `~Overlap` | the invariants of `desktop_update`, each as `[](EveryLaunchRecorded => ...)` |
| `WritesAreLegal`, `CommitsAreRun` | `DesktopUpdateProofs` | `~Overlap` | `LegalWrite` and `CommitsTarget`, of which the action properties of `desktop_update` are made, for every step until a launch could not be recorded |
| `RestartIsOrderly`, `TypeCorrect`, `LeasesAreCounted`, `OneWorkerPerHost`, `HandoffQuiet`, `OpenOnlyWhenOperational`, `ServiceIsRestored` | `HostRestartProofs` | none | `[]IInv` and the invariants of `host_restart` |
| `PreparationIsOrderly`, `TypeCorrect`, `DowngradeStops`, `ManualStaysSilent`, `OneForEach` | `UpdatePreparationProofs` | none | `[]IInv` and what follows; `[]TwoAtMost` |
| `TransactionsAreOrderly`, `ServiceImplementsJournal`, `CommittedIsDesired`, `RollbackIsToSnapshot` | `PackageTransactionProofs` | none | `[]IInv`, the refinement of `JournaledMutation`, `CommitIsDesired`, `RollbackRestores` |
| `MutationsFollowTheirChild`, `FirmwareIsJournaled` | `DriverMutationProofs` | none | `[]DriverFollowsChild`; the refinement and `ObservedFirmwareIsTarget` |
| `WhatIsRolledBackIsRestored`, `ActivationImplementsJournal`, `ActivationsAreFresh` | `VendorRepositoryProofs` | none | `[]RolledBackIsRestored`; the refinement; `ActivatesFreshMetadata` |
| `GrantPaysOnce`, `CatalogIsTrusted`, `ProcessesAreOwned`, `ImagesAreReplacedWhole`, `ActorsAreConfined`, `VendorsAreTrusted`, `MutationsAreFollowed`, `JournalsAreKept`, `EvidenceIsProven`, `PlansSurvive`, `ReportsAreGrounded` | `SystemProofs` | none | the properties of the runs `hardware` and `system` of the same components, for every value of the constants of `MCSystem` |
| `FirstIsNeverLost`, `ActivatedOnce` | `DesktopUpdateProofs` | none | `[]FirstDeploymentKept`, `[]OneActivation`, overlap and crashes anywhere included |
| `RollbacksAreReady` | `DesktopUpdateProofs` | `~Overlap`, `~TornRollback` | `[](EveryLaunchRecorded => RollbackReady)`; with `TornRollback` it is false (finding 1) |
| `NothingEverGoesBack`, `SurfacesDoFollow`, `PresentationDoesAgree`, `WhatBelongsTogetherChangesTogether`, `DesktopStaysConsistent`, `AppBridgeDoesKeep` | `ShellProofs` | none | `NothingGoesBack`, `[]SurfacesFollow`, `[]PresentationAgrees`, `[]ChangedTogether`, `[]DesktopConsistent`, `[]AppBridgeKept` of the run `shell`, for every value of the constants of `MCShell` |

**How the theorems of `SystemProofs` and `ShellProofs` are put together.** Each component has an
inductive invariant in its own module, and lemmas that its initial states have
it, its steps keep it, a stutter keeps it, and it implies the property. The
larger ones have proof modules of their own, which `MCSystem` instantiates, so
that their lemmas are cited as `Mutations!DriverStep`, `Vendor!VendorStep`. A
theorem of `SystemProofs` or `ShellProofs` then says: for
every focus it names, the invariant of that component holds in behaviours of
that focus; a step is one of the component of the focus, which leaves `focus`
alone.

**The inductive invariants.**

- *Desktop update* (`IInv`): that Previous holds a good deployment when a
  rollback begins depends on what the journal said when the process checked it,
  and on nobody else having moved since. `Kinds` says which kind of process is
  at which label, `Alone` who runs beside whom, `Disk` where the slots can be for
  each state of the journal, and `At` what a process still knows about the
  disk, label by label. A worker that watches its candidate shares the transaction
  with it, and the journal both compare settles who goes on (`Claims`,
  `Watches`), as long as the worker rolls back only a candidate it has seen end.
  One that could not record the launch rolls back beside a candidate that runs
  and may commit: nothing settles that (finding 3), so `IInv` is shown for a
  behaviour up to then (`EveryLaunchRecorded => IInv`, with `TInv` throughout).
  Three properties need less, or more. That
  the first deployment is never destroyed follows from the moves alone, each of
  which needs a free target (`WhatMoves`); that nobody activates beside somebody
  else follows from the ticket (`UsedOnce`: who activates has used up the one
  ticket of its transaction); and a pending rollback has what it needs because
  only the rollback itself takes it away, and, unless a crash tears it, goes on
  to its last write (`TornGoesOn`).
- *Restart*: the gate's count is the number of leases held (`LeasesCounted`), the
  command slot belongs to one request (`SlotIsOwned`), past the drain the gate is
  closed and empty (`GateIsShut`), after the worker has been started nothing of
  the restart remains (`WorkerIsLast`); a gate that is closed, or a Host that is
  deaf, has a restart under way or a failure to show for it (`GateIsHonest`).
- *Preparation*: an automatic preparation can be recognised from its queueing
  to its cancellation (`AutomaticIsKnown`); once a downgrade has revoked, nothing
  is left that could start (`DowngradeIsFinal`); a service that has passed the
  check has found no prepared transaction, and only the other one can have begun
  one since (`CheckPassed`).
- *Package transactions*: a package manager never runs without a record
  (`HandoffHasRecord`); what execution, recovery and rollback hold in memory goes
  with the record each works on (`WorksOnRecord`, `RecoversRecord`,
  `RollsBackDeployments`); the goal is in place when it is to be committed
  (`GoalInPlace`, `ProbesHold`), the snapshot is what was installed
  (`SnapshotKept`), and where a rollback is owed the deployment it comes back to is
  that snapshot (`StageIsKnown`). The last is what makes a toggle a rollback,
  once.
- *Firmware and drivers*: record, step and child of an update go together
  (`Updating`), a look keeps the record it read (`LooksAt`), what was seen is what
  the device runs unless it was disturbed (`SeenIsVersion`,
  `VerifiedMeanwhile`); a driver's record keeps to its child's (`FollowsChild`),
  and no two share one (`RoutesApart`).
- *Vendor repositories*: record, step and recovery of a transaction go together
  (`RecordOfStep`, `RecordOfRedo`), what says it is rolled back is restored
  (`SaysRestored`), an order expires in time (`ExpiresInTime`); a review shows all
  of a binding, and a binding only what was verified (`ReviewInv`).
- *Broker*: a grant that has paid is remembered or can no longer pay
  (`SpentOnce`). *Catalog*: what was authorized is on disk under its sequence
  (`ListedOnce`, `GrantedOnce`), the web mark follows (`MarkFollowed`), the
  windows of the roots meet (`RootsOverlap`). *Prefixes*: a process is that of its
  record, a prefix that of its provider (`ProcessIsRecorded`, `PrefixBinds`).
  *AppImages*: one transaction at a time can be undone (`OneUndoable`), step,
  journal and files go together (`Progress`, `Undoable`), and so does what a
  recovery has seen (`SweepKnows`). *Network*: `nmcli` runs once per call
  (`RunsOnce`). *Authorization*: what a call carries is what polkit said
  (`CallIsTrue`).
- *Qualification*: a session past its update was updated on this machine
  (`AppliedInPlace`, `PastApply`), one past its reboot has seen another boot
  (`SawReboot`), and a command still holds what it read of it (`CommandHolds`).
  *Image*: every record is of one staging (`RecordsAreOfStagings`), and what a
  builder has verified stands (`VerifiedSoFar`). *Planning*: the tables of
  planner, service and executor agree (`TablesAgree`); what is asked for is what
  the manifest lists (`RequestListed`), what apt has simulated is what is asked
  for (`SimulatedIsRequest`). *Drivers*: what a report has taken follows from what
  it took before, stage by stage (`Followed`). *Recovery*: the agent has counted
  what is there, as nothing begins during a recovery boot (`AllCounted`).
- *Files*: while every read succeeds, the calls are at most one revision behind
  the record, and the last incomplete write is the record itself
  (`RevisionsAreClose`): that is why two saves that follow the same revision
  cannot take it back. *Releases*: a package is named by the release and commit
  it was built from (`PackagesNamed`), and a promotion knows of main, of its
  release and of what may follow the feed (`PromotionKnows`). *Media*: no track is
  queued twice, and the index is that of the one loaded (`QueueInv`). *Widgets*: the
  last render begins with the last change, and no card of its goes
  (`WidgetInv`); of a removed package only the render that awaited the count can
  bring a card back (`OthersGo`). *Contexts*: with no timer running, the last sending carries the
  contexts (`ContextsInv`).
- *Web packages*: an operation on a package keeps its goal and its record unless
  another one has disturbed it or its record was lost (`Progress`, `GoalKept`).
  *Profiles*: the hash of a PIN was made with the salt beside it, in the store,
  in memory and in what every call holds (`Sealed`). *Windows*: what is lit is
  the front of the order, over every window opened, closed or minimized
  (`ShellInv`); a startup run of the updates is at one step of its story
  (`RunFollows`). *Language*: no frame is helped before all packs are there
  (`LocaleInv`); *appearance*: the inline tokens are those the engine has set
  (`AppearanceInv`); *terminal*: the two scripts that come at once are the first
  to listen, and the lines of a number are of one command (`TerminalInv`). *App
  bridge*: an identifier is of one call while somebody waits for it
  (`OneCallPerId`), the app asks for its file once (`AskedOnce`), and the file
  opened last waits for that question, comes with its answer, or with a message
  that finds the app listening (`FileOnItsWay`).

What made them hard is in the models' words: `contested`, `disturbed`,
`overlapped`, `spoiled`, `relaxed`, `strayed` and `faults` are history variables
that record interference and failures the code does not exclude, and each
property claims nothing, or what it names, once its variable says so. Every invariant was checked by TLC before it was proved,
with more of what competes than the run of its component has where that was
feasible (three looks, two drivers).

**Only model-checked.**

- Liveness: `Settles`, `RestartEnds`, `PreparationEnds`. It needs fairness and
  `ENABLED`, which are out of the prover's reach.
- `CardsGoForReason` of `shell`: which cards a history keeps is what a fold over
  it leaves (`SanitizeHistory`), which is induction over data.
- What a recursive definition computes for every input: induction over data is
  out of reach. No module with a theorem reaches a `RECURSIVE` operator.

## 8. What the checks found

Three disagreements are runs of their own:

1. **A torn slot rollback is final** (`desktop_torn_rollback`). A crash between
   the two moves of `Rollback`, or after them and before the journal write,
   leaves `rollback-pending` with an occupied quarantine or without Previous;
   this and every later start stop with `UPDATE_ACTIVATION_ROLLBACK_BLOCKED`,
   although the deployment that works is on the disk.
2. **Opening File Explorer can empty the files** (`files_wiped`). File Explorer
   removes the legacy key at its start; the storage listener of the shell reads
   the missing key as an empty list and saves it over the record that
   `scripts/validate-file-explorer-persistence.mjs:74` calls authoritative.
3. **A launch that cannot be recorded is rolled back beside a candidate that
   runs** (`desktop_launch_record`). `ControlledCandidateLauncher` starts the
   candidate and then writes launch.json (:113); where that fails, it rolls back
   (:139) without ending the candidate, and the candidate's commit and the
   worker's `rollback-pending` both pass the comparison in
   `UpdateTransactionJournal.cs:66`. `desktop/windows/README.md:124` says that
   the journal rejects stale writers.

The others follow from properties that the modules define beside the ones that
are run, under comments that say they do not hold, or are exceptions that a
checked property names. TLC finds each with the constants given.

*Desktop edition.*

| Property | Constants | What the code does |
|---|---|---|
| `DesktopUpdate.SelectedCanActivate` | those of `desktop_update` | A commit leaves the replaced deployment in Previous, nothing empties that slot, and the next activation stops with `UPDATE_ACTIVATION_PREVIOUS_OCCUPIED` (`DeploymentSlotActivator.cs:45`). |
| `HostRestart.ServiceRestored` without `"drain"` | those of `host_restart` | The gate is closed before the wait and the lifecycle notes that it has quiesced it after the wait, so a drain that times out leaves it closed (`DesktopUpdateRestartLifecycle.cs:73`). |
| `ServiceRestored`, `OpenMeansOperational` without `Deaf` | the same | `_core.Stop()` throws after `DetachBridge` (`Program.cs:328`): the gate is reopened (`DesktopUpdateRestartSession.cs:59`) over a Host nobody hears. |
| `ServiceRestored` without `"attach"` | the same | `AttachBridge` throws on the way back: the Host stays suspended. |
| `HostRestart.QueuedHasOwner`, `RestartEnds` without `"post"` | the same | Posting the acknowledgement throws: the command stays queued, and nobody executes or cancels it. |
| `UpdatePreparation.OnePrepared` | those of `preparation` | The two services each have a single flight of their own, both pass the test that nothing is incomplete, and two prepared transactions block every restart and later preparation (`DesktopUpdateBackgroundHostRuntime.cs:180`). |
| `UpdatePreparation.AutomaticPrepares` | the same | After a failed automatic preparation the background service stays in a terminal state that only the shell's service is ever reset from (`DesktopUpdatePreparationBridgeCoordinator.cs:59`). |

*System edition.*

| Property | Constants | What the code does |
|---|---|---|
| `PackageTransaction.RollbackRestores` without `stage[t] = "moved"` | those of `packages` | A crash after `rpm-ostree rollback` and before `rolled-back` makes the recovery roll back again, which toggles back to the new deployment (`package-transaction-service.mjs:445`); so does a rollback where nothing, or another transaction, deployed. |
| `FirmwareUpdate.ObservedFirmwareIsTarget` for `committed` of the reviewed service | those of `hardware` | The reviewed service commits on exit code 0, whichever release fwupdmgr has found (`firmware-update-transaction-service.mjs:326`). |
| (two records that are active beside each other) | the same | Two calls both find the journal empty, probe, and begin (`firmware-update-transaction-service.mjs:280`); the update that was worked on beside another is `disturbed`. |
| `RecoveryMode.ReviewReported` | those of `system` | A loss of power between the record `verification-failed`, which demands an operator's review (`fwupd-firmware-transaction-service.mjs:159`), and `failed-needs-recovery` (:164) leaves a record the recovery agent does not look for (`recovery-mode-agent.mjs:12`), against `SWIR-FIRMWARE-TRANSACTION-BROKER-0.1.md:75`. |
| `AppRuntime.PrefixPerApp` | an `App` of two and a `LowerCase` that maps both to one | Identifiers are compared as they are and prefixes are named in lower case (`windows-compat-execution-service.mjs:17`). |

*Web edition and releases.*

| Property | Constants | What the code does |
|---|---|---|
| `WebPackages.InterruptedCanBeUndone` | those of `shell`, `Foci = {"packages"}` | A page that goes away leaves a record `PREPARED` or `APPLYING`; `rollback()` refuses it (`swir-install-pipeline.js:173`) and nothing looks for it at the next start. |
| `WebPackages.RollbackFailureShown` | the same | A rollback the user asked for and whose writes fail records no `ROLLBACK_FAILED` (`swir-install-pipeline.js:167`), against `SWIR-PACKAGE-TRANSACTIONS-1.0.md:29`. |
| `UpdatePolicy.PreparesByPolicy` | the same with `{"policy"}` | The mode is captured with the request (`swir-update-policy-frame.js:133`) and not looked at again before the preparation (:170). |
| `WidgetHost.RemovedIsGone` | the same with `{"widgets"}` | A render that awaits the number of packages appends the system card to the host another one has emptied (`swir-widgets.js:150`, :159), against `SWIR-APP-PACKAGE-1.0.md:185`. |
| `ReleaseFeed.PromotionPublishes` | the same with `{"release"}` | `git diff --quiet` does not see an untracked file (`desktop-update-feed.yml:117`), so the first feed of a channel is taken for published. |

Two limits contradict no text of the repository: a preparation cancelled after
its transaction has begun leaves it prepared without a candidate, which blocks
later preparations; and a crash between `activation.json` and the journal's
`applying` leaves a prepared transaction whose activation is refused for ever.

## 9. What is not modelled

- *Content and cryptography.* A directory, package or catalog is what it was
  made from; a signature, a digest or a download is right or refused.
- *Time.* Tickets, grants and evidence may expire at any step; delays, jitter
  and poll intervals are any delay. Process identifiers are not reused while
  somebody waits for one.
- *Failing writes.* An I/O error that nobody catches is a crash. Files are
  replaced by renames, except where the code writes in place (`CatalogTrust`,
  `FirmwareQualification`: a file may be blank).
- *External programs*: package managers, fwupd, polkit, logind, NetworkManager
  and apt are modelled by how the code uses them, and go on when it gives up.
- *In the shell*: drawing, the applications inside the windows, the unlocking of
  the lock screen with a PIN and the styling of its form; an app frame that is
  reloaded in place, without its window being closed.
- *Components* with status `not_modelled` in `PROJECT.json`, each with its reason
  there: of the Desktop Edition the feed, download and staging, the app packages,
  the capability and data brokers, the shell integration and the installer; of
  the System Edition the GTK applications and the disk installer; demos and
  static assets.

**Plan.** Next are the Desktop app packages (a second two-slot protocol) and the
staging of downloads. What is only model-checked stays so until the provers
reach induction and liveness.

## 10. Running

In this directory: `tlc -config system.cfg MCSystem` (the module of each run is
named in `PROJECT.json`), and `tlapm SystemProofs.tla` for the proofs. The
longest runs take some minutes, as do the longest proof modules.
