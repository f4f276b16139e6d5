---------------------------- MODULE WindowsRuntime ----------------------------
(***************************************************************************)
(* Windows applications on the System edition: the registry that looks for *)
(* trusted runtimes, the provisioner that installs one as a distribution   *)
(* package, and the managed stack whose service prepares a prefix for each *)
(* application and runs it there.  Runtimes come and go with the packages, *)
(* manifests are updated, processes end by themselves, and the service may *)
(* be restarted while they run.                                            *)
(***************************************************************************)
EXTENDS Naturals

CONSTANTS
  App,        \* applications
  Provider,   \* swir.compat.wine and swir.compat.proton
  Catalog     \* the providers that the provisioning catalog has a package for

CatalogAssumption == Catalog \subseteq Provider /\ "none" \notin Provider

VARIABLES
  runtime,     \* runtimes on disk: "absent", "trusted" or "sick"
  provision,   \* where provision() of a runtime is, or how it ended
  configured,  \* runtimePaths of the service: the providers that have one
  manifest,    \* the provider the manifest of an application names
  prefix,      \* its prefix: "none", "blank", or the provider in its metadata
  entry,       \* its entry point: "missing", a "program" in its prefix, or "unfit"
  record,      \* its record in the service
  live,        \* its processes
  ranBy,       \* history: the providers that have run in its prefix
  lost         \* history: has the service lost sight of its processes?

setup   == <<runtime, provision, configured>>
running == <<record, live, ranBy>>
wVars   == <<setup, manifest, prefix, entry, running, lost>>

NoRecord == "none"
MaxLive  == 2

-------------------------------------------------------------------------------
(* Discovery and provisioning.                                               *)

\* inspectCandidate: a regular, executable file under an approved root that only
\* root can write; and its version can be probed.
Healthy(p) == runtime[p] = "trusted"

\* What is found under the approved roots.
Candidates == {p \in Provider : runtime[p] # "absent"}

\* discover() of a fresh registry, and what select() can choose from.
Inventory == {p \in Candidates : Healthy(p)}

\* The catalog names a signed package of a distribution repository for it.
Provisionable(p) == p \in Catalog

\* The stack is created: its service keeps the paths of this inventory.
\* A restarted service has no records; its processes go on.
CreateStack ==
  /\ configured' = Inventory
  /\ record' = [a \in App |-> NoRecord]
  /\ lost' = (lost \/ \E a \in App : live[a] > 0)
  /\ UNCHANGED <<runtime, provision, manifest, prefix, entry, live, ranBy>>

\* provision(): nothing to install, or the package transaction is started.
Provision(p, operation) ==
  /\ provision[p] # "executing"
  /\ provision' = [provision EXCEPT ![p] =
       IF operation = "install" /\ p \in Inventory THEN "already-present"
       ELSE IF Provisionable(p) THEN "executing" ELSE "failed"]
  /\ UNCHANGED <<runtime, configured, manifest, prefix, entry, running, lost>>

\* The transaction of the package layer commits or throws (PackageTransaction);
\* the runtime it leaves may be sick.
Transaction(p) ==
  /\ provision[p] = "executing"
  /\ \/ /\ runtime' = [runtime EXCEPT ![p] = "trusted"] \/ runtime' = [runtime EXCEPT ![p] = "sick"]
        /\ provision' = [provision EXCEPT ![p] = "executed"]
     \/ provision' = [provision EXCEPT ![p] = "failed"] /\ UNCHANGED runtime
  /\ UNCHANGED <<configured, manifest, prefix, entry, running, lost>>

\* The runtime is looked for again in a fresh registry.
Rediscover(p) ==
  /\ provision[p] = "executed"
  /\ provision' = [provision EXCEPT ![p] =
       IF p \in Inventory THEN "verified" ELSE "failed"]
  /\ UNCHANGED <<runtime, configured, manifest, prefix, entry, running, lost>>

\* Other packages and the administrator (external).
RuntimeChanges(p) ==
  /\ runtime' \in [Provider -> {"absent", "trusted", "sick"}]
  /\ \A q \in Provider \ {p} : runtime'[q] = runtime[q]
  /\ UNCHANGED <<provision, configured, manifest, prefix, entry, running, lost>>

-------------------------------------------------------------------------------
(* Prefixes and processes.                                                   *)

\* An update of the application may name another provider.
Update(a, p) ==
  /\ manifest' = [manifest EXCEPT ![a] = p]
  /\ UNCHANGED <<setup, prefix, entry, running, lost>>

\* prepareManagedPrefix: the metadata is written once, and must match from then
\* on; a crash may leave it empty, which matches nothing.
Prepare(a) ==
  /\ prefix[a] = "none"
  /\ prefix' = [prefix EXCEPT ![a] = manifest[a]] \/ prefix' = [prefix EXCEPT ![a] = "blank"]
  /\ UNCHANGED <<setup, manifest, entry, running, lost>>

MetadataMatches(a) == prefix[a] = manifest[a]

\* The application is put into its prefix, replaced or removed (external).
Install(a, what) ==
  /\ prefix[a] # "none"
  /\ entry' = [entry EXCEPT ![a] = what]
  /\ UNCHANGED <<setup, manifest, prefix, running, lost>>

\* resolveAllowedPath: there is still an executable file under an approved root;
\* its owner is not looked at and its version is not probed again.
AllowedPath(p) == p \in Candidates

Resolves(p) == p \in configured /\ AllowedPath(p)

\* A regular file inside the prefix, with the extension of a user application.
EntryPointFits(a) == entry[a] = "program"

\* buildCompatibilityLaunchPlan.
Plan(a) == MetadataMatches(a) /\ Resolves(manifest[a]) /\ EntryPointFits(a)

\* Mutant: a running application is not looked for.
LaunchAgain(a) ==
  /\ live[a] < MaxLive
  /\ Plan(a)
  /\ \/ record' = [record EXCEPT ![a] = "running"] /\ live' = [live EXCEPT ![a] = @ + 1]
     \/ record' = [record EXCEPT ![a] = "failed"] /\ UNCHANGED live
  /\ ranBy' = [ranBy EXCEPT ![a] = @ \cup {manifest[a]}]
  /\ UNCHANGED <<setup, manifest, prefix, entry, lost>>

\* launch(): not while it is recorded as running; the process may fail to start.
Launch(a) ==
  /\ record[a] # "running" /\ live[a] < MaxLive
  /\ Plan(a)
  /\ \/ record' = [record EXCEPT ![a] = "running"] /\ live' = [live EXCEPT ![a] = @ + 1]
     \/ record' = [record EXCEPT ![a] = "failed"] /\ UNCHANGED live
  /\ ranBy' = [ranBy EXCEPT ![a] = @ \cup {manifest[a]}]
  /\ UNCHANGED <<setup, manifest, prefix, entry, lost>>

\* Is the process that the record is about still there?
Attended(a) == record[a] \in {"running", "unstopped"}

\* A process ends, by itself or by the signal of stop(); its event marks its own
\* record and no other.
Ends(a) ==
  /\ live[a] > 0
  /\ live' = [live EXCEPT ![a] = @ - 1]
  /\ UNCHANGED <<setup, manifest, prefix, entry, ranBy, lost>>

Exit(a) ==
  /\ Attended(a)
  /\ Ends(a)
  /\ \E s \in {"exited", "failed"} : record' = [record EXCEPT ![a] = s]

\* A process ends whose record is replaced, forgotten or of an earlier service.
StrayExit(a) ==
  /\ live[a] > IF Attended(a) THEN 1 ELSE 0
  /\ Ends(a)
  /\ UNCHANGED record

\* stop(): a signal that cannot be delivered is an error of the process, which
\* the service takes for its end: its record says failed while it lives.
StopFails(a) ==
  /\ record[a] = "running"
  /\ record' = [record EXCEPT ![a] = "unstopped"]
  /\ lost' = TRUE
  /\ UNCHANGED <<setup, manifest, prefix, entry, live, ranBy>>

Forget(a) ==
  /\ record[a] \in {"exited", "failed", "unstopped"}
  /\ record' = [record EXCEPT ![a] = NoRecord]
  /\ UNCHANGED <<setup, manifest, prefix, entry, live, ranBy, lost>>

Init ==
  /\ runtime \in [Provider -> {"absent", "trusted"}]
  /\ provision = [p \in Provider |-> "idle"]
  /\ configured = Inventory
  /\ manifest \in [App -> Provider]
  /\ prefix = [a \in App |-> "none"]
  /\ entry = [a \in App |-> "missing"]
  /\ record = [a \in App |-> NoRecord]
  /\ live = [a \in App |-> 0]
  /\ ranBy = [a \in App |-> {}]
  /\ lost = FALSE

Next ==
  \/ CreateStack
  \/ \E p \in Provider :
       \/ \E o \in {"install", "update"} : Provision(p, o)
       \/ Transaction(p) \/ Rediscover(p) \/ RuntimeChanges(p)
  \/ \E a \in App :
       \/ \E p \in Provider : Update(a, p)
       \/ \E x \in {"missing", "program", "unfit"} : Install(a, x)
       \/ Prepare(a) \/ Launch(a) \/ Exit(a) \/ StrayExit(a) \/ StopFails(a) \/ Forget(a)

Spec == Init /\ [][Next]_wVars

-------------------------------------------------------------------------------
\* "prefixPolicy: per-app": the prefix of an application is only ever run by one
\* provider, over updates of its manifest and interrupted preparations; and by
\* one process at a time, unless the service has lost sight of one.
PrefixIsExclusive ==
  \A a \in App : (\A p, q \in ranBy[a] : p = q) /\ (live[a] <= 1 \/ lost)

\* Why: only the provider in its metadata runs in a prefix, and a process the
\* service has not lost is recorded as running.
PrefixType ==
  /\ manifest \in [App -> Provider]
  /\ prefix \in [App -> Provider \cup {"none", "blank"}]
  /\ record \in [App -> {NoRecord, "running", "unstopped", "failed", "exited"}]
  /\ live \in [App -> Nat]
  /\ ranBy \in [App -> SUBSET Provider]
  /\ lost \in BOOLEAN

PrefixBinds == \A a \in App : ranBy[a] \subseteq {prefix[a]}

ProcessIsRecorded ==
  ~lost => \A a \in App : live[a] = IF record[a] = "running" THEN 1 ELSE 0

IInv == PrefixType /\ PrefixBinds /\ ProcessIsRecorded
================================================================================
