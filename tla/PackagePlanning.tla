---------------------------- MODULE PackagePlanning ----------------------------
(***************************************************************************)
(* From a package manifest to the command that is run: the provider layer  *)
(* and its adapters, the distribution provider that picks a package        *)
(* manager, the apt simulation, the validation by the transaction service, *)
(* the repository trust verifier and the executors.  Provider, service and *)
(* executor each know the commands by a table of their own.  What happens  *)
(* to a transaction once its command runs is PackageTransaction; AppImages *)
(* go on in AppImageTransaction.                                           *)
(***************************************************************************)
EXTENDS Naturals, FiniteSets, Sequences

CONSTANTS
  Family,    \* families of distributions a host may report
  Repo,      \* repositories or remotes of the System policy
  Foreign,   \* a repository that is not in the policy
  Beside     \* bound: package managers that a host may have beside each other

RepoAssumption == Foreign \notin Repo

VARIABLES
  family, available,   \* the host snapshot: its family and its package managers
  policy,              \* the trust policy: manager and "for this distribution?" of
                       \* each repository, and the default repository
  adapters,            \* the providers that the layer has an adapter for
  offers,              \* who offers the package: native metadata, which changes
  request,             \* operation and manifest
  stage,               \* how far the request has come
  simulated            \* the operation that apt has simulated, or "none"

host  == <<family, available, policy, adapters>>
pVars == <<host, offers, request, stage, simulated>>

SUPPORTED_MANAGERS == {"apt", "dnf", "rpm-ostree", "pacman", "zypper"}
OPERATIONS == {"install", "update", "remove"}
PROVIDERS  == {"system", "flatpak", "appimage"}
NoRepo     == "none"

\* The fields of a manifest that decide; "shape" stands for schema, edition,
\* execution class, identifiers and scope, "id" for the package id.
Manifest == [provider : PROVIDERS, shape : BOOLEAN, id : BOOLEAN, signature : BOOLEAN,
             source : {"distribution-repository", "flatpak-remote", "swir-signed"},
             repository : Repo \cup {Foreign, NoRepo},
             binding : {"none", "bound", "broken"}]

-------------------------------------------------------------------------------
(* The provider layer and its adapters.                                      *)

\* PROVIDERS of the registry.
SourceClasses(provider) ==
  CASE provider = "system"   -> {"distribution-repository", "swir-signed"}
    [] provider = "flatpak"  -> {"flatpak-remote", "swir-signed"}
    [] provider = "appimage" -> {"swir-signed"}

Resolves(m) == m.shape /\ m.signature /\ m.source \in SourceClasses(m.provider)

\* validateManifest of the layer, and an adapter is provisioned.
Layered(m) == m.shape /\ m.provider \in adapters

Preference ==
  CASE family = "debian" -> <<"apt">>
    [] family = "fedora" -> <<"rpm-ostree", "dnf">>
    [] family = "arch"   -> <<"pacman">>
    [] family = "suse"   -> <<"zypper">>
    [] OTHER -> <<"apt", "dnf", "rpm-ostree", "pacman", "zypper">>

\* The first preferred manager that there is, or else the first there is.
Selectable ==
  LET usable == {i \in DOMAIN Preference : Preference[i] \in available} IN
    IF usable = {} THEN available
    ELSE {Preference[CHOOSE i \in usable : \A j \in usable : i <= j]}

\* A binding to a vendor's repository names its class, digest and repository.
Bound(m) == m.binding = "none" \/ (m.binding = "bound" /\ m.repository # NoRepo)

DistributionManifest(m) ==
  m.shape /\ m.source = "distribution-repository" /\ m.signature /\ Bound(m)

allowlistedRepositories == Repo

\* Mutant: the provider leaves the allow-list to the service.
DistributionPlanUnlisted(m) == DistributionManifest(m) /\ Selectable # {}

\* buildDistributionPackagePlan.
DistributionPlan(m) ==
  /\ DistributionManifest(m) /\ Selectable # {}
  /\ m.repository # NoRepo => m.repository \in allowlistedRepositories

\* validateFlatpakManifest: the entry point is the application, the remote listed.
FlatpakPlan(m) ==
  /\ m.shape /\ m.source = "flatpak-remote" /\ m.signature
  /\ m.repository \in Repo

AppImagePlan(m) == m.shape /\ m.source = "swir-signed" /\ m.signature

Plans(m) ==
  CASE m.provider = "system"   -> DistributionPlan(m)
    [] m.provider = "flatpak"  -> FlatpakPlan(m)
    [] m.provider = "appimage" -> AppImagePlan(m)

-------------------------------------------------------------------------------
(* The three tables of commands, the package name left out.                  *)

commandPreview(manager, operation) ==
  CASE manager = "apt" ->
         IF operation = "update" THEN <<"apt-get", "install", "--only-upgrade">>
         ELSE <<"apt-get", operation>>
    [] manager = "dnf" -> <<"dnf", IF operation = "update" THEN "upgrade" ELSE operation>>
    [] manager = "rpm-ostree" ->
         <<"rpm-ostree", [install |-> "install", update |-> "upgrade",
                          remove |-> "uninstall"][operation]>>
    [] manager = "pacman" ->
         [install |-> <<"pacman", "-S">>, update |-> <<"pacman", "-S", "--needed">>,
          remove |-> <<"pacman", "-R">>][operation]
    [] manager = "zypper" -> <<"zypper", "--non-interactive", operation>>

expectedPackageManagerCommand(manager, operation) ==
  CASE manager = "apt" /\ operation = "update" ->
         <<"apt-get", "install", "--only-upgrade">>
    [] manager = "apt" /\ operation # "update" -> <<"apt-get", operation>>
    [] manager = "dnf" -> <<"dnf", IF operation = "update" THEN "upgrade" ELSE operation>>
    [] manager = "rpm-ostree" /\ operation = "install" -> <<"rpm-ostree", "install">>
    [] manager = "rpm-ostree" /\ operation = "update" -> <<"rpm-ostree", "upgrade">>
    [] manager = "rpm-ostree" /\ operation = "remove" -> <<"rpm-ostree", "uninstall">>
    [] manager = "pacman" /\ operation = "install" -> <<"pacman", "-S">>
    [] manager = "pacman" /\ operation = "update" -> <<"pacman", "-S", "--needed">>
    [] manager = "pacman" /\ operation = "remove" -> <<"pacman", "-R">>
    [] manager = "zypper" -> <<"zypper", "--non-interactive", operation>>

\* The executor knows the rollback of a deployment besides.
expectedCommand(manager, operation) ==
  CASE operation = "rollback" ->
         IF manager = "rpm-ostree" THEN <<"rpm-ostree", "rollback">> ELSE <<>>
    [] operation = "update" ->
         [apt |-> <<"apt-get", "install", "--only-upgrade">>, dnf |-> <<"dnf", "upgrade">>,
          pacman |-> <<"pacman", "-S", "--needed">>,
          zypper |-> <<"zypper", "--non-interactive", "update">>,
          rpm_ostree |-> <<"rpm-ostree", "upgrade">>]
         [IF manager = "rpm-ostree" THEN "rpm_ostree" ELSE manager]
    [] operation = "install" ->
         (CASE manager = "apt" -> <<"apt-get", "install">>
            [] manager = "pacman" -> <<"pacman", "-S">>
            [] manager = "zypper" -> <<"zypper", "--non-interactive", "install">>
            [] OTHER -> <<manager, "install">>)
    [] operation = "remove" ->
         (CASE manager = "apt" -> <<"apt-get", "remove">>
            [] manager = "dnf" -> <<"dnf", "remove">>
            [] manager = "rpm-ostree" -> <<"rpm-ostree", "uninstall">>
            [] manager = "pacman" -> <<"pacman", "-R">>
            [] manager = "zypper" -> <<"zypper", "--non-interactive", "remove">>)

\* rollbackPolicy of the provider.
RollbackPlanned(manager) == manager = "rpm-ostree"

\* validateSystemPackagePlan of the transaction service.
ValidPlan(r) ==
  /\ r.manifest.id /\ r.operation \in OPERATIONS /\ r.manager \in available
  /\ r.manifest.repository # NoRepo => r.manifest.repository \in allowlistedRepositories
  /\ commandPreview(r.manager, r.operation) =
       expectedPackageManagerCommand(r.manager, r.operation)
  /\ RollbackPlanned(r.manager) => r.manager = "rpm-ostree"

\* validatePackageExecutorRequest, for the command and for its rollback.
Executable(r) ==
  /\ expectedPackageManagerCommand(r.manager, r.operation) =
       expectedCommand(r.manager, r.operation)
  /\ RollbackPlanned(r.manager) => expectedCommand(r.manager, "rollback") # <<>>

-------------------------------------------------------------------------------
(* The way of a request.                                                     *)

NoRequest == [operation |-> "none", manager |-> "none"]

Reach(s) == stage' = s /\ UNCHANGED <<host, offers, request, simulated>>

\* execute() of the layer: the manifest is validated and planned, once for the
\* answer and once by the adapter, from the same snapshot of the host.
Ask(o, m) ==
  /\ stage = "idle"
  /\ IF Layered(m) /\ Plans(m)
     THEN /\ stage' = IF m.provider = "system" THEN "planned" ELSE m.provider
          /\ \E manager \in IF m.provider = "system" THEN Selectable ELSE {"none"} :
               request' = [operation |-> o, manifest |-> m, manager |-> manager]
     ELSE stage' = "refused" /\ UNCHANGED request
  /\ UNCHANGED <<host, offers, simulated>>

\* What apt would do; it fails if it does not know the package.
Simulate ==
  /\ stage = "planned" /\ request.manager = "apt" /\ simulated = "none"
  /\ \/ /\ offers # {} \/ request.operation = "remove"
        /\ simulated' = request.operation /\ UNCHANGED stage
     \/ stage' = "refused" /\ UNCHANGED simulated
  /\ UNCHANGED <<host, offers, request>>

Submit ==
  /\ stage = "planned" /\ (request.manager = "apt" => simulated # "none")
  /\ Reach(IF ValidPlan(request) THEN "probing" ELSE "rejected")

Repository == IF request.manifest.repository = NoRepo THEN policy.default
              ELSE request.manifest.repository

\* The read-only proof of each manager: the repository offers the package, for apt
\* beside a candidate from anywhere; rpm-ostree only shows that it has deployments.
Proven == request.manager = "rpm-ostree" \/ Repository \in offers

\* validateRepositoryTrustPolicy, verifyRepository; nothing is probed for a removal.
Trusted ==
  /\ Repository \in Repo
  /\ policy.manager[Repository] = request.manager /\ Repository \in policy.here
  /\ request.operation = "remove" \/ Proven

\* The probe itself may fail.
Verify ==
  /\ stage = "probing"
  /\ Reach("refused") \/ (Trusted /\ Reach("trusted"))

\* The transaction is authorized and prepared, and the executor gets its command.
Execute ==
  /\ stage = "trusted"
  /\ Reach(IF Executable(request) THEN "running" ELSE "rejected")

\* dnf and pacman ask on an empty standard input before they change anything.
Prompts(manager) == manager \in {"dnf", "pacman"}

RunEnds ==
  /\ stage = "running"
  /\ Reach("failed") \/ (~Prompts(request.manager) /\ Reach("done"))

\* The Flatpak executor validates the plan again and runs it for the user.
RunFlatpak ==
  /\ stage = "flatpak"
  /\ IF request.operation \in OPERATIONS /\ request.manifest.repository \in Repo
     THEN Reach("done") \/ Reach("failed") ELSE Reach("rejected")

MetadataChanges ==
  /\ offers' \in SUBSET (Repo \cup {Foreign}) \ {offers}
  /\ UNCHANGED <<host, request, stage, simulated>>

Init ==
  /\ family \in Family
  /\ available \in {s \in SUBSET SUPPORTED_MANAGERS : Cardinality(s) <= 1 \/ s \subseteq Beside}
  /\ policy \in [manager : [Repo -> SUPPORTED_MANAGERS], here : SUBSET Repo,
                 default : Repo \cup {NoRepo}]
  /\ adapters \in {{"system"}, PROVIDERS}
  /\ offers = Repo
  /\ request = NoRequest /\ stage = "idle" /\ simulated = "none"

Next ==
  \/ \E o \in OPERATIONS, m \in Manifest : Ask(o, m)
  \/ Simulate \/ Submit \/ Verify \/ Execute \/ RunEnds \/ RunFlatpak
  \/ (stage \in {"planned", "probing"} /\ MetadataChanges)

Spec == Init /\ [][Next]_pVars

-------------------------------------------------------------------------------
\* What the layer shows as a plan is what runs: the registry knows its source,
\* service and executor accept its command and the rollback it promises - unless
\* the manifest has no id, which only the service notices - and a command of apt
\* runs only once it has been simulated.
PlanSurvives ==
  /\ stage \notin {"idle", "refused"} => Resolves(request.manifest)
  /\ stage = "rejected" => ~request.manifest.id
  /\ stage = "running" /\ request.manager = "apt" => simulated = request.operation

-------------------------------------------------------------------------------
(* What every step keeps, and PlanSurvives rests on.                         *)

Stages == {"idle", "refused", "rejected", "planned", "probing", "trusted", "running",
           "flatpak", "appimage", "done", "failed"}

Requests == [operation : OPERATIONS, manifest : Manifest,
             manager : SUPPORTED_MANAGERS \cup {"none"}]

\* A request that was planned is one that its provider resolves.
RequestResolves ==
  stage \notin {"idle", "refused"} => request \in Requests /\ Resolves(request.manifest)

\* The distribution provider has listed the repository and picked a manager that there
\* is, the Flatpak provider has listed the remote.
RequestListed ==
  /\ stage \in {"planned", "probing", "trusted", "running"} =>
       /\ request.manager \in available
       /\ request.manifest.repository \in allowlistedRepositories \cup {NoRepo}
  /\ stage = "flatpak" => request.manifest.repository \in Repo

\* What apt has simulated is the operation of the request, and nothing of apt goes on
\* without it.
SimulatedIsRequest ==
  /\ stage = "idle" => simulated = "none"
  /\ simulated # "none" => simulated = request.operation
  /\ stage \in {"probing", "trusted", "running"} /\ request.manager = "apt" =>
       simulated # "none"

PlanningInv ==
  /\ available \subseteq SUPPORTED_MANAGERS /\ stage \in Stages
  /\ RequestResolves /\ RequestListed /\ SimulatedIsRequest
  /\ stage = "rejected" => ~request.manifest.id
================================================================================
