------------------------------- MODULE MCSystem -------------------------------
(***************************************************************************)
(* The services of the System edition, model-checked side by side.  They   *)
(* share no state, so a behaviour is one of one of them: focus says whose, *)
(* and the slots are its variables.  Foci, the components a run looks at,  *)
(* is the union of their state spaces, not their product.                  *)
(***************************************************************************)
EXTENDS Naturals, TLC

CONSTANTS
  Foci,                \* the components a run looks at
  BrokerTime, BrokerTtl, BrokerSkew,   \* clock, longest grant and skew of the broker
  CatalogSequences,    \* sequences of the catalogs
  One, Pair, Other, Third, NoOne   \* interchangeable identities

VARIABLES
  focus,  \* the component this behaviour is of
  v1, v2, v3, v4, v5, v6, v7, v8, v9, v10, v11, v12, v13, v14, v15, v16  \* its variables, in the order it declares them

slots == <<focus,
          v1, v2, v3, v4, v5, v6, v7, v8, v9, v10, v11, v12, v13, v14, v15,
          v16>>

\* The slots a component with so many variables leaves over.
Over12 == <<v13, v14, v15, v16>>
Over11 == <<v12, Over12>>
Over10 == <<v11, Over11>>
Over8 == <<v9, v10, Over10>>
Over7 == <<v8, Over8>>
Over6 == <<v7, Over7>>
Over5 == <<v6, Over6>>

Blank12 == v13 = 0 /\ v14 = 0 /\ v15 = 0 /\ v16 = 0
Blank11 == v12 = 0 /\ Blank12
Blank10 == v11 = 0 /\ Blank11
Blank8 == v9 = 0 /\ v10 = 0 /\ Blank10
Blank7 == v8 = 0 /\ Blank8
Blank6 == v7 = 0 /\ Blank7
Blank5 == v6 = 0 /\ Blank6

Symmetry ==
  Permutations(Pair) \cup Permutations(Other) \cup Permutations(Third)

Itself == [a \in One |-> a]

TheSuites == {{"foundation", "runtime", "peer"}, {"recovery"}, {"vendor"}}

\* A catalog entry, a graphics card on the default driver and a USB receiver.
Source(c, repo, url, rb) == [class |-> c, repo |-> repo, url |-> url, rollback |-> rb]
Entry(id, bus, ids, mods, fw, ps, ss) ==
  [id |-> id, bus |-> bus, ids |-> ids, modules |-> mods, firmware |-> fw,
   packages |-> ps, sources |-> ss]
Graphics == Entry("nv", "pci", {"10de"}, {"nvidia"}, {}, {"nvidia-open"},
  {Source("distribution-repository", NoOne, FALSE, TRUE),
   Source("vendor-official-repository", "nvidia", FALSE, TRUE)})
Hub == Entry("hub", "usb", {"046d", "10de"}, {"usbhid"}, {"fw"}, {"nvidia-open"},
  {Source("fwupd-lvfs", NoOne, FALSE, TRUE),
   Source("vendor-official-repository", "nvidia", FALSE, TRUE)})
Anything == Entry("any", "usb", {"046d"}, {}, {}, {"tool"},
  {Source("linux-firmware", NoOne, TRUE, FALSE), Source("download-site", NoOne, TRUE, FALSE)})
TheCatalogs == {{Graphics, Hub}, {Hub, Anything}}
TheKinds ==
  {[bus |-> "pci", vendor |-> "10de", tokens |-> {"10de"}, driver |-> "nouveau"],
   [bus |-> "usb", vendor |-> "046d", tokens |-> {"046d"}, driver |-> "usbhid"]}
AllClasses == {"kernel-in-tree", "linux-firmware", "distribution-repository",
               "fwupd-lvfs", "vendor-official-repository"}
Policy(cs, urls) == [classes |-> cs, urls |-> urls, journal |-> TRUE]
ThePolicies == {Policy(AllClasses, FALSE), Policy({"fwupd-lvfs"}, FALSE), Policy(AllClasses, TRUE)}
TheBindings == {[repo |-> "nvidia", vendor |-> "10de", platform |-> "debian13",
                 packages |-> {"nvidia-open"}, until |-> 0]}

-------------------------------------------------------------------------------
Broker == INSTANCE PackageBroker WITH
  Conn <- Pair, Grant <- One, MaxTime <- BrokerTime, MaxTtl <- BrokerTtl,
  Skew <- BrokerSkew, now <- v1, meta <- v2, grant <- v3, used <- v4, request <- v5, events <- v6,
  call <- v7, answer <- v8, runs <- v9, relaxed <- v10

Planning == INSTANCE PackagePlanning WITH
  Family <- {"fedora"}, Repo <- {"main"}, Foreign <- "foreign",
  Beside <- {"rpm-ostree", "dnf"}, family <- v1, available <- v2,
  policy <- v3, adapters <- v4, offers <- v5, request <- v6, stage <- v7,
  simulated <- v8

Vendor == INSTANCE VendorRepositoryProofs WITH
  Tx <- Pair, NoTx <- NoOne, MaxTime <- 0, MaxAge <- 0, now <- v1,
  release <- v2, evidence <- v3, order <- v4, source <- v5, record <- v6,
  previous <- v7, pc <- v8, apt <- v9, redo <- v10, owner <- v11,
  contested <- v12

Expiry == INSTANCE VendorRepositoryProofs WITH
  Tx <- One, NoTx <- NoOne, MaxTime <- 2, MaxAge <- 0, now <- v1,
  release <- v2, evidence <- v3, order <- v4, source <- v5, record <- v6,
  previous <- v7, pc <- v8, apt <- v9, redo <- v10, owner <- v11,
  contested <- v12

Review == INSTANCE VendorReview WITH
  Package <- {"open", "keyring"}, Required <- {"open", "keyring"},
  MaxTime <- 0, MaxAge <- 0, MaxEdits <- 1, now <- v1, served <- v2,
  policy <- v3, review <- v4, fetched <- v5, evidence <- v6, bindings <- v7,
  operation <- v8, shown <- v9, confirmed <- v10, edits <- v11

Aging == INSTANCE VendorReview WITH
  Package <- {"open", "other"}, Required <- {"open"}, MaxTime <- 1,
  MaxAge <- 0, MaxEdits <- 2, now <- v1, served <- v2, policy <- v3,
  review <- v4, fetched <- v5, evidence <- v6, bindings <- v7,
  operation <- v8, shown <- v9, confirmed <- v10, edits <- v11

Mutations == INSTANCE DriverMutationProofs WITH
  Tx <- Pair, NoTx <- NoOne, Look <- One, Driver <- One, version <- v1,
  latest <- v2, reboot <- v3, pending <- v4, history <- v5, record <- v6,
  plan <- v7, pc <- v8, child <- v9, rebooted <- v10, look <- v11,
  disturbed <- v12, overlapped <- v13, driver <- v14, route <- v15,
  reply <- v16

Network == INSTANCE NetworkMutation WITH
  Call <- Pair, Profile <- Other, Iface <- Third, None <- NoOne, saved <- v1,
  active <- v2, at <- v3, plan <- v4, nmcli <- v5, disturbed <- v6

Windows == INSTANCE WindowsRuntime WITH
  App <- One, Provider <- {"wine", "proton"}, Catalog <- {"wine"},
  runtime <- v1, provision <- v2, configured <- v3, manifest <- v4,
  prefix <- v5, entry <- v6, record <- v7, live <- v8, ranBy <- v9,
  lost <- v10

AppImage == INSTANCE AppImageTransaction WITH
  Tx <- Pair, Content <- Other, None <- NoOne, target <- v1, artifact <- v2,
  backup <- v3, temp <- v4, journal <- v5, at <- v6, plan <- v7, sweep <- v8,
  expected <- v9, spoiled <- v10

Catalog == INSTANCE CatalogTrust WITH
  Call <- Pair, Digest <- Other, CurrentKey <- "current", NextKey <- "next",
  MaxSequence <- CatalogSequences, edition <- v1, roots <- v2, trusted <- v3, file <- v4,
  at <- v5, env <- v6, seen <- v7, granted <- v8, back <- v9, mark <- v10,
  web <- v11, overlap <- v12

Apps == INSTANCE AppRuntime WITH
  App <- One, LowerCase <- Itself, manifest <- v1, verified <- v2,
  present <- v3, capable <- v4, owners <- v5, records <- v6, live <- v7,
  restarted <- v8

Qualification == INSTANCE FirmwareQualification WITH
  Session <- Pair, Call <- Other, Machine <- {"m1", "m2", "vm"}, Virtual <- {"vm"},
  RequiresReboot <- TRUE, MaxBoot <- 3, host <- v1, flashed <- v2,
  session <- v3, call <- v4, file <- v5, applied <- v6

Auth == INSTANCE SystemAuthorization WITH
  Session <- Pair, Process <- One, User <- One, Plan <- {"plan"},
  PackageAction <- {"mutate"}, FirmwareAction <- {"update"}, Root <- "root",
  Gone <- NoOne, session <- v1, tool <- v2, uid <- v3, call <- v4,
  grant <- v5, allowed <- v6, present <- v7

Image == INSTANCE SystemImage WITH
  Suites <- TheSuites, Builder <- One, Content <- {"v1", "v2", "bad", "dnf"},
  Unusable <- {"bad"}, Foreign <- {"dnf"}, Absent <- NoOne, suite <- v1,
  image <- v2, state <- v3, evidence <- v4, enabled <- v5, build <- v6,
  wrote <- v7, ready <- v8

Drivers == INSTANCE DriverCenter WITH
  Slot <- One, Kinds <- TheKinds, Catalogs <- TheCatalogs,
  Policies <- ThePolicies, Bindings <- TheBindings, Platform <- "debian13",
  MaxTime <- 1, Absent <- NoOne, device <- v1, catalog <- v2, policy <- v3,
  now <- v4, run <- v5, offered <- v6

Recovery == INSTANCE RecoveryMode WITH
  Package <- Pair, Firmware <- {"f1", "f2"}, Reviewed <- {"f2"}, boot <- v1,
  options <- v2, state <- v3, agent <- v4, report <- v5

ASSUME SystemAssumption ==
  /\ Broker!TimesAssumption
  /\ Planning!RepoAssumption
  /\ Vendor!VendorAssumption
  /\ Expiry!VendorAssumption
  /\ Review!ReviewAssumption
  /\ Aging!ReviewAssumption
  /\ Network!NoneAssumption
  /\ Mutations!NoTxAssumption
  /\ Windows!CatalogAssumption
  /\ AppImage!NoneAssumption
  /\ Catalog!CatalogAssumption
  /\ Apps!LowerCaseAssumption
  /\ Qualification!FirmwareQualificationAssumption
  /\ Auth!AuthorizationAssumption
  /\ Image!SystemImageAssumption
  /\ Drivers!DriverCenterAssumption
  /\ Recovery!RecoveryAssumption

-------------------------------------------------------------------------------
Init ==
  /\ focus \in Foci
  /\ \/ focus = "broker" /\ Broker!Init /\ Blank10
     \/ focus = "planning" /\ Planning!Init /\ Blank8
     \/ focus = "vendor" /\ Vendor!Init /\ Blank12
     \/ focus = "expiry" /\ Expiry!Init /\ Blank12
     \/ focus = "review" /\ Review!ReviewInit /\ Blank11
     \/ focus = "aging" /\ Aging!ReviewInit /\ Blank11
     \/ focus = "firmware" /\ Mutations!DInit
     \/ focus = "network" /\ Network!Init /\ Blank6
     \/ focus = "windows" /\ Windows!Init /\ Blank10
     \/ focus = "appimage" /\ AppImage!Init /\ Blank10
     \/ focus = "catalog" /\ Catalog!Init /\ Blank12
     \/ focus = "apps" /\ Apps!Init /\ Blank8
     \/ focus = "qualification" /\ Qualification!Init /\ Blank6
     \/ focus = "authorization" /\ Auth!Init /\ Blank7
     \/ focus = "image" /\ Image!Init /\ Blank8
     \/ focus = "drivers" /\ Drivers!Init /\ Blank6
     \/ focus = "recovery" /\ Recovery!Init /\ Blank5

Next ==
  \/ focus = "broker" /\ Broker!Next /\ UNCHANGED <<focus, Over10>>
  \/ focus = "planning" /\ Planning!Next /\ UNCHANGED <<focus, Over8>>
  \/ focus = "vendor" /\ Vendor!Next /\ UNCHANGED <<focus, Over12>>
  \/ focus = "expiry" /\ Expiry!Next /\ UNCHANGED <<focus, Over12>>
  \/ focus = "review" /\ Review!ReviewNext /\ UNCHANGED <<focus, Over11>>
  \/ focus = "aging" /\ Aging!ReviewNext /\ UNCHANGED <<focus, Over11>>
  \/ focus = "firmware" /\ Mutations!DNext /\ UNCHANGED focus
  \/ focus = "network" /\ Network!Next /\ UNCHANGED <<focus, Over6>>
  \/ focus = "windows" /\ Windows!Next /\ UNCHANGED <<focus, Over10>>
  \/ focus = "appimage" /\ AppImage!Next /\ UNCHANGED <<focus, Over10>>
  \/ focus = "catalog" /\ Catalog!Next /\ UNCHANGED <<focus, Over12>>
  \/ focus = "apps" /\ Apps!Next /\ UNCHANGED <<focus, Over8>>
  \/ focus = "qualification" /\ Qualification!Next /\ UNCHANGED <<focus, Over6>>
  \/ focus = "authorization" /\ Auth!Next /\ UNCHANGED <<focus, Over7>>
  \/ focus = "image" /\ Image!Next /\ UNCHANGED <<focus, Over8>>
  \/ focus = "drivers" /\ Drivers!Next /\ UNCHANGED <<focus, Over6>>
  \/ focus = "recovery" /\ Recovery!Next /\ UNCHANGED <<focus, Over5>>

Spec == Init /\ [][Next]_slots

-------------------------------------------------------------------------------
\* "oneTimeConsumption": a grant of the broker pays for one transaction.
OneTransactionPerGrant == focus = "broker" => Broker!OneTransactionPerGrant

\* A plan that is shown for a package is one that the service and the privileged
\* executor accept and run, and apt runs only what it has simulated.
PlanSurvives == focus = "planning" => Planning!PlanSurvives

\* A vendor repository: what is rolled back is as before, and what the user
\* confirms is what was shown, verified and still fresh.
VendorTrusted ==
  /\ focus = "vendor" => Vendor!RolledBackIsRestored
  /\ focus = "expiry" => Expiry!RolledBackIsRestored
  /\ focus = "review" => Review!ConfirmedAsShown
  /\ focus = "aging" => Aging!ConfirmedAsShown

\* Processes: one provider and one process in a Windows prefix, and every process
\* of an application is known to the runtime that can stop it.
ProcessesOwned ==
  /\ focus = "windows" => Windows!PrefixIsExclusive
  /\ focus = "apps" => Apps!EveryProcessIsOwned

\* A user's AppImage is replaced as a whole or not at all, over crashes of the
\* transaction and of its recovery.
AllOrNothing == focus = "appimage" => AppImage!AllOrNothing

\* Evidence: a firmware session that is called qualified, and an image stage that
\* is called ready, are what one undisturbed run of the tool has proven.
ProvenEvidence ==
  /\ focus = "qualification" => Qualification!QualifiedIsProven
  /\ focus = "image" => Image!ReadyIsOneStaging

\* A grant belongs to the user whom polkit asked, for the request it showed; and
\* a network call that says verified has done what its grant was for.
ActorsConfined ==
  /\ focus = "authorization" => Auth!GrantIsOwners
  /\ focus = "network" => Network!VerifiedIsSo

\* Reports: the driver center offers only what catalog, policy and evidence admit,
\* and a recovery boot overlooks no interrupted transaction but the one kind that
\* its agent does not know.
ReportsGrounded ==
  /\ focus = "drivers" => Drivers!OfferIsGrounded
  /\ focus = "recovery" => Recovery!NothingOverlooked

\* Catalogs: none older than one authorized before, one per sequence, and a root
\* for every sequence over a rotation of the keys.
CatalogTrusted ==
  [][focus = "catalog" => Catalog!NeverBackStep /\ Catalog!NoGap']_slots

\* A driver mutation is never ahead of the firmware record it delegates to.
MutationsFollow == focus = "firmware" => Mutations!DriverFollowsChild

\* The firmware services and the vendor repositories implement JournaledMutation;
\* firmware is called verified, or committed by the granted service, only while the
\* device runs the planned version, and a repository is activated from fresh metadata.
JournalsKept ==
  [][/\ focus = "firmware" =>
          Mutations!FirmwareJournaledStep /\ Mutations!ObservedFirmwareIsTargetStep
     /\ focus = "vendor" => Vendor!ActivationJournaledStep
     /\ focus = "expiry" =>
          Expiry!ActivationJournaledStep /\ Expiry!ActivatesFreshMetadataStep]_slots
===============================================================================
