------------------------------ MODULE DriverCenter ------------------------------
(***************************************************************************)
(* The Driver Center: the hardware inventory read from sysfs, its match    *)
(* against the Hardware Catalog, the preview plan of the driver resolver,  *)
(* the report over both, and the firmware inventory of fwupd.  The catalog *)
(* and the policy are files, read at different moments; devices come, go   *)
(* and lose their driver while the inventory is read; the evidence behind  *)
(* a vendor's repository expires.                                          *)
(***************************************************************************)
EXTENDS FiniteSets, Naturals, TLC

CONSTANTS
  Slot,       \* device paths of sysfs
  Kinds,      \* devices: [bus, vendor, tokens, driver]; driver is what the kernel binds
  Catalogs,   \* sets of entries [id, bus, ids, modules, firmware, packages, sources]
  Policies,   \* [classes, urls, journal] of trusted-sources.json
  Bindings,   \* [repo, vendor, platform, packages, until] of vendor repositories
  Platform,   \* distribution, version and architecture of this host
  MaxTime,
  Absent

\* hardware-catalog.selftest.mjs: ids are unique.
DriverCenterAssumption ==
  \A c \in Catalogs : \A e, f \in c : e.id = f.id => e = f

VARIABLES
  device,     \* what is in a slot, and its driver status
  catalog, policy, \* the files
  now,
  run,        \* the report under way
  offered     \* the report that passed last, until another one is begun

dcVars == <<device, catalog, policy, now, run, offered>>

SourceClasses == {"kernel-in-tree", "linux-firmware", "distribution-repository",
                  "fwupd-lvfs", "vendor-official-repository"}
Vendor == "vendor-official-repository"
None   == [at |-> "none"]

-------------------------------------------------------------------------------
(* hardware-service.mjs                                                      *)

\* deviceMatchTokens: a PCI device by its ids, and by those of its subsystem, too.
Tokens(dev) == dev.tokens

\* wildcardMatch: an id of the catalog stands for the tokens that its pattern matches.
Matches(e, dev) == e.bus = dev.bus /\ e.ids \cap Tokens(dev) # {}

\* validateSources
Valid(sources) == {s \in sources : s.class \in SourceClasses}

\* applyHardwareCatalog
Matched(dev, entries) ==
  LET hits == {e \in entries : Matches(e, dev)} IN
    [device |-> dev, matched |-> hits # {}, entryIds |-> {e.id : e \in hits},
     sources |-> UNION {Valid(e.sources) : e \in hits}]

\* readDriver: without a driver but with a modalias, a device is unbound.
Status(dev) == IF dev.bound THEN "loaded" ELSE "unbound"

\* assertReadOnlyContract
Trusted(snapshot) == \A d \in DOMAIN snapshot : \A s \in snapshot[d].sources : s.class \in SourceClasses

-------------------------------------------------------------------------------
(* driver-resolver.mjs                                                       *)

\* aggregateSupport: the entries are looked up again, by their ids.
Support(m, entries) ==
  LET mine == {e \in entries : e.id \in m.entryIds} IN
    [modules  |-> UNION {e.modules : e \in mine},
     firmware |-> UNION {e.firmware : e \in mine},
     packages |-> UNION {e.packages : e \in mine}]

\* verifiedVendorBinding
Binds(b, s, m, support, t) ==
  /\ b.repo = s.repo /\ b.vendor = m.device.vendor /\ b.platform = Platform
  /\ b.packages \cap support.packages # {} /\ b.until >= t

\* trustedSources
TrustedSources(m, support, bindings, t) ==
  {s \in m.sources : s.class = Vendor => \E b \in bindings : Binds(b, s, m, support, t)}

RollbackMode(sources) ==
  IF \E s \in sources : s.rollback THEN "source-supported" ELSE "required-before-apply"

Expected(m, support) ==
  Status(m.device) = "loaded" /\ (support.modules = {} \/ m.device.driver \in support.modules)

\* What resolveDriverPlan proposes for a device.
Proposed(m, support, sources) ==
  {k \in {"diagnose-unbound", "review-module", "review-firmware", "review-package", "review-fwupd"} :
     CASE k = "diagnose-unbound" -> Status(m.device) = "unbound" /\ m.matched
       [] k = "review-module"    -> support.modules # {} /\ ~Expected(m, support)
       [] k = "review-firmware"  -> support.firmware # {}
       [] k = "review-package"   -> support.packages # {}
       [] k = "review-fwupd"     -> \E s \in sources : s.class = "fwupd-lvfs"}

Candidates(k, support) ==
  CASE k = "review-firmware" -> support.firmware
    [] k = "review-package"  -> support.packages
    [] k = "review-fwupd"    -> {}
    [] OTHER                 -> support.modules

Operation(d, k, support, sources) ==
  [device |-> d, kind |-> k, candidates |-> Candidates(k, support), sources |-> sources,
   privileged |-> k # "diagnose-unbound",
   rollback |-> IF k = "diagnose-unbound" THEN "not-required" ELSE RollbackMode(sources)]

Plan(snapshot, entries, bindings, t) ==
  UNION {LET m == snapshot[d]
             support == Support(m, entries)
             sources == TrustedSources(m, support, bindings, t)
         IN  {Operation(d, k, support, sources) : k \in Proposed(m, support, sources)}
         : d \in DOMAIN snapshot}

\* assertSafeDriverPlan
SafePlan(plan) ==
  \A op \in plan :
    /\ \A s \in op.sources : s.class \in SourceClasses /\ (s.class = Vendor => s.repo # Absent)
    /\ op.privileged => op.rollback # "not-required"

-------------------------------------------------------------------------------
(* driver-center-service.mjs                                                 *)

\* sourceViolations: a direct URL, or a class that the policy does not list.
Violates(s, p) ==
  s.class \notin p.classes \/ (s.url /\ ~p.urls) \/ (s.class = Vendor /\ s.repo = Absent)

\* deviceAssessment does not know what module the catalog expects.
Assessed(m) ==
  IF ~m.matched THEN "unknown" ELSE IF Status(m.device) = "loaded" THEN "healthy" ELSE "attention"

\* createDriverCenterReport and assertSafeDriverCenterReport: one violation, of any
\* device or operation, and there is no report.
SafeReport(snapshot, plan, p) ==
  /\ ~p.urls /\ p.journal
  /\ \A d \in DOMAIN snapshot : \A s \in snapshot[d].sources : ~Violates(s, p)
  /\ \A op \in plan : \A s \in op.sources : ~Violates(s, p)

-------------------------------------------------------------------------------
(* fwupd-lvfs-service.mjs                                                    *)

\* probe: what there is of fwupdmgr may change any time.
Probe == {"absent", "trusted", "untrusted"}

\* inventory: only releases of LVFS are candidates.
Inventory(releases) == {r \in releases : r.remote = "lvfs"}

\* assertSafeFwupdLvfsInventory
SafeInventory(candidates) == \A r \in candidates : r.remote = "lvfs"

Releases == SUBSET {[remote |-> "lvfs"], [remote |-> "vendor-direct"]}

-------------------------------------------------------------------------------
(* driver-center-runtime.mjs: one report.                                    *)

Env == <<device, catalog, policy, now>>
Goes(r) == run' = r /\ UNCHANGED <<Env, offered>>
Fails   == Goes(None)

\* The moment of the report is taken first; the bindings are the caller's; the report
\* that was shown is replaced.
LoadCatalog ==
  /\ run.at = "none"
  /\ \E bs \in SUBSET Bindings :
       run' = [at |-> "policy", time |-> now, catalog |-> catalog, bindings |-> bs,
               policy |-> Absent, left |-> Slot, seen |-> [d \in Slot |-> Absent],
               snapshot |-> <<>>, plan |-> {}, health |-> <<>>, firmware |-> {}]
  /\ offered' = None /\ UNCHANGED Env

LoadPolicy ==
  run.at = "policy" /\ Goes([run EXCEPT !.at = "scan", !.policy = policy])

\* scanLinuxSysfs: the slots were listed; one whose device is gone is left out.
ScanDevice(d) ==
  /\ run.at = "scan" /\ d \in run.left
  /\ Goes([run EXCEPT !.left = @ \ {d}, !.seen[d] = device[d]])

\* createHardwareSnapshot
Snapshot(seen, entries) ==
  [d \in {x \in Slot : seen[x] # Absent} |-> Matched(seen[d], entries)]

TakeSnapshot ==
  /\ run.at = "scan" /\ run.left = {}
  /\ LET snapshot == Snapshot(run.seen, run.catalog) IN
       Goes(IF Trusted(snapshot) THEN [run EXCEPT !.at = "resolve", !.snapshot = snapshot]
            ELSE None)

ResolveDriverPlan ==
  /\ run.at = "resolve"
  /\ LET plan == Plan(run.snapshot, run.catalog, run.bindings, run.time) IN
       Goes(IF SafePlan(plan) THEN [run EXCEPT !.at = "report", !.plan = plan] ELSE None)

CreateReport ==
  /\ run.at = "report"
  /\ LET health == [d \in DOMAIN run.snapshot |-> Assessed(run.snapshot[d])] IN
       IF SafeReport(run.snapshot, run.plan, run.policy)
       THEN Goes([run EXCEPT !.at = "firmware", !.health = health]) ELSE Fails

\* collectFirmware: an untrusted binary ends the report, a failing inventory does not.
CollectFirmware ==
  /\ run.at = "firmware"
  /\ \E fwupd \in Probe :
       \/ fwupd = "untrusted" /\ Fails
       \/ /\ fwupd = "trusted"
          /\ \E releases \in Releases :
               /\ SafeInventory(Inventory(releases))
               /\ Goes([run EXCEPT !.at = "publish", !.firmware = Inventory(releases)])
       \/ fwupd # "untrusted" /\ Goes([run EXCEPT !.at = "publish", !.firmware = {}])

\* assertSafeDriverCenterRuntime
Publish ==
  /\ run.at = "publish"
  /\ offered' = run /\ run' = None /\ UNCHANGED Env

-------------------------------------------------------------------------------
Hotplug(d) ==
  /\ \E x \in {Absent} \cup {[bound |-> b] @@ k : k \in Kinds, b \in BOOLEAN} :
       x # device[d] /\ device' = [device EXCEPT ![d] = x]
  /\ UNCHANGED <<catalog, policy, now, run, offered>>

EditCatalog ==
  /\ \E c \in Catalogs \ {catalog} : catalog' = c
  /\ UNCHANGED <<device, policy, now, run, offered>>

EditPolicy ==
  /\ \E p \in Policies \ {policy} : policy' = p
  /\ UNCHANGED <<device, catalog, now, run, offered>>

Tick ==
  /\ now < MaxTime /\ now' = now + 1
  /\ UNCHANGED <<device, catalog, policy, run, offered>>

Init ==
  /\ device = [d \in Slot |-> Absent]
  /\ catalog \in Catalogs /\ policy \in Policies
  /\ now = 0 /\ run = None /\ offered = None

Next ==
  \/ LoadCatalog \/ LoadPolicy \/ TakeSnapshot \/ ResolveDriverPlan \/ CreateReport
  \/ CollectFirmware \/ Publish
  \/ EditCatalog \/ EditPolicy \/ Tick
  \/ \E d \in Slot : ScanDevice(d) \/ Hotplug(d)

Spec == Init /\ [][Next]_dcVars

-------------------------------------------------------------------------------
\* What the catalog of that report says of a device, read independently of the plan.
Says(dev) == {e \in offered.catalog : e.bus = dev.bus /\ e.ids \cap dev.tokens # {}}

\* "Untrusted driver source class", "Direct driver URLs are forbidden", "Vendor driver
\* source requires a verified transaction binding", "Unknown hardware auto-download is
\* forbidden": whatever changes under it, a report that passed offers for a device only
\* what the catalog it read says of that very device, from sources the policy it read
\* admits, a vendor's repository only for that vendor's hardware on this platform and
\* under evidence that had not expired, and firmware from LVFS only.
OfferIsGrounded ==
  offered # None =>
    /\ \A r \in offered.firmware : r.remote = "lvfs"
    /\ \A op \in offered.plan :
         LET dev == offered.seen[op.device] IN
           /\ Says(dev) # {} /\ offered.health[op.device] # "unknown"
           /\ \A x \in op.candidates : \E e \in Says(dev) : x \in e.modules \cup e.firmware \cup e.packages
           /\ op.privileged => op.rollback # "not-required"
           /\ \A s \in op.sources :
                /\ \E e \in Says(dev) : s \in e.sources
                /\ s.class \in SourceClasses \cap offered.policy.classes /\ ~s.url
                /\ s.class = Vendor =>
                     \E b \in offered.bindings :
                       /\ b.repo = s.repo /\ b.vendor = dev.vendor /\ b.platform = Platform
                       /\ b.until >= offered.time
                       /\ \E e \in Says(dev) : e.packages \cap b.packages # {}

-------------------------------------------------------------------------------
(* What every step keeps, and OfferIsGrounded rests on.                      *)

\* What a report has taken, and passed, on its way to where it is.
Reaches(r, stages) == r.at \in stages

Followed(r) ==
  /\ r.at \in {"policy", "scan", "resolve", "report", "firmware", "publish"}
  /\ r.catalog \in Catalogs
  /\ Reaches(r, {"resolve", "report", "firmware", "publish"}) =>
       r.snapshot = Snapshot(r.seen, r.catalog)
  /\ Reaches(r, {"report", "firmware", "publish"}) =>
       r.plan = Plan(r.snapshot, r.catalog, r.bindings, r.time) /\ SafePlan(r.plan)
  /\ Reaches(r, {"firmware", "publish"}) =>
       /\ SafeReport(r.snapshot, r.plan, r.policy)
       /\ r.health = [d \in DOMAIN r.snapshot |-> Assessed(r.snapshot[d])]
  /\ Reaches(r, {"publish"}) => SafeInventory(r.firmware)

Fields == {"at", "time", "catalog", "bindings", "policy", "left", "seen", "snapshot",
           "plan", "health", "firmware"}

DriversInv ==
  /\ catalog \in Catalogs
  /\ run # None => DOMAIN run = Fields /\ Followed(run)
  /\ offered # None => offered.at = "publish" /\ Followed(offered)
===============================================================================
