------------------------------ MODULE VendorReview ------------------------------
(***************************************************************************)
(* How one vendor repository comes to be offered for activation: the       *)
(* policy of the machine is read and resolved to a review, the evidence of *)
(* the vendor's metadata is fetched, both are bound with the packages that *)
(* are asked for, the driver plan names the binding as its source, and the *)
(* Driver Center shows a review of it which the user confirms.  The vendor *)
(* publishes, the administrator edits and the clock goes on between any    *)
(* two of these steps; each keeps what the one before it returned.         *)
(***************************************************************************)
EXTENDS Integers, FiniteSets

CONSTANTS
  Package,   \* packages of the repository
  Required,  \* requiredPackages of the pinned profile
  MaxTime, MaxAge,  \* bound of the clock; MAX_INRELEASE_AGE_MS
  MaxEdits   \* bound on what the vendor and the administrator change

ReviewAssumption == Required \subseteq Package /\ MaxTime \in Nat /\ MaxAge \in Nat

VARIABLES
  now,
  served,     \* what the vendor serves: its key, its signed InRelease and its Packages.gz
  policy,     \* the policy file of the machine
  review,     \* the review resolved from it, if any
  fetched,    \* the resources of a collection under way, with those not there yet
  evidence,   \* the evidence collected last, if any
  bindings,   \* the bindings made so far
  operation,  \* the operation of the driver plan, if it names a binding
  shown,      \* the review the Driver Center shows
  confirmed,  \* what was confirmed last, and when
  edits

rvWorld == <<now, served, policy, edits>>
rvTrust == <<review, fetched, evidence, bindings>>
rvAll   == <<rvWorld, rvTrust, operation, shown, confirmed>>

Resources == {"key", "release", "index"}
Nothing   == [busy |-> FALSE, key |-> {}, release |-> {}, index |-> {}]
Keys      == {"pinned", "other"}

-------------------------------------------------------------------------------
(* The world (external).                                                     *)

Edit == edits < MaxEdits /\ edits' = edits + 1
WorldOnly == UNCHANGED <<rvTrust, operation, shown, confirmed>>

Tick == now < MaxTime /\ now' = now + 1 /\ UNCHANGED <<served, policy, edits>> /\ WorldOnly

\* The vendor signs what it serves; the index and the signature are two files.
Sign ==
  /\ served.release.date < now
  /\ served' = [served EXCEPT !.release = [date |-> now, key |-> served.key]]
  /\ UNCHANGED <<now, policy, edits>> /\ WorldOnly

PublishIndex ==
  /\ Edit /\ \E i \in {Package, Package \ Required} : i # served.index /\ served' = [served EXCEPT !.index = i]
  /\ UNCHANGED <<now, policy>> /\ WorldOnly

RotateKey ==
  /\ Edit /\ \E k \in Keys : k # served.key /\ served' = [served EXCEPT !.key = k]
  /\ UNCHANGED <<now, policy>> /\ WorldOnly

\* The administrator allows other packages or disables the entry.
EditPolicy ==
  /\ Edit /\ \E p \in {{}, Required} : policy' = [enabled |-> p # {}, packages |-> p]
  /\ UNCHANGED <<now, served>> /\ WorldOnly

-------------------------------------------------------------------------------
(* The policy, vendor-official-repository-service.mjs.                       *)

\* parseVendorOfficialRepositoryPolicy, normalizeEntry: an entry names its packages.
PolicyAccepted(p) == p.enabled /\ p.packages # {}

\* resolveVendorOfficialRepositories keeps the entry it was given.
Resolved(p) == {[packages |-> p.packages] : x \in {y \in {p} : PolicyAccepted(y)}}

LoadPolicy ==
  /\ review' = Resolved(policy)
  /\ UNCHANGED <<rvWorld, fetched, evidence, bindings, operation, shown, confirmed>>

-------------------------------------------------------------------------------
(* The evidence, vendor-repository-trust-evidence.mjs.                       *)

CollectBegins ==
  /\ ~fetched.busy /\ fetched' = [Nothing EXCEPT !.busy = TRUE]
  /\ UNCHANGED <<rvWorld, review, evidence, bindings, operation, shown, confirmed>>

\* fetchBounded: the three resources are fetched at once, and arrive in any order.
Fetched(r) ==
  /\ fetched.busy /\ fetched[r] = {}
  /\ fetched' = [fetched EXCEPT ![r] = {served[r]}]
  /\ UNCHANGED <<rvWorld, review, evidence, bindings, operation, shown, confirmed>>

\* One that fails fails the collection.
FetchFails ==
  /\ fetched.busy /\ fetched' = Nothing
  /\ UNCHANGED <<rvWorld, review, evidence, bindings, operation, shown, confirmed>>

\* verifyInReleaseFreshness.
Freshness(release) == now <= release.date + MaxAge

\* parseGpgPrimaryFingerprint: the primary key that was fetched is the pinned one.
Pinned(key) == key = "pinned"

\* parseValidSignatures: one of the signatures is of that key.
SignedBy(key, release) == release.key = key

\* verifyVendorRepositoryCrypto.
Genuine(key, release) == Pinned(key) /\ SignedBy(key, release)

\* parsePackagesIndex: the packages of the profile are in the index.
Indexed(index) == Required \subseteq index

\* collectVendorRepositoryEvidence: all of it, or the evidence before it is kept.
Collected ==
  /\ \E key \in fetched.key, release \in fetched.release, index \in fetched.index :
       evidence' = IF Freshness(release) /\ Genuine(key, release) /\ Indexed(index)
                     THEN {[packages |-> Required, date |-> release.date]} ELSE evidence
  /\ fetched' = Nothing
  /\ UNCHANGED <<rvWorld, review, bindings, operation, shown, confirmed>>

Unexpired(x) == x.date + MaxAge >= now

-------------------------------------------------------------------------------
(* The binding, vendor-repository-transaction-binding.mjs.                   *)

\* Requested packages are in the policy's list and in the evidence.
Bindable(r, e) == r.packages \cap e.packages

\* bindVendorRepositoryTransaction; the binding lives as long as its evidence.
Bind ==
  /\ \E r \in review, e \in evidence : \E p \in SUBSET Bindable(r, e) \ {{}} :
       /\ Unexpired(e)
       /\ bindings' = bindings \cup {[packages |-> p, date |-> e.date]}
  /\ bindings' # bindings
  /\ UNCHANGED <<rvWorld, review, fetched, evidence, operation, shown, confirmed>>

-------------------------------------------------------------------------------
(* The operation and its review.                                             *)

\* resolveDriverPlan: the first binding that has one of the packages the catalog
\* proposes, with a copy of its scope.
PlanOperation ==
  /\ \E c \in SUBSET Package, b \in bindings :
       /\ Unexpired(b) /\ b.packages \cap c # {}
       /\ operation' = {[candidates |-> c, source |-> b]}
  /\ UNCHANGED <<rvWorld, rvTrust, shown, confirmed>>

\* matchingVendorSource and findBinding: the very binding the source names.
FoundBinding(o) == {b \in bindings : b = o.source /\ Unexpired(b)}

\* assertPackageScope: the operation proposes every package that is bound.
ScopeHolds(o, b) == b.packages \subseteq o.candidates

\* createVendorRepositoryActivationReview: it shows the common packages, and carries
\* the activation plan of the binding.
ShowReview ==
  /\ \E o \in operation : \E b \in FoundBinding(o) :
       /\ ScopeHolds(o, b)
       /\ shown' = {[packages |-> o.candidates \cap b.packages, plan |-> b]}
  /\ UNCHANGED <<rvWorld, rvTrust, operation, confirmed>>

\* assertVendorRepositoryActivationReview: its plan has not expired.
ReviewStands(s) == Unexpired(s.plan)

\* DriverCenterVendorRepositoryCoordinator.activate with the digest that is shown.
Confirm ==
  /\ \E s \in shown :
       /\ ReviewStands(s)
       /\ confirmed' = {[seen |-> s.packages, plan |-> s.plan, at |-> now]}
  /\ shown' = {}
  /\ UNCHANGED <<rvWorld, rvTrust, operation>>

ReviewInit ==
  /\ now = 0 /\ edits = 0
  /\ served = [key |-> "pinned", release |-> [date |-> 0, key |-> "pinned"], index |-> Package]
  /\ policy = [enabled |-> TRUE, packages |-> Package]
  /\ review = {} /\ fetched = Nothing /\ evidence = {} /\ bindings = {}
  /\ operation = {} /\ shown = {} /\ confirmed = {}

ReviewNext ==
  \/ Tick \/ Sign \/ PublishIndex \/ RotateKey \/ EditPolicy
  \/ LoadPolicy \/ CollectBegins \/ FetchFails \/ Collected
  \/ \E r \in Resources : Fetched(r)
  \/ Bind \/ PlanOperation \/ ShowReview \/ Confirm

ReviewSpec == ReviewInit /\ [][ReviewNext]_rvAll

-------------------------------------------------------------------------------
\* What the user confirms is what is bound: the packages the review showed are
\* all the packages of its activation plan, each of them was verified in the
\* vendor's metadata, and that metadata is not older than the maximum age, however
\* the catalog, the policy and the vendor changed after the steps before
\* (vendor-repository-driver-center-integration.mjs, assertPackageScope; the
\* binding's intersection; the expiry kept from the evidence to the activation).
ConfirmedAsShown ==
  \A c \in confirmed :
    /\ c.seen = c.plan.packages /\ c.plan.packages \subseteq Required
    /\ c.at <= c.plan.date + MaxAge

\* Why: what is collected and bound is verified in the metadata, and what is shown is
\* all of a binding.
ReviewInv ==
  /\ \A x \in evidence \cup bindings : x.packages \subseteq Required
  /\ \A s \in shown : s.plan \in bindings /\ s.packages = s.plan.packages
  /\ ConfirmedAsShown
================================================================================
