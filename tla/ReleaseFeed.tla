----------------------------- MODULE ReleaseFeed -----------------------------
(***************************************************************************)
(* How a Desktop release of one channel reaches the update feed: the       *)
(* release workflow (scripts/build-signed-catalog-release.mjs) and         *)
(* the workflow that promotes a published release                         *)
(* into the feed kept in the repository                                    *)
(* (verify-desktop-release-provenance.mjs,                                 *)
(* promote-desktop-update-feed.mjs).                                       *)
(*                                                                         *)
(* A promotion is serialised with others of its own tag only, so that the  *)
(* promotions of two releases run beside each other, each from the commit  *)
(* of main it fetched; a push onto a main that has moved is refused.       *)
(* Releases may also be published by hand, from any commit and with any    *)
(* assets, and the pinned update key is changed by the operator.  The      *)
(* repository host, its tags, variables and pushes are modelled from how   *)
(* the workflows use them.                                                 *)
(***************************************************************************)
EXTENDS Naturals, Sequences

CONSTANTS Version,     \* three-part versions of the channel, as numbers
          Key,         \* update keys
          FirstKey,
          None,
          MaxMain,     \* commits of main
          MaxByHand,   \* releases published by hand
          MaxRotate,   \* changes of the pinned key
          MaxRerun     \* promotions started again

ReleaseAssumption ==
  /\ Version \subseteq Nat \ {0} /\ FirstKey \in Key /\ None \notin Key
  /\ None \notin [commit : Nat, prerelease : BOOLEAN,
                  package : [version : Version, commit : Nat],
                  envelope : [version : Version, key : Key,
                              package : [version : Version, commit : Nat]]]
  /\ None \notin [version : Version, key : Key, package : [version : Version, commit : Nat]]
  /\ {MaxMain, MaxByHand, MaxRotate, MaxRerun} \subseteq Nat

VARIABLES main,       \* the feed at each commit of main: an envelope or None
          pinned,     \* repository variables: the pinned update key
          build,      \* the release workflow of a version
          releases,   \* the published release of a version
          promo,      \* the promotion of a version
          byHand, rotations, reruns

rvars == <<main, pinned, build, releases, promo, byHand, rotations, reruns>>

\* The feed that clients are served.
Feed == main[Len(main)]

\* A commit that is not on main.
Elsewhere == 0

\* What the release workflow makes of a commit: package bytes, named by the
\* version and the commit they were built from.
Bytes(v, c) == [version |-> v, commit |-> c]

\* The signed update envelope: the version, the digest of the package, the key.
Envelope(v, bytes, k) == [version |-> v, package |-> bytes, key |-> k]

NoBuild(at) == [at |-> at, commit |-> 0, key |-> FirstKey]
NoPromo(at) == [at |-> at, pin |-> FirstKey, base |-> 0]

ReleaseInit ==
  /\ main = <<None>> /\ pinned = FirstKey
  /\ build = [v \in Version |-> NoBuild("none")]
  /\ releases = [v \in Version |-> None]
  /\ promo = [v \in Version |-> NoPromo("none")]
  /\ byHand = 0 /\ rotations = 0 /\ reruns = 0

-----------------------------------------------------------------------------
\* The release workflow is dispatched on main, with the pinned key.
Dispatch(v) ==
  /\ build[v].at \in {"none", "failed"}
  /\ build' = [build EXCEPT ![v] = [at |-> "catalog", commit |-> Len(main),
                                    key |-> pinned]]
  /\ UNCHANGED <<main, pinned, releases, promo, byHand, rotations, reruns>>

\* The catalog is signed over the artifacts of the store: each package of the
\* catalog that the Desktop edition takes must have one, with its descriptor;
\* a catalog of another edition, or that misses one, fails the workflow.
SignedCatalog(v) ==
  /\ build[v].at = "catalog"
  /\ \/ build' = [build EXCEPT ![v].at = "bundle"]
     \/ build' = [build EXCEPT ![v] = NoBuild("failed")]
  /\ UNCHANGED <<main, pinned, releases, promo, byHand, rotations, reruns>>

\* A release that exists is never overwritten.
Publish(v) ==
  /\ build[v].at = "bundle"
  /\ build' = [build EXCEPT ![v] =
                 NoBuild(IF releases[v] = None THEN "published" ELSE "failed")]
  /\ IF releases[v] # None THEN UNCHANGED releases
     ELSE releases' = [releases EXCEPT ![v] =
            [commit |-> build[v].commit, prerelease |-> TRUE,
             package |-> Bytes(v, build[v].commit),
             envelope |-> Envelope(v, Bytes(v, build[v].commit), build[v].key)]]
  /\ UNCHANGED <<main, pinned, promo, byHand, rotations, reruns>>

\* A release published by hand: from main or not, its assets those of some
\* release, or built elsewhere.
PublishByHand(v) ==
  /\ byHand' = byHand + 1 /\ releases[v] = None
  /\ \E c \in {Elsewhere, Len(main)}, pre \in BOOLEAN, k \in Key, w \in Version,
        same \in BOOLEAN :
       releases' = [releases EXCEPT ![v] =
         [commit |-> c, prerelease |-> pre, package |-> Bytes(v, c),
          envelope |-> Envelope(w, IF same THEN Bytes(v, c) ELSE Bytes(w, Elsewhere), k)]]
  /\ UNCHANGED <<main, pinned, build, promo, rotations, reruns>>

-----------------------------------------------------------------------------
\* desktop-update-feed.yml runs when a release is published, and again when
\* the operator starts it again.
Start(v) ==
  /\ releases[v] # None
  /\ \/ promo[v].at = "none" /\ UNCHANGED reruns
     \/ promo[v].at = "failed" /\ reruns' = reruns + 1
  /\ promo' = [promo EXCEPT ![v] = [at |-> "fetch", pin |-> pinned, base |-> 0]]
  /\ UNCHANGED <<main, pinned, build, releases, byHand, rotations>>

Fetch(v) ==
  /\ promo[v].at = "fetch"
  /\ promo' = [promo EXCEPT ![v].at = "verify", ![v].base = Len(main)]
  /\ UNCHANGED <<main, pinned, build, releases, byHand, rotations, reruns>>

Ends(v, at) ==
  /\ promo' = [promo EXCEPT ![v] = IF at \in {"failed", "done"} THEN NoPromo(at)
                                   ELSE [@ EXCEPT !.at = at]]
  /\ UNCHANGED <<main, pinned, build, releases, byHand, rotations, reruns>>

\* verifyReleaseProvenance: the tag's commit is an ancestor of main, and a
\* release of this channel is a prerelease.
Provenance(v) ==
  releases[v].commit \in 1 .. promo[v].base /\ releases[v].prerelease

VerifyReleaseProvenance(v) ==
  /\ promo[v].at = "verify"
  /\ Ends(v, IF Provenance(v) THEN "promote" ELSE "failed")

\* parseEnvelope, for a tag.
ParsesFor(e, v) == e.version = v

\* verifyEnvelopeSignature, under the key that the run was started with.
Verifies(e, pin) == e.key = pin

\* verifyPackageArtifact
Artifact(v) == releases[v].package = releases[v].envelope.package

\* compareVersions, and the same text for the same version.
Older(a, b) == a.version < b.version

\* Refusing a downgrade, or another envelope of a version already published.
Conflicts(incoming, current) ==
  Older(incoming, current) \/ (incoming.version = current.version /\ incoming # current)

\* promoteFeed: the release's envelope becomes the feed of the checkout; a
\* feed already there must verify under the same key.  What has changed is
\* committed; git diff sees no change in a file that is not tracked, so the
\* first feed of a channel is left in the checkout and the run ends.
Promote(v) ==
  LET e == releases[v].envelope
      current == main[promo[v].base]
      refused == \/ ~ ParsesFor(e, v) \/ ~ Verifies(e, promo[v].pin) \/ ~ Artifact(v)
                 \/ current # None /\ (~ Verifies(current, promo[v].pin)
                                        \/ Conflicts(e, current))
  IN  /\ promo[v].at = "promote"
      /\ Ends(v, IF refused THEN "failed"
                 ELSE IF current \in {None, e} THEN "done" ELSE "push")

\* A push is taken only onto the commit it was made from.
FastForward(v) == Len(main) = promo[v].base

\* The push of the commit that holds the feed.
TakesPush(v) == FastForward(v)

Push(v) ==
  /\ promo[v].at = "push"
  /\ IF TakesPush(v)
     THEN /\ main' = Append(main, releases[v].envelope)
          /\ promo' = [promo EXCEPT ![v] = NoPromo("done")]
     ELSE /\ promo' = [promo EXCEPT ![v] = NoPromo("failed")] /\ UNCHANGED main
  /\ UNCHANGED <<pinned, build, releases, byHand, rotations, reruns>>

-----------------------------------------------------------------------------
\* Others push to main; the feed stays what it is.
Commit ==
  /\ main' = Append(main, main[Len(main)])
  /\ UNCHANGED <<pinned, build, releases, promo, byHand, rotations, reruns>>

\* The operator commits the first feed of the channel: what promoteFeed, under
\* the pinned key, makes of a release that was built from main.
FirstFeed(v) ==
  LET e == releases[v].envelope IN
  /\ Feed = None /\ releases[v] # None
  /\ releases[v].commit \in 1 .. Len(main)
  /\ ParsesFor(e, v) /\ Verifies(e, pinned) /\ Artifact(v)
  /\ main' = Append(main, e)
  /\ UNCHANGED <<pinned, build, releases, promo, byHand, rotations, reruns>>

\* The operator changes the key.
Rotate ==
  /\ rotations' = rotations + 1
  /\ \E k \in Key \ {pinned} : pinned' = k
  /\ UNCHANGED <<main, build, releases, promo, byHand, reruns>>

ReleaseStep ==
  \/ \E v \in Version :
       \/ Dispatch(v) \/ SignedCatalog(v) \/ Publish(v) \/ PublishByHand(v)
       \/ Start(v) \/ Fetch(v) \/ VerifyReleaseProvenance(v) \/ Promote(v) \/ Push(v)
       \/ FirstFeed(v)
  \/ Commit \/ Rotate

ReleaseNext ==
  /\ ReleaseStep
  /\ Len(main') <= MaxMain /\ byHand' <= MaxByHand
  /\ rotations' <= MaxRotate /\ reruns' <= MaxRerun

ReleaseSpec == ReleaseInit /\ [][ReleaseNext]_rvars

-----------------------------------------------------------------------------
\* "without downgrade": whatever promotions run beside each other, are
\* refused and started again, the feed of a channel never goes back and
\* never exchanges the envelope of a version; and what it names is the very
\* package of a published release of that version, built from a commit that
\* was on main (promote-desktop-update-feed.mjs:84-96).
FeedNeverBackStep ==
  /\ main[Len(main)] # None =>
        /\ main'[Len(main')] # None
        /\ ~ Conflicts(main'[Len(main')], main[Len(main)])
  /\ main' # main /\ main'[Len(main')] # main[Len(main)] =>
        LET e == main'[Len(main')] IN
          /\ releases[e.version] # None
          /\ releases[e.version].package = e.package
          /\ e.package.commit \in 1 .. Len(main)

FeedNeverBack == [][FeedNeverBackStep]_rvars

\* "Feed already points at ${VERSION}; nothing to publish": a promotion that
\* ends well leaves a feed of its version or of a newer one
\* (desktop-update-feed.yml:118).  It does not hold for the first feed of a
\* channel, and no run checks it.
PromotionPublishes ==
  \A v \in Version : promo[v].at = "done" => Feed # None /\ Feed.version >= v

-----------------------------------------------------------------------------
\* Envelopes and releases.
Envelopes == [version : Version, key : Key, package : [version : Version, commit : Nat]]
Releases  == [commit : Nat, prerelease : BOOLEAN, envelope : Envelopes,
              package : [version : Version, commit : Nat]]

ReleaseType ==
  /\ main \in Seq({None} \cup Envelopes) /\ Len(main) > 0
  /\ pinned \in Key
  /\ build \in [Version -> [at : {"none", "catalog", "bundle", "published", "failed"},
                            commit : Nat, key : Key]]
  /\ releases \in [Version -> {None} \cup Releases]
  /\ promo \in [Version -> [at : {"none", "fetch", "verify", "promote", "push", "done", "failed"},
                            pin : Key, base : Nat]]

\* A package is named by the release and the commit it was built from.
PackagesNamed ==
  \A v \in Version : releases[v] # None => releases[v].package = Bytes(v, releases[v].commit)

\* The promotion of a release knows that it exists, what main was, that its commit was on
\* it, and that the envelope to push is that of its package and may follow the feed.
PromotionKnows ==
  \A v \in Version :
    LET at == promo[v].at  base == promo[v].base  e == releases[v].envelope IN
    /\ at \in {"fetch", "verify", "promote", "push"} => releases[v] # None
    /\ at \in {"verify", "promote", "push"} => base \in 1 .. Len(main)
    /\ at \in {"promote", "push"} => releases[v].commit \in 1 .. base
    /\ at = "push" => /\ ParsesFor(e, v) /\ Artifact(v)
                      /\ main[base] # None => ~ Conflicts(e, main[base])

ReleaseInv == ReleaseType /\ PackagesNamed /\ PromotionKnows
=============================================================================
