------------------------------ MODULE SystemImage ------------------------------
(***************************************************************************)
(* Provisioning the root filesystem of an image: the foundation, the peer  *)
(* authorization, the package runtime, the recovery mode and the vendor    *)
(* repository trust are staged, each by writing its files one after the    *)
(* other, then a record of them, and are verified file by file.  Builders  *)
(* run beside each other without a lock, are killed or fail half way, and  *)
(* work from checkouts that differ; the package runtime and the foundation *)
(* both own the repository policy.                                         *)
(***************************************************************************)
EXTENDS FiniteSets, Naturals, Sequences

CONSTANTS
  Suites,      \* the sets of stages that a root filesystem may be provisioned by
  Builder,
  Content,     \* what a file of a checkout may hold
  Unusable,    \* contents that no stage takes
  Foreign,     \* repository policies that name another package manager than apt
  Absent

SystemImageAssumption == Unusable \cup Foreign \subseteq Content /\ Absent \notin Content

VARIABLES
  suite,      \* the stages this root filesystem is provisioned by
  image,      \* the files of the root filesystem: content and mode
  state,      \* the record that a stage wrote of its files
  evidence,   \* is the recorded evidence of the vendor's repository fresh?
  enabled,    \* is the vendor's repository a source of apt already?
  build,      \* what a builder does
  wrote,      \* history: what the last complete staging wrote
  ready       \* history: verified as ready, and nothing was written since it began

iVars == <<suite, image, state, evidence, enabled, build, wrote, ready>>

\* ARTIFACTS, DIRECTORIES and the files of system-image-provisioning.json.
Files == [foundation |-> <<"polkit-policy", "repository-policy">>,
          peer       |-> <<"peer-broker">>,
          runtime    |-> <<"package-broker", "repository-policy">>,
          recovery   |-> <<"recovery-service", "recovery-target">>,
          vendor     |-> <<"keyring", "vendor-policy">>]
Stage == DOMAIN Files
Of(s) == {Files[s][i] : i \in DOMAIN Files[s]}

\* imagePath, target, safeRoot, noSymlinkAncestors: only files below the root filesystem.
File == UNION {Of(s) : s \in Stage}

Mode(s, f) == IF s = "foundation" /\ f = "repository-policy" THEN "0600" ELSE "0644"

\* validatePolicyXml and validateRepositoryPolicy of the foundation.
FoundationValid(f, c) == c \notin Unusable

\* The contents that the peer authorization requires.
PeerValid(f, c) == c \notin Unusable

\* The required contents of the runtime, and validateRepoPolicy, which knows apt only.
RuntimeValid(f, c) == c \notin Unusable /\ (f = "repository-policy" => c \notin Foreign)

\* validateUnitContent
RecoveryValid(f, c) == c \notin Unusable

\* fetchPinnedKey, verifyKeyFingerprint and dearmorKey: a key is staged, and verified, by
\* its fingerprint.
KeyringValid(c) == c \notin Unusable

\* loadReviewedPolicy and resolvePolicyProfile.
ReviewedPolicyValid(c) == c \notin Unusable

VendorValid(f, c) == IF f = "keyring" THEN KeyringValid(c) ELSE ReviewedPolicyValid(c)

\* What a stage accepts as a content of its file f.
Valid(s, f, c) ==
  CASE s = "foundation" -> FoundationValid(f, c)
    [] s = "peer"       -> PeerValid(f, c)
    [] s = "runtime"    -> RuntimeValid(f, c)
    [] s = "recovery"   -> RecoveryValid(f, c)
    [] s = "vendor"     -> VendorValid(f, c)

-------------------------------------------------------------------------------
Idle == [at |-> "idle"]
At(b, l, s) == build[b].at = l /\ build[b].stage = s
Job(s, l)   == [at |-> l, stage |-> s, i |-> 1, got |-> <<>>, quiet |-> TRUE, next |-> Idle]

\* A write disturbs what others verify, and what was verified.
Disturb(b, mine) ==
  /\ build' = [c \in Builder |-> IF c = b THEN mine
                 ELSE IF build[c] # Idle THEN [build[c] EXCEPT !.quiet = FALSE] ELSE Idle]
  /\ ready' = [s \in Stage |-> FALSE]

Begin(b, s, job) ==
  /\ build[b] = Idle /\ s \in suite
  /\ build' = [build EXCEPT ![b] = job]
  /\ UNCHANGED <<suite, image, state, evidence, enabled, wrote, ready>>

\* A file of the checkout, or a deployment input, is read, checked, and put in place by
\* a rename.
WriteFile(b, s) ==
  LET j == build[b]  f == Files[s][j.i] IN
    /\ At(b, "write", s)
    /\ \E c \in Content :
         /\ Valid(s, f, c)
         /\ image' = [image EXCEPT ![f] = [content |-> c, mode |-> Mode(s, f)]]
         /\ Disturb(b, [j EXCEPT !.got = Append(@, c), !.i = @ + 1,
                                 !.at = IF j.i = Len(Files[s]) THEN "record" ELSE "write"])
    /\ UNCHANGED <<suite, state, evidence, enabled, wrote>>

Wrote(s, got) == wrote' = [wrote EXCEPT ![s] = got]
Verifies(j)   == [Job(j.stage, "verify") EXCEPT !.got = j.got, !.next = j.next]

WriteState(b, s) ==
  LET j == build[b] IN
    /\ At(b, "record", s) /\ Wrote(s, j.got)
    /\ state' = [state EXCEPT ![s] = j.got]
    /\ Disturb(b, Verifies(j))

\* One more file is what it should be; after the last one the stage is ready, and the
\* stage that needed it goes on.
Passed(b, s) ==
  LET j == build[b]  last == j.i = Len(Files[s]) IN
    /\ build' = [build EXCEPT ![b] = IF last THEN j.next ELSE [j EXCEPT !.i = @ + 1]]
    /\ ready' = IF last THEN [ready EXCEPT ![s] = j.quiet] ELSE ready
    /\ UNCHANGED <<suite, image, state, evidence, enabled, wrote>>

\* inspect: the file is there, with the mode of the stage.
Inspect(s, f) == image[f] # Absent /\ image[f].mode = Mode(s, f)

\* The file is the one that the record is of.
Recorded(s, i) == state[s] # Absent /\ image[Files[s][i]].content = state[s][i]

VerifyFile(b, s, bound) ==
  LET i == build[b].i  f == Files[s][i] IN
    /\ At(b, "verify", s) /\ Inspect(s, f) /\ Valid(s, f, image[f].content)
    /\ bound => Recorded(s, i)
    /\ Passed(b, s)

-------------------------------------------------------------------------------
\* system-image-provisioning.mjs
StageFoundation(b) == Begin(b, "foundation", Job("foundation", "write"))
FoundationFile(b)  == WriteFile(b, "foundation")
FoundationState(b) ==
  /\ WriteState(b, "foundation")
  /\ UNCHANGED <<suite, image, evidence, enabled>>
VerifyFoundation(b) == Begin(b, "foundation", Job("foundation", "verify"))
FoundationCheck(b)  == VerifyFile(b, "foundation", TRUE)

\* system-peer-authorization-provisioning.mjs, which is part of the package runtime.
PeerFile(b)  == WriteFile(b, "peer")
PeerState(b) == WriteState(b, "peer") /\ UNCHANGED <<suite, image, evidence, enabled>>
PeerCheck(b) == VerifyFile(b, "peer", TRUE)

\* system-package-ui-runtime-provisioning.mjs: the peer authorization is staged first,
\* and verified last.
StageRuntime(b) ==
  Begin(b, "runtime", [Job("peer", "write") EXCEPT !.next = Job("runtime", "write")])
RuntimeFile(b)  == WriteFile(b, "runtime")
RuntimeState(b) ==
  /\ WriteState(b, "runtime")
  /\ UNCHANGED <<suite, image, evidence, enabled>>
VerifyRuntime(b) == Begin(b, "runtime", Job("runtime", "verify"))
RuntimeCheck(b) ==
  /\ VerifyFile(b, "runtime", TRUE)
  /\ \A i \in DOMAIN Files["peer"] : Inspect("peer", Files["peer"][i]) /\ Recorded("peer", i)

\* recovery-mode-provisioning.mjs keeps no record.
StageRecovery(b)    == Begin(b, "recovery", Job("recovery", "write"))
RecoveryFile(b)     == WriteFile(b, "recovery")
RecoveryStaged(b) ==
  LET j == build[b] IN
    /\ At(b, "record", "recovery") /\ Wrote("recovery", j.got)
    /\ Disturb(b, Verifies(j))
    /\ UNCHANGED <<suite, image, state, evidence, enabled>>
VerifyRecovery(b)   == Begin(b, "recovery", Job("recovery", "verify"))
RecoveryCheck(b)    == VerifyFile(b, "recovery", FALSE)

\* stage-vendor-repository-trust.mjs: the source must not be enabled, and the evidence
\* is collected anew.
StageVendor(b) == ~enabled /\ Begin(b, "vendor", Job("vendor", "write"))
VendorFile(b)  == WriteFile(b, "vendor")
VendorState(b) ==
  /\ WriteState(b, "vendor") /\ evidence' = "fresh"
  /\ UNCHANGED <<suite, image, enabled>>
VerifyVendor(b) == Begin(b, "vendor", Job("vendor", "verify"))
VendorCheck(b)  == ~enabled /\ evidence = "fresh" /\ VerifyFile(b, "vendor", TRUE)

-------------------------------------------------------------------------------
\* A check fails, a file cannot be written, or the builder is killed.
Fail(b) ==
  /\ build[b] # Idle
  /\ build' = [build EXCEPT ![b] = Idle]
  /\ UNCHANGED <<suite, image, state, evidence, enabled, wrote, ready>>

\* Time passes, and the vendor's source is enabled.
Expire ==
  /\ "vendor" \in suite /\ evidence = "fresh" /\ evidence' = "expired"
  /\ ready' = [ready EXCEPT !["vendor"] = FALSE]
  /\ build' = [b \in Builder |-> IF build[b] = Idle THEN Idle ELSE [build[b] EXCEPT !.quiet = FALSE]]
  /\ UNCHANGED <<suite, image, state, enabled, wrote>>

Enable ==
  /\ "vendor" \in suite /\ ~enabled /\ enabled' = TRUE
  /\ ready' = [ready EXCEPT !["vendor"] = FALSE]
  /\ build' = [b \in Builder |-> IF build[b] = Idle THEN Idle ELSE [build[b] EXCEPT !.quiet = FALSE]]
  /\ UNCHANGED <<suite, image, state, evidence, wrote>>

Init ==
  /\ suite \in Suites
  /\ image = [f \in File |-> Absent] /\ state = [s \in Stage |-> Absent]
  /\ evidence = "none" /\ enabled = FALSE
  /\ build = [b \in Builder |-> Idle]
  /\ wrote = [s \in Stage |-> Absent] /\ ready = [s \in Stage |-> FALSE]

Next ==
  \/ \E b \in Builder :
       \/ StageFoundation(b) \/ FoundationFile(b) \/ FoundationState(b)
       \/ VerifyFoundation(b) \/ FoundationCheck(b)
       \/ PeerFile(b) \/ PeerState(b) \/ PeerCheck(b)
       \/ StageRuntime(b) \/ RuntimeFile(b) \/ RuntimeState(b)
       \/ VerifyRuntime(b) \/ RuntimeCheck(b)
       \/ StageRecovery(b) \/ RecoveryFile(b) \/ RecoveryStaged(b)
       \/ VerifyRecovery(b) \/ RecoveryCheck(b)
       \/ StageVendor(b) \/ VendorFile(b) \/ VendorState(b)
       \/ VerifyVendor(b) \/ VendorCheck(b)
       \/ Fail(b)
  \/ Expire \/ Enable

Spec == Init /\ [][Next]_iVars

-------------------------------------------------------------------------------
Holds(s) == \A i \in DOMAIN Files[s] : LET f == Files[s][i] IN
              wrote[s] # Absent /\ image[f] = [content |-> wrote[s][i], mode |-> Mode(s, f)]

\* "staging verification failed", "STATE_POLICY_DIGEST_MISMATCH": a stage that was
\* verified as ready is in the image as one staging wrote it as a whole, never a mixture
\* of stagings of which one was killed or ran beside, and the package runtime has its
\* peer authorization.  (The recovery mode keeps no record and is not bound by this.)
ReadyIsOneStaging ==
  \A s \in Stage \ {"recovery"} : ready[s] =>
    Holds(s) /\ (s = "runtime" => Holds("peer"))

-------------------------------------------------------------------------------
(* What every step keeps, and ReadyIsOneStaging rests on.                    *)

\* After the peer authorization, the package runtime.
Nexts == {Idle, Job("runtime", "write")}
Jobs  == [at : {"write", "record", "verify"}, stage : Stage, i : Nat \ {0},
          got : Seq(Content), quiet : BOOLEAN, next : Nexts]

ImageType ==
  /\ suite \in Suites
  /\ image \in [File -> {Absent} \cup [content : Content, mode : {"0600", "0644"}]]
  /\ state \in [Stage -> {Absent} \cup Seq(Content)]
  /\ wrote \in [Stage -> {Absent} \cup Seq(Content)]
  /\ build \in [Builder -> {Idle} \cup Jobs]
  /\ ready \in [Stage -> BOOLEAN]

\* The record of a stage is of what its last complete staging wrote.
RecordsAreOfStagings == \A s \in Stage \ {"recovery"} : state[s] = wrote[s]

\* The file is there as the record says.
Stands(s, i) == Inspect(s, Files[s][i]) /\ Recorded(s, i)

\* A builder whose verification nobody has disturbed has seen the files that it is past
\* as they still are.
VerifiedSoFar(b) ==
  build[b] # Idle /\ build[b].at = "verify" /\ build[b].quiet
    /\ build[b].stage # "recovery" =>
      \A k \in DOMAIN Files[build[b].stage] : k < build[b].i => Stands(build[b].stage, k)

\* A builder that writes or verifies is at a file of its stage.
InStage(j) == j # Idle /\ j.at # "record" => j.i \in DOMAIN Files[j.stage]

ImageInv ==
  /\ ImageType /\ RecordsAreOfStagings /\ ReadyIsOneStaging
  /\ \A b \in Builder : InStage(build[b]) /\ VerifiedSoFar(b)
===============================================================================
