------------------------ MODULE FirmwareQualification ------------------------
(***************************************************************************)
(* Qualifying a firmware update on a physical machine: a session that the  *)
(* commands preflight, apply, verify and finalize take from state to       *)
(* state, each of them a process of its own that reads the session, waits  *)
(* for the firmware service or the operator and writes the session back,   *)
(* and the bundle of evidence that is exported in the end.  The machine    *)
(* reboots, the disk may move to another machine, commands overlap, die or *)
(* fail half way, and others change the firmware too.                      *)
(***************************************************************************)
EXTENDS FiniteSets, Naturals

CONSTANTS
  Session, Call, Machine,
  Virtual,         \* the machines that look like virtual ones
  RequiresReboot,  \* does the device run the new firmware after a reboot only?
  MaxBoot

FirmwareQualificationAssumption ==
  Virtual \subseteq Machine /\ RequiresReboot \in BOOLEAN /\ MaxBoot \in Nat

VARIABLES
  host,      \* the machine that the disk is in, and the number of this boot
  flashed,   \* the boot in which the firmware was written, 0 if it is not the target
  session,   \* the journal of sessions
  call,      \* the commands that are running, with what they have read
  file,      \* the evidence file of each session: "none", "blank" or "bundle"
  applied    \* history: the host on which the update of a session was applied

qVars == <<host, flashed, session, call, file, applied>>

Host  == [machine : Machine, boot : Nat \ {0}]
State == {"none", "prepared", "applied-verification-required", "apply-failed-needs-review",
          "verification-pending", "ready-for-finalize", "qualified"}
Idle  == [command |-> "none"]

-------------------------------------------------------------------------------
\* capture() and assertHostEvidence: the machine, the boot and the hint that the
\* names of the product and the vendor give.
Evidence == host
Hint(h) == h.machine \in Virtual

\* evaluatePhysicalQualificationEvidence.  That the plan and the transaction are
\* those of the session follows from the verification being of its transaction.
Eligible(s, after, verified) ==
  /\ verified
  /\ s.before.machine = after.machine
  /\ RequiresReboot => s.before.boot # after.boot
  /\ ~Hint(s.before) /\ ~Hint(after)

\* Only one trusted candidate for the device will do, and it is newer.
Candidate == flashed = 0

\* What the verification says: the target runs, though a device that is to be
\* rebooted may report it before that.
Verdicts ==
  IF flashed = 0 THEN {FALSE}
  ELSE IF RequiresReboot /\ flashed = host.boot THEN {TRUE, FALSE} ELSE {TRUE}

Read(c, command, q, state) ==
  /\ call[c] = Idle /\ session[q].state \in state
  /\ call' = [call EXCEPT ![c] = [command |-> command, q |-> q, seen |-> session[q]]]

Runs(c, command) == call[c].command = command
Ends(c) == call' = [call EXCEPT ![c] = Idle]

\* The journal replaces the file of the session as a whole, by what the command has
\* made of the session that it read.
Write(c, s) == session' = [session EXCEPT ![call[c].q] = s]

\* preflight, prepare.
Prepare(q) ==
  /\ Candidate /\ session[q].state = "none"
  /\ session' = [session EXCEPT ![q] =
       [@ EXCEPT !.state = "prepared", !.before = Evidence, !.after = Evidence]]
  /\ UNCHANGED <<host, flashed, call, file, applied>>

\* Mutant: the boot of the preflight does not matter.
ApplyLater(c, q) ==
  /\ Read(c, "apply", q, {"prepared"})
  /\ session[q].before.machine = Evidence.machine
  /\ ~Hint(session[q].before) /\ ~Hint(Evidence)
  /\ UNCHANGED <<host, flashed, session, file, applied>>

\* apply: attested and confirmed by the operator, on the machine and in the boot of
\* the preflight.
Apply(c, q) ==
  /\ Read(c, "apply", q, {"prepared"})
  /\ session[q].before = Evidence
  /\ ~Hint(session[q].before) /\ ~Hint(Evidence)
  /\ UNCHANGED <<host, flashed, session, file, applied>>

\* The transaction updates the firmware if the candidate is still there.
Flash(c) ==
  /\ Runs(c, "apply") /\ Candidate
  /\ flashed' = host.boot
  /\ applied' = [applied EXCEPT ![call[c].q] = host]
  /\ call' = [call EXCEPT ![c].command = "applied"]
  /\ UNCHANGED <<host, session, file>>

Applied(c) ==
  /\ Runs(c, "applied") /\ Ends(c)
  /\ Write(c, [call[c].seen EXCEPT !.state = "applied-verification-required"])
  /\ UNCHANGED <<host, flashed, file, applied>>

\* The update fails, before or after the firmware was written, or the session could
\* not be written.
ApplyFailed(c) ==
  /\ call[c].command \in {"apply", "applied"} /\ Ends(c)
  /\ Write(c, [call[c].seen EXCEPT !.state = "apply-failed-needs-review"])
  /\ UNCHANGED <<host, flashed, file, applied>>

\* verify: only on the machine of the preflight.
Verify(c, q) ==
  /\ Read(c, "verify", q,
          {"applied-verification-required", "verification-pending", "ready-for-finalize"})
  /\ session[q].before.machine = Evidence.machine
  /\ UNCHANGED <<host, flashed, session, file, applied>>

Verified(c, verdict) ==
  LET s == call[c].seen IN
    /\ Runs(c, "verify") /\ verdict \in Verdicts /\ Ends(c)
    /\ Write(c, [s EXCEPT !.after = Evidence,
         !.state = IF Eligible(s, Evidence, verdict)
                   THEN "ready-for-finalize" ELSE "verification-pending"])
    /\ UNCHANGED <<host, flashed, file, applied>>

\* finalize: the operator attests, in the boot of the verification.
Finalize(c, q) ==
  /\ Read(c, "finalize", q, {"ready-for-finalize"})
  /\ UNCHANGED <<host, flashed, session, file, applied>>

Finalized(c) ==
  LET s == call[c].seen IN
    /\ Runs(c, "finalize") /\ Ends(c)
    /\ s.before.machine = Evidence.machine /\ s.after.boot = Evidence.boot
    /\ Eligible(s, Evidence, TRUE)
    /\ Write(c, [s EXCEPT !.state = "qualified", !.after = Evidence])
    /\ UNCHANGED <<host, flashed, file, applied>>

-------------------------------------------------------------------------------
\* createPayload and assertPayload: what of the session goes into the bundle, and
\* what a bundle has to say to be one.
Payload(s) ==
  /\ s.before.machine = s.after.machine /\ ~Hint(s.before) /\ ~Hint(s.after)
  /\ RequiresReboot => s.before.boot # s.after.boot

\* assertQualifiedSession: the session is qualified, and its bindings say so again.
Exportable(s) == s.state = "qualified" /\ Payload(s)

\* The file is created, never overwritten, and then written.
Export(q) ==
  /\ Exportable(session[q]) /\ file[q] = "none"
  /\ file' \in {[file EXCEPT ![q] = "blank"], [file EXCEPT ![q] = "bundle"]}
  /\ UNCHANGED <<host, flashed, session, call, applied>>

\* verifyPhysicalQualificationEvidenceBundle, of a file that anyone reads.
Accepted(q) == file[q] = "bundle"

-------------------------------------------------------------------------------
\* The command is given up: the operator does not confirm, or it dies.
Abandon(c) ==
  /\ call[c] # Idle /\ Ends(c)
  /\ UNCHANGED <<host, flashed, session, file, applied>>

\* A reboot, perhaps with the disk in another machine.
Reboot(m) ==
  /\ host.boot < MaxBoot
  /\ host' = [machine |-> m, boot |-> host.boot + 1]
  /\ flashed' = IF m = host.machine THEN flashed ELSE 0
  /\ call' = [c \in Call |-> Idle]
  /\ UNCHANGED <<session, file, applied>>

\* Somebody else brings the old firmware back, or installs the target.
FirmwareChanges ==
  /\ flashed' \in {0, host.boot}
  /\ UNCHANGED <<host, session, call, file, applied>>

Init ==
  /\ host \in {[machine |-> m, boot |-> 1] : m \in Machine} /\ flashed = 0
  /\ session = [q \in Session |-> [state |-> "none", before |-> host, after |-> host]]
  /\ call = [c \in Call |-> Idle]
  /\ file = [q \in Session |-> "none"]
  /\ applied = [q \in Session |-> [machine |-> host.machine, boot |-> 0]]

Next ==
  \/ \E q \in Session :
       \/ Prepare(q) \/ Export(q)
       \/ \E c \in Call : Apply(c, q) \/ Verify(c, q) \/ Finalize(c, q)
  \/ \E c \in Call :
       \/ Flash(c) \/ Applied(c) \/ ApplyFailed(c) \/ Finalized(c) \/ Abandon(c)
       \/ \E verdict \in BOOLEAN : Verified(c, verdict)
  \/ \E m \in Machine : Reboot(m)
  \/ FirmwareChanges

Spec == Init /\ [][Next]_qVars

-------------------------------------------------------------------------------
\* "requiredRebootMustChangeBootId", "sameHostBindingRequired": what is qualified, or
\* was exported as such, was updated by this session on the machine that was verified,
\* which is no virtual one, and that machine was rebooted since the update if the
\* device needs it.
QualifiedIsProven ==
  \A q \in Session : session[q].state = "qualified" \/ Accepted(q) =>
    /\ applied[q].boot # 0
    /\ applied[q].machine = session[q].before.machine /\ ~Hint(applied[q])
    /\ RequiresReboot => applied[q].boot < session[q].after.boot

-------------------------------------------------------------------------------
(* What every step keeps, and QualifiedIsProven rests on.                    *)

Records  == [state : State, before : Host, after : Host]
Commands == {"apply", "applied", "verify", "finalize"}

QualificationType ==
  /\ host \in Host /\ flashed \in Nat
  /\ session \in [Session -> Records]
  /\ call \in [Call -> {Idle} \cup [command : Commands, q : Session, seen : Records]]
  /\ file \in [Session -> {"none", "blank", "bundle"}]
  /\ applied \in [Session -> [machine : Machine, boot : Nat]]

\* A session saw the machine before and after, and neither in a boot to come.
Dated(s) == s.before.boot <= s.after.boot /\ s.after.boot <= host.boot

\* A session whose update was applied was prepared in that very boot.
AppliedInPlace(q) ==
  applied[q].boot # 0 =>
    session[q].state # "none" /\ applied[q] = session[q].before /\ ~Hint(applied[q])

\* What comes after apply comes after an update.
PastApply(q) ==
  session[q].state \in {"applied-verification-required", "verification-pending",
                        "ready-for-finalize", "qualified"} \/ Accepted(q)
  => applied[q].boot # 0

\* What is qualified, or exported as such, has seen the reboot that was due.
SawReboot(q) ==
  RequiresReboot /\ (session[q].state = "qualified" \/ Accepted(q)) =>
    session[q].before.boot < session[q].after.boot

\* A command has read its session with the preflight it still has; one that applies
\* ends in the boot it began in, the others find an update applied.
CommandHolds(c) ==
  LET q == call[c].q  s == call[c].seen IN
    /\ session[q].state # "none" /\ s.before = session[q].before /\ Dated(s)
    /\ call[c].command \in {"apply", "applied"} => s.before = host /\ ~Hint(host)
    /\ call[c].command # "apply" => applied[q].boot # 0

QualificationInv ==
  /\ QualificationType
  /\ \A q \in Session :
       Dated(session[q]) /\ AppliedInPlace(q) /\ PastApply(q) /\ SawReboot(q)
  /\ \A c \in Call : call[c] # Idle => CommandHolds(c)
===============================================================================
