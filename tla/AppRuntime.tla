------------------------------ MODULE AppRuntime ------------------------------
(***************************************************************************)
(* Launching what a package has installed: the runtime coordinator, which  *)
(* asks the provider registry, the launch broker, which checks the record  *)
(* of the verification against the manifest, and the application runtime,  *)
(* which routes to the native supervisor or to the one for Windows         *)
(* programs.  The runtime remembers the owner of an application, and each  *)
(* supervisor its processes.  Manifests are updated and executables come   *)
(* and go meanwhile; the runtime itself may be restarted.                  *)
(***************************************************************************)
EXTENDS Naturals

CONSTANTS
  App,         \* application ids
  LowerCase    \* the id in lower case, which names the prefix

LowerCaseAssumption == LowerCase \in [App -> App]

VARIABLES
  manifest,    \* execution class and release of the installed package
  verified,    \* the manifest that its verification was issued for
  present,     \* is the entry point an executable file?
  capable,     \* the execution classes that the host has a provider for
  owners,      \* #owners of the runtime
  records,     \* #processes of each supervisor: "none", "running", "exited"
  live,        \* the processes, by application and class
  restarted    \* history: has the runtime been restarted?

installed == <<manifest, verified, present, capable>>
tracked   == <<owners, records, live>>
rVars     == <<installed, tracked, restarted>>

Class   == {"linux-native", "windows-compat"}
Release == 1..2
MaxLive == 2

\* The provider of the manifest has the capability it needs on this host.
Ready(m) == m.class \in capable

\* verifyPackageLaunchAuthorization: identity, provider, class, source, transaction
\* and the digest of the whole manifest.
Authorized(a) == verified[a] = manifest[a]

\* The request of a native package, and validateLaunchRequest: its entry point
\* resolves to an executable file under an approved root.
NativeRequest(a) == manifest[a].class = "linux-native"
EntryPointRuns(a) == present[a]

\* The plan of a Windows program, whose path nobody looks at; its runtime, chosen by
\* name, has to be an executable file.
CompatPlan(a) == manifest[a].class = "windows-compat"
RuntimeResolves == "windows-compat" \in capable
RuntimeRuns == RuntimeResolves

\* The prefix that a Windows program runs in.
PrefixName(a) == LowerCase[a]

\* A process that cannot be executed after all is recorded as running too, and only
\* an error event tells.
Spawned(a, class) ==
  /\ live[class][a] < MaxLive
  /\ records' = [records EXCEPT ![class][a] = "running"]
  /\ live' = [live EXCEPT ![class][a] = @ + 1] \/ UNCHANGED live

\* launch() of the two supervisors: the application is not on record.
NativeLaunch(a) ==
  /\ NativeRequest(a) /\ EntryPointRuns(a)
  /\ records["linux-native"][a] = "none" /\ Spawned(a, "linux-native")

WindowsLaunch(a) ==
  /\ CompatPlan(a) /\ RuntimeRuns
  /\ records["windows-compat"][a] = "none" /\ Spawned(a, "windows-compat")

\* launch() of the runtime, which does not know the application either.
Routed(a) ==
  /\ owners[a] = "none"
  /\ NativeLaunch(a) \/ WindowsLaunch(a)
  /\ owners' = [owners EXCEPT ![a] = manifest[a].class]

\* launch() of the coordinator, all in one turn.
Launch(a) ==
  /\ Ready(manifest[a]) /\ Authorized(a) /\ Routed(a)
  /\ UNCHANGED <<installed, restarted>>

\* A process exits, by itself or by the signal of stop(); the supervisor marks the
\* record if the process is its own.
Exit(a, class) ==
  /\ live[class][a] > 0
  /\ live' = [live EXCEPT ![class][a] = @ - 1]
  /\ \/ /\ records[class][a] = "running"
        /\ records' = [records EXCEPT ![class][a] = "exited"]
     \/ restarted /\ UNCHANGED records
  /\ UNCHANGED <<installed, owners, restarted>>

\* stop() finds the supervisor by the owner, and a running process there.
Stoppable(a) == owners[a] # "none" /\ records[owners[a]][a] = "running"

\* forget() of the runtime, by way of the supervisor, which keeps what is running.
Forget(a) ==
  /\ owners[a] # "none" /\ records[owners[a]][a] = "exited"
  /\ records' = [records EXCEPT ![owners[a]][a] = "none"]
  /\ owners' = [owners EXCEPT ![a] = "none"]
  /\ UNCHANGED <<installed, live, restarted>>

\* The package is updated, perhaps to the other class, and verified later.
Update(a, m) ==
  /\ manifest' = [manifest EXCEPT ![a] = m]
  /\ UNCHANGED <<verified, present, capable, tracked, restarted>>

VerifyPackage(a) ==
  /\ verified' = [verified EXCEPT ![a] = manifest[a]]
  /\ UNCHANGED <<manifest, present, capable, tracked, restarted>>

HostChanges ==
  /\ present' \in [App -> BOOLEAN] /\ capable' \in {Class, Class \ {"windows-compat"}}
  /\ UNCHANGED <<manifest, verified, tracked, restarted>>

\* The processes are not its children any more, but go on.
Restart ==
  /\ ~restarted /\ restarted' = TRUE
  /\ owners' = [a \in App |-> "none"]
  /\ records' = [class \in Class |-> [a \in App |-> "none"]]
  /\ UNCHANGED <<installed, live>>

Init ==
  /\ manifest \in [App -> [class : Class, release : {1}]]
  /\ verified = manifest
  /\ present = [a \in App |-> TRUE] /\ capable = Class
  /\ owners = [a \in App |-> "none"]
  /\ records = [class \in Class |-> [a \in App |-> "none"]]
  /\ live = [class \in Class |-> [a \in App |-> 0]]
  /\ restarted = FALSE

Next ==
  \/ \E a \in App :
       \/ Launch(a) \/ Forget(a) \/ VerifyPackage(a)
       \/ \E class \in Class : Exit(a, class)
       \/ \E m \in [class : Class, release : Release] : Update(a, m)
  \/ HostChanges \/ Restart

Spec == Init /\ [][Next]_rVars

-------------------------------------------------------------------------------
\* "oneProcessPerAppId": an application has one process at most, over updates that
\* change its class, and the runtime can stop it, for the runtime and the
\* supervisor agree on who owns it; only a restart loses sight of processes.
EveryProcessIsOwned ==
  restarted \/
    \A a \in App, class \in Class :
      /\ live[class][a] <= 1
      /\ records[class][a] # "none" <=> owners[a] = class
      /\ live[class][a] > 0 => Stoppable(a) /\ owners[a] = class

\* With its types it is inductive.
RuntimeType ==
  /\ manifest \in [App -> [class : Class, release : Release]]
  /\ owners \in [App -> Class \cup {"none"}]
  /\ records \in [Class -> [App -> {"none", "running", "exited"}]]
  /\ live \in [Class -> [App -> Nat]]
  /\ restarted \in BOOLEAN

IInv == RuntimeType /\ EveryProcessIsOwned

\* "perAppPrefixRequired": two applications never run in one prefix.  It does not hold of
\* identifiers that differ in case only, whose prefixes have one name, and no run checks it.
PrefixPerApp ==
  \A a, b \in App :
    /\ a # b /\ live["windows-compat"][a] > 0 /\ live["windows-compat"][b] > 0
    => PrefixName(a) # PrefixName(b)
================================================================================
