---------------------------- MODULE NativeContexts ----------------------------
(***************************************************************************)
(* The application contexts of the native permission broker, which the     *)
(* shell of the Desktop keeps up with the installed packages and their     *)
(* grants (swir-apps.js, swir-runtime.js) from the events of the package   *)
(* and permission stores (swir-platform.js).  A timer that every event     *)
(* starts anew sends them, and a sending does not wait for the one before. *)
(* The database answers reads in the order they were asked, as the broker  *)
(* does calls.                                                             *)
(***************************************************************************)
EXTENDS Naturals, Sequences

CONSTANTS App,         \* packages
          MaxSync,     \* sendings under way
          MaxFaults    \* failing reads and calls

ContextsAssumption == {MaxSync, MaxFaults} \subseteq Nat

VARIABLES installed,   \* packages in the store
          granted,     \* those with a permission granted
          armed,       \* is the timer running?
          syncs,       \* the sendings under way, oldest first
          native,      \* the contexts of the broker
          faults,
          missed       \* history: did one fail since the last event?

cvars == <<installed, granted, armed, syncs, native, faults, missed>>

\* The grants are those of the installed packages; the others are not sent.
Contexts == [p \in installed |-> p \in granted]
Nothing  == [p \in {} |-> FALSE]

ContextsInit ==
  /\ installed \in SUBSET App /\ granted \in SUBSET App
  /\ armed = TRUE /\ syncs = <<>> /\ native = Nothing /\ faults = 0 /\ missed = FALSE

\* As if a sending under way were enough.
ScheduleIdle == armed' = (armed \/ syncs = <<>>)

\* scheduleDesktopPackageContextSync
Schedule == armed' = TRUE

OnChange == Schedule /\ missed' = FALSE /\ UNCHANGED <<syncs, native, faults>>

\* packages.install and packages.remove, and the event they end with; the
\* grants of a package outlive it.
Change(p) ==
  /\ installed' = IF p \in installed THEN installed \ {p} ELSE installed \cup {p}
  /\ OnChange /\ UNCHANGED granted

\* permissions.set
Permit(p) ==
  /\ granted' = IF p \in granted THEN granted \ {p} ELSE granted \cup {p}
  /\ OnChange /\ UNCHANGED installed

\* syncDesktopPackageContexts: packages and grants are asked for.
Fire ==
  /\ armed /\ Len(syncs) < MaxSync
  /\ armed' = FALSE /\ syncs' = Append(syncs, [at |-> "list", contexts |-> Nothing])
  /\ UNCHANGED <<installed, granted, native, faults, missed>>

\* buildInstalledContextSnapshot has both answers; the call is sent.
buildInstalledContextSnapshot(i) ==
  /\ syncs[i].at = "list" /\ \A j \in 1 .. i - 1 : syncs[j].at # "list"
  /\ syncs' = [syncs EXCEPT ![i] = [at |-> "sent", contexts |-> Contexts]]
  /\ UNCHANGED <<installed, granted, armed, native, faults, missed>>

\* The broker replaces its contexts, or a read or the call fails and the
\* contexts stay as they are until the next event.
syncInstalledContexts ==
  /\ syncs # <<>> /\ syncs' = Tail(syncs)
  /\ \/ /\ Head(syncs).at = "sent" /\ native' = Head(syncs).contexts
        /\ UNCHANGED <<faults, missed>>
     \/ /\ faults < MaxFaults /\ faults' = faults + 1 /\ missed' = TRUE
        /\ UNCHANGED native
  /\ UNCHANGED <<installed, granted, armed>>

ContextsNext ==
  \/ \E p \in App : Change(p) \/ Permit(p)
  \/ Fire \/ (\E i \in DOMAIN syncs : buildInstalledContextSnapshot(i))
  \/ syncInstalledContexts

ContextsSpec == ContextsInit /\ [][ContextsNext]_cvars

-----------------------------------------------------------------------------
\* However sendings overlap, once no timer runs and none is under way, and
\* none has failed since the last event, the broker has the contexts of what is
\* installed and granted (swir-apps.js:79-93, swir-runtime.js:150).
ContextsFollow == ~ armed /\ syncs = <<>> /\ ~ missed => native = Contexts

-----------------------------------------------------------------------------
\* With no timer running and no failure since the last event, the last of the sendings
\* carries the contexts, or the broker has them.
ContextsInv ==
  /\ installed \subseteq App
  /\ syncs \in Seq([at : {"list", "sent"}, contexts : UNION {[S -> BOOLEAN] : S \in SUBSET App}])
  /\ ~ armed /\ ~ missed =>
       IF syncs = <<>> THEN native = Contexts
       ELSE syncs[Len(syncs)].at = "sent" => syncs[Len(syncs)].contexts = Contexts
=============================================================================
