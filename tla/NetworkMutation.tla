---------------------------- MODULE NetworkMutation ----------------------------
(***************************************************************************)
(* Activation and deactivation of saved connections: NetworkManagerService *)
(* and the polkit broker it asks.  Each call goes through a plan, a look   *)
(* at the saved profiles, a grant bound to the plan, nmcli and a look at   *)
(* the active connections.  NetworkManager is external: other programs use *)
(* it too, links go up and down, and it goes on when nmcli is given up.    *)
(***************************************************************************)
CONSTANTS
  Call,      \* calls of activateExistingProfile and deactivateProfile
  Profile,   \* connection profiles, by UUID
  Iface,     \* network interfaces
  None       \* no interface

NoneAssumption == None \notin Iface

VARIABLES
  saved,      \* the profiles NetworkManager has
  active,     \* the interface a profile is active on
  at,         \* where a call is
  plan,       \* its plan: operation, profile and interface
  nmcli,      \* its nmcli: "none", "running", "ok" or "error"
  disturbed   \* history: others changed the network since its nmcli did

network == <<saved, active>>
nVars   == <<network, at, plan, nmcli, disturbed>>

NotPlanned == [operation |-> "none", profile |-> None, ifname |-> None]
Active     == {p \in Profile : active[p] # None}

Goto(c, l)    == at' = [at EXCEPT ![c] = l]
Disturbs(c)   == disturbed' = disturbed \cup {d \in Call \ {c} : nmcli[d] = "ok"}
Disturbed     == disturbed' = disturbed \cup {d \in Call : nmcli[d] = "ok"}

\* planActivation: of a profile, on an interface or wherever it fits.
PlanActivation(p, i) == [operation |-> "activate", profile |-> p, ifname |-> i]

PlanDeactivation(p) == [operation |-> "deactivate", profile |-> p, ifname |-> None]

\* The inventory lists the saved connections; one of them is asked for.
Inventory == saved

Plan(c) ==
  /\ at[c] = "idle"
  /\ \E p \in Inventory :
       \/ \E i \in Iface \cup {None} : plan' = [plan EXCEPT ![c] = PlanActivation(p, i)]
       \/ plan' = [plan EXCEPT ![c] = PlanDeactivation(p)]
  /\ Goto(c, "planned")
  /\ UNCHANGED <<network, nmcli, disturbed>>

\* nmcli is there and trusted, or the call fails.
Probe(c, l, next) == at[c] = l /\ (Goto(c, next) \/ Goto(c, "failed"))

\* The profile must be a saved one.
CheckSaved(c) ==
  /\ Probe(c, "planned", IF plan[c].profile \in saved THEN "authorize" ELSE "failed")
  /\ UNCHANGED <<network, plan, nmcli, disturbed>>

\* pkcheck grants the action of the operation to this process, for what it was
\* asked, or refuses it.
Answers(request) == {[request |-> request, authorized |-> a] : a \in BOOLEAN}

\* The grant must be bound to the plan, and to its interface if it has one.
Bound(grant, c) ==
  /\ grant.authorized
  /\ grant.request.operation = plan[c].operation
  /\ grant.request.profile = plan[c].profile
  /\ plan[c].ifname # None => grant.request.ifname = plan[c].ifname

Authorize(c) ==
  /\ at[c] = "authorize"
  /\ \E grant \in Answers(plan[c]) :
       Goto(c, IF Bound(grant, c) THEN "execute" ELSE "failed")
  /\ UNCHANGED <<network, plan, nmcli, disturbed>>

\* What nmcli is told: connection up or down, by UUID, with the interface if any.
Command(c) == plan[c]

Execute(c) ==
  /\ Probe(c, "execute", "wait")
  /\ nmcli' = IF at'[c] = "wait" THEN [nmcli EXCEPT ![c] = "running"] ELSE nmcli
  /\ UNCHANGED <<network, plan, disturbed>>

\* NetworkManager: what was active on the interface gives way.
Up(p, i) ==
  active' = [q \in Profile |-> IF q = p THEN i ELSE IF active[q] = i THEN None ELSE active[q]]
Down(p) == active' = [active EXCEPT ![p] = None]

\* nmcli --wait 45 runs the command, or it fails.
Nmcli(c) ==
  /\ nmcli[c] = "running"
  /\ \/ /\ Command(c).profile \in saved
        /\ \/ /\ Command(c).operation = "activate"
              /\ \E i \in Iface : /\ Command(c).ifname \in {None, i}
                                  /\ Up(Command(c).profile, i)
           \/ Command(c).operation = "deactivate" /\ Down(Command(c).profile)
        /\ nmcli' = [nmcli EXCEPT ![c] = "ok"] /\ Disturbs(c)
     \/ nmcli' = [nmcli EXCEPT ![c] = "error"] /\ UNCHANGED <<active, disturbed>>
  /\ UNCHANGED <<saved, at, plan>>

\* It answers, or is given up after 50 s while NetworkManager goes on.
Executed(c) ==
  /\ at[c] = "wait"
  /\ IF nmcli[c] = "ok" THEN Goto(c, "verify") ELSE Goto(c, "failed")
  /\ UNCHANGED <<network, plan, nmcli, disturbed>>

\* The postcondition looks at the profile, not at its interface.
Postcondition(c) ==
  IF plan[c].operation = "activate" THEN plan[c].profile \in Active
  ELSE plan[c].profile \notin Active

Verify(c) ==
  /\ Probe(c, "verify", IF Postcondition(c) THEN "verified" ELSE "failed")
  /\ UNCHANGED <<network, plan, nmcli, disturbed>>

\* Other programs and the links (external).
NetworkChanges ==
  /\ \E p \in saved : Down(p) \/ \E i \in Iface : Up(p, i)
  /\ active' # active
  /\ Disturbed
  /\ UNCHANGED <<saved, at, plan, nmcli>>

ProfileDeleted(p) ==
  /\ p \in saved /\ saved' = saved \ {p}
  /\ Down(p) /\ Disturbed
  /\ UNCHANGED <<at, plan, nmcli>>

Init ==
  /\ saved = Profile /\ active = [p \in Profile |-> None]
  /\ at = [c \in Call |-> "idle"]
  /\ plan = [c \in Call |-> NotPlanned]
  /\ nmcli = [c \in Call |-> "none"]
  /\ disturbed = {}

Next ==
  \/ \E c \in Call :
       \/ Plan(c) \/ CheckSaved(c) \/ Authorize(c) \/ Execute(c)
       \/ Nmcli(c) \/ Executed(c) \/ Verify(c)
  \/ NetworkChanges \/ \E p \in Profile : ProfileDeleted(p)

Spec == Init /\ [][Next]_nVars

-------------------------------------------------------------------------------
NetworkType ==
  /\ saved \subseteq Profile /\ active \in [Profile -> Iface \cup {None}]
  /\ at \in [Call -> {"idle", "planned", "authorize", "execute", "wait", "verify",
                      "verified", "failed"}]
  /\ plan \in [Call -> [operation : {"none", "activate", "deactivate"},
                        profile : Profile \cup {None}, ifname : Iface \cup {None}]]
  /\ nmcli \in [Call -> {"none", "running", "ok", "error"}]
  /\ disturbed \subseteq Call

\* The network is as the plan of a call wants it.
AsPlanned(c) ==
  IF plan[c].operation = "deactivate" THEN active[plan[c].profile] = None
  ELSE /\ active[plan[c].profile] # None
       /\ plan[c].ifname \in {None, active[plan[c].profile]}

\* nmcli runs once for a call, after its plan is made, and what it has done stays.
RunsOnce ==
  \A c \in Call :
    /\ at[c] \in {"idle", "planned", "authorize", "execute"} => nmcli[c] = "none"
    /\ at[c] \in {"verify", "verified"} => nmcli[c] = "ok"
    /\ nmcli[c] = "ok" /\ c \notin disturbed => AsPlanned(c)

IInv == NetworkType /\ RunsOnce

-------------------------------------------------------------------------------
\* "postconditionVerification": a call that says verified has connected its profile
\* on the interface it was granted for, or disconnected it, and it stays so until
\* somebody else changes the network.
VerifiedIsSo ==
  \A c \in Call : at[c] = "verified" /\ c \notin disturbed =>
    IF plan[c].operation = "deactivate" THEN active[plan[c].profile] = None
    ELSE /\ active[plan[c].profile] # None
         /\ plan[c].ifname \in {None, active[plan[c].profile]}
================================================================================
