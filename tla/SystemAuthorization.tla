-------------------------- MODULE SystemAuthorization --------------------------
(***************************************************************************)
(* Who is at the machine, and what that user may do: the lookup of the     *)
(* active local session through loginctl and the brokers that have pkcheck *)
(* authorize a package, firmware or network plan for the process that asks.*)
(* loginctl lists the sessions and shows them one at a time, while users   *)
(* log in and out and switch; either tool may be replaced at any moment.   *)
(***************************************************************************)
EXTENDS Naturals

CONSTANTS
  Session, Process, User, Plan,
  PackageAction, FirmwareAction,   \* what polkit can be asked for
  Root, Gone

AuthorizationAssumption == Root \notin User

VARIABLES
  session,   \* the sessions systemd-logind has
  tool,      \* is loginctl, is pkcheck "trusted", "unsafe" or "absent"?
  uid,       \* the user of a process
  call,      \* where the request of a process is and what it knows
  grant,     \* what a process was granted for its last request
  allowed,   \* history: what polkit allowed to the process last
  present    \* history: who was at the machine during the lookup

aVars == <<session, tool, uid, call, grant, allowed, present>>

Kind    == {"desktop", "other"}   \* the other: on a console, remote, or of a greeter
Login   == [user : User \cup {Root}, kind : Kind, seat : {"seat0", "seat1"}, active : BOOLEAN]
Nothing == [at |-> "nothing"]
Goto(p, l)     == call' = [call EXCEPT ![p].at = l]
Fails(p)       == call' = [call EXCEPT ![p] = Nothing]

\* Mutant: remote sessions are not told apart.
EligibleRemote(s) == s.active /\ s.user # Root

\* The user is at the machine: in an active, local, graphical session of a user
\* that is not root.
Eligible(s) == s.active /\ s.kind = "desktop" /\ s.user # Root

\* normalizeSession: what is kept of the properties that loginctl prints.
NormalizeSession(s) ==
  [user |-> s.user, seat |-> s.seat, eligibleActiveLocalUser |-> Eligible(s)]

\* The history follows the sessions by themselves, not as the lookup sees them.
AtMachine(ss) ==
  {ss[s].user : s \in {i \in Session : /\ ss[i] # Gone /\ ss[i].active
                                      /\ ss[i].kind = "desktop" /\ ss[i].user # Root}}

-------------------------------------------------------------------------------
\* probe and inventory: no lookup without a loginctl that can be trusted.
Probe == tool["loginctl"] = "trusted"

Inventory(p) ==
  /\ call[p].at = "nothing"
  /\ IF Probe
     THEN call' = [call EXCEPT ![p] = [at |-> "list", seen |-> {}, left |-> {}]]
     ELSE UNCHANGED call
  /\ present' = [present EXCEPT ![p] = AtMachine(session)]
  /\ grant' = [grant EXCEPT ![p] = {}]
  /\ UNCHANGED <<session, tool, uid, allowed>>

ListSessions(p) ==
  /\ call[p].at = "list"
  /\ IF Probe
     THEN call' = [call EXCEPT ![p].at = "show",
                               ![p].left = {s \in Session : session[s] # Gone}]
     ELSE Fails(p)
  /\ UNCHANGED <<session, tool, uid, grant, allowed, present>>

\* A session that cannot be shown any more is one that is not eligible.
ShowSession(p, s) ==
  /\ call[p].at = "show" /\ s \in call[p].left
  /\ call' = [call EXCEPT ![p].left = @ \ {s},
       ![p].seen = IF Probe /\ session[s] # Gone
                   THEN @ \cup {NormalizeSession(session[s])} ELSE @]
  /\ UNCHANGED <<session, tool, uid, grant, allowed, present>>

\* compareSessions and selectActiveLocalSession: sessions on the preferred seat come
\* before all others.
SelectActiveLocalSession(sessions) ==
  LET eligible == {s \in sessions : s.eligibleActiveLocalUser} IN
    {s \in eligible : s.seat = "seat0" \/ \A e \in eligible : e.seat # "seat0"}

\* createSessionBoundAuthorizationContext: only for the user that the process runs as.
Context(p, actor) == actor.user = uid[p]

ResolveActiveActor(p) ==
  LET selected == SelectActiveLocalSession(call[p].seen) IN
    /\ call[p].at = "show" /\ call[p].left = {}
    /\ \/ \E actor \in selected :
            IF Context(p, actor)
            THEN call' = [call EXCEPT ![p] = [at |-> "request", actor |-> actor.user,
                                              bound |-> TRUE]]
            ELSE Fails(p)
       \/ selected = {} /\ Fails(p)
    /\ UNCHANGED <<session, tool, uid, grant, allowed, present>>

\* A caller may name an actor without a lookup.
NameActor(p, actor) ==
  /\ call[p].at = "nothing"
  /\ call' = [call EXCEPT ![p] = [at |-> "request", actor |-> actor, bound |-> FALSE]]
  /\ grant' = [grant EXCEPT ![p] = {}]
  /\ UNCHANGED <<session, tool, uid, allowed, present>>

-------------------------------------------------------------------------------
\* validateSystemAuthorizationRequest, validateFirmwareAuthorizationRequest: a request
\* is for a scope or an operation that has an action, and for a plan.
PackageRequest  == [action : PackageAction, plan : Plan]
FirmwareRequest == [action : FirmwareAction, plan : Plan]

\* The subject is the process that asks; an actor that is named must be its user.
Subject(p)         == uid[p]
ActorBinding(p, u) == u = Subject(p)

\* assertTrustedPkcheck
TrustedPkcheck == tool["pkcheck"] = "trusted"

\* authorize: pkcheck is asked about this process, for this plan.
Authorize(p, r) ==
  /\ call[p].at = "request"
  /\ IF TrustedPkcheck /\ ActorBinding(p, call[p].actor)
     THEN call' = [call EXCEPT ![p] = [at |-> "pkcheck", request |-> r, bound |-> @.bound]]
     ELSE Fails(p)
  /\ allowed' = [allowed EXCEPT ![p] = {}]
  /\ UNCHANGED <<session, tool, uid, grant, present>>

\* polkit, and its agent.
Allow(p) ==
  /\ call[p].at = "pkcheck" /\ allowed[p] = {}
  /\ allowed' = [allowed EXCEPT ![p] = {<<Subject(p), call[p].request>>}]
  /\ UNCHANGED <<session, tool, uid, call, grant, present>>

\* The exit code of pkcheck says whether the process is authorized; pkcheck may also
\* be given up or killed, and then there is no answer.
Answer(p) ==
  /\ call[p].at = "pkcheck" /\ allowed[p] # {}
  /\ grant' = [grant EXCEPT ![p] =
       {[actor |-> Subject(p), request |-> call[p].request, bound |-> call[p].bound]}]
  /\ Fails(p)
  /\ UNCHANGED <<session, tool, uid, allowed, present>>

Refused(p) ==
  /\ call[p].at = "pkcheck"
  /\ grant' = [grant EXCEPT ![p] = {}]
  /\ Fails(p)
  /\ UNCHANGED <<session, tool, uid, allowed, present>>

-------------------------------------------------------------------------------
\* systemd-logind: at most one session of a seat is active.
Alone(ss, s) ==
  [i \in Session |-> IF i # s /\ ss[i] # Gone /\ ss[s].active /\ ss[i].seat = ss[s].seat
                     THEN [ss[i] EXCEPT !.active = FALSE] ELSE ss[i]]

Sessions(ss) ==
  /\ session' = ss
  /\ present' = [p \in Process |-> present[p] \cup AtMachine(ss)]
  /\ UNCHANGED <<tool, uid, call, grant, allowed>>

LogIn(s)    == session[s] = Gone /\ \E l \in Login : Sessions(Alone([session EXCEPT ![s] = l], s))
LogOut(s)   == session[s] # Gone /\ Sessions([session EXCEPT ![s] = Gone])
SwitchTo(s) ==
  /\ session[s] # Gone /\ ~session[s].active
  /\ Sessions(Alone([session EXCEPT ![s].active = TRUE], s))

\* An upgrade replaces the tool, or somebody takes it away.
ReplaceTool(t) ==
  /\ \E v \in {"trusted", "unsafe", "absent"} \ {tool[t]} : tool' = [tool EXCEPT ![t] = v]
  /\ UNCHANGED <<session, uid, call, grant, allowed, present>>

Init ==
  /\ session = [s \in Session |-> Gone]
  /\ tool = [loginctl |-> "trusted", pkcheck |-> "trusted"]
  /\ uid \in [Process -> User \cup {Root}]
  /\ call = [p \in Process |-> Nothing]
  /\ grant = [p \in Process |-> {}] /\ allowed = [p \in Process |-> {}]
  /\ present = [p \in Process |-> {}]

Next ==
  \/ \E p \in Process :
       \/ Inventory(p) \/ ListSessions(p) \/ ResolveActiveActor(p)
       \/ Allow(p) \/ Answer(p) \/ Refused(p)
       \/ \E s \in Session : ShowSession(p, s)
       \/ \E u \in User \cup {Root} : NameActor(p, u)
       \/ \E r \in PackageRequest \cup FirmwareRequest : Authorize(p, r)
  \/ \E s \in Session : LogIn(s) \/ LogOut(s) \/ SwitchTo(s)
  \/ \E t \in DOMAIN tool : ReplaceTool(t)

Spec == Init /\ [][Next]_aVars

-------------------------------------------------------------------------------
\* "session-attribution-only", "current-process-with-pid-start-time-uid-binding": a
\* grant is for exactly what polkit allowed to the user of the process; one that is
\* attributed to a session is that of a user who was at the machine while the session
\* was looked up or since.
GrantIsOwners ==
  \A p \in Process : \A g \in grant[p] :
    /\ g.actor = uid[p] /\ allowed[p] = {<<g.actor, g.request>>}
    /\ g.bound => g.actor \in present[p]

-------------------------------------------------------------------------------
(* What every step keeps, and GrantIsOwners rests on.  *)

Request == PackageRequest \cup FirmwareRequest
Shown   == [user : User \cup {Root}, seat : {"seat0", "seat1"},
            eligibleActiveLocalUser : BOOLEAN]
Lookup  == [at : {"list", "show"}, seen : SUBSET Shown, left : SUBSET Session]
Named   == [at : {"request"}, actor : User \cup {Root}, bound : BOOLEAN]
Asked   == [at : {"pkcheck"}, request : Request, bound : BOOLEAN]

AuthorizationType ==
  /\ session \in [Session -> Login \cup {Gone}]
  /\ uid \in [Process -> User \cup {Root}]
  /\ call \in [Process -> {Nothing} \cup Lookup \cup Named \cup Asked]
  /\ grant \in [Process -> SUBSET [actor : User \cup {Root}, request : Request,
                                   bound : BOOLEAN]]
  /\ allowed \in [Process -> SUBSET ((User \cup {Root}) \X Request)]
  /\ present \in [Process -> SUBSET User]

\* What the call of a process knows is true of its user, of polkit and of the machine.
CallIsTrue(p) ==
  /\ AtMachine(session) \subseteq present[p]
  /\ call[p].at # "nothing" => grant[p] = {}
  /\ call[p].at \in {"list", "show"} =>
       \A s \in call[p].seen : s.eligibleActiveLocalUser => s.user \in present[p]
  /\ call[p].at = "request" /\ call[p].bound => call[p].actor \in present[p]
  /\ call[p].at = "pkcheck" =>
       /\ call[p].bound => uid[p] \in present[p]
       /\ allowed[p] \subseteq {<<uid[p], call[p].request>>}

AuthorizationInv == AuthorizationType /\ (\A p \in Process : CallIsTrue(p)) /\ GrantIsOwners
===============================================================================
