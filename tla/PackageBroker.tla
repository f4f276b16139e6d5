----------------------------- MODULE PackageBroker -----------------------------
(***************************************************************************)
(* The package transaction broker and the grants it asks for.  A client    *)
(* sends one line per connection; the broker plans what it asks, the grant *)
(* verifier consumes the grant that the peer authorization broker has      *)
(* issued (external, a Python service), and the stack runs the             *)
(* transaction.  Answers, grants, the clock and the package metadata move  *)
(* independently, and the broker may be restarted.                         *)
(***************************************************************************)
EXTENDS Naturals, FiniteSets

CONSTANTS
  Conn,      \* connections
  Grant,     \* grants, each with a fresh grantId
  MaxTime,   \* bound of the clock
  MaxTtl,    \* the longest lifetime of a grant the verifier accepts
  Skew       \* clockSkewMs

TimesAssumption == MaxTime \in Nat /\ MaxTtl \in Nat \ {0} /\ Skew \in Nat

VARIABLES
  now,       \* Date.now()
  meta,      \* the package metadata, on which the digest of a plan depends
  grant,     \* what has been issued: lifetime and the digest it is bound to
  used,      \* #used of the verifier
  request,   \* what a connection asks
  events,    \* data events of a connection since its line was complete
  call,      \* broker.handle() for each of these events
  answer,    \* what was written back, or "none"
  runs,      \* history: transactions executed for a grant
  relaxed    \* history: has the clock gone back or the broker been restarted?

client == <<request, events, call, answer>>
world  == <<now, meta>>
vars   == <<world, grant, used, client, runs, relaxed>>

Event   == 1..2
Preview == "preview"
NotYet  == [issued |-> 0, expires |-> 0, digest |-> 0]
Idle    == [at |-> "none", digest |-> 0]

Respond(c, a) == answer' = [answer EXCEPT ![c] = IF @ = "none" THEN a ELSE @]
At(c, i, l)   == call[c][i].at = l
Proceed(c, i, r) == call' = [call EXCEPT ![c][i] = r]

\* The peer authorization broker issues a grant for the plan it was shown.
Issue(g, ttl) ==
  /\ grant[g] = NotYet /\ now + ttl <= MaxTime
  /\ grant' = [grant EXCEPT ![g] =
                 [issued |-> now, expires |-> now + ttl, digest |-> meta]]
  /\ UNCHANGED <<world, used, client, runs, relaxed>>

\* A complete, valid line: what it asks is handled at once.
Line(c, r) ==
  /\ events[c] = 0 /\ answer[c] = "none"
  /\ events' = [events EXCEPT ![c] = 1]
  /\ request' = [request EXCEPT ![c] = r]
  /\ Proceed(c, 1, [at |-> "plan", digest |-> 0])
  /\ UNCHANGED <<world, grant, used, answer, runs, relaxed>>

\* An oversized line, a line that is not JSON or not a request.
BadLine(c) ==
  /\ events[c] = 0 /\ answer[c] = "none"
  /\ Respond(c, "refused")
  /\ UNCHANGED <<world, grant, used, request, events, call, runs, relaxed>>

\* More data before the answer: blank data has the line parsed and handled
\* again, other data is refused while the first call goes on.
MoreData(c) ==
  /\ events[c] = 1 /\ answer[c] = "none"
  /\ \/ /\ events' = [events EXCEPT ![c] = 2]
        /\ Proceed(c, 2, [at |-> "plan", digest |-> 0])
        /\ UNCHANGED answer
     \/ Respond(c, "refused") /\ UNCHANGED <<events, call>>
  /\ UNCHANGED <<world, grant, used, request, runs, relaxed>>

\* planWithDependencies: a preview is answered, a commit goes on, and either may
\* fail in the simulation of its dependencies.
Plan(c, i) ==
  /\ At(c, i, "plan")
  /\ \/ /\ request[c] = Preview
        /\ Respond(c, "preview") /\ Proceed(c, i, Idle)
     \/ /\ request[c] # Preview
        /\ Proceed(c, i, [at |-> "authorize", digest |-> meta]) /\ UNCHANGED answer
     \/ Respond(c, "refused") /\ Proceed(c, i, Idle)
  /\ UNCHANGED <<world, grant, used, request, events, runs, relaxed>>

\* The MAC under the key of root: only what the issuer wrote verifies.
Genuine(g) == grant[g] # NotYet

\* assertPayloadMatchesRequest: scope, operation, package and plan, all of which
\* the digest stands for.
MatchesRequest(g, digest) == grant[g].digest = digest

InTime(g) ==
  /\ grant[g].expires - grant[g].issued <= MaxTtl
  /\ grant[g].issued <= now + Skew
  /\ grant[g].expires + Skew >= now

\* Mutant: a grant is forgotten when it expires, without the skew.
RememberedTooShortly == {g \in used : grant[g].expires >= now}

\* What the verifier still remembers once expired grants are forgotten.
Remembered == {g \in used : grant[g].expires + Skew >= now}

\* PeerAuthorizationGrantVerifier.verify, in one turn of the event loop: bound
\* to the plan, in time, and consumed once.
Verifies(c, i, g) ==
  /\ Genuine(g) /\ InTime(g) /\ MatchesRequest(g, call[c][i].digest)
  /\ g \notin Remembered

Authorize(c, i) ==
  /\ At(c, i, "authorize")
  /\ LET g == request[c] IN
       \/ /\ Verifies(c, i, g)
          /\ used' = Remembered \cup {g}
          /\ runs' = [runs EXCEPT ![g] = IF @ < 2 THEN @ + 1 ELSE @]
          /\ Proceed(c, i, [call[c][i] EXCEPT !.at = "run"])
          /\ UNCHANGED answer
       \/ /\ ~Verifies(c, i, g)
          /\ Respond(c, "refused") /\ Proceed(c, i, Idle)
          /\ UNCHANGED <<used, runs>>
  /\ UNCHANGED <<world, grant, request, events, relaxed>>

\* The transaction commits or throws.
Finish(c, i) ==
  /\ At(c, i, "run")
  /\ Respond(c, "committed") \/ Respond(c, "failed")
  /\ Proceed(c, i, Idle)
  /\ UNCHANGED <<world, grant, used, request, events, runs, relaxed>>

\* The connection has been idle for 45 s; what it asked goes on.
TimeOut(c) ==
  /\ answer[c] = "none"
  /\ Respond(c, "timeout")
  /\ UNCHANGED <<world, grant, used, request, events, call, runs, relaxed>>

Tick ==
  /\ now < MaxTime /\ now' = now + 1
  /\ UNCHANGED <<meta, grant, used, client, runs, relaxed>>

\* The package metadata changes, and with it the digest of every plan.
MetadataChanges ==
  /\ meta = 0 /\ meta' = 1
  /\ UNCHANGED <<now, grant, used, client, runs, relaxed>>

ClockGoesBack ==
  /\ now > 0 /\ ~relaxed
  /\ now' = 0 /\ relaxed' = TRUE
  /\ UNCHANGED <<meta, grant, used, client, runs>>

\* What the verifier remembers is in memory only.
Restart ==
  /\ ~relaxed /\ relaxed' = TRUE
  /\ used' = {}
  /\ call' = [c \in Conn |-> [i \in Event |-> Idle]]
  /\ answer' = [c \in Conn |-> IF answer[c] = "none" THEN "closed" ELSE answer[c]]
  /\ UNCHANGED <<world, grant, request, events, runs>>

Init ==
  /\ now = 0 /\ meta = 0
  /\ grant = [g \in Grant |-> NotYet]
  /\ used = {}
  /\ request = [c \in Conn |-> Preview]
  /\ events = [c \in Conn |-> 0]
  /\ call = [c \in Conn |-> [i \in Event |-> Idle]]
  /\ answer = [c \in Conn |-> "none"]
  /\ runs = [g \in Grant |-> 0]
  /\ relaxed = FALSE

Next ==
  \/ \E g \in Grant, ttl \in 1..MaxTtl : Issue(g, ttl)
  \/ \E c \in Conn :
       \/ BadLine(c) \/ MoreData(c) \/ TimeOut(c)
       \/ \E r \in Grant \cup {Preview} : Line(c, r)
       \/ \E i \in Event : Plan(c, i) \/ Authorize(c, i) \/ Finish(c, i)
  \/ Tick \/ MetadataChanges \/ ClockGoesBack \/ Restart

Spec == Init /\ [][Next]_vars

-------------------------------------------------------------------------------
\* "oneTimeConsumption": a grant pays for one transaction, however often its line
\* is sent or parsed again and at whatever moment of its life; only a restart of
\* the broker or a clock that goes back gives it a second one.
OneTransactionPerGrant == \A g \in Grant : runs[g] <= 1 \/ relaxed

\* Why: a grant that has paid is remembered until it is too old to verify.
GrantType ==
  /\ now \in Nat /\ relaxed \in BOOLEAN
  /\ grant \in [Grant -> [issued : Nat, expires : Nat, digest : 0 .. 1]]
  /\ runs \in [Grant -> 0 .. 2]
  /\ meta \in 0 .. 1

SpentOnce ==
  \A g \in Grant :
    /\ runs[g] > 0 => grant[g] # NotYet
    /\ ~relaxed => /\ runs[g] <= 1
                   /\ runs[g] = 1 => g \in used \/ grant[g].expires + Skew < now

IInv == GrantType /\ SpentOnce
================================================================================
