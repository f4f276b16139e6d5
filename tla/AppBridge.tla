------------------------------- MODULE AppBridge -------------------------------
(***************************************************************************)
(* A packaged app in its frame, the bridge through which it asks the shell *)
(* for its data and for the file it was opened with (swir-app-bridge.js,   *)
(* swir-app-bridge-host.js), and the association service that opens files  *)
(* with it (swir-associations.js), for the shell and for the desktop host. *)
(* Everything crosses the frame as a message; the host answers each in its *)
(* own time, and the app stops waiting after twelve seconds.               *)
(***************************************************************************)
EXTENDS Integers, FiniteSets

CONSTANTS
  File,      \* files the user opens with the app
  None,
  MaxCalls,  \* bound on the calls of the app
  MaxTick,   \* bound on the milliseconds that matter
  MaxUser    \* bound on openings and closings of the window and changes of permission

VARIABLES
  frame,     \* the app's window: "none", "loading" or "ready"
  now, seq,  \* what the app makes the identifier of a call of
  made,      \* calls so far: the calls are numbered
  pending,   \* the calls the app waits for: their identifier and number
  host,      \* the calls the host works on
  received,  \* for each answer taken: the call it was taken for and the one it answers
  granted,   \* the user has granted the package its permissions
  native, legacy,  \* the app's value in the desktop host and in the web store, or None
  wanted,    \* native activations the shell has been told of
  claimable, \* native activations the desktop host still holds
  opening,   \* files openFile stores
  timers,    \* files whose delivery is 160 ms away
  slot, slot2,  \* the file waiting for the app: in localStorage, in the platform's store
  last,      \* the file opened last
  shown,     \* files the app has been given
  given      \* what the user did, against MaxUser; whether a call was refused or given up

appVars == <<frame, now, seq, made, pending, host, received, granted, native, legacy>>
openVars == <<wanted, claimable, opening, timers, slot, slot2, last, shown>>
bridgeAll == <<appVars, openVars, given>>

Settled == opening = {} /\ timers = {}
User == given.user < MaxUser /\ given' = [given EXCEPT !.user = @ + 1]

--------------------------------------------------------------------------------
(* The app, swir-app-bridge.js.                                              *)

\* What the host has for the identifier of a call whose document is gone: none of the app's.
NoId == <<-1, 0>>

\* The identifier of a call: the time and a counter of the document.
NewId(s) == <<now, s + 1>>

Kinds == {"consume", "get", "set", "remove"}

\* call: it is posted to the shell and waited for.
Call(kind) ==
  /\ frame = "ready" /\ made < MaxCalls
  /\ made' = made + 1 /\ seq' = seq + 1
  /\ pending' = {p \in pending : p.id # NewId(seq)} \cup {[id |-> NewId(seq), call |-> made + 1]}
  /\ host' = host \cup {[id |-> NewId(seq), call |-> made + 1, kind |-> kind, at |-> "check",
                         value |-> None]}
  /\ UNCHANGED <<frame, now, received, granted, native, legacy, openVars, given>>

\* The script of the app's document is there: it listens, and asks for its file.
Ready ==
  /\ frame = "loading" /\ made < MaxCalls
  /\ frame' = "ready"
  /\ made' = made + 1 /\ seq' = 1
  /\ pending' = {[id |-> NewId(0), call |-> made + 1]}
  /\ host' = host \cup {[id |-> NewId(0), call |-> made + 1, kind |-> "consume",
                         at |-> "check", value |-> None]}
  /\ UNCHANGED <<now, received, granted, native, legacy, openVars, given>>

\* The timer of a call: it is rejected, whatever comes later.
TimesOut(p) ==
  /\ p \in pending
  /\ pending' = pending \ {p}
  /\ given' = [given EXCEPT !.lost = TRUE]
  /\ UNCHANGED <<frame, now, seq, made, host, received, granted, native, legacy, openVars>>

\* The host's answer: the app takes the one whose identifier it waits for.
Answer(h) ==
  /\ h \in host /\ h.at \in {"answer", "denied"}
  /\ host' = host \ {h}
  /\ LET mine == {p \in pending : p.id = h.id}
     IN  /\ pending' = pending \ mine
         /\ received' = received \cup {<<p.call, h.call>> : p \in mine}
         /\ shown' = IF mine # {} /\ h.kind = "consume" THEN shown \cup ({h.value} \ {None})
                                                        ELSE shown
  /\ given' = IF h.at = "denied" THEN [given EXCEPT !.lost = TRUE] ELSE given
  /\ UNCHANGED <<frame, now, seq, made, granted, native, legacy,
                 wanted, claimable, opening, timers, slot, slot2, last>>

Tick ==
  /\ now < MaxTick /\ now' = now + 1
  /\ UNCHANGED <<frame, seq, made, pending, host, received, granted, native, legacy,
                 openVars, given>>

--------------------------------------------------------------------------------
(* The host, swir-app-bridge-host.js: each step of a call is an await.       *)

Becomes(h, at, value) == host' = (host \ {h}) \cup {[h EXCEPT !.at = at, !.value = value]}
HostOnly == UNCHANGED <<frame, now, seq, made, pending, received, granted, openVars, given>>
DataKept == UNCHANGED <<native, legacy>>

\* resolveCaller, then requirePermission of the method.
Checked(h) ==
  /\ h \in host /\ h.at = "check"
  /\ Becomes(h, IF granted THEN "work" ELSE "denied", None)
  /\ HostOnly /\ DataKept

\* storageSet and storageRemove, in the desktop host.
Sets(h) ==
  /\ h \in host /\ h.at = "work" /\ h.kind = "set"
  /\ native' = "new"
  /\ Becomes(h, "answer", None)
  /\ HostOnly /\ UNCHANGED legacy

Removes(h) ==
  /\ h \in host /\ h.at = "work" /\ h.kind = "remove"
  /\ native' = None
  /\ Becomes(h, "answer", None)
  /\ HostOnly /\ UNCHANGED legacy

\* storageGet: a value the desktop host lacks is looked for in the web store.
GetsNative(h) ==
  /\ h \in host /\ h.at = "work" /\ h.kind = "get"
  /\ Becomes(h, IF native = None THEN "migrate" ELSE "answer", native)
  /\ HostOnly /\ DataKept

GetsLegacy(h) ==
  /\ h \in host /\ h.at = "migrate"
  /\ Becomes(h, IF legacy = None THEN "answer" ELSE "migrated", legacy)
  /\ HostOnly /\ DataKept

\* and moved over, whatever the desktop host holds by now.
Migrates(h) ==
  /\ h \in host /\ h.at = "migrated"
  /\ native' = h.value
  /\ Becomes(h, "answer", h.value)
  /\ HostOnly /\ UNCHANGED legacy

--------------------------------------------------------------------------------
(* The association service, swir-associations.js.                            *)

AppOnly == UNCHANGED <<now, seq, made, received, granted, native, legacy>>

\* openFile begins: the file is left for the app in localStorage.
OpenBegins(f) ==
  /\ opening' = opening \cup {f} /\ last' = f
  /\ slot' = f

\* The user opens a file in File Explorer.
OpenFile(f) ==
  /\ User /\ f \notin opening \cup timers /\ last # f
  /\ OpenBegins(f)
  /\ UNCHANGED <<appVars, wanted, claimable, timers, slot2, shown>>

\* openFile ends: the window is opened and the delivery is set.
OpenEnds(f) ==
  /\ f \in opening
  /\ slot2' = f
  /\ opening' = opening \ {f} /\ timers' = timers \cup {f}
  /\ frame' = IF frame = "none" THEN "loading" ELSE frame
  /\ UNCHANGED <<now, seq, made, pending, host, received, granted, native, legacy,
                 wanted, claimable, slot, last, shown, given>>

\* Mutant: the message is for the page's origin, not for that of the package.
DeliveredElsewhere(f) ==
  /\ f \in timers /\ timers' = timers \ {f}
  /\ UNCHANGED <<appVars, wanted, claimable, opening, slot, slot2, last, shown, given>>

\* deliverOpenFile: a document that does not listen yet misses it.
Delivered(f) ==
  /\ f \in timers /\ timers' = timers \ {f}
  /\ shown' = IF frame = "ready" THEN shown \cup {f} ELSE shown
  /\ UNCHANGED <<appVars, wanted, claimable, opening, slot, slot2, last, given>>

\* consume: the file of localStorage is taken; when there is none, the platform's is
\* read first, and localStorage is cleared all the same.
Consumes(h) ==
  /\ h \in host /\ h.at = "work" /\ h.kind = "consume"
  /\ slot' = None
  /\ IF slot # None THEN Becomes(h, "clear", slot) /\ UNCHANGED slot2
                    ELSE Becomes(h, "lookup", None) /\ UNCHANGED slot2
  /\ UNCHANGED <<frame, now, seq, made, pending, received, granted, native, legacy,
                 wanted, claimable, opening, timers, last, shown, given>>

LooksUp(h) ==
  /\ h \in host /\ h.at = "lookup"
  /\ Becomes(h, "found", slot2)
  /\ HostOnly /\ DataKept

ClearsSlot(h) ==
  /\ h \in host /\ h.at = "found"
  /\ slot' = None
  /\ Becomes(h, "clear", h.value)
  /\ UNCHANGED <<frame, now, seq, made, pending, received, granted, native, legacy,
                 wanted, claimable, opening, timers, slot2, last, shown, given>>

ClearsStore(h) ==
  /\ h \in host /\ h.at = "clear"
  /\ slot2' = None
  /\ Becomes(h, "answer", h.value)
  /\ UNCHANGED <<frame, now, seq, made, pending, received, granted, native, legacy,
                 wanted, claimable, opening, timers, slot, last, shown, given>>

\* The desktop host is started with a file: it holds it, and may tell the shell.
Activation(f) ==
  /\ User /\ f \notin claimable \cup wanted \cup opening \cup timers /\ last # f
  /\ claimable' = claimable \cup {f}
  /\ \E told \in BOOLEAN : wanted' = IF told THEN wanted \cup {f} ELSE wanted
  /\ UNCHANGED <<appVars, opening, timers, slot, slot2, last, shown>>

\* drainNativeActivations asks for those it was not told of.
Drain ==
  /\ ~ (claimable \subseteq wanted)
  /\ wanted' = wanted \cup claimable
  /\ UNCHANGED <<appVars, claimable, opening, timers, slot, slot2, last, shown, given>>

\* openNativeActivation: only the one who claims it opens it.
Claims(f) ==
  /\ f \in wanted /\ wanted' = wanted \ {f}
  /\ IF f \in claimable
       THEN claimable' = claimable \ {f} /\ OpenBegins(f)
       ELSE UNCHANGED <<claimable, opening, slot, last>>
  /\ UNCHANGED <<appVars, timers, slot2, shown, given>>

--------------------------------------------------------------------------------
(* The user.                                                                 *)

Launch ==
  /\ User /\ frame = "none" /\ frame' = "loading"
  /\ UNCHANGED <<now, seq, made, pending, host, received, granted, native, legacy, openVars>>

\* The document goes with the window; the host works on, and answers nobody.
Close ==
  /\ frame # "none" /\ frame' = "none"
  /\ given.user < MaxUser /\ given' = [user |-> given.user + 1, lost |-> TRUE]
  /\ pending' = {}
  /\ host' = {[h EXCEPT !.id = NoId] : h \in host}
  /\ UNCHANGED <<now, seq, made, received, granted, native, legacy, openVars>>

SetPermission ==
  /\ User /\ granted' = ~granted
  /\ UNCHANGED <<frame, now, seq, made, pending, host, received, native, legacy, openVars>>

BridgeInit ==
  /\ frame = "none" /\ now = 0 /\ seq = 0 /\ made = 0
  /\ pending = {} /\ host = {} /\ received = {} /\ granted = TRUE
  /\ native = None /\ legacy \in {None, "old"}
  /\ wanted = {} /\ claimable = {} /\ opening = {} /\ timers = {}
  /\ slot = None /\ slot2 = None /\ last = None /\ shown = {}
  /\ given = [user |-> 0, lost |-> FALSE]

BridgeNext ==
  \/ Ready \/ Tick \/ Drain \/ Launch \/ Close \/ SetPermission
  \/ \E k \in Kinds \ {"consume"} : Call(k)
  \/ \E p \in pending : TimesOut(p)
  \/ \E f \in File : OpenFile(f) \/ OpenEnds(f) \/ Delivered(f) \/ Activation(f) \/ Claims(f)
  \/ \E h \in host :
       \/ Answer(h) \/ Checked(h) \/ Sets(h) \/ Removes(h)
       \/ GetsNative(h) \/ GetsLegacy(h) \/ Migrates(h)
       \/ Consumes(h) \/ LooksUp(h) \/ ClearsSlot(h) \/ ClearsStore(h)

BridgeSpec == BridgeInit /\ [][BridgeNext]_bridgeAll

--------------------------------------------------------------------------------
\* An answer is taken for the call it answers: among calls made within one
\* millisecond, answered out of order, given up and overtaken by a new document
\* (swir-app-bridge.js, call and its listener).
AnswerIsOwn == \A r \in received : r[1] = r[2]

\* Once the app runs and nothing is under way, the file opened last has been shown to
\* it, by the message or by its own question, whichever of them the loading of the
\* window let through (swir-associations.js, openFile and consume), unless the user
\* closed the window or a call was refused or given up.
LastFileShown ==
  /\ Settled /\ frame = "ready" /\ ~given.lost
  /\ ~ \E h \in host : h.kind = "consume"
  => last \in shown \cup {None}
--------------------------------------------------------------------------------
(* The inductive invariant.                                                  *)

Asks(h) == h.kind = "consume"

Where == {"check", "denied", "work", "answer", "migrate", "migrated", "lookup", "found", "clear"}

Value == File \cup {None, "new", "old"}

BridgeType ==
  /\ now \in Nat /\ seq \in Nat /\ made \in Nat
  /\ {native, legacy, slot, slot2} \subseteq Value
  /\ pending \subseteq [id : Nat \X Nat, call : Nat]
  /\ host \subseteq [id : Int \X Nat, call : Nat, kind : Kinds, at : Where,
                     value : Value]
  /\ given \in [user : Nat, lost : BOOLEAN]
  /\ \A h \in host : /\ h.at \in {"lookup", "found", "clear"} => Asks(h)
                     /\ h.at \in {"migrate", "migrated"} => ~Asks(h)

\* An identifier is of one call, for as long as somebody waits for its answer.
OneCallPerId ==
  /\ frame # "ready" => pending = {} /\ \A h \in host : h.id = NoId
  /\ \A p \in pending : p.id[2] \in 1..seq
  /\ \A h \in host : h.id = NoId \/ h.id[2] \in 1..seq
  /\ \A p \in pending, h \in host : p.id = h.id => p.call = h.call
  /\ AnswerIsOwn

\* While no call is refused or given up, the app asks for its file once, and waits.
AskedOnce ==
  /\ frame # "ready" => host = {}
  /\ \A g, h \in host : g.id = h.id \/ (Asks(g) /\ Asks(h)) => g = h
  /\ \A h \in host : h.id # NoId /\ (Asks(h) => \E p \in pending : p.id = h.id)

\* And the file opened last waits for the question, or comes with its answer, or else
\* with a message that finds the app listening.
FileOnItsWay ==
  /\ frame # "ready" \/ (\E h \in host : Asks(h) /\ h.at \in {"check", "work"}) => slot = last
  /\ frame = "ready" =>
       \/ last \in {None} \cup shown \cup opening \cup timers
       \/ \E h \in host : /\ Asks(h)
                          /\ \/ h.at \in {"check", "work", "denied"}
                             \/ h.at \in {"clear", "answer"} /\ h.value = last

BridgeInv ==
  BridgeType /\ OneCallPerId /\ (~given.lost => AskedOnce /\ FileOnItsWay)
================================================================================
