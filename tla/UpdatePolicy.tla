------------------------------ MODULE UpdatePolicy ------------------------------
(***************************************************************************)
(* The update policy of the user (swir-update-user-policy.js), which at    *)
(* startup opens the Update Center in the background, and the controller   *)
(* it injects into that window (swir-update-policy-frame.js), which asks   *)
(* the native host to check for an update and perhaps to prepare it.  The  *)
(* user meanwhile uses the same window, the same setting and the same      *)
(* preparation, and may reload the page.  Commands that wait for an answer *)
(* may also time out.                                                      *)
(***************************************************************************)
EXTENDS DesktopShell

CONSTANTS MaxReload  \* bound on the reloads of the page

VARIABLES
  mode,     \* the stored policy: "automatic", "notify" or "manual"
  done,     \* the session has made its startup request (sessionStorage)
  request,  \* startupRequest: the mode it was made under, None when claimed
  settle,   \* the timer that looks for the Update Center window runs
  hidden,   \* the window is marked as opened in the background
  frame,    \* the controller in the window: its step, and the mode it claimed
  closing,  \* timers that will close the hidden window
  host,     \* the native host: update available, and the state of the preparation
  story,    \* startup runs so far, and the automatic prepare commands they sent
  reloads

policyVars == <<mode, done, request, settle, hidden, frame, closing, host, story, reloads>>
upVars == <<shellVars, policyVars>>

Updates == "updates"

NoFrame  == [at |-> "none", mode |-> None, seen |-> None]
Modes    == {"automatic", "notify", "manual"}
ShellIdle == UNCHANGED shellVars

\* setMode, from the card in the Update Center.
SetMode(m) == Updates \in Opened \ minimized /\ mode' = m

\* requestStartupCheck, once the shell is there.
RequestStartupCheck ==
  /\ ~done /\ mode # "manual"
  /\ done' = TRUE
  /\ request' = mode
  /\ settle' = TRUE
  /\ OpenApp(Updates)
  /\ frame' = IF Updates \in Opened THEN frame ELSE [NoFrame EXCEPT !.at = "loading"]
  /\ UNCHANGED <<screen, lockDue, locked, panel, bell, icons, mode, hidden, closing, host, story, reloads>>

\* One of the looks of settle, of which there are at most thirty, 100 ms apart, as far as it
\* changes anything.  A look that finds the window minimizes it, by a click on its button
\* (minimizeBackgroundWindow), and is the last.  One that does not find it changes nothing
\* unless it is the thirtieth: the others are the stuttering steps before this one.
Settle ==
  /\ settle /\ settle' = FALSE
  /\ \/ /\ Updates \in Opened
        /\ hidden' = TRUE
        /\ IF Updates \in minimized THEN UNCHANGED winVars ELSE Minimize(Updates)
     \/ /\ Updates \notin Opened
        /\ UNCHANGED <<hidden, winVars>>
  /\ UNCHANGED <<paneVars, bell, icons, mode, done, request, frame, closing, host, story, reloads>>

\* The document of the window is loaded and the controller injected; it waits 120 ms.
FrameLoads ==
  /\ frame.at = "loading"
  /\ frame' = [frame EXCEPT !.at = "ready"]
  /\ UNCHANGED <<mode, done, request, settle, hidden, closing, host, story, reloads>>

\* Mutant: the claimed request stays.
ClaimKept ==
  /\ frame.at = "ready"
  /\ frame' = IF request = None THEN [frame EXCEPT !.at = "idle"]
                                ELSE [frame EXCEPT !.at = "status", !.mode = request]
  /\ story' = IF request = None THEN story ELSE [story EXCEPT !.runs = @ + 1]
  /\ UNCHANGED <<mode, done, request, settle, hidden, closing, host, reloads>>

\* claimStartupRequest and the beginning of runStartupPolicy.
Claim ==
  /\ frame.at = "ready"
  /\ request' = None
  /\ frame' = IF request = None THEN [frame EXCEPT !.at = "idle"]
                                ELSE [frame EXCEPT !.at = "status", !.mode = request]
  /\ story' = IF request = None THEN story ELSE [story EXCEPT !.runs = @ + 1]
  /\ UNCHANGED <<mode, done, settle, hidden, closing, host, reloads>>

\* report: tells the user, and closes the window a little later if it is still hidden.
Report ==
  /\ frame' = [frame EXCEPT !.at = "idle"]
  /\ closing' = TRUE

\* Any command that fails or times out ends the run with a report.
CommandFails ==
  /\ frame.at \in {"status", "check", "reset", "prepare", "wait"}
  /\ Report
  /\ UNCHANGED <<mode, done, request, settle, hidden, host, story, reloads>>

StatusAnswered ==
  /\ frame.at = "status"
  /\ frame' = [frame EXCEPT !.at = "check", !.seen = host.prep]
  /\ UNCHANGED <<mode, done, request, settle, hidden, closing, host, story, reloads>>

\* The answer of the check.  The preparation is the one read before the check.
CheckAnswered ==
  /\ frame.at = "check"
  /\ \/ /\ ~host.available \/ frame.mode = "notify" \/ frame.seen = "ready"
        /\ Report
     \/ /\ host.available /\ frame.mode = "automatic" /\ frame.seen # "ready"
        /\ frame' = [frame EXCEPT !.at = CASE frame.seen = "failed" -> "reset"
                                           [] frame.seen = "running" -> "wait"
                                           [] OTHER -> "prepare"]
        /\ UNCHANGED closing
  /\ UNCHANGED <<mode, done, request, settle, hidden, host, story, reloads>>

ResetAnswered ==
  /\ frame.at = "reset"
  /\ host' = [host EXCEPT !.prep = IF @ = "failed" THEN "idle" ELSE @]
  /\ frame' = [frame EXCEPT !.at = IF host.prep = "running" THEN "wait" ELSE "prepare"]
  /\ UNCHANGED <<mode, done, request, settle, hidden, closing, story, reloads>>

\* The prepare command; the host refuses it while a preparation runs or is ready.
SendPrepare ==
  /\ frame.at = "prepare"
  /\ story' = [story EXCEPT !.prepared = Append(@, frame.mode)]
  /\ IF host.prep \in {"running", "ready"}
       THEN Report /\ UNCHANGED host
       ELSE /\ host' = [host EXCEPT !.prep = "running"]
            /\ frame' = [frame EXCEPT !.at = "wait"]
            /\ UNCHANGED closing
  /\ UNCHANGED <<mode, done, request, settle, hidden, reloads>>

\* waitForPreparation polls until the preparation has ended, or five minutes have.
PreparationSeen ==
  /\ frame.at = "wait"
  /\ host.prep \in {"ready", "failed"}
  /\ Report
  /\ UNCHANGED <<mode, done, request, settle, hidden, host, story, reloads>>

FrameStep ==
  /\ \/ FrameLoads \/ Claim \/ CommandFails \/ StatusAnswered
     \/ CheckAnswered \/ ResetAnswered \/ SendPrepare \/ PreparationSeen
  /\ ShellIdle

\* closeHiddenBackgroundWindow, 600 ms after a report.
CloseHidden ==
  /\ closing /\ closing' = FALSE
  /\ IF Updates \in Opened /\ hidden /\ Updates \in minimized
       THEN CloseWindow(Updates) /\ hidden' = FALSE /\ frame' = NoFrame
       ELSE UNCHANGED <<winVars, hidden, frame>>
  /\ UNCHANGED <<paneVars, bell, icons, mode, done, request, settle, host, story, reloads>>

\* The preparation in the host, which the user may start or reset in the Update Center too.
HostStep ==
  /\ host' \in {[host EXCEPT !.prep = p] : p \in
                  CASE host.prep = "idle"    -> {"running"}
                    [] host.prep = "running" -> {"ready", "failed"}
                    [] host.prep = "failed"  -> {"idle"}
                    [] OTHER                 -> {}}
  /\ UNCHANGED <<mode, done, request, settle, hidden, frame, closing, story, reloads>>

\* The page is loaded again: the windows, timers and requests are gone, what localStorage and
\* sessionStorage hold is not.
Reload ==
  /\ reloads < MaxReload /\ reloads' = reloads + 1
  /\ order' = <<>> /\ stack' = <<>> /\ minimized' = {} /\ maximized' = {}
  /\ focused' = {} /\ lit' = {} /\ active' = None
  /\ screen' = "booting" /\ lockDue' = FALSE /\ locked' = FALSE /\ launcher' = FALSE /\ panel' = None
  /\ bell' = [bell EXCEPT !.unread = 0]
  /\ icons' = [icons EXCEPT !.shown = icons.installed, !.dragged = {}]
  /\ request' = None /\ settle' = FALSE /\ hidden' = FALSE /\ frame' = NoFrame /\ closing' = FALSE
  /\ UNCHANGED <<mode, done, host, story>>

\* The user acts on the windows; a window of the Update Center that comes or goes takes the mark
\* and the controller with it.
UserStep ==
  /\ \/ WindowStep \/ OpenStep \/ KillStep
     \/ (BootDone \/ EnterOS) /\ UNCHANGED <<winVars, bell, icons>>
  /\ frame' = CASE Updates \notin ToSet(order') -> NoFrame
                [] Updates \in ToSet(order') \ Opened -> [NoFrame EXCEPT !.at = "loading"]
                [] OTHER                        -> frame
  /\ hidden' = (hidden /\ Updates \in ToSet(order'))
  /\ UNCHANGED <<mode, done, request, settle, closing, host, story, reloads>>

UpInit ==
  /\ ShellInit
  /\ mode \in Modes
  /\ done = FALSE /\ request = None /\ settle = FALSE /\ hidden = FALSE
  /\ frame = NoFrame /\ closing = FALSE
  /\ host \in [available : BOOLEAN, prep : {"idle", "ready"}]
  /\ story = [runs |-> 0, prepared |-> <<>>]
  /\ reloads = 0

UpNext ==
  \/ UserStep
  \/ (\E m \in Modes : SetMode(m)) /\ UNCHANGED <<shellVars, done, request, settle, hidden, frame,
                                                  closing, host, story, reloads>>
  \/ RequestStartupCheck \/ Settle \/ FrameStep \/ CloseHidden
  \/ HostStep /\ ShellIdle
  \/ Reload

UpSpec == UpInit /\ [][UpNext]_upVars

\* However often the Update Center is opened, closed or the page reloaded, one session makes at
\* most one run of the startup policy, it sends at most one prepare command, and only when it
\* was made under the automatic policy (requestStartupCheck, claimStartupRequest and
\* runStartupPolicy).
OneStartupRun ==
  /\ story.runs <= 1
  /\ Len(story.prepared) <= 1
  /\ \A i \in 1..Len(story.prepared) : story.prepared[i] = "automatic"

\* The controller prepares an update only while the policy is automatic: "notify" is
\* "signed-check-only" and "manual" "user-initiated-only" in the semantics of state().  It does
\* not hold, and no run checks it: the controller goes on by the mode of the request it claimed,
\* and the user may choose another before it prepares.
PreparesByPolicy == [][story'.prepared # story.prepared => mode = "automatic"]_upVars

-------------------------------------------------------------------------------
\* A request is made before the one run that it leads to, what the run does comes after
\* it, and it prepares by the mode it was requested under.
RunFollows ==
  /\ story \in [runs : {0, 1}, prepared : Seq({"automatic"})]
  /\ mode \in Modes /\ request \in Modes \cup {None}
  /\ frame \in [at : {"none", "loading", "ready", "idle", "status", "check", "reset",
                      "prepare", "wait"},
                mode : Modes \cup {None}, seen : {None, "idle", "running", "ready", "failed"}]
  /\ host \in [available : BOOLEAN, prep : {"idle", "running", "ready", "failed"}]
  /\ ~ done => request = None /\ story.runs = 0
  /\ request # None => story.runs = 0
  /\ story.runs = 0 => frame.at \in {"none", "loading", "ready", "idle"} /\ story.prepared = <<>>
  /\ frame.at \in {"status", "check", "reset", "prepare"} => story.prepared = <<>>
  /\ frame.at \in {"reset", "prepare"} => frame.mode = "automatic"
  /\ Len(story.prepared) <= 1

UpInv == ShellInv /\ RunFollows
===============================================================================
