------------------------------ MODULE WidgetHost ------------------------------
(***************************************************************************)
(* The widget host of the Web shell (swir-widgets.js): the cards of the    *)
(* installed widgets, rendered when the script is loaded, by the shell     *)
(* once more (swir-v17.js), and after each change of a package             *)
(* (swir-platform.js).  A render is a function with awaits that nothing    *)
(* keeps from running beside another.                                      *)
(***************************************************************************)
EXTENDS Naturals, Sequences

CONSTANTS MaxRender,   \* renders of the widgets
          MaxFaults    \* reads of the store that fail

WidgetAssumption == {MaxRender, MaxFaults} \subseteq Nat

VARIABLES installed,   \* verified packages in the store
          renders,     \* where each render is
          cards,       \* the cards in the host, each with its render
          ticking,     \* renders whose clock timer is running
          clockTimer,  \* the timer that the next render stops, 0: none
          faults,
          missed       \* history: did a read fail since the last change?

widgets == <<renders, cards, ticking, clockTimer>>
wvars == <<installed, widgets, faults, missed>>

\* The renderers: the clock is there at once, the system card asks the store.
Widget  == {"clock", "system"}
Package == Widget \cup {"app"}

WidgetInit ==
  /\ installed \in SUBSET Package
  /\ renders = <<>> /\ cards = {} /\ ticking = {} /\ clockTimer = 0
  /\ faults = 0 /\ missed = FALSE

\* The host is emptied, the timer stopped, the list of packages asked for.
Begin ==
  /\ Len(renders) < MaxRender
  /\ cards' = {} /\ ticking' = ticking \ {clockTimer} /\ clockTimer' = 0
  /\ renders' = Append(renders, [at |-> "list", clock |-> FALSE])

\* render, up to its first await.
Render == Begin

\* The script renders when it is loaded, and the shell renders once more.
FirstRender ==
  /\ Len(renders) < 2 /\ Render /\ UNCHANGED <<installed, faults, missed>>

\* After the last card the clock, if any, is given its timer.
Finish(r, clock) ==
  /\ renders' = [renders EXCEPT ![r] = [at |-> "done", clock |-> FALSE]]
  /\ IF clock THEN ticking' = ticking \cup {r} /\ clockTimer' = r
     ELSE UNCHANGED <<ticking, clockTimer>>

\* A package of the catalog has a renderer when its protected identity is the
\* expected one; the others, and what is not verified, have no card.
resolveInstalledWidgets == installed \cap Widget

ReadFails == faults < MaxFaults /\ faults' = faults + 1 /\ missed' = TRUE

\* installedWidgets: what the store answers; no answer is no widget.
Listed(r) ==
  /\ renders[r].at = "list"
  /\ \E found \in {resolveInstalledWidgets, {}} :
       /\ IF found = resolveInstalledWidgets THEN UNCHANGED <<faults, missed>>
          ELSE ReadFails
       /\ cards' = cards \cup (IF "clock" \in found THEN {<<"clock", r>>} ELSE {})
       /\ IF "system" \in found
          THEN /\ renders' = [renders EXCEPT ![r] =
                               [at |-> "card", clock |-> "clock" \in found]]
               /\ UNCHANGED <<ticking, clockTimer>>
          ELSE Finish(r, "clock" \in found)
  /\ UNCHANGED installed

\* renderSystem has counted the packages, and its card is appended.
SystemCard(r) ==
  /\ renders[r].at = "card"
  /\ cards' = cards \cup {<<"system", r>>}
  /\ Finish(r, renders[r].clock)
  /\ UNCHANGED <<installed, faults, missed>>

\* packages.install and packages.remove, and the event they end with.
Change(p) ==
  /\ installed' = IF p \in installed THEN installed \ {p} ELSE installed \cup {p}
  /\ Render /\ missed' = FALSE /\ UNCHANGED faults

WidgetNext ==
  \/ FirstRender \/ (\E r \in DOMAIN renders : Listed(r) \/ SystemCard(r))
  \/ \E p \in Package : Change(p)

WidgetSpec == WidgetInit /\ [][WidgetNext]_wvars

-----------------------------------------------------------------------------
Quiet ==
  Len(renders) >= 2 /\ (\A r \in DOMAIN renders : renders[r].at = "done") /\ ~ missed

\* However renders overlap, once they have all ended each installed widget has
\* a card, and the clock a timer that ticks (swir-widgets.js:143-168).
WidgetsShown ==
  Quiet =>
    \A w \in installed \cap Widget :
      \E r \in DOMAIN renders : <<w, r>> \in cards /\ (w = "clock" => r \in ticking)

\* Of a package that is removed, at most the system card comes back, by a render that was
\* already counting for it; the clock is shown only while it is installed.
OnlySystemLingers == \A c \in cards : c[1] \in installed \/ c[1] = "system"

\* "removing the package removes it from the host" (SWIR-APP-PACKAGE-1.0.md:185).  It does not
\* hold of the system card, and no run checks it: the render that awaits the count appends its
\* card to the host that the render of the removal has emptied (swir-widgets.js:150, :159).
RemovedIsGone == Quiet => \A c \in cards : c[1] \in installed

-----------------------------------------------------------------------------
\* The last render begins with the last change, and no card of its goes: without a
\* read that failed since, it has the cards of the widgets it has come to.
WidgetInv ==
  /\ renders \in Seq([at : {"list", "card", "done"}, clock : BOOLEAN])
  /\ ~ missed /\ renders # <<>> =>
       LET r == Len(renders) IN
       /\ renders[r].at = "card" => /\ renders[r].clock <=> "clock" \in installed
                                    /\ "clock" \in installed => <<"clock", r>> \in cards
       /\ renders[r].at = "done" =>
            \A w \in installed \cap Widget :
              <<w, r>> \in cards /\ (w = "clock" => r \in ticking)
=============================================================================
