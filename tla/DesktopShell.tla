------------------------------ MODULE DesktopShell ------------------------------
(***************************************************************************)
(* The shell page of the Web and Desktop editions: the window manager of   *)
(* swir-os.js and the lock screen, panels, bell and desktop icons that     *)
(* swir-v11-fixed.js adds to it.  The page is one thread; an action is one *)
(* event handler.  A window is known by its application; what is drawn in  *)
(* it, and where it stands, is left out, but not which one is in front.    *)
(***************************************************************************)
EXTENDS FiniteSets, Naturals, SequencesExt

CONSTANTS
  Window,      \* applications that open a window
  Shortcut,    \* packages of the Store that may have a desktop icon
  MaxSignals,  \* bound on the notifications the bell keeps (20 in the code)
  None

VARIABLES
  order,      \* windows in the order they were opened (state.windows)
  stack,      \* the same windows by z-index, the topmost last
  minimized, maximized,
  focused,    \* windows whose frame has the class "focused"
  lit,        \* windows whose task button has the class "active"
  active,     \* state.active
  screen,     \* "booting", "ready" or "desktop", for the boot screen
  lockDue,    \* the boot screen is gone and the timer that locks runs
  locked,     \* the lock screen is visible
  launcher,   \* the launcher is open
  panel,      \* the side panel that is open
  bell,       \* notifications kept, and how many are unread
  icons       \* shortcuts installed, shown, moved, and just dragged

winVars  == <<order, stack, minimized, maximized, focused, lit, active>>
paneVars == <<screen, lockDue, locked, launcher, panel>>
shellVars == <<winVars, paneVars, bell, icons>>

Opened == ToSet(order)

\* A sequence of windows without one of them, which is in it once at most.
Without(s, w) ==
  IF w \in ToSet(s) THEN RemoveAt(s, CHOOSE i \in DOMAIN s : s[i] = w) ELSE s

Topmost == Last(stack)

\* The pointer reaches windows and task buttons only when nothing covers them.
Uncovered == screen = "desktop" /\ ~locked /\ ~launcher /\ panel = None

-------------------------------------------------------------------------------
(* The window manager.                                                       *)

\* focusWindow: raises the window and paints every frame and task button anew,
\* given the windows there are (ord, stk) and the minimized ones among them.
FocusIn(w, ord, stk, min) ==
  /\ order' = ord
  /\ stack' = Append(Without(stk, w), w)
  /\ minimized' = min
  /\ active' = w
  /\ focused' = {w} \ min
  /\ lit' = {w} \ min

Focus(w) == FocusIn(w, order, stack, minimized) /\ UNCHANGED maximized

CreateWindow(w) ==
  /\ FocusIn(w, Append(order, w), Append(stack, w), minimized)
  /\ UNCHANGED maximized

\* openApp: an open window is restored and raised, another is created.
OpenApp(w) ==
  /\ launcher' = FALSE
  /\ IF w \in Opened
       THEN FocusIn(w, order, stack, minimized \ {w}) /\ UNCHANGED maximized
       ELSE CreateWindow(w)

\* closeWindow gives the focus to the window opened last among the others, whatever its state.
CloseWindow(w) ==
  /\ w \in Opened
  /\ maximized' = maximized \ {w}
  /\ LET rest == Without(order, w)
     IN  IF rest = <<>>
           THEN /\ order' = <<>> /\ stack' = <<>>
                /\ minimized' = {} /\ focused' = {} /\ lit' = {}
                /\ active' = IF active = w THEN None ELSE active
           ELSE FocusIn(Last(rest), rest, Without(stack, w), minimized \ {w})

\* The minimize button of a window, reached with the pointer or the keyboard.
Minimize(w) ==
  /\ minimized' = minimized \cup {w}
  /\ lit' = lit \ {w}
  /\ active' = None
  /\ UNCHANGED <<order, stack, maximized, focused>>

TaskClick(w) ==
  \/ /\ w \in minimized
     /\ FocusIn(w, order, stack, minimized \ {w}) /\ UNCHANGED maximized
  \/ w \notin minimized /\ active = w /\ Minimize(w)
  \/ w \notin minimized /\ active # w /\ Focus(w)

\* Pointer down anywhere in the frame; on the title bar and the resize handle it also
\* begins a drag, which moves nothing that is modelled.
Press(w) == w \notin minimized /\ Focus(w)

Maximize(w) ==
  /\ maximized' = IF w \in maximized THEN maximized \ {w} ELSE maximized \cup {w}
  /\ FocusIn(w, order, stack, minimized)

DoubleClickTitle(w) ==
  /\ maximized' = IF w \in maximized THEN maximized \ {w} ELSE maximized \cup {w}
  /\ UNCHANGED <<order, stack, minimized, focused, lit, active>>

WindowStep ==
  /\ \/ /\ Uncovered
        /\ \E w \in Opened : TaskClick(w) \/ Press(w)
     \/ /\ screen = "desktop"   \* the controls are buttons, which the keyboard reaches too
        /\ \E w \in Opened \ minimized : Minimize(w) \/ Maximize(w) \/ CloseWindow(w)
     \/ Uncovered /\ \E w \in Opened \ minimized : DoubleClickTitle(w)
  /\ UNCHANGED <<paneVars, bell, icons>>

\* A command of the terminal that opens an application; the others change no window.
TerminalCommand(w) == "terminal" \in Opened /\ OpenApp(w)

\* A click on anything with data-open, or a keyboard shortcut.
OpenStep ==
  /\ screen = "desktop"
  /\ \E w \in Window : OpenApp(w) \/ TerminalCommand(w)
  /\ UNCHANGED <<screen, lockDue, locked, panel, bell, icons>>

\* SwirOS.close, which the task manager calls for a window in any state.
KillStep ==
  /\ \E w \in Opened : CloseWindow(w)
  /\ UNCHANGED <<paneVars, bell, icons>>

-------------------------------------------------------------------------------
(* Boot, lock screen, launcher and panels.                                   *)

BootDone == screen = "booting" /\ screen' = "ready" /\ UNCHANGED <<lockDue, locked, launcher, panel>>

EnterOS ==
  /\ screen = "ready" /\ screen' = "desktop" /\ lockDue' = TRUE
  /\ UNCHANGED <<locked, launcher, panel>>

\* lock() closes the panels; the boot timer, the shortcut and the quick tile call it.
Lock ==
  /\ screen = "desktop"
  /\ locked' = TRUE /\ panel' = None /\ lockDue' = FALSE
  /\ UNCHANGED <<screen, launcher>>

Unlock == locked /\ locked' = FALSE /\ UNCHANGED <<screen, lockDue, launcher, panel>>

ToggleLauncher ==
  /\ screen = "desktop"
  /\ launcher' = ~launcher
  /\ UNCHANGED <<screen, lockDue, locked, panel>>

Escape == launcher' = FALSE /\ panel' = None /\ UNCHANGED <<screen, lockDue, locked>>

PaneStep ==
  /\ BootDone \/ EnterOS \/ Lock \/ Unlock \/ ToggleLauncher \/ Escape
  /\ UNCHANGED <<winVars, bell, icons>>

\* togglePanel: the notification panel marks everything as read.
TogglePanel(p) ==
  /\ screen = "desktop"
  /\ panel' = IF panel = p THEN None ELSE p
  /\ bell' = IF panel' = "notifications" THEN [bell EXCEPT !.unread = 0] ELSE bell
  /\ UNCHANGED <<screen, lockDue, locked, launcher, winVars, icons>>

-------------------------------------------------------------------------------
(* The bell and the desktop icons.                                           *)

\* addNotification, called for every toast by the observer of the toast stack.
Rung == [kept |-> IF bell.kept < MaxSignals THEN bell.kept + 1 ELSE bell.kept,
         unread |-> IF bell.unread < MaxSignals THEN bell.unread + 1 ELSE bell.unread]

Toast == bell' = Rung /\ UNCHANGED <<winVars, paneVars, icons>>

ClearSignals ==
  /\ panel = "notifications"
  /\ bell' = [kept |-> 0, unread |-> 0]
  /\ UNCHANGED <<winVars, paneVars, icons>>

\* SWIR_STORE_INSTALL: the Store has extended the installed list; the shell adds what is missing.
StoreInstall(s) ==
  icons' = [icons EXCEPT !.installed = @ \cup {s}, !.shown = icons.installed \cup {s}]

StoreRemove(s) ==
  icons' = [icons EXCEPT !.installed = @ \ {s}, !.shown = @ \ {s}, !.moved = @ \ {s}]

\* A drag of more than five pixels is remembered and swallows the click that ends it.
DragIcon(s)   == s \in icons.shown /\ icons' = [icons EXCEPT !.moved = @ \cup {s}, !.dragged = @ \cup {s}]
DragSettled(s) == s \in icons.dragged /\ icons' = [icons EXCEPT !.dragged = @ \ {s}]
ResetIcons    == icons' = [icons EXCEPT !.moved = {}]

IconStep ==
  /\ screen = "desktop"
  /\ \/ \E s \in Shortcut : StoreInstall(s) \/ StoreRemove(s) \/ DragIcon(s) \/ DragSettled(s)
     \/ ResetIcons
  /\ UNCHANGED <<winVars, paneVars, bell>>

-------------------------------------------------------------------------------
ShellInit ==
  /\ order = <<>> /\ stack = <<>> /\ minimized = {} /\ maximized = {}
  /\ focused = {} /\ lit = {} /\ active = None
  /\ screen = "booting" /\ lockDue = FALSE /\ locked = FALSE
  /\ launcher = FALSE /\ panel = None
  /\ bell = [kept |-> 0, unread |-> 0]
  /\ icons \in [installed : {{}, Shortcut}, shown : {{}}, moved : {{}}, dragged : {{}}]

ShellNext ==
  \/ WindowStep \/ OpenStep \/ KillStep
  \/ PaneStep \/ (\E p \in {"notifications", "quick"} : TogglePanel(p))
  \/ Toast \/ ClearSignals \/ IconStep

ShellSpec == ShellInit /\ [][ShellNext]_shellVars

\* The task bar and the frames tell the user the same thing: a highlighted task button is that
\* of the one window that is drawn in focus, it is in front of every other and not minimized;
\* and a window the shell believes active is in front, though it may be minimized
\* (focusWindow, taskButton, closeWindow and createWindow of swir-os.js).
HighlightIsFront ==
  /\ lit = focused \ minimized
  /\ \A w \in lit : w \in Opened /\ w = Topmost
  /\ active # None => active \in Opened /\ active = Topmost

-------------------------------------------------------------------------------
ShellInv ==
  /\ order \in Seq(Window) /\ stack \in Seq(Window)
  /\ HighlightIsFront
===============================================================================
