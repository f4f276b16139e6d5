------------------------------ MODULE ShellTerminal -----------------------------
(***************************************************************************)
(* The terminal window of the shell.  swir-os.js gives the window's input  *)
(* a history and a table of commands; seven later scripts each listen for  *)
(* Enter on the document, in the capture phase, and keep the commands they *)
(* know from the listeners behind them.  Which of them answers a command   *)
(* is settled by the order in which they came to listen, and their start   *)
(* is asynchronous: swir-v14 and swir-v15 wait for the platform, swir-v17  *)
(* for scripts it loads itself.                                            *)
(*                                                                         *)
(* What a command does elsewhere is modelled where it is done: a window it *)
(* opens in DesktopShell, an accent it sets in ShellAppearance.            *)
(***************************************************************************)
EXTENDS Naturals, SequencesExt

CONSTANTS
  Command,      \* words a user types; a word nobody knows among them
  CoreScripts,  \* scripts swir-v17 loads before it starts (7 in the code)
  MaxEnters,    \* bound on the commands entered
  MaxOpens,     \* bound on the terminal windows opened
  MaxFaults     \* bound on the scripts that do not arrive

TerminalAssumption ==
  /\ Command \subseteq STRING /\ "" \notin Command
  /\ {CoreScripts, MaxEnters, MaxOpens, MaxFaults} \subseteq Nat

VARIABLES
  ready,    \* scripts that listen, in the order they began to
  core,     \* swir-v17's loader: scripts loaded, and whether it is at work
  open,     \* there is a terminal window
  input,    \* the text of its input
  history,  \* commands the shell's own interpreter has run in it
  index,    \* historyIndex
  shown,    \* lines of the window: what was entered, by number, and who wrote
  waiting,  \* answers that wait for an await or a timer
  spent     \* commands entered, windows opened, scripts that failed

termVars == <<ready, core, open, input, history, index, shown, waiting, spent>>

V12Words == {"files", "explorer", "notes", "calc", "calculator", "music", "player",
             "monitor", "sysinfo", "store", "lock"}
V13Words == {"chat", "msg", "ps", "taskmgr", "update", "updates", "platform",
             "permissions", "packages", "version"}
NativeWords == {"chatserver", "chatapi", "serverkit", "services", "servicectl"}
V14Words == {"whoami", "users", "userctl", "session", "logout"}
V15Words == {"device", "devices", "devmgr", "network", "net", "netctl", "settings",
             "config", "hostname", "ipconfig"}
V16Words == {"pkg", "packages", "sdk", "appinfo", "install", "remove", "pkgcheck",
             "pkgaudit", "runtime"}
V17Words == {"assoc", "defaults", "openwith", "appdata", "filetypes", "notifytest",
             "notifications", "integrity", "catalog", "trust", "installflow", "runtime"}

Knows == [native |-> NativeWords, v12 |-> V12Words, v13 |-> V13Words, v14 |-> V14Words,
          v15 |-> V15Words, v16 |-> V16Words, v17 |-> V17Words]

\* Commands answered after an await: the echo is written at once, the answer later.
Awaits(s) == CASE s = "v14" -> V14Words
               [] s = "v15" -> {"hostname"}
               [] s = "v16" -> {"pkgcheck", "pkgaudit"}
               [] s = "v17" -> {"notifytest", "catalog"}
               [] OTHER -> {}

\* Two scripts add a line to "help" on a timer, and let the event go on.
Hints(c) == IF c = "help" THEN {"v12", "v13"} \cap ToSet(ready) ELSE {}

-------------------------------------------------------------------------------
(* The scripts come to listen.                                               *)

\* Mutant: swir-v16 starts on a timer, as the scripts before it do.
AtOnceNative == <<"native">>

\* The scripts that listen as soon as the document has been read, with the shell's own
\* start and before any event of the user's.
AtOnce == <<"native", "v16">>

DocumentRead ==
  /\ ready = <<>> /\ ready' = AtOnce
  /\ UNCHANGED <<core, open, input, history, index, shown, waiting, spent>>

\* The others start on timers set then (swir-v12 before swir-v13), or when the
\* platform (swir-v14, swir-v15) or the runtime core (swir-v17) is there.
Starts(s) ==
  /\ ready # <<>>
  /\ s = "v13" => "v12" \in ToSet(ready)
  /\ s = "v17" => core.loaded = CoreScripts

Register(s) ==
  /\ s \notin ToSet(ready) /\ Starts(s)
  /\ ready' = Append(ready, s)
  /\ UNCHANGED <<core, open, input, history, index, shown, waiting, spent>>

\* loadRuntimeCore, which swir-v17 tries again every 60 ms until nothing is missing.
LoadCore ==
  /\ ~core.loading /\ core.loaded < CoreScripts
  /\ core' = [core EXCEPT !.loading = TRUE]
  /\ UNCHANGED <<ready, open, input, history, index, shown, waiting, spent>>

\* The scripts are fetched one after another; the first that fails ends the attempt.
CoreArrives ==
  /\ core.loading
  /\ \/ /\ core' = [loaded |-> core.loaded + 1, loading |-> core.loaded + 1 < CoreScripts]
        /\ UNCHANGED spent
     \/ /\ spent.faults < MaxFaults
        /\ core' = [core EXCEPT !.loading = FALSE]
        /\ spent' = [spent EXCEPT !.faults = @ + 1]
  /\ UNCHANGED <<ready, open, input, history, index, shown, waiting>>

-------------------------------------------------------------------------------
(* The window.                                                               *)

\* hydrateTerminal: a new window has an empty history.
OpenTerminal ==
  /\ ~open /\ ready # <<>> /\ spent.opens < MaxOpens
  /\ open' = TRUE /\ input' = "" /\ history' = <<>> /\ index' = 0 /\ shown' = {}
  /\ spent' = [spent EXCEPT !.opens = @ + 1]
  /\ UNCHANGED <<ready, core, waiting>>

CloseTerminal ==
  /\ open /\ open' = FALSE /\ input' = "" /\ history' = <<>> /\ index' = 0 /\ shown' = {}
  /\ UNCHANGED <<ready, core, waiting, spent>>

Type(c) ==
  /\ open /\ input' = c
  /\ UNCHANGED <<ready, core, open, history, index, shown, waiting, spent>>

\* What stands at place i of the history, counted from 0 as the code does.
Recalled(i) == IF i < Len(history) THEN history[i + 1] ELSE ""

ArrowUp ==
  /\ open /\ history # <<>>
  /\ index' = IF index = 0 THEN 0 ELSE index - 1
  /\ input' = Recalled(index')
  /\ UNCHANGED <<ready, core, open, history, shown, waiting, spent>>

ArrowDown ==
  /\ open
  /\ index' = IF index < Len(history) THEN index + 1 ELSE Len(history)
  /\ input' = Recalled(index')
  /\ UNCHANGED <<ready, core, open, history, shown, waiting, spent>>

\* The places, in the order of listening, of the listeners that act on c.
Knowers(c) == {i \in DOMAIN ready : c \in Knows[ready[i]]}

\* Who interprets c: stopImmediatePropagation of the first that knows it keeps it from all
\* the later ones, the input's own listener included.
Reaches(c) ==
  IF Knowers(c) = {} THEN {"shell"}
  ELSE {ready[CHOOSE i \in Knowers(c) : \A j \in Knowers(c) : i <= j]}

Line(n, c, s) == [n |-> n, cmd |-> c, by |-> s]

\* execute keeps the command, whatever it is, and clears the screen for "clear".
\* An interpreter that answers at once writes its echo and its answer together.
Enter ==
  /\ open /\ input # "" /\ spent.enters < MaxEnters
  /\ LET c  == input
         n  == spent.enters + 1
         by == Reaches(c)
     IN  /\ shown' = IF c = "clear" /\ "shell" \in by THEN {}
                     ELSE shown \cup {Line(n, c, s) : s \in by}
         /\ waiting' = waiting \cup {Line(n, c, s) : s \in
                                       {s \in by : c \in Awaits(s)} \cup Hints(c)}
         /\ history' = IF "shell" \in by THEN Append(history, c) ELSE history
         /\ index' = IF "shell" \in by THEN Len(history') ELSE index
  /\ input' = ""
  /\ spent' = [spent EXCEPT !.enters = @ + 1]
  /\ UNCHANGED <<ready, core, open>>

\* An answer is written to the terminal there is by then, if there is one; one whose
\* service throws is never written.
Answer(line) ==
  /\ waiting' = waiting \ {line}
  /\ shown' \in IF open THEN {shown, shown \cup {line}} ELSE {shown}
  /\ UNCHANGED <<ready, core, open, input, history, index, spent>>

TerminalInit ==
  /\ ready = <<>> /\ core = [loaded |-> 0, loading |-> FALSE]
  /\ open = FALSE /\ input = "" /\ history = <<>> /\ index = 0
  /\ shown = {} /\ waiting = {}
  /\ spent = [enters |-> 0, opens |-> 0, faults |-> 0]

TerminalNext ==
  \/ DocumentRead
  \/ \E s \in DOMAIN Knows : Register(s)
  \/ LoadCore \/ CoreArrives
  \/ OpenTerminal \/ CloseTerminal
  \/ \E c \in Command : Type(c)
  \/ ArrowUp \/ ArrowDown \/ Enter
  \/ \E line \in waiting : Answer(line)

TerminalSpec == TerminalInit /\ [][TerminalNext]_termVars

\* A word means one thing.  However the scripts' starts interleave with the user, a
\* command is answered by one interpreter (hints to "help" aside), and the words that
\* swir-v16 shares with swir-v13 ("packages") and swir-v17 ("runtime") are always its
\* own: only the order in which the scripts came to listen decides that.
OneMeaning ==
  \A a, b \in shown :
    /\ a.n = b.n /\ a.cmd # "help" => a.by = b.by
    /\ a.cmd \in V16Words => a.by = "v16"

-------------------------------------------------------------------------------
\* The two that come at once are the first to listen, there is no window before them,
\* and the lines of a number, those that still wait included, are of one command.
TerminalInv ==
  /\ ready \in Seq(DOMAIN Knows)
  /\ ready # <<>> => Len(ready) >= 2 /\ ready[1] = "native" /\ ready[2] = "v16"
  /\ open => ready # <<>>
  /\ {"enters", "opens", "faults"} \subseteq DOMAIN spent /\ spent.enters \in Nat
  /\ \A a \in shown \cup waiting :
       /\ a.n \in 1 .. spent.enters
       /\ a.cmd \in V16Words => a.by = "v16"
  /\ \A a, b \in shown \cup waiting :
       a.n = b.n => a.cmd = b.cmd /\ (a.cmd # "help" => a.by = b.by)
================================================================================
