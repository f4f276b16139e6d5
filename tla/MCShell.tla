------------------------------- MODULE MCShell -------------------------------
(***************************************************************************)
(* The web shell, its services and the release workflow, model-checked     *)
(* side by side as in MCSystem: a behaviour is one of the component that   *)
(* focus names, and the slots are its variables.                           *)
(***************************************************************************)
EXTENDS Naturals, TLC

CONSTANTS
  Foci,                \* the components a run looks at
  Once, Twice,         \* bounds
  Versions, Keys, FirstKey,   \* of releases
  Beside,              \* windows beside the Update Center
  Words,               \* that a user types in the terminal
  Wants1, Wants2,      \* permissions of the two versions of a package
  One, Pair, Other, NoOne   \* interchangeable identities

VARIABLES
  focus,  \* the component this behaviour is of
  v1, v2, v3, v4, v5, v6, v7, v8, v9, v10, v11, v12, v13, v14, v15, v16, v17,
  v18, v19, v20, v21, v22, v23, v24  \* its variables, in the order it declares them

slots == <<focus,
          v1, v2, v3, v4, v5, v6, v7, v8, v9, v10, v11, v12, v13, v14, v15,
          v16, v17, v18, v19, v20, v21, v22, v23, v24>>

\* The slots a component with so many variables leaves over.
Over19 == <<v20, v21, v22, v23, v24>>
Over15 == <<v16, v17, v18, v19, Over19>>
Over14 == <<v15, Over15>>
Over11 == <<v12, v13, v14, Over14>>
Over9 == <<v10, v11, Over11>>
Over8 == <<v9, Over9>>
Over7 == <<v8, Over8>>
Over5 == <<v6, v7, Over7>>
Over4 == <<v5, Over5>>

Blank19 == v20 = 0 /\ v21 = 0 /\ v22 = 0 /\ v23 = 0 /\ v24 = 0
Blank15 == v16 = 0 /\ v17 = 0 /\ v18 = 0 /\ v19 = 0 /\ Blank19
Blank14 == v15 = 0 /\ Blank15
Blank11 == v12 = 0 /\ v13 = 0 /\ v14 = 0 /\ Blank14
Blank9 == v10 = 0 /\ v11 = 0 /\ Blank11
Blank8 == v9 = 0 /\ Blank9
Blank7 == v8 = 0 /\ Blank8
Blank5 == v6 = 0 /\ v7 = 0 /\ Blank7
Blank4 == v5 = 0 /\ Blank5

Symmetry == Permutations(Pair) \cup Permutations(Other)

\* Packages: app needs lib, and every version of it may want other permissions.
AppNeedsLib == [app |-> {"lib"}, lib |-> {}]
AppWants ==
  [app |-> [v \in 0 .. 2 |-> IF v = 0 THEN {} ELSE IF v = 1 THEN Wants1 ELSE Wants2],
   lib |-> [v \in 0 .. 2 |-> {}]]

\* Locales: an alias, one that shares its script, and one without translations.
Locales == {"en", "no", "nb", "zh-TW", "zh-Hant", "zh"}
Complete(f, default) == [l \in Locales |-> IF l \in DOMAIN f THEN f[l] ELSE default]
ScriptOfLocale == Complete([l \in {"zh-TW", "zh-Hant"} |-> "zh-Hant"], "none")
LanguageOfLocale == [l \in Locales |-> IF l \in {"zh-TW", "zh-Hant"} THEN "zh" ELSE l]
AliasOfLocale == Complete([l \in {"no"} |-> "nb"], "none")
BaseTranslations == Complete([l \in {"en", "nb"} |-> {"shell"}], {})
PackTranslations ==
  <<Complete([l \in {"en", "zh"} |-> {"files"}], {}),
    Complete([l \in {"zh-Hant", "nb"} |-> IF l = "nb" THEN {"files"} ELSE {"shell"}], {})>>

-------------------------------------------------------------------------------
Packages == INSTANCE WebPackages WITH
  Op <- Pair, Package <- {"app", "lib"}, Needs <- AppNeedsLib,
  Wanted <- AppWants, installed <- v1, granted <- v2, journal <- v3,
  pc <- v4, goal <- v5, view <- v6, target <- v7, before <- v8, todo <- v9,
  strayed <- v10, disturbed <- v11

Shell == INSTANCE DesktopShell WITH
  Window <- {"terminal"} \cup One, Shortcut <- One, MaxSignals <- Once,
  None <- NoOne, order <- v1, stack <- v2, minimized <- v3, maximized <- v4,
  focused <- v5, lit <- v6, active <- v7, screen <- v8, lockDue <- v9,
  locked <- v10, launcher <- v11, panel <- v12, bell <- v13, icons <- v14

Policy == INSTANCE UpdatePolicy WITH
  Window <- {"updates"} \cup Beside, Shortcut <- {}, MaxSignals <- 0, None <- NoOne,
  MaxReload <- Once, order <- v1, stack <- v2, minimized <- v3, maximized <- v4,
  focused <- v5, lit <- v6, active <- v7, screen <- v8, lockDue <- v9,
  locked <- v10, launcher <- v11, panel <- v12, bell <- v13, icons <- v14,
  mode <- v15, done <- v16, request <- v17, settle <- v18, hidden <- v19,
  frame <- v20, closing <- v21, host <- v22, story <- v23, reloads <- v24

Files == INSTANCE WebFiles WITH
  File <- One, None <- NoOne, MaxEdits <- Once, MaxFaults <- Once,
  MaxReload <- Once, MaxOpens <- Once, record <- v1, memory <- v2,
  revision <- v3, provider <- v4, vfs <- v5, calls <- v6, pass <- v7,
  queued <- v8, hydrateQueued <- v9, events <- v10, folder <- v11,
  explorer <- v12, mirror <- v13, faults <- v14, spent <- v15

Bridge == INSTANCE AppBridge WITH
  File <- Other, None <- NoOne, MaxCalls <- Twice, MaxTick <- Once, MaxUser <- Twice,
  frame <- v1, now <- v2, seq <- v3, made <- v4, pending <- v5, host <- v6,
  received <- v7, granted <- v8, native <- v9, legacy <- v10, wanted <- v11,
  claimable <- v12, opening <- v13, timers <- v14, slot <- v15, slot2 <- v16,
  last <- v17, shown <- v18, given <- v19

Notifications == INSTANCE WebNotifications WITH
  System <- "system", App <- {"system", "chat"}, Tag <- {"t"},
  NoTag <- "none", MaxHistory <- 2, MaxSend <- 2, MaxFaults <- 1,
  MaxReload <- 1, MaxHydrate <- 1, granted <- v1, aged <- v2, history <- v3,
  stored <- v4, sends <- v5, loading <- v6, faults <- v7, reloads <- v8,
  hydrations <- v9

Identity == INSTANCE WebIdentity WITH
  Profile <- {"swir"} \cup One, Default <- "swir", Pin <- One, None <- NoOne,
  MaxCalls <- Twice, MaxFaults <- Once, MaxReload <- Once, up <- v1, users <- v2,
  active <- v3, calls <- v4, complete <- v5, faults <- v6, reloads <- v7

Release == INSTANCE ReleaseFeed WITH
  Version <- Versions, Key <- Keys, FirstKey <- FirstKey, None <- NoOne,
  MaxMain <- 3, MaxByHand <- 1, MaxRotate <- 1, MaxRerun <- 0, main <- v1,
  pinned <- v2, build <- v3, releases <- v4, promo <- v5, byHand <- v6,
  rotations <- v7, reruns <- v8

Reruns == INSTANCE ReleaseFeed WITH
  Version <- Versions, Key <- Keys, FirstKey <- FirstKey, None <- NoOne,
  MaxMain <- 4, MaxByHand <- 0, MaxRotate <- 0, MaxRerun <- 1, main <- v1,
  pinned <- v2, build <- v3, releases <- v4, promo <- v5, byHand <- v6,
  rotations <- v7, reruns <- v8

Media == INSTANCE MediaQueue WITH
  Local <- Other \cup Pair, Chime <- "chime", None <- NoOne, queue <- v1,
  loaded <- v2, urls <- v3, playing <- v4

Widgets == INSTANCE WidgetHost WITH
  MaxRender <- 4, MaxFaults <- 1, installed <- v1, renders <- v2, cards <- v3,
  ticking <- v4, clockTimer <- v5, faults <- v6, missed <- v7

Contexts == INSTANCE NativeContexts WITH
  App <- Pair, MaxSync <- 2, MaxFaults <- 1, installed <- v1, granted <- v2,
  armed <- v3, syncs <- v4, native <- v5, faults <- v6, missed <- v7

Locale == INSTANCE ShellLocale WITH
  Locale <- Locales, FallbackLocale <- "en", None <- "none",
  ScriptOf <- ScriptOfLocale, LanguageOf <- LanguageOfLocale,
  AliasOf <- AliasOfLocale, Key <- {"shell", "files"}, Frame <- One,
  BaseKeys <- BaseTranslations, PackScripts <- PackTranslations,
  currentLocale <- v1, messagePacks <- v2, position <- v3, form <- v4,
  frames <- v5

Appearance == INSTANCE ShellAppearance WITH
  Builtin <- {"neon", "glass"}, DefaultProfile <- "neon",
  Custom <- Pair, Accent <- {"blue", "green"},
  DefaultAccent <- "blue", Token <- Other, UnsafeToken <- NoOne,
  html <- v1, inline <- v2, activeCustomTokenKeys <- v3, stored <- v4,
  customProfiles <- v5

Terminal == INSTANCE ShellTerminal WITH
  Command <- Words, CoreScripts <- Once, MaxEnters <- Twice,
  MaxOpens <- Once, MaxFaults <- Once, ready <- v1, core <- v2, open <- v3,
  input <- v4, history <- v5, index <- v6, shown <- v7, waiting <- v8,
  spent <- v9

ASSUME ShellAssumption ==
  /\ Packages!WebPackagesAssumption
  /\ {Once, Twice} \subseteq Nat
  /\ Files!FilesAssumption
  /\ Notifications!NotificationsAssumption
  /\ Identity!IdentityAssumption
  /\ Release!ReleaseAssumption
  /\ Reruns!ReleaseAssumption
  /\ Media!MediaAssumption
  /\ Widgets!WidgetAssumption
  /\ Contexts!ContextsAssumption
  /\ Locale!LocaleAssumption
  /\ Appearance!AppearanceAssumption
  /\ Terminal!TerminalAssumption

-------------------------------------------------------------------------------
\* Bounds: what the workflow releases is built from the first commit; a release made by hand is
\* beside one of the workflow's, and the key changes only where none is made by hand.
FirstTwo ==
  /\ \A v \in Versions : v > Twice => v3'[v].at = "none" /\ v4'[v] = NoOne
  /\ \A v \in Versions : v4'[v] # NoOne => v4'[v].envelope.version <= Twice
  /\ v6' + v7' <= Once
\* An access of the file store fails, or the user reloads the page, but not both.
OneMishap == v15'.reloads > 0 => v14' = {}
OneCommit == \A v \in Versions : v3'[v].commit <= Once

Init ==
  /\ focus \in Foci
  /\ \/ focus = "packages" /\ Packages!Init /\ Blank11
     \/ focus = "shell" /\ Shell!ShellInit /\ Blank14
     \/ focus = "policy" /\ Policy!UpInit
     \/ focus = "files" /\ Files!FilesInit /\ Blank15
     \/ focus = "bridge" /\ Bridge!BridgeInit /\ Blank19
     \/ focus = "notifications" /\ Notifications!NotificationsInit /\ Blank9
     \/ focus = "identity" /\ Identity!IdentityInit /\ Blank7
     \/ focus = "release" /\ Release!ReleaseInit /\ Blank8
     \/ focus = "reruns" /\ Reruns!ReleaseInit /\ Blank8
     \/ focus = "media" /\ Media!MediaInit /\ Blank4
     \/ focus = "widgets" /\ Widgets!WidgetInit /\ Blank7
     \/ focus = "contexts" /\ Contexts!ContextsInit /\ Blank7
     \/ focus = "locale" /\ Locale!LocaleInit /\ Blank5
     \/ focus = "appearance" /\ Appearance!AppearanceInit /\ Blank5
     \/ focus = "terminal" /\ Terminal!TerminalInit /\ Blank9

Next ==
  \/ focus = "packages" /\ Packages!Next /\ UNCHANGED <<focus, Over11>>
  \/ focus = "shell" /\ Shell!ShellNext /\ UNCHANGED <<focus, Over14>>
  \/ focus = "policy" /\ Policy!UpNext /\ UNCHANGED focus
  \/ focus = "files" /\ Files!FilesNext /\ OneMishap /\ UNCHANGED <<focus, Over15>>
  \/ focus = "bridge" /\ Bridge!BridgeNext /\ UNCHANGED <<focus, Over19>>
  \/ focus = "notifications" /\ Notifications!NotificationsNext /\ UNCHANGED <<focus, Over9>>
  \/ focus = "identity" /\ Identity!IdentityNext /\ UNCHANGED <<focus, Over7>>
  \/ focus = "release" /\ Release!ReleaseNext /\ OneCommit /\ FirstTwo /\ UNCHANGED <<focus, Over8>>
  \/ focus = "reruns" /\ Reruns!ReleaseNext /\ OneCommit /\ UNCHANGED <<focus, Over8>>
  \/ focus = "media" /\ Media!MediaNext /\ UNCHANGED <<focus, Over4>>
  \/ focus = "widgets" /\ Widgets!WidgetNext /\ UNCHANGED <<focus, Over7>>
  \/ focus = "contexts" /\ Contexts!ContextsNext /\ UNCHANGED <<focus, Over7>>
  \/ focus = "locale" /\ Locale!LocaleNext /\ UNCHANGED <<focus, Over5>>
  \/ focus = "appearance" /\ Appearance!AppearanceNext /\ UNCHANGED <<focus, Over5>>
  \/ focus = "terminal" /\ Terminal!TerminalNext /\ UNCHANGED <<focus, Over9>>

Spec == Init /\ [][Next]_slots

-------------------------------------------------------------------------------
\* What belongs together changes together: a package and its permissions, or a record of the
\* operation that split them is kept, and the hash of a PIN and the salt it was made with.
ChangedTogether ==
  /\ focus = "packages" => Packages!OneLogicalMutation
  /\ focus = "identity" => Identity!PinOfItsSalt

\* The task bar, the frames and the order of the windows agree, and the update
\* that a policy asks for at startup runs once.
DesktopConsistent ==
  /\ focus = "shell" => Shell!HighlightIsFront
  /\ focus = "policy" => Policy!HighlightIsFront /\ Policy!OneStartupRun

\* An app gets the answer to its own call, and is shown the file opened last.
AppBridgeKept ==
  focus = "bridge" => Bridge!AnswerIsOwn /\ Bridge!LastFileShown

\* What the user sees and hears follows what is stored, once nothing is under way: the track
\* that plays, a card of each installed widget and, but for the system card, none of another,
\* and the contexts the broker has.
SurfacesFollow ==
  /\ focus = "media" => Media!PlaysTheCurrent
  /\ focus = "widgets" => Widgets!WidgetsShown /\ Widgets!OnlySystemLingers
  /\ focus = "contexts" => Contexts!ContextsFollow

\* Whatever the order of the scripts, every surface is in the current language,
\* the document has the stored appearance, and a command has one meaning.
PresentationAgrees ==
  /\ focus = "locale" => Locale!ShowsTheLocale
  /\ focus = "appearance" => Appearance!AppearanceAgrees
  /\ focus = "terminal" => Terminal!OneMeaning

\* The revision of the stored files never goes back, and neither does the version
\* in the feed of a release channel, however their writers overlap.
NothingGoesBack ==
  [][/\ focus = "files" => Files!RevisionNeverBackStep
     /\ focus = "release" => Release!FeedNeverBackStep
     /\ focus = "reruns" => Reruns!FeedNeverBackStep]_slots

\* A notification leaves the history for a reason of its own only.
CardsGoForReason ==
  [][focus = "notifications" => Notifications!CardsGoForReasonStep]_slots
===============================================================================
