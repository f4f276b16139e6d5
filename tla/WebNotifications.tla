-------------------------- MODULE WebNotifications --------------------------
(***************************************************************************)
(* The notification service of the web shell, swir-notifications.js.       *)
(*                                                                         *)
(* A send waits twice, for the permission and for the native host, and     *)
(* only then reads the history, drops the card of the same application     *)
(* and tag, puts its own in front and saves.  Several sends are under way  *)
(* at once; the history may be cleared, hydrated from the store, or lost   *)
(* with the page in between.                                               *)
(*                                                                         *)
(* A card is its identifier, application and tag; titles, texts, actions   *)
(* and priorities are left out.  Identifiers are drawn at random by the    *)
(* code and taken as distinct here.                                        *)
(***************************************************************************)
EXTENDS Naturals, SequencesExt, FiniteSetsExt

CONSTANTS App,          \* installed applications and the system itself
          System,       \* the sender that needs no permission
          Tag,          \* tags a sender may give
          NoTag,        \* the empty tag
          MaxHistory,   \* MAX_HISTORY
          MaxSend,      \* sends in a behaviour
          MaxFaults,    \* saves that fail
          MaxReload,    \* reloads of the page
          MaxHydrate    \* hydrations

NotificationsAssumption ==
  /\ System \in App /\ NoTag \notin Tag
  /\ MaxHistory \in Nat \ {0}
  /\ {MaxSend, MaxFaults, MaxReload, MaxHydrate} \subseteq Nat

VARIABLES granted,   \* applications whose notifications permission is on
          aged,      \* cards older than MAX_AGE_MS
          history,   \* memoryHistory, newest first
          stored,    \* what the persistence adapter holds
          sends,     \* the sends begun, by number
          loading,   \* a hydration that has loaded: its rows
          faults, reloads, hydrations

nvars == <<granted, aged, history, stored, sends, loading, faults, reloads,
           hydrations>>

Card(i) == [id |-> i, app |-> sends[i].app, tag |-> sends[i].tag]

\* sanitizeHistory: rows that are too old are left out, the first of an
\* identifier is kept, and only so many are.
SanitizeHistory(rows) ==
  LET young == SelectSeq(rows, LAMBDA c : c.id \notin aged)
      once  == FoldLeft(LAMBDA s, c : IF \E k \in DOMAIN s : s[k].id = c.id
                                      THEN s ELSE Append(s, c), <<>>, young)
  IN  SubSeq(once, 1, Min({Len(once), MaxHistory}))

\* As if the search went by the tag alone.
WithoutThisTag(rows, card) ==
  LET same == {k \in DOMAIN rows : rows[k].tag = card.tag}
  IN  IF card.tag = NoTag \/ same = {} THEN rows
      ELSE RemoveAt(rows, Min(same))

\* The card of the same application and tag goes; only the first one, as
\* findIndex finds it.
WithoutSameTag(rows, card) ==
  LET same == {k \in DOMAIN rows : rows[k].app = card.app /\ rows[k].tag = card.tag}
  IN  IF card.tag = NoTag \/ same = {} THEN rows
      ELSE RemoveAt(rows, Min(same))

\* persistHistory: memory changes at once; the save may be refused by the
\* adapter or its size limit, which only the answer tells.
PersistHistory(rows) ==
  /\ history' = SanitizeHistory(rows)
  /\ \/ stored' = SanitizeHistory(rows) /\ UNCHANGED faults
     \/ faults < MaxFaults /\ faults' = faults + 1 /\ UNCHANGED stored

\* An application may send when it is the system, or holds the permission.
Allowed(a) == a = System \/ a \in granted

NotificationsInit ==
  /\ granted = App \ {System} /\ aged = {}
  /\ history = <<>> /\ stored = <<>> /\ sends = <<>>
  /\ loading = {} /\ faults = 0 /\ reloads = 0 /\ hydrations = 0

\* A send begins and asks for the permission.
Send(a, t) ==
  /\ Len(sends) < MaxSend
  /\ sends' = Append(sends, [app |-> a, tag |-> t, at |-> "asks"])
  /\ UNCHANGED <<granted, aged, history, stored, loading, faults, reloads, hydrations>>

\* The answer arrives; the card is made and handed to the native host.
Permitted(i) ==
  /\ sends[i].at = "asks"
  /\ sends' = [sends EXCEPT ![i].at = IF Allowed(sends[i].app) THEN "delivers" ELSE "denied"]
  /\ UNCHANGED <<granted, aged, history, stored, loading, faults, reloads, hydrations>>

\* What a send adds its card to: the history as it is once the host has
\* answered.
HistoryFor(i) == history

\* The host has answered: the rest of send runs in one piece up to the save.
\* A host that refuses rejects the send, and no card is made.
Delivered(i) ==
  /\ sends[i].at = "delivers"
  /\ \/ /\ sends' = [sends EXCEPT ![i].at = "sent"]
        /\ PersistHistory(<<Card(i)>> \o WithoutSameTag(HistoryFor(i), Card(i)))
     \/ /\ sends' = [sends EXCEPT ![i].at = "denied"]
        /\ UNCHANGED <<history, stored, faults>>
  /\ UNCHANGED <<granted, aged, loading, reloads, hydrations>>

\* clear: of one application, or of all.
Clear(a) ==
  /\ history # <<>>
  /\ PersistHistory(SelectSeq(history, LAMBDA c : c.app # a))
  /\ UNCHANGED <<granted, aged, sends, loading, reloads, hydrations>>

ClearAll ==
  /\ history # <<>>
  /\ PersistHistory(<<>>)
  /\ UNCHANGED <<granted, aged, sends, loading, reloads, hydrations>>

\* hydrate, as setPersistenceAdapter calls it: the rows are loaded, and
\* replace the memory only when the await has returned.
Hydrate ==
  /\ hydrations < MaxHydrate /\ loading = {}
  /\ loading' = {stored} /\ hydrations' = hydrations + 1
  /\ UNCHANGED <<granted, aged, history, stored, sends, faults, reloads>>

Hydrated ==
  /\ \E rows \in loading : history' = SanitizeHistory(rows)
  /\ loading' = {}
  /\ UNCHANGED <<granted, aged, stored, sends, faults, reloads, hydrations>>

\* A reload ends the sends under way; loadInitialHistory reads the store.
Reload ==
  /\ reloads < MaxReload /\ reloads' = reloads + 1
  /\ history' = SanitizeHistory(stored) /\ loading' = {}
  /\ sends' = [i \in DOMAIN sends |->
                 IF sends[i].at \in {"asks", "delivers"}
                 THEN [sends[i] EXCEPT !.at = "denied"] ELSE sends[i]]
  /\ UNCHANGED <<granted, aged, stored, faults, hydrations>>

\* The environment: a permission is turned, a card passes its age.
SetPermission(a) ==
  /\ granted' = IF a \in granted THEN granted \ {a} ELSE granted \cup {a}
  /\ UNCHANGED <<aged, history, stored, sends, loading, faults, reloads, hydrations>>

Ages(i) ==
  /\ sends[i].at = "sent" /\ aged = {}
  /\ aged' = {i}
  /\ UNCHANGED <<granted, history, stored, sends, loading, faults, reloads, hydrations>>

NotificationsNext ==
  \/ \E a \in App, t \in Tag \cup {NoTag} : Send(a, t)
  \/ \E i \in DOMAIN sends : Permitted(i)
  \/ \E i \in DOMAIN sends : Delivered(i)
  \/ \E i \in DOMAIN sends : Ages(i)
  \/ \E a \in App : Clear(a)
  \/ ClearAll \/ Hydrate \/ Hydrated \/ Reload
  \/ \E a \in App \ {System} : SetPermission(a)

NotificationsSpec == NotificationsInit /\ [][NotificationsNext]_nvars

-----------------------------------------------------------------------------
\* A card leaves the shown history only when it is too old, when a new card
\* of its own application and tag takes its place, when the history is full,
\* when its application is cleared, or with a hydration or a reload: sends
\* that overlap never drop each other's cards, and a tag never reaches into
\* another application.  send reads the history after its last wait for
\* this reason (swir-notifications.js:207).
CardsGoForReasonStep ==
  \A k \in DOMAIN history :
     LET c == history[k]
         stays(d) == \E j \in DOMAIN history' : history'[j].id = d.id
         isNew == history' # <<>> /\ \A j \in DOMAIN history :
                                     history[j].id # Head(history').id
     IN  ~ stays(c) =>
           \/ c.id \in aged
           \/ isNew /\ c.tag # NoTag /\ Head(history').app = c.app
                    /\ Head(history').tag = c.tag
           \/ isNew /\ k = MaxHistory
           \/ ~ isNew /\ \A j \in DOMAIN history : history[j].app = c.app
                                                 => ~ stays(history[j])
           \/ loading' # loading \/ reloads' # reloads

CardsGoForReason == [][CardsGoForReasonStep]_nvars
=============================================================================
