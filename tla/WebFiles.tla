------------------------------- MODULE WebFiles --------------------------------
(***************************************************************************)
(* The files of the web shell.  One record holds them all, written through *)
(* swir-file-storage.js (the manifest of the desktop edition or a record   *)
(* of IndexedDB) by three callers that never agree with one another: the   *)
(* bridge of swir-platform-bridge.js, which copies the legacy key of       *)
(* localStorage into it, the desktop's "New virtual folder" (swir-v12.js)  *)
(* and File Explorer, a frame of the same origin whose removal of the      *)
(* legacy key is a storage event in the shell.                             *)
(***************************************************************************)
EXTENDS Integers, FiniteSets

CONSTANTS
  File,       \* files and folders the user may create
  None,
  MaxEdits,   \* bound on what the user creates or removes
  MaxFaults,  \* bound on the kinds of access that fail
  MaxReload,  \* bound on the reloads of the page
  MaxOpens    \* bound on the openings of File Explorer

FilesAssumption == None \notin [revision : Nat, items : SUBSET File]

VARIABLES
  record,    \* the stored record: its revision and its items, None before the first save
  memory,    \* memoryState, what stands in for a store that cannot be read
  revision,  \* the adapter's revision
  provider,  \* where the last call found its state
  vfs,       \* the legacy key of localStorage, None when it is not there
  calls,     \* the call each caller has made of the adapter
  pass,      \* the bridge: what its drain loop does
  queued, hydrateQueued,
  events,    \* storage events of the legacy key the shell has yet to see
  folder,    \* mutateVFS: its step and the folder it adds
  explorer,  \* File Explorer: its step, its items, the saves it has queued
  mirror,    \* the legacy items the platform's own file list shows
  faults,    \* the kinds of access of the store that failed so far
  spent      \* edits, reloads and openings so far

fileVars == <<record, memory, revision, provider, vfs, calls, pass, queued, hydrateQueued,
              events, folder, explorer, mirror, faults, spent>>
storeVars  == <<record, memory, revision, provider>>
bridgeVars == <<pass, queued, hydrateQueued, mirror>>
userVars   == <<folder, explorer>>

Caller == {"bridge", "folder", "explorer"}
NoCall == [at |-> "none", op |-> "load", items |-> {}, read |-> None]
IdlePass == [at |-> "idle", hydrate |-> FALSE]
NoFolder == [at |-> "idle", file |-> None]
Closed == [at |-> "closed", data |-> {}, legacy |-> FALSE, saves |-> 0]

RevisionOf(r) == IF r = None THEN 0 ELSE r.revision
Larger(a, b)  == IF a > b THEN a ELSE b
Listed(v)     == IF v = None THEN {} ELSE v
Spend(what)   == spent' = [spent EXCEPT ![what] = @ + 1]
Fault(kind)   == Cardinality(faults) < MaxFaults /\ faults' = faults \cup {kind}
Persistent    == provider # "memory"

--------------------------------------------------------------------------------
(* swir-file-storage.js.  A call reads, then decides and writes, then notes  *)
(* the revision; other calls come in between.  Writes of one page reach the  *)
(* store in the order they are made.                                         *)

\* The first half of load and save: the read.  One that fails falls back on the memory
\* in the web edition.  In the desktop edition the manifest is then unreadable: a load
\* is rejected, and a save goes on as if there were none.  A record of the adapter's
\* first version is put back by its reader with its contents split off, at the same
\* revision and with the same items, and before any write that was begun after the read;
\* where that put fails the read has failed.
Called(c, op, items, from) ==
  /\ calls[c].at \in {"none", "done"}
  /\ provider' = IF from = "memory" THEN "memory" ELSE "store"
  /\ calls' = [calls EXCEPT ![c] =
        [at |-> IF from = "unreadable" /\ op = "load" THEN "failed" ELSE "read",
         op |-> op, items |-> items,
         read |-> IF from = "memory" THEN memory
                  ELSE IF from = "store" THEN record ELSE None]]
  /\ IF from = "store" THEN UNCHANGED faults ELSE Fault("read")

\* Mutant: the revision of the next record is one above the one this call read.
NextOfRead(seen) == RevisionOf(seen) + 1

\* makeState: the revision of the next record.
NextRevision(seen) == Larger(revision, RevisionOf(seen)) + 1

\* The write: of the items given, when a load finds a record there is none.
Written(c) ==
  LET call == calls[c]
      state == [revision |-> NextRevision(call.read), items |-> call.items]
  IN  /\ call.at = "read"
      /\ call.op = "save" \/ call.read = None
      /\ IF provider = "memory" THEN memory' = state /\ UNCHANGED record
                                ELSE record' = state /\ UNCHANGED memory
      /\ calls' = [calls EXCEPT ![c].at = "written", ![c].read = state]
      /\ revision' = Larger(revision, RevisionOf(call.read))
      /\ UNCHANGED <<provider, vfs, bridgeVars, events, userVars, spent, faults>>

\* parseState of a record a load has found.
Found(c) ==
  /\ calls[c].at = "read" /\ calls[c].op = "load" /\ calls[c].read # None
  /\ revision' = Larger(revision, RevisionOf(calls[c].read))
  /\ calls' = [calls EXCEPT ![c].at = "done"]
  /\ UNCHANGED <<record, memory, provider, vfs, bridgeVars, events, userVars, spent, faults>>

\* The write is complete, as the ones made before it are.
Noted(c) ==
  /\ calls[c].at = "written"
  /\ \A d \in Caller : calls[d].at = "written" =>
        calls[c].read.revision <= calls[d].read.revision
  /\ revision' = calls[c].read.revision
  /\ calls' = [calls EXCEPT ![c].at = "done"]
  /\ UNCHANGED <<record, memory, provider, vfs, bridgeVars, events, userVars, spent, faults>>

\* The write is refused, for want of space say.
Refused(c) ==
  /\ calls[c].at = "read" /\ (calls[c].op = "save" \/ calls[c].read = None)
  /\ Fault("write")
  /\ revision' = Larger(revision, RevisionOf(calls[c].read))
  /\ calls' = [calls EXCEPT ![c].at = "failed"]
  /\ UNCHANGED <<record, memory, provider, vfs, bridgeVars, events, userVars, spent>>

Taken(c)    == calls' = [calls EXCEPT ![c] = NoCall]
Answered(c) == calls[c].at = "done" /\ Taken(c)
Failed(c)   == calls[c].at = "failed" /\ Taken(c)

Sources == {"store", "memory", "unreadable"}

--------------------------------------------------------------------------------
(* swir-platform-bridge.js.                                                  *)

\* syncFiles: the first starts the drain loop, the others are queued behind it.
SyncFiles(hydrate) ==
  IF pass.at = "idle"
    THEN /\ pass' = [at |-> "begin", hydrate |-> hydrate \/ hydrateQueued]
         /\ queued' = FALSE /\ hydrateQueued' = FALSE
    ELSE /\ queued' = TRUE /\ hydrateQueued' = (hydrateQueued \/ hydrate)
         /\ UNCHANGED pass

\* The storage listener.
StorageEvent ==
  /\ events > 0 /\ events' = events - 1
  /\ SyncFiles(FALSE)
  /\ UNCHANGED <<storeVars, vfs, calls, mirror, userVars, spent, faults>>

\* performFileSync reads the legacy key and loads or saves.
PassBegins ==
  /\ pass.at = "begin"
  /\ \E from \in Sources :
       Called("bridge", IF pass.hydrate THEN "load" ELSE "save", Listed(vfs), from)
  /\ pass' = [pass EXCEPT !.at = "stored"]
  /\ UNCHANGED <<record, memory, revision, vfs, queued, hydrateQueued, events, mirror, userVars, spent>>

\* The state is there: a hydrating pass writes the key; the items are mirrored
\* (syncPlatformFiles) and the loop goes round while a pass is queued.
PassEnds ==
  /\ pass.at = "stored" /\ Answered("bridge")
  /\ vfs' = IF pass.hydrate THEN calls["bridge"].read.items ELSE vfs
  /\ mirror' = calls["bridge"].read.items
  /\ pass' = IF queued \/ hydrateQueued THEN [at |-> "begin", hydrate |-> hydrateQueued]
                                        ELSE IdlePass
  /\ queued' = FALSE /\ hydrateQueued' = FALSE
  /\ UNCHANGED <<storeVars, events, userVars, spent, faults>>

\* A rejected pass ends the loop; what is queued waits for the next call.
PassFails ==
  /\ pass.at = "stored" /\ Failed("bridge")
  /\ pass' = IdlePass
  /\ UNCHANGED <<storeVars, vfs, queued, hydrateQueued, mirror, events, userVars, spent, faults>>

--------------------------------------------------------------------------------
(* mutateVFS of swir-v12.js, by newFolder.                                   *)

NewFolder(f) ==
  /\ folder.at = "idle" /\ spent.edits < MaxEdits
  /\ \E from \in Sources : Called("folder", "load", Listed(vfs), from)
  /\ folder' = [at |-> "loading", file |-> f]
  /\ UNCHANGED <<record, memory, revision, vfs, bridgeVars, events, explorer, spent>>

FolderAdded ==
  /\ folder.at = "loading" /\ calls["folder"].at = "done"
  /\ \E from \in Sources :
       Called("folder", "save", calls["folder"].read.items \cup {folder.file}, from)
  /\ folder' = [folder EXCEPT !.at = "saving"]
  /\ Spend("edits")
  /\ UNCHANGED <<record, memory, revision, vfs, bridgeVars, events, explorer>>

\* The shell's own removal of the key is no event of the shell.
FolderSaved ==
  /\ folder.at = "saving" /\ Answered("folder")
  /\ vfs' = IF Persistent THEN None ELSE vfs
  /\ folder' = NoFolder
  /\ UNCHANGED <<storeVars, bridgeVars, events, explorer, spent, faults>>

FolderFails ==
  /\ folder.at # "idle" /\ Failed("folder")
  /\ folder' = NoFolder
  /\ UNCHANGED <<storeVars, vfs, bridgeVars, events, explorer, spent, faults>>

--------------------------------------------------------------------------------
(* File Explorer, swir-files.html, calling the shell's adapter.              *)

\* initStorage.
ExplorerOpens ==
  /\ explorer.at = "closed" /\ spent.opens < MaxOpens /\ Spend("opens")
  /\ \E from \in Sources : Called("explorer", "load", Listed(vfs), from)
  /\ explorer' = [Closed EXCEPT !.at = "loading", !.legacy = Listed(vfs) # {}]
  /\ UNCHANGED <<record, memory, revision, vfs, bridgeVars, events, folder>>

\* Its items are there; a legacy key that had some is removed, in the shell's sight.
ExplorerReady ==
  /\ explorer.at = "loading" /\ Answered("explorer")
  /\ explorer' = [explorer EXCEPT !.at = "ready", !.data = calls["explorer"].read.items]
  /\ IF explorer.legacy /\ Persistent
       THEN /\ vfs' = None
            /\ events' = events + (IF vfs = None THEN 0 ELSE 1)
       ELSE UNCHANGED <<vfs, events>>
  /\ UNCHANGED <<storeVars, bridgeVars, folder, spent, faults>>

\* write, by making or importing a file or by deleting one: a save is queued.
ExplorerEdit ==
  /\ explorer.at = "ready" /\ spent.edits < MaxEdits
  /\ \E f \in File :
       \/ /\ f \notin explorer.data
          /\ explorer' = [explorer EXCEPT !.data = @ \cup {f}, !.saves = @ + 1]
       \/ /\ f \in explorer.data
          /\ explorer' = [explorer EXCEPT !.data = @ \ {f}, !.saves = @ + 1]
  /\ Spend("edits")
  /\ UNCHANGED <<storeVars, vfs, calls, bridgeVars, events, folder, faults>>

\* A queued save saves the items of the moment it starts.
ExplorerSaves ==
  /\ explorer.at = "ready" /\ explorer.saves > 0
  /\ \E from \in Sources : Called("explorer", "save", explorer.data, from)
  /\ explorer' = [explorer EXCEPT !.at = "saving", !.saves = @ - 1]
  /\ UNCHANGED <<record, memory, revision, vfs, bridgeVars, events, folder, spent>>

\* It is saved, or "STORAGE ERROR" is shown; the next one may start.
ExplorerSaved ==
  /\ explorer.at = "saving" /\ (Answered("explorer") \/ Failed("explorer"))
  /\ explorer' = [explorer EXCEPT !.at = "ready"]
  /\ UNCHANGED <<storeVars, vfs, bridgeVars, events, folder, spent, faults>>

\* The window is closed with nothing under way, or its storage could not be read.
ExplorerCloses ==
  /\ \/ explorer.at = "ready" /\ explorer.saves = 0 /\ UNCHANGED calls
     \/ explorer.at = "loading" /\ Failed("explorer")
  /\ explorer' = Closed
  /\ UNCHANGED <<storeVars, vfs, bridgeVars, events, folder, spent, faults>>

--------------------------------------------------------------------------------
\* A page begins: the bridge hydrates (initial).
PageInit ==
  /\ memory = None /\ revision = 0 /\ provider = "store"
  /\ calls = [c \in Caller |-> NoCall]
  /\ pass = [at |-> "begin", hydrate |-> TRUE] /\ queued = FALSE /\ hydrateQueued = FALSE
  /\ events = 0
  /\ folder = NoFolder /\ explorer = Closed

\* The user reloads it: what was written stays.
Reload ==
  /\ spent.reloads < MaxReload /\ Spend("reloads")
  /\ memory' = None /\ revision' = 0 /\ provider' = "store"
  /\ calls' = [c \in Caller |-> NoCall]
  /\ pass' = [at |-> "begin", hydrate |-> TRUE] /\ queued' = FALSE /\ hydrateQueued' = FALSE
  /\ events' = 0
  /\ folder' = NoFolder /\ explorer' = Closed
  /\ UNCHANGED <<record, vfs, mirror, faults>>

FilesInit ==
  /\ PageInit
  /\ record \in {None} \cup [revision : {1}, items : {{}, File}]
  /\ vfs \in {None} \cup (SUBSET File)
  /\ vfs # None => Cardinality(vfs) <= 1
  /\ mirror = {} /\ faults = {}
  /\ spent = [edits |-> 0, reloads |-> 0, opens |-> 0]

FilesNext ==
  \/ StorageEvent \/ PassBegins \/ PassEnds \/ PassFails
  \/ (\E f \in File : NewFolder(f)) \/ FolderAdded \/ FolderSaved \/ FolderFails
  \/ ExplorerOpens \/ ExplorerReady \/ ExplorerEdit \/ ExplorerSaves \/ ExplorerSaved
  \/ ExplorerCloses \/ Reload
  \/ \E c \in Caller : Written(c) \/ Found(c) \/ Noted(c) \/ Refused(c)

FilesSpec == FilesInit /\ [][FilesNext]_fileVars

--------------------------------------------------------------------------------
\* The revision of the stored record never goes back, however the saves of the
\* bridge, of a new folder and of File Explorer overlap, each reading the record in
\* one transaction and writing it in another (swir-file-storage.js, save).  A read
\* that fails voids it: that call works on the memory, and yet writes the record if
\* another call has set the shared provider since; or saves over a manifest it could
\* not read.
RevisionNeverBackStep ==
  RevisionOf(record') >= RevisionOf(record) \/ "read" \in faults

RevisionNeverBack == [][RevisionNeverBackStep]_fileVars

\* While the user changes nothing, by a new folder or in File Explorer, no file leaves
\* the record: it is authoritative over the legacy key of localStorage ("native
\* manifest must be authoritative on Desktop startup",
\* scripts/validate-file-explorer-persistence.mjs).
RecordIsAuthoritative ==
  [][record # None /\ folder.at = "idle" /\ spent'.edits = 0
       => record'.items = record.items]_fileVars

--------------------------------------------------------------------------------
\* Stored records, what a call has read, and what the callers have.
Record == [revision : Nat, items : SUBSET File]

FilesType ==
  /\ {record, memory} \subseteq {None} \cup Record
  /\ revision \in Nat
  /\ vfs \in {None} \cup SUBSET File
  /\ calls \in [Caller -> [at : {"none", "read", "written", "done", "failed"},
                           op : {"load", "save"}, items : SUBSET File,
                           read : {None} \cup Record]]
  /\ \A c \in Caller : calls[c].at \in {"written", "done"} => calls[c].read # None
  /\ folder.at \in {"idle", "loading", "saving"}
  /\ folder.at # "idle" => folder.file \in File
  /\ "data" \in DOMAIN explorer /\ explorer.data \subseteq File

Writing == {c \in Caller : calls[c].at = "written"}

\* Callers that will write over a record they have not read.
Behind == {c \in Caller : calls[c].at = "read"
                          /\ RevisionOf(calls[c].read) < RevisionOf(record)}

\* While every read succeeds, the calls are at most one revision behind the record,
\* and the last of the writes that are not complete is the record itself.
RevisionsAreClose ==
  "read" \notin faults =>
    /\ provider = "store"
    /\ revision <= RevisionOf(record)
    /\ \A c \in Caller : RevisionOf(calls[c].read) <= RevisionOf(record)
    /\ Writing # {} => \E c \in Writing : calls[c].read.revision = RevisionOf(record)
    /\ Behind # {} => /\ RevisionOf(record) <= revision + 1
                      /\ \A c \in Writing : RevisionOf(record) <= calls[c].read.revision + 1

FilesInv == FilesType /\ RevisionsAreClose
================================================================================
