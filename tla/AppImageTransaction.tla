------------------------ MODULE AppImageTransaction ------------------------
(***************************************************************************)
(* AppImages a user installs without privilege.  The file of a package is  *)
(* replaced by a journaled transaction of file operations, each of which   *)
(* may fail, and the process may die between any two; recoverPending goes  *)
(* through the journals that were left.  Nothing locks one against the     *)
(* other.  The transactions are all of one package.                        *)
(***************************************************************************)
CONSTANTS
  Tx,        \* AppImage transactions
  Content,   \* what an AppImage file can hold: a release, or anything else
  None       \* no file

NoneAssumption == None \notin Content

VARIABLES
  target,    \* the AppImage under its managed name
  artifact,  \* the local file it is installed from
  backup,    \* the backup of each transaction
  temp,      \* its temporary copy
  journal,   \* the state in its journal
  at,        \* where execute() is
  plan,      \* its operation, the content the catalog authorized, "did it exist?"
  sweep,     \* what recoverPending() is at, and what it saw
  expected,  \* history: what the settled transactions leave
  spoiled    \* history: did two work at once, or was a failure not undone?

files   == <<target, artifact, backup, temp>>
history == <<expected, spoiled>>
uVars   == <<files, journal, at, plan, sweep, history>>

Idle      == [tx |-> None, saw |-> "nothing"]
Operation == {"install", "update", "remove"}
Live      == {t \in Tx : at[t] \notin {"idle", "done", "dead"}}
Unsettled == Live \cup {t \in Tx : journal[t] = "prepared"}

Goto(t, l) == at' = [at EXCEPT ![t] = l]

-------------------------------------------------------------------------------
(* execute().                                                                *)

\* The managed name is a regular file.
Exists == target # None

\* The plan binds the operation to the artifact of the manifest.
Plan(o, c) == [operation |-> o, content |-> c, existed |-> Exists]

\* validateAppImageUserPlan: one of the operations, on an artifact by its digest.
Valid(p) == p.operation \in Operation /\ p.content \in Content

\* The managed name exists for what is replaced or removed only.
Applicable(operation, exists) == operation = "install" <=> ~exists

\* The catalog authorization is that of the plan, and so is the artifact's digest.
Authorized(t) == plan[t].operation # "remove" => artifact = plan[t].content

Start(t) ==
  /\ at[t] = "idle"
  /\ \E o \in Operation, c \in Content :
       /\ Valid(Plan(o, c)) /\ Applicable(o, Exists)
       /\ plan' = [plan EXCEPT ![t] = Plan(o, c)]
  /\ Goto(t, "digest")
  /\ spoiled' = (spoiled \/ Unsettled # {})
  /\ UNCHANGED <<files, journal, sweep, expected>>

\* The artifact is read, and the journal written as prepared.
Prepare(t) ==
  /\ at[t] = "digest"
  /\ \/ /\ Authorized(t)
        /\ journal' = [journal EXCEPT ![t] = "prepared"]
        /\ Goto(t, IF plan[t].existed THEN "backup" ELSE "copy")
     \/ Goto(t, "done") /\ UNCHANGED journal
  /\ UNCHANGED <<files, plan, sweep, history>>

\* A file operation fails, or the post-copy digest does not match.
Fails(t) ==
  /\ at[t] \in {"backup", "copy", "place", "commit"}
  /\ Goto(t, "clean")
  /\ UNCHANGED <<files, journal, plan, sweep, history>>

Backup(t) ==
  /\ at[t] = "backup" /\ target # None
  /\ backup' = [backup EXCEPT ![t] = target] /\ target' = None
  /\ Goto(t, IF plan[t].operation = "remove" THEN "commit" ELSE "copy")
  /\ UNCHANGED <<artifact, temp, journal, plan, sweep, history>>

Copy(t) ==
  /\ at[t] = "copy"
  /\ temp' = [temp EXCEPT ![t] = artifact]
  /\ Goto(t, "verify")
  /\ UNCHANGED <<target, artifact, backup, journal, plan, sweep, history>>

\* Mutant: the copy is taken for what was hashed before.
TrustCopy(t) ==
  /\ at[t] = "verify"
  /\ Goto(t, "place")
  /\ UNCHANGED <<files, journal, plan, sweep, history>>

\* The copy is hashed again.
Verify(t) ==
  /\ at[t] = "verify"
  /\ Goto(t, IF temp[t] = plan[t].content THEN "place" ELSE "clean")
  /\ UNCHANGED <<files, journal, plan, sweep, history>>

Place(t) ==
  /\ at[t] = "place" /\ temp[t] # None
  /\ target' = temp[t] /\ temp' = [temp EXCEPT ![t] = None]
  /\ Goto(t, "commit")
  /\ UNCHANGED <<artifact, backup, journal, plan, sweep, history>>

Commit(t) ==
  /\ at[t] = "commit"
  /\ journal' = [journal EXCEPT ![t] = "committed"]
  /\ expected' = IF plan[t].operation = "remove" THEN None ELSE plan[t].content
  /\ Goto(t, "done")
  /\ UNCHANGED <<files, plan, sweep, spoiled>>

\* The error branch: the copy is removed, the backup is put back.
Clean(t) ==
  /\ at[t] = "clean"
  /\ temp' = [temp EXCEPT ![t] = None]
  /\ Goto(t, IF backup[t] # None THEN "unplace" ELSE "note")
  /\ UNCHANGED <<target, artifact, backup, journal, plan, sweep, history>>

Unplace(t) ==
  /\ at[t] = "unplace"
  /\ target' = None
  /\ Goto(t, "restore")
  /\ UNCHANGED <<artifact, backup, temp, journal, plan, sweep, history>>

\* A backup that cannot be put back goes unnoticed.
Restore(t) ==
  /\ at[t] = "restore"
  /\ \/ /\ target' = backup[t] /\ backup' = [backup EXCEPT ![t] = None]
        /\ UNCHANGED spoiled
     \/ spoiled' = TRUE /\ UNCHANGED <<target, backup>>
  /\ Goto(t, "note")
  /\ UNCHANGED <<artifact, temp, journal, plan, sweep, expected>>

\* The journal says recovered-after-error, or keeps what it said; an install whose
\* last journal write failed leaves its file in place.
Note(t) ==
  /\ at[t] = "note"
  /\ \/ /\ journal' = [journal EXCEPT ![t] = "recovered-after-error"]
        /\ spoiled' = (spoiled \/ (~plan[t].existed /\ target # None))
     \/ UNCHANGED <<journal, spoiled>>
  /\ Goto(t, "done")
  /\ UNCHANGED <<files, plan, sweep, expected>>

\* The process dies: whatever was under way stays as it is.
Crash ==
  /\ Live # {} \/ sweep # Idle
  /\ at' = [t \in Tx |-> IF t \in Live THEN "dead" ELSE at[t]]
  /\ sweep' = Idle
  /\ UNCHANGED <<files, journal, plan, history>>

\* The artifact is a file of the user's (external).
ArtifactChanges ==
  /\ artifact' \in Content \ {artifact}
  /\ UNCHANGED <<target, backup, temp, journal, at, plan, sweep, history>>

-------------------------------------------------------------------------------
(* recoverPending().                                                         *)

\* Only prepared journals of the managed root.
Recoverable(t) == journal[t] = "prepared"

SweepFinds(t) ==
  /\ sweep = Idle /\ Recoverable(t)
  /\ temp' = [temp EXCEPT ![t] = None]
  /\ sweep' = [tx |-> t, saw |-> IF backup[t] # None THEN "backup"
                                 ELSE IF target # None THEN "target" ELSE "neither"]
  /\ spoiled' = (spoiled \/ Live # {})
  /\ UNCHANGED <<target, artifact, backup, journal, at, plan, expected>>

\* What the transaction placed is removed, if there is a backup or it installed.
SweepRemoves ==
  /\ sweep # Idle /\ sweep.saw \in {"backup", "target", "neither"}
  /\ target' = IF \/ sweep.saw = "backup"
                  \/ sweep.saw = "target" /\ plan[sweep.tx].operation = "install"
               THEN None ELSE target
  /\ sweep' = [sweep EXCEPT !.saw = IF @ = "backup" THEN "removed" ELSE "undone"]
  /\ UNCHANGED <<artifact, backup, temp, journal, at, plan, history>>

\* A backup that is gone by now makes recoverPending throw.
SweepRestores ==
  /\ sweep # Idle /\ sweep.saw = "removed"
  /\ IF backup[sweep.tx] = None THEN sweep' = Idle /\ UNCHANGED <<target, backup>>
     ELSE /\ target' = backup[sweep.tx]
          /\ backup' = [backup EXCEPT ![sweep.tx] = None]
          /\ sweep' = [sweep EXCEPT !.saw = "undone"]
  /\ UNCHANGED <<artifact, temp, journal, at, plan, history>>

SweepNotes ==
  /\ sweep # Idle /\ sweep.saw = "undone"
  /\ journal' = [journal EXCEPT ![sweep.tx] = "recovered"]
  /\ sweep' = Idle
  /\ UNCHANGED <<files, at, plan, history>>

-------------------------------------------------------------------------------
Init ==
  /\ target \in Content \cup {None} /\ artifact \in Content
  /\ backup = [t \in Tx |-> None] /\ temp = [t \in Tx |-> None]
  /\ journal = [t \in Tx |-> "none"]
  /\ at = [t \in Tx |-> "idle"]
  /\ plan = [t \in Tx |-> [operation |-> "none", content |-> None, existed |-> FALSE]]
  /\ sweep = Idle
  /\ expected = target /\ spoiled = FALSE

Next ==
  \/ \E t \in Tx :
       \/ Start(t) \/ Prepare(t) \/ Fails(t) \/ Backup(t) \/ Copy(t) \/ Verify(t)
       \/ Place(t) \/ Commit(t) \/ Clean(t) \/ Unplace(t) \/ Restore(t) \/ Note(t)
       \/ SweepFinds(t)
  \/ Crash \/ ArtifactChanges \/ SweepRemoves \/ SweepRestores \/ SweepNotes

Spec == Init /\ [][Next]_uVars

-------------------------------------------------------------------------------
Phase == {"idle", "digest", "backup", "copy", "verify", "place", "commit",
          "clean", "unplace", "restore", "note", "done", "dead"}

ImageType ==
  /\ target \in Content \cup {None} /\ artifact \in Content
  /\ backup \in [Tx -> Content \cup {None}] /\ temp \in [Tx -> Content \cup {None}]
  /\ journal \in [Tx -> {"none", "prepared", "committed", "recovered-after-error",
                         "recovered"}]
  /\ at \in [Tx -> Phase]
  /\ plan \in [Tx -> [operation : Operation \cup {"none"},
                      content : Content \cup {None}, existed : BOOLEAN]]
  /\ \/ sweep = Idle
     \/ sweep \in [tx : Tx, saw : {"backup", "target", "neither", "removed", "undone"}]
  /\ expected \in Content \cup {None} /\ spoiled \in BOOLEAN
  /\ \A t \in Tx : at[t] = "idle" => backup[t] = None

\* What was there before is in the backup, or in its place.
Undoable(t) ==
  IF backup[t] # None THEN backup[t] = expected ELSE expected # None => target = expected

\* What an unsettled transaction has planned, and how far it is with it.
Progress(t) ==
  /\ plan[t].operation \in Operation /\ plan[t].content \in Content
  /\ Applicable(plan[t].operation, plan[t].existed)
  /\ plan[t].existed <=> expected # None
  /\ Undoable(t)
  /\ at[t] # "digest" => journal[t] = "prepared"
  /\ at[t] \in {"digest", "backup"} => target = expected /\ backup[t] = None
  /\ at[t] \in {"copy", "verify", "place"} =>
       target = None /\ backup[t] = expected /\ plan[t].operation # "remove"
  /\ at[t] = "place" => temp[t] = plan[t].content
  /\ at[t] = "commit" =>
       /\ backup[t] = expected
       /\ target = IF plan[t].operation = "remove" THEN None ELSE plan[t].content
  /\ at[t] \in {"unplace", "restore"} => backup[t] # None
  /\ at[t] = "note" => backup[t] = None

\* What the recovery knows of the journal it works on.
SweepKnows ==
  sweep # Idle =>
    /\ Live = {} /\ journal[sweep.tx] = "prepared"
    /\ sweep.saw \in {"backup", "removed"} => backup[sweep.tx] # None
    /\ sweep.saw \in {"target", "neither", "undone"} => backup[sweep.tx] = None
    /\ sweep.saw = "neither" => target = None
    /\ sweep.saw = "undone" => target = expected

\* Of the transactions that nothing has spoiled one at most is unsettled, and it can
\* be undone wherever it is.
OneUndoable ==
  ~spoiled =>
    /\ \A t, u \in Unsettled : t = u
    /\ Unsettled = {} => target = expected
    /\ \A t \in Unsettled : Progress(t)
    /\ SweepKnows

IInv == ImageType /\ OneUndoable

-------------------------------------------------------------------------------
\* "atomicReplace", "crash recovery": once every transaction is settled, and none
\* worked beside another or failed twice, the package is what the last committed
\* one made it, over crashes of the transactions and of their recovery.
AllOrNothing == Unsettled = {} /\ sweep = Idle /\ ~spoiled => target = expected
================================================================================
