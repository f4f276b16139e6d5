------------------------------ MODULE WebPackages ------------------------------
(***************************************************************************)
(* The package pipeline of the web shell: verify, resolve, then install,   *)
(* update or remove a package and its permissions under a record in a      *)
(* journal, and roll back what failed or what the user wants undone.       *)
(* Every call of the browser's storage is awaited, so operations overlap;  *)
(* the journal is one list that each of them reads and writes back whole;  *)
(* a write may end in the fallback that nobody reads while the database    *)
(* answers, or throw; a read that fails finds nothing; and the page may go *)
(* away at any time.                                                       *)
(***************************************************************************)
EXTENDS FiniteSets, Naturals

CONSTANTS
  Op,          \* operations, each with the transaction it may begin
  Package,
  Needs,       \* the dependencies of a package
  Wanted       \* the permissions of a package, by version

WebPackagesAssumption ==
  /\ Needs \in [Package -> SUBSET Package]
  /\ DOMAIN Wanted = Package /\ \A p \in Package : DOMAIN Wanted[p] = 0..2

VARIABLES
  installed,   \* version of each package, 0 for none
  granted,     \* permissions of each package
  journal,     \* status of the record of each operation
  pc, goal,    \* where each operation is, and the status it is to write;
               \* "UNDONE" is the ROLLED_BACK of a rollback that the user asked for
  view,        \* the journal as it read it
  target,      \* package and version that it is to install; 0 removes
  before,      \* the snapshot in its record: version, permissions, names touched
  todo,        \* permissions it has yet to set
  \* History:
  strayed,     \* operations of which a write ended in the fallback, whose snapshot was
               \* not read from the database, or whose record got lost
  disturbed    \* operations whose package another has changed since the snapshot

store   == <<installed, granted>>
ops     == <<pc, goal, view, target, before, todo>>
history == <<strayed, disturbed>>
wVars   == <<store, journal, ops, history>>

Version == 1..2
Origin  == {"catalog", "altered", "signed", "forged"}
Manifest == [package : Package, version : Version, origin : Origin]

NoRecord == [o \in Op |-> "none"]

-------------------------------------------------------------------------------
\* sameCatalogPackage: id and version are in the catalog, and no field that matters
\* for security differs.
SameCatalogPackage(m) == m.origin = "catalog"

\* verifyManifest and verifyEntry, against the digests that the manifest pins.
ContentVerified(m) == m.origin # "altered"

\* validateSignatureDescriptor and verifySignature: identity, version and digest are
\* those that were signed, and the signature is good.
SignatureVerified(m) == m.origin = "signed"

\* trustedFor: whoever is to sign has a key in the store, for this package.
KeyTrusted(m, keys) == m.package \in keys

Trusted(m, keys) ==
  IF m.origin \in {"signed", "forged"}
  THEN SignatureVerified(m) /\ KeyTrusted(m, keys)
  ELSE SameCatalogPackage(m)

\* checkCompatibility: every dependency is installed.
Compatible(p) == \A d \in Needs[p] : installed[d] # 0

Dependents(p) == {d \in Package : p \in Needs[d] /\ installed[d] # 0}

\* The status of a record that the operation may go on from; patchTransaction throws
\* when the list has no such record.
Found(o, list) == goal[o] = "PREPARED" \/ list[o] # "none"

Begun(o)   == pc[o] \notin {"idle", "planned"}
Running(o) == pc[o] \notin {"idle", "planned", "done", "undone", "failed", "gone"}

\* A change to the package of o, as the other operations see it.
Disturbs(o) ==
  disturbed' = disturbed \cup
    {x \in Op \ {o} : Begun(x) /\ target[x].package = target[o].package}

-------------------------------------------------------------------------------
\* prepare() of install and update, with the scope of the key as it is then.
Prepare(o, m, keys) ==
  /\ pc[o] = "idle"
  /\ ContentVerified(m) /\ Trusted(m, keys) /\ Compatible(m.package)
  /\ target' = [target EXCEPT ![o] = [package |-> m.package, version |-> m.version]]
  /\ pc' = [pc EXCEPT ![o] = "planned"]
  /\ UNCHANGED <<store, journal, goal, view, before, todo, history>>

\* planRemove: nothing that is installed depends on it.
PlanRemove(o, p) ==
  /\ pc[o] = "idle" /\ Dependents(p) = {}
  /\ target' = [target EXCEPT ![o] = [package |-> p, version |-> 0]]
  /\ pc' = [pc EXCEPT ![o] = "planned"]
  /\ UNCHANGED <<store, journal, goal, view, before, todo, history>>

\* Mutant: the package is changed before there is a record.
SnapshotUnrecorded(o) ==
  LET p == target[o].package
      names == Wanted[p][installed[p]] \cup Wanted[p][target[o].version]
  IN
    /\ pc[o] = "planned" /\ (target[o].version = 0 => installed[p] # 0)
    /\ before' = [before EXCEPT ![o] =
         [version |-> installed[p], granted |-> granted[p] \cap names, touched |-> names]]
    /\ pc' = [pc EXCEPT ![o] = "apply"]
    /\ UNCHANGED <<store, journal, goal, view, target, todo, history>>

\* findInstalled and permissionSnapshot, over the names of both versions. What cannot
\* be read counts as not installed and not granted; remove() then gives up.
Snapshot(o) ==
  LET p == target[o].package
      wanted == Wanted[p][target[o].version]
      names == Wanted[p][installed[p]] \cup wanted
  IN
    /\ pc[o] = "planned" /\ (target[o].version = 0 => installed[p] # 0)
    /\ \/ /\ before' = [before EXCEPT ![o] =
              [version |-> installed[p], granted |-> granted[p] \cap names, touched |-> names]]
          /\ UNCHANGED strayed
       \/ /\ target[o].version # 0 /\ strayed' = strayed \cup {o}
          /\ before' = [before EXCEPT ![o] = [version |-> 0, granted |-> {}, touched |-> wanted]]
    /\ pc' = [pc EXCEPT ![o] = "read"] /\ goal' = [goal EXCEPT ![o] = "PREPARED"]
    /\ UNCHANGED <<store, journal, view, target, todo, disturbed>>

\* An error in what o does: install() and remove() roll the changes back, and if that
\* fails too the record is to say so; rollback() only passes the error on.
AfterError(o) ==
  CASE goal[o] \in {"APPLYING", "COMMITTED"} -> [pc |-> "undo", goal |-> "ROLLED_BACK"]
    [] goal[o] = "ROLLED_BACK"               -> [pc |-> "read", goal |-> "ROLLBACK_FAILED"]
    [] OTHER                                 -> [pc |-> "failed", goal |-> goal[o]]

Throws(o) ==
  /\ pc' = [pc EXCEPT ![o] = AfterError(o).pc]
  /\ goal' = [goal EXCEPT ![o] = AfterError(o).goal]

\* readTransactions, in beginTransaction and patchTransaction. When the database does
\* not answer the list is empty.
ReadJournal(o) ==
  /\ pc[o] = "read"
  /\ \E list \in {journal, NoRecord} :
       IF Found(o, list)
       THEN /\ view' = [view EXCEPT ![o] = list]
            /\ pc' = [pc EXCEPT ![o] = "write"] /\ UNCHANGED goal
       ELSE Throws(o) /\ UNCHANGED view
  /\ UNCHANGED <<store, journal, target, before, todo, history>>

AfterWrite(o) ==
  CASE goal[o] = "PREPARED"        -> [pc |-> "read", goal |-> "APPLYING"]
    [] goal[o] = "APPLYING"        -> [pc |-> "apply", goal |-> "APPLYING"]
    [] goal[o] = "COMMITTED"       -> [pc |-> "done", goal |-> "COMMITTED"]
    [] goal[o] \in {"ROLLED_BACK", "UNDONE"} -> [pc |-> "undone", goal |-> goal[o]]
    [] goal[o] = "ROLLBACK_FAILED" -> [pc |-> "failed", goal |-> "ROLLBACK_FAILED"]

\* The status that goes into the record.
Recorded(o) == IF goal[o] = "UNDONE" THEN "ROLLED_BACK" ELSE goal[o]

\* writeTransactions puts the whole list back, over what others wrote meanwhile.
WriteJournal(o) ==
  /\ pc[o] = "write"
  /\ \/ /\ journal' = [view[o] EXCEPT ![o] = Recorded(o)]
        /\ strayed' = strayed \cup
             {x \in Op \ {o} : journal[x] # "none" /\ view[o][x] = "none"}
     \/ UNCHANGED journal /\ strayed' = strayed \cup {o}
  /\ pc' = [pc EXCEPT ![o] = AfterWrite(o).pc]
  /\ goal' = [goal EXCEPT ![o] = AfterWrite(o).goal]
  /\ view' = [view EXCEPT ![o] = NoRecord]
  /\ UNCHANGED <<store, target, before, todo, disturbed>>

\* The write of the journal throws.
WriteThrows(o) ==
  /\ pc[o] = "write" /\ Throws(o)
  /\ view' = [view EXCEPT ![o] = NoRecord]
  /\ UNCHANGED <<store, journal, target, before, todo, history>>

\* packages.install and packages.remove: an error of the database is swallowed, one
\* of the local storage is thrown when the database has the change already.
PutPackage(o, v) ==
  \/ installed' = [installed EXCEPT ![target[o].package] = v] /\ UNCHANGED strayed
  \/ UNCHANGED installed /\ strayed' = strayed \cup {o}

Apply(o) ==
  /\ pc[o] = "apply" /\ PutPackage(o, target[o].version) /\ Disturbs(o)
  /\ \/ /\ pc' = [pc EXCEPT ![o] = "grant"]
        /\ todo' = [todo EXCEPT ![o] = before[o].touched]
        /\ UNCHANGED goal
     \/ Throws(o) /\ UNCHANGED todo
  /\ UNCHANGED <<granted, journal, view, target, before>>

\* permissions.set: done, lost in the fallback, or thrown.
PutPermission(o, q, value) ==
  LET p == target[o].package IN
    \/ /\ granted' = [granted EXCEPT ![p] = IF value THEN @ \cup {q} ELSE @ \ {q}]
       /\ UNCHANGED <<strayed, pc, goal>>
    \/ UNCHANGED <<granted, pc, goal>> /\ strayed' = strayed \cup {o}
    \/ Throws(o) /\ UNCHANGED <<granted, strayed>>

\* The permissions of the new version are granted, the others of the old revoked.
Grant(o, q) ==
  /\ pc[o] = "grant" /\ q \in todo[o]
  /\ PutPermission(o, q, q \in Wanted[target[o].package][target[o].version])
  /\ Disturbs(o) /\ todo' = [todo EXCEPT ![o] = @ \ {q}]
  /\ UNCHANGED <<installed, journal, view, target, before>>

Granted(o) ==
  /\ pc[o] = "grant" /\ todo[o] = {}
  /\ pc' = [pc EXCEPT ![o] = "read"] /\ goal' = [goal EXCEPT ![o] = "COMMITTED"]
  /\ UNCHANGED <<store, journal, view, target, before, todo, history>>

\* performRollback puts the package of the snapshot back, or removes the package.
Undo(o) ==
  /\ pc[o] = "undo" /\ PutPackage(o, before[o].version) /\ Disturbs(o)
  /\ \/ /\ pc' = [pc EXCEPT ![o] = "restore"]
        /\ todo' = [todo EXCEPT ![o] = before[o].touched]
        /\ UNCHANGED goal
     \/ Throws(o) /\ UNCHANGED todo
  /\ UNCHANGED <<granted, journal, view, target, before>>

\* restorePermissions.
Restore(o, q) ==
  /\ pc[o] = "restore" /\ q \in todo[o]
  /\ PutPermission(o, q, q \in before[o].granted)
  /\ Disturbs(o) /\ todo' = [todo EXCEPT ![o] = @ \ {q}]
  /\ UNCHANGED <<installed, journal, view, target, before>>

Restored(o) ==
  /\ pc[o] = "restore" /\ todo[o] = {}
  /\ pc' = [pc EXCEPT ![o] = "read"]
  /\ UNCHANGED <<store, journal, goal, view, target, before, todo, history>>

\* rollback(), with the approval of the user, of what has ended: not of what a page that
\* went away has left PREPARED or APPLYING.
Rollback(o) ==
  /\ pc[o] \in {"done", "failed", "gone"}
  /\ journal[o] \in {"COMMITTED", "ROLLBACK_FAILED"}
  /\ pc' = [pc EXCEPT ![o] = "undo"] /\ goal' = [goal EXCEPT ![o] = "UNDONE"]
  /\ UNCHANGED <<store, journal, view, target, before, todo, history>>

\* The page goes away.
Reload ==
  /\ \E o \in Op : Running(o)
  /\ pc' = [o \in Op |-> IF Running(o) THEN "gone" ELSE pc[o]]
  /\ view' = [o \in Op |-> NoRecord] /\ todo' = [o \in Op |-> {}]
  /\ UNCHANGED <<store, journal, goal, target, before, history>>

Init ==
  /\ installed = [p \in Package |-> 0] /\ granted = [p \in Package |-> {}]
  /\ journal = NoRecord
  /\ pc = [o \in Op |-> "idle"] /\ goal = [o \in Op |-> "PREPARED"]
  /\ view = [o \in Op |-> journal]
  /\ target = [o \in Op |-> [package |-> CHOOSE p \in Package : TRUE, version |-> 0]]
  /\ before = [o \in Op |-> [version |-> 0, granted |-> {}, touched |-> {}]]
  /\ todo = [o \in Op |-> {}]
  /\ strayed = {} /\ disturbed = {}

Step(o) ==
  \/ Snapshot(o) \/ ReadJournal(o) \/ WriteJournal(o) \/ WriteThrows(o)
  \/ Apply(o) \/ Granted(o) \/ Undo(o) \/ Restored(o) \/ Rollback(o)
  \/ \E q \in UNION {Wanted[p][v] : p \in Package, v \in Version} :
       Grant(o, q) \/ Restore(o, q)

Next ==
  \/ \E o \in Op :
       \/ Step(o)
       \/ pc[o] = "idle" /\ \E m \in Manifest, keys \in SUBSET Package : Prepare(o, m, keys)
       \/ \E p \in Package : PlanRemove(o, p)
  \/ Reload

Spec == Init /\ [][Next]_wVars

-------------------------------------------------------------------------------
\* What the snapshot of o says of its package.
AsBefore(o) ==
  LET p == target[o].package IN
    /\ installed[p] = before[o].version
    /\ granted[p] \cap before[o].touched = before[o].granted

\* What its plan says of it.
AsPlanned(o) ==
  LET p == target[o].package IN
    /\ installed[p] = target[o].version
    /\ granted[p] \cap before[o].touched = Wanted[p][target[o].version]

\* "Package state and permissions are treated as one logical mutation": an operation
\* that nobody else disturbed and whose reads and writes arrived has, when it reports
\* success, changed the package and all its permissions, and when it reports that it has
\* rolled back, neither; and a package that is half changed is one that the journal has
\* a record of, wherever the page goes away.
OneLogicalMutation ==
  \A o \in Op \ (strayed \cup disturbed) : Begun(o) =>
      /\ pc[o] = "done" => AsPlanned(o)
      /\ pc[o] = "undone" => AsBefore(o)
      /\ ~AsBefore(o) => journal[o] # "none"

\* Two claims of the documents that do not hold, which no run checks. A rollback failure
\* is never hidden: not so when the user has asked for the rollback.
RollbackFailureShown ==
  \A o \in Op \ (strayed \cup disturbed) :
    pc[o] = "failed" /\ goal[o] # "PREPARED" => journal[o] = "ROLLBACK_FAILED"

\* What is half changed when the page goes away can be rolled back: rollback() refuses a
\* record that is PREPARED or APPLYING, and nothing looks for those at the next start.
InterruptedCanBeUndone ==
  \A o \in Op \ (strayed \cup disturbed) :
    pc[o] = "gone" /\ ~AsBefore(o) => journal[o] \in {"COMMITTED", "ROLLBACK_FAILED"}

-------------------------------------------------------------------------------
Status == {"PREPARED", "APPLYING", "COMMITTED", "ROLLED_BACK", "ROLLBACK_FAILED"}

PackagesType ==
  /\ DOMAIN installed = Package /\ DOMAIN granted = Package
  /\ journal \in [Op -> Status \cup {"none"}] /\ goal \in [Op -> Status \cup {"UNDONE"}]
  /\ pc \in [Op -> {"idle", "planned", "read", "write", "apply", "grant", "undo", "restore",
                     "done", "undone", "failed", "gone"}]
  /\ view \in [Op -> [Op -> Status \cup {"none"}]]
  /\ target \in [Op -> [package : Package, version : 0 .. 2]]
  /\ DOMAIN before = Op /\ DOMAIN todo = Op

\* The permissions that are no longer to be set have the value they are to have.
SetTo(o, wanted) ==
  /\ todo[o] \subseteq before[o].touched
  /\ \A q \in before[o].touched \ todo[o] : q \in granted[target[o].package] <=> q \in wanted

\* Is o about to write a record, in order to get to s?
Writes(o, s) == pc[o] \in {"read", "write"} /\ goal[o] = s

\* How far an operation that nobody disturbs has come, and that it has a record once it
\* goes on to change anything.
Progress(o) ==
  LET p == target[o].package IN
    /\ Wanted[p][target[o].version] \subseteq before[o].touched
    /\ before[o].granted \subseteq before[o].touched
    /\ \/ Writes(o, "PREPARED") \/ Writes(o, "APPLYING") \/ pc[o] = "apply"
       \/ Writes(o, "ROLLED_BACK") \/ Writes(o, "UNDONE") \/ pc[o] = "undone"
       => AsBefore(o)
    /\ Writes(o, "COMMITTED") \/ pc[o] = "done" => AsPlanned(o)
    /\ pc[o] = "grant" => /\ installed[p] = target[o].version
                          /\ SetTo(o, Wanted[p][target[o].version])
    /\ pc[o] = "restore" => installed[p] = before[o].version /\ SetTo(o, before[o].granted)
    /\ \/ pc[o] \in {"apply", "grant", "undo", "restore"}
       \/ pc[o] \in {"read", "write"} /\ goal[o] # "PREPARED"
       \/ ~ AsBefore(o)
       => journal[o] # "none"

GoalKept(o) ==
  /\ pc[o] \in {"apply", "grant"} => goal[o] = "APPLYING"
  /\ pc[o] \in {"undo", "restore"} => goal[o] \in {"ROLLED_BACK", "UNDONE"}

PackagesInv ==
  /\ PackagesType
  /\ \A o \in Op : GoalKept(o)
  /\ \A o \in Op \ (strayed \cup disturbed) : Begun(o) => Progress(o)
===============================================================================
