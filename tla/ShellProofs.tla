-------------------------- MODULE ShellProofs ----------------------------------
(*****************************************************************************)
(* The web shell and the releases, for every value of the constants of       *)
(* MCShell.  Each component has an inductive invariant in its own module;    *)
(* here are the lemmas that it holds at first, that the steps keep it, that  *)
(* a stutter keeps it, and what follows from it.  A theorem of the shell     *)
(* puts together the components that its property speaks of.                 *)
(*****************************************************************************)
EXTENDS MCShell, Integers, Sequences, FiniteSets, TLAPS

-------------------------------------------------------------------------------
(* The stored files.                                                         *)

LEMMA FilesInitial == Files!FilesInit => Files!FilesInv
<1> SUFFICES ASSUME Files!FilesInit
             PROVE  Files!FilesInv
  OBVIOUS
<1>1. v6 = [c \in Files!Caller |-> Files!NoCall] /\ v2 = NoOne /\ v3 = 0 /\ v4 = "store"
  BY DEF Files!FilesInit, Files!PageInit
<1>2. /\ v1 \in {NoOne} \cup [revision : {1}, items : {{}, One}]
      /\ v5 \in {NoOne} \cup SUBSET One
      /\ v11 = Files!NoFolder /\ v12 = Files!Closed
  BY DEF Files!FilesInit, Files!PageInit
<1>3. Files!FilesType
  BY <1>1, <1>2 DEF Files!FilesType, Files!Record, Files!NoCall, Files!NoFolder, Files!Closed
<1>4. Files!Writing = {} /\ Files!Behind = {}
  BY <1>1 DEF Files!Writing, Files!Behind, Files!NoCall
<1>5. Files!RevisionOf(v1) >= 0 /\ \A c \in Files!Caller : Files!RevisionOf(v6[c].read) = 0
  BY <1>1, <1>2 DEF Files!RevisionOf, Files!NoCall
<1> QED
  BY <1>1, <1>3, <1>4, <1>5 DEF Files!FilesInv, Files!RevisionsAreClose

\* A call ends, or nothing of the store or of the calls changes.
LEMMA RevisionsKept ==
  ASSUME Files!FilesInv, UNCHANGED <<v1, v3, v4, v14>>,
         v6' = v6 \/ \E c \in Files!Caller : v6[c].at # "written" /\ Files!Taken(c)
  PROVE  Files!RevisionsAreClose'
<1> SUFFICES ASSUME "read" \notin v14
             PROVE  Files!RevisionsAreClose'
  BY DEF Files!RevisionsAreClose
<1> DEFINE R == Files!RevisionOf(v1)
<1>1. Files!RevisionOf(v1)' = R /\ R \in Nat
  BY DEF Files!FilesInv, Files!FilesType, Files!RevisionOf, Files!Record
<1>2. \A d \in Files!Caller : v6'[d] = v6[d] \/ v6'[d] = Files!NoCall
  BY DEF Files!FilesInv, Files!FilesType, Files!Taken
<1>3. Files!Writing' = Files!Writing
  BY <1>2 DEF Files!Writing, Files!Taken, Files!NoCall, Files!FilesInv, Files!FilesType
<1>4. Files!Behind' \subseteq Files!Behind
  BY <1>1, <1>2 DEF Files!Behind, Files!NoCall
<1>5. \A c \in Files!Writing : v6'[c] = v6[c]
  BY <1>2, <1>3 DEF Files!Writing, Files!NoCall
<1>6. \A d \in Files!Caller : Files!RevisionOf(v6'[d].read) <= R
  BY <1>1, <1>2 DEF Files!FilesInv, Files!RevisionsAreClose, Files!NoCall, Files!RevisionOf
<1> QED
  BY <1>1, <1>3, <1>4, <1>5, <1>6 DEF Files!FilesInv, Files!RevisionsAreClose

\* A call that reads the record is not behind it.
LEMMA RevisionsRead ==
  ASSUME Files!FilesInv, UNCHANGED <<v1, v3>>, NEW c \in Files!Caller, NEW op, NEW items,
         NEW from \in Files!Sources, Files!Called(c, op, items, from)
  PROVE  Files!RevisionsAreClose'
<1> SUFFICES ASSUME "read" \notin v14'
             PROVE  Files!RevisionsAreClose'
  BY DEF Files!RevisionsAreClose
<1> DEFINE R == Files!RevisionOf(v1)
<1>1. from = "store" /\ v14' = v14 /\ v4' = "store"
  BY DEF Files!Called, Files!Sources, Files!Fault
<1>2. v6' = [v6 EXCEPT ![c] = [at |-> "read", op |-> op, items |-> items, read |-> v1]]
  BY <1>1 DEF Files!Called
<1>3. Files!RevisionOf(v1)' = R /\ R \in Nat
  BY DEF Files!FilesInv, Files!FilesType, Files!RevisionOf, Files!Record
<1>4. /\ v6'[c] = [at |-> "read", op |-> op, items |-> items, read |-> v1]
      /\ \A d \in Files!Caller \ {c} : v6'[d] = v6[d]
  BY <1>2 DEF Files!FilesInv, Files!FilesType
<1>5. v6[c].at \in {"none", "done"}
  BY DEF Files!Called
<1>6. Files!Writing' = Files!Writing /\ c \notin Files!Writing
  BY <1>4, <1>5 DEF Files!Writing
<1>7. Files!Behind' \subseteq Files!Behind
  BY <1>3, <1>4 DEF Files!Behind
<1>8. \A d \in Files!Writing : v6'[d] = v6[d]
  BY <1>4, <1>6 DEF Files!Writing
<1>9. \A d \in Files!Caller : Files!RevisionOf(v6'[d].read) <= R
  BY <1>1, <1>3, <1>4 DEF Files!FilesInv, Files!RevisionsAreClose
<1> QED
  BY <1>1, <1>3, <1>6, <1>7, <1>8, <1>9 DEF Files!FilesInv, Files!RevisionsAreClose

\* A write does not take the record back, and leaves the others one revision behind.
LEMMA RevisionsWritten ==
  ASSUME Files!FilesInv, NEW c \in Files!Caller, Files!Written(c)
  PROVE  /\ Files!RevisionsAreClose'
         /\ "read" \in v14 \/ Files!RevisionOf(v1') >= Files!RevisionOf(v1)
<1> SUFFICES ASSUME "read" \notin v14
             PROVE  /\ Files!RevisionsAreClose'
                    /\ Files!RevisionOf(v1') >= Files!RevisionOf(v1)
  BY DEF Files!RevisionsAreClose, Files!Written
<1> DEFINE R == Files!RevisionOf(v1)
           read == Files!RevisionOf(v6[c].read)
           W == Files!Larger(v3, read) + 1
<1>1. v4 = "store" /\ v4' = "store" /\ v14' = v14
  BY DEF Files!FilesInv, Files!RevisionsAreClose, Files!Written
<1>2. /\ R \in Nat /\ read \in Nat /\ v3 \in Nat
      /\ read <= R /\ v3 <= R
  BY DEF Files!FilesInv, Files!FilesType, Files!RevisionOf, Files!Record, Files!RevisionsAreClose
<1>3. W \in Nat /\ W <= R + 1 /\ v3' = W - 1
  BY <1>2 DEF Files!Larger, Files!Written
<1>4. /\ v1' = [revision |-> W, items |-> v6[c].items]
      /\ v6' = [v6 EXCEPT ![c].at = "written", ![c].read = v1']
  BY <1>1 DEF Files!Written, Files!NextRevision
<1>5. v1' \in [revision : Nat, items : SUBSET One]
  BY <1>3, <1>4 DEF Files!FilesInv, Files!FilesType
<1>6. Files!RevisionOf(v1') = W /\ Files!RevisionOf(v1)' = W
  <2>1. v1' # NoOne
    BY <1>5, ShellAssumption DEF Files!FilesAssumption
  <2> QED
    BY <1>4, <2>1 DEF Files!RevisionOf
<1>7. /\ v6'[c].at = "written" /\ v6'[c].read = v1'
      /\ \A d \in Files!Caller \ {c} : v6'[d] = v6[d]
  BY <1>4 DEF Files!FilesInv, Files!FilesType
<1>8. v6[c].at = "read"
  BY DEF Files!Written
<1>9. Files!Writing' = Files!Writing \cup {c} /\ c \notin Files!Writing
  BY <1>7, <1>8 DEF Files!Writing
\* A call behind the record writes a revision that is not below it.
<1>10. W >= R
  <2>1. CASE read = R
    BY <1>2, <2>1 DEF Files!Larger
  <2>2. CASE read < R
    <3>1. c \in Files!Behind
      BY <1>8, <2>2 DEF Files!Behind
    <3> QED
      BY <1>2, <3>1 DEF Files!FilesInv, Files!RevisionsAreClose, Files!Larger
  <2> QED
    BY <1>2, <2>1, <2>2
<1>11. \A d \in Files!Caller : Files!RevisionOf(v6'[d].read) <= W
  BY <1>2, <1>3, <1>6, <1>7, <1>10 DEF Files!FilesInv, Files!FilesType, Files!RevisionsAreClose,
     Files!RevisionOf, Files!Record
<1>12. v6'[c].read.revision = W
  BY <1>4, <1>7
\* With a call behind, one other at most is not complete, and it wrote the record.
<1>13. ASSUME NEW e \in Files!Behind', NEW d \in Files!Writing'
       PROVE  W <= v6'[d].read.revision + 1
  <2>1. CASE d = c
    BY <1>3, <1>12, <2>1
  <2>2. CASE d # c
    <3>1. /\ e \in Files!Caller /\ d \in Files!Caller /\ v6'[e].at = "read" /\ v6'[d].at = "written"
          /\ e # c
      BY <1>7 DEF Files!Behind, Files!Writing
    <3>2. d \in Files!Writing /\ e \notin Files!Writing
      BY <1>7, <2>2, <3>1 DEF Files!Writing
    <3>3. Files!Writing = {d}
      BY <1>9, <2>2, <3>1, <3>2 DEF Files!Caller, Files!Writing
    <3>4. v6[d].read.revision = R
      BY <3>3 DEF Files!FilesInv, Files!RevisionsAreClose
    <3> QED
      BY <1>2, <1>3, <1>7, <2>2, <3>1, <3>4
  <2> QED
    BY <2>1, <2>2
<1> QED
  BY <1>1, <1>2, <1>3, <1>6, <1>9, <1>10, <1>11, <1>12, <1>13 DEF Files!RevisionsAreClose

\* What a call finds, or a write that fails, brings the adapter nearer to the record.
LEMMA RevisionsFound ==
  ASSUME Files!FilesInv, NEW c \in Files!Caller, Files!Found(c) \/ Files!Refused(c)
  PROVE  Files!RevisionsAreClose'
<1> SUFFICES ASSUME "read" \notin v14'
             PROVE  Files!RevisionsAreClose'
  BY DEF Files!RevisionsAreClose
<1> DEFINE R == Files!RevisionOf(v1)
           read == Files!RevisionOf(v6[c].read)
<1>1. v4' = v4 /\ v1' = v1 /\ "read" \notin v14 /\ v6[c].at = "read"
  BY DEF Files!Found, Files!Refused, Files!Fault
<1>2. /\ R \in Nat /\ read \in Nat /\ v3 \in Nat
      /\ read <= R /\ v3 <= R /\ Files!RevisionOf(v1)' = R
  BY <1>1 DEF Files!FilesInv, Files!FilesType, Files!RevisionOf, Files!Record, Files!RevisionsAreClose
<1>3. v3' \in Nat /\ v3' <= R /\ v3' >= v3
  BY <1>2 DEF Files!Larger, Files!Found, Files!Refused
<1>4. /\ v6'[c].at \in {"done", "failed"} /\ v6'[c].read = v6[c].read
      /\ \A d \in Files!Caller \ {c} : v6'[d] = v6[d]
  BY DEF Files!FilesInv, Files!FilesType, Files!Found, Files!Refused
<1>5. Files!Writing' = Files!Writing /\ c \notin Files!Writing
  BY <1>1, <1>4 DEF Files!Writing
<1>6. Files!Behind' \subseteq Files!Behind
  BY <1>2, <1>4 DEF Files!Behind
<1>7. \A d \in Files!Writing : v6'[d] = v6[d]
  BY <1>4, <1>5 DEF Files!Writing
<1>8. \A d \in Files!Caller : Files!RevisionOf(v6'[d].read) <= R
  BY <1>1, <1>2, <1>4 DEF Files!FilesInv, Files!RevisionsAreClose
<1> QED
  BY <1>1, <1>2, <1>3, <1>5, <1>6, <1>7, <1>8 DEF Files!FilesInv, Files!RevisionsAreClose

\* Writes are complete in their order: the last one is the record until it is.
LEMMA RevisionsNoted ==
  ASSUME Files!FilesInv, NEW c \in Files!Caller, Files!Noted(c)
  PROVE  Files!RevisionsAreClose'
<1> SUFFICES ASSUME "read" \notin v14
             PROVE  Files!RevisionsAreClose'
  BY DEF Files!RevisionsAreClose, Files!Noted
<1> DEFINE R == Files!RevisionOf(v1)
           rev(d) == v6[d].read.revision
<1>1. v4' = v4 /\ v1' = v1 /\ v14' = v14 /\ v6[c].at = "written" /\ v3' = rev(c)
  BY DEF Files!Noted
<1>2. c \in Files!Writing
  BY <1>1 DEF Files!Writing
<1>3. \A d \in Files!Writing : rev(d) \in Nat /\ rev(d) <= R /\ rev(c) <= rev(d)
  BY <1>1 DEF Files!FilesInv, Files!FilesType, Files!RevisionOf, Files!Record,
     Files!RevisionsAreClose, Files!Writing, Files!Noted
<1>4. R \in Nat /\ Files!RevisionOf(v1)' = R
  BY <1>1 DEF Files!FilesInv, Files!FilesType, Files!RevisionOf, Files!Record
<1>5. /\ v6'[c].at = "done" /\ v6'[c].read = v6[c].read
      /\ \A d \in Files!Caller \ {c} : v6'[d] = v6[d]
  BY DEF Files!FilesInv, Files!FilesType, Files!Noted
<1>6. Files!Writing' = Files!Writing \ {c}
  BY <1>5 DEF Files!Writing
<1>7. Files!Behind' = Files!Behind
  BY <1>1, <1>4, <1>5 DEF Files!Behind
<1>8. \A d \in Files!Writing' : v6'[d] = v6[d]
  BY <1>5, <1>6 DEF Files!Writing
<1>9. \A d \in Files!Caller : Files!RevisionOf(v6'[d].read) <= R
  BY <1>1, <1>4, <1>5 DEF Files!FilesInv, Files!RevisionsAreClose
<1>10. Files!Writing' # {} => \E d \in Files!Writing' : v6'[d].read.revision = R
  BY <1>2, <1>3, <1>4, <1>6, <1>8 DEF Files!FilesInv, Files!RevisionsAreClose
<1>11. Files!Behind # {} => R <= rev(c) + 1 /\ \A d \in Files!Writing' : R <= v6'[d].read.revision + 1
  BY <1>2, <1>6, <1>8 DEF Files!FilesInv, Files!RevisionsAreClose
<1> QED
  BY <1>1, <1>2, <1>3, <1>4, <1>7, <1>9, <1>10, <1>11 DEF Files!FilesInv, Files!RevisionsAreClose

LEMMA FilesTyped ==
  ASSUME Files!FilesType, Files!FilesNext
  PROVE  Files!FilesType'
<1> USE DEF Files!FilesType
<1> DEFINE Read == {NoOne} \cup Files!Record
           Call == [at : {"none", "read", "written", "done", "failed"},
                    op : {"load", "save"}, items : SUBSET One, read : Read]
           Calls == /\ v6' \in [Files!Caller -> Call]
                    /\ \A c \in Files!Caller : v6'[c].at \in {"written", "done"} => v6'[c].read # NoOne
           Explorer == "data" \in DOMAIN v12' /\ v12'.data \subseteq One
<1>1. /\ v6 \in [Files!Caller -> Call]
      /\ \A c \in Files!Caller : v6[c].at \in {"written", "done"} => v6[c].read # NoOne
      /\ {v1, v2} \subseteq Read /\ v3 \in Nat /\ v5 \in {NoOne} \cup SUBSET One
      /\ v11.at \in {"idle", "loading", "saving"}
      /\ v11.at # "idle" => v11.file \in One
      /\ "data" \in DOMAIN v12 /\ v12.data \subseteq One
  OBVIOUS
<1>2. Files!NoCall \in Call /\ {"bridge", "folder", "explorer"} = Files!Caller
  BY DEF Files!NoCall, Files!Caller
<1>3. Files!Listed(v5) \in SUBSET One
  BY <1>1 DEF Files!Listed
<1> HIDE DEF Files!FilesType
<1>4. ASSUME NEW c \in Files!Caller, NEW op \in {"load", "save"}, NEW items \in SUBSET One,
             NEW from \in Files!Sources, Files!Called(c, op, items, from)
      PROVE  Calls
  <2> DEFINE new == [at |-> IF from = "unreadable" /\ op = "load" THEN "failed" ELSE "read",
                     op |-> op, items |-> items,
                     read |-> IF from = "memory" THEN v2
                              ELSE IF from = "store" THEN v1 ELSE NoOne]
  <2>1. v6' = [v6 EXCEPT ![c] = new]
    BY <1>4 DEF Files!Called
  <2>2. new \in Call /\ new.at \in {"read", "failed"}
    BY <1>1
  <2> HIDE DEF new
  <2> QED
    BY <1>1, <2>1, <2>2 DEF new
<1>5. ASSUME NEW c \in Files!Caller, Files!Taken(c)
      PROVE  Calls
  BY <1>1, <1>2, <1>5 DEF Files!Taken, Files!NoCall
<1>6. ASSUME NEW c \in Files!Caller, Files!Answered(c) \/ Files!Failed(c)
      PROVE  Calls
  BY <1>5, <1>6 DEF Files!Answered, Files!Failed
<1>7. ASSUME NEW c \in Files!Caller, v6[c].at = "done"
      PROVE  v6[c].read \in Files!Record /\ v6[c].read.items \subseteq One
  BY <1>1, <1>7 DEF Files!Record
<1>8. ASSUME v6' = v6
      PROVE  Calls
  BY <1>1, <1>8
<1> HIDE DEF Call
<1>9. ASSUME Calls, {v1', v2'} \subseteq Read, v3' \in Nat, v5' \in {NoOne} \cup SUBSET One,
             v11'.at \in {"idle", "loading", "saving"},
             v11'.at # "idle" => v11'.file \in One, Explorer
      PROVE  Files!FilesType'
  BY <1>9 DEF Files!FilesType, Files!Record, Call
<1> HIDE DEF Calls
<1> USE DEF Files!storeVars, Files!bridgeVars, Files!userVars
<1>10. CASE Files!StorageEvent
  BY <1>1, <1>8, <1>9, <1>10 DEF Files!StorageEvent
<1>11. CASE Files!PassBegins
  <2>1. PICK from \in Files!Sources :
          Files!Called("bridge", IF v7.hydrate THEN "load" ELSE "save", Files!Listed(v5), from)
    BY <1>11 DEF Files!PassBegins
  <2>2. Calls
    BY <1>2, <1>3, <1>4, <2>1
  <2> QED
    BY <1>1, <1>9, <1>11, <2>2 DEF Files!PassBegins
<1>12. CASE Files!PassEnds
  <2>1. v5' \in {NoOne} \cup SUBSET One
    BY <1>1, <1>2, <1>7, <1>12 DEF Files!PassEnds, Files!Answered
  <2> QED
    BY <1>1, <1>2, <1>6, <1>9, <1>12, <2>1 DEF Files!PassEnds
<1>13. CASE Files!PassFails
  BY <1>1, <1>2, <1>6, <1>9, <1>13 DEF Files!PassFails
<1>14. CASE \E f \in One : Files!NewFolder(f)
  <2>1. PICK f \in One : Files!NewFolder(f)
    BY <1>14
  <2>2. PICK from \in Files!Sources : Files!Called("folder", "load", Files!Listed(v5), from)
    BY <2>1 DEF Files!NewFolder
  <2>3. Calls
    BY <1>2, <1>3, <1>4, <2>2
  <2> QED
    BY <1>1, <1>9, <2>1, <2>3 DEF Files!NewFolder
<1>15. CASE Files!FolderAdded
  <2>1. PICK from \in Files!Sources :
          Files!Called("folder", "save", v6["folder"].read.items \cup {v11.file}, from)
    BY <1>15 DEF Files!FolderAdded
  <2>2. v6["folder"].read.items \cup {v11.file} \in SUBSET One
    BY <1>1, <1>2, <1>7, <1>15 DEF Files!FolderAdded
  <2>3. Calls
    BY <1>2, <1>4, <2>1, <2>2
  <2>4. v11' = [v11 EXCEPT !.at = "saving"] /\ v11.file \in One
    BY <1>1, <1>15 DEF Files!FolderAdded
  <2>5. v11'.at = "saving" /\ v11'.file \in One
    BY <2>4
  <2> QED
    BY <1>1, <1>9, <1>15, <2>3, <2>5 DEF Files!FolderAdded
<1>16. CASE Files!FolderSaved
  BY <1>1, <1>2, <1>6, <1>9, <1>16 DEF Files!FolderSaved, Files!NoFolder
<1>17. CASE Files!FolderFails
  BY <1>1, <1>2, <1>6, <1>9, <1>17 DEF Files!FolderFails, Files!NoFolder
<1>18. CASE Files!ExplorerOpens
  <2>1. PICK from \in Files!Sources : Files!Called("explorer", "load", Files!Listed(v5), from)
    BY <1>18 DEF Files!ExplorerOpens
  <2>2. Calls
    BY <1>2, <1>3, <1>4, <2>1
  <2> QED
    BY <1>1, <1>9, <1>18, <2>2 DEF Files!ExplorerOpens, Files!Closed
<1>19. CASE Files!ExplorerReady
  <2>1. Explorer
    BY <1>1, <1>2, <1>7, <1>19 DEF Files!ExplorerReady, Files!Answered
  <2>2. v5' \in {NoOne} \cup SUBSET One
    BY <1>1, <1>19 DEF Files!ExplorerReady
  <2> QED
    BY <1>1, <1>2, <1>6, <1>9, <1>19, <2>1, <2>2 DEF Files!ExplorerReady
<1>20. CASE Files!ExplorerEdit
  <2>1. Explorer
    BY ZenonT(30), <1>1, <1>20 DEF Files!ExplorerEdit
  <2> QED
    BY <1>1, <1>8, <1>9, <1>20, <2>1 DEF Files!ExplorerEdit
<1>21. CASE Files!ExplorerSaves
  <2>1. PICK from \in Files!Sources : Files!Called("explorer", "save", v12.data, from)
    BY <1>21 DEF Files!ExplorerSaves
  <2>2. Calls
    BY <1>1, <1>2, <1>4, <2>1
  <2>3. Explorer
    BY <1>1, <1>21 DEF Files!ExplorerSaves
  <2> QED
    BY <1>1, <1>9, <1>21, <2>2, <2>3 DEF Files!ExplorerSaves
<1>22. CASE Files!ExplorerSaved
  <2>1. Explorer
    BY <1>1, <1>22 DEF Files!ExplorerSaved
  <2> QED
    BY <1>1, <1>2, <1>6, <1>9, <1>22, <2>1 DEF Files!ExplorerSaved
<1>23. CASE Files!ExplorerCloses
  <2>1. Calls
    BY <1>2, <1>6, <1>8, <1>23 DEF Files!ExplorerCloses
  <2> QED
    BY <1>1, <1>9, <1>23, <2>1 DEF Files!ExplorerCloses, Files!Closed
<1>24. CASE Files!Reload
  <2>1. Calls
    BY <1>2, <1>24 DEF Calls, Files!Reload, Files!NoCall
  <2> QED
    BY <1>1, <1>9, <1>24, <2>1 DEF Files!Reload, Files!NoFolder, Files!Closed
<1>25. ASSUME NEW c \in Files!Caller, Files!Written(c) \/ Files!Found(c) \/ Files!Noted(c) \/ Files!Refused(c)
       PROVE  Files!FilesType'
  <2>1. v6[c] \in Call /\ Files!RevisionOf(v6[c].read) \in Nat
    BY <1>1 DEF Call, Files!RevisionOf, Files!Record
  <2>2. UNCHANGED <<v5, v11, v12>>
    BY <1>25 DEF Files!Written, Files!Found, Files!Noted, Files!Refused
  <2>3. CASE Files!Written(c)
    <3> DEFINE state == [revision |-> Files!NextRevision(v6[c].read), items |-> v6[c].items]
    <3>1. state \in Files!Record
      BY <1>1, <2>1 DEF Call, Files!NextRevision, Files!Larger, Files!Record
    <3>2. state # NoOne
      BY <3>1, ShellAssumption DEF Files!FilesAssumption, Files!Record
    <3>3. /\ v6' = [v6 EXCEPT ![c].at = "written", ![c].read = state]
          /\ {v1', v2'} \subseteq {v1, v2, state}
          /\ v3' = Files!Larger(v3, Files!RevisionOf(v6[c].read))
      BY <2>3 DEF Files!Written
    <3> HIDE DEF state
    <3>4. Calls
      BY ZenonT(60), <1>1, <3>1, <3>2, <3>3 DEF Calls, Call
    <3>5. v3' \in Nat
      BY <1>1, <2>1, <3>3 DEF Files!Larger
    <3> QED
      BY <1>1, <1>9, <2>2, <3>1, <3>3, <3>4, <3>5
  <2>4. CASE Files!Found(c) \/ Files!Noted(c) \/ Files!Refused(c)
    <3>1. PICK at \in {"done", "failed"} :
            /\ v6' = [v6 EXCEPT ![c].at = at]
            /\ at = "done" => v6[c].read # NoOne
      BY <1>1, <2>4 DEF Files!Found, Files!Noted, Files!Refused
    <3>2. Calls
      BY <1>1, <3>1 DEF Calls, Call
    <3>3. v3' \in Nat /\ UNCHANGED <<v1, v2>>
      BY <1>1, <2>1, <2>4 DEF Call, Files!Record, Files!Larger, Files!Found, Files!Noted, Files!Refused
    <3> QED
      BY <1>1, <1>9, <2>2, <3>2, <3>3
  <2> QED
    BY <1>25, <2>3, <2>4
<1> QED
  BY <1>10, <1>11, <1>12, <1>13, <1>14, <1>15, <1>16, <1>17, <1>18, <1>19, <1>20, <1>21, <1>22,
     <1>23, <1>24, <1>25 DEF Files!FilesNext

LEMMA FilesKeep ==
  ASSUME Files!FilesInv, Files!FilesNext
  PROVE  /\ Files!FilesInv'
         /\ Files!RevisionNeverBackStep
<1>1. Files!FilesType'
  BY FilesTyped DEF Files!FilesInv
<1>2. {"bridge", "folder", "explorer"} = Files!Caller
  BY DEF Files!Caller
<1>3. ASSUME v1' = v1
      PROVE  Files!RevisionNeverBackStep
  BY <1>3 DEF Files!RevisionNeverBackStep, Files!FilesInv, Files!FilesType, Files!RevisionOf, Files!Record
<1> USE DEF Files!storeVars, Files!bridgeVars, Files!userVars
<1>4. CASE Files!StorageEvent \/ Files!ExplorerEdit
  <2>1. UNCHANGED <<v1, v3, v4, v6, v14>>
    BY <1>4 DEF Files!StorageEvent, Files!ExplorerEdit
  <2>2. Files!RevisionsAreClose'
    BY <2>1, RevisionsKept
  <2> QED
    BY <1>1, <1>3, <2>1, <2>2 DEF Files!FilesInv
<1>5. CASE Files!PassEnds \/ Files!PassFails \/ Files!FolderSaved \/ Files!FolderFails
           \/ Files!ExplorerReady \/ Files!ExplorerSaved \/ Files!ExplorerCloses
  <2>1. /\ UNCHANGED <<v1, v3, v4, v14>>
        /\ v6' = v6 \/ \E c \in {"bridge", "folder", "explorer"} : v6[c].at # "written" /\ Files!Taken(c)
    BY <1>5 DEF Files!PassEnds, Files!PassFails, Files!FolderSaved, Files!FolderFails,
       Files!ExplorerReady, Files!ExplorerSaved, Files!ExplorerCloses, Files!Answered, Files!Failed
  <2>2. Files!RevisionsAreClose'
    BY <1>2, <2>1, RevisionsKept
  <2> QED
    BY <1>1, <1>3, <2>1, <2>2 DEF Files!FilesInv
<1>6. CASE Files!PassBegins \/ (\E f \in One : Files!NewFolder(f)) \/ Files!FolderAdded
           \/ Files!ExplorerOpens \/ Files!ExplorerSaves
  <2>1. /\ UNCHANGED <<v1, v3>>
        /\ \E c \in {"bridge", "folder", "explorer"}, from \in Files!Sources : \E op, items :
             Files!Called(c, op, items, from)
    BY <1>6 DEF Files!PassBegins, Files!NewFolder, Files!FolderAdded, Files!ExplorerOpens, Files!ExplorerSaves
  <2>2. Files!RevisionsAreClose'
    BY <1>2, <2>1, RevisionsRead
  <2> QED
    BY <1>1, <1>3, <2>1, <2>2 DEF Files!FilesInv
<1>7. CASE Files!Reload
  <2>1. /\ v1' = v1 /\ v3' = 0 /\ v4' = "store"
        /\ v6' = [c \in Files!Caller |-> Files!NoCall]
    BY <1>7 DEF Files!Reload
  <2>2. Files!Writing' = {} /\ Files!Behind' = {}
    BY <2>1 DEF Files!Writing, Files!Behind, Files!NoCall
  <2>3. Files!RevisionOf(v1)' >= 0 /\ \A c \in Files!Caller : Files!RevisionOf(v6'[c].read) = 0
    BY <1>1, <2>1 DEF Files!RevisionOf, Files!NoCall, Files!FilesType, Files!Record
  <2> QED
    BY <1>1, <1>3, <2>1, <2>2, <2>3 DEF Files!FilesInv, Files!RevisionsAreClose
<1>8. CASE \E c \in Files!Caller : Files!Written(c)
  BY <1>1, <1>8, RevisionsWritten DEF Files!FilesInv, Files!RevisionNeverBackStep
<1>9. CASE \E c \in Files!Caller : Files!Found(c) \/ Files!Refused(c)
  <2>1. v1' = v1
    BY <1>9 DEF Files!Found, Files!Refused
  <2>2. Files!RevisionsAreClose'
    BY <1>9, RevisionsFound
  <2> QED
    BY <1>1, <1>3, <2>1, <2>2 DEF Files!FilesInv
<1>10. CASE \E c \in Files!Caller : Files!Noted(c)
  <2>1. v1' = v1
    BY <1>10 DEF Files!Noted
  <2>2. Files!RevisionsAreClose'
    BY <1>10, RevisionsNoted
  <2> QED
    BY <1>1, <1>3, <2>1, <2>2 DEF Files!FilesInv
<1> QED
  BY <1>4, <1>5, <1>6, <1>7, <1>8, <1>9, <1>10 DEF Files!FilesNext

LEMMA FilesStutter ==
  ASSUME Files!FilesInv, UNCHANGED <<v1, v2, v3, v4, v5, v6, v11, v12, v14>>
  PROVE  Files!FilesInv' /\ Files!RevisionNeverBackStep
<1>1. Files!RevisionsAreClose'
  BY RevisionsKept
<1>2. Files!FilesType'
  BY DEF Files!FilesInv, Files!FilesType
<1> QED
  BY <1>1, <1>2 DEF Files!FilesInv, Files!FilesType, Files!RevisionNeverBackStep, Files!RevisionOf, Files!Record

-------------------------------------------------------------------------------
(* The feed of a release channel.                                            *)

LEMMA ReleaseInitial == Release!ReleaseInit => Release!ReleaseInv
<1> SUFFICES ASSUME Release!ReleaseInit
             PROVE  Release!ReleaseInv
  OBVIOUS
<1>1. /\ v1 = <<NoOne>> /\ v2 = FirstKey
      /\ v3 = [v \in Versions |-> Release!NoBuild("none")]
      /\ v4 = [v \in Versions |-> NoOne]
      /\ v5 = [v \in Versions |-> Release!NoPromo("none")]
  BY DEF Release!ReleaseInit
<1>2. FirstKey \in Keys
  BY ShellAssumption DEF Release!ReleaseAssumption
<1>3. Release!ReleaseType
  BY <1>1, <1>2 DEF Release!ReleaseType, Release!NoBuild, Release!NoPromo
<1> QED
  BY <1>1, <1>3 DEF Release!ReleaseInv, Release!PackagesNamed, Release!PromotionKnows, Release!NoPromo

\* The runs of promotions started again differ in their bounds only.
LEMMA RerunsAreReleases ==
  /\ Reruns!ReleaseInit => Release!ReleaseInit
  /\ Reruns!ReleaseStep => Release!ReleaseStep
  /\ Release!FeedNeverBackStep => Reruns!FeedNeverBackStep
<1>1. ASSUME NEW v \in Versions
      PROVE  /\ Reruns!Dispatch(v) => Release!Dispatch(v)
             /\ Reruns!SignedCatalog(v) => Release!SignedCatalog(v)
             /\ Reruns!Publish(v) => Release!Publish(v)
             /\ Reruns!PublishByHand(v) => Release!PublishByHand(v)
             /\ Reruns!Start(v) => Release!Start(v)
             /\ Reruns!Fetch(v) => Release!Fetch(v)
             /\ Reruns!VerifyReleaseProvenance(v) => Release!VerifyReleaseProvenance(v)
             /\ Reruns!Promote(v) => Release!Promote(v)
             /\ Reruns!Push(v) => Release!Push(v)
             /\ Reruns!FirstFeed(v) => Release!FirstFeed(v)
  <2>1. Reruns!Dispatch(v) => Release!Dispatch(v)
    BY DEF Reruns!Dispatch, Release!Dispatch
  <2>2. Reruns!SignedCatalog(v) => Release!SignedCatalog(v)
    BY DEF Reruns!SignedCatalog, Release!SignedCatalog, Reruns!NoBuild, Release!NoBuild
  <2>3. Reruns!Publish(v) => Release!Publish(v)
    BY DEF Reruns!Publish, Release!Publish, Reruns!NoBuild, Release!NoBuild, Reruns!Bytes,
       Release!Bytes, Reruns!Envelope, Release!Envelope
  <2>4. Reruns!PublishByHand(v) => Release!PublishByHand(v)
    BY DEF Reruns!PublishByHand, Release!PublishByHand, Reruns!Bytes, Release!Bytes,
       Reruns!Envelope, Release!Envelope, Reruns!Elsewhere, Release!Elsewhere
  <2>5. Reruns!Start(v) => Release!Start(v)
    BY DEF Reruns!Start, Release!Start
  <2>6. Reruns!Fetch(v) => Release!Fetch(v)
    BY DEF Reruns!Fetch, Release!Fetch
  <2>7. Reruns!VerifyReleaseProvenance(v) => Release!VerifyReleaseProvenance(v)
    BY DEF Reruns!VerifyReleaseProvenance, Release!VerifyReleaseProvenance, Reruns!Ends,
       Release!Ends, Reruns!NoPromo, Release!NoPromo, Reruns!Provenance, Release!Provenance
  <2>8. Reruns!Promote(v) => Release!Promote(v)
    BY DEF Reruns!Promote, Release!Promote, Reruns!Ends, Release!Ends, Reruns!NoPromo,
       Release!NoPromo, Reruns!ParsesFor, Release!ParsesFor, Reruns!Verifies, Release!Verifies,
       Reruns!Artifact, Release!Artifact, Reruns!Conflicts, Release!Conflicts, Reruns!Older,
       Release!Older
  <2>9. Reruns!Push(v) => Release!Push(v)
    BY DEF Reruns!Push, Release!Push, Reruns!TakesPush, Release!TakesPush, Reruns!FastForward,
       Release!FastForward, Reruns!NoPromo, Release!NoPromo
  <2>10. Reruns!FirstFeed(v) => Release!FirstFeed(v)
    BY DEF Reruns!FirstFeed, Release!FirstFeed, Reruns!Feed, Release!Feed, Reruns!ParsesFor,
       Release!ParsesFor, Reruns!Verifies, Release!Verifies, Reruns!Artifact, Release!Artifact
  <2> QED
    BY <2>1, <2>2, <2>3, <2>4, <2>5, <2>6, <2>7, <2>8, <2>9, <2>10
<1>2. /\ Reruns!Commit => Release!Commit
      /\ Reruns!Rotate => Release!Rotate
  BY DEF Reruns!Commit, Release!Commit, Reruns!Rotate, Release!Rotate
<1>3. Reruns!ReleaseStep => Release!ReleaseStep
  BY <1>1, <1>2 DEF Reruns!ReleaseStep, Release!ReleaseStep
<1>4. Reruns!ReleaseInit => Release!ReleaseInit
  BY DEF Reruns!ReleaseInit, Release!ReleaseInit, Reruns!NoBuild, Release!NoBuild,
     Reruns!NoPromo, Release!NoPromo
<1>5. Release!FeedNeverBackStep => Reruns!FeedNeverBackStep
  BY DEF Reruns!FeedNeverBackStep, Release!FeedNeverBackStep, Reruns!Conflicts,
     Release!Conflicts, Reruns!Older, Release!Older
<1> QED
  BY <1>3, <1>4, <1>5

\* Main and the releases grow, and a promotion remains what it was.
LEMMA PromotionsKept ==
  ASSUME Release!ReleaseInv, Release!ReleaseType', v5' = v5,
         Len(v1) <= Len(v1'), \A n \in 1 .. Len(v1) : v1'[n] = v1[n],
         \A v \in Versions : v4[v] # NoOne => v4'[v] = v4[v],
         \A v \in Versions : v4'[v] # NoOne => v4'[v].package = Release!Bytes(v, v4'[v].commit)
  PROVE  Release!ReleaseInv'
<1>1. Release!PackagesNamed'
  BY DEF Release!PackagesNamed, Release!Bytes
<1>2. Release!PromotionKnows'
  <2> SUFFICES ASSUME NEW v \in Versions
               PROVE  LET at == v5'[v].at  base == v5'[v].base  e == v4'[v].envelope IN
                 /\ at \in {"fetch", "verify", "promote", "push"} => v4'[v] # NoOne
                 /\ at \in {"verify", "promote", "push"} => base \in 1 .. Len(v1')
                 /\ at \in {"promote", "push"} => v4'[v].commit \in 1 .. base
                 /\ at = "push" => /\ Release!ParsesFor(e, v) /\ (Release!Artifact(v))'
                                   /\ v1'[base] # NoOne => ~ Release!Conflicts(e, v1'[base])
    BY DEF Release!PromotionKnows, Release!ParsesFor, Release!Conflicts, Release!Older
  <2>1. /\ v5[v].at \in {"fetch", "verify", "promote", "push"} => v4[v] # NoOne
        /\ v5[v].at \in {"verify", "promote", "push"} => v5[v].base \in 1 .. Len(v1)
        /\ v5[v].at \in {"promote", "push"} => v4[v].commit \in 1 .. v5[v].base
        /\ v5[v].at = "push" =>
             /\ Release!ParsesFor(v4[v].envelope, v) /\ Release!Artifact(v)
             /\ v1[v5[v].base] # NoOne => ~ Release!Conflicts(v4[v].envelope, v1[v5[v].base])
    BY DEF Release!ReleaseInv, Release!PromotionKnows
  <2>2. v4[v] # NoOne => v4'[v] = v4[v]
    OBVIOUS
  <2>3. Len(v1) \in Nat /\ Len(v1') \in Nat
    BY DEF Release!ReleaseInv, Release!ReleaseType
  <2>4. \A b \in 1 .. Len(v1) : b \in 1 .. Len(v1') /\ v1'[b] = v1[b]
    BY <2>3
  <2> QED
    BY <2>1, <2>2, <2>4 DEF Release!Artifact
<1> QED
  BY <1>1, <1>2 DEF Release!ReleaseInv

\* A promotion takes a step of its own, and nothing else happens.
LEMMA PromotionGoesOn ==
  ASSUME Release!ReleaseInv, NEW v \in Versions, UNCHANGED <<v1, v2, v3, v4>>,
         NEW p, v5' = [v5 EXCEPT ![v] = p],
         p \in [at : {"none", "fetch", "verify", "promote", "push", "done", "failed"},
                pin : Keys, base : Nat],
         p.at \in {"fetch", "verify", "promote", "push"} => v4[v] # NoOne,
         p.at \in {"verify", "promote", "push"} => p.base \in 1 .. Len(v1),
         p.at \in {"promote", "push"} => v4[v].commit \in 1 .. p.base,
         p.at = "push" =>
           /\ Release!ParsesFor(v4[v].envelope, v) /\ Release!Artifact(v)
           /\ v1[p.base] # NoOne => ~ Release!Conflicts(v4[v].envelope, v1[p.base])
  PROVE  Release!ReleaseInv'
<1>1. Release!ReleaseType'
  BY DEF Release!ReleaseInv, Release!ReleaseType, Release!Envelopes, Release!Releases
<1>2. Release!PackagesNamed'
  BY DEF Release!ReleaseInv, Release!PackagesNamed, Release!Bytes
<1>3. v5'[v] = p /\ \A w \in Versions \ {v} : v5'[w] = v5[w]
  BY DEF Release!ReleaseInv, Release!ReleaseType
<1>4. Release!PromotionKnows'
  BY <1>3 DEF Release!ReleaseInv, Release!PromotionKnows, Release!ParsesFor, Release!Conflicts,
     Release!Older, Release!Artifact
<1> QED
  BY <1>1, <1>2, <1>4 DEF Release!ReleaseInv

\* The envelope that is pushed may follow the feed it is pushed onto.
LEMMA FeedFollows ==
  ASSUME Release!ReleaseInv, NEW v \in Versions, Release!Push(v)
  PROVE  Release!FeedNeverBackStep /\ Release!ReleaseInv'
<1> DEFINE e == v4[v].envelope
           n == Len(v1)
<1>1. /\ v5[v].at = "push" /\ UNCHANGED <<v2, v3, v4>>
      /\ \/ v5[v].base = n /\ v1' = Append(v1, e) /\ v5' = [v5 EXCEPT ![v] = Release!NoPromo("done")]
         \/ v1' = v1 /\ v5' = [v5 EXCEPT ![v] = Release!NoPromo("failed")]
  BY DEF Release!Push, Release!TakesPush, Release!FastForward
<1>2. /\ v4[v] # NoOne /\ Release!ParsesFor(e, v) /\ Release!Artifact(v)
      /\ v4[v].commit \in 1 .. v5[v].base
      /\ v1[v5[v].base] # NoOne => ~ Release!Conflicts(e, v1[v5[v].base])
      /\ v4[v].package = Release!Bytes(v, v4[v].commit)
  BY <1>1 DEF Release!ReleaseInv, Release!PromotionKnows, Release!PackagesNamed
<1>3. v4[v] \in Release!Releases /\ e \in Release!Envelopes /\ e # NoOne
  BY <1>2, ShellAssumption DEF Release!ReleaseInv, Release!ReleaseType, Release!Releases,
     Release!Envelopes, Release!ReleaseAssumption
<1>4. FirstKey \in Keys
  BY ShellAssumption DEF Release!ReleaseAssumption
<1>5. v1 \in Seq({NoOne} \cup Release!Envelopes) /\ n \in Nat /\ n > 0
  BY DEF Release!ReleaseInv, Release!ReleaseType
<1>6. CASE v1' = v1 /\ v5' = [v5 EXCEPT ![v] = Release!NoPromo("failed")]
  <2>1. Release!ReleaseInv'
    BY <1>1, <1>4, <1>6, PromotionGoesOn DEF Release!NoPromo
  <2>2. v1[n] # NoOne => ~ Release!Conflicts(v1[n], v1[n])
    <3> SUFFICES ASSUME v1[n] # NoOne
                 PROVE  ~ Release!Conflicts(v1[n], v1[n])
      OBVIOUS
    <3>1. v1[n] \in Release!Envelopes
      BY <1>5
    <3>2. v1[n].version \in Nat
      BY <3>1, ShellAssumption DEF Release!Envelopes, Release!ReleaseAssumption
    <3> QED
      BY <3>2 DEF Release!Conflicts, Release!Older
  <2> QED
    BY <1>6, <2>1, <2>2 DEF Release!FeedNeverBackStep
<1>7. CASE /\ v5[v].base = n /\ v1' = Append(v1, e)
           /\ v5' = [v5 EXCEPT ![v] = Release!NoPromo("done")]
  <2>1. /\ v1' \in Seq({NoOne} \cup Release!Envelopes)
        /\ Len(v1') = n + 1 /\ v1'[Len(v1')] = e
        /\ \A i \in 1 .. n : v1'[i] = v1[i]
    BY <1>3, <1>5, <1>7
  <2>2. Release!FeedNeverBackStep
    <3>1. e.version = v /\ v4[e.version].package = e.package
      BY <1>2 DEF Release!ParsesFor, Release!Artifact
    <3>2. e.package.commit \in 1 .. n
      BY <1>2, <1>7, <3>1 DEF Release!Bytes
    <3>3. v1[n] # NoOne => ~ Release!Conflicts(e, v1[n])
      BY <1>2, <1>7
    <3> HIDE DEF e
    <3> QED
      BY <1>2, <1>3, <2>1, <3>1, <3>2, <3>3 DEF Release!FeedNeverBackStep
  <2>3. Release!ReleaseType'
    BY <1>1, <1>4, <1>5, <1>7, <2>1 DEF Release!ReleaseInv, Release!ReleaseType, Release!NoPromo,
       Release!Envelopes, Release!Releases
  <2>4. Release!PackagesNamed'
    BY <1>1 DEF Release!ReleaseInv, Release!PackagesNamed, Release!Bytes
  <2>5. /\ v5'[v].at = "done"
        /\ \A w \in Versions \ {v} : v5'[w] = v5[w]
    BY <1>7 DEF Release!ReleaseInv, Release!ReleaseType, Release!NoPromo
  <2>6. Release!PromotionKnows'
    <3> SUFFICES ASSUME NEW w \in Versions \ {v}
                 PROVE  LET at == v5[w].at  base == v5[w].base  f == v4[w].envelope IN
                   /\ at \in {"fetch", "verify", "promote", "push"} => v4[w] # NoOne
                   /\ at \in {"verify", "promote", "push"} => base \in 1 .. Len(v1')
                   /\ at \in {"promote", "push"} => v4[w].commit \in 1 .. base
                   /\ at = "push" => /\ Release!ParsesFor(f, w) /\ Release!Artifact(w)
                                     /\ v1'[base] # NoOne => ~ Release!Conflicts(f, v1'[base])
      BY <1>1, <2>5 DEF Release!PromotionKnows, Release!ParsesFor, Release!Conflicts,
         Release!Older, Release!Artifact
    <3> QED
      BY <1>5, <2>1 DEF Release!ReleaseInv, Release!PromotionKnows
  <2> QED
    BY <2>2, <2>3, <2>4, <2>6 DEF Release!ReleaseInv
<1> QED
  BY <1>1, <1>6, <1>7

\* What is read of the feed does not change while main does not.
LEMMA FeedStays ==
  ASSUME Release!ReleaseInv, v1' = v1 \/ v1' = Append(v1, v1[Len(v1)])
  PROVE  /\ Release!FeedNeverBackStep
         /\ v1' \in Seq({NoOne} \cup Release!Envelopes) /\ Len(v1') > 0
         /\ Len(v1) <= Len(v1') /\ \A n \in 1 .. Len(v1) : v1'[n] = v1[n]
<1> DEFINE n == Len(v1)
<1>1. v1 \in Seq({NoOne} \cup Release!Envelopes) /\ n \in Nat /\ n > 0
  BY DEF Release!ReleaseInv, Release!ReleaseType
<1>2. v1[n] # NoOne => ~ Release!Conflicts(v1[n], v1[n])
  <2> SUFFICES ASSUME v1[n] # NoOne
               PROVE  ~ Release!Conflicts(v1[n], v1[n])
    OBVIOUS
  <2>1. v1[n] \in Release!Envelopes
    BY <1>1
  <2>2. v1[n].version \in Nat
    BY <2>1, ShellAssumption DEF Release!Envelopes, Release!ReleaseAssumption
  <2> QED
    BY <2>2 DEF Release!Conflicts, Release!Older
<1>3. /\ v1' \in Seq({NoOne} \cup Release!Envelopes) /\ Len(v1') > 0
      /\ Len(v1) <= Len(v1') /\ \A i \in 1 .. Len(v1) : v1'[i] = v1[i]
      /\ v1'[Len(v1')] = v1[n]
  BY <1>1
<1> QED
  BY <1>2, <1>3 DEF Release!FeedNeverBackStep

LEMMA ReleaseKeeps ==
  ASSUME Release!ReleaseInv, Release!ReleaseStep
  PROVE  Release!ReleaseInv' /\ Release!FeedNeverBackStep
<1> DEFINE Build == [at : {"none", "catalog", "bundle", "published", "failed"}, commit : Nat, key : Keys]
           Promo == [at : {"none", "fetch", "verify", "promote", "push", "done", "failed"},
                     pin : Keys, base : Nat]
           Package == [version : Versions, commit : Nat]
<1>1. /\ v1 \in Seq({NoOne} \cup Release!Envelopes) /\ Len(v1) \in Nat /\ Len(v1) > 0
      /\ v2 \in Keys /\ v3 \in [Versions -> Build]
      /\ v4 \in [Versions -> {NoOne} \cup Release!Releases] /\ v5 \in [Versions -> Promo]
  BY DEF Release!ReleaseInv, Release!ReleaseType
<1>2. FirstKey \in Keys
  BY ShellAssumption DEF Release!ReleaseAssumption
<1>3. ASSUME v1' \in Seq({NoOne} \cup Release!Envelopes), Len(v1') > 0, v2' \in Keys,
             v3' \in [Versions -> Build], v4' \in [Versions -> {NoOne} \cup Release!Releases],
             v5' \in [Versions -> Promo]
      PROVE  Release!ReleaseType'
  BY <1>3 DEF Release!ReleaseType, Release!Envelopes, Release!Releases
<1>4. \A v \in Versions : v4[v] # NoOne => v4[v].package = Release!Bytes(v, v4[v].commit)
  BY DEF Release!ReleaseInv, Release!PackagesNamed
<1> HIDE DEF Build, Promo
<1>5. ASSUME v1' = v1 \/ v1' = Append(v1, v1[Len(v1)]), v5' = v5, v2' \in Keys,
             v3' \in [Versions -> Build], v4' \in [Versions -> {NoOne} \cup Release!Releases],
             \A v \in Versions : v4[v] # NoOne => v4'[v] = v4[v],
             \A v \in Versions : v4'[v] # NoOne => v4'[v].package = Release!Bytes(v, v4'[v].commit)
      PROVE  Release!ReleaseInv' /\ Release!FeedNeverBackStep
  BY <1>1, <1>3, <1>5, FeedStays, PromotionsKept
<1>6. ASSUME NEW v \in Versions
      PROVE  /\ Release!Dispatch(v) \/ Release!SignedCatalog(v) => UNCHANGED <<v1, v2, v4, v5>>
             /\ Release!Dispatch(v) \/ Release!SignedCatalog(v) \/ Release!Publish(v)
                  => v3' \in [Versions -> Build]
             /\ Release!Publish(v) => UNCHANGED <<v1, v2, v5>>
             /\ Release!PublishByHand(v) => UNCHANGED <<v1, v2, v3, v5>>
  <2>1. Release!Dispatch(v) => v3' \in [Versions -> Build]
    BY <1>1 DEF Build, Release!Dispatch
  <2>2. Release!SignedCatalog(v) => v3' \in [Versions -> Build]
    <3>1. [v3[v] EXCEPT !.at = "bundle"] \in Build /\ Release!NoBuild("failed") \in Build
      BY <1>1, <1>2 DEF Build, Release!NoBuild
    <3>2. Release!SignedCatalog(v) =>
            \/ v3' = [v3 EXCEPT ![v] = [v3[v] EXCEPT !.at = "bundle"]]
            \/ v3' = [v3 EXCEPT ![v] = Release!NoBuild("failed")]
      BY DEF Release!SignedCatalog
    <3> QED
      BY <1>1, <3>1, <3>2
  <2>3. Release!Publish(v) => v3' \in [Versions -> Build]
    BY <1>1, <1>2 DEF Build, Release!Publish, Release!NoBuild
  <2> QED
    BY <2>1, <2>2, <2>3 DEF Release!Dispatch, Release!SignedCatalog, Release!Publish, Release!PublishByHand
<1>7. ASSUME NEW v \in Versions, NEW r \in Release!Releases, v4[v] = NoOne,
             v4' = [v4 EXCEPT ![v] = r], r.package = Release!Bytes(v, r.commit)
      PROVE  /\ v4' \in [Versions -> {NoOne} \cup Release!Releases]
             /\ \A w \in Versions : v4[w] # NoOne => v4'[w] = v4[w]
             /\ \A w \in Versions : v4'[w] # NoOne => v4'[w].package = Release!Bytes(w, v4'[w].commit)
  BY <1>1, <1>4, <1>7
<1>8. ASSUME NEW v \in Versions, Release!Dispatch(v) \/ Release!SignedCatalog(v)
      PROVE  Release!ReleaseInv' /\ Release!FeedNeverBackStep
  BY <1>1, <1>4, <1>5, <1>6, <1>8
<1>9. ASSUME NEW v \in Versions, Release!Publish(v)
      PROVE  Release!ReleaseInv' /\ Release!FeedNeverBackStep
  <2> DEFINE c == v3[v].commit
             r == [commit |-> c, prerelease |-> TRUE, package |-> Release!Bytes(v, c),
                   envelope |-> Release!Envelope(v, Release!Bytes(v, c), v3[v].key)]
  <2>1. r \in Release!Releases /\ r.package = Release!Bytes(v, r.commit)
    BY <1>1 DEF Build, Release!Releases, Release!Envelopes, Release!Envelope, Release!Bytes
  <2>2. v4' = v4 \/ (v4[v] = NoOne /\ v4' = [v4 EXCEPT ![v] = r])
    BY <1>9 DEF Release!Publish
  <2> HIDE DEF r
  <2>3. /\ v4' \in [Versions -> {NoOne} \cup Release!Releases]
        /\ \A w \in Versions : v4[w] # NoOne => v4'[w] = v4[w]
        /\ \A w \in Versions : v4'[w] # NoOne => v4'[w].package = Release!Bytes(w, v4'[w].commit)
    BY <1>1, <1>4, <1>7, <2>1, <2>2
  <2> QED
    BY <1>1, <1>5, <1>6, <1>9, <2>3
<1>10. ASSUME NEW v \in Versions, Release!PublishByHand(v)
       PROVE  Release!ReleaseInv' /\ Release!FeedNeverBackStep
  <2>1. PICK c \in {0, Len(v1)}, pre \in BOOLEAN, k \in Keys, w \in Versions, b \in Package :
          v4' = [v4 EXCEPT ![v] = [commit |-> c, prerelease |-> pre, package |-> Release!Bytes(v, c),
                                   envelope |-> Release!Envelope(w, b, k)]]
    <3>1. PICK c \in {0, Len(v1)}, pre \in BOOLEAN, k \in Keys, w \in Versions, same \in BOOLEAN :
            v4' = [v4 EXCEPT ![v] = [commit |-> c, prerelease |-> pre, package |-> Release!Bytes(v, c),
                     envelope |-> Release!Envelope(w, IF same THEN Release!Bytes(v, c)
                                                      ELSE Release!Bytes(w, Release!Elsewhere), k)]]
      BY <1>10 DEF Release!PublishByHand, Release!Elsewhere
    <3>2. (IF same THEN Release!Bytes(v, c) ELSE Release!Bytes(w, Release!Elsewhere)) \in Package
      BY <1>1 DEF Release!Bytes, Release!Elsewhere
    <3> QED
      BY <3>1, <3>2
  <2> DEFINE r == [commit |-> c, prerelease |-> pre, package |-> Release!Bytes(v, c),
                   envelope |-> Release!Envelope(w, b, k)]
  <2>2. r \in Release!Releases /\ r.package = Release!Bytes(v, r.commit)
    BY <1>1, <2>1 DEF Release!Releases, Release!Envelopes, Release!Envelope, Release!Bytes
  <2>3. v4[v] = NoOne
    BY <1>10 DEF Release!PublishByHand
  <2>4. v4' = [v4 EXCEPT ![v] = r]
    BY <2>1
  <2> HIDE DEF r
  <2>5. /\ v4' \in [Versions -> {NoOne} \cup Release!Releases]
        /\ \A x \in Versions : v4[x] # NoOne => v4'[x] = v4[x]
        /\ \A x \in Versions : v4'[x] # NoOne => v4'[x].package = Release!Bytes(x, v4'[x].commit)
    BY <1>7, <2>2, <2>3, <2>4
  <2> QED
    BY <1>1, <1>5, <1>6, <1>10, <2>5
<1>11. ASSUME Release!Commit \/ Release!Rotate
       PROVE  Release!ReleaseInv' /\ Release!FeedNeverBackStep
  BY <1>1, <1>4, <1>5, <1>11 DEF Release!Commit, Release!Rotate
<1>12. ASSUME NEW v \in Versions, NEW p, UNCHANGED <<v1, v2, v3, v4>>,
              v5' = [v5 EXCEPT ![v] = p], p \in Promo,
              p.at \in {"fetch", "verify", "promote", "push"} => v4[v] # NoOne,
              p.at \in {"verify", "promote", "push"} => p.base \in 1 .. Len(v1),
              p.at \in {"promote", "push"} => v4[v].commit \in 1 .. p.base,
              p.at = "push" =>
                /\ Release!ParsesFor(v4[v].envelope, v) /\ Release!Artifact(v)
                /\ v1[p.base] # NoOne => ~ Release!Conflicts(v4[v].envelope, v1[p.base])
       PROVE  Release!ReleaseInv' /\ Release!FeedNeverBackStep
  BY <1>12, FeedStays, PromotionGoesOn DEF Promo
<1>13. ASSUME NEW v \in Versions, Release!Start(v)
       PROVE  Release!ReleaseInv' /\ Release!FeedNeverBackStep
  <2> DEFINE p == [at |-> "fetch", pin |-> v2, base |-> 0]
  <2>1. p \in Promo /\ p.at = "fetch"
    BY <1>1 DEF Promo
  <2>2. v5' = [v5 EXCEPT ![v] = p] /\ UNCHANGED <<v1, v2, v3, v4>> /\ v4[v] # NoOne
    BY <1>13 DEF Release!Start
  <2> HIDE DEF p
  <2> QED
    BY <1>12, <2>1, <2>2
<1>14. ASSUME NEW v \in Versions, Release!Fetch(v)
       PROVE  Release!ReleaseInv' /\ Release!FeedNeverBackStep
  <2> DEFINE p == [v5[v] EXCEPT !.at = "verify", !.base = Len(v1)]
  <2>1. p \in Promo /\ p.at = "verify" /\ p.base = Len(v1)
    BY <1>1 DEF Promo
  <2>2. v5' = [v5 EXCEPT ![v] = p] /\ UNCHANGED <<v1, v2, v3, v4>>
    BY <1>14 DEF Release!Fetch
  <2>3. v4[v] # NoOne
    BY <1>14 DEF Release!Fetch, Release!ReleaseInv, Release!PromotionKnows
  <2>4. Len(v1) \in 1 .. Len(v1)
    BY <1>1
  <2> HIDE DEF p
  <2> QED
    BY <1>12, <2>1, <2>2, <2>3, <2>4
<1>15. ASSUME NEW v \in Versions, NEW at \in {"promote", "push", "failed", "done"},
              v5[v].at \in {"verify", "promote"}, Release!Ends(v, at),
              at \in {"promote", "push"} => v4[v].commit \in 1 .. v5[v].base,
              at = "push" =>
                /\ Release!ParsesFor(v4[v].envelope, v) /\ Release!Artifact(v)
                /\ v1[v5[v].base] # NoOne => ~ Release!Conflicts(v4[v].envelope, v1[v5[v].base])
       PROVE  Release!ReleaseInv' /\ Release!FeedNeverBackStep
  <2> DEFINE p == IF at \in {"failed", "done"} THEN Release!NoPromo(at) ELSE [v5[v] EXCEPT !.at = at]
  <2>1. p \in Promo /\ p.at = at /\ (at \in {"promote", "push"} => p.base = v5[v].base)
    BY <1>1, <1>2 DEF Promo, Release!NoPromo
  <2>2. v5' = [v5 EXCEPT ![v] = p] /\ UNCHANGED <<v1, v2, v3, v4>>
    BY <1>15 DEF Release!Ends
  <2>3. v4[v] # NoOne /\ v5[v].base \in 1 .. Len(v1)
    BY <1>15 DEF Release!ReleaseInv, Release!PromotionKnows
  <2> HIDE DEF p
  <2> QED
    BY <1>12, <1>15, <2>1, <2>2, <2>3
<1>16. ASSUME NEW v \in Versions, Release!VerifyReleaseProvenance(v)
       PROVE  Release!ReleaseInv' /\ Release!FeedNeverBackStep
  <2> DEFINE at == IF Release!Provenance(v) THEN "promote" ELSE "failed"
  <2>1. at \in {"promote", "failed"} /\ (at = "promote" => v4[v].commit \in 1 .. v5[v].base)
    BY DEF Release!Provenance
  <2>2. v5[v].at = "verify" /\ Release!Ends(v, at)
    BY <1>16 DEF Release!VerifyReleaseProvenance
  <2> HIDE DEF at
  <2> QED
    BY <1>15, <2>1, <2>2
<1>17. ASSUME NEW v \in Versions, Release!Promote(v)
       PROVE  Release!ReleaseInv' /\ Release!FeedNeverBackStep
  <2>1. v4[v].commit \in 1 .. v5[v].base /\ v5[v].at = "promote"
    BY <1>17 DEF Release!Promote, Release!ReleaseInv, Release!PromotionKnows
  <2>2. PICK at \in {"push", "failed", "done"} :
          /\ Release!Ends(v, at)
          /\ at = "push" =>
               /\ Release!ParsesFor(v4[v].envelope, v) /\ Release!Artifact(v)
               /\ v1[v5[v].base] # NoOne => ~ Release!Conflicts(v4[v].envelope, v1[v5[v].base])
    BY <1>17 DEF Release!Promote
  <2> QED
    BY <1>15, <2>1, <2>2
<1>18. ASSUME NEW v \in Versions, Release!FirstFeed(v)
       PROVE  Release!ReleaseInv' /\ Release!FeedNeverBackStep
  <2> DEFINE e == v4[v].envelope
             n == Len(v1)
  <2>1. /\ v1[n] = NoOne /\ v4[v] # NoOne /\ v4[v].commit \in 1 .. n
        /\ Release!ParsesFor(e, v) /\ Release!Artifact(v)
        /\ v1' = Append(v1, e) /\ UNCHANGED <<v2, v3, v4, v5>>
    BY <1>18 DEF Release!FirstFeed, Release!Feed
  <2>2. v4[v] \in Release!Releases /\ e \in Release!Envelopes /\ e # NoOne
    BY <1>1, <2>1, ShellAssumption DEF Release!Releases, Release!Envelopes, Release!ReleaseAssumption
  <2>3. /\ v1' \in Seq({NoOne} \cup Release!Envelopes)
        /\ Len(v1') = n + 1 /\ v1'[Len(v1')] = e
        /\ \A i \in 1 .. n : v1'[i] = v1[i]
    BY <1>1, <2>1, <2>2
  <2>4. e.version = v /\ v4[e.version].package = e.package /\ e.package.commit \in 1 .. n
    <3>1. e.version = v /\ v4[v].package = e.package
      BY <2>1 DEF Release!ParsesFor, Release!Artifact
    <3>2. v4[v].package = [version |-> v, commit |-> v4[v].commit]
      BY <1>4, <2>1 DEF Release!Bytes
    <3> QED
      BY <2>1, <3>1, <3>2
  <2> HIDE DEF e
  <2>5. Release!ReleaseType'
    <3>1. Len(v1') > 0
      BY <1>1, <2>3
    <3>2. /\ v2' \in Keys /\ v3' \in [Versions -> Build] /\ v5' \in [Versions -> Promo]
          /\ v4' \in [Versions -> {NoOne} \cup Release!Releases]
      BY <1>1, <2>1
    <3> QED
      BY <1>3, <2>3, <3>1, <3>2
  <2>6. Release!FeedNeverBackStep
    BY <2>1, <2>3, <2>4 DEF Release!FeedNeverBackStep
  <2>7. Release!ReleaseInv'
    BY <1>1, <1>4, <2>1, <2>3, <2>5, PromotionsKept
  <2> QED
    BY <2>6, <2>7
<1> QED
  BY <1>8, <1>9, <1>10, <1>11, <1>13, <1>14, <1>16, <1>17, <1>18, FeedFollows DEF Release!ReleaseStep

LEMMA ReleaseStutter ==
  ASSUME Release!ReleaseInv, UNCHANGED <<v1, v2, v3, v4, v5>>
  PROVE  Release!ReleaseInv' /\ Release!FeedNeverBackStep
<1>1. Release!ReleaseType'
  BY DEF Release!ReleaseInv, Release!ReleaseType, Release!Envelopes, Release!Releases
<1>2. /\ \A v \in Versions : v4[v] # NoOne => v4[v].package = Release!Bytes(v, v4[v].commit)
      /\ Len(v1) \in Nat
  BY DEF Release!ReleaseInv, Release!PackagesNamed, Release!ReleaseType
<1> QED
  BY <1>1, <1>2, FeedStays, PromotionsKept

\* Revisions never go back, for any number of files, edits, failures of a write and reloads;
\* nor does the feed, for any versions and keys, however many promotions overlap.
THEOREM NothingEverGoesBack ==
  Spec => NothingGoesBack
<1> DEFINE Inv == /\ focus = "files" => Files!FilesInv
                  /\ focus \in {"release", "reruns"} => Release!ReleaseInv
           Step == /\ focus = "files" => Files!RevisionNeverBackStep
                   /\ focus = "release" => Release!FeedNeverBackStep
                   /\ focus = "reruns" => Reruns!FeedNeverBackStep
<1>1. Init => Inv
  BY FilesInitial, ReleaseInitial, RerunsAreReleases DEF Init
<1>2. Inv /\ [Next]_slots => Inv' /\ Step
  <2> SUFFICES ASSUME Inv, [Next]_slots
               PROVE  Inv' /\ Step
    OBVIOUS
  <2>1. CASE focus = "files" /\ Files!FilesNext /\ focus' = focus
    BY <2>1, FilesKeep
  <2>2. CASE focus = "release" /\ Release!ReleaseNext /\ focus' = focus
    BY <2>2, ReleaseKeeps DEF Release!ReleaseNext
  <2>3. CASE focus = "reruns" /\ Reruns!ReleaseNext /\ focus' = focus
    BY <2>3, ReleaseKeeps, RerunsAreReleases DEF Reruns!ReleaseNext
  <2>4. CASE focus \notin {"files", "release", "reruns"} /\ focus' = focus
    BY <2>4
  <2>5. CASE UNCHANGED slots
    <3>1. UNCHANGED <<focus, v1, v2, v3, v4, v5, v6, v11, v12, v14>>
      BY <2>5 DEF slots
    <3> QED
      BY <3>1, FilesStutter, ReleaseStutter, RerunsAreReleases
  <2> QED
    BY <2>1, <2>2, <2>3, <2>4, <2>5 DEF Next
<1> QED
  BY <1>1, <1>2, PTL DEF Spec, NothingGoesBack

-------------------------------------------------------------------------------
(* The contexts of the native broker.                                        *)

LEMMA ContextsInitial == Contexts!ContextsInit => Contexts!ContextsInv
  BY DEF Contexts!ContextsInit, Contexts!ContextsInv

LEMMA ContextsKeep ==
  ASSUME Contexts!ContextsInv, Contexts!ContextsNext
  PROVE  Contexts!ContextsInv'
<1> DEFINE Cs == UNION {[S -> BOOLEAN] : S \in SUBSET Pair}
           Sync == [at : {"list", "sent"}, contexts : Cs]
           last == v4[Len(v4)]
<1>1. /\ v1 \subseteq Pair /\ v4 \in Seq(Sync)
      /\ ~ v3 /\ ~ v7 => IF v4 = <<>> THEN v5 = Contexts!Contexts
                         ELSE last.at = "sent" => last.contexts = Contexts!Contexts
  BY DEF Contexts!ContextsInv
<1>2. Contexts!Contexts \in Cs /\ Contexts!Nothing \in Cs
  <2>1. Contexts!Contexts \in [v1 -> BOOLEAN] /\ Contexts!Nothing \in [{} -> BOOLEAN]
    BY DEF Contexts!Contexts, Contexts!Nothing
  <2> QED
    BY <1>1, <2>1
<1> HIDE DEF Cs
<1>3. ASSUME v1' \subseteq Pair, v4' \in Seq(Sync),
             ~ v3' /\ ~ v7' => IF v4' = <<>> THEN v5' = Contexts!Contexts'
                               ELSE last'.at = "sent" => last'.contexts = Contexts!Contexts'
      PROVE  Contexts!ContextsInv'
  BY <1>3 DEF Contexts!ContextsInv, Cs
<1>4. CASE \E p \in Pair : Contexts!Change(p) \/ Contexts!Permit(p)
  <2>1. v3' /\ v4' = v4 /\ v1' \subseteq Pair
    BY <1>1, <1>4 DEF Contexts!Change, Contexts!Permit, Contexts!OnChange, Contexts!Schedule
  <2> QED
    BY <1>1, <1>3, <2>1
<1>5. CASE Contexts!Fire
  <2> DEFINE new == [at |-> "list", contexts |-> Contexts!Nothing]
  <2>1. v1' = v1 /\ v4' = Append(v4, new) /\ new \in Sync /\ new.at = "list"
    BY <1>2, <1>5 DEF Contexts!Fire
  <2> HIDE DEF new, Sync
  <2>2. v4' \in Seq(Sync) /\ v4' # <<>> /\ last' = new
    BY <1>1, <2>1
  <2> QED
    BY <1>1, <1>3, <2>1, <2>2
<1>6. CASE \E i \in DOMAIN v4 : Contexts!buildInstalledContextSnapshot(i)
  <2>1. PICK i \in DOMAIN v4 : Contexts!buildInstalledContextSnapshot(i)
    BY <1>6
  <2> DEFINE new == [at |-> "sent", contexts |-> Contexts!Contexts]
  <2>2. /\ UNCHANGED <<v1, v2, v3, v5, v7>> /\ v4' = [v4 EXCEPT ![i] = new]
        /\ new \in Sync /\ new.contexts = Contexts!Contexts
    BY <1>2, <2>1 DEF Contexts!buildInstalledContextSnapshot
  <2>3. Contexts!Contexts' = Contexts!Contexts
    BY <2>2 DEF Contexts!Contexts
  <2> HIDE DEF new, Sync
  <2>4. v4' \in Seq(Sync) /\ Len(v4') = Len(v4) /\ v4 # <<>> /\ v4' # <<>>
        /\ (last' = new \/ last' = last)
    BY <1>1, <2>2
  <2> QED
    BY <1>1, <1>3, <2>2, <2>3, <2>4
<1>7. CASE Contexts!syncInstalledContexts
  <2>1. /\ UNCHANGED <<v1, v2, v3>> /\ v4 # <<>> /\ v4' = Tail(v4)
        /\ \/ Head(v4).at = "sent" /\ v5' = Head(v4).contexts /\ v7' = v7
           \/ v7'
    BY <1>7 DEF Contexts!syncInstalledContexts
  <2>2. Contexts!Contexts' = Contexts!Contexts
    BY <2>1 DEF Contexts!Contexts
  <2> HIDE DEF Sync
  <2>3. /\ v4' \in Seq(Sync)
        /\ v4' = <<>> => Head(v4) = last
        /\ v4' # <<>> => last' = last
    BY <1>1, <2>1
  <2> QED
    BY <1>1, <1>3, <2>1, <2>2, <2>3
<1> QED
  BY <1>4, <1>5, <1>6, <1>7 DEF Contexts!ContextsNext

LEMMA ContextsStutter ==
  ASSUME Contexts!ContextsInv, UNCHANGED <<v1, v2, v3, v4, v5, v7>>
  PROVE  Contexts!ContextsInv'
  BY DEF Contexts!ContextsInv, Contexts!Contexts

-------------------------------------------------------------------------------
(* The widgets.                                                              *)

LEMMA WidgetsInitial == Widgets!WidgetInit => Widgets!WidgetInv
  BY DEF Widgets!WidgetInit, Widgets!WidgetInv

LEMMA WidgetsKeep ==
  ASSUME Widgets!WidgetInv, Widgets!WidgetNext
  PROVE  Widgets!WidgetInv'
<1> DEFINE Render == [at : {"list", "card", "done"}, clock : BOOLEAN]
           n == Len(v2)
           Has(w) == <<w, n>> \in v3 /\ (w = "clock" => n \in v4)
<1>1. /\ v2 \in Seq(Render) /\ n \in Nat
      /\ ~ v7 /\ v2 # <<>> =>
           /\ v2[n].at = "card" => /\ v2[n].clock <=> "clock" \in v1
                                   /\ "clock" \in v1 => <<"clock", n>> \in v3
           /\ v2[n].at = "done" => \A w \in v1 \cap Widgets!Widget : Has(w)
  BY DEF Widgets!WidgetInv
<1>2. ASSUME Widgets!Begin
      PROVE  Widgets!WidgetInv'
  <2> DEFINE new == [at |-> "list", clock |-> FALSE]
  <2>1. v2' = Append(v2, new) /\ new \in Render /\ new.at = "list"
    BY <1>2 DEF Widgets!Begin
  <2> HIDE DEF new, Render
  <2>2. v2' \in Seq(Render) /\ v2'[Len(v2')].at = "list"
    BY <1>1, <2>1
  <2> QED
    BY <2>2 DEF Widgets!WidgetInv, Render
<1>3. CASE Widgets!FirstRender \/ \E p \in Widgets!Package : Widgets!Change(p)
  BY <1>2, <1>3 DEF Widgets!FirstRender, Widgets!Change, Widgets!Render
\* A step of one of the renders: what is there stays, and the last one is as it should be.
<1>4. ASSUME NEW r \in DOMAIN v2, NEW new \in Render, v1' = v1, v2' = [v2 EXCEPT ![r] = new],
             v3 \subseteq v3', v4 \subseteq v4', v7 => v7',
             r = n /\ ~ v7' =>
               /\ new.at = "card" => /\ new.clock <=> "clock" \in v1
                                     /\ "clock" \in v1 => <<"clock", n>> \in v3'
               /\ new.at = "done" => \A w \in v1 \cap Widgets!Widget :
                                       <<w, n>> \in v3' /\ (w = "clock" => n \in v4')
      PROVE  Widgets!WidgetInv'
  <2> HIDE DEF Render
  <2>1. v2' \in Seq(Render) /\ Len(v2') = n /\ v2 # <<>> /\ n \in DOMAIN v2
        /\ v2'[n] = (IF r = n THEN new ELSE v2[n])
    BY <1>1, <1>4
  <2>2. CASE r = n
    BY <1>4, <2>1, <2>2 DEF Widgets!WidgetInv, Render
  <2>3. CASE r # n
    BY <1>1, <1>4, <2>1, <2>3 DEF Widgets!WidgetInv, Render
  <2> QED
    BY <2>2, <2>3
<1>5. ASSUME NEW r \in DOMAIN v2, Widgets!Listed(r)
      PROVE  Widgets!WidgetInv'
  <2>1. PICK found \in {Widgets!resolveInstalledWidgets, {}} :
          /\ IF found = Widgets!resolveInstalledWidgets THEN UNCHANGED <<v6, v7>> ELSE Widgets!ReadFails
          /\ v3' = v3 \cup (IF "clock" \in found THEN {<<"clock", r>>} ELSE {})
          /\ IF "system" \in found
             THEN /\ v2' = [v2 EXCEPT ![r] = [at |-> "card", clock |-> "clock" \in found]]
                  /\ UNCHANGED <<v4, v5>>
             ELSE Widgets!Finish(r, "clock" \in found)
    BY <1>5 DEF Widgets!Listed
  <2>2. /\ v1' = v1 /\ (v7 => v7') /\ v3 \subseteq v3'
        /\ ~ v7' => found = v1 \cap Widgets!Widget
    BY <1>5, <2>1 DEF Widgets!Listed, Widgets!ReadFails, Widgets!resolveInstalledWidgets
  <2>3. "clock" \in Widgets!Widget /\ "system" \in Widgets!Widget
        /\ \A w \in Widgets!Widget : w \in {"clock", "system"}
    BY DEF Widgets!Widget
  <2>4. CASE "system" \in found
    <3> DEFINE new == [at |-> "card", clock |-> "clock" \in found]
    <3>1. new \in Render /\ new.at = "card"
      BY DEF Render
    <3>2. new.clock <=> "clock" \in found
      BY Zenon
    <3>3. v2' = [v2 EXCEPT ![r] = new] /\ v4' = v4
      BY <2>1, <2>4
    <3> HIDE DEF new, Render
    <3> QED
      BY <1>4, <2>1, <2>2, <2>3, <3>1, <3>2, <3>3
  <2>5. CASE "system" \notin found
    <3> DEFINE new == [at |-> "done", clock |-> FALSE]
    <3>1. new \in Render /\ new.at = "done"
      BY DEF Render
    <3>2. /\ v2' = [v2 EXCEPT ![r] = new] /\ v4 \subseteq v4'
          /\ "clock" \in found => r \in v4'
      BY <2>1, <2>5 DEF Widgets!Finish
    <3> HIDE DEF new, Render
    <3>3. r = n /\ ~ v7' => \A w \in v1 \cap Widgets!Widget :
                              <<w, n>> \in v3' /\ (w = "clock" => n \in v4')
      BY <2>1, <2>2, <2>3, <2>5, <3>2
    <3> QED
      BY <1>4, <2>2, <3>1, <3>2, <3>3
  <2> QED
    BY <2>4, <2>5
<1>6. ASSUME NEW r \in DOMAIN v2, Widgets!SystemCard(r)
      PROVE  Widgets!WidgetInv'
  <2> DEFINE new == [at |-> "done", clock |-> FALSE]
  <2>1. new \in Render /\ new.at = "done"
    BY DEF Render
  <2>2. /\ v2' = [v2 EXCEPT ![r] = new] /\ v4 \subseteq v4' /\ v1' = v1 /\ v7' = v7
        /\ v3' = v3 \cup {<<"system", r>>} /\ v2[r].at = "card"
    BY <1>6 DEF Widgets!SystemCard, Widgets!Finish
  <2>3. v2[r].clock => r \in v4'
    BY <1>6 DEF Widgets!SystemCard, Widgets!Finish
  <2> HIDE DEF new, Render
  <2>4. ASSUME r = n, ~ v7'
        PROVE  \A w \in v1 \cap Widgets!Widget : <<w, n>> \in v3' /\ (w = "clock" => n \in v4')
    <3>1. v2 # <<>> /\ v2[n].at = "card" /\ ~ v7
      BY <1>1, <2>2, <2>4
    <3>2. "clock" \in v1 => <<"clock", n>> \in v3 /\ n \in v4'
      BY <1>1, <2>3, <2>4, <3>1
    <3> QED
      BY <2>2, <2>4, <3>2 DEF Widgets!Widget
  <2> QED
    BY <1>4, <2>1, <2>2, <2>4
<1> QED
  BY <1>3, <1>5, <1>6 DEF Widgets!WidgetNext

LEMMA WidgetsStutter ==
  ASSUME Widgets!WidgetInv, UNCHANGED <<v1, v2, v3, v4, v7>>
  PROVE  Widgets!WidgetInv'
  BY DEF Widgets!WidgetInv

\* Of what is not installed only the system card can be there.
LEMMA OthersGo ==
  /\ Widgets!WidgetInit => Widgets!OnlySystemLingers
  /\ Widgets!OnlySystemLingers /\ Widgets!WidgetNext => Widgets!OnlySystemLingers'
<1>1. Widgets!WidgetInit => Widgets!OnlySystemLingers
  BY DEF Widgets!WidgetInit, Widgets!OnlySystemLingers
<1>2. ASSUME Widgets!OnlySystemLingers, Widgets!WidgetNext
      PROVE  Widgets!OnlySystemLingers'
  <2>1. CASE Widgets!FirstRender \/ \E p \in Widgets!Package : Widgets!Change(p)
    <3>1. v3' = {}
      BY <2>1 DEF Widgets!FirstRender, Widgets!Change, Widgets!Render, Widgets!Begin
    <3> QED
      BY <3>1 DEF Widgets!OnlySystemLingers
  <2>2. ASSUME NEW r \in DOMAIN v2, Widgets!Listed(r)
        PROVE  Widgets!OnlySystemLingers'
    <3>1. PICK found \in {Widgets!resolveInstalledWidgets, {}} :
            v3' = v3 \cup (IF "clock" \in found THEN {<<"clock", r>>} ELSE {})
      BY <2>2 DEF Widgets!Listed
    <3>2. v1' = v1 /\ ("clock" \in found => "clock" \in v1)
      BY <2>2 DEF Widgets!Listed, Widgets!resolveInstalledWidgets
    <3> QED
      BY <1>2, <3>1, <3>2 DEF Widgets!OnlySystemLingers
  <2>3. ASSUME NEW r \in DOMAIN v2, Widgets!SystemCard(r)
        PROVE  Widgets!OnlySystemLingers'
    BY <1>2, <2>3 DEF Widgets!SystemCard, Widgets!OnlySystemLingers
  <2> QED
    BY <1>2, <2>1, <2>2, <2>3 DEF Widgets!WidgetNext
<1> QED
  BY <1>1, <1>2

LEMMA WidgetsAreShown == Widgets!WidgetInv => Widgets!WidgetsShown
<1> SUFFICES ASSUME Widgets!WidgetInv, Widgets!Quiet, NEW w \in v1 \cap Widgets!Widget
             PROVE  \E r \in DOMAIN v2 : <<w, r>> \in v3 /\ (w = "clock" => r \in v4)
  BY DEF Widgets!WidgetsShown
<1>1. Len(v2) \in DOMAIN v2 /\ v2 # <<>> /\ ~ v7 /\ v2[Len(v2)].at = "done"
  BY DEF Widgets!WidgetInv, Widgets!Quiet
<1> QED
  BY <1>1 DEF Widgets!WidgetInv

-------------------------------------------------------------------------------
(* The queue of the player.                                                  *)

\* Two sequences one after the other.
LEMMA Joined ==
  ASSUME NEW S, NEW a \in Seq(S), NEW b \in Seq(S)
  PROVE  /\ a \o b \in Seq(S) /\ Len(a \o b) = Len(a) + Len(b)
         /\ \A j \in 1 .. Len(a) + Len(b) :
              (a \o b)[j] = IF j <= Len(a) THEN a[j] ELSE b[j - Len(a)]
  OBVIOUS

\* A queue without one of its tracks: those before stay, those behind move up.
LEMMA TrackRemoved ==
  ASSUME NEW S, NEW s \in Seq(S), NEW i \in 1 .. Len(s)
  PROVE  /\ Media!RemoveAt(s, i) \in Seq(S)
         /\ Len(Media!RemoveAt(s, i)) = Len(s) - 1
         /\ \A j \in 1 .. Len(s) - 1 :
              Media!RemoveAt(s, i)[j] = IF j < i THEN s[j] ELSE s[j + 1]
<1> DEFINE a == SubSeq(s, 1, i - 1)
           b == SubSeq(s, i + 1, Len(s))
<1>1. a \in Seq(S) /\ Len(a) = i - 1 /\ \A j \in 1 .. i - 1 : a[j] = s[j]
  OBVIOUS
<1>2. b \in Seq(S) /\ Len(b) = Len(s) - i /\ \A j \in 1 .. Len(s) - i : b[j] = s[i + j]
  OBVIOUS
<1>3. Media!RemoveAt(s, i) = a \o b
  BY DEF Media!RemoveAt
<1> HIDE DEF a, b
<1>4. /\ a \o b \in Seq(S) /\ Len(a \o b) = Len(s) - 1
      /\ \A j \in 1 .. Len(s) - 1 : (a \o b)[j] = IF j <= Len(a) THEN a[j] ELSE b[j - Len(a)]
  <2>1. Len(s) \in Nat /\ i \in Nat /\ Len(a) + Len(b) = Len(s) - 1
    BY <1>1, <1>2
  <2>2. a \in Seq(S) /\ b \in Seq(S)
    BY <1>1, <1>2
  <2>3. /\ a \o b \in Seq(S) /\ Len(a \o b) = Len(a) + Len(b)
        /\ \A j \in 1 .. Len(a) + Len(b) : (a \o b)[j] = IF j <= Len(a) THEN a[j] ELSE b[j - Len(a)]
    BY <2>2, Joined
  <2> QED
    BY <2>1, <2>3
<1>5. ASSUME NEW j \in 1 .. Len(s) - 1
      PROVE  (a \o b)[j] = IF j < i THEN s[j] ELSE s[j + 1]
  <2>1. CASE j < i
    BY <1>1, <1>4, <2>1
  <2>2. CASE j >= i
    <3>1. (a \o b)[j] = b[j - (i - 1)]
      BY <1>1, <1>4, <2>2
    <3>2. j - (i - 1) \in 1 .. Len(s) - i
      BY <2>2
    <3>3. b[j - (i - 1)] = s[i + (j - (i - 1))]
      BY <1>2, <3>2
    <3>4. i + (j - (i - 1)) = j + 1 /\ ~ (j < i)
      BY <2>2
    <3> QED
      BY <3>1, <3>3, <3>4
  <2>3. j < i \/ j >= i
    OBVIOUS
  <2> QED
    BY <2>1, <2>2, <2>3
<1> QED
  BY <1>3, <1>4, <1>5

\* A queue with a track put in: those from its place on move down.
LEMMA TrackInserted ==
  ASSUME NEW S, NEW s \in Seq(S), NEW i \in 1 .. Len(s) + 1, NEW e \in S
  PROVE  /\ Media!InsertAt(s, i, e) \in Seq(S)
         /\ Len(Media!InsertAt(s, i, e)) = Len(s) + 1
         /\ \A j \in 1 .. Len(s) + 1 :
              Media!InsertAt(s, i, e)[j] = IF j < i THEN s[j] ELSE IF j = i THEN e ELSE s[j - 1]
<1> DEFINE a == SubSeq(s, 1, i - 1)
           b == SubSeq(s, i, Len(s))
           c == a \o <<e>>
<1>1. a \in Seq(S) /\ Len(a) = i - 1 /\ \A j \in 1 .. i - 1 : a[j] = s[j]
  OBVIOUS
<1>2. b \in Seq(S) /\ Len(b) = Len(s) + 1 - i /\ \A j \in 1 .. Len(s) + 1 - i : b[j] = s[i + j - 1]
  OBVIOUS
<1>3. Media!InsertAt(s, i, e) = c \o b
  BY DEF Media!InsertAt
<1> HIDE DEF a, b
<1>4. c \in Seq(S) /\ Len(c) = i /\ \A j \in 1 .. i : c[j] = IF j < i THEN a[j] ELSE e
  BY <1>1
<1> HIDE DEF c
<1>5. /\ c \o b \in Seq(S) /\ Len(c \o b) = Len(s) + 1
      /\ \A j \in 1 .. Len(s) + 1 : (c \o b)[j] = IF j <= i THEN c[j] ELSE b[j - i]
  <2>1. Len(s) \in Nat /\ i \in Nat /\ Len(c) + Len(b) = Len(s) + 1
    BY <1>2, <1>4
  <2>2. c \in Seq(S) /\ b \in Seq(S)
    BY <1>2, <1>4
  <2>3. /\ c \o b \in Seq(S) /\ Len(c \o b) = Len(c) + Len(b)
        /\ \A j \in 1 .. Len(c) + Len(b) : (c \o b)[j] = IF j <= Len(c) THEN c[j] ELSE b[j - Len(c)]
    BY <2>2, Joined
  <2> QED
    BY <2>1, <2>3, <1>4
<1>6. ASSUME NEW j \in 1 .. Len(s) + 1
      PROVE  (c \o b)[j] = IF j < i THEN s[j] ELSE IF j = i THEN e ELSE s[j - 1]
  <2>1. CASE j <= i
    BY <1>1, <1>4, <1>5, <2>1
  <2>2. CASE j > i
    <3>1. (c \o b)[j] = b[j - i] /\ j - i \in 1 .. Len(s) + 1 - i
      BY <1>5, <2>2
    <3>2. b[j - i] = s[i + (j - i) - 1]
      BY <1>2, <3>1
    <3>3. i + (j - i) - 1 = j - 1 /\ ~ (j < i) /\ j # i
      BY <2>2
    <3> QED
      BY <3>1, <3>2, <3>3
  <2>3. j <= i \/ j > i
    OBVIOUS
  <2> QED
    BY <2>1, <2>2, <2>3
<1> QED
  BY <1>3, <1>5, <1>6

LEMMA MediaInitial == Media!MediaInit => Media!MediaInv
<1> SUFFICES ASSUME Media!MediaInit
             PROVE  Media!MediaInv
  OBVIOUS
<1>1. /\ v1.tracks = <<"chime">> /\ v1.index = 1 /\ {"tracks", "index"} \subseteq DOMAIN v1
      /\ v2 = "chime"
  BY DEF Media!MediaInit
<1>2. "chime" \notin Other \cup Pair
  BY ShellAssumption DEF Media!MediaAssumption
<1> QED
  BY <1>1, <1>2 DEF Media!MediaInv, Media!QueueInv, Media!Track, Media!IsInjective

\* What is loaded is the current track once it is ensured.
LEMMA CurrentIsLoaded ==
  ASSUME Media!QueueInv', NEW x, Media!ensureLoaded(x)
  PROVE  Media!MediaInv'
<1>1. Media!current(v1') = v1'.tracks[v1'.index]
  BY DEF Media!QueueInv, Media!current
<1>2. v2' = Media!current(v1')
  BY DEF Media!ensureLoaded, Media!load
<1> QED
  BY <1>1, <1>2 DEF Media!MediaInv

\* Another index, or other settings.
LEMMA QueueSelected ==
  ASSUME Media!QueueInv, v3' = v3, v1'.tracks = v1.tracks,
         {"tracks", "index"} \subseteq DOMAIN v1', v1'.index \in DOMAIN v1.tracks
  PROVE  Media!QueueInv'
  BY DEF Media!QueueInv, Media!IsInjective

LEMMA QueueAdded ==
  ASSUME Media!MediaInv, NEW ts \in Seq(Other \cup Pair), Media!AddFiles(ts)
  PROVE  Media!MediaInv'
<1> DEFINE s == v1.tracks
<1>1. /\ ts # <<>> /\ Media!IsInjective(s \o ts) /\ v1' = Media!addMany(v1, ts)
      /\ v3' = v3 \cup Media!ToSet(ts)
  BY DEF Media!AddFiles, Media!Accepts
<1>2. /\ s \in Seq(Media!Track) /\ {"tracks", "index"} \subseteq DOMAIN v1 /\ v1.index \in DOMAIN s
      /\ \E i \in DOMAIN s : s[i] = "chime"
      /\ \A i \in DOMAIN s : s[i] \in Other \cup Pair => s[i] \in v3
      /\ v2 = s[v1.index]
  BY DEF Media!MediaInv, Media!QueueInv
<1>3. v1'.tracks = s \o ts /\ v1'.index = v1.index /\ {"tracks", "index"} \subseteq DOMAIN v1'
  <2>1. v1.index # 0
    BY <1>2
  <2> QED
    BY <1>1, <1>2, <2>1 DEF Media!addMany
<1>4. ts \in Seq(Media!Track)
  BY DEF Media!Track
<1>5. /\ s \o ts \in Seq(Media!Track)
      /\ \A i \in DOMAIN s : i \in DOMAIN (s \o ts) /\ (s \o ts)[i] = s[i]
      /\ \A i \in DOMAIN (s \o ts) : i \in DOMAIN s \/ \E j \in DOMAIN ts : (s \o ts)[i] = ts[j]
  <2>1. \A i \in DOMAIN (s \o ts) : i \notin DOMAIN s =>
          i - Len(s) \in DOMAIN ts /\ (s \o ts)[i] = ts[i - Len(s)]
    BY <1>2
  <2> QED
    BY <1>2, <1>4, <2>1
<1> HIDE DEF s
<1>6. \A i \in DOMAIN (s \o ts) : (s \o ts)[i] \in Other \cup Pair => (s \o ts)[i] \in v3'
  BY <1>1, <1>2, <1>5 DEF Media!ToSet
<1>7. Media!QueueInv'
  BY <1>1, <1>2, <1>3, <1>5, <1>6 DEF Media!QueueInv
<1>8. v1'.tracks[v1'.index] = v2
  BY <1>2, <1>3, <1>5
<1> QED
  BY <1>7, <1>8, CurrentIsLoaded DEF Media!AddFiles, Media!MediaInv

LEMMA QueueShortened ==
  ASSUME Media!MediaInv, NEW i \in DOMAIN v1.tracks, Media!RemoveLocal(i)
  PROVE  Media!MediaInv'
<1> DEFINE s == v1.tracks
           n == Len(s)
           t == Media!RemoveAt(s, i)
           at == Media!IndexAfter(v1, i)
<1>1. /\ s \in Seq(Media!Track) /\ {"tracks", "index"} \subseteq DOMAIN v1 /\ v1.index \in 1 .. n
      /\ i \in 1 .. n /\ n \in Nat
      /\ \E k \in 1 .. n : s[k] = "chime"
      /\ \A k \in 1 .. n : s[k] \in Other \cup Pair => s[k] \in v3
      /\ \A j, k \in 1 .. n : s[j] = s[k] => j = k
      /\ v2 = s[v1.index]
  BY DEF Media!MediaInv, Media!QueueInv, Media!IsInjective
<1>2. /\ s[i] \in Other \cup Pair /\ v1' = Media!remove(v1, i) /\ v3' = v3 \ {s[i]}
      /\ IF Media!current(v1) = s[i] THEN Media!ensureLoaded(v4) ELSE UNCHANGED <<v2, v4>>
  BY DEF Media!RemoveLocal
<1>3. /\ v1'.tracks = t /\ v1'.index = at /\ {"tracks", "index"} \subseteq DOMAIN v1'
  BY <1>1, <1>2 DEF Media!remove
<1>4. /\ t \in Seq(Media!Track) /\ Len(t) = n - 1
      /\ \A j \in 1 .. n - 1 : t[j] = IF j < i THEN s[j] ELSE s[j + 1]
  BY ZenonT(30), <1>1, TrackRemoved
<1>5. "chime" \notin Other \cup Pair
  BY ShellAssumption DEF Media!MediaAssumption
<1>6. n > 1
  BY <1>1, <1>2, <1>5
<1>7. at = IF i < v1.index THEN v1.index - 1
           ELSE IF i = v1.index /\ i = n THEN n - 1 ELSE v1.index
  BY <1>1, <1>6 DEF Media!IndexAfter, Media!IndexWithout
<1> HIDE DEF s, n, t, at
<1>8. at \in 1 .. n - 1 /\ DOMAIN t = 1 .. n - 1
  BY <1>1, <1>4, <1>6, <1>7
<1>9. \A j \in 1 .. n - 1 : \E k \in 1 .. n : k # i /\ t[j] = s[k]
  <2> TAKE j \in 1 .. n - 1
  <2>1. CASE j < i
    BY <1>1, <1>4, <2>1
  <2>2. CASE j >= i
    BY <1>1, <1>4, <2>2
  <2> QED
    BY <1>1, <2>1, <2>2
<1>10. \A j, k \in 1 .. n - 1 : t[j] = t[k] => j = k
  BY <1>1, <1>4
<1>11. \E j \in 1 .. n - 1 : t[j] = "chime"
  <2>1. PICK k \in 1 .. n : s[k] = "chime"
    BY <1>1
  <2>2. k # i
    BY <1>2, <1>5, <2>1
  <2>3. CASE k < i
    BY <1>1, <1>4, <2>1, <2>3
  <2>4. CASE k > i
    <3>1. k - 1 \in 1 .. n - 1 /\ t[k - 1] = s[(k - 1) + 1]
      BY <1>1, <1>4, <2>4
    <3> QED
      BY <1>1, <2>1, <3>1
  <2> QED
    BY <1>1, <2>2, <2>3, <2>4
<1>12. \A j \in 1 .. n - 1 : t[j] \in Other \cup Pair => t[j] \in v3'
  BY <1>1, <1>2, <1>9
<1>13. Media!QueueInv'
  BY <1>3, <1>4, <1>8, <1>10, <1>11, <1>12 DEF Media!QueueInv, Media!IsInjective
<1>14. CASE Media!current(v1) = s[i]
  BY <1>2, <1>13, <1>14, CurrentIsLoaded
<1>15. CASE Media!current(v1) # s[i]
  <2>1. v1.index # i
    BY <1>1, <1>15 DEF Media!current, s, n
  <2>2. t[at] = s[v1.index]
    BY <1>1, <1>4, <1>7, <1>8, <2>1
  <2> QED
    BY <1>1, <1>2, <1>3, <1>13, <1>15, <2>2 DEF Media!MediaInv
<1> QED
  BY <1>14, <1>15

\* A track that is moved stays in the queue, and the index goes with the current one.
LEMMA QueueMoved ==
  ASSUME Media!MediaInv, NEW from \in DOMAIN v1.tracks, NEW to \in DOMAIN v1.tracks,
         Media!Move(from, to)
  PROVE  Media!MediaInv'
<1> DEFINE s == v1.tracks
           n == Len(s)
           t == Media!RemoveAt(s, from)
           m == Media!InsertAt(t, to, s[from])
           at == v1'.index
           was(j) == IF j = to THEN from
                     ELSE IF j < to THEN (IF j < from THEN j ELSE j + 1)
                     ELSE IF j - 1 < from THEN j - 1 ELSE j
           goes(k) == IF k = from THEN to
                      ELSE IF k < from THEN (IF k < to THEN k ELSE k + 1)
                      ELSE IF k - 1 < to THEN k - 1 ELSE k
<1>1. /\ s \in Seq(Media!Track) /\ {"tracks", "index"} \subseteq DOMAIN v1 /\ v1.index \in 1 .. n
      /\ from \in 1 .. n /\ to \in 1 .. n /\ n \in Nat /\ DOMAIN s = 1 .. n
      /\ \E k \in 1 .. n : s[k] = "chime"
      /\ \A k \in 1 .. n : s[k] \in Other \cup Pair => s[k] \in v3
      /\ \A j, k \in 1 .. n : s[j] = s[k] => j = k
      /\ v2 = s[v1.index]
  BY DEF Media!MediaInv, Media!QueueInv, Media!IsInjective
<1>2. v1' = Media!move(v1, from, to) /\ UNCHANGED <<v2, v3, v4>>
  BY DEF Media!Move
<1>3. /\ v1'.tracks = m /\ {"tracks", "index"} \subseteq DOMAIN v1'
      /\ at = IF Media!current(v1) = NoOne THEN 0
              ELSE Media!Place([tracks |-> m], Media!current(v1))
  BY <1>1, <1>2 DEF Media!move
<1>4. /\ t \in Seq(Media!Track) /\ Len(t) = n - 1
      /\ \A j \in 1 .. n - 1 : t[j] = IF j < from THEN s[j] ELSE s[j + 1]
  BY ZenonT(60), <1>1, TrackRemoved
<1>5. /\ m \in Seq(Media!Track) /\ Len(m) = n
      /\ \A j \in 1 .. n : m[j] = IF j < to THEN t[j] ELSE IF j = to THEN s[from] ELSE t[j - 1]
  <2>1. s[from] \in Media!Track /\ to \in 1 .. Len(t) + 1
    BY <1>1, <1>4
  <2>2. /\ m \in Seq(Media!Track) /\ Len(m) = Len(t) + 1
        /\ \A j \in 1 .. Len(t) + 1 :
             m[j] = IF j < to THEN t[j] ELSE IF j = to THEN s[from] ELSE t[j - 1]
    BY <1>4, <2>1, TrackInserted
  <2> QED
    BY <1>1, <1>4, <2>2
<1>6. Media!current(v1) = s[v1.index]
  BY <1>1 DEF Media!current
<1> HIDE DEF s, n, t, m, at
<1>7. ASSUME NEW j \in 1 .. n
      PROVE  was(j) \in 1 .. n /\ goes(was(j)) = j
  BY <1>1
<1>8. ASSUME NEW k \in 1 .. n
      PROVE  goes(k) \in 1 .. n /\ was(goes(k)) = k
  BY <1>1
<1>9. ASSUME NEW j \in 1 .. n
      PROVE  m[j] = s[was(j)]
  <2>1. CASE j < to
    <3>1. j \in 1 .. n - 1 /\ m[j] = t[j]
      BY <1>1, <1>5, <2>1
    <3> QED
      BY <1>1, <1>4, <2>1, <3>1
  <2>2. CASE j = to
    BY <1>1, <1>5, <2>2
  <2>3. CASE j > to
    <3>1. j - 1 \in 1 .. n - 1 /\ m[j] = t[j - 1]
      BY <1>1, <1>5, <2>3
    <3>2. t[j - 1] = IF j - 1 < from THEN s[j - 1] ELSE s[(j - 1) + 1]
      BY <1>4, <3>1
    <3>3. (j - 1) + 1 = j /\ ~ (j < to) /\ j # to
      BY <1>1, <2>3
    <3> QED
      BY <3>1, <3>2, <3>3
  <2> QED
    BY <1>1, <2>1, <2>2, <2>3
<1> HIDE DEF was, goes
<1>10. \A j, k \in 1 .. n : m[j] = m[k] => j = k
  <2> TAKE j, k \in 1 .. n
  <2> HAVE m[j] = m[k]
  <2>1. was(j) = was(k)
    BY <1>1, <1>7, <1>9
  <2> QED
    BY <1>7, <2>1
<1>11. \A k \in 1 .. n : \E j \in 1 .. n : m[j] = s[k]
  BY <1>8, <1>9
<1>12. \A j \in 1 .. n : \E k \in 1 .. n : m[j] = s[k]
  BY <1>7, <1>9
<1>13. DOMAIN m = 1 .. n
  BY <1>5
<1>14. s[v1.index] # NoOne
  <2>1. s[v1.index] \in Media!Track
    BY <1>1
  <2> QED
    BY <2>1, ShellAssumption DEF Media!MediaAssumption, Media!Track
<1>15. at \in 1 .. n /\ m[at] = s[v1.index]
  <2>1. at = CHOOSE j \in 1 .. n : m[j] = s[v1.index]
    BY <1>3, <1>6, <1>13, <1>14 DEF Media!Place
  <2> QED
    BY <1>1, <1>11, <2>1
<1>16. Media!QueueInv'
  <2>1. \A j \in 1 .. n : m[j] \in Other \cup Pair => m[j] \in v3'
    BY <1>1, <1>2, <1>12
  <2>2. \E j \in 1 .. n : m[j] = "chime"
    BY <1>1, <1>11
  <2>3. v1'.index \in 1 .. n
    BY <1>15 DEF at
  <2> QED
    BY <1>3, <1>5, <1>10, <1>13, <2>1, <2>2, <2>3 DEF Media!QueueInv, Media!IsInjective
<1> QED
  BY <1>1, <1>2, <1>3, <1>15, <1>16 DEF Media!MediaInv, at

LEMMA QueueAdvanced ==
  ASSUME Media!MediaInv, NEW i \in DOMAIN v1.tracks, v1' = Media!select(v1, i), v3' = v3,
         v2' = v1.tracks[i]
  PROVE  Media!MediaInv'
<1>1. v1'.tracks = v1.tracks /\ v1'.index = i /\ {"tracks", "index"} \subseteq DOMAIN v1'
  BY DEF Media!MediaInv, Media!QueueInv, Media!select
<1> QED
  BY <1>1, QueueSelected DEF Media!MediaInv

LEMMA MediaKeep ==
  ASSUME Media!MediaInv, Media!MediaNext
  PROVE  Media!MediaInv'
<1> DEFINE n == Len(v1.tracks)
<1>1. /\ v1.tracks \in Seq(Media!Track) /\ {"tracks", "index"} \subseteq DOMAIN v1
      /\ v1.index \in 1 .. n /\ n \in Nat /\ n > 0 /\ DOMAIN v1.tracks = 1 .. n
      /\ n = 1 \/ n > 1
      /\ (IF v1.index > 1 THEN v1.index - 1 ELSE n) \in 1 .. n
  <2>1. /\ v1.tracks \in Seq(Media!Track) /\ {"tracks", "index"} \subseteq DOMAIN v1
        /\ v1.index \in 1 .. n /\ n \in Nat /\ DOMAIN v1.tracks = 1 .. n
    BY DEF Media!MediaInv, Media!QueueInv
  <2> HIDE DEF n
  <2> QED
    BY <2>1
<1>2. CASE \E t, u \in Other \cup Pair : Media!AddFiles(<<t>>) \/ Media!AddFiles(<<t, u>>)
  <2>1. \A t, u \in Other \cup Pair : <<t>> \in Seq(Other \cup Pair) /\ <<t, u>> \in Seq(Other \cup Pair)
    OBVIOUS
  <2> QED
    BY <1>2, <2>1, QueueAdded
<1>3. CASE \E i \in DOMAIN v1.tracks : Media!Select(i)
  <2>1. PICK i \in DOMAIN v1.tracks : Media!Select(i)
    BY <1>3
  <2>2. v1' = Media!select(v1, i) /\ v3' = v3 /\ Media!ensureLoaded(TRUE)
    BY <2>1 DEF Media!Select
  <2>3. v1'.tracks = v1.tracks /\ v1'.index = i /\ {"tracks", "index"} \subseteq DOMAIN v1'
    BY <1>1, <2>2 DEF Media!select
  <2>4. Media!QueueInv'
    BY <2>2, <2>3, QueueSelected DEF Media!MediaInv
  <2> QED
    BY <2>2, <2>4, CurrentIsLoaded
<1>4. CASE \E i \in DOMAIN v1.tracks : Media!RemoveLocal(i)
  BY <1>4, QueueShortened
<1>5. CASE \E i, j \in DOMAIN v1.tracks : Media!Move(i, j)
  BY <1>5, QueueMoved
<1>6. CASE Media!PlayPause
  <2>1. v1' = v1 /\ v3' = v3 /\ (v2' = v2 \/ Media!ensureLoaded(TRUE))
    BY <1>6 DEF Media!PlayPause
  <2>2. Media!QueueInv'
    BY <1>1, <2>1, QueueSelected DEF Media!MediaInv
  <2> QED
    BY <2>1, <2>2, CurrentIsLoaded DEF Media!MediaInv
<1>7. ASSUME NEW automatic \in BOOLEAN, NEW i \in Media!Following(v1, automatic)
      PROVE  i \in 1 .. n
  <2> DEFINE again == automatic /\ v1.repeat = "one"
  <2>1. CASE again
    <3>1. Media!Following(v1, automatic) = {v1.index}
      BY <1>1, <2>1 DEF Media!Following
    <3> QED
      BY <1>1, <1>7, <3>1
  <2>2. CASE ~ again /\ n = 1
    <3>1. Media!Following(v1, automatic) = IF automatic /\ v1.repeat = "off" THEN {} ELSE {v1.index}
      BY <1>1, <2>2 DEF Media!Following
    <3> QED
      BY <1>1, <1>7, <3>1
  <2>3. CASE ~ again /\ n > 1 /\ v1.shuffle
    <3>1. Media!Following(v1, automatic) = DOMAIN v1.tracks \ {v1.index}
      BY <1>1, <2>3 DEF Media!Following
    <3> QED
      BY <1>1, <1>7, <3>1
  <2>4. CASE ~ again /\ n > 1 /\ ~ v1.shuffle
    <3>1. Media!Following(v1, automatic) =
            IF v1.index < n THEN {v1.index + 1}
            ELSE IF v1.repeat = "all" \/ ~ automatic THEN {1} ELSE {}
      BY <1>1, <2>4 DEF Media!Following
    <3> QED
      BY <1>1, <1>7, <3>1
  <2> HIDE DEF n, again
  <2> QED
    BY <1>1, <2>1, <2>2, <2>3, <2>4, Zenon
<1>8. CASE Media!Skip \/ Media!Ended
  <2>1. PICK automatic \in BOOLEAN : Media!Advance(automatic)
    BY <1>8 DEF Media!Skip, Media!Ended
  <2>2. CASE UNCHANGED <<v1, v2>>
    <3>1. v3' = v3
      BY <2>1 DEF Media!Advance
    <3> QED
      BY <2>2, <3>1, QueueSelected DEF Media!MediaInv, Media!QueueInv, Media!IsInjective
  <2>3. CASE \E i \in Media!Following(v1, automatic) :
               v1' = Media!select(v1, i) /\ Media!load(v1.tracks[i], TRUE)
    <3>1. v3' = v3
      BY <2>1 DEF Media!Advance
    <3> QED
      BY <1>1, <1>7, <2>1, <2>3, <3>1, QueueAdvanced DEF Media!load
  <2> QED
    BY <2>1, <2>2, <2>3 DEF Media!Advance
<1>9. CASE Media!Previous
  <2>1. PICK i \in Media!Preceding(v1) :
          v1' = Media!select(v1, i) /\ Media!load(v1.tracks[i], TRUE) /\ v3' = v3
    BY <1>9 DEF Media!Previous
  <2>2. i \in Media!Following(v1, FALSE) \/ i = (IF v1.index > 1 THEN v1.index - 1 ELSE n)
    <3> HIDE <1>7
    <3> QED
      BY <1>1 DEF Media!Preceding
  <2>3. i \in Media!Following(v1, FALSE) => i \in 1 .. n
    BY <1>7
  <2> QED
    <3>1. i \in 1 .. n
      BY <1>1, <2>2, <2>3, Zenon
    <3> QED
      BY <1>1, <2>1, <3>1, QueueAdvanced DEF Media!load
<1>10. CASE Media!ToggleShuffle \/ Media!CycleRepeat
  <2>1. /\ v1'.tracks = v1.tracks /\ v1'.index = v1.index /\ {"tracks", "index"} \subseteq DOMAIN v1'
        /\ UNCHANGED <<v2, v3>>
    BY <1>1, <1>10 DEF Media!ToggleShuffle, Media!CycleRepeat, Media!cycleRepeat
  <2>2. Media!QueueInv'
    BY <1>1, <2>1, QueueSelected DEF Media!MediaInv
  <2> QED
    BY <2>1, <2>2 DEF Media!MediaInv
<1>11. CASE Media!ClearLocals
  <2>1. /\ v1'.tracks = <<"chime">> /\ v1'.index = 1 /\ {"tracks", "index"} \subseteq DOMAIN v1'
        /\ Media!ensureLoaded(FALSE)
    BY <1>1, <1>11 DEF Media!ClearLocals, Media!Cleared
  <2>2. "chime" \notin Other \cup Pair
    BY ShellAssumption DEF Media!MediaAssumption
  <2>3. Media!QueueInv'
    BY <2>1, <2>2 DEF Media!QueueInv, Media!IsInjective, Media!Track
  <2> QED
    BY <2>1, <2>3, CurrentIsLoaded
<1> QED
  BY <1>2, <1>3, <1>4, <1>5, <1>6, <1>8, <1>9, <1>10, <1>11 DEF Media!MediaNext

LEMMA MediaStutter ==
  ASSUME Media!MediaInv, UNCHANGED <<v1, v2, v3>>
  PROVE  Media!MediaInv'
  BY DEF Media!MediaInv, Media!QueueInv, Media!IsInjective

LEMMA CurrentPlays == Media!MediaInv => Media!PlaysTheCurrent
  BY DEF Media!MediaInv, Media!QueueInv, Media!PlaysTheCurrent, Media!current

-------------------------------------------------------------------------------
\* However renders and sendings overlap, for any packages, tracks and number of either: the
\* track that plays is the current one, the installed widgets are shown, and the broker has
\* the contexts, once nothing is under way; of what is removed at most the system card is left.
THEOREM SurfacesDoFollow ==
  Spec => []SurfacesFollow
<1> DEFINE Inv == /\ focus = "media" => Media!MediaInv
                  /\ focus = "widgets" => Widgets!WidgetInv /\ Widgets!OnlySystemLingers
                  /\ focus = "contexts" => Contexts!ContextsInv
<1>1. Init => Inv
  BY MediaInitial, WidgetsInitial, OthersGo, ContextsInitial DEF Init
<1>2. Inv /\ [Next]_slots => Inv'
  <2> SUFFICES ASSUME Inv, [Next]_slots
               PROVE  Inv'
    OBVIOUS
  <2>1. CASE focus = "media" /\ Media!MediaNext /\ focus' = focus
    BY <2>1, MediaKeep
  <2>2. CASE focus = "widgets" /\ Widgets!WidgetNext /\ focus' = focus
    BY <2>2, WidgetsKeep, OthersGo
  <2>3. CASE focus = "contexts" /\ Contexts!ContextsNext /\ focus' = focus
    BY <2>3, ContextsKeep
  <2>4. CASE focus \notin {"media", "widgets", "contexts"} /\ focus' = focus
    BY <2>4
  <2>5. CASE UNCHANGED slots
    <3>1. UNCHANGED <<focus, v1, v2, v3, v4, v5, v7>>
      BY <2>5 DEF slots
    <3>2. Widgets!OnlySystemLingers => Widgets!OnlySystemLingers'
      BY <3>1 DEF Widgets!OnlySystemLingers
    <3> QED
      BY <3>1, <3>2, MediaStutter, WidgetsStutter, ContextsStutter
  <2> QED
    BY <2>1, <2>2, <2>3, <2>4, <2>5 DEF Next
<1>3. Inv => SurfacesFollow
  BY CurrentPlays, WidgetsAreShown DEF SurfacesFollow, Contexts!ContextsInv, Contexts!ContextsFollow
<1> QED
  BY <1>1, <1>2, <1>3, PTL DEF Spec

-------------------------------------------------------------------------------
(* What is shown: language, appearance, terminal.                            *)

LEMMA AppearanceInitial == Appearance!AppearanceInit => Appearance!AppearanceInv
<1> SUFFICES ASSUME Appearance!AppearanceInit
             PROVE  Appearance!AppearanceInv
  OBVIOUS
<1>1. v2 = {} /\ v3 = {} /\ DOMAIN v5 = {}
  BY DEF Appearance!AppearanceInit
<1> QED
  BY <1>1, ShellAssumption
  DEF Appearance!AppearanceInit, Appearance!AppearanceInv, Appearance!AppearanceAgrees,
      Appearance!AppearanceAssumption

\* An appearance that is applied and stored leaves no token but those of its pack.
LEMMA AppearanceApplied ==
  ASSUME Appearance!AppearanceInv, NEW packs, DOMAIN packs \subseteq Pair, v5' = packs,
         NEW p, NEW a, Appearance!apply(p, a, packs, TRUE)
  PROVE  Appearance!AppearanceInv'
<1> DEFINE q == Appearance!normalizeProfile(p, packs)
           look == [profile |-> q, accent |-> Appearance!normalizeAccent(a)]
<1>1. /\ v1' = look /\ v4' = look
      /\ v2' = (v2 \ v3) \cup Appearance!TokensOf(q, packs)
      /\ v3' = Appearance!TokensOf(q, packs)
  BY DEF Appearance!apply
<1>2. q \in {"neon", "glass"} \cup Pair
  BY DEF Appearance!normalizeProfile
<1>3. Appearance!normalizeAccent(a) \in {"blue", "green"}
  BY DEF Appearance!normalizeAccent
<1>4. q \notin DOMAIN packs => Appearance!TokensOf(q, packs) = {}
  BY DEF Appearance!TokensOf
<1>5. v2 = v3
  BY DEF Appearance!AppearanceInv
<1> HIDE DEF q
<1> QED
  BY <1>1, <1>2, <1>3, <1>4, <1>5
  DEF Appearance!AppearanceInv, Appearance!AppearanceAgrees

LEMMA AppearanceKeeps ==
  ASSUME Appearance!AppearanceInv, Appearance!AppearanceNext
  PROVE  Appearance!AppearanceInv'
<1>0. DOMAIN v5 \subseteq Pair
  BY DEF Appearance!AppearanceInv
<1>1. ASSUME NEW p \in {"neon", "glass"} \cup Pair, Appearance!SetProfile(p)
      PROVE  Appearance!AppearanceInv'
  BY <1>0, <1>1, AppearanceApplied DEF Appearance!SetProfile
<1>2. ASSUME NEW a \in {"blue", "green"}, Appearance!SetAccent(a)
      PROVE  Appearance!AppearanceInv'
  BY <1>0, <1>2, AppearanceApplied DEF Appearance!SetAccent
<1>3. ASSUME NEW a \in {"blue", "green"}, Appearance!SetTheme(a)
      PROVE  Appearance!AppearanceInv'
  <2>1. Appearance!normalizeAccent(a) \in {"blue", "green"}
    BY DEF Appearance!normalizeAccent
  <2> QED
    BY <1>3, <2>1
    DEF Appearance!SetTheme, Appearance!AppearanceInv, Appearance!AppearanceAgrees
<1>4. CASE Appearance!Reset
  BY <1>0, <1>4, AppearanceApplied DEF Appearance!Reset, Appearance!reset
<1>5. CASE Appearance!Reload
  <2>1. /\ DOMAIN v5' = {} /\ v2' = {} /\ v3' = {} /\ v4' = v4
        /\ v1' = [profile |-> Appearance!normalizeProfile(v4.profile, [p \in {} |-> {}]),
                  accent |-> v4.accent]
    BY <1>5 DEF Appearance!Reload
  <2>2. Appearance!normalizeProfile(v4.profile, [p \in {} |-> {}])
          \in {v4.profile, "neon"} \cap ({"neon", "glass"} \cup Pair)
    BY DEF Appearance!normalizeProfile
  <2> QED
    BY <2>1, <2>2 DEF Appearance!AppearanceInv, Appearance!AppearanceAgrees
<1>6. ASSUME NEW id, NEW tokens, Appearance!RegisterPack(id, tokens)
      PROVE  Appearance!AppearanceInv'
  <2>1. DOMAIN v5' = DOMAIN v5 \cup {id} /\ id \in Pair /\ UNCHANGED <<v1, v2, v3, v4>>
    BY <1>6 DEF Appearance!RegisterPack, Appearance!sanitizePack
  <2> QED
    BY <2>1 DEF Appearance!AppearanceInv, Appearance!AppearanceAgrees
<1>7. ASSUME NEW id \in Pair, Appearance!UnregisterPack(id)
      PROVE  Appearance!AppearanceInv'
  <2>1. DOMAIN Appearance!Without(id) = DOMAIN v5 \ {id}
    BY DEF Appearance!Without
  <2>2. CASE Appearance!WasActive(id)
    BY <1>0, <1>7, <2>1, <2>2, AppearanceApplied
    DEF Appearance!UnregisterPack, Appearance!reset
  <2>3. CASE ~ Appearance!WasActive(id)
    <3>1. v1.profile # id
      BY <1>7, <2>3
      DEF Appearance!UnregisterPack, Appearance!WasActive, Appearance!Active,
          Appearance!normalizeProfile
    <3> QED
      BY <1>7, <2>1, <2>3, <3>1
      DEF Appearance!UnregisterPack, Appearance!AppearanceInv, Appearance!AppearanceAgrees
  <2> QED
    BY <2>2, <2>3
<1> QED
  BY <1>1, <1>2, <1>3, <1>4, <1>5, <1>6, <1>7 DEF Appearance!AppearanceNext

LEMMA AppearanceStutter ==
  ASSUME Appearance!AppearanceInv, UNCHANGED <<v1, v2, v3, v4, v5>>
  PROVE  Appearance!AppearanceInv'
  BY DEF Appearance!AppearanceInv, Appearance!AppearanceAgrees

-------------------------------------------------------------------------------
LEMMA LocaleInitial == Locale!LocaleInit => Locale!LocaleInv
<1> SUFFICES ASSUME Locale!LocaleInit
             PROVE  Locale!LocaleInv
  OBVIOUS
<1>1. DOMAIN BaseTranslations = Locales
  BY DEF BaseTranslations, Complete
<1>2. v1 \in Locales /\ DOMAIN v2 = Locales /\ v3 = 1
  BY <1>1 DEF Locale!LocaleInit
<1>3. DOMAIN v4 = {"shown", "text"} /\ ~ v4.shown
  BY DEF Locale!LocaleInit, Locale!Hidden
<1>4. DOMAIN v5 = One /\ \A f \in One : DOMAIN v5[f] = {"at", "text"} /\ v5[f].at = "none"
  BY DEF Locale!LocaleInit, Locale!NoDoc
<1>5. Locale!ShowsTheLocale
  BY <1>3, <1>4 DEF Locale!ShowsTheLocale
<1> QED
  BY <1>2, <1>3, <1>4, <1>5 DEF Locale!LocaleInv

\* What a pack has only for locales out of the chain translates nothing.
LEMMA TranslationStays ==
  ASSUME NEW l, NEW packs, NEW after, NEW k,
         \A x \in Locales : Locale!InChain(x, l) => after[x] = packs[x]
  PROVE  Locale!translate(l, after, k) = Locale!translate(l, packs, k)
<1>1. \A i \in 1 .. 5 : Locale!localeChain(l)[i] \in Locales =>
        after[Locale!localeChain(l)[i]] = packs[Locale!localeChain(l)[i]]
  BY DEF Locale!InChain
<1>2. Locale!Places(l, after, k) = Locale!Places(l, packs, k)
  BY <1>1 DEF Locale!Places
<1> QED
  BY <1>2 DEF Locale!translate

LEMMA LocaleKeeps ==
  ASSUME Locale!LocaleInv, Locale!LocaleNext
  PROVE  Locale!LocaleInv'
<1>1. ASSUME NEW l \in Locales, Locale!SetLocale(l)
      PROVE  Locale!LocaleInv'
  <2>1. /\ v1' = l /\ UNCHANGED <<v2, v3>>
        /\ v4' = Locale!Reapply(l, v2)
        /\ v5' = [f \in One |-> IF v5[f].at = "helped"
                                THEN [v5[f] EXCEPT !.text = Locale!apply(@, l, v2)]
                                ELSE v5[f]]
    BY <1>1 DEF Locale!SetLocale
  <2>2. DOMAIN v4' = {"shown", "text"} /\ (v4'.shown => v4'.text = Locale!applyDocument(l, v2))
    BY <2>1 DEF Locale!Reapply, Locale!LocaleInv
  <2>3. \A f \in One : /\ DOMAIN v5'[f] = {"at", "text"} /\ v5'[f].at = v5[f].at
                       /\ v5[f].at = "helped" =>
                            v5'[f].text = Locale!apply(v5[f].text, l, v2)
    BY <2>1 DEF Locale!LocaleInv
  <2>4. \A f \in One, k \in {"shell", "files"} :
          v5'[f].at = "helped" /\ Locale!translate(l, v2, k) # "none"
            => v5'[f].text[k] = Locale!translate(l, v2, k)
    BY <2>3 DEF Locale!apply
  <2>5. Locale!ShowsTheLocale'
    BY <2>1, <2>2, <2>4 DEF Locale!ShowsTheLocale
  <2>6. Locale!HostRuns' = Locale!HostRuns
    BY <2>1 DEF Locale!HostRuns
  <2> QED
    BY <2>1, <2>2, <2>3, <2>5, <2>6 DEF Locale!LocaleInv
<1>2. CASE Locale!RunScript
  <2>1. /\ v3' = v3 + 1 /\ v1' = v1 /\ v5' = v5 /\ ~ Locale!HostRuns
        /\ Locale!registerMessages(PackTranslations[v3]) \/ UNCHANGED <<v2, v4>>
    BY <1>2 DEF Locale!RunScript, Locale!HostRuns, Locale!LocaleInv
  <2>2. \A f \in One : v5[f].at \notin {"injected", "helped"}
    BY <2>1 DEF Locale!LocaleInv
  <2>3. DOMAIN v2' = Locales /\ DOMAIN v4' = {"shown", "text"}
    BY <2>1 DEF Locale!LocaleInv, Locale!registerMessages, Locale!Reapply
  <2>4. v4'.shown => v4'.text = Locale!applyDocument(v1, v2')
    <3>1. CASE UNCHANGED <<v2, v4>>
      BY <3>1 DEF Locale!LocaleInv, Locale!ShowsTheLocale
    <3>2. CASE Locale!registerMessages(PackTranslations[v3])
      <4> DEFINE packs == PackTranslations[v3]
                 Heard == \E l \in Locales : packs[l] # {} /\ Locale!Retranslates(l)
      <4> HIDE DEF packs
      <4>1. /\ v2' = [l \in Locales |-> v2[l] \cup packs[l]]
            /\ v4' = IF Heard THEN Locale!Reapply(v1, v2') ELSE v4
        BY <3>2 DEF Locale!registerMessages, packs
      <4>2. CASE Heard
        BY <4>1, <4>2 DEF Locale!Reapply, Locale!LocaleInv
      <4>3. CASE ~ Heard
        <5>1. \A x \in Locales : Locale!InChain(x, v1) => v2'[x] = v2[x]
          BY <4>1, <4>3 DEF Locale!Retranslates, Locale!Concerns
        <5>2. \A k : Locale!translate(v1, v2', k) = Locale!translate(v1, v2, k)
          BY <5>1, TranslationStays
        <5>3. Locale!applyDocument(v1, v2') = Locale!applyDocument(v1, v2)
          BY <5>2 DEF Locale!applyDocument
        <5> QED
          BY <4>1, <4>3, <5>3 DEF Locale!LocaleInv, Locale!ShowsTheLocale
      <4> QED
        BY <4>2, <4>3
    <3> QED
      BY <2>1, <3>1, <3>2
  <2>5. Locale!ShowsTheLocale'
    BY <2>1, <2>2, <2>4 DEF Locale!ShowsTheLocale
  <2> QED
    BY <2>1, <2>2, <2>3, <2>5 DEF Locale!LocaleInv
<1>3. CASE Locale!Show
  BY <1>3
  DEF Locale!Show, Locale!LocaleInv, Locale!ShowsTheLocale, Locale!Hidden, Locale!HostRuns
<1>4. ASSUME NEW f \in One, NEW doc, DOMAIN doc = {"at", "text"}, Locale!Becomes(f, doc),
             doc.at \in {"injected", "helped"} => Locale!HostRuns,
             doc.at = "helped" =>
               \A k \in {"shell", "files"} : Locale!translate(v1, v2, k) # "none"
                  => doc.text[k] = Locale!translate(v1, v2, k)
      PROVE  Locale!LocaleInv'
  <2>1. v5' = [v5 EXCEPT ![f] = doc] /\ UNCHANGED <<v1, v2, v3, v4>>
    BY <1>4 DEF Locale!Becomes
  <2>2. \A g \in One : v5'[g] = IF g = f THEN doc ELSE v5[g]
    BY <2>1 DEF Locale!LocaleInv
  <2>3. Locale!ShowsTheLocale'
    BY <1>4, <2>1, <2>2 DEF Locale!LocaleInv, Locale!ShowsTheLocale
  <2>4. Locale!HostRuns' = Locale!HostRuns
    BY <2>1 DEF Locale!HostRuns
  <2> QED
    BY <1>4, <2>1, <2>2, <2>3, <2>4 DEF Locale!LocaleInv
<1>5. ASSUME NEW f \in One, Locale!OpenFrame(f)
      PROVE  Locale!LocaleInv'
  BY <1>4, <1>5 DEF Locale!OpenFrame
<1>6. ASSUME NEW f \in One, Locale!CloseFrame(f)
      PROVE  Locale!LocaleInv'
  BY <1>4, <1>6 DEF Locale!CloseFrame, Locale!NoDoc
<1>7. ASSUME NEW f \in One, Locale!Inject(f)
      PROVE  Locale!LocaleInv'
  <2> DEFINE doc == [v5[f] EXCEPT !.at = "injected"]
  <2>1. DOMAIN doc = {"at", "text"} /\ doc.at = "injected"
    BY DEF Locale!LocaleInv
  <2> HIDE DEF doc
  <2>2. Locale!Becomes(f, doc) /\ Locale!HostRuns
    BY <1>7 DEF Locale!Inject, doc
  <2> QED
    BY <1>4, <2>1, <2>2
<1>8. ASSUME NEW f \in One, Locale!HelperStart(f)
      PROVE  Locale!LocaleInv'
  <2>1. Locale!HostRuns
    BY <1>8 DEF Locale!HelperStart, Locale!LocaleInv
  <2>2. Locale!Becomes(f, [at |-> "helped", text |-> Locale!apply(v5[f].text, v1, v2)])
    BY <1>8 DEF Locale!HelperStart
  <2>3. \A k \in {"shell", "files"} : Locale!translate(v1, v2, k) # "none"
          => Locale!apply(v5[f].text, v1, v2)[k] = Locale!translate(v1, v2, k)
    BY DEF Locale!apply
  <2> QED
    BY <1>4, <2>1, <2>2, <2>3
<1> QED
  BY <1>1, <1>2, <1>3, <1>5, <1>6, <1>7, <1>8 DEF Locale!LocaleNext

LEMMA LocaleStutter ==
  ASSUME Locale!LocaleInv, UNCHANGED <<v1, v2, v3, v4, v5>>
  PROVE  Locale!LocaleInv'
  BY DEF Locale!LocaleInv, Locale!ShowsTheLocale, Locale!HostRuns

-------------------------------------------------------------------------------
LEMMA TerminalInitial == Terminal!TerminalInit => Terminal!TerminalInv
<1> SUFFICES ASSUME Terminal!TerminalInit
             PROVE  Terminal!TerminalInv
  OBVIOUS
<1>1. v1 = <<>> /\ v3 = FALSE /\ v7 = {} /\ v8 = {}
  BY DEF Terminal!TerminalInit
<1>2. v9 = [enters |-> 0, opens |-> 0, faults |-> 0]
  BY DEF Terminal!TerminalInit
<1>3. DOMAIN v9 = {"enters", "opens", "faults"} /\ v9.enters = 0
  BY <1>2
<1> QED
  BY <1>1, <1>3 DEF Terminal!TerminalInv

\* One interpreter answers, and for a word of swir-v16 it is that one.
LEMMA OneInterpreter ==
  ASSUME Terminal!TerminalInv, v1 # <<>>, NEW c
  PROVE  \E s : Terminal!Reaches(c) = {s} /\ (c \in Terminal!V16Words => s = "v16")
<1>1. CASE c \in Terminal!V16Words
  <2>1. /\ v1 \in Seq(DOMAIN Terminal!Knows) /\ Len(v1) \in Nat /\ Len(v1) >= 2
        /\ v1[1] = "native" /\ v1[2] = "v16"
    BY DEF Terminal!TerminalInv
  <2>2. c \notin Terminal!NativeWords
    BY <1>1 DEF Terminal!V16Words, Terminal!NativeWords
  <2>3. /\ Terminal!Knows["native"] = Terminal!NativeWords
        /\ Terminal!Knows["v16"] = Terminal!V16Words
    BY DEF Terminal!Knows
  <2>4. Terminal!Knowers(c) \subseteq Nat \ {0, 1} /\ 2 \in Terminal!Knowers(c)
    BY <1>1, <2>1, <2>2, <2>3 DEF Terminal!Knowers
  <2>5. (CHOOSE i \in Terminal!Knowers(c) : \A j \in Terminal!Knowers(c) : i <= j) = 2
    <3> DEFINE K == Terminal!Knowers(c)
    <3> HIDE DEF K
    <3>1. K \subseteq Nat \ {0, 1} /\ 2 \in K
      BY <2>4 DEF K
    <3>2. \A j \in K : 2 <= j
      BY <3>1
    <3>3. \A i \in K : (\A j \in K : i <= j) => i = 2
      BY <3>1
    <3>4. (CHOOSE i \in K : \A j \in K : i <= j) = 2
      BY <3>1, <3>2, <3>3
    <3> QED
      BY <3>4 DEF K
  <2> QED
    BY <2>1, <2>4, <2>5 DEF Terminal!Reaches
<1>2. CASE c \notin Terminal!V16Words
  BY <1>2 DEF Terminal!Reaches
<1> QED
  BY <1>1, <1>2

\* No line is added.
LEMMA LinesKept ==
  ASSUME Terminal!TerminalInv, v1' = v1, v3' => v1 # <<>>, v7' \subseteq v7, v8' \subseteq v8,
         DOMAIN v9' = DOMAIN v9, v9'.enters = v9.enters
  PROVE  Terminal!TerminalInv'
<1>1. v7' \cup v8' \subseteq v7 \cup v8
  OBVIOUS
<1>2. /\ \A a \in v7' \cup v8' : a.n \in 1 .. v9'.enters
                               /\ (a.cmd \in Terminal!V16Words => a.by = "v16")
      /\ \A a, b \in v7' \cup v8' :
           a.n = b.n => a.cmd = b.cmd /\ (a.cmd # "help" => a.by = b.by)
  BY <1>1 DEF Terminal!TerminalInv
<1> QED
  BY <1>2 DEF Terminal!TerminalInv

LEMMA TerminalKeeps ==
  ASSUME Terminal!TerminalInv, Terminal!TerminalNext
  PROVE  Terminal!TerminalInv'
<1> USE DEF Terminal!TerminalInv
<1>1. CASE Terminal!DocumentRead
  <2>1. v1' = <<"native", "v16">> /\ UNCHANGED <<v3, v7, v8, v9>>
    BY <1>1 DEF Terminal!DocumentRead, Terminal!AtOnce
  <2>2. {"native", "v16"} \subseteq DOMAIN Terminal!Knows
    BY DEF Terminal!Knows
  <2>3. v1' \in Seq(DOMAIN Terminal!Knows) /\ Len(v1') = 2 /\ v1'[1] = "native" /\ v1'[2] = "v16"
    BY <2>1, <2>2
  <2> QED
    BY <2>1, <2>3
<1>2. ASSUME NEW s \in DOMAIN Terminal!Knows, Terminal!Register(s)
      PROVE  Terminal!TerminalInv'
  <2>1. v1' = Append(v1, s) /\ v1 # <<>> /\ UNCHANGED <<v3, v7, v8, v9>>
    BY <1>2 DEF Terminal!Register, Terminal!Starts
  <2>2. /\ v1' \in Seq(DOMAIN Terminal!Knows) /\ Len(v1') = Len(v1) + 1 /\ Len(v1) >= 2
        /\ v1'[1] = v1[1] /\ v1'[2] = v1[2]
    BY <2>1
  <2> QED
    BY <2>1, <2>2
<1>3. CASE Terminal!LoadCore
  BY <1>3 DEF Terminal!LoadCore
<1>4. CASE Terminal!CoreArrives
  <2>1. UNCHANGED <<v1, v3, v7, v8>> /\ (v9' = v9 \/ v9' = [v9 EXCEPT !.faults = @ + 1])
    BY <1>4 DEF Terminal!CoreArrives
  <2>2. v9'.enters = v9.enters /\ DOMAIN v9' = DOMAIN v9
    BY <2>1
  <2> QED
    BY <2>1, <2>2
<1>5. CASE Terminal!OpenTerminal
  <2>1. /\ v1' = v1 /\ v1 # <<>> /\ v7' = {} /\ v8' = v8
        /\ v9' = [v9 EXCEPT !.opens = @ + 1]
    BY <1>5 DEF Terminal!OpenTerminal
  <2>2. v9'.enters = v9.enters /\ DOMAIN v9' = DOMAIN v9
    BY <2>1
  <2> QED
    BY <2>1, <2>2, LinesKept
<1>6. CASE Terminal!CloseTerminal
  <2>1. UNCHANGED <<v1, v8, v9>> /\ v3' = FALSE /\ v7' = {}
    BY <1>6 DEF Terminal!CloseTerminal
  <2> QED
    BY <2>1, LinesKept
<1>7. ASSUME NEW c, Terminal!Type(c)
      PROVE  Terminal!TerminalInv'
  BY <1>7 DEF Terminal!Type
<1>8. CASE Terminal!ArrowUp
  BY <1>8 DEF Terminal!ArrowUp
<1>9. CASE Terminal!ArrowDown
  BY <1>9 DEF Terminal!ArrowDown
<1>10. CASE Terminal!Enter
  <2> DEFINE c == v4
             n == v9.enters + 1
             by == Terminal!Reaches(c)
             late == {s \in by : c \in Terminal!Awaits(s)} \cup Terminal!Hints(c)
  <2>1. /\ UNCHANGED <<v1, v3>> /\ v1 # <<>>
        /\ v7' = IF c = "clear" /\ "shell" \in by THEN {}
                 ELSE v7 \cup {Terminal!Line(n, c, s) : s \in by}
        /\ v8' = v8 \cup {Terminal!Line(n, c, s) : s \in late}
        /\ v9' = [v9 EXCEPT !.enters = @ + 1]
    BY <1>10 DEF Terminal!Enter
  <2>2. PICK i : by = {i} /\ (c \in Terminal!V16Words => i = "v16")
    BY <2>1, OneInterpreter
  <2>3. /\ \A s \in late : s = i \/ c = "help"
        /\ "help" \notin Terminal!V16Words
    BY <2>2 DEF Terminal!Hints, Terminal!V16Words
  <2>4. v9'.enters = n /\ DOMAIN v9' = DOMAIN v9 /\ v9.enters \in Nat
    BY <2>1
  <2> DEFINE New == {Terminal!Line(n, c, s) : s \in by \cup late}
  <2>5. \A a \in New : a.n = n /\ a.cmd = c /\ (a.by = i \/ c = "help")
    BY <2>2, <2>3 DEF Terminal!Line
  <2>6. v7' \cup v8' \subseteq v7 \cup v8 \cup New
    BY <2>1
  <2> HIDE DEF c, n, by, late, New
  <2>7. \A a \in v7 \cup v8 : a.n # n /\ a.n \in 1 .. n
    BY <2>4 DEF n
  <2>8. n \in 1 .. n
    BY <2>4 DEF n
  <2>9. \A a \in v7' \cup v8' : /\ a.n \in 1 .. n
                                /\ a.cmd \in Terminal!V16Words => a.by = "v16"
    BY <2>2, <2>3, <2>5, <2>6, <2>7, <2>8
  <2>10. \A a, b \in v7' \cup v8' :
           a.n = b.n => a.cmd = b.cmd /\ (a.cmd # "help" => a.by = b.by)
    BY <2>5, <2>6, <2>7
  <2> QED
    BY <2>1, <2>4, <2>8, <2>9, <2>10
<1>11. ASSUME NEW line \in v8, Terminal!Answer(line)
       PROVE  Terminal!TerminalInv'
  <2>1. v7' \cup v8' \subseteq v7 \cup v8 /\ UNCHANGED <<v1, v3, v9>>
    BY <1>11 DEF Terminal!Answer
  <2> QED
    BY <2>1
<1> QED
  BY <1>1, <1>2, <1>3, <1>4, <1>5, <1>6, <1>7, <1>8, <1>9, <1>10, <1>11
  DEF Terminal!TerminalNext

LEMMA TerminalStutter ==
  ASSUME Terminal!TerminalInv, UNCHANGED <<v1, v3, v7, v8, v9>>
  PROVE  Terminal!TerminalInv'
  BY DEF Terminal!TerminalInv

-------------------------------------------------------------------------------
\* For any scripts, frames, packs of tokens and words typed, every surface is in the current
\* language, the document has the stored appearance, and a command has one meaning.
THEOREM PresentationDoesAgree ==
  Spec => []PresentationAgrees
<1> DEFINE Inv == /\ focus = "locale" => Locale!LocaleInv
                  /\ focus = "appearance" => Appearance!AppearanceInv
                  /\ focus = "terminal" => Terminal!TerminalInv
<1>1. Init => Inv
  BY LocaleInitial, AppearanceInitial, TerminalInitial DEF Init
<1>2. Inv /\ [Next]_slots => Inv'
  <2> SUFFICES ASSUME Inv, [Next]_slots
               PROVE  Inv'
    OBVIOUS
  <2>1. CASE focus = "locale" /\ Locale!LocaleNext /\ focus' = focus
    BY <2>1, LocaleKeeps
  <2>2. CASE focus = "appearance" /\ Appearance!AppearanceNext /\ focus' = focus
    BY <2>2, AppearanceKeeps
  <2>3. CASE focus = "terminal" /\ Terminal!TerminalNext /\ focus' = focus
    BY <2>3, TerminalKeeps
  <2>4. CASE focus \notin {"locale", "appearance", "terminal"} /\ focus' = focus
    BY <2>4
  <2>5. CASE UNCHANGED slots
    <3>1. UNCHANGED <<focus, v1, v2, v3, v4, v5, v7, v8, v9>>
      BY <2>5 DEF slots
    <3> QED
      BY <3>1, LocaleStutter, AppearanceStutter, TerminalStutter
  <2> QED
    BY <2>1, <2>2, <2>3, <2>4, <2>5 DEF Next
<1>3. Inv => PresentationAgrees
  BY DEF PresentationAgrees, Locale!LocaleInv, Appearance!AppearanceInv,
         Terminal!TerminalInv, Terminal!OneMeaning
<1> QED
  BY <1>1, <1>2, <1>3, PTL DEF Spec

-------------------------------------------------------------------------------
(* The package pipeline.                                                     *)

LEMMA PackagesInitial == Packages!Init => Packages!PackagesInv
<1> SUFFICES ASSUME Packages!Init
             PROVE  Packages!PackagesInv
  OBVIOUS
<1>1. (CHOOSE p \in {"app", "lib"} : TRUE) \in {"app", "lib"}
  OBVIOUS
<1>2. \A o \in Pair : v4[o] = "idle"
  BY DEF Packages!Init
<1>3. Packages!PackagesType
  BY <1>1 DEF Packages!Init, Packages!PackagesType, Packages!NoRecord, Packages!Status
<1> QED
  BY <1>2, <1>3 DEF Packages!PackagesInv, Packages!GoalKept, Packages!Begun

\* A step of one operation keeps what holds of the others, whose package it disturbs or
\* leaves alone and whose record it loses only when that is noted.
LEMMA OneMoves ==
  ASSUME Packages!PackagesInv, Packages!PackagesType', NEW x \in Pair, Packages!GoalKept(x)',
         v10 \subseteq v10', v11 \subseteq v11',
         \A o \in Pair \ {x} :
           /\ v4'[o] = v4[o] /\ v5'[o] = v5[o] /\ v7'[o] = v7[o] /\ v8'[o] = v8[o] /\ v9'[o] = v9[o]
           /\ \/ o \in v11' \/ ~ Packages!Begun(o)
              \/ v1'[v7[o].package] = v1[v7[o].package] /\ v2'[v7[o].package] = v2[v7[o].package]
           /\ v3[o] # "none" => v3'[o] # "none" \/ o \in v10',
         x \notin v10' \cup v11' /\ Packages!Begun(x)' => Packages!Progress(x)'
  PROVE  Packages!PackagesInv'
<1>1. ASSUME NEW o \in Pair \ {x}
      PROVE  Packages!GoalKept(o)'
  BY DEF Packages!PackagesInv, Packages!GoalKept
<1>2. ASSUME NEW o \in Pair \ {x}, o \notin v10' \cup v11', Packages!Begun(o)'
      PROVE  Packages!Progress(o)'
  <2>1. Packages!Begun(o) /\ o \notin v10 \cup v11
    BY <1>2 DEF Packages!Begun
  <2>2. Packages!Progress(o)
    BY <2>1 DEF Packages!PackagesInv
  <2>3. /\ v4'[o] = v4[o] /\ v5'[o] = v5[o] /\ v7'[o] = v7[o] /\ v8'[o] = v8[o] /\ v9'[o] = v9[o]
        /\ v1'[v7[o].package] = v1[v7[o].package] /\ v2'[v7[o].package] = v2[v7[o].package]
        /\ v3[o] # "none" => v3'[o] # "none"
    BY <1>2, <2>1
  <2> QED
    BY <2>2, <2>3
    DEF Packages!Progress, Packages!Writes, Packages!AsBefore, Packages!AsPlanned, Packages!SetTo
<1> QED
  BY <1>1, <1>2 DEF Packages!PackagesInv

\* One that changes neither the packages nor the journal.
LEMMA OneMovesOn ==
  ASSUME Packages!PackagesInv, Packages!PackagesType', NEW x \in Pair, Packages!GoalKept(x)',
         UNCHANGED <<v1, v2, v3, v10, v11>>,
         \A o \in Pair \ {x} :
           v4'[o] = v4[o] /\ v5'[o] = v5[o] /\ v7'[o] = v7[o] /\ v8'[o] = v8[o] /\ v9'[o] = v9[o],
         x \notin v10 \cup v11 /\ Packages!Begun(x)' => Packages!Progress(x)'
  PROVE  Packages!PackagesInv'
  BY OneMoves

\* What an operation does after an error, by what it was about to record.
LEMMA AfterErrors ==
  ASSUME NEW x \in Pair, v5[x] \in Packages!Status \cup {"UNDONE"}
  PROVE  /\ v5[x] \in {"APPLYING", "COMMITTED"} =>
              Packages!AfterError(x) = [pc |-> "undo", goal |-> "ROLLED_BACK"]
         /\ v5[x] = "ROLLED_BACK" =>
              Packages!AfterError(x) = [pc |-> "read", goal |-> "ROLLBACK_FAILED"]
         /\ v5[x] \in {"PREPARED", "ROLLBACK_FAILED", "UNDONE"} =>
              Packages!AfterError(x) = [pc |-> "failed", goal |-> v5[x]]
  BY DEF Packages!AfterError, Packages!Status

LEMMA ErrorIsTyped ==
  ASSUME Packages!PackagesInv, NEW x \in Pair, Packages!Throws(x)
  PROVE  /\ v4' = [v4 EXCEPT ![x] = v4'[x]] /\ v5' = [v5 EXCEPT ![x] = v5'[x]]
         /\ v4'[x] \in {"failed", "undo", "read"} /\ v5'[x] \in Packages!Status \cup {"UNDONE"}
         /\ Packages!GoalKept(x)'
<1>1. /\ v4 \in [Pair -> {"idle", "planned", "read", "write", "apply", "grant", "undo",
                          "restore", "done", "undone", "failed", "gone"}]
      /\ v5 \in [Pair -> Packages!Status \cup {"UNDONE"}]
  BY DEF Packages!PackagesInv, Packages!PackagesType
<1>2. /\ v4' = [v4 EXCEPT ![x] = Packages!AfterError(x).pc]
      /\ v5' = [v5 EXCEPT ![x] = Packages!AfterError(x).goal]
  BY DEF Packages!Throws
<1>3. \/ Packages!AfterError(x).pc = "failed" /\ Packages!AfterError(x).goal = v5[x]
      \/ Packages!AfterError(x).pc = "undo" /\ Packages!AfterError(x).goal = "ROLLED_BACK"
      \/ Packages!AfterError(x).pc = "read" /\ Packages!AfterError(x).goal = "ROLLBACK_FAILED"
  BY <1>1, AfterErrors DEF Packages!Status
<1> QED
  BY <1>1, <1>2, <1>3 DEF Packages!GoalKept, Packages!Status

\* An operation that has changed something has a record, and goes on to undo the change.
LEMMA ErrorIsHandled ==
  ASSUME Packages!PackagesInv, NEW x \in Pair \ (v10 \cup v11), Packages!Throws(x),
         v4[x] \in {"read", "write", "apply", "grant", "undo", "restore"},
         UNCHANGED <<v3, v7, v8>>,
         UNCHANGED <<v1, v2>> \/ v4[x] \in {"apply", "grant", "undo", "restore"}
  PROVE  Packages!Progress(x)'
<1>1. Packages!Progress(x) /\ Packages!GoalKept(x) /\ v5[x] \in Packages!Status \cup {"UNDONE"}
  BY DEF Packages!PackagesInv, Packages!PackagesType, Packages!Begun
<1>2. v4'[x] = Packages!AfterError(x).pc /\ v5'[x] = Packages!AfterError(x).goal
  BY DEF Packages!Throws, Packages!PackagesInv, Packages!PackagesType
<1>3. CASE v5[x] = "PREPARED"
  <2>1. v4[x] \in {"read", "write"} /\ UNCHANGED <<v1, v2>>
    BY <1>1, <1>3 DEF Packages!GoalKept
  <2>2. Packages!AsBefore(x)'
    BY <1>1, <1>3, <2>1 DEF Packages!Progress, Packages!Writes, Packages!AsBefore
  <2>3. v4'[x] = "failed"
    BY <1>1, <1>2, <1>3, AfterErrors
  <2> QED
    BY <1>1, <2>2, <2>3 DEF Packages!Progress, Packages!Writes, Packages!AsBefore
<1>4. CASE v5[x] # "PREPARED"
  <2>1. v3[x] # "none"
    BY <1>1, <1>4 DEF Packages!Progress
  <2>2. v4'[x] \in {"failed", "undo"} \/ (v4'[x] = "read" /\ v5'[x] = "ROLLBACK_FAILED")
    BY <1>1, <1>2, <1>4, AfterErrors DEF Packages!Status
  <2> QED
    BY <1>1, <2>1, <2>2 DEF Packages!Progress, Packages!Writes
<1> QED
  BY <1>3, <1>4

\* What is written of a record leads on, and every record says something.
LEMMA WriteLeadsOn ==
  ASSUME NEW x \in Pair, v5[x] \in Packages!Status \cup {"UNDONE"}
  PROVE  /\ v5[x] = "PREPARED" => Packages!AfterWrite(x) = [pc |-> "read", goal |-> "APPLYING"]
         /\ v5[x] = "APPLYING" => Packages!AfterWrite(x) = [pc |-> "apply", goal |-> "APPLYING"]
         /\ v5[x] = "COMMITTED" => Packages!AfterWrite(x) = [pc |-> "done", goal |-> "COMMITTED"]
         /\ v5[x] \in {"ROLLED_BACK", "UNDONE"} =>
              Packages!AfterWrite(x) = [pc |-> "undone", goal |-> v5[x]]
         /\ v5[x] = "ROLLBACK_FAILED" =>
              Packages!AfterWrite(x) = [pc |-> "failed", goal |-> "ROLLBACK_FAILED"]
         /\ Packages!Recorded(x) \in Packages!Status
  BY DEF Packages!AfterWrite, Packages!Recorded, Packages!Status

LEMMA JournalWritten ==
  ASSUME Packages!PackagesInv, NEW x \in Pair, Packages!WriteJournal(x)
  PROVE  Packages!PackagesInv'
<1> DEFINE wrote == v3' = [v6[x] EXCEPT ![x] = Packages!Recorded(x)]
<1>1. /\ v4[x] = "write" /\ UNCHANGED <<v1, v2, v7, v8, v9, v11>>
      /\ v4' = [v4 EXCEPT ![x] = Packages!AfterWrite(x).pc]
      /\ v5' = [v5 EXCEPT ![x] = Packages!AfterWrite(x).goal]
      /\ v6' = [v6 EXCEPT ![x] = Packages!NoRecord]
      /\ \/ /\ v3' = [v6[x] EXCEPT ![x] = Packages!Recorded(x)]
            /\ \A o \in Pair \ {x} : v3[o] # "none" /\ v6[x][o] = "none" => o \in v10'
         \/ v3' = v3 /\ x \in v10'
      /\ v10 \subseteq v10'
  BY DEF Packages!WriteJournal, Packages!store
<1>2. /\ Packages!PackagesType /\ v5[x] \in Packages!Status \cup {"UNDONE"}
      /\ Packages!Recorded(x) \in Packages!Status
  <2>1. Packages!PackagesType
    BY DEF Packages!PackagesInv
  <2>2. v5[x] \in Packages!Status \cup {"UNDONE"}
    BY <2>1 DEF Packages!PackagesType
  <2> QED
    BY <2>1, <2>2, WriteLeadsOn
<1>3. /\ Packages!AfterWrite(x).pc \in {"read", "apply", "done", "undone", "failed"}
      /\ Packages!AfterWrite(x).goal \in Packages!Status \cup {"UNDONE"}
      /\ Packages!AfterWrite(x).pc = "apply" => Packages!AfterWrite(x).goal = "APPLYING"
  <2>1. v5[x] \in {"PREPARED", "APPLYING", "COMMITTED", "ROLLED_BACK", "ROLLBACK_FAILED",
                  "UNDONE"}
    BY <1>2 DEF Packages!Status
  <2>2. \/ Packages!AfterWrite(x) = [pc |-> "read", goal |-> "APPLYING"]
        \/ Packages!AfterWrite(x) = [pc |-> "apply", goal |-> "APPLYING"]
        \/ Packages!AfterWrite(x) = [pc |-> "done", goal |-> "COMMITTED"]
        \/ Packages!AfterWrite(x) = [pc |-> "undone", goal |-> v5[x]]
        \/ Packages!AfterWrite(x) = [pc |-> "failed", goal |-> "ROLLBACK_FAILED"]
    BY <1>2, <2>1, WriteLeadsOn
  <2> QED
    BY <1>2, <2>2 DEF Packages!Status
<1>4. v3' \in [Pair -> Packages!Status \cup {"none"}]
  <2>1. /\ v3 \in [Pair -> Packages!Status \cup {"none"}]
        /\ v6[x] \in [Pair -> Packages!Status \cup {"none"}]
    BY <1>2 DEF Packages!PackagesType
  <2> QED
    BY <1>1, <1>2, <2>1
<1>5. Packages!PackagesType'
  BY <1>1, <1>2, <1>3, <1>4 DEF Packages!PackagesType, Packages!NoRecord
<1>6. v4'[x] = Packages!AfterWrite(x).pc /\ v5'[x] = Packages!AfterWrite(x).goal
  BY <1>1, <1>2 DEF Packages!PackagesType
<1>7. Packages!GoalKept(x)'
  BY <1>3, <1>6 DEF Packages!GoalKept
<1>8. \A o \in Pair \ {x} :
        /\ v4'[o] = v4[o] /\ v5'[o] = v5[o] /\ v7'[o] = v7[o] /\ v8'[o] = v8[o] /\ v9'[o] = v9[o]
        /\ v3[o] # "none" => v3'[o] # "none" \/ o \in v10'
  BY <1>1, <1>2 DEF Packages!PackagesType
<1>9. ASSUME x \notin v10' \cup v11'
      PROVE  Packages!Progress(x)'
  <2>1. Packages!Progress(x)
    BY <1>1, <1>9 DEF Packages!PackagesInv, Packages!Begun
  <2>2. v3'[x] # "none"
    BY <1>1, <1>2, <1>9 DEF Packages!PackagesType, Packages!Status
  <2>3. Packages!AsBefore(x)' <=> Packages!AsBefore(x)
    BY <1>1 DEF Packages!AsBefore
  <2>4. Packages!AsPlanned(x)' <=> Packages!AsPlanned(x)
    BY <1>1 DEF Packages!AsPlanned
  <2>5. /\ v4'[x] = "read" => v5[x] = "PREPARED" /\ v5'[x] = "APPLYING"
        /\ v4'[x] = "apply" => v5[x] = "APPLYING"
        /\ v4'[x] = "undone" => v5[x] \in {"ROLLED_BACK", "UNDONE"}
        /\ v4'[x] = "done" => v5[x] = "COMMITTED"
    BY <1>2, <1>6, WriteLeadsOn DEF Packages!Status
  <2>6. /\ v4'[x] \in {"read", "apply", "undone"} => Packages!AsBefore(x)'
        /\ v4'[x] = "done" => Packages!AsPlanned(x)'
    BY <1>1, <2>1, <2>3, <2>4, <2>5 DEF Packages!Progress, Packages!Writes
  <2> QED
    BY <1>1, <1>3, <1>6, <2>1, <2>2, <2>5, <2>6 DEF Packages!Progress, Packages!Writes
<1> QED
  BY <1>1, <1>5, <1>7, <1>8, <1>9, OneMoves

\* The package is put in the store, or removed from it, or the write is lost.
LEMMA PackagePut ==
  ASSUME Packages!PackagesInv, NEW x \in Pair, NEW v, Packages!PutPackage(x, v),
         Packages!Disturbs(x), v2' = v2, v7' = v7
  PROVE  /\ DOMAIN v1' = {"app", "lib"} /\ v10 \subseteq v10' /\ v11 \subseteq v11'
         /\ x \notin v10' => v1'[v7[x].package] = v
         /\ x \in v11' => x \in v11
         /\ \A o \in Pair \ {x} :
              \/ o \in v11' \/ ~ Packages!Begun(o)
              \/ v1'[v7[o].package] = v1[v7[o].package]
<1>1. /\ DOMAIN v1 = {"app", "lib"} /\ v7[x].package \in {"app", "lib"}
      /\ \A o \in Pair : v7[o].package \in {"app", "lib"}
  BY DEF Packages!PackagesInv, Packages!PackagesType
<1>2. /\ v11' = v11 \cup {o \in Pair \ {x} : /\ Packages!Begun(o)
                                          /\ v7[o].package = v7[x].package}
      /\ \/ v1' = [v1 EXCEPT ![v7[x].package] = v] /\ v10' = v10
         \/ v1' = v1 /\ v10' = v10 \cup {x}
  BY DEF Packages!PutPackage, Packages!Disturbs
<1> QED
  BY <1>1, <1>2

LEMMA PermissionPut ==
  ASSUME Packages!PackagesInv, NEW x \in Pair, NEW q, NEW wanted,
         Packages!PutPermission(x, q, q \in wanted), Packages!Disturbs(x), v1' = v1, v7' = v7
  PROVE  /\ DOMAIN v2' = {"app", "lib"} /\ v10 \subseteq v10' /\ v11 \subseteq v11'
         /\ x \in v11' => x \in v11
         /\ \A o \in Pair \ {x} :
              \/ o \in v11' \/ ~ Packages!Begun(o)
              \/ v2'[v7[o].package] = v2[v7[o].package]
         /\ \/ v2' = v2 /\ Packages!Throws(x)
            \/ UNCHANGED <<v4, v5>> /\ x \in v10'
            \/ /\ UNCHANGED <<v4, v5>>
               /\ v2'[v7[x].package] = IF q \in wanted THEN v2[v7[x].package] \cup {q}
                                       ELSE v2[v7[x].package] \ {q}
<1>1. /\ DOMAIN v2 = {"app", "lib"} /\ v7[x].package \in {"app", "lib"}
      /\ \A o \in Pair : v7[o].package \in {"app", "lib"}
  BY DEF Packages!PackagesInv, Packages!PackagesType
<1>2. v11' = v11 \cup {o \in Pair \ {x} : /\ Packages!Begun(o)
                                         /\ v7[o].package = v7[x].package}
  BY DEF Packages!Disturbs
<1> DEFINE new == IF q \in wanted THEN v2[v7[x].package] \cup {q} ELSE v2[v7[x].package] \ {q}
<1>3. \/ v2' = v2 /\ Packages!Throws(x) /\ v10' = v10
      \/ v2' = v2 /\ UNCHANGED <<v4, v5>> /\ v10' = v10 \cup {x}
      \/ v2' = [v2 EXCEPT ![v7[x].package] = new] /\ UNCHANGED <<v4, v5>> /\ v10' = v10
  BY DEF Packages!PutPermission
<1> HIDE DEF new
<1>4. \A o \in Pair \ {x} : \/ o \in v11' \/ ~ Packages!Begun(o)
                            \/ v2'[v7[o].package] = v2[v7[o].package]
  BY <1>1, <1>2, <1>3
<1>5. /\ DOMAIN v2' = {"app", "lib"} /\ v10 \subseteq v10' /\ v11 \subseteq v11'
      /\ x \in v11' => x \in v11
  BY <1>1, <1>2, <1>3
<1>6. \/ v2' = v2 /\ Packages!Throws(x)
      \/ UNCHANGED <<v4, v5>> /\ x \in v10'
      \/ UNCHANGED <<v4, v5>> /\ v2'[v7[x].package] = new
  BY <1>1, <1>3
<1> QED
  BY <1>4, <1>5, <1>6 DEF new

LEMMA PackageApplied ==
  ASSUME Packages!PackagesInv, NEW x \in Pair, NEW at \in {"apply", "undo"},
         NEW next \in {"grant", "restore"}, NEW v,
         at = "apply" <=> next = "grant",
         v = IF at = "apply" THEN v7[x].version ELSE v8[x].version,
         v4[x] = at, Packages!PutPackage(x, v), Packages!Disturbs(x),
         UNCHANGED <<v2, v3, v6, v7, v8>>,
         \/ /\ v4' = [v4 EXCEPT ![x] = next] /\ v9' = [v9 EXCEPT ![x] = v8[x].touched]
            /\ v5' = v5
         \/ Packages!Throws(x) /\ v9' = v9
  PROVE  Packages!PackagesInv'
<1>1. /\ Packages!PackagesType
      /\ v4 \in [Pair -> {"idle", "planned", "read", "write", "apply", "grant", "undo",
                          "restore", "done", "undone", "failed", "gone"}]
      /\ v5 \in [Pair -> Packages!Status \cup {"UNDONE"}]
  BY DEF Packages!PackagesInv, Packages!PackagesType
<1>2. /\ DOMAIN v1' = {"app", "lib"} /\ v10 \subseteq v10' /\ v11 \subseteq v11'
      /\ x \notin v10' => v1'[v7[x].package] = v
      /\ x \in v11' => x \in v11
      /\ \A o \in Pair \ {x} :
           \/ o \in v11' \/ ~ Packages!Begun(o)
           \/ v1'[v7[o].package] = v1[v7[o].package]
  BY PackagePut
<1>3. \/ /\ v4' = [v4 EXCEPT ![x] = next] /\ v5' = v5
         /\ DOMAIN v9' = Pair /\ v9'[x] = v8[x].touched
         /\ \A o \in Pair \ {x} : v9'[o] = v9[o]
      \/ Packages!Throws(x) /\ v9' = v9
  BY <1>1 DEF Packages!PackagesType
<1>4. /\ v4' = [v4 EXCEPT ![x] = v4'[x]] /\ v5' = [v5 EXCEPT ![x] = v5'[x]]
      /\ v4'[x] \in {"grant", "restore", "failed", "undo", "read"} /\ v5'[x] \in Packages!Status \cup {"UNDONE"}
      /\ Packages!GoalKept(x)'
  <2>1. CASE v4' = [v4 EXCEPT ![x] = next] /\ v5' = v5
    <3>1. Packages!GoalKept(x)
      BY DEF Packages!PackagesInv
    <3> QED
      BY <1>1, <2>1, <3>1 DEF Packages!GoalKept
  <2>2. CASE Packages!Throws(x)
    BY <2>2, ErrorIsTyped
  <2> QED
    BY <1>3, <2>1, <2>2
<1>5. DOMAIN v9' = Pair /\ \A o \in Pair \ {x} : v9'[o] = v9[o]
  BY <1>1, <1>3 DEF Packages!PackagesType
<1>6. Packages!PackagesType'
  <2>1. /\ v4' \in [Pair -> {"idle", "planned", "read", "write", "apply", "grant", "undo",
                             "restore", "done", "undone", "failed", "gone"}]
        /\ v5' \in [Pair -> Packages!Status \cup {"UNDONE"}]
    BY <1>1, <1>4
  <2> QED
    BY <1>1, <1>2, <1>5, <2>1 DEF Packages!PackagesType
<1>7. \A o \in Pair \ {x} : v4'[o] = v4[o] /\ v5'[o] = v5[o]
  BY <1>1, <1>4
<1>8. ASSUME x \notin v10' \cup v11'
      PROVE  Packages!Progress(x)'
  <2>1. Packages!Progress(x) /\ x \in Pair \ (v10 \cup v11)
    BY <1>2, <1>8 DEF Packages!PackagesInv, Packages!Begun
  <2>2. CASE Packages!Throws(x)
    BY <2>1, <2>2, ErrorIsHandled
  <2>3. CASE v4' = [v4 EXCEPT ![x] = next] /\ v9'[x] = v8[x].touched
    <3>1. v4'[x] = next /\ v3'[x] # "none" /\ v1'[v7[x].package] = v
      BY <1>1, <1>2, <1>8, <2>1, <2>3 DEF Packages!Progress
    <3> QED
      BY <2>1, <2>3, <3>1 DEF Packages!Progress, Packages!Writes, Packages!SetTo
  <2> QED
    BY <1>3, <2>2, <2>3
<1> QED
  BY <1>2, <1>4, <1>5, <1>6, <1>7, <1>8, OneMoves

LEMMA PermissionSet ==
  ASSUME Packages!PackagesInv, NEW x \in Pair, NEW q, NEW wanted,
         \/ v4[x] = "grant" /\ wanted = AppWants[v7[x].package][v7[x].version]
         \/ v4[x] = "restore" /\ wanted = v8[x].granted,
         q \in v9[x], Packages!PutPermission(x, q, q \in wanted), Packages!Disturbs(x),
         v9' = [v9 EXCEPT ![x] = @ \ {q}], UNCHANGED <<v1, v3, v6, v7, v8>>
  PROVE  Packages!PackagesInv'
<1>1. /\ Packages!PackagesType
      /\ v4 \in [Pair -> {"idle", "planned", "read", "write", "apply", "grant", "undo",
                          "restore", "done", "undone", "failed", "gone"}]
      /\ v5 \in [Pair -> Packages!Status \cup {"UNDONE"}]
  BY DEF Packages!PackagesInv, Packages!PackagesType
<1> DEFINE p == v7[x].package
           new == IF q \in wanted THEN v2[p] \cup {q} ELSE v2[p] \ {q}
<1>2. /\ DOMAIN v2' = {"app", "lib"} /\ v10 \subseteq v10' /\ v11 \subseteq v11'
      /\ x \in v11' => x \in v11
      /\ \A o \in Pair \ {x} :
           \/ o \in v11' \/ ~ Packages!Begun(o)
           \/ v2'[v7[o].package] = v2[v7[o].package]
      /\ \/ v2' = v2 /\ Packages!Throws(x)
         \/ UNCHANGED <<v4, v5>> /\ x \in v10'
         \/ UNCHANGED <<v4, v5>> /\ v2'[p] = new
  BY PermissionPut
<1>3. Packages!GoalKept(x)
  BY DEF Packages!PackagesInv
<1>4. /\ \/ v4' = v4 /\ v5' = v5
         \/ v4' = [v4 EXCEPT ![x] = v4'[x]] /\ v5' = [v5 EXCEPT ![x] = v5'[x]]
      /\ v4'[x] \in {"grant", "restore", "failed", "undo", "read"} /\ v5'[x] \in Packages!Status \cup {"UNDONE"}
      /\ Packages!GoalKept(x)'
  <2>1. CASE UNCHANGED <<v4, v5>>
    BY <1>1, <1>3, <2>1 DEF Packages!GoalKept
  <2>2. CASE Packages!Throws(x)
    BY <2>2, ErrorIsTyped
  <2> QED
    BY <1>2, <2>1, <2>2
<1>5. /\ DOMAIN v9' = Pair /\ \A o \in Pair \ {x} : v9'[o] = v9[o]
      /\ v9'[x] = v9[x] \ {q}
  BY <1>1 DEF Packages!PackagesType
<1>6. Packages!PackagesType'
  <2>1. /\ v4' \in [Pair -> {"idle", "planned", "read", "write", "apply", "grant", "undo",
                             "restore", "done", "undone", "failed", "gone"}]
        /\ v5' \in [Pair -> Packages!Status \cup {"UNDONE"}]
    BY <1>1, <1>4
  <2> QED
    BY <1>1, <1>2, <1>5, <2>1 DEF Packages!PackagesType
<1>7. \A o \in Pair \ {x} : v4'[o] = v4[o] /\ v5'[o] = v5[o]
  BY <1>1, <1>4
<1>8. ASSUME x \notin v10' \cup v11'
      PROVE  Packages!Progress(x)'
  <2>1. Packages!Progress(x) /\ x \in Pair \ (v10 \cup v11)
    BY <1>2, <1>8 DEF Packages!PackagesInv, Packages!Begun
  <2>2. CASE v2' = v2 /\ Packages!Throws(x)
    BY <2>1, <2>2, ErrorIsHandled
  <2>3. CASE UNCHANGED <<v4, v5>> /\ v2'[p] = new
    <3>1. v4'[x] = v4[x] /\ v4[x] \in {"grant", "restore"} /\ v3'[x] # "none"
      BY <2>1, <2>3 DEF Packages!Progress
    <3>2. Packages!SetTo(x, wanted)
      BY <2>1 DEF Packages!Progress
    <3>3. Packages!SetTo(x, wanted)'
      BY <1>5, <2>3, <3>2 DEF Packages!SetTo
    <3> QED
      BY <2>1, <3>1, <3>3 DEF Packages!Progress, Packages!Writes
  <2> QED
    BY <1>2, <1>8, <2>2, <2>3
<1> QED
  BY <1>2, <1>4, <1>5, <1>6, <1>7, <1>8, OneMoves

\* An error while the journal is read or written.
LEMMA ErrorMoves ==
  ASSUME Packages!PackagesInv, NEW x \in Pair, Packages!Throws(x), v4[x] \in {"read", "write"},
         v6' = v6 \/ v6' = [v6 EXCEPT ![x] = Packages!NoRecord],
         UNCHANGED <<v1, v2, v3, v7, v8, v9, v10, v11>>
  PROVE  Packages!PackagesInv'
<1>1. /\ Packages!PackagesType
      /\ v4 \in [Pair -> {"idle", "planned", "read", "write", "apply", "grant", "undo",
                          "restore", "done", "undone", "failed", "gone"}]
      /\ v5 \in [Pair -> Packages!Status \cup {"UNDONE"}]
  BY DEF Packages!PackagesInv, Packages!PackagesType
<1>2. /\ v4' = [v4 EXCEPT ![x] = v4'[x]] /\ v5' = [v5 EXCEPT ![x] = v5'[x]]
      /\ v4'[x] \in {"failed", "undo", "read"} /\ v5'[x] \in Packages!Status \cup {"UNDONE"}
      /\ Packages!GoalKept(x)'
  BY ErrorIsTyped
<1>3. /\ v4' \in [Pair -> {"idle", "planned", "read", "write", "apply", "grant", "undo",
                           "restore", "done", "undone", "failed", "gone"}]
      /\ v5' \in [Pair -> Packages!Status \cup {"UNDONE"}]
      /\ \A o \in Pair \ {x} : v4'[o] = v4[o] /\ v5'[o] = v5[o]
  BY <1>1, <1>2
<1>4. v6' \in [Pair -> [Pair -> Packages!Status \cup {"none"}]]
  <2>1. v6 \in [Pair -> [Pair -> Packages!Status \cup {"none"}]]
    BY <1>1 DEF Packages!PackagesType
  <2>2. Packages!NoRecord \in [Pair -> Packages!Status \cup {"none"}]
    BY DEF Packages!NoRecord
  <2> QED
    BY <2>1, <2>2
<1>5. Packages!PackagesType'
  BY <1>1, <1>3, <1>4 DEF Packages!PackagesType
<1>6. x \notin v10 \cup v11 => Packages!Progress(x)'
  BY ErrorIsHandled
<1> QED
  BY <1>2, <1>3, <1>5, <1>6, OneMovesOn

LEMMA PackagesStep ==
  ASSUME Packages!PackagesInv, NEW x \in Pair,
         \/ Packages!Step(x) \/ \E m \in Packages!Manifest, keys \in SUBSET {"app", "lib"} : Packages!Prepare(x, m, keys)
         \/ \E p \in {"app", "lib"} : Packages!PlanRemove(x, p)
  PROVE  Packages!PackagesInv'
<1>1. /\ Packages!PackagesType
      /\ v4 \in [Pair -> {"idle", "planned", "read", "write", "apply", "grant", "undo",
                          "restore", "done", "undone", "failed", "gone"}]
      /\ v5 \in [Pair -> Packages!Status \cup {"UNDONE"}]
      /\ v7 \in [Pair -> [package : {"app", "lib"}, version : 0 .. 2]]
      /\ DOMAIN v8 = Pair /\ DOMAIN v9 = Pair
      /\ Packages!GoalKept(x)
      /\ x \notin v10 \cup v11 /\ Packages!Begun(x) => Packages!Progress(x)
  <2>1. Packages!PackagesType
    BY DEF Packages!PackagesInv
  <2> QED
    BY <2>1 DEF Packages!PackagesInv, Packages!PackagesType
<1> USE DEF Packages!store, Packages!history
<1>2. ASSUME v4[x] = "idle", NEW p \in {"app", "lib"}, NEW n \in 0 .. 2,
             v7' = [v7 EXCEPT ![x] = [package |-> p, version |-> n]], v4' = [v4 EXCEPT ![x] = "planned"],
             UNCHANGED <<v1, v2, v3, v5, v6, v8, v9, v10, v11>>
      PROVE  Packages!PackagesInv'
  <2>1. Packages!PackagesType'
    BY <1>1, <1>2 DEF Packages!PackagesType
  <2>2. /\ v4'[x] = "planned" /\ Packages!GoalKept(x)'
        /\ \A o \in Pair \ {x} : v4'[o] = v4[o] /\ v7'[o] = v7[o]
    BY <1>1, <1>2 DEF Packages!GoalKept
  <2> QED
    BY <1>2, <2>1, <2>2, OneMovesOn DEF Packages!Begun
<1>3. ASSUME NEW m \in Packages!Manifest, NEW keys, Packages!Prepare(x, m, keys)
      PROVE  Packages!PackagesInv'
  <2>1. PICK p \in {"app", "lib"}, n \in 0 .. 2 : p = m.package /\ n = m.version
    BY DEF Packages!Manifest, Packages!Version
  <2>2. /\ v4[x] = "idle" /\ v7' = [v7 EXCEPT ![x] = [package |-> p, version |-> n]]
        /\ v4' = [v4 EXCEPT ![x] = "planned"]
        /\ UNCHANGED <<v1, v2, v3, v5, v6, v8, v9, v10, v11>>
    BY <1>3, <2>1 DEF Packages!Prepare
  <2> QED
    BY <1>2, <2>2
<1>4. ASSUME NEW p \in {"app", "lib"}, Packages!PlanRemove(x, p)
      PROVE  Packages!PackagesInv'
  <2>1. PICK n \in 0 .. 2 : n = 0
    OBVIOUS
  <2>2. /\ v4[x] = "idle" /\ v7' = [v7 EXCEPT ![x] = [package |-> p, version |-> n]]
        /\ v4' = [v4 EXCEPT ![x] = "planned"]
        /\ UNCHANGED <<v1, v2, v3, v5, v6, v8, v9, v10, v11>>
    BY <1>4, <2>1 DEF Packages!PlanRemove
  <2> QED
    BY <1>2, <2>2
<1>5. CASE Packages!Snapshot(x)
  <2> DEFINE p == v7[x].package
             names == AppWants[p][v1[p]] \cup AppWants[p][v7[x].version]
             seen == [version |-> v1[p], granted |-> v2[p] \cap names, touched |-> names]
             missed == [version |-> 0, granted |-> {}, touched |-> AppWants[p][v7[x].version]]
  <2>1. /\ v4[x] = "planned"
        /\ \/ v8' = [v8 EXCEPT ![x] = seen] /\ v10' = v10
           \/ v8' = [v8 EXCEPT ![x] = missed] /\ v10' = v10 \cup {x}
        /\ v4' = [v4 EXCEPT ![x] = "read"] /\ v5' = [v5 EXCEPT ![x] = "PREPARED"]
        /\ UNCHANGED <<v1, v2, v3, v6, v7, v9, v11>>
    BY <1>5, Zenon DEF Packages!Snapshot
  <2>2. Packages!PackagesType'
    <3>1. DOMAIN v8' = Pair
      BY <1>1, <2>1
    <3>2. /\ v4' \in [Pair -> {"idle", "planned", "read", "write", "apply", "grant", "undo",
                               "restore", "done", "undone", "failed", "gone"}]
          /\ v5' \in [Pair -> Packages!Status \cup {"UNDONE"}]
      BY <1>1, <2>1 DEF Packages!Status
    <3> QED
      BY <1>1, <2>1, <3>1, <3>2 DEF Packages!PackagesType
  <2>3. /\ v4'[x] = "read" /\ v5'[x] = "PREPARED" /\ Packages!GoalKept(x)'
        /\ \A o \in Pair \ {x} : v4'[o] = v4[o] /\ v5'[o] = v5[o] /\ v8'[o] = v8[o]
        /\ v8'[x] = seen \/ x \in v10'
    BY <1>1, <2>1 DEF Packages!GoalKept
  <2>4. ASSUME x \notin v10'
        PROVE  Packages!Progress(x)'
    <3>1. /\ v8'[x].version = v1[p] /\ v8'[x].granted = v2[p] \cap names /\ v8'[x].touched = names
          /\ AppWants[p][v7[x].version] \subseteq names
      BY <2>3, <2>4
    <3>2. p' = p /\ v7'[x] = v7[x]
      BY <2>1
    <3> HIDE DEF names, seen
    <3>3. Packages!AsBefore(x)'
      BY <2>1, <3>1 DEF Packages!AsBefore
    <3> QED
      BY <2>1, <2>3, <3>1, <3>3 DEF Packages!Progress, Packages!Writes
  <2> HIDE DEF names, seen, missed
  <2>5. \A o \in Pair \ {x} :
          /\ v4'[o] = v4[o] /\ v5'[o] = v5[o] /\ v7'[o] = v7[o] /\ v8'[o] = v8[o] /\ v9'[o] = v9[o]
    BY <2>1, <2>3
  <2> QED
    BY <2>1, <2>2, <2>3, <2>4, <2>5, OneMoves
<1>6. CASE Packages!ReadJournal(x)
  <2>1. CASE Packages!Throws(x) /\ v6' = v6
    <3>1. v4[x] = "read" /\ UNCHANGED <<v1, v2, v3, v7, v8, v9, v10, v11>>
      BY <1>6 DEF Packages!ReadJournal
    <3> QED
      BY <1>1, <2>1, <3>1, ErrorMoves
  <2>2. CASE /\ \E list \in {v3, Packages!NoRecord} : v6' = [v6 EXCEPT ![x] = list]
             /\ v4' = [v4 EXCEPT ![x] = "write"] /\ v5' = v5
    <3>1. v4[x] = "read" /\ UNCHANGED <<v1, v2, v3, v7, v8, v9, v10, v11>>
      BY <1>6 DEF Packages!ReadJournal
    <3>2. Packages!PackagesType'
      <4>1. Packages!NoRecord \in [Pair -> Packages!Status \cup {"none"}]
        BY DEF Packages!NoRecord
      <4> QED
        BY <1>1, <2>2, <3>1, <4>1 DEF Packages!PackagesType
    <3>3. /\ v4'[x] = "write" /\ Packages!GoalKept(x)'
          /\ \A o \in Pair \ {x} : v4'[o] = v4[o]
      BY <1>1, <2>2 DEF Packages!GoalKept
    <3>4. x \notin v10 \cup v11 => Packages!Progress(x)'
      BY <1>1, <2>2, <3>1, <3>3
      DEF Packages!Begun, Packages!Progress, Packages!Writes, Packages!AsBefore,
          Packages!AsPlanned
    <3> QED
      BY <2>2, <3>1, <3>2, <3>3, <3>4, OneMovesOn
  <2> QED
    BY <1>6, <2>1, <2>2 DEF Packages!ReadJournal
<1>7. CASE Packages!WriteJournal(x)
  BY <1>7, JournalWritten
<1>8. CASE Packages!WriteThrows(x)
  <2>1. v4[x] = "write" /\ UNCHANGED <<v1, v2, v3, v7, v8, v9, v10, v11>>
        /\ v6' = [v6 EXCEPT ![x] = Packages!NoRecord] /\ Packages!Throws(x)
    BY <1>8 DEF Packages!WriteThrows
  <2> QED
    BY <1>1, <2>1, ErrorMoves
<1>9. CASE Packages!Apply(x)
  <2>1. /\ v4[x] = "apply" /\ Packages!PutPackage(x, v7[x].version) /\ Packages!Disturbs(x)
        /\ UNCHANGED <<v2, v3, v6, v7, v8>>
        /\ \/ /\ v4' = [v4 EXCEPT ![x] = "grant"] /\ v9' = [v9 EXCEPT ![x] = v8[x].touched]
              /\ v5' = v5
           \/ Packages!Throws(x) /\ v9' = v9
    BY <1>9 DEF Packages!Apply
  <2> QED
    BY <2>1, PackageApplied
<1>10. CASE Packages!Undo(x)
  <2>1. /\ v4[x] = "undo" /\ Packages!PutPackage(x, v8[x].version) /\ Packages!Disturbs(x)
        /\ UNCHANGED <<v2, v3, v6, v7, v8>>
        /\ \/ /\ v4' = [v4 EXCEPT ![x] = "restore"] /\ v9' = [v9 EXCEPT ![x] = v8[x].touched]
              /\ v5' = v5
           \/ Packages!Throws(x) /\ v9' = v9
    BY <1>10 DEF Packages!Undo
  <2> QED
    BY <2>1, PackageApplied
<1>11. ASSUME NEW q, Packages!Grant(x, q)
       PROVE  Packages!PackagesInv'
  BY <1>11, PermissionSet DEF Packages!Grant
<1>12. ASSUME NEW q, Packages!Restore(x, q)
       PROVE  Packages!PackagesInv'
  BY <1>12, PermissionSet DEF Packages!Restore
<1>13. ASSUME NEW s \in {"COMMITTED", "ROLLED_BACK", "UNDONE"},
              s = "COMMITTED" => v4[x] = "grant", s # "COMMITTED" => v4[x] = "restore",
              v9[x] = {}, v4' = [v4 EXCEPT ![x] = "read"], v5' = [v5 EXCEPT ![x] = s],
              UNCHANGED <<v1, v2, v3, v6, v7, v8, v9, v10, v11>>
       PROVE  Packages!PackagesInv'
  <2>1. Packages!PackagesType'
    BY <1>1, <1>13 DEF Packages!PackagesType, Packages!Status
  <2>2. /\ v4'[x] = "read" /\ v5'[x] = s /\ Packages!GoalKept(x)'
        /\ \A o \in Pair \ {x} : v4'[o] = v4[o] /\ v5'[o] = v5[o]
    BY <1>1, <1>13 DEF Packages!GoalKept
  <2>3. ASSUME x \notin v10 \cup v11
        PROVE  Packages!Progress(x)'
    <3>1. Packages!Progress(x)
      BY <1>1, <1>13, <2>3 DEF Packages!Begun
    <3>2. s = "COMMITTED" => Packages!AsPlanned(x)'
      BY <1>13, <3>1 DEF Packages!Progress, Packages!SetTo, Packages!AsPlanned
    <3>3. s # "COMMITTED" => Packages!AsBefore(x)'
      BY <1>13, <3>1 DEF Packages!Progress, Packages!SetTo, Packages!AsBefore
    <3>4. v3'[x] # "none"
      BY <1>13, <3>1 DEF Packages!Progress
    <3> QED
      BY <1>13, <2>2, <3>1, <3>2, <3>3, <3>4 DEF Packages!Progress, Packages!Writes
  <2> QED
    BY <1>13, <2>1, <2>2, <2>3, OneMovesOn
<1>14. CASE Packages!Granted(x)
  BY <1>13, <1>14 DEF Packages!Granted
<1>15. CASE Packages!Restored(x)
  <2>1. v4[x] = "restore" /\ v5[x] \in {"ROLLED_BACK", "UNDONE"} /\ v5' = [v5 EXCEPT ![x] = v5[x]]
    BY <1>1, <1>15 DEF Packages!Restored, Packages!GoalKept
  <2> QED
    BY <1>13, <1>15, <2>1 DEF Packages!Restored
<1>16. CASE Packages!Rollback(x)
  <2>1. /\ v4[x] \in {"done", "failed", "gone"} /\ v3[x] # "none"
        /\ v4' = [v4 EXCEPT ![x] = "undo"] /\ v5' = [v5 EXCEPT ![x] = "UNDONE"]
        /\ UNCHANGED <<v1, v2, v3, v6, v7, v8, v9, v10, v11>>
    BY <1>16 DEF Packages!Rollback
  <2>2. Packages!PackagesType'
    BY <1>1, <2>1 DEF Packages!PackagesType, Packages!Status
  <2>3. /\ v4'[x] = "undo" /\ v5'[x] = "UNDONE" /\ Packages!GoalKept(x)'
        /\ \A o \in Pair \ {x} : v4'[o] = v4[o] /\ v5'[o] = v5[o]
    BY <1>1, <2>1 DEF Packages!GoalKept
  <2>4. x \notin v10 \cup v11 => Packages!Progress(x)'
    BY <1>1, <2>1, <2>3 DEF Packages!Begun, Packages!Progress, Packages!Writes
  <2> QED
    BY <2>1, <2>2, <2>3, <2>4, OneMovesOn
<1> QED
  BY <1>3, <1>4, <1>5, <1>6, <1>7, <1>8, <1>9, <1>10, <1>11, <1>12, <1>14, <1>15, <1>16
  DEF Packages!Step

LEMMA PackagesKeep ==
  ASSUME Packages!PackagesInv, Packages!Next
  PROVE  Packages!PackagesInv'
<1>1. CASE Packages!Reload
  <2>1. /\ v4' = [o \in Pair |-> IF Packages!Running(o) THEN "gone" ELSE v4[o]]
        /\ v6' = [o \in Pair |-> Packages!NoRecord] /\ v9' = [o \in Pair |-> {}]
        /\ UNCHANGED <<v1, v2, v3, v5, v7, v8, v10, v11>>
    BY <1>1 DEF Packages!Reload, Packages!store, Packages!history
  <2>2. Packages!PackagesType
    BY DEF Packages!PackagesInv
  <2>3. Packages!PackagesType'
    BY <2>1, <2>2 DEF Packages!PackagesType, Packages!NoRecord
  <2>4. ASSUME NEW o \in Pair
        PROVE  /\ v4'[o] = v4[o] \/ (v4'[o] = "gone" /\ Packages!Begun(o))
               /\ v4'[o] \in {"gone", "idle", "planned", "done", "undone", "failed"}
    BY <2>1 DEF Packages!Running, Packages!Begun
  <2>5. ASSUME NEW o \in Pair
        PROVE  Packages!GoalKept(o)'
    BY <2>4 DEF Packages!GoalKept
  <2>6. ASSUME NEW o \in Pair \ (v10' \cup v11'), Packages!Begun(o)'
        PROVE  Packages!Progress(o)'
    <3>1. Packages!Begun(o) /\ o \notin v10 \cup v11
      BY <2>1, <2>4, <2>6 DEF Packages!Begun
    <3>2. Packages!Progress(o)
      BY <3>1 DEF Packages!PackagesInv
    <3>3. v4'[o] = v4[o] \/ v4'[o] = "gone"
      BY <2>4
    <3>4. v4'[o] \in {"gone", "idle", "planned", "done", "undone", "failed"}
      BY <2>4
    <3> QED
      BY <2>1, <3>2, <3>3, <3>4
      DEF Packages!Progress, Packages!Writes, Packages!AsBefore, Packages!AsPlanned
  <2> QED
    BY <2>3, <2>5, <2>6 DEF Packages!PackagesInv
<1>2. ASSUME NEW x \in Pair,
             \/ Packages!Step(x)
             \/ \E m \in Packages!Manifest, keys \in SUBSET {"app", "lib"} :
                  Packages!Prepare(x, m, keys)
             \/ \E p \in {"app", "lib"} : Packages!PlanRemove(x, p)
      PROVE  Packages!PackagesInv'
  BY <1>2, PackagesStep
<1> QED
  BY <1>1, <1>2 DEF Packages!Next

LEMMA PackagesStutter ==
  ASSUME Packages!PackagesInv, UNCHANGED <<v1, v2, v3, v4, v5, v6, v7, v8, v9, v10, v11>>
  PROVE  Packages!PackagesInv'
<1>1. Packages!PackagesType'
  BY DEF Packages!PackagesInv, Packages!PackagesType
<1>2. ASSUME NEW o \in Pair
      PROVE  /\ Packages!GoalKept(o)' <=> Packages!GoalKept(o)
             /\ Packages!Begun(o)' <=> Packages!Begun(o)
             /\ Packages!Progress(o)' <=> Packages!Progress(o)
  BY DEF Packages!GoalKept, Packages!Begun, Packages!Progress, Packages!Writes,
         Packages!AsBefore, Packages!AsPlanned, Packages!SetTo
<1> QED
  BY <1>1, <1>2 DEF Packages!PackagesInv

LEMMA MutationIsOne == Packages!PackagesInv => Packages!OneLogicalMutation
  BY DEF Packages!PackagesInv, Packages!OneLogicalMutation, Packages!Progress

-------------------------------------------------------------------------------
(* The profiles.                                                             *)

LEMMA OpenIsSealed == Identity!Open \in Identity!Sealed /\ Identity!NoUser \in Identity!Sealed
  BY DEF Identity!Open, Identity!NoUser, Identity!Sealed

LEMMA CallIsRecord ==
  ASSUME NEW op \in Identity!Operation, NEW id \in {"swir"} \cup One, NEW pin \in One \cup {NoOne},
         NEW at \in Identity!Place, NEW seen \in Identity!Sealed,
         NEW rows \in [{"swir"} \cup One -> Identity!Sealed],
         at \in {"put", "fallback"} => seen.there
  PROVE  [op |-> op, id |-> id, pin |-> pin, at |-> at, seen |-> seen, rows |-> rows]
           \in Identity!CallRecord
<1> DEFINE c == [op |-> op, id |-> id, pin |-> pin, at |-> at, seen |-> seen, rows |-> rows]
<1>1. c \in [op : Identity!Operation, id : {"swir"} \cup One, pin : One \cup {NoOne}, at : Identity!Place,
             seen : Identity!Sealed, rows : [{"swir"} \cup One -> Identity!Sealed]]
  OBVIOUS
<1>2. c.at = at /\ c.seen = seen
  OBVIOUS
<1> HIDE DEF c
<1> QED
  BY <1>1, <1>2 DEF Identity!CallRecord

LEMMA BootIsCall ==
  [op |-> "boot", id |-> "swir", pin |-> NoOne, at |-> "list", seen |-> Identity!NoUser,
   rows |-> Identity!Empty] \in Identity!CallRecord
<1>1. Identity!Empty \in [{"swir"} \cup One -> Identity!Sealed]
  BY OpenIsSealed DEF Identity!Empty
<1>2. PICK op \in Identity!Operation : op = "boot"
  BY DEF Identity!Operation
<1>6. PICK at \in Identity!Place : at = "list"
  BY DEF Identity!Place
<1>7. PICK id \in {"swir"} \cup One : id = "swir"
  OBVIOUS
<1>8. PICK pin \in One \cup {NoOne} : pin = NoOne
  OBVIOUS
<1> DEFINE u == Identity!NoUser
           r == Identity!Empty
<1>3. u \in Identity!Sealed /\ r \in [{"swir"} \cup One -> Identity!Sealed]
  BY <1>1, OpenIsSealed
<1>4. at \notin {"put", "fallback"}
  BY <1>6
<1> HIDE DEF u, r
<1>5. [op |-> op, id |-> id, pin |-> pin, at |-> at, seen |-> u, rows |-> r]
        \in Identity!CallRecord
  BY <1>3, <1>4, CallIsRecord
<1> QED
  BY <1>2, <1>6, <1>7, <1>8, <1>5 DEF u, r

LEMMA IdentityInitial == Identity!IdentityInit => Identity!IdentityInv
<1> SUFFICES ASSUME Identity!IdentityInit
             PROVE  Identity!IdentityInv
  OBVIOUS
<1>1. Identity!Empty \in [{"swir"} \cup One -> Identity!Sealed]
  BY OpenIsSealed DEF Identity!Empty
<1> DEFINE first == [op |-> "boot", id |-> "swir", pin |-> NoOne, at |-> "list",
                     seen |-> Identity!NoUser, rows |-> Identity!Empty]
<1>2. first \in Identity!CallRecord
  BY BootIsCall
<1>3. v4 = <<first>> /\ first \in Identity!CallRecord
  BY <1>2 DEF Identity!IdentityInit
<1> HIDE DEF first
<1>4. v4 \in Seq(Identity!CallRecord)
  BY <1>3
<1> QED
  BY <1>1, <1>4 DEF Identity!IdentityInit, Identity!IdentityInv

\* A PIN is stored with the salt that it is hashed with.
LEMMA PinIsSealed ==
  ASSUME NEW u \in Identity!Sealed, u.there, NEW i \in Nat, NEW pin \in One \cup {NoOne}
  PROVE  Identity!WithPin(u, i, pin) \in Identity!Sealed
<1>1. CASE pin = NoOne
  <2>1. [u EXCEPT !.salt = 0, !.hash = <<>>] \in Identity!Sealed
    BY DEF Identity!Sealed
  <2> QED
    BY <1>1, <2>1 DEF Identity!WithPin
<1>2. CASE pin # NoOne
  <2>1. <<i, pin>> \in Nat \X One /\ <<i, pin>>[1] = i
    BY <1>2
  <2> DEFINE h == <<i, pin>>
  <2>2. Identity!WithPin(u, i, pin) = [u EXCEPT !.salt = i, !.hash = h]
    BY <1>2 DEF Identity!WithPin, Identity!Hash
  <2>3. h \in {<<>>} \cup (Nat \X One) /\ h[1] = i
    BY <2>1
  <2> HIDE DEF h
  <2>4. u \in [salt : Nat, hash : {<<>>} \cup (Nat \X One), there : BOOLEAN]
    BY DEF Identity!Sealed
  <2> DEFINE H == {<<>>} \cup (Nat \X One)
  <2> HIDE DEF H
  <2>5. ASSUME u \in [salt : Nat, hash : H, there : BOOLEAN], h \in H
        PROVE  /\ [u EXCEPT !.salt = i, !.hash = h] \in [salt : Nat, hash : H, there : BOOLEAN]
               /\ [u EXCEPT !.salt = i, !.hash = h].salt = i
               /\ [u EXCEPT !.salt = i, !.hash = h].hash = h
               /\ [u EXCEPT !.salt = i, !.hash = h].there = u.there
    BY <2>5
  <2> QED
    BY <2>2, <2>3, <2>4, <2>5 DEF Identity!Sealed, H
<1> QED
  BY <1>1, <1>2

\* A step of one call.
LEMMA CallMoves ==
  ASSUME Identity!IdentityInv, NEW i \in DOMAIN v4, NEW c \in Identity!CallRecord,
         v4' = [v4 EXCEPT ![i] = c],
         v2' \in [Identity!Stores -> [{"swir"} \cup One -> Identity!Sealed]]
  PROVE  Identity!IdentityInv'
<1>1. v4' \in Seq(Identity!CallRecord)
  BY DEF Identity!IdentityInv
<1> QED
  BY <1>1 DEF Identity!IdentityInv

\* One that only goes on elsewhere.
LEMMA CallGoesOn ==
  ASSUME Identity!IdentityInv, NEW i \in DOMAIN v4, NEW at \in Identity!Place \ {"put", "fallback"},
         v4' = [v4 EXCEPT ![i].at = at],
         v2' \in [Identity!Stores -> [{"swir"} \cup One -> Identity!Sealed]]
  PROVE  Identity!IdentityInv'
<1> DEFINE c == [v4[i] EXCEPT !.at = at]
<1>1. v4[i] \in Identity!CallRecord
  BY DEF Identity!IdentityInv
<1>2. c \in Identity!CallRecord
  BY <1>1 DEF Identity!CallRecord
<1>3. v4' = [v4 EXCEPT ![i] = c]
  OBVIOUS
<1> HIDE DEF c
<1> QED
  BY <1>2, <1>3, CallMoves

\* One that has read a profile, and one that has read the profiles.
LEMMA SeenMoves ==
  ASSUME NEW c \in Identity!CallRecord, NEW u \in Identity!Sealed, NEW at \in Identity!Place,
         at \in {"put", "fallback"} => u.there
  PROVE  [c EXCEPT !.seen = u, !.at = at] \in Identity!CallRecord
<1> DEFINE d == [c EXCEPT !.seen = u, !.at = at]
<1>1. /\ d \in [op : Identity!Operation, id : {"swir"} \cup One, pin : One \cup {NoOne},
                at : Identity!Place, seen : Identity!Sealed,
                rows : [{"swir"} \cup One -> Identity!Sealed]]
      /\ d.at = at /\ d.seen = u
  BY DEF Identity!CallRecord
<1> HIDE DEF d
<1> QED
  BY <1>1 DEF Identity!CallRecord

LEMMA RowsMove ==
  ASSUME NEW c \in Identity!CallRecord, NEW at \in Identity!Place,
         NEW rows \in [{"swir"} \cup One -> Identity!Sealed],
         at \in {"put", "fallback"} => c.seen.there
  PROVE  [c EXCEPT !.at = at, !.rows = rows] \in Identity!CallRecord
<1> DEFINE d == [c EXCEPT !.at = at, !.rows = rows]
<1>1. /\ d \in [op : Identity!Operation, id : {"swir"} \cup One, pin : One \cup {NoOne},
                at : Identity!Place, seen : Identity!Sealed,
                rows : [{"swir"} \cup One -> Identity!Sealed]]
      /\ d.at = at /\ d.seen = c.seen
  BY DEF Identity!CallRecord
<1> HIDE DEF d
<1> QED
  BY <1>1 DEF Identity!CallRecord

LEMMA CallMade ==
  ASSUME Identity!IdentityInv,
         NEW op \in {"create", "update", "rename", "authenticate", "remove", "setActive",
                     "setup"},
         NEW id \in {"swir"} \cup One, NEW pin \in One \cup {NoOne}, Identity!Call(op, id, pin)
  PROVE  Identity!IdentityInv'
<1> DEFINE u == IF op = "create" THEN Identity!Open ELSE Identity!NoUser
           at == Identity!FirstStep(op)
           r == Identity!Empty
<1>1. /\ op \in Identity!Operation /\ at \in Identity!Place
      /\ at \in {"put", "fallback"} => op = "create"
  BY DEF Identity!Operation, Identity!Place, Identity!FirstStep
<1>2. u \in Identity!Sealed /\ (op = "create" => u.there)
  BY OpenIsSealed DEF Identity!Open
<1>3. r \in [{"swir"} \cup One -> Identity!Sealed]
  BY OpenIsSealed DEF Identity!Empty
<1> DEFINE c == [op |-> op, id |-> id, pin |-> pin, at |-> at, seen |-> u, rows |-> r]
<1>4. v4' = Append(v4, c) /\ v2' = v2
  BY DEF Identity!Call
<1> HIDE DEF u, at, r
<1>5. c \in Identity!CallRecord
  BY <1>1, <1>2, <1>3, CallIsRecord
<1> HIDE DEF c
<1>6. v4' \in Seq(Identity!CallRecord)
  BY <1>4, <1>5 DEF Identity!IdentityInv
<1> QED
  BY <1>4, <1>6 DEF Identity!IdentityInv

\* What a call writes is sealed, wherever it writes it.
LEMMA RecordIsSealed ==
  ASSUME Identity!IdentityInv, NEW i \in DOMAIN v4, v4[i].at \in {"put", "fallback"}
  PROVE  Identity!Record(i) \in Identity!Sealed
<1>1. v4[i] \in Identity!CallRecord /\ i \in Nat
  BY DEF Identity!IdentityInv
<1>2. v4[i].seen \in Identity!Sealed /\ v4[i].seen.there /\ v4[i].pin \in One \cup {NoOne}
  BY <1>1 DEF Identity!CallRecord
<1>3. Identity!Updated(i) \in Identity!Sealed
  BY <1>1, <1>2, PinIsSealed DEF Identity!Updated
<1> QED
  BY <1>2, <1>3 DEF Identity!Record

LEMMA PutSealed ==
  ASSUME NEW f \in [Identity!Stores -> [{"swir"} \cup One -> Identity!Sealed]],
         NEW id \in {"swir"} \cup One, NEW u \in Identity!Sealed,
         NEW rows \in [{"swir"} \cup One -> Identity!Sealed]
  PROVE  /\ [f EXCEPT !["database"][id] = u] \in [Identity!Stores -> [{"swir"} \cup One -> Identity!Sealed]]
         /\ [f EXCEPT !["list"] = [rows EXCEPT ![id] = u]]
              \in [Identity!Stores -> [{"swir"} \cup One -> Identity!Sealed]]
  BY DEF Identity!Stores

LEMMA StoresHold ==
  Identity!IdentityInv => /\ v2[Identity!Now] \in [{"swir"} \cup One -> Identity!Sealed]
                          /\ v2["list"] \in [{"swir"} \cup One -> Identity!Sealed]
  BY DEF Identity!IdentityInv, Identity!Now, Identity!Stores

LEMMA CallGets ==
  ASSUME Identity!IdentityInv, NEW i \in DOMAIN v4, Identity!Get(i)
  PROVE  Identity!IdentityInv'
<1> DEFINE u == v2[Identity!Now][v4[i].id]
<1>1. v4[i] \in Identity!CallRecord
  BY DEF Identity!IdentityInv
<1>2. u \in Identity!Sealed
  BY <1>1, StoresHold DEF Identity!CallRecord
<1>3. PICK at \in {"done", "active", "put"} :
        /\ at = "put" => u.there
        /\ v4' = [v4 EXCEPT ![i].seen = u, ![i].at = at]
  <2> DEFINE refused == v4[i].op = "authenticate" /\ u.hash # <<>> /\ u.hash # Identity!Hash(u.salt, v4[i].pin)
             at == IF ~ u.there \/ refused THEN "done"
                   ELSE IF v4[i].op = "setActive" THEN "active" ELSE "put"
  <2>1. v4' = [v4 EXCEPT ![i].seen = u, ![i].at = at]
    BY DEF Identity!Get
  <2>2. at \in {"done", "active", "put"} /\ (at = "put" => u.there)
    OBVIOUS
  <2> HIDE DEF u, at
  <2> QED
    BY <2>1, <2>2
<1>4. at \in Identity!Place /\ (at \in {"put", "fallback"} => u.there)
  BY SMTT(40), <1>3 DEF Identity!Place
<1> DEFINE c == [v4[i] EXCEPT !.seen = u, !.at = at]
<1>5. v2' = v2 /\ v4' = [v4 EXCEPT ![i] = c]
  BY ZenonT(30), <1>3 DEF Identity!Get
<1> HIDE DEF u
<1>7. c \in Identity!CallRecord
  BY <1>1, <1>2, <1>4, SeenMoves
<1> HIDE DEF c
<1> QED
  BY <1>5, <1>7, CallMoves DEF Identity!IdentityInv

LEMMA CallPuts ==
  ASSUME Identity!IdentityInv, NEW i \in DOMAIN v4,
         Identity!Put(i) \/ Identity!SaveUserFallback(i)
  PROVE  Identity!IdentityInv'
<1>1. v4[i].at \in {"put", "fallback"}
  BY DEF Identity!Put, Identity!SaveUserFallback, Identity!At
<1>2. v4[i] \in Identity!CallRecord /\ i \in Nat
  BY DEF Identity!IdentityInv
<1>3. /\ v4[i].id \in {"swir"} \cup One /\ v4[i].seen.there
      /\ v4[i].rows \in [{"swir"} \cup One -> Identity!Sealed]
  BY <1>1, <1>2 DEF Identity!CallRecord
<1>4. v2 \in [Identity!Stores -> [{"swir"} \cup One -> Identity!Sealed]]
  BY DEF Identity!IdentityInv
<1>5. Identity!Record(i) \in Identity!Sealed
  BY <1>1, RecordIsSealed
<1>6. Identity!AfterPut(i) \in Identity!Place \ {"put", "fallback"}
  BY DEF Identity!AfterPut, Identity!Place
<1>7. CASE /\ v2' = [v2 EXCEPT !["database"][v4[i].id] = Identity!Record(i)]
           /\ Identity!Moves(i, Identity!AfterPut(i))
  <2>1. v2' \in [Identity!Stores -> [{"swir"} \cup One -> Identity!Sealed]]
    BY <1>3, <1>4, <1>5, <1>7, PutSealed
  <2> QED
    BY <1>6, <1>7, <2>1, CallGoesOn DEF Identity!Moves
<1>8. CASE /\ v4' = [v4 EXCEPT ![i].at = "fallback", ![i].rows = v2["list"]]
           /\ v2' = v2
  <2> DEFINE c == [v4[i] EXCEPT !.at = "fallback", !.rows = v2["list"]]
  <2>1. "fallback" \in Identity!Place
    BY DEF Identity!Place
  <2>2. c \in Identity!CallRecord
    BY <1>2, <1>3, <2>1, StoresHold, RowsMove
  <2>3. v4' = [v4 EXCEPT ![i] = c]
    BY <1>8
  <2> HIDE DEF c
  <2> QED
    BY <1>4, <1>8, <2>2, <2>3, CallMoves
<1>9. CASE /\ v2' = [v2 EXCEPT !["list"] = [v4[i].rows EXCEPT ![v4[i].id] = Identity!Record(i)]]
           /\ Identity!Moves(i, Identity!AfterPut(i))
  <2>1. v2' \in [Identity!Stores -> [{"swir"} \cup One -> Identity!Sealed]]
    BY <1>3, <1>4, <1>5, <1>9, PutSealed
  <2> QED
    BY <1>6, <1>9, <2>1, CallGoesOn DEF Identity!Moves
<1> QED
  BY <1>7, <1>8, <1>9 DEF Identity!Put, Identity!SaveUserFallback

LEMMA CallRemoves ==
  ASSUME Identity!IdentityInv, NEW i \in DOMAIN v4, Identity!List(i) \/ Identity!Delete(i)
  PROVE  Identity!IdentityInv'
<1>1. v4[i] \in Identity!CallRecord
  BY DEF Identity!IdentityInv
<1>2. /\ v4[i].id \in {"swir"} \cup One
      /\ v4[i].rows \in [{"swir"} \cup One -> Identity!Sealed]
  BY <1>1 DEF Identity!CallRecord
<1>3. v2 \in [Identity!Stores -> [{"swir"} \cup One -> Identity!Sealed]]
  BY DEF Identity!IdentityInv
<1>4. CASE Identity!List(i)
  <2>1. PICK a \in Identity!Place \ {"put", "fallback"} :
          v4' = [v4 EXCEPT ![i].at = a, ![i].rows = v2[Identity!Now]]
    <3>1. CASE Identity!LastProfile
      BY <1>4, <3>1 DEF Identity!List, Identity!Place
    <3>2. CASE ~ Identity!LastProfile
      BY <1>4, <3>2 DEF Identity!List, Identity!Place
    <3> QED
      BY <3>1, <3>2
  <2> DEFINE c == [v4[i] EXCEPT !.at = a, !.rows = v2[Identity!Now]]
  <2>2. v2' = v2
    BY <1>4 DEF Identity!List
  <2>4. v4' = [v4 EXCEPT ![i] = c]
    BY <2>1
  <2>3. c \in Identity!CallRecord
    BY <1>1, <2>1, StoresHold, RowsMove
  <2> HIDE DEF c
  <2> QED
    BY <1>3, <2>2, <2>3, <2>4, CallMoves
<1>5. CASE Identity!Delete(i)
  <2>1. v2' \in [Identity!Stores -> [{"swir"} \cup One -> Identity!Sealed]]
    BY <1>2, <1>3, <1>5, PutSealed, OpenIsSealed DEF Identity!Delete
  <2>2. "moves" \in Identity!Place \ {"put", "fallback"}
    BY DEF Identity!Place
  <2> QED
    BY <1>5, <2>1, <2>2, CallGoesOn DEF Identity!Delete, Identity!Moves
<1> QED
  BY <1>4, <1>5

LEMMA CallEnds ==
  ASSUME Identity!IdentityInv, NEW i \in DOMAIN v4,
         \/ Identity!MovesActive(i) \/ Identity!Again(i) \/ Identity!SetsActive(i)
         \/ Identity!Settings(i) \/ Identity!EnsureDefault(i)
  PROVE  Identity!IdentityInv'
<1>1. v4[i] \in Identity!CallRecord
  BY SMTT(40) DEF Identity!IdentityInv
<1>2. v2' = v2 /\ v2 \in [Identity!Stores -> [{"swir"} \cup One -> Identity!Sealed]]
  BY ZenonT(30) DEF Identity!IdentityInv, Identity!MovesActive, Identity!Again, Identity!SetsActive,
         Identity!Settings, Identity!EnsureDefault
<1>3. CASE \E at \in {"done", "active", "settings"} : v4' = [v4 EXCEPT ![i].at = at]
  <2>1. PICK at \in {"done", "active", "settings"} : v4' = [v4 EXCEPT ![i].at = at]
    BY <1>3
  <2>2. at \in Identity!Place \ {"put", "fallback"}
    BY DEF Identity!Place
  <2> QED
    BY <1>2, <2>1, <2>2, CallGoesOn
<1>4. CASE \E id \in {"swir"} \cup One :
             v4' = [v4 EXCEPT ![i].op = "setActive", ![i].id = id, ![i].at = "get"]
  <2>1. PICK id \in {"swir"} \cup One :
          v4' = [v4 EXCEPT ![i].op = "setActive", ![i].id = id, ![i].at = "get"]
    BY <1>4
  <2> DEFINE c == [v4[i] EXCEPT !.op = "setActive", !.id = id, !.at = "get"]
  <2>2. v4' = [v4 EXCEPT ![i] = c]
    BY <2>1
  <2>3. /\ c \in [op : Identity!Operation, id : {"swir"} \cup One, pin : One \cup {NoOne},
                  at : Identity!Place, seen : Identity!Sealed,
                  rows : [{"swir"} \cup One -> Identity!Sealed]]
        /\ c.at = "get"
    BY <1>1 DEF Identity!CallRecord, Identity!Operation, Identity!Place
  <2> HIDE DEF c
  <2>4. c \in Identity!CallRecord
    BY <2>3 DEF Identity!CallRecord
  <2> QED
    BY <1>2, <2>2, <2>4, CallMoves
<1>5. CASE v4' = [v4 EXCEPT ![i].at = "put", ![i].seen = Identity!Open]
  <2> DEFINE u == Identity!Open
             c == [v4[i] EXCEPT !.seen = u, !.at = "put"]
  <2>1. u \in Identity!Sealed /\ u.there /\ "put" \in Identity!Place
    BY OpenIsSealed DEF Identity!Open, Identity!Place
  <2>2. v4' = [v4 EXCEPT ![i] = c]
    BY <1>5
  <2> HIDE DEF u
  <2>3. c \in Identity!CallRecord
    BY <1>1, <2>1, SeenMoves
  <2> HIDE DEF c
  <2> QED
    BY <1>2, <2>2, <2>3, CallMoves
<1>6. CASE Identity!MovesActive(i)
  BY ZenonT(30), <1>3, <1>4, <1>6 DEF Identity!MovesActive, Identity!Moves
<1>7. CASE Identity!Again(i)
  BY <1>3, <1>7 DEF Identity!Again, Identity!Moves
<1>8. CASE Identity!SetsActive(i)
  BY <1>3, <1>8 DEF Identity!SetsActive, Identity!Moves
<1>9. CASE Identity!Settings(i)
  BY <1>3, <1>9 DEF Identity!Settings, Identity!Moves
<1>10. CASE Identity!EnsureDefault(i)
  BY <1>3, <1>5, <1>10 DEF Identity!EnsureDefault, Identity!Moves
<1> QED
  BY <1>6, <1>7, <1>8, <1>9, <1>10

LEMMA PageReloads ==
  ASSUME Identity!IdentityInv, Identity!Reload
  PROVE  Identity!IdentityInv'
<1> DEFINE first == [op |-> "boot", id |-> "swir", pin |-> NoOne, at |-> "list",
                     seen |-> Identity!NoUser, rows |-> Identity!Empty]
           gone(i) == [v4[i] EXCEPT !.op = "gone", !.at = "done"]
           old == [i \in DOMAIN v4 |-> gone(i)]
<1>1. first \in Identity!CallRecord
  BY BootIsCall
<1>2. v4' = Append(old, first) /\ v2' = v2
  BY DEF Identity!Reload
<1>3. ASSUME NEW i \in DOMAIN v4
      PROVE  gone(i) \in Identity!CallRecord
  <2>1. v4[i] \in Identity!CallRecord
    BY DEF Identity!IdentityInv
  <2>2. /\ gone(i) \in [op : Identity!Operation, id : {"swir"} \cup One, pin : One \cup {NoOne},
                        at : Identity!Place, seen : Identity!Sealed,
                        rows : [{"swir"} \cup One -> Identity!Sealed]]
        /\ gone(i).at = "done"
    BY <2>1 DEF Identity!CallRecord, Identity!Operation, Identity!Place
  <2> HIDE DEF gone
  <2> QED
    BY <2>2 DEF Identity!CallRecord
<1>4. v4 \in Seq(Identity!CallRecord)
  BY DEF Identity!IdentityInv
<1> HIDE DEF gone
<1>5. DOMAIN v4 = 1 .. Len(v4) /\ Len(v4) \in Nat
  BY <1>4
<1>6. old \in [1 .. Len(v4) -> Identity!CallRecord]
  BY <1>3, <1>5
<1> HIDE DEF first, old
<1>7. old \in Seq(Identity!CallRecord)
  BY <1>5, <1>6
<1>8. v4' \in Seq(Identity!CallRecord)
  BY <1>1, <1>2, <1>7
<1> QED
  BY <1>2, <1>8 DEF Identity!IdentityInv

LEMMA IdentityKeeps ==
  ASSUME Identity!IdentityInv, Identity!IdentityNext
  PROVE  Identity!IdentityInv'
<1>1. CASE Identity!Turns
  BY <1>1 DEF Identity!Turns, Identity!IdentityInv
<1> QED
  BY <1>1, CallMade, CallGets, CallPuts, CallRemoves, CallEnds, PageReloads
     DEF Identity!IdentityNext

LEMMA IdentityStutters ==
  ASSUME Identity!IdentityInv, UNCHANGED <<v1, v2, v3, v4, v5, v6, v7>>
  PROVE  Identity!IdentityInv'
  BY DEF Identity!IdentityInv

LEMMA PinsAreOfTheirSalt == Identity!IdentityInv => Identity!PinOfItsSalt
  BY DEF Identity!IdentityInv, Identity!PinOfItsSalt, Identity!Sealed

-------------------------------------------------------------------------------
\* For any two operations, permissions, calls and failures, an undisturbed operation that
\* reports its end has changed a package and its permissions, or neither, and one that was cut
\* off between them has left a record (which rollback may refuse); and no profile is stored
\* whose hash was made with another salt than the one beside it.
THEOREM WhatBelongsTogetherChangesTogether ==
  Spec => []ChangedTogether
<1> DEFINE Inv == /\ focus = "packages" => Packages!PackagesInv
                  /\ focus = "identity" => Identity!IdentityInv
<1>1. Init => Inv
  BY PackagesInitial, IdentityInitial DEF Init
<1>2. Inv /\ [Next]_slots => Inv'
  <2> SUFFICES ASSUME Inv, [Next]_slots
               PROVE  Inv'
    OBVIOUS
  <2>1. CASE focus = "packages" /\ Packages!Next /\ focus' = focus
    BY <2>1, PackagesKeep
  <2>2. CASE focus = "identity" /\ Identity!IdentityNext /\ focus' = focus
    BY <2>2, IdentityKeeps
  <2>3. CASE focus \notin {"packages", "identity"} /\ focus' = focus
    BY <2>3
  <2>4. CASE UNCHANGED slots
    <3>1. UNCHANGED <<focus, v1, v2, v3, v4, v5, v6, v7, v8, v9, v10, v11>>
      BY <2>4 DEF slots
    <3> QED
      BY <3>1, PackagesStutter, IdentityStutters
  <2> QED
    BY <2>1, <2>2, <2>3, <2>4 DEF Next
<1>3. Inv => ChangedTogether
  BY MutationIsOne, PinsAreOfTheirSalt DEF ChangedTogether
<1> QED
  BY <1>1, <1>2, <1>3, PTL DEF Spec

-------------------------------------------------------------------------------
(* The windows, and the update policy that opens one of them.                *)

LEMMA WithoutOne ==
  ASSUME NEW W, NEW s \in Seq(W), NEW w
  PROVE  /\ Shell!Without(s, w) \in Seq(W)
         /\ Shell!Without(s, w) = <<>> => Shell!ToSet(s) \subseteq {w}
<1>1. CASE w \notin Shell!ToSet(s)
  BY <1>1 DEF Shell!Without, Shell!ToSet
<1>2. CASE w \in Shell!ToSet(s)
  <2>1. PICK i \in DOMAIN s : s[i] = w /\ i = CHOOSE j \in DOMAIN s : s[j] = w
    BY <1>2 DEF Shell!ToSet
  <2>2. Shell!Without(s, w) = SubSeq(s, 1, i - 1) \o SubSeq(s, i + 1, Len(s))
    BY <1>2, <2>1 DEF Shell!Without, Shell!RemoveAt
  <2>3. Len(s) \in Nat /\ DOMAIN s = 1 .. Len(s) /\ \A j \in 1 .. Len(s) : s[j] \in W
    OBVIOUS
  <2>4. SubSeq(s, 1, i - 1) \in Seq(W) /\ Len(SubSeq(s, 1, i - 1)) = i - 1
    BY <2>3
  <2>5. SubSeq(s, i + 1, Len(s)) \in Seq(W) /\ Len(SubSeq(s, i + 1, Len(s))) = Len(s) - i
    BY <2>3
  <2>9. i \in 1 .. Len(s) /\ s[i] = w
    BY <2>1, <2>3
  <2>10. Len(s) \in Nat
    BY <2>3
  <2> DEFINE a == SubSeq(s, 1, i - 1)
             b == SubSeq(s, i + 1, Len(s))
  <2> HIDE DEF a, b
  <2>6. a \o b \in Seq(W) /\ Len(a \o b) = Len(a) + Len(b)
    BY <2>4, <2>5 DEF a, b
  <2>7. Shell!Without(s, w) \in Seq(W) /\ Len(Shell!Without(s, w)) = Len(s) - 1
    <3>1. Shell!Without(s, w) = a \o b /\ Len(a) = i - 1 /\ Len(b) = Len(s) - i
      BY <2>2, <2>4, <2>5 DEF a, b
    <3> QED
      BY <2>6, <2>9, <2>10, <3>1
  <2>8. ASSUME Shell!Without(s, w) = <<>>
        PROVE  Shell!ToSet(s) \subseteq {w}
    <3>1. Len(Shell!Without(s, w)) = 0
      BY <2>8
    <3>2. Len(s) = 1 /\ i = 1
      BY <2>7, <2>9, <2>10, <3>1
    <3> QED
      BY <2>3, <2>9, <3>2 DEF Shell!ToSet
  <2> QED
    BY <2>7, <2>8
<1> QED
  BY <1>1, <1>2

\* The two instances of the window manager are about the same slots.
LEMMA SameWindows ==
  /\ Policy!HighlightIsFront <=> Shell!HighlightIsFront
  /\ \A w : /\ Policy!OpenApp(w) <=> Shell!OpenApp(w)
            /\ Policy!Minimize(w) <=> Shell!Minimize(w)
            /\ Policy!CloseWindow(w) <=> Shell!CloseWindow(w)
            /\ Policy!TerminalCommand(w) <=> Shell!TerminalCommand(w)
            /\ Policy!TaskClick(w) <=> Shell!TaskClick(w)
            /\ Policy!Press(w) <=> Shell!Press(w)
            /\ Policy!Maximize(w) <=> Shell!Maximize(w)
            /\ Policy!DoubleClickTitle(w) <=> Shell!DoubleClickTitle(w)
<1>1. Policy!HighlightIsFront <=> Shell!HighlightIsFront
  BY DEF Policy!HighlightIsFront, Shell!HighlightIsFront, Policy!Opened, Shell!Opened,
         Policy!ToSet, Shell!ToSet, Policy!Topmost, Shell!Topmost, Policy!Last, Shell!Last
<1>2. ASSUME NEW s, NEW w
      PROVE  Policy!Without(s, w) = Shell!Without(s, w)
  BY DEF Policy!Without, Shell!Without, Policy!ToSet, Shell!ToSet, Policy!RemoveAt,
         Shell!RemoveAt
<1>3. Policy!Opened = Shell!Opened
  BY DEF Policy!Opened, Shell!Opened, Policy!ToSet, Shell!ToSet
<1>4. ASSUME NEW w, NEW ord, NEW stk, NEW min
      PROVE  Policy!FocusIn(w, ord, stk, min) <=> Shell!FocusIn(w, ord, stk, min)
  BY <1>2 DEF Policy!FocusIn, Shell!FocusIn
<1>5. ASSUME NEW w
      PROVE  /\ Policy!OpenApp(w) <=> Shell!OpenApp(w)
             /\ Policy!Minimize(w) <=> Shell!Minimize(w)
             /\ Policy!Press(w) <=> Shell!Press(w)
             /\ Policy!Maximize(w) <=> Shell!Maximize(w)
             /\ Policy!DoubleClickTitle(w) <=> Shell!DoubleClickTitle(w)
  BY <1>3, <1>4
  DEF Policy!OpenApp, Shell!OpenApp, Policy!CreateWindow, Shell!CreateWindow,
      Policy!Minimize, Shell!Minimize, Policy!Press, Shell!Press, Policy!Focus, Shell!Focus,
      Policy!Maximize, Shell!Maximize, Policy!DoubleClickTitle, Shell!DoubleClickTitle
<1>6. ASSUME NEW w
      PROVE  Policy!CloseWindow(w) <=> Shell!CloseWindow(w)
  <2>1. \A rest : Policy!FocusIn(Policy!Last(rest), rest, Policy!Without(v2, w), v3 \ {w})
                    <=> Shell!FocusIn(Shell!Last(rest), rest, Shell!Without(v2, w), v3 \ {w})
    BY <1>2, <1>4 DEF Policy!Last, Shell!Last
  <2>2. Policy!Without(v1, w) = Shell!Without(v1, w)
    BY <1>2
  <2> QED
    BY <1>3, <2>1, <2>2 DEF Policy!CloseWindow, Shell!CloseWindow
<1>7. ASSUME NEW w
      PROVE  /\ Policy!TerminalCommand(w) <=> Shell!TerminalCommand(w)
             /\ Policy!TaskClick(w) <=> Shell!TaskClick(w)
  BY <1>3, <1>4, <1>5
  DEF Policy!TerminalCommand, Shell!TerminalCommand, Policy!TaskClick, Shell!TaskClick,
      Policy!Focus, Shell!Focus
<1> QED
  BY <1>1, <1>5, <1>6, <1>7

LEMMA SameHighlight == Policy!HighlightIsFront' <=> Shell!HighlightIsFront'
  BY DEF Policy!HighlightIsFront, Shell!HighlightIsFront, Policy!Opened, Shell!Opened,
         Policy!ToSet, Shell!ToSet, Policy!Topmost, Shell!Topmost, Policy!Last, Shell!Last

LEMMA SameSteps ==
  /\ Policy!WindowStep <=> Shell!WindowStep
  /\ Policy!KillStep <=> Shell!KillStep
<1>1. Policy!Opened = Shell!Opened
  BY DEF Policy!Opened, Shell!Opened, Policy!ToSet, Shell!ToSet
<1> QED
  BY <1>1, SameWindows
  DEF Policy!WindowStep, Shell!WindowStep, Policy!KillStep, Shell!KillStep,
      Policy!Uncovered, Shell!Uncovered, Policy!paneVars, Shell!paneVars

\* Raising a window leaves one window in front, whatever was before.
LEMMA RaisedIsFront ==
  ASSUME NEW W, NEW w, NEW ord \in Seq(W), NEW stk \in Seq(W), NEW min,
         w \in Shell!ToSet(ord), Shell!FocusIn(w, ord, stk, min)
  PROVE  v1' \in Seq(W) /\ v2' \in Seq(W) /\ Shell!HighlightIsFront'
<1>1. w \in W
  BY DEF Shell!ToSet
<1>2. Shell!Without(stk, w) \in Seq(W)
  BY WithoutOne
<1> DEFINE s == Shell!Without(stk, w)
<1> HIDE DEF s
<1>3. Append(s, w) \in Seq(W) /\ Append(s, w)[Len(Append(s, w))] = w
  BY <1>1, <1>2 DEF s
<1>4. v1' = ord /\ v2' = Append(s, w) /\ v3' = min /\ v7' = w /\ v5' = {w} \ min /\ v6' = {w} \ min
  BY DEF Shell!FocusIn, s
<1>5. Shell!Topmost' = w
  BY <1>3, <1>4 DEF Shell!Topmost, Shell!Last
<1>6. Shell!Opened' = Shell!ToSet(ord)
  BY <1>4 DEF Shell!Opened, Shell!ToSet
<1> QED
  BY <1>3, <1>4, <1>5, <1>6 DEF Shell!HighlightIsFront

LEMMA WindowOpens ==
  ASSUME NEW W, v1 \in Seq(W), v2 \in Seq(W), Shell!HighlightIsFront, NEW w \in W,
         Shell!OpenApp(w)
  PROVE  v1' \in Seq(W) /\ v2' \in Seq(W) /\ Shell!HighlightIsFront'
<1>1. CASE w \in Shell!Opened
  BY <1>1, RaisedIsFront DEF Shell!OpenApp, Shell!Opened
<1>2. CASE w \notin Shell!Opened
  <2>1. Append(v1, w) \in Seq(W) /\ Append(v2, w) \in Seq(W) /\ w \in Shell!ToSet(Append(v1, w))
    BY DEF Shell!ToSet
  <2> QED
    BY <1>2, <2>1, RaisedIsFront DEF Shell!OpenApp, Shell!CreateWindow
<1> QED
  BY <1>1, <1>2

LEMMA WindowMinimizes ==
  ASSUME NEW W, v1 \in Seq(W), v2 \in Seq(W), Shell!HighlightIsFront, NEW w, Shell!Minimize(w)
  PROVE  v1' \in Seq(W) /\ v2' \in Seq(W) /\ Shell!HighlightIsFront'
<1>1. /\ v1' = v1 /\ v2' = v2 /\ v5' = v5 /\ v3' = v3 \cup {w} /\ v6' = v6 \ {w} /\ v7' = NoOne
  BY DEF Shell!Minimize
<1>2. Shell!Opened' = Shell!Opened /\ Shell!Topmost' = Shell!Topmost
  BY <1>1 DEF Shell!Opened, Shell!Topmost, Shell!ToSet, Shell!Last
<1> QED
  BY <1>1, <1>2 DEF Shell!HighlightIsFront

LEMMA WindowCloses ==
  ASSUME NEW W, v1 \in Seq(W), v2 \in Seq(W), Shell!HighlightIsFront, NEW w, Shell!CloseWindow(w)
  PROVE  v1' \in Seq(W) /\ v2' \in Seq(W) /\ Shell!HighlightIsFront'
<1> DEFINE rest == Shell!Without(v1, w)
           stk == Shell!Without(v2, w)
<1>1. rest \in Seq(W) /\ stk \in Seq(W) /\ (rest = <<>> => Shell!Opened \subseteq {w})
  BY WithoutOne DEF Shell!Opened
<1>2. CASE rest = <<>>
  <2>1. /\ v1' = <<>> /\ v2' = <<>> /\ v3' = {} /\ v5' = {} /\ v6' = {}
        /\ v7' = IF v7 = w THEN NoOne ELSE v7
    BY <1>2 DEF Shell!CloseWindow
  <2>2. v7' = NoOne
    BY <1>1, <1>2, <2>1 DEF Shell!HighlightIsFront
  <2> QED
    BY <2>1, <2>2 DEF Shell!HighlightIsFront
<1>3. CASE rest # <<>>
  <2>1. Shell!FocusIn(Shell!Last(rest), rest, stk, v3 \ {w})
    BY <1>3 DEF Shell!CloseWindow
  <2> HIDE DEF rest, stk
  <2>2. Shell!Last(rest) \in Shell!ToSet(rest)
    BY <1>1, <1>3 DEF Shell!Last, Shell!ToSet
  <2> QED
    BY <1>1, <2>1, <2>2, RaisedIsFront
<1> QED
  BY <1>2, <1>3

LEMMA WindowsStay ==
  ASSUME NEW W, v1 \in Seq(W), v2 \in Seq(W), Shell!HighlightIsFront,
         UNCHANGED <<v1, v2, v3, v5, v6, v7>>
  PROVE  v1' \in Seq(W) /\ v2' \in Seq(W) /\ Shell!HighlightIsFront'
  BY DEF Shell!HighlightIsFront, Shell!Opened, Shell!Topmost, Shell!ToSet, Shell!Last

LEMMA WindowsStep ==
  ASSUME NEW W, v1 \in Seq(W), v2 \in Seq(W), Shell!HighlightIsFront,
         Shell!WindowStep \/ Shell!KillStep
  PROVE  v1' \in Seq(W) /\ v2' \in Seq(W) /\ Shell!HighlightIsFront'
<1>1. ASSUME NEW w \in Shell!Opened, NEW min, Shell!FocusIn(w, v1, v2, min)
      PROVE  v1' \in Seq(W) /\ v2' \in Seq(W) /\ Shell!HighlightIsFront'
  BY <1>1, RaisedIsFront DEF Shell!Opened
<1>2. ASSUME NEW w \in Shell!Opened, Shell!TaskClick(w) \/ Shell!Press(w) \/ Shell!Maximize(w)
      PROVE  v1' \in Seq(W) /\ v2' \in Seq(W) /\ Shell!HighlightIsFront'
  BY <1>1, <1>2, WindowMinimizes
  DEF Shell!TaskClick, Shell!Press, Shell!Focus, Shell!Maximize
<1>3. ASSUME NEW w, Shell!DoubleClickTitle(w)
      PROVE  v1' \in Seq(W) /\ v2' \in Seq(W) /\ Shell!HighlightIsFront'
  BY <1>3, WindowsStay DEF Shell!DoubleClickTitle
<1> QED
  BY <1>2, <1>3, WindowMinimizes, WindowCloses DEF Shell!WindowStep, Shell!KillStep

LEMMA ShellInitial == Shell!ShellInit => Shell!ShellInv
  BY DEF Shell!ShellInit, Shell!ShellInv, Shell!HighlightIsFront

LEMMA ShellKeeps ==
  ASSUME Shell!ShellInv, Shell!ShellNext
  PROVE  Shell!ShellInv'
<1> DEFINE W == {"terminal"} \cup One
<1>1. v1 \in Seq(W) /\ v2 \in Seq(W) /\ Shell!HighlightIsFront
  BY DEF Shell!ShellInv
<1> HIDE DEF W
<1>2. v1' \in Seq(W) /\ v2' \in Seq(W) /\ Shell!HighlightIsFront'
  <2>1. CASE Shell!WindowStep \/ Shell!KillStep
    BY <1>1, <2>1, WindowsStep
  <2>2. CASE Shell!OpenStep
    BY <1>1, <2>2, WindowOpens DEF Shell!OpenStep, Shell!TerminalCommand, W
  <2>3. CASE UNCHANGED <<v1, v2, v3, v5, v6, v7>>
    BY <1>1, <2>3, WindowsStay
  <2>4. CASE \/ Shell!PaneStep \/ \E p \in {"notifications", "quick"} : Shell!TogglePanel(p)
             \/ Shell!Toast \/ Shell!ClearSignals \/ Shell!IconStep
    BY <2>3, <2>4
    DEF Shell!PaneStep, Shell!TogglePanel, Shell!Toast, Shell!ClearSignals, Shell!IconStep,
        Shell!winVars
  <2> QED
    BY <2>1, <2>2, <2>4 DEF Shell!ShellNext
<1> QED
  BY <1>2 DEF Shell!ShellInv, W

LEMMA ShellStutters ==
  ASSUME Shell!ShellInv, UNCHANGED <<v1, v2, v3, v5, v6, v7>>
  PROVE  Shell!ShellInv'
<1> DEFINE W == {"terminal"} \cup One
<1>1. v1 \in Seq(W) /\ v2 \in Seq(W) /\ Shell!HighlightIsFront
  BY DEF Shell!ShellInv
<1> HIDE DEF W
<1>2. v1' \in Seq(W) /\ v2' \in Seq(W) /\ Shell!HighlightIsFront'
  BY <1>1, WindowsStay
<1> QED
  BY <1>2 DEF Shell!ShellInv, W

LEMMA PolicyInitial == Policy!UpInit => Policy!UpInv
<1> SUFFICES ASSUME Policy!UpInit
             PROVE  Policy!UpInv
  OBVIOUS
<1>1. Policy!ShellInv
  BY DEF Policy!UpInit, Policy!ShellInit, Policy!ShellInv, Policy!HighlightIsFront
<1>2. Policy!RunFollows
  BY DEF Policy!UpInit, Policy!RunFollows, Policy!NoFrame, Policy!Modes
<1> QED
  BY <1>1, <1>2 DEF Policy!UpInv

LEMMA PolicyWindows ==
  ASSUME Policy!UpInv, Policy!UpNext
  PROVE  Policy!ShellInv'
<1> DEFINE W == {"updates"} \cup Beside
<1>1. v1 \in Seq(W) /\ v2 \in Seq(W) /\ Shell!HighlightIsFront
  BY SameWindows DEF Policy!UpInv, Policy!ShellInv
<1> HIDE DEF W
<1>2. v1' \in Seq(W) /\ v2' \in Seq(W) /\ Shell!HighlightIsFront'
  <2>1. CASE Policy!WindowStep \/ Policy!KillStep
    BY <1>1, <2>1, WindowsStep, SameSteps
  <2>2. CASE Policy!OpenStep \/ Policy!RequestStartupCheck
    <3>1. PICK w \in W : Policy!OpenApp(w) \/ Policy!TerminalCommand(w)
      BY <2>2 DEF Policy!OpenStep, Policy!RequestStartupCheck, Policy!Updates, W
    <3>2. Shell!OpenApp(w)
      BY <3>1, SameWindows DEF Shell!TerminalCommand
    <3> QED
      BY <1>1, <3>2, WindowOpens
  <2>3. CASE UNCHANGED <<v1, v2, v3, v5, v6, v7>>
    BY <1>1, <2>3, WindowsStay
  <2>4. CASE Policy!Settle
    BY <1>1, <2>3, <2>4, WindowMinimizes, SameWindows DEF Policy!Settle, Policy!winVars
  <2>5. CASE Policy!CloseHidden
    BY <1>1, <2>3, <2>5, WindowCloses, SameWindows DEF Policy!CloseHidden, Policy!winVars
  <2>6. CASE Policy!Reload
    BY <2>6 DEF Policy!Reload, Shell!HighlightIsFront
  <2>7. CASE Policy!UserStep
    BY <2>1, <2>2, <2>3, <2>7 DEF Policy!UserStep, Policy!winVars
  <2>8. CASE UNCHANGED Policy!shellVars
    BY <2>3, <2>8 DEF Policy!shellVars, Policy!winVars
  <2> QED
    BY <2>2, <2>4, <2>5, <2>6, <2>7, <2>8 DEF Policy!UpNext, Policy!FrameStep, Policy!ShellIdle
<1> QED
  BY <1>2, SameHighlight DEF Policy!ShellInv, W

\* The steps of the controller in the window.
LEMMA ControllerFollows ==
  ASSUME Policy!RunFollows, Policy!FrameStep
  PROVE  Policy!RunFollows'
<1> USE DEF Policy!RunFollows, Policy!Modes
<1>1. CASE Policy!FrameLoads
  BY <1>1 DEF Policy!FrameLoads
<1>2. CASE Policy!Claim
  <2>1. CASE v17 = NoOne
    BY <1>2, <2>1 DEF Policy!Claim
  <2>2. CASE v17 # NoOne
    <3>1. v17 \in {"automatic", "notify", "manual"} /\ v16 /\ v23.runs = 0 /\ v23.prepared = <<>>
      BY <2>2
    <3>2. /\ v20' = [v20 EXCEPT !.at = "status", !.mode = v17]
          /\ v23' = [v23 EXCEPT !.runs = v23.runs + 1]
          /\ v17' = NoOne
          /\ v15' = v15 /\ v16' = v16 /\ v22' = v22
      BY <1>2, <2>2 DEF Policy!Claim
    <3>3. /\ v23' \in [runs : {0, 1}, prepared : Seq({"automatic"})]
          /\ v23'.runs = 1 /\ v23'.prepared = <<>>
      BY <3>1, <3>2
    <3>4. /\ v20' \in [at : {"none", "loading", "ready", "idle", "status", "check", "reset",
                            "prepare", "wait"},
                       mode : {"automatic", "notify", "manual"} \cup {NoOne},
                       seen : {NoOne, "idle", "running", "ready", "failed"}]
          /\ v20'.at = "status"
      BY <3>1, <3>2
    <3> QED
      BY <3>1, <3>2, <3>3, <3>4
  <2> QED
    BY <2>1, <2>2
<1>3. CASE Policy!CommandFails
  BY <1>3 DEF Policy!CommandFails, Policy!Report
<1>4. CASE Policy!StatusAnswered
  BY <1>4 DEF Policy!StatusAnswered
<1>5. CASE Policy!CheckAnswered
  BY <1>5 DEF Policy!CheckAnswered, Policy!Report
<1>6. CASE Policy!ResetAnswered
  BY <1>6 DEF Policy!ResetAnswered
<1>7. CASE Policy!SendPrepare
  <2>1. /\ v20.mode = "automatic" /\ v23.prepared = <<>> /\ v23.runs = 1
        /\ v23' = [v23 EXCEPT !.prepared = Append(v23.prepared, "automatic")]
    BY <1>7 DEF Policy!SendPrepare
  <2>2. Append(<<>>, "automatic") \in Seq({"automatic"}) /\ Len(Append(<<>>, "automatic")) = 1
    OBVIOUS
  <2> DEFINE one == Append(<<>>, "automatic")
  <2> HIDE DEF one
  <2>3. v23' = [v23 EXCEPT !.prepared = one]
    BY <2>1 DEF one
  <2>4. one \in Seq({"automatic"}) /\ Len(one) = 1
    BY <2>2 DEF one
  <2>5. v23' \in [runs : {0, 1}, prepared : Seq({"automatic"})] /\ v23'.runs = 1
        /\ Len(v23'.prepared) = 1
    BY <2>1, <2>3, <2>4
  <2> QED
    BY <1>7, <2>5 DEF Policy!SendPrepare, Policy!Report
<1>8. CASE Policy!PreparationSeen
  BY <1>8 DEF Policy!PreparationSeen, Policy!Report
<1> QED
  BY <1>1, <1>2, <1>3, <1>4, <1>5, <1>6, <1>7, <1>8 DEF Policy!FrameStep

LEMMA RunsFollow ==
  ASSUME Policy!RunFollows, Policy!UpNext
  PROVE  Policy!RunFollows'
<1> USE DEF Policy!RunFollows, Policy!Modes
<1>1. CASE Policy!FrameStep
  BY <1>1, ControllerFollows
<1>2. CASE Policy!UserStep
  BY <1>2 DEF Policy!UserStep, Policy!NoFrame
<1>3. CASE \E m \in Policy!Modes : Policy!SetMode(m) /\ UNCHANGED <<v16, v17, v20, v22, v23>>
  BY <1>3 DEF Policy!SetMode
<1>4. CASE Policy!RequestStartupCheck
  BY <1>4 DEF Policy!RequestStartupCheck, Policy!NoFrame
<1>5. CASE Policy!Settle
  BY <1>5 DEF Policy!Settle
<1>6. CASE Policy!CloseHidden
  BY <1>6 DEF Policy!CloseHidden, Policy!NoFrame
<1>7. CASE Policy!HostStep
  BY <1>7 DEF Policy!HostStep
<1>8. CASE Policy!Reload
  BY <1>8 DEF Policy!Reload, Policy!NoFrame
<1> QED
  BY <1>1, <1>2, <1>3, <1>4, <1>5, <1>6, <1>7, <1>8 DEF Policy!UpNext

LEMMA PolicyKeeps ==
  ASSUME Policy!UpInv, Policy!UpNext
  PROVE  Policy!UpInv'
  BY PolicyWindows, RunsFollow DEF Policy!UpInv

LEMMA PolicyStutters ==
  ASSUME Policy!UpInv, UNCHANGED <<v1, v2, v3, v5, v6, v7, v15, v16, v17, v20, v22, v23>>
  PROVE  Policy!UpInv'
<1> DEFINE W == {"updates"} \cup Beside
<1>1. v1 \in Seq(W) /\ v2 \in Seq(W) /\ Shell!HighlightIsFront
  BY SameWindows DEF Policy!UpInv, Policy!ShellInv
<1> HIDE DEF W
<1>2. v1' \in Seq(W) /\ v2' \in Seq(W) /\ Shell!HighlightIsFront'
  BY <1>1, WindowsStay
<1> QED
  BY <1>2, SameHighlight DEF Policy!UpInv, Policy!ShellInv, Policy!RunFollows, W

LEMMA RunsOnce == Policy!RunFollows => Policy!OneStartupRun
<1> SUFFICES ASSUME Policy!RunFollows
             PROVE  Policy!OneStartupRun
  OBVIOUS
<1>1. v23.runs \in {0, 1} /\ v23.prepared \in Seq({"automatic"}) /\ Len(v23.prepared) <= 1
  BY DEF Policy!RunFollows
<1>2. \A i \in 1 .. Len(v23.prepared) : v23.prepared[i] \in {"automatic"}
  BY <1>1
<1> QED
  BY <1>1, <1>2 DEF Policy!OneStartupRun

-------------------------------------------------------------------------------
\* For any windows and shortcuts and any number of signals and reloads, the task bar, the frames
\* and the order of the windows agree, and a session makes one startup run, by the policy of its
\* request.
THEOREM DesktopStaysConsistent ==
  Spec => []DesktopConsistent
<1> DEFINE Inv == /\ focus = "shell" => Shell!ShellInv
                  /\ focus = "policy" => Policy!UpInv
<1>1. Init => Inv
  BY ShellInitial, PolicyInitial DEF Init
<1>2. Inv /\ [Next]_slots => Inv'
  <2> SUFFICES ASSUME Inv, [Next]_slots
               PROVE  Inv'
    OBVIOUS
  <2>1. CASE focus = "shell" /\ Shell!ShellNext /\ focus' = focus
    BY <2>1, ShellKeeps
  <2>2. CASE focus = "policy" /\ Policy!UpNext /\ focus' = focus
    BY <2>2, PolicyKeeps
  <2>3. CASE focus \notin {"shell", "policy"} /\ focus' = focus
    BY <2>3
  <2>4. CASE UNCHANGED slots
    <3>1. UNCHANGED <<focus, v1, v2, v3, v5, v6, v7, v15, v16, v17, v20, v22, v23>>
      BY <2>4 DEF slots, Over19
    <3> QED
      BY <3>1, ShellStutters, PolicyStutters
  <2> QED
    BY <2>1, <2>2, <2>3, <2>4 DEF Next
<1>3. Inv => DesktopConsistent
  BY RunsOnce DEF DesktopConsistent, Shell!ShellInv, Policy!UpInv, Policy!ShellInv
<1> QED
  BY <1>1, <1>2, <1>3, PTL DEF Spec

--------------------------------------------------------------------------------
(* The app bridge and the files an app is opened with.                       *)

LEMMA BridgeInitial == Bridge!BridgeInit => Bridge!BridgeInv
<1> SUFFICES ASSUME Bridge!BridgeInit
             PROVE  Bridge!BridgeInv
  OBVIOUS
<1>1. v19 \in [user : Nat, lost : BOOLEAN]
  BY DEF Bridge!BridgeInit
<1>2. Bridge!BridgeType
  BY <1>1 DEF Bridge!BridgeInit, Bridge!BridgeType, Bridge!Value
<1>3. Bridge!OneCallPerId
  BY DEF Bridge!BridgeInit, Bridge!OneCallPerId, Bridge!AnswerIsOwn
<1>4. Bridge!AskedOnce
  BY DEF Bridge!BridgeInit, Bridge!AskedOnce
<1>5. Bridge!FileOnItsWay
  BY DEF Bridge!BridgeInit, Bridge!FileOnItsWay
<1> QED
  BY <1>2, <1>3, <1>4, <1>5 DEF Bridge!BridgeInv

\* A call of the app, and the question of its document.
LEMMA CallsKeep ==
  ASSUME Bridge!BridgeInv, Bridge!Ready \/ (\E k \in Bridge!Kinds \ {"consume"} : Bridge!Call(k))
  PROVE  Bridge!BridgeInv'
<1> USE DEF Bridge!BridgeInv
<1>1. PICK k \in Bridge!Kinds :
        /\ v1' = "ready" /\ v4' = v4 + 1 /\ v3' \in Nat \ {0} /\ v2' = v2
        /\ v6' = v6 \cup {[id |-> <<v2, v3'>>, call |-> v4 + 1, kind |-> k,
                               at |-> "check", value |-> NoOne]}
        /\ v5' \subseteq v5 \cup {[id |-> <<v2, v3'>>, call |-> v4 + 1]}
        /\ UNCHANGED <<v7, v9, v10, Bridge!openVars, v19>>
        /\ \/ v1 = "ready" /\ v3' = v3 + 1 /\ k # "consume"
              /\ v5' = {p \in v5 : p.id # <<v2, v3'>>}
                            \cup {[id |-> <<v2, v3'>>, call |-> v4 + 1]}
           \/ v1 # "ready" /\ k = "consume"
              /\ v5' = {[id |-> <<v2, v3'>>, call |-> v4 + 1]}
  <2>1. CASE Bridge!Ready
    BY <2>1 DEF Bridge!Ready, Bridge!NewId, Bridge!Kinds, Bridge!BridgeType
  <2>2. ASSUME NEW k \in Bridge!Kinds \ {"consume"}, Bridge!Call(k)
        PROVE  \E j \in Bridge!Kinds :
                 /\ v1' = "ready" /\ v4' = v4 + 1 /\ v3' \in Nat \ {0} /\ v2' = v2
                 /\ v6' = v6 \cup {[id |-> <<v2, v3'>>, call |-> v4 + 1, kind |-> j,
                                        at |-> "check", value |-> NoOne]}
                 /\ v5' \subseteq v5 \cup {[id |-> <<v2, v3'>>, call |-> v4 + 1]}
                 /\ UNCHANGED <<v7, v9, v10, Bridge!openVars, v19>>
                 /\ v1 = "ready" /\ v3' = v3 + 1 /\ j # "consume"
                 /\ v5' = {p \in v5 : p.id # <<v2, v3'>>}
                               \cup {[id |-> <<v2, v3'>>, call |-> v4 + 1]}
    BY <2>2 DEF Bridge!Call, Bridge!NewId, Bridge!BridgeType
  <2> QED
    BY <2>1, <2>2
<1> DEFINE new == [id |-> <<v2, v3'>>, call |-> v4 + 1, kind |-> k,
                   at |-> "check", value |-> NoOne]
           own == [id |-> <<v2, v3'>>, call |-> v4 + 1]
<1>2. /\ new \in [id : Int \X Nat, call : Nat, kind : Bridge!Kinds, at : Bridge!Where, value : Bridge!Value]
      /\ own \in [id : Nat \X Nat, call : Nat]
  <2>1. <<v2, v3'>> \in Nat \X Nat /\ <<v2, v3'>> \in Int \X Nat /\ v4 + 1 \in Nat
    BY <1>1 DEF Bridge!BridgeType
  <2>2. "check" \in Bridge!Where /\ NoOne \in Bridge!Value
    BY DEF Bridge!Where, Bridge!Value
  <2> QED
    BY <2>1, <2>2
<1>3. Bridge!BridgeType'
  BY <1>1, <1>2 DEF Bridge!BridgeType, Bridge!openVars, Bridge!Asks
<1>4. \* the identifier is nobody else's
      /\ \A p \in v5 : p.id[2] # v3' /\ p.id # <<v2, v3'>>
      /\ \A h \in v6 : h.id # <<v2, v3'>>
      /\ <<v2, v3'>> # Bridge!NoId
  BY <1>1 DEF Bridge!OneCallPerId, Bridge!BridgeType, Bridge!NoId
<1>5. Bridge!OneCallPerId'
  BY <1>1, <1>4 DEF Bridge!OneCallPerId, Bridge!BridgeType, Bridge!AnswerIsOwn
<1>6. ASSUME ~v19.lost
      PROVE  Bridge!AskedOnce'
  <2>1. new \in v6' /\ new.id = <<v2, v3'>> /\ new.kind = k
        /\ \A h \in v6' : h \in v6 \/ h = new
    BY <1>1
  <2>2. own \in v5' /\ own.id = new.id /\ \A p \in v5 : p \in v5' \/ v1 # "ready"
    BY <1>1, <1>4
  <2>3. v1 # "ready" => v6 = {}
    BY <1>6 DEF Bridge!AskedOnce
  <2>4. \A h \in v6 : h.id # Bridge!NoId /\ h.id # new.id
                        /\ (Bridge!Asks(h) => \E p \in v5 : p.id = h.id)
    BY <1>4, <1>6 DEF Bridge!AskedOnce
  <2>5. \A h \in v6' : h.id # Bridge!NoId /\ (Bridge!Asks(h) => \E p \in v5' : p.id = h.id)
    BY <1>4, <2>1, <2>2, <2>3, <2>4
  <2>6. v1 = "ready" => ~Bridge!Asks(new)
    BY <1>1 DEF Bridge!Asks
  <2>7. \A g, h \in v6 : g.id = h.id \/ (Bridge!Asks(g) /\ Bridge!Asks(h)) => g = h
    BY <1>6 DEF Bridge!AskedOnce
  <2>8. \A g, h \in v6' : g.id = h.id \/ (Bridge!Asks(g) /\ Bridge!Asks(h)) => g = h
    BY <2>1, <2>3, <2>4, <2>6, <2>7
  <2> QED
    BY <1>1, <2>5, <2>8 DEF Bridge!AskedOnce, Bridge!Asks
<1>7. ASSUME ~v19.lost
      PROVE  Bridge!FileOnItsWay'
  <2>1. /\ new \in v6' /\ new.kind = k /\ new.at = "check"
        /\ \A h \in v6 : h \in v6'
        /\ \A h \in v6' : h \in v6 \/ h = new
    BY <1>1
  <2>2. CASE k = "consume"
    <3>1. v15' = v17' /\ v1' = "ready"
      BY <1>1, <1>7, <2>2 DEF Bridge!FileOnItsWay, Bridge!openVars
    <3> QED
      BY <2>1, <2>2, <3>1 DEF Bridge!FileOnItsWay, Bridge!Asks
  <2>3. CASE k # "consume"
    <3>1. v1 = "ready" /\ v1' = "ready" /\ ~Bridge!Asks(new)
      BY <1>1, <2>3 DEF Bridge!Asks
    <3>2. UNCHANGED <<v17, v18, v13, v14, v15>>
      BY <1>1 DEF Bridge!openVars
    <3> QED
      BY <1>7, <2>1, <3>1, <3>2 DEF Bridge!FileOnItsWay, Bridge!Asks
  <2> QED
    BY <2>2, <2>3
<1> QED
  BY <1>1, <1>3, <1>5, <1>6, <1>7

\* The clock, the window, the user's permissions and files.
LEMMA RestKeeps ==
  ASSUME Bridge!BridgeInv,
         \/ Bridge!Tick \/ Bridge!Drain \/ Bridge!Launch \/ Bridge!SetPermission
         \/ \E f \in Other :
              \/ Bridge!OpenFile(f) \/ Bridge!OpenEnds(f) \/ Bridge!Delivered(f)
              \/ Bridge!Activation(f) \/ Bridge!Claims(f)
  PROVE  Bridge!BridgeInv'
<1> USE DEF Bridge!BridgeInv, Bridge!appVars, Bridge!openVars, Bridge!User, Bridge!OpenBegins
<1>1. /\ UNCHANGED <<v3, v4, v5, v6, v7, v9, v10>>
      /\ v1' = v1 \/ (v1 # "ready" /\ v1' # "ready")
      /\ v2' \in Nat /\ v19'.lost = v19.lost
      /\ v19' \in [user : Nat, lost : BOOLEAN]
  BY DEF Bridge!Tick, Bridge!Drain, Bridge!Launch, Bridge!SetPermission, Bridge!OpenFile,
         Bridge!OpenEnds, Bridge!Delivered, Bridge!Activation, Bridge!Claims, Bridge!BridgeType
<1>2. v15' \in Bridge!Value /\ v16' \in Bridge!Value
  BY DEF Bridge!Value, Bridge!Tick, Bridge!Drain, Bridge!Launch, Bridge!SetPermission,
         Bridge!OpenFile, Bridge!OpenEnds, Bridge!Delivered, Bridge!Activation, Bridge!Claims,
         Bridge!BridgeType
<1>3. Bridge!BridgeType'
  BY <1>1, <1>2 DEF Bridge!BridgeType, Bridge!Asks
<1>4. Bridge!OneCallPerId'
  BY <1>1 DEF Bridge!OneCallPerId, Bridge!AnswerIsOwn
<1>5. Bridge!AskedOnce => Bridge!AskedOnce'
  BY <1>1 DEF Bridge!AskedOnce, Bridge!Asks
<1>6. /\ \/ v15' = v15 /\ v17' = v17
         \/ v15' = v17' /\ v17' \in v13'
      /\ v18 \subseteq v18'
      /\ \/ v13 \cup v14 \subseteq v13' \cup v14' \cup v18'
         \/ v1 # "ready"
  <2>1. CASE Bridge!Tick \/ Bridge!Drain \/ Bridge!Launch \/ Bridge!SetPermission
    BY <2>1 DEF Bridge!Tick, Bridge!Drain, Bridge!Launch, Bridge!SetPermission
  <2>2. CASE \E f \in Other : Bridge!OpenFile(f) \/ Bridge!Activation(f)
    BY <2>2 DEF Bridge!OpenFile, Bridge!Activation
  <2>3. CASE \E f \in Other : Bridge!OpenEnds(f)
    BY <2>3 DEF Bridge!OpenEnds
  <2>4. CASE \E f \in Other : Bridge!Delivered(f)
    BY <2>4 DEF Bridge!Delivered
  <2>5. CASE \E f \in Other : Bridge!Claims(f)
    BY <2>5 DEF Bridge!Claims
  <2> QED
    BY <2>1, <2>2, <2>3, <2>4, <2>5
<1>7. Bridge!FileOnItsWay => Bridge!FileOnItsWay'
  BY <1>1, <1>6 DEF Bridge!FileOnItsWay, Bridge!Asks
<1> QED
  BY <1>1, <1>3, <1>4, <1>5, <1>7

\* The app gives up a call, or its document goes.
LEMMA GivingUpKeeps ==
  ASSUME Bridge!BridgeInv, Bridge!Close \/ (\E p \in v5 : Bridge!TimesOut(p))
  PROVE  Bridge!BridgeInv'
<1> USE DEF Bridge!BridgeInv, Bridge!openVars
<1>1. v19' \in [user : Nat, lost : BOOLEAN] /\ v19'.lost
  <2>1. CASE Bridge!Close
    BY <2>1 DEF Bridge!Close, Bridge!BridgeType
  <2>2. CASE v19' = [v19 EXCEPT !.lost = TRUE]
    BY <2>2 DEF Bridge!BridgeType
  <2> QED
    BY <2>1, <2>2 DEF Bridge!TimesOut
<1>2. CASE Bridge!Close
  <2>1. \A h \in v6 : [h EXCEPT !.id = Bridge!NoId] =
          [id |-> Bridge!NoId, call |-> h.call, kind |-> h.kind, at |-> h.at, value |-> h.value]
    BY DEF Bridge!BridgeType
  <2>2. Bridge!NoId \in Int \X Nat
    BY DEF Bridge!NoId
  <2>3. \A h \in v6' :
          /\ h.id = Bridge!NoId
          /\ \E g \in v6 :
               h = [id |-> Bridge!NoId, call |-> g.call, kind |-> g.kind, at |-> g.at, value |-> g.value]
    BY <1>2, <2>1 DEF Bridge!Close
  <2>4. v6' \subseteq [id : Int \X Nat, call : Nat, kind : Bridge!Kinds, at : Bridge!Where, value : Bridge!Value]
    BY <2>2, <2>3 DEF Bridge!BridgeType
  <2>5. Bridge!BridgeType'
    BY <1>1, <1>2, <2>3, <2>4 DEF Bridge!Close, Bridge!BridgeType, Bridge!Asks
  <2>6. Bridge!OneCallPerId'
    BY <1>2, <2>3 DEF Bridge!Close, Bridge!OneCallPerId, Bridge!AnswerIsOwn
  <2> QED
    BY <1>1, <2>5, <2>6
<1>3. CASE \E p \in v5 : Bridge!TimesOut(p)
  <2>1. Bridge!BridgeType'
    BY <1>1, <1>3 DEF Bridge!TimesOut, Bridge!BridgeType, Bridge!Asks
  <2>2. Bridge!OneCallPerId'
    BY <1>3 DEF Bridge!TimesOut, Bridge!OneCallPerId, Bridge!AnswerIsOwn
  <2> QED
    BY <1>1, <2>1, <2>2
<1> QED
  BY <1>2, <1>3

\* The host's answer.
LEMMA AnswersKeep ==
  ASSUME Bridge!BridgeInv, NEW h \in v6, Bridge!Answer(h)
  PROVE  Bridge!BridgeInv'
<1> USE DEF Bridge!BridgeInv
<1>1. /\ v6' = v6 \ {h} /\ v5' = {p \in v5 : p.id # h.id}
      /\ UNCHANGED <<v1, v2, v3, v4, v9, v10, v13, v14, v15, v16, v17>>
      /\ v18 \subseteq v18'
      /\ h.at = "denied" => v19'.lost
      /\ h.at # "denied" => h.at = "answer" /\ v19' = v19
      /\ v19' \in [user : Nat, lost : BOOLEAN]
      /\ v19.lost => v19'.lost
  BY DEF Bridge!Answer, Bridge!BridgeType
<1>2. Bridge!BridgeType'
  BY <1>1 DEF Bridge!BridgeType, Bridge!Asks
<1>3. \A r \in v7' : r[1] = r[2]
  BY DEF Bridge!Answer, Bridge!OneCallPerId, Bridge!AnswerIsOwn
<1>4. Bridge!OneCallPerId'
  BY <1>1, <1>3 DEF Bridge!OneCallPerId, Bridge!AnswerIsOwn
<1>5. Bridge!AskedOnce => Bridge!AskedOnce'
  BY <1>1 DEF Bridge!AskedOnce, Bridge!Asks
<1>6. ASSUME Bridge!AskedOnce, h.at = "answer", Bridge!Asks(h), h.value # NoOne
      PROVE  h.value \in v18'
  BY <1>6 DEF Bridge!Answer, Bridge!AskedOnce, Bridge!Asks
<1>7. ASSUME Bridge!AskedOnce, Bridge!FileOnItsWay, h.at # "denied"
      PROVE  Bridge!FileOnItsWay'
  <2>1. \A g \in v6 : g # h => g \in v6'
    BY <1>1
  <2> QED
    BY <1>1, <1>6, <1>7, <2>1 DEF Bridge!FileOnItsWay, Bridge!Asks
<1> QED
  BY <1>1, <1>2, <1>4, <1>5, <1>7 DEF Bridge!BridgeType

\* The host works on a call.
LEMMA WorkKeeps ==
  ASSUME Bridge!BridgeInv, NEW h \in v6,
         \/ Bridge!Checked(h) \/ Bridge!Sets(h) \/ Bridge!Removes(h)
         \/ Bridge!GetsNative(h) \/ Bridge!GetsLegacy(h) \/ Bridge!Migrates(h)
         \/ Bridge!Consumes(h) \/ Bridge!LooksUp(h) \/ Bridge!ClearsSlot(h) \/ Bridge!ClearsStore(h)
  PROVE  Bridge!BridgeInv'
<1> USE DEF Bridge!BridgeInv, Bridge!HostOnly, Bridge!DataKept, Bridge!openVars
<1>1. PICK at \in Bridge!Where, value \in Bridge!Value :
        /\ Bridge!Becomes(h, at, value)
        /\ h.at \notin {"answer", "denied"} /\ at # "check"
        /\ at \in {"lookup", "found", "clear"} => Bridge!Asks(h)
        /\ at \in {"migrate", "migrated"} => ~Bridge!Asks(h)
        /\ Bridge!Asks(h) =>
             \/ h.at = "check" /\ at \in {"work", "denied"} /\ UNCHANGED v15
             \/ h.at = "work" /\ at = "clear" /\ value = v15 /\ v15' = NoOne
             \/ h.at = "work" /\ at = "lookup" /\ v15 = NoOne
             \/ h.at = "lookup" /\ at = "found"
             \/ h.at = "found" /\ at = "clear"
             \/ h.at = "clear" /\ at = "answer" /\ value = h.value
        /\ ~Bridge!Asks(h) => UNCHANGED v15
  <2>t. /\ h.kind \in Bridge!Kinds /\ h.at \in Bridge!Where /\ h.value \in Bridge!Value
        /\ h.at \in {"lookup", "found", "clear"} => Bridge!Asks(h)
        /\ h.at \in {"migrate", "migrated"} => ~Bridge!Asks(h)
        /\ {v9, v10, v15, v16, NoOne} \subseteq Bridge!Value
    BY DEF Bridge!BridgeType, Bridge!Value
  <2> USE DEF Bridge!Asks, Bridge!Where
  <2>1. CASE Bridge!Checked(h)
    BY <2>1, <2>t DEF Bridge!Checked
  <2>2. CASE Bridge!Sets(h) \/ Bridge!Removes(h)
    BY <2>2, <2>t DEF Bridge!Sets, Bridge!Removes
  <2>3. CASE Bridge!GetsNative(h)
    BY <2>3, <2>t DEF Bridge!GetsNative
  <2>4. CASE Bridge!GetsLegacy(h)
    BY <2>4, <2>t DEF Bridge!GetsLegacy
  <2>5. CASE Bridge!Migrates(h)
    BY <2>5, <2>t DEF Bridge!Migrates
  <2>6. CASE Bridge!Consumes(h)
    BY <2>6, <2>t DEF Bridge!Consumes
  <2>7. CASE Bridge!LooksUp(h)
    BY <2>7, <2>t DEF Bridge!LooksUp
  <2>8. CASE Bridge!ClearsSlot(h)
    BY <2>8, <2>t DEF Bridge!ClearsSlot
  <2>9. CASE Bridge!ClearsStore(h)
    BY <2>9, <2>t DEF Bridge!ClearsStore
  <2> QED
    BY <2>1, <2>2, <2>3, <2>4, <2>5, <2>6, <2>7, <2>8, <2>9
<1> DEFINE n == [h EXCEPT !.at = at, !.value = value]
<1>2. /\ n.id = h.id /\ n.call = h.call /\ n.kind = h.kind /\ n.at = at /\ n.value = value
      /\ n \in [id : Int \X Nat, call : Nat, kind : Bridge!Kinds, at : Bridge!Where, value : Bridge!Value]
      /\ v6' = (v6 \ {h}) \cup {n}
  <2>1. h \in [id : Int \X Nat, call : Nat, kind : Bridge!Kinds, at : Bridge!Where, value : Bridge!Value]
    BY DEF Bridge!BridgeType
  <2> QED
    BY <1>1, <2>1 DEF Bridge!Becomes
<1> HIDE DEF n
<1>3. /\ UNCHANGED <<v1, v2, v3, v4, v5, v7, v19>>
      /\ UNCHANGED <<v13, v14, v17, v18>>
      /\ {v9', v10', v15', v16'} \subseteq Bridge!Value
  BY DEF Bridge!Checked, Bridge!Sets, Bridge!Removes, Bridge!GetsNative, Bridge!GetsLegacy,
         Bridge!Migrates, Bridge!Consumes, Bridge!LooksUp, Bridge!ClearsSlot, Bridge!ClearsStore,
         Bridge!BridgeType, Bridge!Value
<1>4. Bridge!BridgeType'
  BY <1>1, <1>2, <1>3 DEF Bridge!BridgeType, Bridge!Asks
<1>5. Bridge!OneCallPerId'
  BY <1>2, <1>3 DEF Bridge!OneCallPerId, Bridge!AnswerIsOwn
<1>6. Bridge!AskedOnce => Bridge!AskedOnce'
  BY <1>2, <1>3 DEF Bridge!AskedOnce, Bridge!Asks
<1>7. ASSUME Bridge!AskedOnce, Bridge!FileOnItsWay
      PROVE  Bridge!FileOnItsWay'
  <2>1. \A g \in v6 : g # h => g \in v6'
    BY <1>2
  <2>2. v1 = "ready" /\ n \in v6' /\ (Bridge!Asks(h) <=> Bridge!Asks(n)) /\ n.at = at /\ n.value = value
    BY <1>2, <1>7 DEF Bridge!AskedOnce, Bridge!Asks
  <2>3. CASE ~Bridge!Asks(h)
    BY <1>1, <1>2, <1>3, <1>7, <2>1, <2>2, <2>3 DEF Bridge!FileOnItsWay
  <2>4. CASE Bridge!Asks(h)
    <3>1. \A g \in v6' : Bridge!Asks(g) => g = n
      BY <1>2, <1>7, <2>2, <2>4 DEF Bridge!AskedOnce
    <3> QED
      BY <1>1, <1>3, <1>7, <2>1, <2>2, <2>4, <3>1 DEF Bridge!FileOnItsWay
  <2> QED
    BY <2>3, <2>4
<1> QED
  BY <1>3, <1>4, <1>5, <1>6, <1>7

LEMMA BridgeKeeps ==
  ASSUME Bridge!BridgeInv, Bridge!BridgeNext
  PROVE  Bridge!BridgeInv'
  BY CallsKeep, RestKeeps, GivingUpKeeps, AnswersKeep, WorkKeeps DEF Bridge!BridgeNext

LEMMA BridgeSays ==
  ASSUME Bridge!BridgeInv
  PROVE  Bridge!AnswerIsOwn /\ Bridge!LastFileShown
  BY DEF Bridge!BridgeInv, Bridge!OneCallPerId, Bridge!LastFileShown, Bridge!Settled,
         Bridge!FileOnItsWay, Bridge!Asks

LEMMA BridgeStutter ==
  ASSUME Bridge!BridgeInv,
         UNCHANGED <<v1, v2, v3, v4, v5, v6, v7, v9, v10, v13, v14, v15, v16, v17, v18, v19>>
  PROVE  Bridge!BridgeInv'
  BY DEF Bridge!BridgeInv, Bridge!BridgeType, Bridge!OneCallPerId, Bridge!AskedOnce,
         Bridge!FileOnItsWay, Bridge!AnswerIsOwn, Bridge!Asks

\* For any calls, answers, time-outs, permissions, files and closings of the window: an app
\* takes an answer for the call it answers, and is shown the file it was opened with last.
THEOREM AppBridgeDoesKeep ==
  Spec => []AppBridgeKept
<1> DEFINE Inv == focus = "bridge" => Bridge!BridgeInv
<1>1. Init => Inv
  BY BridgeInitial DEF Init
<1>2. Inv /\ [Next]_slots => Inv'
  <2> SUFFICES ASSUME Inv, [Next]_slots
               PROVE  Inv'
    OBVIOUS
  <2>1. CASE focus = "bridge" /\ Bridge!BridgeNext /\ focus' = focus
    BY <2>1, BridgeKeeps
  <2>2. CASE focus # "bridge" /\ focus' = focus
    BY <2>2
  <2>3. CASE UNCHANGED slots
    BY <2>3, BridgeStutter DEF slots
  <2> QED
    BY <2>1, <2>2, <2>3 DEF Next
<1>3. Inv => AppBridgeKept
  BY BridgeSays DEF AppBridgeKept
<1> QED
  BY <1>1, <1>2, <1>3, PTL DEF Spec
===============================================================================
