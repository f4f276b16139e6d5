----------------------------- MODULE WebIdentity -----------------------------
(***************************************************************************)
(* The local profiles of the web shell: identity in swir-platform.js, the  *)
(* first setup of swir-oobe.js and the lock screen's use of it in          *)
(* swir-v14.js.                                                            *)
(*                                                                         *)
(* Every operation is a sequence of awaits (the database, the hash of a    *)
(* PIN), and the shell, the User Manager window and the setup call them    *)
(* without waiting for each other.  The database may fail at any step;     *)
(* then a list kept in the web storage stands in for it, read and written  *)
(* back whole.  The database works or fails as a whole at each step.       *)
(*                                                                         *)
(* A profile is its PIN: the salt drawn for it and the pair that stands    *)
(* for the hash of salt and PIN.  Names, roles and pictures are left out.  *)
(***************************************************************************)
EXTENDS Naturals, Sequences, FiniteSets

CONSTANTS Profile,    \* profile identifiers
          Default,    \* the one ensureDefault makes, 'swir'
          Pin,        \* PINs a user may type
          None,
          MaxCalls,   \* calls in a behaviour
          MaxFaults,  \* times the database stops or comes back
          MaxReload

IdentityAssumption ==
  /\ Default \in Profile /\ None \notin Profile \cup Pin
  /\ {MaxCalls, MaxFaults, MaxReload} \subseteq Nat

VARIABLES up,        \* the database answers
          users,     \* users[store][id]: a profile, or NoUser
          active,    \* active[store]: 'identity.activeId'
          calls,     \* the calls made, by number
          complete,  \* 'oobe.complete'
          faults, reloads

ivars == <<up, users, active, calls, complete, faults, reloads>>

Stores == {"database", "list"}
NoUser == [salt |-> 0, hash |-> <<>>, there |-> FALSE]
Open   == [salt |-> 0, hash |-> <<>>, there |-> TRUE]
Empty  == [id \in Profile |-> NoUser]
Now    == IF up THEN "database" ELSE "list"

\* identity.list and identity.get read whichever store answers.
Listed == {id \in Profile : users[Now][id].there}
LastProfile == Cardinality(Listed) <= 1

\* The salt of call i is its number: each draws its own.
Hash(salt, pin) == <<salt, pin>>

\* hashText over a fresh salt: what create and update store for a PIN; an
\* empty PIN leaves the profile open.
WithPin(record, i, pin) ==
  IF pin = None THEN [record EXCEPT !.salt = 0, !.hash = <<>>]
  ELSE [record EXCEPT !.salt = i, !.hash = Hash(i, pin)]

\* The write of update: the record read before the hash, with the new PIN.
Updated(i) == WithPin(calls[i].seen, i, calls[i].pin)

IdentityInit ==
  /\ up = TRUE /\ complete = FALSE
  /\ users = [s \in Stores |-> Empty] /\ active = [s \in Stores |-> None]
  /\ calls = <<[op |-> "boot", id |-> Default, pin |-> None, at |-> "list",
                seen |-> NoUser, rows |-> Empty]>>
  /\ faults = 0 /\ reloads = 0

At(i, op, at) == i \in DOMAIN calls /\ calls[i].op \in op /\ calls[i].at = at
Moves(i, at)  == calls' = [calls EXCEPT ![i].at = at]
Booted == \E i \in DOMAIN calls : calls[i].op = "boot" /\ calls[i].at = "done"

\* What a call waits for first: update, authenticate and setActive get the
\* profile, remove lists, create only hashes.
FirstStep(op) == CASE op \in {"update", "rename", "authenticate", "setActive", "setup"} -> "get"
                   [] op = "remove" -> "list"
                   [] op = "create" -> "put"

\* A call of the User Manager, of the lock screen, or of the first setup,
\* whose profile is the active one.  An update that brings no PIN is "rename".
Call(op, id, pin) ==
  /\ Booted /\ Len(calls) <= MaxCalls + reloads
  /\ op = "setup" => /\ ~ complete /\ id \in Listed
                     /\ active[Now] \in Listed => id = active[Now]
  /\ op \in {"remove", "setActive", "rename"} => pin = None
  /\ op = "create" => ~ users[Now][id].there
  /\ calls' = Append(calls,
       [op |-> op, id |-> id, pin |-> pin, at |-> FirstStep(op),
        seen |-> IF op = "create" THEN Open ELSE NoUser, rows |-> Empty])
  /\ UNCHANGED <<up, users, active, complete, faults, reloads>>

\* The profile is read.  A PIN that does not match ends an authenticate.
Get(i) ==
  /\ At(i, {"update", "rename", "setup", "authenticate", "setActive"}, "get")
  /\ LET u == users[Now][calls[i].id]
         refused == /\ calls[i].op = "authenticate" /\ u.hash # <<>>
                    /\ u.hash # Hash(u.salt, calls[i].pin)
     IN  calls' = [calls EXCEPT
           ![i].seen = u,
           ![i].at = IF ~ u.there \/ refused THEN "done"
                     ELSE IF calls[i].op = "setActive" THEN "active" ELSE "put"]
  /\ UNCHANGED <<up, users, active, complete, faults, reloads>>

\* What create, update and authenticate write: always a whole record, the
\* last of them, and an update without a PIN, the one it has read.
Record(i) == IF calls[i].op \in {"authenticate", "rename"} THEN calls[i].seen ELSE Updated(i)

AfterPut(i) == CASE calls[i].op \in {"authenticate", "boot"} -> "active"
                 [] calls[i].op = "setup" -> "again"
                 [] OTHER -> "done"

Put(i) ==
  /\ At(i, {"create", "update", "rename", "setup", "authenticate", "boot"}, "put")
  /\ IF up THEN /\ users' = [users EXCEPT !["database"][calls[i].id] = Record(i)]
                /\ Moves(i, AfterPut(i))
     ELSE /\ calls' = [calls EXCEPT ![i].at = "fallback", ![i].rows = users["list"]]
          /\ UNCHANGED users
  /\ UNCHANGED <<up, active, complete, faults, reloads>>

\* saveUserFallback: the list read before is written back with the record.
SaveUserFallback(i) ==
  /\ At(i, {"create", "update", "rename", "setup", "authenticate", "boot"}, "fallback")
  /\ users' = [users EXCEPT !["list"] =
                 [calls[i].rows EXCEPT ![calls[i].id] = Record(i)]]
  /\ Moves(i, AfterPut(i))
  /\ UNCHANGED <<up, active, complete, faults, reloads>>

\* remove counts the profiles, then deletes, then moves the active one.
List(i) ==
  /\ At(i, {"remove"}, "list")
  /\ calls' = [calls EXCEPT ![i].at = IF LastProfile THEN "done" ELSE "delete",
                            ![i].rows = users[Now]]
  /\ UNCHANGED <<up, users, active, complete, faults, reloads>>

Delete(i) ==
  /\ At(i, {"remove"}, "delete")
  /\ users' = IF up THEN [users EXCEPT !["database"][calls[i].id] = NoUser]
              ELSE [users EXCEPT !["list"] = [calls[i].rows EXCEPT ![calls[i].id] = NoUser]]
  /\ Moves(i, "moves")
  /\ UNCHANGED <<up, active, complete, faults, reloads>>

\* The next active profile is taken from the list counted at first, and
\* looked up again by setActive.
MovesActive(i) ==
  /\ At(i, {"remove"}, "moves")
  /\ IF active[Now] # calls[i].id THEN Moves(i, "done")
     ELSE \E id \in {x \in Profile \ {calls[i].id} : calls[i].rows[x].there} \cup {None} :
            /\ id = None <=> ~ \E x \in Profile \ {calls[i].id} : calls[i].rows[x].there
            /\ calls' = IF id = None THEN [calls EXCEPT ![i].at = "done"]
                        ELSE [calls EXCEPT ![i].op = "setActive", ![i].id = id,
                                           ![i].at = "get"]
  /\ UNCHANGED <<up, users, active, complete, faults, reloads>>

\* The setup's own setActive looks its profile up again.
Again(i) ==
  /\ At(i, {"setup"}, "again")
  /\ Moves(i, IF users[Now][calls[i].id].there THEN "active" ELSE "done")
  /\ UNCHANGED <<up, users, active, complete, faults, reloads>>

\* setActive, authenticate and boot write the active profile.
SetsActive(i) ==
  /\ At(i, {"setActive", "authenticate", "boot", "setup"}, "active")
  /\ active' = [active EXCEPT ![Now] = calls[i].id]
  /\ Moves(i, IF calls[i].op = "setup" THEN "settings" ELSE "done")
  /\ UNCHANGED <<up, users, complete, faults, reloads>>

\* The settings of the setup, the last of them 'oobe.complete'.
Settings(i) ==
  /\ At(i, {"setup"}, "settings")
  /\ complete' = TRUE /\ Moves(i, "done")
  /\ UNCHANGED <<up, users, active, faults, reloads>>

\* ensureDefault, when the page starts.
EnsureDefault(i) ==
  /\ At(i, {"boot"}, "list")
  /\ IF Listed = {}
     THEN /\ calls' = [calls EXCEPT ![i].at = "put", ![i].seen = Open]
          /\ UNCHANGED active
     ELSE /\ \/ active[Now] \in Listed /\ UNCHANGED active
             \/ /\ active[Now] \notin Listed
                /\ \E id \in Listed : active' = [active EXCEPT ![Now] = id]
          /\ Moves(i, "done")
  /\ UNCHANGED <<up, users, complete, faults, reloads>>

\* A reload ends every call and starts the page again.
Reload ==
  /\ reloads < MaxReload /\ reloads' = reloads + 1
  /\ calls' = Append([i \in DOMAIN calls |-> [calls[i] EXCEPT !.op = "gone", !.at = "done"]],
                     [op |-> "boot", id |-> Default, pin |-> None, at |-> "list",
                      seen |-> NoUser, rows |-> Empty])
  /\ UNCHANGED <<up, users, active, complete, faults>>

\* The database stops answering, or answers again.
Turns ==
  /\ faults < MaxFaults /\ faults' = faults + 1
  /\ up' = ~ up
  /\ UNCHANGED <<users, active, calls, complete, reloads>>

IdentityNext ==
  \/ \E op \in {"create", "update", "rename", "authenticate", "remove", "setActive", "setup"},
        id \in Profile, pin \in Pin \cup {None} : Call(op, id, pin)
  \/ \E i \in DOMAIN calls : Get(i)
  \/ \E i \in DOMAIN calls : Put(i)
  \/ \E i \in DOMAIN calls : SaveUserFallback(i)
  \/ \E i \in DOMAIN calls : List(i)
  \/ \E i \in DOMAIN calls : Delete(i)
  \/ \E i \in DOMAIN calls : MovesActive(i)
  \/ \E i \in DOMAIN calls : Again(i)
  \/ \E i \in DOMAIN calls : SetsActive(i)
  \/ \E i \in DOMAIN calls : Settings(i)
  \/ \E i \in DOMAIN calls : EnsureDefault(i)
  \/ Reload \/ Turns

IdentitySpec == IdentityInit /\ [][IdentityNext]_ivars

-----------------------------------------------------------------------------
\* However updates, logins and the fallback list interleave, a profile that
\* is stored can be entered with the PIN its last writer meant: its hash was
\* made with the salt stored beside it (swir-platform.js:318-322).
PinOfItsSalt ==
  \A s \in Stores, id \in Profile :
    LET u == users[s][id] IN u.hash # <<>> => u.there /\ u.hash[1] = u.salt

-----------------------------------------------------------------------------
\* A profile whose hash, when it has one, was made with its salt.
Sealed == {u \in [salt : Nat, hash : {<<>>} \cup (Nat \X Pin), there : BOOLEAN] :
             u.hash # <<>> => u.there /\ u.hash[1] = u.salt}

Operation == {"boot", "create", "update", "rename", "authenticate", "remove", "setActive", "setup",
              "gone"}
Place == {"get", "put", "fallback", "list", "delete", "moves", "again", "active",
          "settings", "done"}

\* What a call may hold: what it is about to write was there when it was read.
CallRecord ==
  {c \in [op : Operation, id : Profile, pin : Pin \cup {None}, at : Place,
          seen : Sealed, rows : [Profile -> Sealed]] :
     c.at \in {"put", "fallback"} => c.seen.there}

\* Every copy of a profile, stored or held by a call, is sealed.
IdentityInv ==
  /\ users \in [Stores -> [Profile -> Sealed]]
  /\ calls \in Seq(CallRecord)
=============================================================================
