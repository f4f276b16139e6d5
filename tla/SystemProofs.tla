----------------------------- MODULE SystemProofs ------------------------------
(***************************************************************************)
(* What holds of the services of the System edition for every value of the *)
(* constants of MCSystem: for any number of connections, grants, calls,    *)
(* profiles, applications, transactions and files, and any bound of the    *)
(* clock and of the sequences.  A behaviour is of one component, so every  *)
(* theorem rests on the invariants of the components its property names,   *)
(* each of behaviours of its own.                                          *)
(***************************************************************************)
EXTENDS MCSystem, Sequences, TLAPS

-------------------------------------------------------------------------------
(* The package broker: a grant pays once.                                    *)

\* Nothing has been issued or paid.
LEMMA BrokerInit ==
  ASSUME Broker!Init
  PROVE  Broker!IInv
<1> USE DEF Broker!Init
<1>1. Broker!NotYet \in [issued : Nat, expires : Nat, digest : 0 .. 1]
  BY DEF Broker!NotYet
<1>2. Broker!GrantType
  <2>1. v1 \in Nat /\ v2 \in 0 .. 1
    OBVIOUS
  <2>2. v10 \in BOOLEAN
    OBVIOUS
  <2>3. v3 \in [One -> [issued : Nat, expires : Nat, digest : 0 .. 1]]
    BY <1>1
  <2>4. v9 \in [One -> 0 .. 2]
    OBVIOUS
  <2> QED
    BY <2>1, <2>2, <2>3, <2>4 DEF Broker!GrantType
<1>3. Broker!SpentOnce
  BY DEF Broker!SpentOnce
<1> QED
  BY <1>2, <1>3 DEF Broker!IInv

\* A step that leaves grants, what is used, the runs and the clock alone.
LEMMA BrokerAside ==
  ASSUME Broker!IInv, UNCHANGED <<v1, v3, v4, v9, v10>>, v2' \in 0 .. 1
  PROVE  Broker!IInv'
BY DEF Broker!IInv, Broker!GrantType, Broker!SpentOnce, Broker!NotYet

\* A grant that has paid is remembered, or too old to pay again.
LEMMA BrokerStep ==
  ASSUME Broker!IInv, Broker!Next
  PROVE  Broker!IInv'
<1> USE SystemAssumption
    DEF Broker!IInv, Broker!GrantType, Broker!TimesAssumption, Broker!world,
        Broker!client
<1>1. CASE \E g \in One, ttl \in 1 .. BrokerTtl : Broker!Issue(g, ttl)
  <2>1. PICK g \in One, ttl \in 1 .. BrokerTtl : Broker!Issue(g, ttl)
    BY <1>1
  <2>2. Broker!GrantType'
    BY <2>1 DEF Broker!Issue
  <2>3. v9[g] = 0
    BY <2>1 DEF Broker!Issue, Broker!SpentOnce
  <2>4. Broker!SpentOnce'
    BY <2>1, <2>2, <2>3 DEF Broker!Issue, Broker!SpentOnce, Broker!NotYet
  <2> QED
    BY <2>2, <2>4
<1>2. CASE \E c \in Pair : Broker!BadLine(c) \/ Broker!MoreData(c) \/ Broker!TimeOut(c)
  BY <1>2, BrokerAside DEF Broker!BadLine, Broker!MoreData, Broker!TimeOut
<1>3. CASE \E c \in Pair, r \in One \cup {Broker!Preview} : Broker!Line(c, r)
  BY <1>3, BrokerAside DEF Broker!Line
<1>4. CASE \E c \in Pair, i \in Broker!Event : Broker!Plan(c, i) \/ Broker!Finish(c, i)
  BY <1>4, BrokerAside DEF Broker!Plan, Broker!Finish
<1>5. CASE \E c \in Pair, i \in Broker!Event : Broker!Authorize(c, i)
  <2>1. PICK c \in Pair, i \in Broker!Event : Broker!Authorize(c, i)
    BY <1>5
  <2> DEFINE g == v5[c]
  <2>2. CASE ~Broker!Verifies(c, i, g)
    BY <2>1, <2>2, BrokerAside DEF Broker!Authorize
  <2>3. CASE Broker!Verifies(c, i, g) /\ g \in One
    <3>1. /\ v4' = Broker!Remembered \cup {g}
          /\ v9' = [v9 EXCEPT ![g] = IF @ < 2 THEN @ + 1 ELSE @]
          /\ UNCHANGED <<v1, v2, v3, v10>>
      BY <2>1, <2>3 DEF Broker!Authorize
    <3>2. v3[g] # Broker!NotYet /\ ~(v3[g].expires + BrokerSkew < v1)
      BY <2>3 DEF Broker!Verifies, Broker!Genuine, Broker!InTime
    <3>3. ~v10 => v9[g] = 0
      BY <2>3, <3>2 DEF Broker!SpentOnce, Broker!Verifies, Broker!Remembered
    <3>4. Broker!GrantType'
      BY <3>1, <2>3
    <3>5. Broker!SpentOnce'
      BY <3>1, <3>2, <3>3, <2>3 DEF Broker!SpentOnce, Broker!Remembered
    <3> QED
      BY <3>4, <3>5
  <2>4. CASE Broker!Verifies(c, i, g) /\ g \notin One
    <3>1. /\ v4' = Broker!Remembered \cup {g}
          /\ v9' = [v9 EXCEPT ![g] = IF @ < 2 THEN @ + 1 ELSE @]
          /\ UNCHANGED <<v1, v2, v3, v10>>
      BY <2>1, <2>4 DEF Broker!Authorize
    <3>2. v9' = v9
      BY <3>1, <2>4
    <3>3. Broker!SpentOnce'
      BY <3>1, <3>2 DEF Broker!SpentOnce, Broker!Remembered
    <3> QED
      BY <3>1, <3>2, <3>3
  <2> QED
    BY <2>2, <2>3, <2>4
<1>6. CASE Broker!Tick
  BY <1>6 DEF Broker!Tick, Broker!SpentOnce
<1>7. CASE Broker!MetadataChanges
  BY <1>7, BrokerAside DEF Broker!MetadataChanges
<1>8. CASE Broker!ClockGoesBack
  BY <1>8 DEF Broker!ClockGoesBack, Broker!SpentOnce
<1>9. CASE Broker!Restart
  BY <1>9 DEF Broker!Restart, Broker!SpentOnce
<1> QED
  BY <1>1, <1>2, <1>3, <1>4, <1>5, <1>6, <1>7, <1>8, <1>9 DEF Broker!Next

\* "oneTimeConsumption": for any number of connections and grants, whatever the
\* lifetime of a grant and the skew of the clock, a grant pays once.
THEOREM GrantPaysOnce ==
  Spec => []OneTransactionPerGrant
<1> DEFINE Inv == focus = "broker" => Broker!IInv
<1>1. Init => Inv
  BY BrokerInit DEF Init
<1>2. Inv /\ [Next]_slots => Inv'
  <2> SUFFICES ASSUME Inv, [Next]_slots, focus' = "broker"
               PROVE  Broker!IInv'
    OBVIOUS
  <2>1. CASE focus = "broker" /\ Broker!Next
    BY <2>1, BrokerStep
  <2>2. CASE UNCHANGED slots
    BY <2>2, BrokerAside DEF slots, Broker!IInv, Broker!GrantType
  <2> QED
    BY <2>1, <2>2 DEF Next
<1>3. Inv => OneTransactionPerGrant
  BY DEF OneTransactionPerGrant, Broker!OneTransactionPerGrant, Broker!IInv,
         Broker!SpentOnce
<1> QED
  BY <1>1, <1>2, <1>3, PTL DEF Spec
-------------------------------------------------------------------------------
(* The catalogs.  v1 is the edition, v2 the roots, v4 the files, v5 and v6   *)
(* where a verification is and its envelope, v7 what it has seen, v8 what    *)
(* was granted, v9 back, v10 the mark, v11 the pages, v12 their overlap.     *)

\* The actions on the store and those of the page and of the release.
CatalogStoreStep ==
  \E c \in Pair :
    \/ \E e \in Catalog!Envelope : Catalog!Authorize(c, e)
    \/ Catalog!List(c) \/ Catalog!Verify(c) \/ Catalog!Accept(c)
    \/ Catalog!Create(c) \/ Catalog!Write(c) \/ Catalog!Reread(c)

\* A high-water file never vanishes.
LEMMA CatalogEntriesStay ==
  ASSUME Catalog!CatalogType, Catalog!Next
  PROVE  Catalog!Entries \subseteq Catalog!Entries'
<1> USE SystemAssumption
    DEF Catalog!CatalogType, Catalog!CatalogAssumption, Catalog!Entries,
        Catalog!Key, Catalog!Envelope
<1>1. CASE \E c \in Pair : Catalog!Create(c)
  BY <1>1 DEF Catalog!Create
<1>2. CASE \E c \in Pair : Catalog!Write(c)
  BY <1>2 DEF Catalog!Write
<1>3. CASE UNCHANGED v4
  BY <1>3
<1>4. Catalog!Next => \/ \E c \in Pair : Catalog!Create(c) \/ Catalog!Write(c)
                      \/ UNCHANGED v4
  BY DEF Catalog!Next, Catalog!Authorize, Catalog!VerifyAndAccept, Catalog!List,
         Catalog!Verify, Catalog!Accept, Catalog!Reread, Catalog!Store,
         Catalog!ApplyRotation, Catalog!Restart, Catalog!store
<1> QED
  BY <1>1, <1>2, <1>3, <1>4

\* Types: whoever is under way has an envelope.
LEMMA CatalogTyped ==
  ASSUME Catalog!CatalogType, Catalog!Next
  PROVE  Catalog!CatalogType'
<1> USE SystemAssumption
    DEF Catalog!CatalogType, Catalog!CatalogAssumption, Catalog!Key,
        Catalog!page, Catalog!calls, Catalog!store, Catalog!Goto, Catalog!Ends,
        Catalog!Refused, Catalog!Granted
<1>1. ASSUME NEW c \in Pair, NEW e \in Catalog!Envelope, Catalog!Authorize(c, e)
      PROVE  Catalog!CatalogType'
  BY <1>1 DEF Catalog!Authorize
<1>2. ASSUME NEW c \in Pair, Catalog!List(c)
      PROVE  Catalog!CatalogType'
  BY <1>2 DEF Catalog!List
<1>3. ASSUME NEW c \in Pair, Catalog!Verify(c)
      PROVE  Catalog!CatalogType'
  BY <1>3 DEF Catalog!Verify
<1>4. ASSUME NEW c \in Pair, Catalog!Accept(c)
      PROVE  Catalog!CatalogType'
  BY <1>4 DEF Catalog!Accept
<1>5. ASSUME NEW c \in Pair, Catalog!Create(c)
      PROVE  Catalog!CatalogType'
  <2>1. CASE v4[v6[c].sequence][v6[c].digest] = "none"
    <3>1. /\ v4' = [v4 EXCEPT ![v6[c].sequence][v6[c].digest] = "blank"]
          /\ v5' = [v5 EXCEPT ![c] = "write"] /\ v5[c] = "create"
          /\ UNCHANGED <<v6, v10, v11>>
      BY <1>5, <2>1 DEF Catalog!Create
    <3>2. v4' \in [Catalog!Sequence -> [Other -> Catalog!Key \cup {"none", "blank"}]]
      BY <3>1
    <3> QED
      BY <3>1, <3>2
  <2>2. CASE v4[v6[c].sequence][v6[c].digest] # "none"
    BY <1>5, <2>2 DEF Catalog!Create
  <2> QED
    BY <2>1, <2>2
<1>6. ASSUME NEW c \in Pair, Catalog!Write(c)
      PROVE  Catalog!CatalogType'
  BY <1>6 DEF Catalog!Write, Catalog!Envelope
<1>7. ASSUME NEW c \in Pair, Catalog!Reread(c)
      PROVE  Catalog!CatalogType'
  BY <1>7 DEF Catalog!Reread
<1>8. CASE Catalog!Restart
  BY <1>8 DEF Catalog!Restart
<1>9. ASSUME NEW m \in Catalog!Sequence, NEW n \in Catalog!Sequence,
             Catalog!ApplyRotation(m, n)
      PROVE  Catalog!CatalogType'
  BY <1>9 DEF Catalog!ApplyRotation
<1>10. ASSUME NEW c \in Pair, NEW e \in Catalog!Envelope,
              Catalog!VerifyAndAccept(c, e)
       PROVE  Catalog!CatalogType'
  BY <1>10 DEF Catalog!VerifyAndAccept
<1>11. ASSUME NEW c \in Pair, Catalog!Store(c)
       PROVE  Catalog!CatalogType'
  BY <1>11 DEF Catalog!Store
<1> QED
  BY <1>1, <1>2, <1>3, <1>4, <1>5, <1>6, <1>7, <1>8, <1>9, <1>10, <1>11
  DEF Catalog!Next

\* Whoever forgets what it has seen, while no file vanishes, keeps the rest.
LEMMA CatalogForget ==
  ASSUME Catalog!ListedOnce, Catalog!Entries \subseteq Catalog!Entries',
         v7' \in [Pair -> SUBSET UNION {v7[c] : c \in Pair}],
         \A c \in Pair : v7'[c] \subseteq v7[c]
  PROVE  Catalog!ListedOnce' /\ Catalog!Listed' \subseteq Catalog!Listed
<1> USE DEF Catalog!ListedOnce, Catalog!Listed
<1>1. Catalog!Listed' \subseteq Catalog!Listed
  OBVIOUS
<1>2. v7' \in [Pair -> SUBSET [entry : Catalog!Entries' \cup {<<0, "none">>},
                               before : SUBSET Catalog!Sequence]]
  <2> SUFFICES ASSUME NEW c \in Pair, NEW m \in v7'[c]
               PROVE  m \in [entry : Catalog!Entries' \cup {<<0, "none">>},
                             before : SUBSET Catalog!Sequence]
    OBVIOUS
  <2>1. m \in [entry : Catalog!Entries \cup {<<0, "none">>},
               before : SUBSET Catalog!Sequence]
    OBVIOUS
  <2> QED
    BY <2>1
<1>3. \A c \in Pair : \A m, k \in v7'[c] : m = k
  OBVIOUS
<1>4. \A m, k \in Catalog!Listed' : m.entry[1] = k.entry[1] => m.entry = k.entry
  BY <1>1
<1> QED
  BY <1>1, <1>2, <1>3, <1>4

\* A listing finds one entry at the highest sequence, or none at all: it agrees
\* with what the others have listed and with what was granted.
LEMMA CatalogLists ==
  ASSUME Catalog!CatalogType, Catalog!ListedOnce, Catalog!GrantedOnce,
         NEW c \in Pair, Catalog!List(c)
  PROVE  Catalog!ListedOnce' /\ Catalog!GrantedOnce'
<1>1. /\ Catalog!Entries' = Catalog!Entries /\ UNCHANGED v4
      /\ v8' = v8 /\ v9' = v9
  BY DEF Catalog!List, Catalog!Entries, Catalog!Refused, Catalog!page
<1>2. /\ Catalog!Entries \subseteq Catalog!Sequence \X Other
      /\ Catalog!Sequence \subseteq Nat \ {0}
  BY SystemAssumption
  DEF Catalog!Entries, Catalog!Sequence, Catalog!CatalogAssumption
<1>3. CASE UNCHANGED v7
  BY <1>1, <1>3 DEF Catalog!ListedOnce, Catalog!GrantedOnce, Catalog!Listed
<1>4. CASE ~UNCHANGED v7
  <2> DEFINE Found == IF Catalog!AtHigh = {} THEN {<<0, "none">>} ELSE Catalog!AtHigh
             New(n) == [entry |-> n, before |-> Catalog!Authorized]
  <2>1. /\ \A m, n \in Catalog!AtHigh : m = n
        /\ v7' = [v7 EXCEPT ![c] = {New(n) : n \in Found}]
    BY <1>4 DEF Catalog!List
  <2>2. PICK n \in Found : Found = {n}
    BY <2>1
  <2>3. v7' = [v7 EXCEPT ![c] = {New(n)}]
    BY <2>1, <2>2
  <2>4. /\ n = <<0, "none">> \/ n \in Catalog!Entries
        /\ \A g \in Catalog!Entries : g[1] = n[1] => g = n
        /\ n \in Catalog!Entries => \A g \in Catalog!Entries : g[1] <= n[1]
    <3>1. CASE Catalog!AtHigh = {}
      BY <3>1, <2>2, <1>2
    <3>2. CASE Catalog!AtHigh # {}
      <4>1. n \in Catalog!AtHigh
        BY <3>2, <2>2
      <4>2. n \in Catalog!Entries /\ \A g \in Catalog!Entries : g[1] <= n[1]
        BY <4>1 DEF Catalog!AtHigh
      <4>3. ASSUME NEW g \in Catalog!Entries, g[1] = n[1]
            PROVE  g = n
        <5>1. g \in Catalog!AtHigh
          BY <4>2, <4>3 DEF Catalog!AtHigh
        <5> QED
          BY <5>1, <4>1, <2>1
      <4> QED
        BY <4>2, <4>3
    <3> QED
      BY <3>1, <3>2
  <2>5. New(n) \in [entry : Catalog!Entries \cup {<<0, "none">>},
                    before : SUBSET Catalog!Sequence]
    <3>1. Catalog!Authorized \subseteq Catalog!Sequence
      BY <1>2 DEF Catalog!Authorized, Catalog!GrantedOnce
    <3> QED
      BY <3>1, <2>4
  <2>6. /\ New(n).entry = n
        /\ \A k \in New(n).before : \E g \in v8 : k = g[1]
    BY DEF Catalog!Authorized
  <2>7. Catalog!Listed' \subseteq Catalog!Listed \cup {New(n)}
    BY <2>3 DEF Catalog!Listed, Catalog!ListedOnce
  <2>8. \A k \in Catalog!Listed :
          /\ k.entry \in Catalog!Entries \cup {<<0, "none">>}
          /\ k.entry[1] = n[1] => k.entry = n
    <3> SUFFICES ASSUME NEW k \in Catalog!Listed
                 PROVE  /\ k.entry \in Catalog!Entries \cup {<<0, "none">>}
                        /\ k.entry[1] = n[1] => k.entry = n
      OBVIOUS
    <3>1. k.entry \in Catalog!Entries \cup {<<0, "none">>}
      BY DEF Catalog!Listed, Catalog!ListedOnce
    <3> QED
      BY <3>1, <2>4, <1>2
  <2>9. Catalog!ListedOnce'
    <3>1. v7' \in [Pair -> SUBSET [entry : Catalog!Entries' \cup {<<0, "none">>},
                                   before : SUBSET Catalog!Sequence]]
      BY <2>3, <2>5, <1>1 DEF Catalog!ListedOnce
    <3>2. \A d \in Pair : \A m, k \in v7'[d] : m = k
      BY <2>3 DEF Catalog!ListedOnce
    <3>3. \A m, k \in Catalog!Listed' : m.entry[1] = k.entry[1] => m.entry = k.entry
      <4> SUFFICES ASSUME NEW m \in Catalog!Listed', NEW k \in Catalog!Listed',
                          m.entry[1] = k.entry[1]
                   PROVE  m.entry = k.entry
        OBVIOUS
      <4>1. CASE m \in Catalog!Listed /\ k \in Catalog!Listed
        BY <4>1 DEF Catalog!ListedOnce
      <4>2. CASE m = New(n) \/ k = New(n)
        BY <4>2, <2>6, <2>7, <2>8
      <4> QED
        BY <4>1, <4>2, <2>7
    <3> QED
      BY <3>1, <3>2, <3>3 DEF Catalog!ListedOnce
  <2>10. Catalog!GrantedOnce'
    <3>1. v8' \subseteq Catalog!Entries' /\ ~v9'
      BY <1>1 DEF Catalog!GrantedOnce
    <3>2. \A g, h \in v8' : g[1] = h[1] => g = h
      BY <1>1 DEF Catalog!GrantedOnce
    <3>3. \A m \in Catalog!Listed', g \in v8' : m.entry[1] = g[1] => m.entry = g
      BY <1>1, <2>4, <2>6, <2>7 DEF Catalog!GrantedOnce
    <3>4. \A m \in Catalog!Listed' : \A k \in m.before :
            m.entry \in Catalog!Entries' => k <= m.entry[1]
      <4> SUFFICES ASSUME NEW m \in Catalog!Listed', NEW k \in m.before,
                          m.entry \in Catalog!Entries
                   PROVE  k <= m.entry[1]
        BY <1>1
      <4>1. CASE m \in Catalog!Listed
        BY <4>1 DEF Catalog!GrantedOnce
      <4>2. CASE m = New(n)
        BY <4>2, <2>4, <2>6 DEF Catalog!GrantedOnce
      <4> QED
        BY <4>1, <4>2, <2>7
    <3> QED
      BY <3>1, <3>2, <3>3, <3>4 DEF Catalog!GrantedOnce
  <2> QED
    BY <2>9, <2>10
<1> QED
  BY <1>3, <1>4

\* An envelope that is what is read now is the one entry that was listed.
LEMMA CatalogReads ==
  ASSUME Catalog!CatalogType, Catalog!ListedOnce, NEW c \in Pair,
         v5[c] # "idle", v7[c] # {}, Catalog!SameSigned(Catalog!Read(c), v6[c])
  PROVE  \E m \in v7[c] : /\ m.entry \in Catalog!Entries
                          /\ m.entry = <<v6[c].sequence, v6[c].digest>>
                          /\ \A k \in v7[c] : k = m
<1>1. PICK m \in v7[c] : m = (CHOOSE k \in v7[c] : TRUE) /\ \A k \in v7[c] : k = m
  BY DEF Catalog!ListedOnce
<1>2. m.entry \in Catalog!Entries \cup {<<0, "none">>}
  BY <1>1 DEF Catalog!ListedOnce
<1>3. v6[c] \in Catalog!Envelope
  BY DEF Catalog!CatalogType
<1>4. v6[c].sequence # 0
  BY <1>3, SystemAssumption
  DEF Catalog!Envelope, Catalog!Sequence, Catalog!CatalogAssumption
<1>5. v6[c] = IF m.entry[1] = 0 THEN Catalog!Nothing
              ELSE [sequence |-> m.entry[1], digest |-> m.entry[2],
                    key |-> v4[m.entry[1]][m.entry[2]]]
  BY <1>1 DEF Catalog!Read, Catalog!SameSigned
<1>6. m.entry[1] # 0
  BY <1>4, <1>5 DEF Catalog!Nothing
<1>7. m.entry \in Catalog!Entries
  BY <1>2, <1>6
<1>8. PICK s \in Catalog!Sequence, d \in Other : m.entry = <<s, d>>
  BY <1>7 DEF Catalog!Entries
<1>9. v6[c].sequence = m.entry[1] /\ v6[c].digest = m.entry[2]
  BY <1>5, <1>6
<1>10. m.entry = <<v6[c].sequence, v6[c].digest>>
  BY <1>8, <1>9
<1> QED
  BY <1>1, <1>7, <1>10

\* A verification ends: it is granted what it has read, or refused.
LEMMA CatalogEnds ==
  ASSUME Catalog!CatalogType, Catalog!ListedOnce, Catalog!GrantedOnce,
         NEW c \in Pair, v5[c] # "idle", v7[c] # {},
         v7' = [v7 EXCEPT ![c] = {}], UNCHANGED v4,
         \/ Catalog!Granted(c) /\ Catalog!SameSigned(Catalog!Read(c), v6[c])
         \/ UNCHANGED <<v8, v9>>
  PROVE  Catalog!ListedOnce' /\ Catalog!GrantedOnce'
<1>1. Catalog!Entries' = Catalog!Entries
  BY DEF Catalog!Entries
<1>2. Catalog!ListedOnce' /\ Catalog!Listed' \subseteq Catalog!Listed
  <2>1. v7' \in [Pair -> SUBSET UNION {v7[d] : d \in Pair}]
    BY DEF Catalog!ListedOnce
  <2>2. \A d \in Pair : v7'[d] \subseteq v7[d]
    BY DEF Catalog!ListedOnce
  <2> QED
    BY <1>1, <2>1, <2>2, CatalogForget
<1>3. CASE UNCHANGED <<v8, v9>>
  BY <1>1, <1>2, <1>3 DEF Catalog!GrantedOnce
<1>4. CASE Catalog!Granted(c) /\ Catalog!SameSigned(Catalog!Read(c), v6[c])
  <2>1. PICK m \in v7[c] : /\ m.entry \in Catalog!Entries
                           /\ m.entry = <<v6[c].sequence, v6[c].digest>>
                           /\ \A k \in v7[c] : k = m
    BY <1>4, CatalogReads
  <2>2. m \in Catalog!Listed
    BY <2>1 DEF Catalog!Listed
  <2>3. v8' = v8 \cup {m.entry}
    BY <1>4, <2>1 DEF Catalog!Granted
  <2>4. v8' \subseteq Catalog!Entries'
    BY <1>1, <2>1, <2>3 DEF Catalog!GrantedOnce
  <2>5. ~v9'
    <3>1. \A n \in m.before : n <= v6[c].sequence
      BY <2>1, <2>2 DEF Catalog!GrantedOnce
    <3>2. m.before \subseteq Nat /\ v6[c].sequence \in Nat
      <4>1. m \in [entry : Catalog!Entries \cup {<<0, "none">>},
                   before : SUBSET Catalog!Sequence]
        BY <2>1 DEF Catalog!ListedOnce
      <4>2. Catalog!Sequence \subseteq Nat
        BY SystemAssumption DEF Catalog!Sequence, Catalog!CatalogAssumption
      <4>3. v6[c] \in Catalog!Envelope
        BY DEF Catalog!CatalogType
      <4> QED
        BY <4>1, <4>2, <4>3 DEF Catalog!Envelope
    <3>3. ~\E k \in v7[c] : \E n \in k.before : v6[c].sequence < n
      BY <3>1, <3>2, <2>1
    <3> QED
      BY <1>4, <3>3 DEF Catalog!Granted, Catalog!GrantedOnce
  <2>6. \A g, h \in v8' : g[1] = h[1] => g = h
    BY <2>2, <2>3 DEF Catalog!GrantedOnce
  <2>7. \A k \in Catalog!Listed', g \in v8' : k.entry[1] = g[1] => k.entry = g
    BY <1>2, <2>2, <2>3 DEF Catalog!GrantedOnce, Catalog!ListedOnce
  <2>8. \A k \in Catalog!Listed' : \A n \in k.before :
          k.entry \in Catalog!Entries' => n <= k.entry[1]
    BY <1>1, <1>2 DEF Catalog!GrantedOnce
  <2> QED
    BY <1>2, <2>4, <2>5, <2>6, <2>7, <2>8 DEF Catalog!GrantedOnce
<1> QED
  BY <1>3, <1>4

LEMMA CatalogInit ==
  ASSUME Catalog!Init
  PROVE  Catalog!IInv
<1> USE SystemAssumption
    DEF Catalog!Init, Catalog!CatalogAssumption, Catalog!Key
<1>1. Catalog!CatalogType
  BY DEF Catalog!CatalogType
<1>2. Catalog!ListedOnce
  BY DEF Catalog!ListedOnce, Catalog!Listed
<1>3. Catalog!GrantedOnce
  BY DEF Catalog!GrantedOnce, Catalog!Listed
<1>4. Catalog!MarkFollowed
  BY DEF Catalog!MarkFollowed
<1>5. Catalog!RootsOverlap
  BY DEF Catalog!RootsOverlap, Catalog!RootsFor
<1> QED
  BY <1>1, <1>2, <1>3, <1>4, <1>5 DEF Catalog!IInv

\* Everybody else: who forgets, and who neither lists nor grants.
LEMMA CatalogOnce ==
  ASSUME Catalog!CatalogType, Catalog!ListedOnce, Catalog!GrantedOnce, Catalog!Next
  PROVE  Catalog!ListedOnce' /\ Catalog!GrantedOnce'
<1>1. Catalog!Entries \subseteq Catalog!Entries'
  BY CatalogEntriesStay
<1>2. ASSUME UNCHANGED <<v7, v8, v9>>
      PROVE  Catalog!ListedOnce' /\ Catalog!GrantedOnce'
  <2>1. Catalog!ListedOnce' /\ Catalog!Listed' \subseteq Catalog!Listed
    <3>1. v7' \in [Pair -> SUBSET UNION {v7[c] : c \in Pair}]
      BY <1>2 DEF Catalog!ListedOnce
    <3> QED
      BY <1>1, <1>2, <3>1, CatalogForget
  <2>2. v8' \subseteq Catalog!Entries' /\ ~v9'
    BY <1>1, <1>2 DEF Catalog!GrantedOnce
  <2>3. \A m \in Catalog!Listed' : \A n \in m.before : n <= m.entry[1] \/ m.entry \notin Catalog!Entries'
    <3> SUFFICES ASSUME NEW m \in Catalog!Listed', NEW n \in m.before,
                        m.entry \in Catalog!Entries'
                 PROVE  n <= m.entry[1]
      OBVIOUS
    <3>1. m \in Catalog!Listed
      BY <2>1
    <3>2. m.entry \in Catalog!Entries \cup {<<0, "none">>}
      BY <3>1 DEF Catalog!Listed, Catalog!ListedOnce
    <3>3. <<0, "none">> \notin Catalog!Entries'
      BY SystemAssumption
      DEF Catalog!Entries, Catalog!Sequence, Catalog!CatalogAssumption
    <3> QED
      BY <3>1, <3>2, <3>3 DEF Catalog!GrantedOnce
  <2> QED
    BY <1>2, <2>1, <2>2, <2>3 DEF Catalog!GrantedOnce
<1>3. ASSUME NEW c \in Pair, Catalog!List(c)
      PROVE  Catalog!ListedOnce' /\ Catalog!GrantedOnce'
  BY <1>3, CatalogLists
<1>4. ASSUME NEW c \in Pair, Catalog!Verify(c) \/ Catalog!Accept(c) \/ Catalog!Reread(c)
      PROVE  Catalog!ListedOnce' /\ Catalog!GrantedOnce'
  <2>1. /\ v5[c] # "idle" /\ v7[c] # {} /\ v7' = [v7 EXCEPT ![c] = {}] /\ UNCHANGED v4
        /\ \/ Catalog!Granted(c) /\ Catalog!SameSigned(Catalog!Read(c), v6[c])
           \/ UNCHANGED <<v8, v9>>
    BY <1>4 DEF Catalog!Verify, Catalog!Accept, Catalog!Reread, Catalog!Refused
  <2> QED
    BY <2>1, CatalogEnds
<1>5. CASE Catalog!Restart
  <2>1. v7' = [c \in Pair |-> {}] /\ UNCHANGED <<v4, v8, v9>>
    BY <1>5 DEF Catalog!Restart
  <2>2. Catalog!Listed' = {}
    BY <2>1 DEF Catalog!Listed
  <2>3. Catalog!ListedOnce'
    BY <2>1, <2>2 DEF Catalog!ListedOnce
  <2>4. Catalog!GrantedOnce'
    BY <1>1, <2>1, <2>2 DEF Catalog!GrantedOnce
  <2> QED
    BY <2>3, <2>4
<1>6. \/ \E c \in Pair : \/ Catalog!List(c) \/ Catalog!Verify(c)
                         \/ Catalog!Accept(c) \/ Catalog!Reread(c)
      \/ Catalog!Restart
      \/ UNCHANGED <<v7, v8, v9>>
  BY DEF Catalog!Next, Catalog!Authorize, Catalog!VerifyAndAccept, Catalog!Create,
         Catalog!Write, Catalog!Store, Catalog!ApplyRotation, Catalog!calls,
         Catalog!store
<1> QED
  BY <1>2, <1>3, <1>4, <1>5, <1>6

\* A page that verifies alone stores what is ahead of the mark.
LEMMA CatalogMark ==
  ASSUME Catalog!CatalogType, Catalog!MarkFollowed, Catalog!Next
  PROVE  /\ Catalog!MarkFollowed'
         /\ v10' # v10 => v12 \/ Catalog!Ahead(v10', v10)
<1>1. ASSUME NEW c \in Pair, NEW e \in Catalog!Envelope, Catalog!VerifyAndAccept(c, e)
      PROVE  /\ Catalog!MarkFollowed'
             /\ v10' # v10 => v12 \/ Catalog!Ahead(v10', v10)
  <2>1. /\ v11' = [v11 EXCEPT ![c] = [env |-> e, previous |-> v10]]
        /\ v12' = (v12 \/ \E d \in Pair : v11[d].env # Catalog!Nothing)
        /\ v10' = v10
    BY <1>1 DEF Catalog!VerifyAndAccept
  <2>2. CASE v12'
    BY <2>1, <2>2 DEF Catalog!MarkFollowed
  <2>3. CASE ~v12'
    BY <2>1, <2>3 DEF Catalog!MarkFollowed, Catalog!CatalogType
  <2> QED
    BY <2>2, <2>3
<1>2. ASSUME NEW c \in Pair, Catalog!Store(c)
      PROVE  /\ Catalog!MarkFollowed'
             /\ v10' # v10 => v12 \/ Catalog!Ahead(v10', v10)
  <2>1. /\ v11[c].env # Catalog!Nothing
        /\ v11' = [v11 EXCEPT ![c].env = Catalog!Nothing]
        /\ v12' = v12
        /\ \/ v10' = v10
           \/ v10' = v11[c].env /\ Catalog!Fresh(v11[c].env, v11[c].previous)
    BY <1>2 DEF Catalog!Store, Catalog!Verdicts, Catalog!store
  <2>2. CASE v12
    BY <2>1, <2>2 DEF Catalog!MarkFollowed
  <2>3. CASE ~v12
    <3>1. /\ v11[c].previous = v10
          /\ \A d \in Pair : v11[d].env # Catalog!Nothing => d = c
      BY <2>1, <2>3 DEF Catalog!MarkFollowed
    <3>2. \A d \in Pair : v11'[d].env = Catalog!Nothing
      BY <2>1, <3>1 DEF Catalog!CatalogType
    <3>3. v11[c].env \in Catalog!Envelope
      BY <2>1 DEF Catalog!CatalogType
    <3>4. v10' # v10 => Catalog!Ahead(v10', v10)
      <4> SUFFICES ASSUME v10' # v10
                   PROVE  Catalog!Ahead(v10', v10)
        OBVIOUS
      <4>1. v10' = v11[c].env /\ (v10 = Catalog!Nothing \/ Catalog!Ahead(v10', v10))
        BY <2>1, <3>1 DEF Catalog!Fresh
      <4>2. v10'.sequence \in Catalog!Sequence
        BY <4>1, <3>3 DEF Catalog!Envelope
      <4> QED
        BY <4>1, <4>2, SystemAssumption
        DEF Catalog!Ahead, Catalog!Nothing, Catalog!Sequence, Catalog!CatalogAssumption
    <3> QED
      BY <2>1, <3>2, <3>4 DEF Catalog!MarkFollowed
  <2> QED
    BY <2>2, <2>3
<1>3. CASE UNCHANGED <<v10, v11, v12>>
  BY <1>3 DEF Catalog!MarkFollowed
<1>4. \/ \E c \in Pair : \/ \E e \in Catalog!Envelope : Catalog!VerifyAndAccept(c, e)
                         \/ Catalog!Store(c)
      \/ UNCHANGED <<v10, v11, v12>>
  BY DEF Catalog!Next, Catalog!Authorize, Catalog!List, Catalog!Verify,
         Catalog!Accept, Catalog!Create, Catalog!Write, Catalog!Reread,
         Catalog!ApplyRotation, Catalog!Restart, Catalog!page
<1> QED
  BY <1>1, <1>2, <1>3, <1>4

\* The windows of the roots leave no sequence without one.
LEMMA CatalogRoots ==
  ASSUME Catalog!RootsOverlap, Catalog!Next
  PROVE  Catalog!RootsOverlap'
<1>1. ASSUME NEW m \in Catalog!Sequence, NEW n \in Catalog!Sequence,
             Catalog!ApplyRotation(m, n)
      PROVE  Catalog!RootsOverlap'
  <2>1. n >= m /\ Catalog!EnabledRoots = {"current"}
    BY <1>1 DEF Catalog!ApplyRotation
  <2>2. v2 \in [Catalog!Key -> [from : Nat, to : Nat]]
    BY SystemAssumption
    DEF Catalog!RootsOverlap, Catalog!RootsFor, Catalog!Closed, Catalog!Sequence,
        Catalog!CatalogAssumption
  <2>3. v2' = Catalog!RootsFor(n, [from |-> m, to |-> CatalogSequences])
    BY <1>1, <2>2 DEF Catalog!ApplyRotation, Catalog!RootsFor, Catalog!Key
  <2> QED
    BY <2>1, <2>3 DEF Catalog!RootsOverlap
<1>2. CASE UNCHANGED v2
  BY <1>2 DEF Catalog!RootsOverlap
<1>3. \/ \E m, n \in Catalog!Sequence : Catalog!ApplyRotation(m, n)
      \/ UNCHANGED v2
  BY DEF Catalog!Next, Catalog!Authorize, Catalog!VerifyAndAccept, Catalog!List,
         Catalog!Verify, Catalog!Accept, Catalog!Create, Catalog!Write,
         Catalog!Reread, Catalog!Store, Catalog!Restart, Catalog!store
<1> QED
  BY <1>1, <1>2, <1>3

LEMMA CatalogGapless ==
  ASSUME Catalog!RootsOverlap
  PROVE  Catalog!NoGap
<1> USE SystemAssumption
    DEF Catalog!Sequence, Catalog!CatalogAssumption, Catalog!Key, Catalog!RootsFor
<1>1. CASE v2 = Catalog!RootsFor(CatalogSequences, Catalog!Closed)
  BY <1>1 DEF Catalog!NoGap, Catalog!EnabledRoots, Catalog!Closed
<1>2. ASSUME NEW m \in Catalog!Sequence, NEW n \in Catalog!Sequence, n >= m,
             v2 = Catalog!RootsFor(n, [from |-> m, to |-> CatalogSequences])
      PROVE  Catalog!NoGap
  <2>1. /\ v2["current"] = [from |-> 1, to |-> n]
        /\ v2["next"] = [from |-> m, to |-> CatalogSequences]
    BY <1>2
  <2>2. \A s \in Catalog!Sequence : \E k \in Catalog!Key : v2[k].from <= s /\ s <= v2[k].to
    BY <1>2, <2>1
  <2>3. Catalog!EnabledRoots = Catalog!Key => Catalog!Rotated(m, n)
    BY <1>2, <2>1 DEF Catalog!Rotated
  <2> QED
    BY <2>2, <2>3 DEF Catalog!NoGap
<1> QED
  BY <1>1, <1>2 DEF Catalog!RootsOverlap

LEMMA CatalogStutter ==
  ASSUME Catalog!IInv, UNCHANGED Catalog!cVars
  PROVE  Catalog!IInv'
<1> USE DEF Catalog!cVars, Catalog!store, Catalog!calls, Catalog!page, Catalog!IInv
<1>1. Catalog!Entries' = Catalog!Entries /\ Catalog!Listed' = Catalog!Listed
  BY DEF Catalog!Entries, Catalog!Listed
<1>2. Catalog!CatalogType'
  BY DEF Catalog!CatalogType
<1>3. Catalog!ListedOnce'
  BY <1>1 DEF Catalog!ListedOnce
<1>4. Catalog!GrantedOnce'
  BY <1>1 DEF Catalog!GrantedOnce
<1>5. Catalog!MarkFollowed'
  BY DEF Catalog!MarkFollowed
<1>6. Catalog!RootsOverlap'
  BY DEF Catalog!RootsOverlap
<1> QED
  BY <1>2, <1>3, <1>4, <1>5, <1>6

LEMMA CatalogStep ==
  ASSUME Catalog!IInv, Catalog!Next
  PROVE  Catalog!IInv' /\ Catalog!NeverBackStep /\ Catalog!NoGap'
<1>1. /\ Catalog!CatalogType /\ Catalog!ListedOnce /\ Catalog!GrantedOnce
      /\ Catalog!MarkFollowed /\ Catalog!RootsOverlap
  BY DEF Catalog!IInv
<1>2. Catalog!CatalogType'
  BY <1>1, CatalogTyped
<1>3. Catalog!ListedOnce' /\ Catalog!GrantedOnce'
  BY <1>1, CatalogOnce
<1>4. Catalog!MarkFollowed' /\ (v10' # v10 => v12 \/ Catalog!Ahead(v10', v10))
  BY <1>1, CatalogMark
<1>5. Catalog!RootsOverlap'
  BY <1>1, CatalogRoots
<1>6. Catalog!NoGap'
  BY <1>5, CatalogGapless, PTL
<1>7. Catalog!NeverBackStep
  BY <1>3, <1>4 DEF Catalog!NeverBackStep, Catalog!GrantedOnce
<1> QED
  BY <1>2, <1>3, <1>4, <1>5, <1>6, <1>7 DEF Catalog!IInv

\* "antiRollback": for any number of verifications, digests and sequences, no
\* catalog is authorized below one that was authorized before it was looked for,
\* none beside another of its sequence, and a rotation leaves no gap.
THEOREM CatalogIsTrusted ==
  Spec => CatalogTrusted
<1> DEFINE Inv == focus = "catalog" => Catalog!IInv
<1>1. Init => Inv
  BY CatalogInit DEF Init
<1>2. Inv /\ [Next]_slots => Inv'
  <2> SUFFICES ASSUME Inv, [Next]_slots, focus' = "catalog"
               PROVE  Catalog!IInv'
    OBVIOUS
  <2>1. CASE focus = "catalog" /\ Catalog!Next
    BY <2>1, CatalogStep
  <2>2. CASE UNCHANGED slots
    BY <2>2, CatalogStutter DEF slots, Catalog!cVars, Catalog!store,
       Catalog!calls, Catalog!page
  <2> QED
    BY <2>1, <2>2 DEF Next
<1>3. Inv /\ [Next]_slots =>
        [focus = "catalog" => Catalog!NeverBackStep /\ Catalog!NoGap']_slots
  <2> SUFFICES ASSUME Inv, Next, focus = "catalog"
               PROVE  Catalog!NeverBackStep /\ Catalog!NoGap'
    OBVIOUS
  <2>1. Catalog!Next
    BY DEF Next
  <2> QED
    BY <2>1, CatalogStep
<1> QED
  BY <1>1, <1>2, <1>3, PTL DEF Spec, CatalogTrusted

-------------------------------------------------------------------------------
(* Windows applications.  v4 is the manifests, v5 the prefixes, v7 the       *)
(* records, v8 the processes, v9 who has run, v10 whether one was lost.      *)

LEMMA WindowsInit ==
  ASSUME Windows!Init
  PROVE  Windows!IInv
<1> USE DEF Windows!Init, Windows!NoRecord
<1>1. Windows!PrefixType
  BY DEF Windows!PrefixType
<1>2. Windows!PrefixBinds /\ Windows!ProcessIsRecorded
  BY DEF Windows!PrefixBinds, Windows!ProcessIsRecorded
<1> QED
  BY <1>1, <1>2 DEF Windows!IInv

\* What happens to runtimes and entry points.
LEMMA WindowsAside ==
  ASSUME Windows!IInv, UNCHANGED <<v4, v5, v7, v8, v9, v10>>
  PROVE  Windows!IInv'
BY DEF Windows!IInv, Windows!PrefixType, Windows!PrefixBinds,
       Windows!ProcessIsRecorded

LEMMA WindowsStep ==
  ASSUME Windows!IInv, Windows!Next
  PROVE  Windows!IInv'
<1> USE DEF Windows!NoRecord, Windows!setup, Windows!running, Windows!PrefixType
<1>0. Windows!PrefixType /\ Windows!PrefixBinds /\ Windows!ProcessIsRecorded
  BY DEF Windows!IInv
<1>1. CASE Windows!CreateStack
  <2>1. Windows!PrefixType' /\ Windows!PrefixBinds'
    BY <1>0, <1>1 DEF Windows!CreateStack, Windows!PrefixBinds
  <2>2. Windows!ProcessIsRecorded'
    <3> SUFFICES ASSUME ~v10', NEW a \in One
                 PROVE  v8'[a] = IF v7'[a] = "running" THEN 1 ELSE 0
      BY DEF Windows!ProcessIsRecorded
    <3>1. ~\E b \in One : v8[b] > 0
      BY <1>1 DEF Windows!CreateStack
    <3>2. v8'[a] = 0
      BY <1>0, <1>1, <3>1 DEF Windows!CreateStack
    <3> QED
      BY <1>1, <3>2 DEF Windows!CreateStack
  <2> QED
    BY <2>1, <2>2 DEF Windows!IInv
<1>2. CASE \E p \in {"wine", "proton"} :
             \/ \E o \in {"install", "update"} : Windows!Provision(p, o)
             \/ Windows!Transaction(p) \/ Windows!Rediscover(p)
             \/ Windows!RuntimeChanges(p)
  BY <1>2, WindowsAside
  DEF Windows!Provision, Windows!Transaction, Windows!Rediscover,
      Windows!RuntimeChanges
<1>3. ASSUME NEW a \in One, NEW p \in {"wine", "proton"}, Windows!Update(a, p)
      PROVE  Windows!IInv'
  <2>1. Windows!PrefixType'
    BY <1>0, <1>3 DEF Windows!Update
  <2>2. Windows!PrefixBinds' /\ Windows!ProcessIsRecorded'
    BY <1>0, <1>3 DEF Windows!Update, Windows!PrefixBinds, Windows!ProcessIsRecorded
  <2> QED
    BY <2>1, <2>2 DEF Windows!IInv
<1>4. ASSUME NEW a \in One, NEW x, Windows!Install(a, x)
      PROVE  Windows!IInv'
  BY <1>4, WindowsAside DEF Windows!Install
<1>5. ASSUME NEW a \in One, Windows!Prepare(a)
      PROVE  Windows!IInv'
  <2>1. v9[a] = {}
    BY <1>0, <1>5 DEF Windows!Prepare, Windows!PrefixBinds
  <2>2. Windows!PrefixType' /\ Windows!PrefixBinds'
    BY <1>0, <1>5, <2>1 DEF Windows!Prepare, Windows!PrefixBinds
  <2>3. Windows!ProcessIsRecorded'
    BY <1>0, <1>5 DEF Windows!Prepare, Windows!ProcessIsRecorded
  <2> QED
    BY <2>2, <2>3 DEF Windows!IInv
<1>6. ASSUME NEW a \in One, Windows!Launch(a)
      PROVE  Windows!IInv'
  <2>1. v5[a] = v4[a] /\ v7[a] # "running"
    BY <1>6 DEF Windows!Launch, Windows!Plan, Windows!MetadataMatches
  <2>2. Windows!PrefixType'
    BY <1>0, <1>6 DEF Windows!Launch
  <2>3. Windows!PrefixBinds'
    BY <1>0, <1>6, <2>1 DEF Windows!Launch, Windows!PrefixBinds
  <2>4. Windows!ProcessIsRecorded'
    BY <1>0, <1>6, <2>1 DEF Windows!Launch, Windows!ProcessIsRecorded
  <2> QED
    BY <2>2, <2>3, <2>4 DEF Windows!IInv
<1>7. ASSUME NEW a \in One, Windows!Exit(a) \/ Windows!StrayExit(a)
      PROVE  Windows!IInv'
  <2>1. Windows!PrefixType' /\ Windows!PrefixBinds'
    BY <1>0, <1>7
    DEF Windows!Exit, Windows!StrayExit, Windows!Ends, Windows!PrefixBinds
  <2>2. Windows!ProcessIsRecorded'
    BY <1>0, <1>7
    DEF Windows!Exit, Windows!StrayExit, Windows!Ends, Windows!Attended,
        Windows!ProcessIsRecorded
  <2> QED
    BY <2>1, <2>2 DEF Windows!IInv
<1>8. ASSUME NEW a \in One, Windows!StopFails(a) \/ Windows!Forget(a)
      PROVE  Windows!IInv'
  <2>1. Windows!PrefixType' /\ Windows!PrefixBinds'
    BY <1>0, <1>8 DEF Windows!StopFails, Windows!Forget, Windows!PrefixBinds
  <2>2. Windows!ProcessIsRecorded'
    BY <1>0, <1>8 DEF Windows!StopFails, Windows!Forget, Windows!ProcessIsRecorded
  <2> QED
    BY <2>1, <2>2 DEF Windows!IInv
<1> QED
  BY <1>1, <1>2, <1>3, <1>4, <1>5, <1>6, <1>7, <1>8 DEF Windows!Next

LEMMA WindowsSafe ==
  ASSUME Windows!IInv
  PROVE  Windows!PrefixIsExclusive
BY DEF Windows!PrefixIsExclusive, Windows!IInv, Windows!PrefixType,
       Windows!PrefixBinds, Windows!ProcessIsRecorded

-------------------------------------------------------------------------------
(* Applications.  v1 is the manifests, v5 the owners, v6 the records, v7 the *)
(* processes, v8 whether the runtime was restarted.                          *)

LEMMA AppsInit ==
  ASSUME Apps!Init
  PROVE  Apps!IInv
<1> USE DEF Apps!Init, Apps!Class, Apps!Release
<1>1. v1 \in [One -> [class : Apps!Class, release : Apps!Release]]
  OBVIOUS
<1>2. Apps!RuntimeType
  BY <1>1 DEF Apps!RuntimeType
<1>3. Apps!EveryProcessIsOwned
  BY DEF Apps!EveryProcessIsOwned, Apps!Stoppable
<1> QED
  BY <1>2, <1>3 DEF Apps!IInv

\* Another manifest, another verification or another host.
LEMMA AppsAside ==
  ASSUME Apps!IInv, v1' \in [One -> [class : Apps!Class, release : Apps!Release]],
         UNCHANGED <<v5, v6, v7, v8>>
  PROVE  Apps!IInv'
BY DEF Apps!IInv, Apps!RuntimeType, Apps!EveryProcessIsOwned, Apps!Stoppable

LEMMA AppsStep ==
  ASSUME Apps!IInv, Apps!Next
  PROVE  Apps!IInv'
<1> USE DEF Apps!installed, Apps!tracked, Apps!RuntimeType
<1>0. Apps!RuntimeType /\ Apps!EveryProcessIsOwned
  BY DEF Apps!IInv
<1>1. ASSUME NEW a \in One, Apps!Launch(a)
      PROVE  Apps!IInv'
  <2>1. PICK class \in Apps!Class :
          /\ v5[a] = "none" /\ v6[class][a] = "none"
          /\ v5' = [v5 EXCEPT ![a] = class]
          /\ v6' = [v6 EXCEPT ![class][a] = "running"]
          /\ v7' = [v7 EXCEPT ![class][a] = @ + 1] \/ UNCHANGED v7
          /\ UNCHANGED <<v1, v8>>
    BY <1>1
    DEF Apps!Launch, Apps!Routed, Apps!NativeLaunch, Apps!WindowsLaunch,
        Apps!Spawned, Apps!NativeRequest, Apps!CompatPlan, Apps!Class
  <2>2. Apps!RuntimeType'
    <3>1. v6' \in [Apps!Class -> [One -> {"none", "running", "exited"}]]
      BY <1>0, <2>1
    <3>2. [v7[class] EXCEPT ![a] = @ + 1] \in [One -> Nat]
      BY <1>0, <2>1
    <3>3. v7' \in [Apps!Class -> [One -> Nat]]
      <4>1. v7' = [v7 EXCEPT ![class] = [v7[class] EXCEPT ![a] = @ + 1]] \/ v7' = v7
        BY <2>1
      <4> QED
        BY <1>0, <3>2, <4>1
    <3> QED
      BY <1>0, <2>1, <3>1, <3>3
  <2>3. Apps!EveryProcessIsOwned'
    BY <1>0, <2>1 DEF Apps!EveryProcessIsOwned, Apps!Stoppable, Apps!Class
  <2> QED
    BY <2>2, <2>3 DEF Apps!IInv
<1>2. ASSUME NEW a \in One, NEW class \in Apps!Class, Apps!Exit(a, class)
      PROVE  Apps!IInv'
  <2>1. /\ v7[class][a] > 0 /\ v7' = [v7 EXCEPT ![class][a] = @ - 1]
        /\ \/ v6[class][a] = "running" /\ v6' = [v6 EXCEPT ![class][a] = "exited"]
           \/ v8 /\ UNCHANGED v6
        /\ UNCHANGED <<v1, v5, v8>>
    BY <1>2 DEF Apps!Exit
  <2>2. Apps!RuntimeType'
    <3>1. v6' \in [Apps!Class -> [One -> {"none", "running", "exited"}]]
      <4>1. v6[class] \in [One -> {"none", "running", "exited"}]
        BY <1>0
      <4>2. [v6[class] EXCEPT ![a] = "exited"] \in [One -> {"none", "running", "exited"}]
        BY <4>1
      <4>3. \/ v6' = [v6 EXCEPT ![class] = [v6[class] EXCEPT ![a] = "exited"]]
            \/ v6' = v6
        BY <2>1
      <4> QED
        BY <1>0, <4>2, <4>3
    <3>2. [v7[class] EXCEPT ![a] = @ - 1] \in [One -> Nat]
      <4>1. v7[class] \in [One -> Nat] /\ v7[class][a] > 0
        BY <1>0, <2>1
      <4> QED
        BY <4>1
    <3>3. v7' \in [Apps!Class -> [One -> Nat]]
      <4>1. v7' = [v7 EXCEPT ![class] = [v7[class] EXCEPT ![a] = @ - 1]] \/ v7' = v7
        BY <2>1
      <4> QED
        BY <1>0, <3>2, <4>1
    <3> QED
      BY <1>0, <2>1, <3>1, <3>3
  <2>3. Apps!EveryProcessIsOwned'
    BY <1>0, <2>1 DEF Apps!EveryProcessIsOwned, Apps!Stoppable
  <2> QED
    BY <2>2, <2>3 DEF Apps!IInv
<1>3. ASSUME NEW a \in One, Apps!Forget(a)
      PROVE  Apps!IInv'
  <2>1. PICK class \in Apps!Class :
          /\ v5[a] = class /\ v6[class][a] = "exited"
          /\ v5' = [v5 EXCEPT ![a] = "none"]
          /\ v6' = [v6 EXCEPT ![class][a] = "none"]
          /\ UNCHANGED <<v1, v7, v8>>
    BY <1>0, <1>3 DEF Apps!Forget
  <2>2. Apps!RuntimeType'
    <3>1. v6' \in [Apps!Class -> [One -> {"none", "running", "exited"}]]
      BY <1>0, <2>1
    <3>2. v7' \in [Apps!Class -> [One -> Nat]]
      BY <1>0, <2>1
    <3> QED
      BY <1>0, <2>1, <3>1, <3>2
  <2>3. Apps!EveryProcessIsOwned'
    BY <1>0, <2>1 DEF Apps!EveryProcessIsOwned, Apps!Stoppable, Apps!Class
  <2> QED
    BY <2>2, <2>3 DEF Apps!IInv
<1>4. CASE Apps!Restart
  <2>1. Apps!RuntimeType' /\ v8'
    BY <1>0, <1>4 DEF Apps!Restart
  <2> QED
    BY <2>1 DEF Apps!IInv, Apps!EveryProcessIsOwned
<1>5. ASSUME NEW a \in One, NEW m \in [class : Apps!Class, release : Apps!Release],
             Apps!Update(a, m)
      PROVE  Apps!IInv'
  <2>1. v1' \in [One -> [class : Apps!Class, release : Apps!Release]]
    BY <1>0, <1>5 DEF Apps!Update
  <2> QED
    BY <1>5, <2>1, AppsAside DEF Apps!Update
<1>6. CASE Apps!HostChanges \/ \E a \in One : Apps!VerifyPackage(a)
  BY <1>0, <1>6, AppsAside DEF Apps!HostChanges, Apps!VerifyPackage
<1> QED
  BY <1>1, <1>2, <1>3, <1>4, <1>5, <1>6 DEF Apps!Next

\* "oneProcessPerAppId", "prefixPolicy: per-app": for any number of applications,
\* each has one process at most, which the runtime can stop, and one provider in
\* its prefix, unless the runtime has lost sight of its processes.
THEOREM ProcessesAreOwned ==
  Spec => []ProcessesOwned
<1> DEFINE Inv == /\ focus = "windows" => Windows!IInv
                  /\ focus = "apps" => Apps!IInv
<1>1. Init => Inv
  BY WindowsInit, AppsInit DEF Init
<1>2. Inv /\ [Next]_slots => Inv'
  <2> SUFFICES ASSUME Inv, [Next]_slots
               PROVE  Inv'
    OBVIOUS
  <2>1. CASE focus = "windows" /\ Windows!Next /\ focus' = focus
    BY <2>1, WindowsStep
  <2>2. CASE focus = "apps" /\ Apps!Next /\ focus' = focus
    BY <2>2, AppsStep
  <2>3. CASE focus \notin {"windows", "apps"} /\ focus' = focus
    BY <2>3
  <2>4. CASE UNCHANGED slots
    BY <2>4, WindowsAside, AppsAside DEF slots, Apps!IInv, Apps!RuntimeType
  <2> QED
    BY <2>1, <2>2, <2>3, <2>4 DEF Next
<1>3. Inv => ProcessesOwned
  BY WindowsSafe DEF ProcessesOwned, Apps!IInv
<1> QED
  BY <1>1, <1>2, <1>3, PTL DEF Spec
-------------------------------------------------------------------------------
(* The AppImages.  v1 is the target, v2 the artifact, v3 the backups, v4 the *)
(* copies, v5 the journals, v6 where execute() is, v7 the plans, v8 the      *)
(* recovery, v9 what is expected, v10 whether it is spoiled.                 *)

LEMMA ImageInit ==
  ASSUME AppImage!Init
  PROVE  AppImage!IInv
<1> USE DEF AppImage!Init
<1>1. [operation |-> "none", content |-> NoOne, existed |-> FALSE] \in
        [operation : AppImage!Operation \cup {"none"},
         content : Other \cup {NoOne}, existed : BOOLEAN]
  OBVIOUS
<1>2. AppImage!ImageType
  BY <1>1 DEF AppImage!ImageType, AppImage!Phase
<1>3. AppImage!Unsettled = {}
  BY DEF AppImage!Unsettled, AppImage!Live
<1>4. AppImage!OneUndoable
  BY <1>3 DEF AppImage!OneUndoable, AppImage!SweepKnows
<1> QED
  BY <1>2, <1>4 DEF AppImage!IInv

\* Plans, copies, backups, journals and phases stay what they are.
LEMMA ImageTyped ==
  ASSUME AppImage!ImageType, AppImage!Next
  PROVE  AppImage!ImageType'
<1> USE DEF AppImage!ImageType, AppImage!Phase, AppImage!Goto, AppImage!files,
            AppImage!history
<1>1. ASSUME NEW t \in Pair, AppImage!Start(t)
      PROVE  AppImage!ImageType'
  <2>1. PICK o \in AppImage!Operation, c \in Other :
          v7' = [v7 EXCEPT ![t] = AppImage!Plan(o, c)]
    BY <1>1 DEF AppImage!Start
  <2>2. AppImage!Plan(o, c) \in
          [operation : AppImage!Operation \cup {"none"},
           content : Other \cup {NoOne}, existed : BOOLEAN]
    BY DEF AppImage!Plan, AppImage!Exists
  <2>3. v10' \in BOOLEAN
    BY <1>1 DEF AppImage!Start
  <2> QED
    BY <1>1, <2>1, <2>2, <2>3 DEF AppImage!Start
<1>2. ASSUME NEW t \in Pair, AppImage!Prepare(t)
      PROVE  AppImage!ImageType'
  <2>1. v5' = [v5 EXCEPT ![t] = "prepared"] \/ v5' = v5
    BY <1>2 DEF AppImage!Prepare
  <2>2. \E l \in {"backup", "copy", "done"} : v6' = [v6 EXCEPT ![t] = l]
    BY <1>2 DEF AppImage!Prepare
  <2> QED
    BY <1>2, <2>1, <2>2 DEF AppImage!Prepare
<1>3. ASSUME NEW t \in Pair, AppImage!Fails(t) \/ AppImage!Verify(t)
      PROVE  AppImage!ImageType'
  BY <1>3 DEF AppImage!Fails, AppImage!Verify
<1>4. ASSUME NEW t \in Pair, AppImage!Backup(t)
      PROVE  AppImage!ImageType'
  BY <1>4 DEF AppImage!Backup
<1>5. ASSUME NEW t \in Pair, AppImage!Copy(t)
      PROVE  AppImage!ImageType'
  BY <1>5 DEF AppImage!Copy
<1>6. ASSUME NEW t \in Pair, AppImage!Place(t)
      PROVE  AppImage!ImageType'
  BY <1>6 DEF AppImage!Place
<1>7. ASSUME NEW t \in Pair, AppImage!Commit(t)
      PROVE  AppImage!ImageType'
  BY <1>7 DEF AppImage!Commit
<1>8. ASSUME NEW t \in Pair, AppImage!Clean(t) \/ AppImage!Unplace(t)
      PROVE  AppImage!ImageType'
  BY <1>8 DEF AppImage!Clean, AppImage!Unplace
<1>9. ASSUME NEW t \in Pair, AppImage!Restore(t)
      PROVE  AppImage!ImageType'
  <2>1. v6' = [v6 EXCEPT ![t] = "note"] /\ UNCHANGED <<v2, v4, v5, v7, v8, v9>>
    BY <1>9 DEF AppImage!Restore
  <2>2. CASE v1' = v3[t] /\ v3' = [v3 EXCEPT ![t] = NoOne] /\ v10' = v10
    <3>1. v1' \in Other \cup {NoOne}
      BY <2>2
    <3>2. v3' \in [Pair -> Other \cup {NoOne}]
      BY <2>2
    <3>3. \A u \in Pair : v6'[u] = "idle" => v3'[u] = NoOne
      BY <2>1, <2>2
    <3> QED
      BY <2>1, <2>2, <3>1, <3>2, <3>3
  <2>3. CASE v1' = v1 /\ v3' = v3 /\ v10' = TRUE
    BY <2>1, <2>3
  <2> QED
    BY <1>9, <2>2, <2>3 DEF AppImage!Restore
<1>10. ASSUME NEW t \in Pair, AppImage!Note(t)
       PROVE  AppImage!ImageType'
  <2>1. v10' \in BOOLEAN
    BY <1>10 DEF AppImage!Note
  <2>2. v5' = [v5 EXCEPT ![t] = "recovered-after-error"] \/ v5' = v5
    BY <1>10 DEF AppImage!Note
  <2> QED
    BY <1>10, <2>1, <2>2 DEF AppImage!Note
<1>11. ASSUME NEW t \in Pair, AppImage!SweepFinds(t)
       PROVE  AppImage!ImageType'
  <2>1. v10' \in BOOLEAN
    BY <1>11 DEF AppImage!SweepFinds
  <2> QED
    BY <1>11, <2>1 DEF AppImage!SweepFinds
<1>12. CASE AppImage!Crash
  BY <1>12 DEF AppImage!Crash, AppImage!Live
<1>13. CASE AppImage!ArtifactChanges
  BY <1>13 DEF AppImage!ArtifactChanges
<1>14. CASE AppImage!SweepRemoves
  BY <1>14 DEF AppImage!SweepRemoves
<1>15. CASE AppImage!SweepRestores
  BY <1>15 DEF AppImage!SweepRestores
<1>16. CASE AppImage!SweepNotes
  BY <1>16 DEF AppImage!SweepNotes
<1> QED
  BY <1>1, <1>2, <1>3, <1>4, <1>5, <1>6, <1>7, <1>8, <1>9, <1>10, <1>11, <1>12,
     <1>13, <1>14, <1>15, <1>16 DEF AppImage!Next

\* A step of the transaction that works: it is the only one that is unsettled, and
\* nothing is being recovered.
LEMMA ImageAlone ==
  ASSUME AppImage!ImageType, AppImage!OneUndoable, NEW t \in Pair,
         t \in AppImage!Live, v10 => v10', v8' = v8,
         \A u \in Pair \ {t} : v5'[u] = v5[u] /\ v6'[u] = v6[u],
         ~v10 /\ ~v10' /\ v8 = AppImage!Idle /\ AppImage!Progress(t) =>
           IF t \in AppImage!Unsettled' THEN AppImage!Progress(t)' ELSE v1' = v9'
  PROVE  AppImage!OneUndoable'
<1> SUFFICES ASSUME ~v10'
             PROVE  /\ \A u, w \in AppImage!Unsettled' : u = w
                    /\ AppImage!Unsettled' = {} => v1' = v9'
                    /\ \A u \in AppImage!Unsettled' : AppImage!Progress(u)'
                    /\ AppImage!SweepKnows'
  BY DEF AppImage!OneUndoable
<1>1. /\ v8 = AppImage!Idle /\ AppImage!Progress(t)
      /\ \A u \in AppImage!Unsettled : u = t
  BY DEF AppImage!OneUndoable, AppImage!SweepKnows, AppImage!Unsettled
<1>2. AppImage!Unsettled' \subseteq {t}
  BY <1>1 DEF AppImage!Unsettled, AppImage!Live
<1>3. IF t \in AppImage!Unsettled' THEN AppImage!Progress(t)' ELSE v1' = v9'
  BY <1>1
<1>4. AppImage!SweepKnows'
  BY <1>1 DEF AppImage!SweepKnows, AppImage!Idle
<1> QED
  BY <1>2, <1>3, <1>4

\* Every step of execute() leaves what can be undone, or what it was to bring about.
LEMMA ImageExecutes ==
  ASSUME AppImage!IInv, NEW t \in Pair,
         \/ AppImage!Prepare(t) \/ AppImage!Fails(t) \/ AppImage!Backup(t)
         \/ AppImage!Copy(t) \/ AppImage!Verify(t) \/ AppImage!Place(t)
         \/ AppImage!Commit(t)
  PROVE  AppImage!OneUndoable'
<1> USE SystemAssumption
    DEF AppImage!NoneAssumption, AppImage!Goto, AppImage!files, AppImage!history,
        AppImage!Live, AppImage!Unsettled
<1>0. AppImage!ImageType /\ AppImage!OneUndoable
  BY DEF AppImage!IInv
<1>1. CASE AppImage!Prepare(t)
  <2>1. v6[t] = "digest"
    BY <1>1 DEF AppImage!Prepare
  <2>2. ASSUME AppImage!Progress(t)
        PROVE  IF t \in AppImage!Unsettled' THEN AppImage!Progress(t)' ELSE v1' = v9'
    BY <1>0, <1>1, <2>1, <2>2
    DEF AppImage!Prepare, AppImage!Progress, AppImage!ImageType, AppImage!Undoable,
        AppImage!Applicable
  <2> QED
    BY <1>0, <1>1, <2>1, <2>2, ImageAlone DEF AppImage!Prepare, AppImage!ImageType
<1>2. CASE AppImage!Fails(t)
  <2>2. ASSUME AppImage!Progress(t)
        PROVE  AppImage!Progress(t)'
    BY <1>0, <1>2, <2>2
    DEF AppImage!Fails, AppImage!Progress, AppImage!ImageType, AppImage!Undoable
  <2> QED
    BY <1>0, <1>2, <2>2, ImageAlone DEF AppImage!Fails, AppImage!ImageType
<1>3. CASE AppImage!Backup(t)
  <2>2. ASSUME AppImage!Progress(t)
        PROVE  AppImage!Progress(t)'
    BY <1>0, <1>3, <2>2
    DEF AppImage!Backup, AppImage!Progress, AppImage!ImageType, AppImage!Undoable
  <2> QED
    BY <1>0, <1>3, <2>2, ImageAlone DEF AppImage!Backup, AppImage!ImageType
<1>4. CASE AppImage!Copy(t)
  <2>2. ASSUME AppImage!Progress(t)
        PROVE  AppImage!Progress(t)'
    BY <1>0, <1>4, <2>2
    DEF AppImage!Copy, AppImage!Progress, AppImage!ImageType, AppImage!Undoable
  <2> QED
    BY <1>0, <1>4, <2>2, ImageAlone DEF AppImage!Copy, AppImage!ImageType
<1>5. CASE AppImage!Verify(t)
  <2>2. ASSUME AppImage!Progress(t)
        PROVE  AppImage!Progress(t)'
    BY <1>0, <1>5, <2>2
    DEF AppImage!Verify, AppImage!Progress, AppImage!ImageType, AppImage!Undoable
  <2> QED
    BY <1>0, <1>5, <2>2, ImageAlone DEF AppImage!Verify, AppImage!ImageType
<1>6. CASE AppImage!Place(t)
  <2>2. ASSUME AppImage!Progress(t)
        PROVE  AppImage!Progress(t)'
    BY <1>0, <1>6, <2>2
    DEF AppImage!Place, AppImage!Progress, AppImage!ImageType, AppImage!Undoable
  <2> QED
    BY <1>0, <1>6, <2>2, ImageAlone DEF AppImage!Place, AppImage!ImageType
<1>7. CASE AppImage!Commit(t)
  <2>2. ASSUME AppImage!Progress(t)
        PROVE  t \notin AppImage!Unsettled' /\ v1' = v9'
    BY <1>0, <1>7, <2>2
    DEF AppImage!Commit, AppImage!Progress, AppImage!ImageType, AppImage!Undoable
  <2> QED
    BY <1>0, <1>7, <2>2, ImageAlone DEF AppImage!Commit, AppImage!ImageType
<1> QED
  BY <1>1, <1>2, <1>3, <1>4, <1>5, <1>6, <1>7

\* The error branch undoes it.
LEMMA ImageUndoes ==
  ASSUME AppImage!IInv, NEW t \in Pair,
         \/ AppImage!Clean(t) \/ AppImage!Unplace(t) \/ AppImage!Restore(t)
         \/ AppImage!Note(t)
  PROVE  AppImage!OneUndoable'
<1> USE SystemAssumption
    DEF AppImage!NoneAssumption, AppImage!Goto, AppImage!files, AppImage!history,
        AppImage!Live, AppImage!Unsettled
<1>0. AppImage!ImageType /\ AppImage!OneUndoable
  BY DEF AppImage!IInv
<1>1. CASE AppImage!Clean(t)
  <2>2. ASSUME AppImage!Progress(t)
        PROVE  AppImage!Progress(t)'
    BY <1>0, <1>1, <2>2
    DEF AppImage!Clean, AppImage!Progress, AppImage!ImageType, AppImage!Undoable
  <2> QED
    BY <1>0, <1>1, <2>2, ImageAlone DEF AppImage!Clean, AppImage!ImageType
<1>2. CASE AppImage!Unplace(t)
  <2>2. ASSUME AppImage!Progress(t)
        PROVE  AppImage!Progress(t)'
    BY <1>0, <1>2, <2>2
    DEF AppImage!Unplace, AppImage!Progress, AppImage!ImageType, AppImage!Undoable
  <2> QED
    BY <1>0, <1>2, <2>2, ImageAlone DEF AppImage!Unplace, AppImage!ImageType
<1>3. CASE AppImage!Restore(t)
  <2>2. ASSUME AppImage!Progress(t), ~v10'
        PROVE  AppImage!Progress(t)'
    BY <1>0, <1>3, <2>2
    DEF AppImage!Restore, AppImage!Progress, AppImage!ImageType, AppImage!Undoable
  <2>3. v10 => v10'
    BY <1>3 DEF AppImage!Restore
  <2> QED
    BY <1>0, <1>3, <2>2, <2>3, ImageAlone DEF AppImage!Restore, AppImage!ImageType
<1>4. CASE AppImage!Note(t)
  <2>1. v10 => v10'
    BY <1>4 DEF AppImage!Note
  <2>2. ASSUME AppImage!Progress(t), ~v10'
        PROVE  IF t \in AppImage!Unsettled' THEN AppImage!Progress(t)' ELSE v1' = v9'
    <3>1. CASE v5' = [v5 EXCEPT ![t] = "recovered-after-error"]
               /\ (~v7[t].existed => v1 = NoOne)
      <4>1. v1 = v9
        BY <1>0, <1>4, <2>2, <3>1
        DEF AppImage!Note, AppImage!Progress, AppImage!Undoable, AppImage!ImageType
      <4>2. v1' = v9' /\ t \notin AppImage!Unsettled'
        BY <1>0, <1>4, <3>1, <4>1 DEF AppImage!Note, AppImage!ImageType
      <4> QED
        BY <4>2
    <3>2. CASE v5' = v5
      BY <1>0, <1>4, <2>2, <3>2
      DEF AppImage!Note, AppImage!Progress, AppImage!ImageType, AppImage!Undoable
    <3> QED
      BY <1>4, <2>2, <3>1, <3>2 DEF AppImage!Note
  <2> QED
    BY <1>0, <1>4, <2>1, <2>2, ImageAlone DEF AppImage!Note, AppImage!ImageType
<1> QED
  BY <1>1, <1>2, <1>3, <1>4

\* The recovery finds what can be undone, and undoes it.
LEMMA ImageSweeps ==
  ASSUME AppImage!IInv,
         \/ \E t \in Pair : AppImage!SweepFinds(t)
         \/ AppImage!SweepRemoves \/ AppImage!SweepRestores \/ AppImage!SweepNotes
  PROVE  AppImage!OneUndoable'
<1> USE SystemAssumption
    DEF AppImage!NoneAssumption, AppImage!files, AppImage!history
<1>0. AppImage!ImageType /\ AppImage!OneUndoable
  BY DEF AppImage!IInv
<1>1. SUFFICES ASSUME ~v10'
               PROVE  /\ \A u, w \in AppImage!Unsettled' : u = w
                      /\ AppImage!Unsettled' = {} => v1' = v9'
                      /\ \A u \in AppImage!Unsettled' : AppImage!Progress(u)'
                      /\ AppImage!SweepKnows'
  BY DEF AppImage!OneUndoable
<1>2. ~v10
  BY <1>0, <1>1
  DEF AppImage!SweepFinds, AppImage!SweepRemoves, AppImage!SweepRestores,
      AppImage!SweepNotes
<1>3. /\ \A u, w \in AppImage!Unsettled : u = w
      /\ \A u \in AppImage!Unsettled : AppImage!Progress(u)
      /\ AppImage!SweepKnows
  BY <1>0, <1>2 DEF AppImage!OneUndoable
<1>4. ASSUME NEW t \in Pair, AppImage!SweepFinds(t)
      PROVE  AppImage!OneUndoable'
  <2>1. AppImage!Live = {} /\ t \in AppImage!Unsettled
    BY <1>1, <1>4 DEF AppImage!SweepFinds, AppImage!Recoverable, AppImage!Unsettled
  <2>2. AppImage!Unsettled' = AppImage!Unsettled /\ AppImage!Live' = AppImage!Live
    BY <1>4 DEF AppImage!SweepFinds, AppImage!Unsettled, AppImage!Live
  <2>3. \A u \in AppImage!Unsettled : AppImage!Progress(u)'
    BY <1>3, <1>4, <2>1
    DEF AppImage!SweepFinds, AppImage!Progress, AppImage!Undoable, AppImage!Unsettled,
        AppImage!Live
  <2>4. AppImage!SweepKnows'
    BY <1>0, <1>4, <2>1, <2>2
    DEF AppImage!SweepFinds, AppImage!SweepKnows, AppImage!Recoverable
  <2> QED
    BY <1>3, <2>1, <2>2, <2>3, <2>4 DEF AppImage!OneUndoable
<1> DEFINE t == v8.tx
<1>5. ASSUME v8 # AppImage!Idle
      PROVE  /\ t \in Pair /\ AppImage!Live = {} /\ v5[t] = "prepared"
             /\ AppImage!Progress(t)
             /\ AppImage!Unsettled = {t} /\ v6[t] \in {"idle", "done", "dead"}
             /\ v8 \in [tx : Pair, saw : {"backup", "target", "neither", "removed", "undone"}]
  <2>1. /\ AppImage!Live = {} /\ v5[t] = "prepared" /\ t \in Pair
        /\ v8 \in [tx : Pair, saw : {"backup", "target", "neither", "removed", "undone"}]
    BY <1>0, <1>3, <1>5 DEF AppImage!SweepKnows, AppImage!ImageType
  <2>2. t \in AppImage!Unsettled
    BY <2>1 DEF AppImage!Unsettled
  <2> QED
    BY <1>3, <2>1, <2>2 DEF AppImage!Live
<1>6. CASE AppImage!SweepRemoves
  <2>1. /\ v8 # AppImage!Idle /\ v8.saw \in {"backup", "target", "neither"}
        /\ v8' = [v8 EXCEPT !.saw = IF @ = "backup" THEN "removed" ELSE "undone"]
        /\ v1' = IF \/ v8.saw = "backup"
                    \/ v8.saw = "target" /\ v7[t].operation = "install"
                 THEN NoOne ELSE v1
        /\ UNCHANGED <<v2, v3, v4, v5, v6, v7, v9, v10>>
    BY <1>6 DEF AppImage!SweepRemoves
  <2>2. AppImage!Unsettled' = {t} /\ AppImage!Live' = {} /\ v8'.tx = t
    BY <1>5, <2>1 DEF AppImage!Unsettled, AppImage!Live
  <2>3. AppImage!Undoable(t)'
    BY <1>3, <1>5, <2>1
    DEF AppImage!Progress, AppImage!Undoable, AppImage!SweepKnows, AppImage!Applicable
  <2>4. AppImage!Progress(t)'
    BY <1>5, <2>1, <2>3 DEF AppImage!Progress
  <2>5. AppImage!SweepKnows'
    BY <1>3, <1>5, <2>1, <2>2
    DEF AppImage!SweepKnows, AppImage!Progress, AppImage!Undoable, AppImage!Applicable
  <2> QED
    BY <2>2, <2>4, <2>5
<1>7. CASE AppImage!SweepRestores
  <2>1. v8 # AppImage!Idle /\ v8.saw = "removed" /\ v3[t] # NoOne
    BY <1>3, <1>7 DEF AppImage!SweepRestores, AppImage!SweepKnows
  <2>2. /\ v1' = v3[t] /\ v3' = [v3 EXCEPT ![t] = NoOne]
        /\ v8' = [v8 EXCEPT !.saw = "undone"]
        /\ UNCHANGED <<v2, v4, v5, v6, v7, v9, v10>>
    BY <1>7, <2>1 DEF AppImage!SweepRestores
  <2>3. AppImage!Unsettled' = {t} /\ AppImage!Live' = {} /\ v8'.tx = t
    BY <1>5, <2>1, <2>2 DEF AppImage!Unsettled, AppImage!Live
  <2>4. v1' = v9' /\ v3'[t] = NoOne
    BY <1>0, <1>5, <2>1, <2>2
    DEF AppImage!Progress, AppImage!Undoable, AppImage!ImageType
  <2>5. AppImage!Progress(t)'
    BY <1>5, <2>1, <2>2, <2>4 DEF AppImage!Progress, AppImage!Undoable
  <2>6. AppImage!SweepKnows'
    BY <1>5, <2>1, <2>2, <2>3, <2>4 DEF AppImage!SweepKnows
  <2> QED
    BY <2>3, <2>5, <2>6
<1>8. CASE AppImage!SweepNotes
  <2>1. /\ v8 # AppImage!Idle /\ v8.saw = "undone" /\ v8' = AppImage!Idle
        /\ v5' = [v5 EXCEPT ![t] = "recovered"]
        /\ UNCHANGED <<v1, v2, v3, v4, v6, v7, v9, v10>>
    BY <1>8 DEF AppImage!SweepNotes
  <2>2. AppImage!Unsettled' = {}
    BY <1>0, <1>5, <2>1 DEF AppImage!Unsettled, AppImage!Live, AppImage!ImageType
  <2>3. v1' = v9'
    BY <1>3, <2>1 DEF AppImage!SweepKnows
  <2>4. AppImage!SweepKnows'
    BY <2>1 DEF AppImage!SweepKnows, AppImage!Idle
  <2> QED
    BY <2>2, <2>3, <2>4
<1> QED
  BY <1>1, <1>4, <1>6, <1>7, <1>8 DEF AppImage!OneUndoable

\* A new transaction, the death of the process, another artifact.
LEMMA ImageStarts ==
  ASSUME AppImage!IInv,
         \/ \E t \in Pair : AppImage!Start(t)
         \/ AppImage!Crash \/ AppImage!ArtifactChanges
         \/ UNCHANGED <<v1, v2, v3, v4, v5, v6, v7, v8, v9, v10>>
  PROVE  AppImage!OneUndoable'
<1> USE SystemAssumption
    DEF AppImage!NoneAssumption, AppImage!files, AppImage!history, AppImage!Goto
<1>0. AppImage!ImageType /\ AppImage!OneUndoable
  BY DEF AppImage!IInv
<1>1. ASSUME NEW t \in Pair, AppImage!Start(t)
      PROVE  AppImage!OneUndoable'
  <2>1. PICK o \in AppImage!Operation, c \in Other :
          /\ AppImage!Valid(AppImage!Plan(o, c))
          /\ AppImage!Applicable(o, AppImage!Exists)
          /\ v7' = [v7 EXCEPT ![t] = AppImage!Plan(o, c)]
    BY <1>1 DEF AppImage!Start
  <2>2. v6[t] = "idle" /\ v6' = [v6 EXCEPT ![t] = "digest"] /\ v3[t] = NoOne
        /\ UNCHANGED <<v1, v2, v3, v4, v5, v8, v9>>
    BY <1>0, <1>1 DEF AppImage!Start, AppImage!ImageType
  <2>3. SUFFICES ASSUME ~v10'
                 PROVE  /\ \A u, w \in AppImage!Unsettled' : u = w
                        /\ AppImage!Unsettled' = {} => v1' = v9'
                        /\ \A u \in AppImage!Unsettled' : AppImage!Progress(u)'
                        /\ AppImage!SweepKnows'
    BY DEF AppImage!OneUndoable
  <2>4. ~v10 /\ AppImage!Unsettled = {}
    BY <1>1, <2>3 DEF AppImage!Start
  <2>5. v1 = v9 /\ AppImage!SweepKnows
    BY <1>0, <2>4 DEF AppImage!OneUndoable
  <2>6. v8 = AppImage!Idle
    BY <1>0, <2>4, <2>5
    DEF AppImage!SweepKnows, AppImage!Unsettled, AppImage!ImageType
  <2>7. AppImage!Unsettled' = {t}
    BY <1>0, <2>2, <2>4 DEF AppImage!Unsettled, AppImage!Live, AppImage!ImageType
  <2>8. v7'[t] = [operation |-> o, content |-> c, existed |-> v1 # NoOne]
    BY <1>0, <2>1 DEF AppImage!Plan, AppImage!Exists, AppImage!ImageType
  <2>9. v6'[t] = "digest" /\ v1' = v9' /\ v3'[t] = NoOne
    BY <1>0, <2>2, <2>5 DEF AppImage!ImageType
  <2>10. /\ v7'[t].operation \in AppImage!Operation /\ v7'[t].content \in Other
         /\ AppImage!Applicable(v7'[t].operation, v7'[t].existed)
         /\ v7'[t].existed <=> v9' # NoOne
    <3>1. v7'[t].operation = o /\ v7'[t].content = c
      BY <2>8
    <3>2. v7'[t].existed <=> v1 # NoOne
      <4>1. v7'[t] = AppImage!Plan(o, c)
        BY <1>0, <2>1 DEF AppImage!ImageType
      <4>2. AppImage!Plan(o, c).existed <=> v1 # NoOne
        BY Zenon DEF AppImage!Plan, AppImage!Exists
      <4> QED
        BY <4>1, <4>2, Zenon
    <3>3. v7'[t].existed <=> v9' # NoOne
      <4>1. v9' = v1
        BY <2>2, <2>5
      <4> QED
        BY <3>2, <4>1, Zenon
    <3>4. o = "install" <=> ~v7'[t].existed
      BY <2>1, <3>2 DEF AppImage!Applicable, AppImage!Exists
    <3> QED
      BY <3>1, <3>3, <3>4 DEF AppImage!Applicable
  <2>11. AppImage!Progress(t)'
    BY <2>9, <2>10 DEF AppImage!Progress, AppImage!Undoable, AppImage!Applicable
  <2>12. AppImage!SweepKnows'
    BY <2>2, <2>6 DEF AppImage!SweepKnows, AppImage!Idle
  <2> QED
    BY <2>7, <2>9, <2>11, <2>12
<1>2. CASE AppImage!Crash
  <2>1. /\ v6' = [t \in Pair |-> IF t \in AppImage!Live THEN "dead" ELSE v6[t]]
        /\ v8' = AppImage!Idle
        /\ UNCHANGED <<v1, v2, v3, v4, v5, v7, v9, v10>>
    BY <1>2 DEF AppImage!Crash
  <2>2. SUFFICES ASSUME ~v10
                 PROVE  /\ \A u, w \in AppImage!Unsettled' : u = w
                        /\ AppImage!Unsettled' = {} => v1' = v9'
                        /\ \A u \in AppImage!Unsettled' : AppImage!Progress(u)'
                        /\ AppImage!SweepKnows'
    BY <2>1 DEF AppImage!OneUndoable
  <2>3. AppImage!Unsettled' = {t \in Pair : v5[t] = "prepared"}
    BY <2>1 DEF AppImage!Unsettled, AppImage!Live
  <2>4. AppImage!Unsettled' \subseteq AppImage!Unsettled
    BY <2>3 DEF AppImage!Unsettled
  <2>5. AppImage!Unsettled' = {} => v1' = v9'
    <3>1. CASE AppImage!Unsettled = {}
      BY <1>0, <2>1, <2>2, <3>1 DEF AppImage!OneUndoable
    <3>2. ASSUME NEW t \in AppImage!Unsettled, AppImage!Unsettled' = {}
          PROVE  v1' = v9'
      <4>1. v5[t] # "prepared" /\ AppImage!Progress(t) /\ t \in AppImage!Live
        BY <1>0, <2>2, <2>3, <3>2
        DEF AppImage!OneUndoable, AppImage!Unsettled, AppImage!Live
      <4>2. v6[t] = "digest" /\ v1 = v9
        BY <4>1 DEF AppImage!Progress
      <4> QED
        BY <2>1, <4>2
    <3> QED
      BY <3>1, <3>2
  <2>6. ASSUME NEW u \in AppImage!Unsettled'
        PROVE  AppImage!Progress(u)'
    <3>1. AppImage!Progress(u) /\ u \in Pair /\ v5[u] = "prepared"
      BY <1>0, <2>2, <2>3, <2>4 DEF AppImage!OneUndoable
    <3>2. v6'[u] \in {"idle", "done", "dead"}
      BY <2>1, <3>1 DEF AppImage!Live
    <3> QED
      BY <2>1, <3>1, <3>2 DEF AppImage!Progress, AppImage!Undoable
  <2>7. \A u, w \in AppImage!Unsettled' : u = w
    BY <1>0, <2>2, <2>4 DEF AppImage!OneUndoable
  <2>8. AppImage!SweepKnows'
    BY <2>1 DEF AppImage!SweepKnows, AppImage!Idle
  <2> QED
    BY <2>5, <2>6, <2>7, <2>8
<1>3. CASE UNCHANGED <<v1, v3, v4, v5, v6, v7, v8, v9, v10>>
  BY <1>0, <1>3
  DEF AppImage!OneUndoable, AppImage!Unsettled, AppImage!Live, AppImage!Progress,
      AppImage!Undoable, AppImage!SweepKnows, AppImage!Idle
<1>4. CASE AppImage!ArtifactChanges
  BY <1>3, <1>4 DEF AppImage!ArtifactChanges
<1> QED
  BY <1>1, <1>2, <1>3, <1>4

\* "atomicReplace", "crash recovery": for any number of transactions and contents, a
\* package is replaced as a whole or not at all, wherever the processes die.
THEOREM ImagesAreReplacedWhole ==
  Spec => []AllOrNothing
<1> DEFINE Inv == focus = "appimage" => AppImage!IInv
<1>1. Init => Inv
  BY ImageInit DEF Init
<1>2. Inv /\ [Next]_slots => Inv'
  <2> SUFFICES ASSUME Inv, [Next]_slots, focus' = "appimage"
               PROVE  AppImage!IInv'
    OBVIOUS
  <2>1. CASE focus = "appimage" /\ AppImage!Next
    <3>1. AppImage!ImageType'
      BY <2>1, ImageTyped DEF AppImage!IInv
    <3>2. AppImage!OneUndoable'
      BY <2>1, ImageExecutes, ImageUndoes, ImageSweeps, ImageStarts DEF AppImage!Next
    <3> QED
      BY <3>1, <3>2 DEF AppImage!IInv
  <2>2. CASE UNCHANGED slots
    <3>1. AppImage!ImageType'
      BY <2>2 DEF slots, AppImage!IInv, AppImage!ImageType, AppImage!Idle
    <3>2. AppImage!OneUndoable'
      BY <2>2, ImageStarts DEF slots
    <3> QED
      BY <3>1, <3>2 DEF AppImage!IInv
  <2> QED
    BY <2>1, <2>2 DEF Next
<1>3. Inv => AllOrNothing
  BY DEF AllOrNothing, AppImage!AllOrNothing, AppImage!IInv, AppImage!OneUndoable
<1> QED
  BY <1>1, <1>2, <1>3, PTL DEF Spec
-------------------------------------------------------------------------------
(* The network calls.  v1 are the saved profiles, v2 the active ones, v3     *)
(* where a call is, v4 its plan, v5 its nmcli, v6 who was disturbed.         *)

LEMMA NetworkInit ==
  ASSUME Network!Init
  PROVE  Network!IInv
<1>1. Network!NotPlanned \in
        [operation : {"none", "activate", "deactivate"},
         profile : Other \cup {NoOne}, ifname : Third \cup {NoOne}]
  BY DEF Network!NotPlanned
<1>2. Network!NetworkType
  BY <1>1 DEF Network!Init, Network!NetworkType
<1>3. Network!RunsOnce
  BY DEF Network!Init, Network!RunsOnce
<1> QED
  BY <1>2, <1>3 DEF Network!IInv

\* A step that only moves calls along.
LEMMA NetworkMoves ==
  ASSUME Network!IInv, UNCHANGED <<v1, v2, v4, v6>>,
         NEW c \in Pair,
         NEW l \in {"planned", "authorize", "execute", "wait", "verify", "verified",
                    "failed"},
         v3' = [v3 EXCEPT ![c] = l],
         \/ UNCHANGED v5
         \/ v5[c] = "none" /\ l = "wait" /\ v5' = [v5 EXCEPT ![c] = "running"],
         l \in {"authorize", "execute"} => v3[c] \in {"planned", "authorize"},
         l \in {"verify", "verified"} => v5[c] = "ok", l # "planned"
  PROVE  Network!IInv'
<1>1. Network!NetworkType'
  BY DEF Network!IInv, Network!NetworkType
<1>2. Network!RunsOnce'
  BY DEF Network!IInv, Network!NetworkType, Network!RunsOnce, Network!AsPlanned
<1> QED
  BY <1>1, <1>2 DEF Network!IInv

\* A change of the network that spares no call whose nmcli has done its work.
LEMMA NetworkDisturbs ==
  ASSUME Network!IInv, UNCHANGED <<v3, v4, v5>>, v1' \subseteq v1,
         v2' \in [Other -> Third \cup {NoOne}], Network!Disturbed
  PROVE  Network!IInv'
BY DEF Network!IInv, Network!NetworkType, Network!RunsOnce, Network!Disturbed

\* What nmcli did stays so, or the call is one that was disturbed.
LEMMA NetworkStep ==
  ASSUME Network!IInv, Network!Next
  PROVE  Network!IInv'
<1> USE SystemAssumption
    DEF Network!NoneAssumption, Network!network, Network!Goto, Network!NetworkType
<1>0. Network!NetworkType /\ Network!RunsOnce
  BY DEF Network!IInv
<1>1. ASSUME NEW c \in Pair, Network!Plan(c)
      PROVE  Network!IInv'
  <2>1. v3[c] = "idle" /\ v3' = [v3 EXCEPT ![c] = "planned"] /\ UNCHANGED <<v1, v2, v5, v6>>
    BY <1>1 DEF Network!Plan
  <2>2. PICK p \in [operation : {"none", "activate", "deactivate"},
                    profile : Other \cup {NoOne}, ifname : Third \cup {NoOne}] :
          v4' = [v4 EXCEPT ![c] = p]
    BY <1>0, <1>1
    DEF Network!Plan, Network!Inventory, Network!PlanActivation, Network!PlanDeactivation
  <2>3. Network!NetworkType'
    BY <1>0, <2>1, <2>2
  <2>4. Network!RunsOnce'
    BY <1>0, <2>1, <2>2 DEF Network!RunsOnce, Network!AsPlanned
  <2> QED
    BY <2>3, <2>4 DEF Network!IInv
<1>2. ASSUME NEW c \in Pair, Network!CheckSaved(c)
      PROVE  Network!IInv'
  BY <1>2, NetworkMoves DEF Network!CheckSaved, Network!Probe
<1>3. ASSUME NEW c \in Pair, Network!Authorize(c)
      PROVE  Network!IInv'
  <2>1. v3[c] = "authorize" /\ UNCHANGED <<v1, v2, v4, v5, v6>>
    BY <1>3 DEF Network!Authorize
  <2>2. \E l \in {"execute", "failed"} : v3' = [v3 EXCEPT ![c] = l]
    BY <1>3 DEF Network!Authorize
  <2> QED
    BY <2>1, <2>2, NetworkMoves
<1>4. ASSUME NEW c \in Pair, Network!Execute(c)
      PROVE  Network!IInv'
  <2>1. v3[c] = "execute" /\ v5[c] = "none" /\ UNCHANGED <<v1, v2, v4, v6>>
    BY <1>0, <1>4 DEF Network!Execute, Network!Probe, Network!RunsOnce
  <2>2. \/ v3' = [v3 EXCEPT ![c] = "wait"] /\ v5' = [v5 EXCEPT ![c] = "running"]
        \/ v3' = [v3 EXCEPT ![c] = "failed"] /\ v5' = v5
    BY <1>0, <1>4 DEF Network!Execute, Network!Probe
  <2> QED
    BY <2>1, <2>2, NetworkMoves
<1>5. ASSUME NEW c \in Pair, Network!Nmcli(c)
      PROVE  Network!IInv'
  <2>1. v5[c] = "running" /\ UNCHANGED <<v1, v3, v4>>
    BY <1>5 DEF Network!Nmcli
  <2>2. CASE v5' = [v5 EXCEPT ![c] = "error"] /\ UNCHANGED <<v2, v6>>
    <3>1. Network!NetworkType'
      BY <1>0, <2>1, <2>2
    <3>2. Network!RunsOnce'
      BY <1>0, <2>1, <2>2 DEF Network!RunsOnce, Network!AsPlanned
    <3> QED
      BY <3>1, <3>2 DEF Network!IInv
  <2>3. ASSUME v4[c].profile \in v1, v5' = [v5 EXCEPT ![c] = "ok"], Network!Disturbs(c),
               \/ /\ v4[c].operation = "activate"
                  /\ \E i \in Third : /\ v4[c].ifname \in {NoOne, i}
                                      /\ Network!Up(v4[c].profile, i)
               \/ v4[c].operation = "deactivate" /\ Network!Down(v4[c].profile)
        PROVE  Network!IInv'
    <3>1. Network!AsPlanned(c)' /\ v2' \in [Other -> Third \cup {NoOne}]
      <4>1. v4[c].profile \in Other
        BY <1>0, <2>3
      <4>2. CASE v4[c].operation = "deactivate" /\ Network!Down(v4[c].profile)
        BY <1>0, <2>1, <4>1, <4>2 DEF Network!Down, Network!AsPlanned
      <4>3. ASSUME NEW i \in Third, v4[c].operation = "activate",
                   v4[c].ifname \in {NoOne, i}, Network!Up(v4[c].profile, i)
            PROVE  Network!AsPlanned(c)' /\ v2' \in [Other -> Third \cup {NoOne}]
        <5>1. v2' = [q \in Other |-> IF q = v4[c].profile THEN i
                                     ELSE IF v2[q] = i THEN NoOne ELSE v2[q]]
          BY <4>3 DEF Network!Up
        <5>2. v2'[v4[c].profile] = i
          BY <4>1, <5>1
        <5>3. v2' \in [Other -> Third \cup {NoOne}]
          BY <1>0, <5>1
        <5>4. i # NoOne
          OBVIOUS
        <5> QED
          BY <2>1, <4>3, <5>2, <5>3, <5>4 DEF Network!AsPlanned
      <4> QED
        BY <2>3, <4>2, <4>3
    <3>2. v6' = v6 \cup {d \in Pair \ {c} : v5[d] = "ok"}
      BY <2>3 DEF Network!Disturbs
    <3>3. Network!NetworkType'
      BY <1>0, <2>1, <2>3, <3>1, <3>2
    <3>4. Network!RunsOnce'
      <4>1. ASSUME NEW d \in Pair, d # c
            PROVE  v5'[d] = "ok" => d \in v6'
        BY <1>0, <2>3, <3>2, <4>1
      <4> QED
        BY <1>0, <2>1, <2>3, <3>1, <4>1 DEF Network!RunsOnce
    <3> QED
      BY <3>3, <3>4 DEF Network!IInv
  <2> QED
    BY <1>5, <2>2, <2>3 DEF Network!Nmcli, Network!Command
<1>6. ASSUME NEW c \in Pair, Network!Executed(c)
      PROVE  Network!IInv'
  BY <1>6, NetworkMoves DEF Network!Executed
<1>7. ASSUME NEW c \in Pair, Network!Verify(c)
      PROVE  Network!IInv'
  <2>1. v3[c] = "verify" /\ v5[c] = "ok" /\ UNCHANGED <<v1, v2, v4, v5, v6>>
    BY <1>0, <1>7 DEF Network!Verify, Network!Probe, Network!RunsOnce
  <2>2. \E l \in {"verified", "failed"} : v3' = [v3 EXCEPT ![c] = l]
    BY <1>7 DEF Network!Verify, Network!Probe
  <2> QED
    BY <2>1, <2>2, NetworkMoves
<1>8. ASSUME NEW p \in Other, Network!Down(p)
      PROVE  v2' \in [Other -> Third \cup {NoOne}]
  BY <1>0, <1>8 DEF Network!Down
<1>9. CASE Network!NetworkChanges
  <2>1. UNCHANGED <<v1, v3, v4, v5>> /\ Network!Disturbed
    BY <1>9 DEF Network!NetworkChanges
  <2>2. ASSUME NEW p \in Other, NEW i \in Third, Network!Up(p, i)
        PROVE  v2' \in [Other -> Third \cup {NoOne}]
    BY <1>0, <2>2 DEF Network!Up
  <2>3. v2' \in [Other -> Third \cup {NoOne}]
    BY <1>0, <1>8, <1>9, <2>2 DEF Network!NetworkChanges
  <2> QED
    BY <2>1, <2>3, NetworkDisturbs
<1>10. ASSUME NEW p \in Other, Network!ProfileDeleted(p)
       PROVE  Network!IInv'
  BY <1>8, <1>10, NetworkDisturbs DEF Network!ProfileDeleted
<1> QED
  BY <1>1, <1>2, <1>3, <1>4, <1>5, <1>6, <1>7, <1>9, <1>10 DEF Network!Next

-------------------------------------------------------------------------------
(* Who asks polkit.  *)

\* Calls, grants and what polkit allowed stay what they are.
LEMMA AuthorizationTyped ==
  ASSUME Auth!AuthorizationType, Auth!Next
  PROVE  Auth!AuthorizationType'
<1> USE DEF Auth!AuthorizationType, Auth!Fails, Auth!Goto, Auth!Nothing, Auth!Request
<1>1. ASSUME NEW p \in One, Auth!Inventory(p)
      PROVE  Auth!AuthorizationType'
  <2>1. Auth!AtMachine(v1) \subseteq One
    BY DEF Auth!AtMachine, Auth!Login
  <2>2. [at |-> "list", seen |-> {}, left |-> {}] \in Auth!Lookup
    BY DEF Auth!Lookup
  <2> QED
    BY <1>1, <2>1, <2>2 DEF Auth!Inventory
<1>2. ASSUME NEW p \in One, Auth!ListSessions(p)
      PROVE  Auth!AuthorizationType'
  <2>1. v4[p] \in Auth!Lookup
    BY <1>2 DEF Auth!ListSessions, Auth!Lookup, Auth!Named, Auth!Asked
  <2> DEFINE left == {s \in Pair : v1[s] # NoOne}
             next == [v4[p] EXCEPT !.at = "show", !.left = left]
  <2>2. (v4' = [v4 EXCEPT ![p] = next] \/ Auth!Fails(p))
        /\ UNCHANGED <<v1, v2, v3, v5, v6, v7>>
    BY <1>2 DEF Auth!ListSessions
  <2>3. next \in Auth!Lookup
    <3>1. left \in SUBSET Pair
      OBVIOUS
    <3> HIDE DEF left
    <3> QED
      BY <2>1, <3>1 DEF Auth!Lookup
  <2> HIDE DEF next
  <2> QED
    BY <2>2, <2>3
<1>3. ASSUME NEW p \in One, NEW s \in Pair, Auth!ShowSession(p, s)
      PROVE  Auth!AuthorizationType'
  <2>1. v4[p] \in Auth!Lookup
    BY <1>3 DEF Auth!ShowSession, Auth!Lookup, Auth!Named, Auth!Asked
  <2>2. v1[s] # NoOne => Auth!NormalizeSession(v1[s]) \in Auth!Shown
    BY DEF Auth!NormalizeSession, Auth!Shown, Auth!Login, Auth!Eligible
  <2> DEFINE left == v4[p].left \ {s}
             seen == IF Auth!Probe /\ v1[s] # NoOne
                     THEN v4[p].seen \cup {Auth!NormalizeSession(v1[s])}
                     ELSE v4[p].seen
             next == [v4[p] EXCEPT !.left = left, !.seen = seen]
  <2>3. /\ v4' = [v4 EXCEPT ![p] = next]
        /\ UNCHANGED <<v1, v2, v3, v5, v6, v7>>
    BY <1>3 DEF Auth!ShowSession
  <2>4. next \in Auth!Lookup
    <3>1. left \in SUBSET Pair /\ seen \in SUBSET Auth!Shown
      BY <2>1, <2>2 DEF Auth!Lookup
    <3> HIDE DEF left, seen
    <3> QED
      BY <2>1, <3>1 DEF Auth!Lookup
  <2> HIDE DEF next
  <2> QED
    BY <2>3, <2>4
<1>4. ASSUME NEW p \in One, Auth!ResolveActiveActor(p)
      PROVE  Auth!AuthorizationType'
  <2>1. v4[p] \in Auth!Lookup
    BY <1>4 DEF Auth!ResolveActiveActor, Auth!Lookup, Auth!Named, Auth!Asked
  <2>2. \A actor \in Auth!SelectActiveLocalSession(v4[p].seen) :
          [at |-> "request", actor |-> actor.user, bound |-> TRUE] \in Auth!Named
    BY <2>1 DEF Auth!SelectActiveLocalSession, Auth!Lookup, Auth!Shown, Auth!Named
  <2> QED
    BY <1>4, <2>2 DEF Auth!ResolveActiveActor
<1>5. ASSUME NEW p \in One, NEW u \in One \cup {"root"}, Auth!NameActor(p, u)
      PROVE  Auth!AuthorizationType'
  <2>1. [at |-> "request", actor |-> u, bound |-> FALSE] \in Auth!Named
    BY DEF Auth!Named
  <2> QED
    BY <1>5, <2>1 DEF Auth!NameActor
<1>6. ASSUME NEW p \in One, NEW r \in Auth!Request, Auth!Authorize(p, r)
      PROVE  Auth!AuthorizationType'
  <2>1. v4[p] \in Auth!Named
    BY <1>6 DEF Auth!Authorize, Auth!Lookup, Auth!Named, Auth!Asked
  <2>2. [at |-> "pkcheck", request |-> r, bound |-> v4[p].bound] \in Auth!Asked
    BY <2>1 DEF Auth!Named, Auth!Asked
  <2> QED
    BY <1>6, <2>2 DEF Auth!Authorize
<1>7. ASSUME NEW p \in One, Auth!Allow(p) \/ Auth!Answer(p) \/ Auth!Refused(p)
      PROVE  Auth!AuthorizationType'
  <2>1. v4[p] \in Auth!Asked
    BY <1>7 DEF Auth!Allow, Auth!Answer, Auth!Refused, Auth!Lookup, Auth!Named, Auth!Asked
  <2>2. v4[p].request \in Auth!Request /\ v4[p].bound \in BOOLEAN /\ v3[p] \in One \cup {"root"}
    BY <2>1 DEF Auth!Asked
  <2> QED
    BY <1>7, <2>2 DEF Auth!Allow, Auth!Answer, Auth!Refused, Auth!Subject
<1>8. ASSUME NEW ss \in [Pair -> Auth!Login \cup {NoOne}], Auth!Sessions(ss)
      PROVE  Auth!AuthorizationType'
  <2>1. Auth!AtMachine(ss) \subseteq One
    BY DEF Auth!AtMachine, Auth!Login
  <2> QED
    BY <1>8, <2>1 DEF Auth!Sessions
<1>9. ASSUME NEW s \in Pair, Auth!LogIn(s) \/ Auth!LogOut(s) \/ Auth!SwitchTo(s)
      PROVE  Auth!AuthorizationType'
  <2>1. ASSUME NEW ss \in [Pair -> Auth!Login \cup {NoOne}]
        PROVE  Auth!Alone(ss, s) \in [Pair -> Auth!Login \cup {NoOne}]
    BY DEF Auth!Alone, Auth!Login
  <2>2. CASE Auth!LogIn(s)
    BY <1>8, <2>1, <2>2 DEF Auth!LogIn
  <2>3. CASE Auth!LogOut(s)
    BY <1>8, <2>3 DEF Auth!LogOut
  <2>4. CASE Auth!SwitchTo(s)
    <3>1. [v1 EXCEPT ![s].active = TRUE] \in [Pair -> Auth!Login \cup {NoOne}]
      BY <2>4 DEF Auth!SwitchTo, Auth!Login
    <3> QED
      BY <1>8, <2>1, <2>4, <3>1 DEF Auth!SwitchTo
  <2> QED
    BY <1>9, <2>2, <2>3, <2>4
<1>10. ASSUME NEW t \in DOMAIN v2, Auth!ReplaceTool(t)
       PROVE  Auth!AuthorizationType'
  BY <1>10 DEF Auth!ReplaceTool
<1> QED
  BY <1>1, <1>2, <1>3, <1>4, <1>5, <1>6, <1>7, <1>9, <1>10 DEF Auth!Next

\* A step of another process.
LEMMA OthersKeep ==
  ASSUME NEW p \in One, Auth!CallIsTrue(p), Auth!AtMachine(v1) = Auth!AtMachine(v1)',
         v3'[p] = v3[p], v4'[p] = v4[p], v5'[p] = v5[p],
         v6'[p] = v6[p], v7'[p] = v7[p]
  PROVE  Auth!CallIsTrue(p)'
BY DEF Auth!CallIsTrue

\* A step of the call of p, which leaves the sessions and the others alone.
LEMMA CallKeeps ==
  ASSUME Auth!AuthorizationInv, NEW p \in One, UNCHANGED <<v1, v3>>,
         \A q \in One \ {p} :
           /\ v4'[q] = v4[q] /\ v5'[q] = v5[q]
           /\ v6'[q] = v6[q] /\ v7'[q] = v7[q],
         Auth!CallIsTrue(p)',
         \A g \in v5'[p] :
           /\ g.actor = v3[p] /\ v6'[p] = {<<g.actor, g.request>>}
           /\ g.bound => g.actor \in v7'[p]
  PROVE  (\A q \in One : Auth!CallIsTrue(q)') /\ Auth!GrantIsOwners'
<1>1. Auth!AtMachine(v1)' = Auth!AtMachine(v1)
  BY DEF Auth!AtMachine
<1>2. ASSUME NEW q \in One
      PROVE  Auth!CallIsTrue(q)'
  BY <1>1, OthersKeep DEF Auth!AuthorizationInv
<1>3. Auth!GrantIsOwners'
  BY DEF Auth!AuthorizationInv, Auth!GrantIsOwners
<1> QED
  BY <1>2, <1>3

\* What is known of a call is true after every step.
LEMMA AuthorizationStep ==
  ASSUME Auth!AuthorizationInv, Auth!Next
  PROVE  Auth!AuthorizationInv'
<1> USE DEF Auth!AuthorizationType, Auth!Fails, Auth!Goto, Auth!Nothing, Auth!Request
<1>0. Auth!AuthorizationType /\ Auth!AuthorizationType'
  BY AuthorizationTyped DEF Auth!AuthorizationInv
<1> SUFFICES (\A q \in One : Auth!CallIsTrue(q)') /\ Auth!GrantIsOwners'
  BY <1>0 DEF Auth!AuthorizationInv
<1>1. ASSUME NEW p \in One, Auth!Inventory(p)
      PROVE  (\A q \in One : Auth!CallIsTrue(q)') /\ Auth!GrantIsOwners'
  <2>1. Auth!AtMachine(v1)' = Auth!AtMachine(v1)
    BY <1>1 DEF Auth!Inventory, Auth!AtMachine
  <2>2. /\ v7'[p] = Auth!AtMachine(v1) /\ v5'[p] = {}
        /\ \/ v4'[p] = [at |-> "list", seen |-> {}, left |-> {}]
           \/ v4'[p] = v4[p] /\ v4[p].at = "nothing"
    BY <1>0, <1>1 DEF Auth!Inventory
  <2>3. Auth!CallIsTrue(p)'
    BY <2>1, <2>2 DEF Auth!CallIsTrue
  <2>4. \A q \in One \ {p} :
          /\ v4'[q] = v4[q] /\ v5'[q] = v5[q]
          /\ v6'[q] = v6[q] /\ v7'[q] = v7[q]
    BY <1>0, <1>1 DEF Auth!Inventory
  <2> QED
    BY <1>1, <2>2, <2>3, <2>4, CallKeeps DEF Auth!Inventory
<1>2. ASSUME NEW p \in One, Auth!ListSessions(p)
      PROVE  (\A q \in One : Auth!CallIsTrue(q)') /\ Auth!GrantIsOwners'
  <2>1. Auth!AtMachine(v1)' = Auth!AtMachine(v1)
    BY <1>2 DEF Auth!ListSessions, Auth!AtMachine
  <2>2. /\ v4[p] \in Auth!Lookup /\ v4[p].at = "list"
        /\ UNCHANGED <<v1, v2, v3, v5, v6, v7>>
    BY <1>0, <1>2 DEF Auth!ListSessions, Auth!Lookup, Auth!Named, Auth!Asked
  <2>3. \/ v4'[p].at = "show" /\ v4'[p].seen = v4[p].seen
        \/ v4'[p].at = "nothing"
    BY <1>0, <1>2, <2>2 DEF Auth!ListSessions, Auth!Lookup
  <2>4. v5[p] = {} /\ Auth!CallIsTrue(p)'
    BY <2>1, <2>2, <2>3 DEF Auth!CallIsTrue, Auth!AuthorizationInv
  <2>5. \A q \in One \ {p} : v4'[q] = v4[q]
    BY <1>0, <1>2 DEF Auth!ListSessions
  <2> QED
    BY <2>2, <2>4, <2>5, CallKeeps
<1>3. ASSUME NEW p \in One, NEW s \in Pair, Auth!ShowSession(p, s)
      PROVE  (\A q \in One : Auth!CallIsTrue(q)') /\ Auth!GrantIsOwners'
  <2>1. Auth!AtMachine(v1)' = Auth!AtMachine(v1)
    BY <1>3 DEF Auth!ShowSession, Auth!AtMachine
  <2>2. /\ v4[p] \in Auth!Lookup /\ v4[p].at = "show"
        /\ UNCHANGED <<v1, v2, v3, v5, v6, v7>>
    BY <1>0, <1>3 DEF Auth!ShowSession, Auth!Lookup, Auth!Named, Auth!Asked
  <2> DEFINE n == Auth!NormalizeSession(v1[s])
  <2> DEFINE seen == IF Auth!Probe /\ v1[s] # NoOne THEN v4[p].seen \cup {n}
                     ELSE v4[p].seen
  <2>3. v4'[p].at = "show" /\ v4'[p].seen = seen
    <3>1. v4'[p] = [v4[p] EXCEPT !.left = @ \ {s}, !.seen = seen]
      BY <1>0, <1>3 DEF Auth!ShowSession
    <3> HIDE DEF seen
    <3> QED
      BY <2>2, <3>1 DEF Auth!Lookup
  <2>4. v1[s] # NoOne /\ n.eligibleActiveLocalUser => n.user \in v7[p]
    <3>1. SUFFICES ASSUME v1[s] # NoOne, n.eligibleActiveLocalUser
                   PROVE  n.user \in Auth!AtMachine(v1)
      BY DEF Auth!CallIsTrue, Auth!AuthorizationInv
    <3>2. n.user = v1[s].user
      BY DEF Auth!NormalizeSession
    <3>3. Auth!Eligible(v1[s])
      BY <3>1, Zenon DEF Auth!NormalizeSession
    <3> QED
      BY <3>1, <3>2, <3>3 DEF Auth!AtMachine, Auth!Eligible
  <2>5. v5[p] = {} /\ Auth!CallIsTrue(p)'
    BY <2>1, <2>2, <2>3, <2>4 DEF Auth!CallIsTrue, Auth!AuthorizationInv
  <2>6. \A q \in One \ {p} : v4'[q] = v4[q]
    BY <1>0, <1>3 DEF Auth!ShowSession
  <2> QED
    BY <2>2, <2>5, <2>6, CallKeeps
<1>4. ASSUME NEW p \in One, Auth!ResolveActiveActor(p)
      PROVE  (\A q \in One : Auth!CallIsTrue(q)') /\ Auth!GrantIsOwners'
  <2>1. Auth!AtMachine(v1)' = Auth!AtMachine(v1)
    BY <1>4 DEF Auth!ResolveActiveActor, Auth!AtMachine
  <2>2. v4[p].at = "show" /\ UNCHANGED <<v1, v2, v3, v5, v6, v7>>
    BY <1>4 DEF Auth!ResolveActiveActor
  <2>3. \/ v4'[p].at = "nothing"
        \/ \E actor \in v4[p].seen :
             /\ actor.eligibleActiveLocalUser
             /\ v4'[p] = [at |-> "request", actor |-> actor.user, bound |-> TRUE]
    <3>1. CASE Auth!Fails(p)
      BY <1>0, <3>1
    <3>2. ASSUME NEW actor \in Auth!SelectActiveLocalSession(v4[p].seen), Auth!Context(p, actor),
                 v4' = [v4 EXCEPT ![p] = [at |-> "request", actor |-> actor.user,
                                              bound |-> TRUE]]
          PROVE  \E a \in v4[p].seen :
                   /\ a.eligibleActiveLocalUser
                   /\ v4'[p] = [at |-> "request", actor |-> a.user, bound |-> TRUE]
      <4>1. actor \in v4[p].seen /\ actor.eligibleActiveLocalUser
        BY <3>2 DEF Auth!SelectActiveLocalSession
      <4>2. v4'[p] = [at |-> "request", actor |-> actor.user, bound |-> TRUE]
        BY <1>0, <3>2
      <4> QED
        BY <4>1, <4>2
    <3>3. \/ Auth!Fails(p)
          \/ \E actor \in Auth!SelectActiveLocalSession(v4[p].seen) :
               /\ Auth!Context(p, actor)
               /\ v4' = [v4 EXCEPT ![p] = [at |-> "request", actor |-> actor.user,
                                              bound |-> TRUE]]
      BY <1>4, Zenon DEF Auth!ResolveActiveActor
    <3> QED
      BY <3>1, <3>2, <3>3
  <2>4. v5[p] = {} /\ Auth!CallIsTrue(p)'
    <3>1. /\ v5[p] = {} /\ Auth!AtMachine(v1) \subseteq v7[p]
          /\ \A s \in v4[p].seen : s.eligibleActiveLocalUser => s.user \in v7[p]
      BY <2>2 DEF Auth!CallIsTrue, Auth!AuthorizationInv
    <3>2. CASE v4'[p].at = "nothing"
      BY <2>1, <2>2, <3>1, <3>2 DEF Auth!CallIsTrue
    <3>3. ASSUME NEW actor \in v4[p].seen, actor.eligibleActiveLocalUser,
                 v4'[p] = [at |-> "request", actor |-> actor.user, bound |-> TRUE]
          PROVE  Auth!CallIsTrue(p)'
      <4>1. v4'[p].at = "request" /\ v4'[p].actor \in v7[p]
        BY <3>1, <3>3
      <4> QED
        BY <2>1, <2>2, <3>1, <4>1 DEF Auth!CallIsTrue
    <3> QED
      BY <2>3, <3>1, <3>2, <3>3
  <2>5. \A q \in One \ {p} : v4'[q] = v4[q]
    BY <1>0, <1>4 DEF Auth!ResolveActiveActor
  <2> QED
    BY <2>2, <2>4, <2>5, CallKeeps
<1>5. ASSUME NEW p \in One, NEW u \in One \cup {"root"}, Auth!NameActor(p, u)
      PROVE  (\A q \in One : Auth!CallIsTrue(q)') /\ Auth!GrantIsOwners'
  <2>1. Auth!AtMachine(v1)' = Auth!AtMachine(v1)
    BY <1>5 DEF Auth!NameActor, Auth!AtMachine
  <2>2. /\ v5'[p] = {} /\ v4'[p] = [at |-> "request", actor |-> u, bound |-> FALSE]
        /\ UNCHANGED <<v1, v2, v3, v6, v7>>
    BY <1>0, <1>5 DEF Auth!NameActor
  <2>3. Auth!CallIsTrue(p)'
    BY <2>1, <2>2 DEF Auth!CallIsTrue, Auth!AuthorizationInv
  <2>4. \A q \in One \ {p} : v4'[q] = v4[q] /\ v5'[q] = v5[q]
    BY <1>0, <1>5 DEF Auth!NameActor
  <2> QED
    BY <2>2, <2>3, <2>4, CallKeeps
<1>6. ASSUME NEW p \in One, NEW r \in Auth!Request, Auth!Authorize(p, r)
      PROVE  (\A q \in One : Auth!CallIsTrue(q)') /\ Auth!GrantIsOwners'
  <2>1. Auth!AtMachine(v1)' = Auth!AtMachine(v1)
    BY <1>6 DEF Auth!Authorize, Auth!AtMachine
  <2>2. /\ v4[p].at = "request" /\ v6'[p] = {}
        /\ UNCHANGED <<v1, v2, v3, v5, v7>>
    BY <1>0, <1>6 DEF Auth!Authorize
  <2>3. \/ v4'[p].at = "nothing"
        \/ /\ v4[p].actor = v3[p]
           /\ v4'[p] = [at |-> "pkcheck", request |-> r, bound |-> v4[p].bound]
    BY <1>0, <1>6 DEF Auth!Authorize, Auth!ActorBinding, Auth!Subject
  <2>4. v5[p] = {} /\ Auth!CallIsTrue(p)'
    BY <2>1, <2>2, <2>3 DEF Auth!CallIsTrue, Auth!AuthorizationInv
  <2>5. \A q \in One \ {p} : v4'[q] = v4[q] /\ v6'[q] = v6[q]
    BY <1>0, <1>6 DEF Auth!Authorize
  <2> QED
    BY <2>2, <2>4, <2>5, CallKeeps
<1>7. ASSUME NEW p \in One, Auth!Allow(p)
      PROVE  (\A q \in One : Auth!CallIsTrue(q)') /\ Auth!GrantIsOwners'
  <2>1. Auth!AtMachine(v1)' = Auth!AtMachine(v1)
    BY <1>7 DEF Auth!Allow, Auth!AtMachine
  <2>2. /\ v4[p].at = "pkcheck" /\ v6'[p] = {<<v3[p], v4[p].request>>}
        /\ UNCHANGED <<v1, v2, v3, v4, v5, v7>>
    BY <1>0, <1>7 DEF Auth!Allow, Auth!Subject
  <2>3. v5[p] = {} /\ Auth!CallIsTrue(p)'
    BY <2>1, <2>2 DEF Auth!CallIsTrue, Auth!AuthorizationInv
  <2>4. \A q \in One \ {p} : v6'[q] = v6[q]
    BY <1>0, <1>7 DEF Auth!Allow
  <2> QED
    BY <2>2, <2>3, <2>4, CallKeeps
<1>8. ASSUME NEW p \in One, Auth!Answer(p) \/ Auth!Refused(p)
      PROVE  (\A q \in One : Auth!CallIsTrue(q)') /\ Auth!GrantIsOwners'
  <2>1. Auth!AtMachine(v1)' = Auth!AtMachine(v1)
    BY <1>8 DEF Auth!Answer, Auth!Refused, Auth!AtMachine
  <2>2. /\ v4[p].at = "pkcheck" /\ v4'[p].at = "nothing"
        /\ UNCHANGED <<v1, v2, v3, v6, v7>>
    BY <1>0, <1>8 DEF Auth!Answer, Auth!Refused
  <2>3. \/ v5'[p] = {}
        \/ /\ v6[p] # {}
           /\ v5'[p] = {[actor |-> v3[p], request |-> v4[p].request,
                            bound |-> v4[p].bound]}
    BY <1>0, <1>8 DEF Auth!Answer, Auth!Refused, Auth!Subject
  <2>4. Auth!CallIsTrue(p)'
    BY <2>1, <2>2 DEF Auth!CallIsTrue, Auth!AuthorizationInv
  <2>5. /\ v4[p].bound => v3[p] \in v7[p]
        /\ v6[p] # {} => v6[p] = {<<v3[p], v4[p].request>>}
    BY <2>2 DEF Auth!CallIsTrue, Auth!AuthorizationInv
  <2>6. ASSUME NEW g \in v5'[p]
        PROVE  /\ g.actor = v3[p] /\ v6'[p] = {<<g.actor, g.request>>}
               /\ g.bound => g.actor \in v7'[p]
    <3>1. g = [actor |-> v3[p], request |-> v4[p].request, bound |-> v4[p].bound]
      BY <2>3
    <3>2. g.actor = v3[p] /\ g.request = v4[p].request /\ g.bound = v4[p].bound
      BY <3>1
    <3> QED
      BY <2>2, <2>3, <2>5, <3>2
  <2>7. \A q \in One \ {p} : v4'[q] = v4[q] /\ v5'[q] = v5[q]
    BY <1>0, <1>8 DEF Auth!Answer, Auth!Refused
  <2> QED
    BY <2>2, <2>4, <2>6, <2>7, CallKeeps
<1>9. ASSUME NEW ss, Auth!Sessions(ss)
      PROVE  (\A q \in One : Auth!CallIsTrue(q)') /\ Auth!GrantIsOwners'
  <2>1. /\ v1' = ss /\ UNCHANGED <<v2, v3, v4, v5, v6>>
        /\ \A q \in One : v7'[q] = v7[q] \cup Auth!AtMachine(ss)
    BY <1>9 DEF Auth!Sessions
  <2>2. Auth!AtMachine(v1)' = Auth!AtMachine(ss)
    BY <2>1 DEF Auth!AtMachine
  <2>3. \A q \in One : Auth!CallIsTrue(q)'
    BY <2>1, <2>2 DEF Auth!CallIsTrue, Auth!AuthorizationInv
  <2>4. Auth!GrantIsOwners'
    BY <2>1 DEF Auth!GrantIsOwners, Auth!AuthorizationInv
  <2> QED
    BY <2>3, <2>4
<1>10. ASSUME NEW s \in Pair, Auth!LogIn(s) \/ Auth!LogOut(s) \/ Auth!SwitchTo(s)
       PROVE  (\A q \in One : Auth!CallIsTrue(q)') /\ Auth!GrantIsOwners'
  BY <1>9, <1>10 DEF Auth!LogIn, Auth!LogOut, Auth!SwitchTo
<1>11. ASSUME NEW t \in DOMAIN v2, Auth!ReplaceTool(t)
       PROVE  (\A q \in One : Auth!CallIsTrue(q)') /\ Auth!GrantIsOwners'
  <2>1. Auth!AtMachine(v1)' = Auth!AtMachine(v1)
    BY <1>11 DEF Auth!ReplaceTool, Auth!AtMachine
  <2> QED
    BY <1>11, <2>1 DEF Auth!ReplaceTool, Auth!CallIsTrue, Auth!GrantIsOwners, Auth!AuthorizationInv
<1> QED
  BY <1>1, <1>2, <1>3, <1>4, <1>5, <1>6, <1>7, <1>8, <1>10, <1>11 DEF Auth!Next

\* Nobody is at the machine and nothing is granted.
LEMMA AuthorizationInit ==
  Auth!Init => Auth!AuthorizationInv
<1> SUFFICES ASSUME Auth!Init
             PROVE  Auth!AuthorizationInv
  OBVIOUS
<1>1. Auth!AuthorizationType
  BY DEF Auth!Init, Auth!AuthorizationType
<1>2. Auth!AtMachine(v1) = {}
  BY DEF Auth!Init, Auth!AtMachine
<1>3. \A p \in One : Auth!CallIsTrue(p)
  BY <1>2 DEF Auth!Init, Auth!CallIsTrue, Auth!Nothing
<1>4. Auth!GrantIsOwners
  BY DEF Auth!Init, Auth!GrantIsOwners
<1> QED
  BY <1>1, <1>3, <1>4 DEF Auth!AuthorizationInv

LEMMA AuthorizationStutter ==
  ASSUME Auth!AuthorizationInv, UNCHANGED Auth!aVars
  PROVE  Auth!AuthorizationInv'
<1>1. Auth!AtMachine(v1)' = Auth!AtMachine(v1)
  BY DEF Auth!aVars, Auth!AtMachine
<1> QED
  BY <1>1 DEF Auth!aVars, Auth!AuthorizationInv, Auth!AuthorizationType, Auth!CallIsTrue,
     Auth!GrantIsOwners

\* "session-attribution-only", "postconditionVerification": for any sessions,
\* processes, calls and profiles, a grant is that of the user whom polkit asked, and
\* a call that says verified has done what its grant was for.
THEOREM ActorsAreConfined ==
  Spec => []ActorsConfined
<1> DEFINE Inv == /\ focus = "authorization" => Auth!AuthorizationInv
                  /\ focus = "network" => Network!IInv
<1>1. Init => Inv
  BY AuthorizationInit, NetworkInit DEF Init
<1>2. Inv /\ [Next]_slots => Inv'
  <2> SUFFICES ASSUME Inv, [Next]_slots
               PROVE  Inv'
    OBVIOUS
  <2>1. CASE focus = "authorization" /\ Auth!Next /\ focus' = focus
    BY <2>1, AuthorizationStep
  <2>2. CASE focus = "network" /\ Network!Next /\ focus' = focus
    BY <2>2, NetworkStep
  <2>3. CASE focus \notin {"authorization", "network"} /\ focus' = focus
    BY <2>3
  <2>4. CASE UNCHANGED slots
    <3>1. UNCHANGED Auth!aVars
      BY <2>4 DEF slots, Auth!aVars
    <3>2. Network!IInv => Network!IInv'
      BY <2>4
      DEF slots, Network!IInv, Network!NetworkType, Network!RunsOnce, Network!AsPlanned
    <3>3. focus' = focus
      BY <2>4 DEF slots
    <3> QED
      BY <3>1, <3>2, <3>3, AuthorizationStutter
  <2> QED
    BY <2>1, <2>2, <2>3, <2>4 DEF Next
<1>3. Inv => ActorsConfined
  BY DEF ActorsConfined, Auth!AuthorizationInv, Network!IInv,
         Network!RunsOnce, Network!AsPlanned, Network!VerifiedIsSo
<1> QED
  BY <1>1, <1>2, <1>3, PTL DEF Spec

-------------------------------------------------------------------------------
(* Vendor repositories: the review that is confirmed.                        *)

\* Each step keeps the scope of the one before it: what is verified, bound and shown.
LEMMA ReviewStep ==
  ASSUME Review!ReviewInv, Review!ReviewNext
  PROVE  Review!ReviewInv'
<1> USE DEF Review!ReviewInv, Review!ConfirmedAsShown
<1>1. CASE UNCHANGED <<v6, v7, v9, v10>>
  BY <1>1
<1>2. CASE Review!Collected
  <2>1. \A x \in v6' : x \in v6 \/ x.packages = {"open", "keyring"}
    BY <1>2 DEF Review!Collected
  <2>2. UNCHANGED <<v7, v9, v10>>
    BY <1>2 DEF Review!Collected, Review!rvWorld
  <2> QED
    BY <2>1, <2>2
<1>3. CASE Review!Bind
  <2>1. PICK r \in v4, e \in v6 : \E p \in SUBSET Review!Bindable(r, e) :
          v7' = v7 \cup {[packages |-> p, date |-> e.date]}
    BY <1>3 DEF Review!Bind
  <2>2. Review!Bindable(r, e) \subseteq {"open", "keyring"}
    BY DEF Review!Bindable
  <2>3. UNCHANGED <<v6, v9, v10>>
    BY <1>3 DEF Review!Bind, Review!rvWorld
  <2> QED
    BY <2>1, <2>2, <2>3
<1>4. CASE Review!ShowReview
  <2>1. PICK o \in v8 : \E b \in v7 :
          /\ b.packages \subseteq o.candidates
          /\ v9' = {[packages |-> o.candidates \cap b.packages, plan |-> b]}
    BY <1>4 DEF Review!ShowReview, Review!FoundBinding, Review!ScopeHolds
  <2>2. UNCHANGED <<v6, v7, v10>>
    BY <1>4 DEF Review!ShowReview, Review!rvWorld, Review!rvTrust
  <2> QED
    BY <2>1, <2>2
<1>5. CASE Review!Confirm
  <2>1. PICK s \in v9 :
          /\ v1 <= s.plan.date + 0
          /\ v10' = {[seen |-> s.packages, plan |-> s.plan, at |-> v1]}
    BY <1>5 DEF Review!Confirm, Review!ReviewStands, Review!Unexpired
  <2>2. v9' = {} /\ UNCHANGED <<v6, v7>>
    BY <1>5 DEF Review!Confirm, Review!rvWorld, Review!rvTrust
  <2> QED
    BY <2>1, <2>2
<1>6. CASE \/ Review!Tick \/ Review!Sign \/ Review!PublishIndex \/ Review!RotateKey \/ Review!EditPolicy
           \/ Review!LoadPolicy \/ Review!CollectBegins \/ Review!FetchFails
           \/ (\E r \in Review!Resources : Review!Fetched(r)) \/ Review!PlanOperation
  BY <1>1, <1>6
  DEF Review!Tick, Review!Sign, Review!PublishIndex, Review!RotateKey, Review!EditPolicy,
      Review!LoadPolicy, Review!CollectBegins, Review!FetchFails, Review!Fetched,
      Review!PlanOperation, Review!WorldOnly, Review!rvTrust
<1> QED
  BY <1>2, <1>3, <1>4, <1>5, <1>6 DEF Review!ReviewNext

\* The same of a profile that requires less than the repository has.
LEMMA AgingStep ==
  ASSUME Aging!ReviewInv, Aging!ReviewNext
  PROVE  Aging!ReviewInv'
<1> USE DEF Aging!ReviewInv, Aging!ConfirmedAsShown
<1>1. CASE UNCHANGED <<v6, v7, v9, v10>>
  BY <1>1
<1>2. CASE Aging!Collected
  <2>1. \A x \in v6' : x \in v6 \/ x.packages = {"open"}
    BY <1>2 DEF Aging!Collected
  <2>2. UNCHANGED <<v7, v9, v10>>
    BY <1>2 DEF Aging!Collected, Aging!rvWorld
  <2> QED
    BY <2>1, <2>2
<1>3. CASE Aging!Bind
  <2>1. PICK r \in v4, e \in v6 : \E p \in SUBSET Aging!Bindable(r, e) :
          v7' = v7 \cup {[packages |-> p, date |-> e.date]}
    BY <1>3 DEF Aging!Bind
  <2>2. Aging!Bindable(r, e) \subseteq {"open"}
    BY DEF Aging!Bindable
  <2>3. UNCHANGED <<v6, v9, v10>>
    BY <1>3 DEF Aging!Bind, Aging!rvWorld
  <2> QED
    BY <2>1, <2>2, <2>3
<1>4. CASE Aging!ShowReview
  <2>1. PICK o \in v8 : \E b \in v7 :
          /\ b.packages \subseteq o.candidates
          /\ v9' = {[packages |-> o.candidates \cap b.packages, plan |-> b]}
    BY <1>4 DEF Aging!ShowReview, Aging!FoundBinding, Aging!ScopeHolds
  <2>2. UNCHANGED <<v6, v7, v10>>
    BY <1>4 DEF Aging!ShowReview, Aging!rvWorld, Aging!rvTrust
  <2> QED
    BY <2>1, <2>2
<1>5. CASE Aging!Confirm
  <2>1. PICK s \in v9 :
          /\ v1 <= s.plan.date + 0
          /\ v10' = {[seen |-> s.packages, plan |-> s.plan, at |-> v1]}
    BY <1>5 DEF Aging!Confirm, Aging!ReviewStands, Aging!Unexpired
  <2>2. v9' = {} /\ UNCHANGED <<v6, v7>>
    BY <1>5 DEF Aging!Confirm, Aging!rvWorld, Aging!rvTrust
  <2> QED
    BY <2>1, <2>2
<1>6. CASE \/ Aging!Tick \/ Aging!Sign \/ Aging!PublishIndex \/ Aging!RotateKey \/ Aging!EditPolicy
           \/ Aging!LoadPolicy \/ Aging!CollectBegins \/ Aging!FetchFails
           \/ (\E r \in Aging!Resources : Aging!Fetched(r)) \/ Aging!PlanOperation
  BY <1>1, <1>6
  DEF Aging!Tick, Aging!Sign, Aging!PublishIndex, Aging!RotateKey, Aging!EditPolicy,
      Aging!LoadPolicy, Aging!CollectBegins, Aging!FetchFails, Aging!Fetched,
      Aging!PlanOperation, Aging!WorldOnly, Aging!rvTrust
<1> QED
  BY <1>2, <1>3, <1>4, <1>5, <1>6 DEF Aging!ReviewNext

\* At the start nothing has been collected, bound, shown or confirmed.
LEMMA ReviewsInit ==
  /\ Review!ReviewInit => Review!ReviewInv
  /\ Aging!ReviewInit => Aging!ReviewInv
BY DEF Review!ReviewInit, Review!ReviewInv, Review!ConfirmedAsShown,
       Aging!ReviewInit, Aging!ReviewInv, Aging!ConfirmedAsShown

\* "What the user confirms is what was shown": for any number of activations, the source
\* of one that is rolled back is as before; and for any edits of the vendor and of the
\* administrator between the steps, what is confirmed is what was shown, verified and
\* still fresh.
THEOREM VendorsAreTrusted ==
  Spec => []VendorTrusted
<1> DEFINE Inv == /\ focus = "vendor" => Vendor!IInv
                  /\ focus = "expiry" => Expiry!IInv
                  /\ focus = "review" => Review!ReviewInv
                  /\ focus = "aging" => Aging!ReviewInv
<1> USE SystemAssumption
<1>1. Init => Inv
  BY Vendor!VendorInit, Expiry!VendorInit, ReviewsInit DEF Init
<1>2. Inv /\ [Next]_slots => Inv'
  <2> SUFFICES ASSUME Inv, [Next]_slots
               PROVE  Inv'
    OBVIOUS
  <2>1. CASE focus = "vendor" /\ Vendor!Next /\ focus' = focus
    BY <2>1, Vendor!VendorStep
  <2>2. CASE focus = "expiry" /\ Expiry!Next /\ focus' = focus
    BY <2>2, Expiry!VendorStep
  <2>3. CASE focus = "review" /\ Review!ReviewNext /\ focus' = focus
    BY <2>3, ReviewStep
  <2>4. CASE focus = "aging" /\ Aging!ReviewNext /\ focus' = focus
    BY <2>4, AgingStep
  <2>5. CASE focus \notin {"vendor", "expiry", "review", "aging"} /\ focus' = focus
    BY <2>5
  <2>6. CASE UNCHANGED slots
    <3>1. UNCHANGED Vendor!vVars /\ UNCHANGED Expiry!vVars
      BY <2>6 DEF slots, Vendor!vVars, Vendor!vTrust, Vendor!vClaims,
                  Expiry!vVars, Expiry!vTrust, Expiry!vClaims
    <3>2. (Review!ReviewInv => Review!ReviewInv') /\ (Aging!ReviewInv => Aging!ReviewInv')
      BY <2>6 DEF slots, Review!ReviewInv, Review!ConfirmedAsShown, Aging!ReviewInv,
                  Aging!ConfirmedAsShown
    <3>3. focus' = focus
      BY <2>6 DEF slots
    <3> QED
      BY <3>1, <3>2, <3>3, Vendor!VendorStutter, Expiry!VendorStutter
  <2> QED
    BY <2>1, <2>2, <2>3, <2>4, <2>5, <2>6 DEF Next
<1>3. Inv => VendorTrusted
  BY Vendor!VendorRestored, Expiry!VendorRestored
  DEF VendorTrusted, Review!ReviewInv, Aging!ReviewInv
<1> QED
  BY <1>1, <1>2, <1>3, PTL DEF Spec

-------------------------------------------------------------------------------
(* Firmware and drivers: records, and the journals that all of them keep.    *)

\* The invariants of the firmware and driver services and of the vendor repositories,
\* each of behaviours of its own component.
JournalsInv ==
  /\ focus = "firmware" => Mutations!IInv
  /\ focus = "vendor" => Vendor!IInv
  /\ focus = "expiry" => Expiry!IInv

LEMMA JournalsInit == Init => JournalsInv
BY SystemAssumption, Mutations!DriverInit, Vendor!VendorInit, Expiry!VendorInit
DEF Init, JournalsInv

\* Nothing happens to a component whose slots are left alone.
LEMMA SlotsKept ==
  ASSUME UNCHANGED slots
  PROVE  UNCHANGED <<Mutations!dVars, Vendor!vVars, Expiry!vVars, focus>>
BY DEF slots, Mutations!dVars, Mutations!fwVars, Mutations!device, Mutations!flags,
       Vendor!vVars, Vendor!vTrust, Vendor!vClaims, Expiry!vVars, Expiry!vTrust,
       Expiry!vClaims

\* A step of a component is one of its own, and of the other components a stutter.
LEMMA JournalsStep == JournalsInv /\ [Next]_slots => JournalsInv'
<1> SUFFICES ASSUME JournalsInv, [Next]_slots
             PROVE  JournalsInv'
  OBVIOUS
<1> USE SystemAssumption DEF JournalsInv
<1>1. CASE focus = "firmware" /\ Mutations!DNext /\ focus' = focus
  BY <1>1, Mutations!DriverStep
<1>2. CASE focus = "vendor" /\ Vendor!Next /\ focus' = focus
  BY <1>2, Vendor!VendorStep
<1>3. CASE focus = "expiry" /\ Expiry!Next /\ focus' = focus
  BY <1>3, Expiry!VendorStep
<1>4. CASE focus \notin {"firmware", "vendor", "expiry"} /\ focus' = focus
  BY <1>4
<1>5. CASE UNCHANGED slots
  <2>1. UNCHANGED <<Mutations!dVars, Vendor!vVars, Expiry!vVars, focus>>
    BY <1>5, SlotsKept
  <2> QED
    BY <2>1, Mutations!DriverStutter, Vendor!VendorStutter, Expiry!VendorStutter
<1> QED
  BY <1>1, <1>2, <1>3, <1>4, <1>5 DEF Next

\* Whatever is verified, reconciled, interrupted or not written, and for any number of
\* drivers, updates and looks at them, a driver mutation is never ahead of the firmware
\* record it delegates to.
THEOREM MutationsAreFollowed ==
  Spec => []MutationsFollow
<1>1. JournalsInv => MutationsFollow
  BY Mutations!DriverFollows DEF JournalsInv, MutationsFollow
<1> QED
  BY <1>1, JournalsInit, JournalsStep, PTL DEF Spec

\* Over crashes, reboots and reconciliations, every firmware update and every activation
\* of a vendor repository takes a step of the journal all of them promise or none;
\* firmware is committed at the planned version and a repository is activated from
\* fresh metadata.
THEOREM JournalsAreKept ==
  Spec => JournalsKept
<1> USE SystemAssumption DEF JournalsInv
<1>1. ASSUME JournalsInv, [Next]_slots, focus = "firmware"
      PROVE  Mutations!FirmwareJournaledStep /\ Mutations!ObservedFirmwareIsTargetStep
  <2>1. [Mutations!Next]_(Mutations!fwVars)
    <3>1. CASE Mutations!DNext
      BY <3>1, Mutations!DriverSteps
    <3>2. CASE UNCHANGED slots
      BY <3>2, SlotsKept DEF Mutations!dVars
    <3> QED
      BY <1>1, <3>1, <3>2 DEF Next
  <2>2. Mutations!FirmwareInv
    BY <1>1 DEF Mutations!IInv
  <2> QED
    BY <2>1, <2>2, Mutations!FirmwareJournals, Mutations!FirmwareOnTarget
<1>2. ASSUME JournalsInv, [Next]_slots, focus = "vendor"
      PROVE  Vendor!ActivationJournaledStep
  <2>1. [Vendor!Next]_(Vendor!vVars)
    BY <1>2, SlotsKept DEF Next
  <2> QED
    BY <1>2, <2>1, Vendor!VendorJournaled
<1>3. ASSUME JournalsInv, [Next]_slots, focus = "expiry"
      PROVE  Expiry!ActivationJournaledStep /\ Expiry!ActivatesFreshMetadataStep
  <2>1. [Expiry!Next]_(Expiry!vVars)
    BY <1>3, SlotsKept DEF Next
  <2> QED
    BY <1>3, <2>1, Expiry!VendorJournaled, Expiry!VendorFresh
<1>4. JournalsInv /\ [Next]_slots =>
        /\ focus = "firmware" =>
             Mutations!FirmwareJournaledStep /\ Mutations!ObservedFirmwareIsTargetStep
        /\ focus = "vendor" => Vendor!ActivationJournaledStep
        /\ focus = "expiry" =>
             Expiry!ActivationJournaledStep /\ Expiry!ActivatesFreshMetadataStep
  BY <1>1, <1>2, <1>3
<1> QED
  BY <1>4, JournalsInit, JournalsStep, PTL DEF Spec, JournalsKept

-------------------------------------------------------------------------------
(* Firmware qualification.  v1 is the host, v2 the boot of the update, v3    *)
(* the sessions, v4 the commands, v5 the exported files, v6 where a session  *)
(* was applied.                                                              *)

\* No session has begun.
LEMMA QualificationInit ==
  ASSUME Qualification!Init
  PROVE  Qualification!QualificationInv
<1> USE DEF Qualification!Init, Qualification!Host
<1>1. v1 \in Qualification!Host /\ v1.boot = 1
  OBVIOUS
<1>2. Qualification!QualificationType
  BY <1>1 DEF Qualification!QualificationType, Qualification!Records, Qualification!State
<1>3. \A q \in Pair :
        /\ Qualification!Dated(v3[q]) /\ Qualification!AppliedInPlace(q)
        /\ Qualification!PastApply(q) /\ Qualification!SawReboot(q)
  BY <1>1 DEF Qualification!Dated, Qualification!AppliedInPlace, Qualification!PastApply,
              Qualification!SawReboot, Qualification!Accepted
<1> QED
  BY <1>2, <1>3 DEF Qualification!QualificationInv

\* A command that ends writes what it made of the session it read: the preflight stays,
\* and nothing is claimed that the update and the reboot do not bear out.
LEMMA SessionWritten ==
  ASSUME Qualification!QualificationInv, NEW c \in Other, v4[c] # Qualification!Idle,
         NEW s \in Qualification!Records, s.before = v4[c].seen.before, s.state # "none",
         Qualification!Dated(s),
         s.state # "apply-failed-needs-review" => v6[v4[c].q].boot # 0,
         s.state = "qualified" \/ Qualification!Accepted(v4[c].q) =>
           s.before.boot < s.after.boot,
         v3' = [v3 EXCEPT ![v4[c].q] = s], v4' = [v4 EXCEPT ![c] = Qualification!Idle],
         UNCHANGED <<v1, v2, v5, v6>>
  PROVE  Qualification!QualificationInv'
<1> DEFINE q == v4[c].q
<1> USE DEF Qualification!QualificationInv, Qualification!QualificationType
<1>1. Qualification!CommandHolds(c) /\ q \in Pair
  OBVIOUS
<1>2. v3[q].before = s.before /\ v3[q].state # "none"
  BY <1>1 DEF Qualification!CommandHolds
<1>3. Qualification!QualificationType'
  BY <1>1
<1>4. ASSUME NEW r \in Pair
      PROVE  /\ Qualification!Dated(v3[r])' /\ Qualification!AppliedInPlace(r)'
             /\ Qualification!PastApply(r)' /\ Qualification!SawReboot(r)'
  <2> USE DEF Qualification!Dated, Qualification!AppliedInPlace, Qualification!PastApply,
              Qualification!SawReboot, Qualification!Accepted, Qualification!Hint
  <2>1. CASE r # q
    BY <1>1, <2>1
  <2>2. CASE r = q
    <3>1. v3'[r] = s
      BY <1>1, <2>2
    <3> QED
      BY <1>1, <1>2, <2>2, <3>1
  <2> QED
    BY <2>1, <2>2
<1>5. ASSUME NEW d \in Other, v4'[d] # Qualification!Idle
      PROVE  Qualification!CommandHolds(d)'
  <2>1. v4'[d] = v4[d] /\ Qualification!CommandHolds(d) /\ v4[d].q \in Pair
    BY <1>5
  <2>2. v3'[v4[d].q].before = v3[v4[d].q].before /\ v3'[v4[d].q].state # "none"
    BY <1>1, <1>2, <2>1 DEF Qualification!CommandHolds
  <2> QED
    BY <2>1, <2>2 DEF Qualification!CommandHolds, Qualification!Dated, Qualification!Hint
<1> QED
  BY <1>3, <1>4, <1>5

\* A command that reads a session to which the update has been applied, or one whose
\* preflight was in this boot, begins; sessions and host stay.
LEMMA CommandBegins ==
  ASSUME Qualification!QualificationInv, NEW c \in Other, NEW q \in Pair,
         NEW k \in Qualification!Commands, NEW state \in SUBSET Qualification!State,
         Qualification!Read(c, k, q, state), "none" \notin state,
         k \in {"apply", "applied"} => v3[q].before = v1 /\ ~Qualification!Hint(v1),
         k # "apply" => v6[q].boot # 0,
         UNCHANGED <<v1, v2, v3, v5, v6>>
  PROVE  Qualification!QualificationInv'
<1> USE DEF Qualification!QualificationInv, Qualification!QualificationType
<1> DEFINE m == [command |-> k, q |-> q, seen |-> v3[q]]
<1>1. v4' = [v4 EXCEPT ![c] = m] /\ v3[q].state # "none"
  BY DEF Qualification!Read
<1>2. m.command = k /\ m.q = q /\ m.seen = v3[q]
      /\ m \in [command : Qualification!Commands, q : Pair, seen : Qualification!Records]
  OBVIOUS
<1> HIDE DEF m
<1>3. Qualification!QualificationType'
  BY <1>1, <1>2
<1>4. \A r \in Pair :
        /\ Qualification!Dated(v3[r])' /\ Qualification!AppliedInPlace(r)'
        /\ Qualification!PastApply(r)' /\ Qualification!SawReboot(r)'
  BY DEF Qualification!Dated, Qualification!AppliedInPlace, Qualification!PastApply,
         Qualification!SawReboot, Qualification!Accepted, Qualification!Hint
<1>5. ASSUME NEW d \in Other, v4'[d] # Qualification!Idle
      PROVE  Qualification!CommandHolds(d)'
  <2> USE DEF Qualification!CommandHolds, Qualification!Dated, Qualification!Hint
  <2>1. CASE d = c
    <3>1. v4'[d] = m
      BY <1>1, <2>1
    <3> QED
      BY <1>1, <1>2, <3>1
  <2>2. CASE d # c
    <3>1. v4'[d] = v4[d]
      BY <1>1, <2>2
    <3> QED
      BY <1>5, <3>1
  <2> QED
    BY <2>1, <2>2
<1> QED
  BY <1>3, <1>4, <1>5

\* The commands of the tool, steps of the world, and what they keep.
LEMMA QualificationStep ==
  ASSUME Qualification!QualificationInv, Qualification!Next
  PROVE  Qualification!QualificationInv'
<1> USE DEF Qualification!QualificationInv
<1>1. ASSUME NEW q \in Pair, Qualification!Prepare(q)
      PROVE  Qualification!QualificationInv'
  <2> DEFINE s == [v3[q] EXCEPT !.state = "prepared", !.before = v1, !.after = v1]
  <2> USE DEF Qualification!QualificationType
  <2>1. /\ v3[q].state = "none" /\ v3' = [v3 EXCEPT ![q] = s]
        /\ UNCHANGED <<v1, v2, v4, v5, v6>>
    BY <1>1 DEF Qualification!Prepare, Qualification!Evidence
  <2>2. s \in Qualification!Records /\ s.state = "prepared" /\ s.before = v1 /\ s.after = v1
    <3>1. v3[q] \in [state : Qualification!State, before : Qualification!Host,
                     after : Qualification!Host]
      BY DEF Qualification!Records
    <3>2. v1 \in Qualification!Host /\ "prepared" \in Qualification!State
      BY DEF Qualification!State
    <3> HIDE DEF Qualification!QualificationType, Qualification!QualificationInv
    <3> QED
      BY <3>1, <3>2 DEF Qualification!Records
  <2> HIDE DEF s
  <2>3. Qualification!QualificationType'
    BY <2>1, <2>2
  <2>4. ASSUME NEW r \in Pair
        PROVE  /\ Qualification!Dated(v3[r])' /\ Qualification!AppliedInPlace(r)'
               /\ Qualification!PastApply(r)' /\ Qualification!SawReboot(r)'
    <3> USE DEF Qualification!Dated, Qualification!AppliedInPlace, Qualification!PastApply,
                Qualification!SawReboot, Qualification!Accepted, Qualification!Hint
    <3>1. CASE r = q
      <4>1. v3'[r] = s /\ v6[q].boot = 0
        BY <2>1, <3>1
      <4> QED
        BY <2>1, <2>2, <3>1, <4>1 DEF Qualification!Host
    <3>2. CASE r # q
      BY <2>1, <3>2
    <3> QED
      BY <3>1, <3>2
  <2>5. ASSUME NEW d \in Other, v4'[d] # Qualification!Idle
        PROVE  Qualification!CommandHolds(d)'
    <3>1. v4'[d] = v4[d] /\ Qualification!CommandHolds(d) /\ v4[d].q # q
      BY <2>1, <2>5 DEF Qualification!CommandHolds
    <3> QED
      BY <2>1, <3>1 DEF Qualification!CommandHolds, Qualification!Dated, Qualification!Hint
  <2> QED
    BY <2>3, <2>4, <2>5
<1>2. ASSUME NEW q \in Pair, Qualification!Export(q)
      PROVE  Qualification!QualificationInv'
  <2>1. /\ v3[q].state = "qualified" /\ UNCHANGED <<v1, v2, v3, v4, v6>>
        /\ v5' \in {[v5 EXCEPT ![q] = "blank"], [v5 EXCEPT ![q] = "bundle"]}
    BY <1>2 DEF Qualification!Export, Qualification!Exportable
  <2>2. Qualification!QualificationType'
    BY <2>1 DEF Qualification!QualificationType
  <2>3. \A r \in Pair :
          /\ Qualification!Dated(v3[r])' /\ Qualification!AppliedInPlace(r)'
          /\ Qualification!PastApply(r)' /\ Qualification!SawReboot(r)'
    BY <2>1 DEF Qualification!QualificationType,
                Qualification!Dated, Qualification!AppliedInPlace, Qualification!PastApply,
                Qualification!SawReboot, Qualification!Accepted, Qualification!Hint
  <2>4. \A d \in Other : v4'[d] # Qualification!Idle => Qualification!CommandHolds(d)'
    BY <2>1 DEF Qualification!CommandHolds, Qualification!Dated, Qualification!Hint
  <2> QED
    BY <2>2, <2>3, <2>4
<1>3. ASSUME NEW c \in Other, NEW q \in Pair, Qualification!Apply(c, q)
      PROVE  Qualification!QualificationInv'
  BY <1>3, CommandBegins
  DEF Qualification!Apply, Qualification!Evidence, Qualification!Commands,
      Qualification!State
<1>4. ASSUME NEW c \in Other, NEW q \in Pair, Qualification!Verify(c, q)
      PROVE  Qualification!QualificationInv'
  <2>1. v6[q].boot # 0
    BY <1>4 DEF Qualification!Verify, Qualification!Read, Qualification!PastApply
  <2> QED
    BY <1>4, <2>1, CommandBegins
    DEF Qualification!Verify, Qualification!Commands, Qualification!State
<1>5. ASSUME NEW c \in Other, NEW q \in Pair, Qualification!Finalize(c, q)
      PROVE  Qualification!QualificationInv'
  <2>1. v6[q].boot # 0
    BY <1>5 DEF Qualification!Finalize, Qualification!Read, Qualification!PastApply
  <2> QED
    BY <1>5, <2>1, CommandBegins
    DEF Qualification!Finalize, Qualification!Commands, Qualification!State
<1>6. ASSUME NEW c \in Other, Qualification!Flash(c)
      PROVE  Qualification!QualificationInv'
  <2> DEFINE q == v4[c].q
  <2> USE DEF Qualification!QualificationType
  <2>1. /\ v4[c].command = "apply" /\ v2' = v1.boot /\ v6' = [v6 EXCEPT ![q] = v1]
        /\ v4' = [v4 EXCEPT ![c].command = "applied"] /\ UNCHANGED <<v1, v3, v5>>
    BY <1>6 DEF Qualification!Flash, Qualification!Runs
  <2>2. v4[c] # Qualification!Idle /\ q \in Pair /\ Qualification!CommandHolds(c)
    BY <2>1 DEF Qualification!Idle
  <2>3. /\ v1.boot \in Nat \ {0} /\ v3[q].before = v1 /\ ~Qualification!Hint(v1)
        /\ v3[q].state # "none"
    BY <2>1, <2>2 DEF Qualification!CommandHolds, Qualification!Host
  <2>4. /\ v4'[c].command = "applied" /\ v4'[c].q = q /\ v4'[c].seen = v4[c].seen
        /\ \A d \in Other \ {c} : v4'[d] = v4[d]
    BY <2>1, <2>2
  <2>5. Qualification!QualificationType'
    <3>1. v4' \in [Other -> {Qualification!Idle} \cup
                     [command : Qualification!Commands, q : Pair, seen : Qualification!Records]]
      BY <2>1, <2>2 DEF Qualification!Commands
    <3>2. v6' \in [Pair -> [machine : {"m1", "m2", "vm"}, boot : Nat]]
      BY <2>1, <2>2 DEF Qualification!Host
    <3> QED
      BY <2>1, <2>3, <3>1, <3>2
  <2>6. v6'[q] = v1 /\ \A r \in Pair \ {q} : v6'[r] = v6[r]
    BY <2>1, <2>2
  <2>7. \A r \in Pair :
          /\ Qualification!Dated(v3[r])' /\ Qualification!AppliedInPlace(r)'
          /\ Qualification!PastApply(r)' /\ Qualification!SawReboot(r)'
    BY <2>1, <2>3, <2>6
    DEF Qualification!Dated, Qualification!AppliedInPlace, Qualification!PastApply,
        Qualification!SawReboot, Qualification!Accepted, Qualification!Hint
  <2>8. ASSUME NEW d \in Other, v4'[d] # Qualification!Idle
        PROVE  Qualification!CommandHolds(d)'
    <3> USE DEF Qualification!CommandHolds, Qualification!Dated, Qualification!Hint
    <3>1. CASE d = c
      BY <2>1, <2>2, <2>3, <2>4, <2>6, <3>1
    <3>2. CASE d # c
      <4>1. v4'[d] = v4[d] /\ Qualification!CommandHolds(d) /\ v4[d].q \in Pair
        BY <2>4, <2>8, <3>2
      <4> QED
        BY <2>1, <2>3, <2>6, <4>1
    <3> QED
      BY <3>1, <3>2
  <2> QED
    BY <2>5, <2>7, <2>8
<1>7. ASSUME NEW c \in Other, Qualification!Applied(c)
      PROVE  Qualification!QualificationInv'
  <2> DEFINE s == [v4[c].seen EXCEPT !.state = "applied-verification-required"]
  <2>1. /\ v4[c].command = "applied" /\ v3' = [v3 EXCEPT ![v4[c].q] = s]
        /\ v4' = [v4 EXCEPT ![c] = Qualification!Idle] /\ UNCHANGED <<v1, v2, v5, v6>>
    BY <1>7 DEF Qualification!Applied, Qualification!Runs, Qualification!Ends,
                Qualification!Write
  <2>2. v4[c] # Qualification!Idle /\ v4[c].q \in Pair /\ Qualification!CommandHolds(c)
        /\ v4[c].seen \in Qualification!Records
    BY <2>1 DEF Qualification!Idle, Qualification!QualificationType
  <2>3. /\ s \in Qualification!Records /\ s.before = v4[c].seen.before
        /\ s.after = v4[c].seen.after /\ s.state = "applied-verification-required"
    BY <2>2 DEF Qualification!Records, Qualification!State
  <2> HIDE DEF s
  <2>4. Qualification!Dated(s) /\ v6[v4[c].q].boot # 0
    BY <2>1, <2>2, <2>3 DEF Qualification!CommandHolds, Qualification!Dated
  <2>5. ~Qualification!Accepted(v4[c].q)
    BY <2>1, <2>2
    DEF Qualification!CommandHolds, Qualification!SawReboot, Qualification!Dated,
        Qualification!QualificationType, Qualification!Host, Qualification!Records
  <2> QED
    BY <2>1, <2>2, <2>3, <2>4, <2>5, SessionWritten
<1>8. ASSUME NEW c \in Other, Qualification!ApplyFailed(c)
      PROVE  Qualification!QualificationInv'
  <2> DEFINE s == [v4[c].seen EXCEPT !.state = "apply-failed-needs-review"]
  <2>1. /\ v4[c].command \in {"apply", "applied"} /\ v3' = [v3 EXCEPT ![v4[c].q] = s]
        /\ v4' = [v4 EXCEPT ![c] = Qualification!Idle] /\ UNCHANGED <<v1, v2, v5, v6>>
    BY <1>8 DEF Qualification!ApplyFailed, Qualification!Ends, Qualification!Write
  <2>2. v4[c] # Qualification!Idle /\ v4[c].q \in Pair /\ Qualification!CommandHolds(c)
        /\ v4[c].seen \in Qualification!Records
    BY <2>1 DEF Qualification!Idle, Qualification!QualificationType
  <2>3. /\ s \in Qualification!Records /\ s.before = v4[c].seen.before
        /\ s.after = v4[c].seen.after /\ s.state = "apply-failed-needs-review"
    BY <2>2 DEF Qualification!Records, Qualification!State
  <2> HIDE DEF s
  <2>4. Qualification!Dated(s)
    BY <2>1, <2>2, <2>3 DEF Qualification!CommandHolds, Qualification!Dated
  <2>5. ~Qualification!Accepted(v4[c].q)
    BY <2>1, <2>2
    DEF Qualification!CommandHolds, Qualification!SawReboot, Qualification!Dated,
        Qualification!QualificationType, Qualification!Host, Qualification!Records
  <2> QED
    BY <2>1, <2>2, <2>3, <2>4, <2>5, SessionWritten
<1>9. ASSUME NEW c \in Other, NEW verdict \in BOOLEAN, Qualification!Verified(c, verdict)
      PROVE  Qualification!QualificationInv'
  <2> DEFINE e == Qualification!Eligible(v4[c].seen, v1, verdict)
             s == [v4[c].seen EXCEPT !.after = v1,
                     !.state = IF e THEN "ready-for-finalize" ELSE "verification-pending"]
  <2>1. /\ v4[c].command = "verify" /\ v3' = [v3 EXCEPT ![v4[c].q] = s]
        /\ v4' = [v4 EXCEPT ![c] = Qualification!Idle] /\ UNCHANGED <<v1, v2, v5, v6>>
    BY <1>9 DEF Qualification!Verified, Qualification!Runs, Qualification!Ends,
                Qualification!Write, Qualification!Evidence
  <2>2. v4[c] # Qualification!Idle /\ v4[c].q \in Pair /\ Qualification!CommandHolds(c)
        /\ v4[c].seen \in Qualification!Records /\ v1 \in Qualification!Host
    BY <2>1 DEF Qualification!Idle, Qualification!QualificationType
  <2>3. /\ s \in Qualification!Records /\ s.before = v4[c].seen.before
        /\ s.after = v1 /\ s.state \in {"ready-for-finalize", "verification-pending"}
    BY <2>2 DEF Qualification!Records, Qualification!State
  <2> HIDE DEF s
  <2>4. Qualification!Dated(s) /\ v6[v4[c].q].boot # 0
    BY <2>1, <2>2, <2>3
    DEF Qualification!CommandHolds, Qualification!Dated, Qualification!Host,
        Qualification!Records
  <2>5. Qualification!Accepted(v4[c].q) => s.before.boot < s.after.boot
    BY <2>2, <2>3
    DEF Qualification!CommandHolds, Qualification!SawReboot, Qualification!Dated,
        Qualification!QualificationType, Qualification!Host, Qualification!Records
  <2> QED
    BY <2>1, <2>2, <2>3, <2>4, <2>5, SessionWritten
<1>10. ASSUME NEW c \in Other, Qualification!Finalized(c)
       PROVE  Qualification!QualificationInv'
  <2> DEFINE s == [v4[c].seen EXCEPT !.state = "qualified", !.after = v1]
  <2>1. /\ v4[c].command = "finalize" /\ v3' = [v3 EXCEPT ![v4[c].q] = s]
        /\ v4' = [v4 EXCEPT ![c] = Qualification!Idle] /\ UNCHANGED <<v1, v2, v5, v6>>
        /\ v4[c].seen.before.boot # v1.boot
    BY <1>10 DEF Qualification!Finalized, Qualification!Runs, Qualification!Ends,
                 Qualification!Write, Qualification!Evidence, Qualification!Eligible
  <2>2. v4[c] # Qualification!Idle /\ v4[c].q \in Pair /\ Qualification!CommandHolds(c)
        /\ v4[c].seen \in Qualification!Records /\ v1 \in Qualification!Host
    BY <2>1 DEF Qualification!Idle, Qualification!QualificationType
  <2>3. /\ s \in Qualification!Records /\ s.before = v4[c].seen.before
        /\ s.after = v1 /\ s.state = "qualified"
    BY <2>2 DEF Qualification!Records, Qualification!State
  <2> HIDE DEF s
  <2>4. /\ s.before.boot \in Nat /\ v1.boot \in Nat
        /\ v4[c].seen.before.boot \in Nat /\ v4[c].seen.after.boot \in Nat
    BY <2>2, <2>3 DEF Qualification!Host, Qualification!Records
  <2>5. /\ v6[v4[c].q].boot # 0 /\ s.before.boot # v1.boot
        /\ v4[c].seen.before.boot <= v4[c].seen.after.boot
        /\ v4[c].seen.after.boot <= v1.boot
    BY <2>1, <2>2, <2>3 DEF Qualification!CommandHolds, Qualification!Dated
  <2>6. s.before.boot < s.after.boot /\ s.after.boot = v1.boot
    BY <2>3, <2>4, <2>5
  <2>7. Qualification!Dated(s)
    BY <2>4, <2>6 DEF Qualification!Dated
  <2> QED
    BY <2>1, <2>2, <2>3, <2>5, <2>6, <2>7, SessionWritten
<1>11. ASSUME NEW c \in Other, Qualification!Abandon(c)
       PROVE  Qualification!QualificationInv'
  BY <1>11
  DEF Qualification!Abandon, Qualification!Ends, Qualification!QualificationType,
      Qualification!Dated, Qualification!AppliedInPlace, Qualification!PastApply,
      Qualification!SawReboot, Qualification!Accepted, Qualification!Hint,
      Qualification!CommandHolds
<1>12. ASSUME NEW m \in {"m1", "m2", "vm"}, Qualification!Reboot(m)
       PROVE  Qualification!QualificationInv'
  <2>1. /\ v1' = [machine |-> m, boot |-> v1.boot + 1] /\ v2' \in {v2, 0}
        /\ v4' = [c \in Other |-> Qualification!Idle] /\ UNCHANGED <<v3, v5, v6>>
    BY <1>12 DEF Qualification!Reboot
  <2>2. v1' \in Qualification!Host /\ v1'.boot = v1.boot + 1 /\ v1.boot \in Nat
    BY <2>1 DEF Qualification!QualificationType, Qualification!Host
  <2>3. Qualification!QualificationType'
    BY <2>1, <2>2 DEF Qualification!QualificationType
  <2>4. \A r \in Pair :
          /\ Qualification!Dated(v3[r])' /\ Qualification!AppliedInPlace(r)'
          /\ Qualification!PastApply(r)' /\ Qualification!SawReboot(r)'
    BY <2>1, <2>2
    DEF Qualification!Dated, Qualification!AppliedInPlace, Qualification!PastApply,
        Qualification!SawReboot, Qualification!Accepted, Qualification!Hint,
        Qualification!QualificationType, Qualification!Records, Qualification!Host
  <2> QED
    BY <2>1, <2>3, <2>4
<1>13. CASE Qualification!FirmwareChanges
  <2>1. v2' \in Nat /\ UNCHANGED <<v1, v3, v4, v5, v6>>
    BY <1>13 DEF Qualification!FirmwareChanges, Qualification!QualificationType,
                 Qualification!Host
  <2> QED
    BY <2>1
    DEF Qualification!QualificationType, Qualification!Dated, Qualification!AppliedInPlace,
        Qualification!PastApply, Qualification!SawReboot, Qualification!Accepted,
        Qualification!Hint, Qualification!CommandHolds
<1> QED
  BY <1>1, <1>2, <1>3, <1>4, <1>5, <1>6, <1>7, <1>8, <1>9, <1>10, <1>11, <1>12, <1>13
  DEF Qualification!Next

\* A session that is qualified, or exported as such, was updated, on this machine, and
\* rebooted since.
LEMMA QualificationProven == Qualification!QualificationInv => Qualification!QualifiedIsProven
BY DEF Qualification!QualificationInv, Qualification!QualificationType,
       Qualification!QualifiedIsProven, Qualification!AppliedInPlace,
       Qualification!PastApply, Qualification!SawReboot

\* Nothing changes when the slots are left alone.
LEMMA QualificationStutter ==
  ASSUME Qualification!QualificationInv, UNCHANGED slots
  PROVE  Qualification!QualificationInv'
BY DEF slots, Qualification!QualificationInv, Qualification!QualificationType,
       Qualification!Dated, Qualification!AppliedInPlace, Qualification!PastApply,
       Qualification!SawReboot, Qualification!Accepted, Qualification!Hint,
       Qualification!CommandHolds

-------------------------------------------------------------------------------
(* The image.  v1 is the suite, v2 the files, v3 the records, v4 the         *)
(* evidence, v5 the source, v6 the builders, v7 what was staged as a whole,  *)
(* v8 what was verified.                                                     *)

\* The stages and their files.
LEMMA ImageStages ==
  /\ Image!Stage = {"foundation", "peer", "runtime", "recovery", "vendor"}
  /\ \A s \in Image!Stage :
       /\ DOMAIN Image!Files[s] = 1 .. Len(Image!Files[s])
       /\ Len(Image!Files[s]) \in {1, 2}
       /\ \A k \in DOMAIN Image!Files[s] : Image!Files[s][k] \in Image!File
<1>1. Image!Stage = {"foundation", "peer", "runtime", "recovery", "vendor"}
  BY DEF Image!Stage, Image!Files
<1>2. ASSUME NEW s \in Image!Stage
      PROVE  /\ DOMAIN Image!Files[s] = 1 .. Len(Image!Files[s])
             /\ Len(Image!Files[s]) \in {1, 2}
  BY <1>1 DEF Image!Files
<1>3. ASSUME NEW s \in Image!Stage, NEW k \in DOMAIN Image!Files[s]
      PROVE  Image!Files[s][k] \in Image!File
  BY DEF Image!File, Image!Of
<1> QED
  BY <1>1, <1>2, <1>3

\* A job that begins.
LEMMA ImageJobs ==
  /\ \A s \in Image!Stage, l \in {"write", "record", "verify"} :
       /\ Image!Job(s, l) \in Image!Jobs /\ Image!Job(s, l).i = 1
       /\ Image!Job(s, l).at = l /\ Image!Job(s, l).stage = s
       /\ Image!InStage(Image!Job(s, l))
  /\ [Image!Job("peer", "write") EXCEPT !.next = Image!Job("runtime", "write")]
       \in Image!Jobs
  /\ [Image!Job("peer", "write") EXCEPT !.next = Image!Job("runtime", "write")].at = "write"
  /\ Image!InStage([Image!Job("peer", "write") EXCEPT !.next = Image!Job("runtime", "write")])
<1> DEFINE t == Image!Job("runtime", "write")
           w == [Image!Job("peer", "write") EXCEPT !.next = t]
<1>1. ASSUME NEW s \in Image!Stage, NEW l \in {"write", "record", "verify"}
      PROVE  /\ Image!Job(s, l) \in Image!Jobs /\ Image!Job(s, l).i = 1
             /\ Image!Job(s, l).at = l /\ Image!Job(s, l).stage = s
             /\ Image!InStage(Image!Job(s, l))
  <2>1. 1 \in DOMAIN Image!Files[s]
    BY ImageStages
  <2> QED
    BY <2>1 DEF Image!Jobs, Image!Job, Image!Nexts, Image!InStage
<1>2. /\ Image!Job("peer", "write") \in Image!Jobs
      /\ Image!Job("peer", "write").at = "write"
      /\ Image!Job("peer", "write").i = 1 /\ Image!Job("peer", "write").stage = "peer"
      /\ t \in Image!Nexts /\ 1 \in DOMAIN Image!Files["peer"]
  BY <1>1, ImageStages DEF Image!Nexts
<1> HIDE DEF t
<1>3. w \in Image!Jobs /\ w.at = "write" /\ Image!InStage(w)
  BY <1>2 DEF Image!Jobs, Image!InStage
<1> QED
  BY <1>1, <1>3 DEF t

\* Nothing is staged.
LEMMA NothingStaged ==
  ASSUME Image!Init
  PROVE  Image!ImageInv
<1> USE DEF Image!Init
<1>1. Image!ImageType
  BY DEF Image!ImageType
<1>2. Image!RecordsAreOfStagings /\ Image!ReadyIsOneStaging
  BY DEF Image!RecordsAreOfStagings, Image!ReadyIsOneStaging
<1>3. \A b \in One : Image!InStage(v6[b]) /\ Image!VerifiedSoFar(b)
  BY DEF Image!VerifiedSoFar, Image!InStage
<1> QED
  BY <1>1, <1>2, <1>3 DEF Image!ImageInv

\* A write: nothing is ready any more, and no verification but one that begins is
\* undisturbed.
LEMMA ImageDisturbed ==
  ASSUME Image!ImageInv, NEW b \in One, NEW mine \in Image!Jobs,
         mine.at = "verify" => mine.i = 1, Image!InStage(mine), Image!Disturb(b, mine),
         v1' = v1,
         v2' \in [Image!File -> {NoOne} \cup
                    [content : {"v1", "v2", "bad", "dnf"}, mode : {"0600", "0644"}]],
         v3' \in [Image!Stage -> {NoOne} \cup Seq({"v1", "v2", "bad", "dnf"})],
         v7' \in [Image!Stage -> {NoOne} \cup Seq({"v1", "v2", "bad", "dnf"})],
         Image!RecordsAreOfStagings'
  PROVE  Image!ImageInv'
<1> USE DEF Image!ImageInv, Image!ImageType, Image!Disturb
<1>1. ASSUME NEW c \in One, c # b, v6[c] # Image!Idle
      PROVE  v6'[c] \in Image!Jobs /\ v6'[c].quiet = FALSE /\ Image!InStage(v6'[c])
  <2>1. v6[c] \in Image!Jobs /\ v6'[c] = [v6[c] EXCEPT !.quiet = FALSE]
    BY <1>1
  <2> QED
    BY <1>1, <2>1 DEF Image!Jobs, Image!InStage
<1>2. v6'[b] = mine /\ \A c \in One \ {b} : v6[c] = Image!Idle => v6'[c] = Image!Idle
  OBVIOUS
<1>3. v6' \in [One -> {Image!Idle} \cup Image!Jobs]
  BY <1>1, <1>2
<1>4. v8' \in [Image!Stage -> BOOLEAN] /\ \A s \in Image!Stage : ~v8'[s]
  OBVIOUS
<1>5. Image!ImageType'
  BY <1>3, <1>4
<1>6. Image!ReadyIsOneStaging'
  BY <1>4 DEF Image!ReadyIsOneStaging
<1>7. ASSUME NEW c \in One
      PROVE  Image!VerifiedSoFar(c)' /\ Image!InStage(v6[c])'
  <2>1. CASE c = b
    <3>1. mine.at = "verify" =>
            mine.stage \in Image!Stage /\ \A k \in DOMAIN Image!Files[mine.stage] : ~(k < mine.i)
      BY ImageStages DEF Image!Jobs
    <3> QED
      BY <1>2, <2>1, <3>1 DEF Image!VerifiedSoFar
  <2>2. CASE c # b
    BY <1>1, <1>2, <2>2 DEF Image!VerifiedSoFar, Image!InStage
  <2> QED
    BY <2>1, <2>2
<1> QED
  BY <1>5, <1>6, <1>7

\* One more file is in place; after the last one the stage is ready as it was staged.
LEMMA ImagePassed ==
  ASSUME Image!ImageInv, NEW b \in One, NEW s \in Image!Stage, Image!At(b, "verify", s),
         Image!Inspect(s, Image!Files[s][v6[b].i]),
         s # "recovery" => Image!Recorded(s, v6[b].i),
         s = "runtime" => \A k \in DOMAIN Image!Files["peer"] : Image!Stands("peer", k),
         Image!Passed(b, s)
  PROVE  Image!ImageInv'
<1> DEFINE j == v6[b]  last == j.i = Len(Image!Files[s])
<1> USE DEF Image!ImageInv, Image!ImageType
<1>1. /\ j \in Image!Jobs /\ j.at = "verify" /\ j.stage = s /\ j # Image!Idle
      /\ j.i \in Nat \ {0} /\ j.quiet \in BOOLEAN /\ j.next \in Image!Nexts
      /\ j.i \in DOMAIN Image!Files[s]
  BY DEF Image!At, Image!Idle, Image!Jobs, Image!InStage
<1>2. /\ v6' = [v6 EXCEPT ![b] = IF last THEN j.next ELSE [j EXCEPT !.i = @ + 1]]
      /\ v8' = IF last THEN [v8 EXCEPT ![s] = j.quiet] ELSE v8
      /\ UNCHANGED <<v1, v2, v3, v4, v5, v7>>
  BY DEF Image!Passed
<1>3. j.next \in {Image!Idle} \cup Image!Jobs /\ (j.next # Image!Idle => j.next.at = "write")
      /\ Image!InStage(j.next)
  BY <1>1, ImageJobs, ImageStages DEF Image!Nexts, Image!InStage
<1>4. /\ [j EXCEPT !.i = @ + 1] \in Image!Jobs
      /\ [j EXCEPT !.i = @ + 1].i = j.i + 1 /\ [j EXCEPT !.i = @ + 1].at = "verify"
      /\ [j EXCEPT !.i = @ + 1].stage = s /\ [j EXCEPT !.i = @ + 1].quiet = j.quiet
      /\ ~last => j.i + 1 \in DOMAIN Image!Files[s]
  <2>1. ~last => j.i + 1 \in DOMAIN Image!Files[s]
    BY <1>1, ImageStages
  <2>2. /\ [j EXCEPT !.i = @ + 1] \in Image!Jobs
        /\ [j EXCEPT !.i = @ + 1].i = j.i + 1 /\ [j EXCEPT !.i = @ + 1].at = "verify"
        /\ [j EXCEPT !.i = @ + 1].stage = s /\ [j EXCEPT !.i = @ + 1].quiet = j.quiet
    BY <1>1 DEF Image!Jobs
  <2> QED
    BY <2>1, <2>2
<1>5. Image!ImageType'
  BY <1>1, <1>2, <1>3, <1>4
<1>6. Image!RecordsAreOfStagings'
  BY <1>2 DEF Image!RecordsAreOfStagings
<1>7. \A k \in DOMAIN Image!Files[s] :
        j.quiet /\ s # "recovery" /\ k < j.i + 1 => Image!Stands(s, k)
  <2>1. ASSUME NEW k \in DOMAIN Image!Files[s], j.quiet, s # "recovery", k < j.i + 1
        PROVE  Image!Stands(s, k)
    <3>1. k \in Nat
      BY ImageStages
    <3>2. CASE k = j.i
      BY <2>1, <3>2 DEF Image!Stands
    <3>3. CASE k # j.i
      <4>1. k < j.i
        BY <1>1, <2>1, <3>1, <3>3
      <4> QED
        BY <1>1, <2>1, <4>1 DEF Image!VerifiedSoFar
    <3> QED
      BY <3>2, <3>3
  <2> QED
    BY <2>1
<1>8. ASSUME NEW r \in Image!Stage \ {"recovery"},
             \A k \in DOMAIN Image!Files[r] : Image!Stands(r, k)
      PROVE  Image!Holds(r)
  <2>1. ASSUME NEW k \in DOMAIN Image!Files[r]
        PROVE  /\ v7[r] # NoOne
               /\ v2[Image!Files[r][k]] =
                    [content |-> v7[r][k], mode |-> Image!Mode(r, Image!Files[r][k])]
    <3> DEFINE f == Image!Files[r][k]
    <3>1. /\ v2[f] # NoOne /\ v2[f].mode = Image!Mode(r, f) /\ v3[r] # NoOne
          /\ v2[f].content = v3[r][k]
      BY <1>8 DEF Image!Stands, Image!Inspect, Image!Recorded
    <3>2. f \in Image!File
      BY ImageStages
    <3>3. v2[f] \in [content : {"v1", "v2", "bad", "dnf"}, mode : {"0600", "0644"}]
      BY <3>1, <3>2
    <3>4. v7[r] = v3[r]
      BY DEF Image!RecordsAreOfStagings
    <3> HIDE DEF f
    <3>5. v2[f] = [content |-> v2[f].content, mode |-> v2[f].mode]
      BY <3>3
    <3> QED
      BY <3>1, <3>4, <3>5 DEF f
  <2> QED
    BY <2>1 DEF Image!Holds
<1>9. Image!ReadyIsOneStaging'
  <2>1. ASSUME NEW r \in Image!Stage \ {"recovery"}, v8'[r]
        PROVE  Image!Holds(r) /\ (r = "runtime" => Image!Holds("peer"))
    <3>1. CASE last /\ r = s
      <4>1. j.quiet
        BY <1>2, <2>1, <3>1
      <4>2. \A k \in DOMAIN Image!Files[s] : k < j.i + 1
        BY <1>1, <3>1, ImageStages
      <4>3. \A k \in DOMAIN Image!Files[s] : Image!Stands(s, k)
        BY <1>7, <2>1, <3>1, <4>1, <4>2
      <4>4. "peer" \in Image!Stage \ {"recovery"}
        BY ImageStages
      <4> QED
        BY <1>8, <2>1, <3>1, <4>3, <4>4
    <3>2. CASE ~last \/ r # s
      <4>1. v8[r]
        BY <1>2, <2>1, <3>2
      <4> QED
        BY <2>1, <4>1 DEF Image!ReadyIsOneStaging
    <3> QED
      BY <3>1, <3>2
  <2>2. \A r \in Image!Stage : Image!Holds(r) => Image!Holds(r)'
    BY <1>2 DEF Image!Holds
  <2>3. "peer" \in Image!Stage
    BY ImageStages
  <2> QED
    BY <2>1, <2>2, <2>3 DEF Image!ReadyIsOneStaging
<1>10. ASSUME NEW c \in One
       PROVE  Image!InStage(v6[c])' /\ Image!VerifiedSoFar(c)'
  <2>1. \A r \in Image!Stage : \A k \in DOMAIN Image!Files[r] :
          Image!Stands(r, k) => Image!Stands(r, k)'
    BY <1>2 DEF Image!Stands, Image!Inspect, Image!Recorded
  <2>2. CASE c # b
    <3>1. v6'[c] = v6[c] /\ Image!VerifiedSoFar(c)
      BY <1>2, <2>2
    <3>2. v6[c] # Image!Idle => v6[c].stage \in Image!Stage
      BY DEF Image!Jobs
    <3> QED
      BY <2>1, <3>1, <3>2 DEF Image!VerifiedSoFar
  <2>3. CASE c = b /\ last
    <3>1. v6'[c] = j.next
      BY <1>2, <2>3
    <3> QED
      BY <1>3, <3>1 DEF Image!VerifiedSoFar, Image!InStage
  <2>4. CASE c = b /\ ~last
    <3>1. v6'[c] = [j EXCEPT !.i = @ + 1]
      BY <1>2, <2>4
    <3> QED
      BY <1>4, <1>7, <2>1, <2>4, <3>1 DEF Image!VerifiedSoFar, Image!InStage
  <2> QED
    BY <2>2, <2>3, <2>4
<1> QED
  BY <1>5, <1>6, <1>9, <1>10

\* The steps of the stages, of those who disturb them, and what they keep.
LEMMA ImageStep ==
  ASSUME Image!ImageInv, Image!Next
  PROVE  Image!ImageInv'
<1> USE DEF Image!ImageInv, Image!ImageType
<1>1. ASSUME NEW b \in One, NEW s \in Image!Stage, NEW job \in Image!Jobs,
             job.at = "verify" => job.i = 1, Image!InStage(job), Image!Begin(b, s, job)
      PROVE  Image!ImageInv'
  <2>1. v6' = [v6 EXCEPT ![b] = job] /\ UNCHANGED <<v1, v2, v3, v4, v5, v7, v8>>
    BY <1>1 DEF Image!Begin
  <2>2. Image!ImageType' /\ Image!RecordsAreOfStagings' /\ Image!ReadyIsOneStaging'
    BY <2>1 DEF Image!RecordsAreOfStagings, Image!ReadyIsOneStaging, Image!Holds
  <2>3. ASSUME NEW c \in One
        PROVE  Image!InStage(v6[c])' /\ Image!VerifiedSoFar(c)'
    <3>1. CASE c = b
      <4>1. /\ v6'[c] = job /\ job.stage \in Image!Stage
            /\ \A k \in DOMAIN Image!Files[job.stage] : job.at = "verify" => ~(k < job.i)
        BY <1>1, <2>1, <3>1, ImageStages DEF Image!Jobs
      <4> QED
        BY <1>1, <4>1 DEF Image!VerifiedSoFar
    <3>2. CASE c # b
      BY <2>1, <3>2
      DEF Image!VerifiedSoFar, Image!Stands, Image!Inspect, Image!Recorded
    <3> QED
      BY <3>1, <3>2
  <2> QED
    BY <2>2, <2>3
<1>2. ASSUME NEW b \in One, NEW s \in Image!Stage, Image!WriteFile(b, s)
      PROVE  Image!ImageInv'
  <2> DEFINE j == v6[b]
  <2>1. j \in Image!Jobs /\ j.at = "write" /\ j.stage = s /\ j.i \in DOMAIN Image!Files[s]
    BY <1>2 DEF Image!WriteFile, Image!At, Image!Idle, Image!InStage
  <2>2. PICK c \in {"v1", "v2", "bad", "dnf"} :
          /\ v2' = [v2 EXCEPT ![Image!Files[s][j.i]] =
                      [content |-> c, mode |-> Image!Mode(s, Image!Files[s][j.i])]]
          /\ Image!Disturb(b, [j EXCEPT !.got = Append(@, c), !.i = @ + 1,
               !.at = IF j.i = Len(Image!Files[s]) THEN "record" ELSE "write"])
    BY <1>2 DEF Image!WriteFile
  <2> DEFINE mine == [j EXCEPT !.got = Append(@, c), !.i = @ + 1,
                        !.at = IF j.i = Len(Image!Files[s]) THEN "record" ELSE "write"]
  <2>3. UNCHANGED <<v1, v3, v4, v5, v7>>
    BY <1>2 DEF Image!WriteFile
  <2>4. mine \in Image!Jobs /\ mine.at # "verify" /\ Image!InStage(mine)
    <3>1. Append(j.got, c) \in Seq({"v1", "v2", "bad", "dnf"}) /\ j.i + 1 \in Nat \ {0}
      BY <2>1 DEF Image!Jobs
    <3>2. j.i # Len(Image!Files[s]) => j.i + 1 \in DOMAIN Image!Files[s]
      BY <2>1, ImageStages
    <3>3. /\ mine \in Image!Jobs /\ mine.stage = s /\ mine.i = j.i + 1
          /\ mine.at = IF j.i = Len(Image!Files[s]) THEN "record" ELSE "write"
      BY <2>1, <3>1 DEF Image!Jobs
    <3> QED
      BY <3>2, <3>3 DEF Image!InStage
  <2>5. v2' \in [Image!File -> {NoOne} \cup
                    [content : {"v1", "v2", "bad", "dnf"}, mode : {"0600", "0644"}]]
    <3>1. [content |-> c, mode |-> Image!Mode(s, Image!Files[s][j.i])]
            \in [content : {"v1", "v2", "bad", "dnf"}, mode : {"0600", "0644"}]
      BY DEF Image!Mode
    <3> QED
      BY <2>2, <3>1
  <2>6. Image!RecordsAreOfStagings'
    BY <2>3 DEF Image!RecordsAreOfStagings
  <2>7. Image!Disturb(b, mine)
    BY <2>2
  <2> HIDE DEF mine
  <2> QED
    BY <2>3, <2>4, <2>5, <2>6, <2>7, ImageDisturbed
<1>3. ASSUME NEW b \in One, NEW s \in Image!Stage, Image!At(b, "record", s),
             Image!Wrote(s, v6[b].got), Image!Disturb(b, Image!Verifies(v6[b])),
             UNCHANGED <<v1, v2>>,
             \/ s = "recovery" /\ v3' = v3
             \/ v3' = [v3 EXCEPT ![s] = v6[b].got]
      PROVE  Image!ImageInv'
  <2> DEFINE j == v6[b]
  <2>1. j \in Image!Jobs /\ j.stage = s
    BY <1>3 DEF Image!At, Image!Idle
  <2>2. j.got \in Seq({"v1", "v2", "bad", "dnf"}) /\ j.next \in Image!Nexts
    BY <2>1 DEF Image!Jobs
  <2>3. /\ Image!Verifies(j) \in Image!Jobs /\ Image!Verifies(j).i = 1
        /\ Image!InStage(Image!Verifies(j))
    <3> DEFINE v == Image!Job(s, "verify")
    <3>1. v \in Image!Jobs /\ v.i = 1 /\ v.stage = s /\ 1 \in DOMAIN Image!Files[s]
      BY ImageJobs, ImageStages
    <3>2. Image!Verifies(j) = [v EXCEPT !.got = j.got, !.next = j.next]
      BY <2>1 DEF Image!Verifies
    <3> HIDE DEF v
    <3> QED
      BY <2>2, <3>1, <3>2 DEF Image!Jobs, Image!InStage
  <2>4. v7' = [v7 EXCEPT ![s] = j.got]
    BY <1>3 DEF Image!Wrote
  <2>5. /\ v3' \in [Image!Stage -> {NoOne} \cup Seq({"v1", "v2", "bad", "dnf"})]
        /\ v7' \in [Image!Stage -> {NoOne} \cup Seq({"v1", "v2", "bad", "dnf"})]
    BY <1>3, <2>2, <2>4
  <2>6. Image!RecordsAreOfStagings'
    BY <1>3, <2>4 DEF Image!RecordsAreOfStagings
  <2> QED
    BY <1>3, <2>3, <2>5, <2>6, ImageDisturbed
<1>4. ASSUME NEW b \in One, NEW s \in Image!Stage, NEW bound \in BOOLEAN,
             Image!VerifyFile(b, s, bound), s # "recovery" => bound,
             s = "runtime" => \A k \in DOMAIN Image!Files["peer"] : Image!Stands("peer", k)
      PROVE  Image!ImageInv'
  BY <1>4, ImagePassed DEF Image!VerifyFile
<1>5. ASSUME NEW b \in One,
             \/ Image!StageFoundation(b) \/ Image!VerifyFoundation(b) \/ Image!StageRuntime(b)
             \/ Image!VerifyRuntime(b) \/ Image!StageRecovery(b) \/ Image!VerifyRecovery(b)
             \/ Image!StageVendor(b) \/ Image!VerifyVendor(b)
      PROVE  Image!ImageInv'
  <2>1. ASSUME NEW s \in Image!Stage, NEW l \in {"write", "verify"},
               Image!Begin(b, s, Image!Job(s, l))
        PROVE  Image!ImageInv'
    <3>1. Image!Job(s, l) \in Image!Jobs /\ Image!Job(s, l).i = 1
          /\ Image!InStage(Image!Job(s, l))
      BY ImageJobs
    <3> QED
      BY <1>1, <2>1, <3>1
  <2>2. CASE Image!StageRuntime(b)
    <3> DEFINE w == [Image!Job("peer", "write") EXCEPT !.next = Image!Job("runtime", "write")]
    <3>1. /\ w \in Image!Jobs /\ w.at = "write" /\ Image!InStage(w)
          /\ "runtime" \in Image!Stage
      BY ImageJobs, ImageStages
    <3>2. Image!Begin(b, "runtime", w)
      BY <2>2 DEF Image!StageRuntime
    <3> HIDE DEF w
    <3> QED
      BY <1>1, <3>1, <3>2
  <2> QED
    BY <1>5, <2>1, <2>2, ImageStages
    DEF Image!StageFoundation, Image!VerifyFoundation, Image!VerifyRuntime,
        Image!StageRecovery, Image!VerifyRecovery, Image!StageVendor, Image!VerifyVendor
<1>6. ASSUME NEW b \in One,
             \/ Image!FoundationFile(b) \/ Image!PeerFile(b) \/ Image!RuntimeFile(b)
             \/ Image!RecoveryFile(b) \/ Image!VendorFile(b)
      PROVE  Image!ImageInv'
  BY <1>2, <1>6, ImageStages
  DEF Image!FoundationFile, Image!PeerFile, Image!RuntimeFile, Image!RecoveryFile,
      Image!VendorFile
<1>7. ASSUME NEW b \in One,
             \/ Image!FoundationState(b) \/ Image!PeerState(b) \/ Image!RuntimeState(b)
             \/ Image!RecoveryStaged(b) \/ Image!VendorState(b)
      PROVE  Image!ImageInv'
  BY <1>3, <1>7, ImageStages
  DEF Image!FoundationState, Image!PeerState, Image!RuntimeState, Image!RecoveryStaged,
      Image!VendorState, Image!WriteState
<1>8. ASSUME NEW b \in One,
             \/ Image!FoundationCheck(b) \/ Image!PeerCheck(b) \/ Image!RuntimeCheck(b)
             \/ Image!RecoveryCheck(b) \/ Image!VendorCheck(b)
      PROVE  Image!ImageInv'
  BY <1>4, <1>8, ImageStages
  DEF Image!FoundationCheck, Image!PeerCheck, Image!RuntimeCheck, Image!RecoveryCheck,
      Image!VendorCheck, Image!Stands
<1>9. ASSUME NEW b \in One, Image!Fail(b)
      PROVE  Image!ImageInv'
  BY <1>9
  DEF Image!Fail, Image!RecordsAreOfStagings, Image!ReadyIsOneStaging, Image!Holds,
      Image!VerifiedSoFar, Image!Stands, Image!Inspect, Image!Recorded, Image!InStage
<1>10. ASSUME Image!Expire \/ Image!Enable
       PROVE  Image!ImageInv'
  <2>1. /\ UNCHANGED <<v1, v2, v3, v7>> /\ v8' = [v8 EXCEPT !["vendor"] = FALSE]
        /\ v6' = [b \in One |-> IF v6[b] = Image!Idle THEN Image!Idle
                                ELSE [v6[b] EXCEPT !.quiet = FALSE]]
    BY <1>10 DEF Image!Expire, Image!Enable
  <2>2. ASSUME NEW b \in One
        PROVE  /\ v6'[b] \in {Image!Idle} \cup Image!Jobs
               /\ v6'[b] # Image!Idle => v6'[b].quiet = FALSE
               /\ Image!InStage(v6'[b])
    <3>1. CASE v6[b] = Image!Idle
      BY <2>1, <3>1 DEF Image!InStage
    <3>2. CASE v6[b] # Image!Idle
      <4>1. v6[b] \in Image!Jobs /\ v6'[b] = [v6[b] EXCEPT !.quiet = FALSE]
        BY <2>1, <3>2
      <4> QED
        BY <3>2, <4>1 DEF Image!Jobs, Image!InStage
    <3> QED
      BY <3>1, <3>2
  <2>3. Image!ImageType' /\ Image!RecordsAreOfStagings'
    BY <2>1, <2>2 DEF Image!RecordsAreOfStagings
  <2>4. Image!ReadyIsOneStaging'
    BY <2>1 DEF Image!ReadyIsOneStaging, Image!Holds
  <2>5. \A b \in One : Image!VerifiedSoFar(b)'
    BY <2>2 DEF Image!VerifiedSoFar
  <2> QED
    BY <2>2, <2>3, <2>4, <2>5
<1> QED
  BY <1>5, <1>6, <1>7, <1>8, <1>9, <1>10 DEF Image!Next

\* What was verified as ready is one staging as a whole.
LEMMA ImageReady == Image!ImageInv => Image!ReadyIsOneStaging
BY DEF Image!ImageInv

\* Nothing changes when the slots are left alone.
LEMMA ImageStutter ==
  ASSUME Image!ImageInv, UNCHANGED slots
  PROVE  Image!ImageInv'
<1> USE DEF slots, Image!ImageInv
<1>1. Image!ImageType'
  BY DEF Image!ImageType
<1>2. Image!RecordsAreOfStagings' /\ Image!ReadyIsOneStaging'
  BY DEF Image!RecordsAreOfStagings, Image!ReadyIsOneStaging, Image!Holds
<1>3. \A b \in One : Image!InStage(v6[b])' /\ Image!VerifiedSoFar(b)'
  BY DEF Image!InStage, Image!VerifiedSoFar, Image!Stands, Image!Inspect, Image!Recorded
<1> QED
  BY <1>1, <1>2, <1>3

\* "requiredRebootMustChangeBootId", "staging verification failed": for any number of
\* sessions and commands that overlap, die and are repeated over reboots, a session that
\* is called qualified was updated and rebooted on this machine; for any number of
\* builders, a stage that is called ready is one staging as a whole.
THEOREM EvidenceIsProven ==
  Spec => []ProvenEvidence
<1> DEFINE Inv == /\ focus = "qualification" => Qualification!QualificationInv
                  /\ focus = "image" => Image!ImageInv
<1>1. Init => Inv
  BY QualificationInit, NothingStaged DEF Init
<1>2. Inv /\ [Next]_slots => Inv'
  <2> SUFFICES ASSUME Inv, [Next]_slots
               PROVE  Inv'
    OBVIOUS
  <2>1. CASE focus = "qualification" /\ Qualification!Next /\ focus' = focus
    BY <2>1, QualificationStep
  <2>2. CASE focus = "image" /\ Image!Next /\ focus' = focus
    BY <2>2, ImageStep
  <2>3. CASE focus \notin {"qualification", "image"} /\ focus' = focus
    BY <2>3
  <2>4. CASE UNCHANGED slots
    BY <2>4, QualificationStutter, ImageStutter DEF slots
  <2> QED
    BY <2>1, <2>2, <2>3, <2>4 DEF Next
<1>3. Inv => ProvenEvidence
  BY QualificationProven, ImageReady DEF ProvenEvidence
<1> QED
  BY <1>1, <1>2, <1>3, PTL DEF Spec

-------------------------------------------------------------------------------
(* Plans of packages.  v1 and v2 are the host's family and managers, v6 the  *)
(* request, v7 how far it is, v8 what was simulated.                         *)

\* The tables of the provider, of the service and of the executor agree, for every
\* package manager and operation.
LEMMA TablesAgree ==
  ASSUME NEW m \in Planning!SUPPORTED_MANAGERS, NEW o \in Planning!OPERATIONS
  PROVE  /\ Planning!commandPreview(m, o) = Planning!expectedPackageManagerCommand(m, o)
         /\ Planning!expectedPackageManagerCommand(m, o) = Planning!expectedCommand(m, o)
<1> USE DEF Planning!SUPPORTED_MANAGERS, Planning!OPERATIONS, Planning!commandPreview,
            Planning!expectedPackageManagerCommand, Planning!expectedCommand
<1>1. CASE m = "apt"
  BY <1>1
<1>2. CASE m = "dnf"
  BY <1>2
<1>3. CASE m = "rpm-ostree"
  BY <1>3
<1>4. CASE m = "pacman"
  <2>1. CASE o = "install"
    BY <1>4, <2>1
  <2>2. CASE o = "update"
    BY <1>4, <2>2
  <2>3. CASE o = "remove"
    BY <1>4, <2>3
  <2> QED
    BY <2>1, <2>2, <2>3
<1>5. CASE m = "zypper"
  BY <1>5
<1> QED
  BY <1>1, <1>2, <1>3, <1>4, <1>5

\* The only rollback that is promised is one that the executor knows.
LEMMA RollbackKnown ==
  \A m : Planning!RollbackPlanned(m) => Planning!expectedCommand(m, "rollback") # <<>>
BY DEF Planning!RollbackPlanned, Planning!expectedCommand

\* The manager that is picked is one that there is.
LEMMA SelectableAvailable == Planning!Selectable \subseteq v2
<1> DEFINE usable == {i \in DOMAIN Planning!Preference : Planning!Preference[i] \in v2}
<1>1. DOMAIN Planning!Preference \subseteq 1 .. 5
  BY DEF Planning!Preference
<1>2. CASE usable = {}
  BY <1>2 DEF Planning!Selectable
<1>3. CASE usable # {}
  <2>1. usable \subseteq 1 .. 5
    BY <1>1
  <2> HIDE DEF usable
  <2>2. \E i \in usable : \A j \in usable : i <= j
    <3>1. CASE 1 \in usable
      BY <2>1, <3>1
    <3>2. CASE 1 \notin usable /\ 2 \in usable
      BY <2>1, <3>2
    <3>3. CASE usable \cap {1, 2} = {} /\ 3 \in usable
      BY <2>1, <3>3
    <3>4. CASE usable \cap {1, 2, 3} = {} /\ 4 \in usable
      BY <2>1, <3>4
    <3>5. CASE usable \cap {1, 2, 3, 4} = {}
      <4>1. \A i \in usable : i = 5
        BY <2>1, <3>5
      <4> QED
        BY <1>3, <4>1
    <3> QED
      BY <3>1, <3>2, <3>3, <3>4, <3>5
  <2> DEFINE i == CHOOSE i \in usable : \A j \in usable : i <= j
  <2>3. i \in usable
    BY <2>2
  <2>4. Planning!Selectable = {Planning!Preference[i]}
    BY <1>3 DEF Planning!Selectable, usable
  <2> HIDE DEF i
  <2>5. Planning!Preference[i] \in v2
    BY <2>3 DEF usable
  <2> QED
    BY <2>4, <2>5
<1> QED
  BY <1>2, <1>3

LEMMA PlanningInit ==
  ASSUME Planning!Init
  PROVE  Planning!PlanningInv
BY DEF Planning!Init, Planning!PlanningInv, Planning!Stages, Planning!RequestResolves,
       Planning!RequestListed, Planning!SimulatedIsRequest

\* A plan is of a manifest that its provider resolves.
LEMMA PlannedResolves ==
  ASSUME NEW m \in Planning!Manifest, Planning!Plans(m)
  PROVE  /\ Planning!Resolves(m)
         /\ m.provider = "system" =>
              m.repository \in Planning!allowlistedRepositories \cup {Planning!NoRepo}
         /\ m.provider = "flatpak" => m.repository \in {"main"}
<1>1. m.provider \in Planning!PROVIDERS
  BY DEF Planning!Manifest
<1> USE DEF Planning!Plans, Planning!Resolves, Planning!SourceClasses, Planning!PROVIDERS
<1>2. CASE m.provider = "system"
  BY <1>2 DEF Planning!DistributionPlan, Planning!DistributionManifest
<1>3. CASE m.provider = "flatpak"
  BY <1>3 DEF Planning!FlatpakPlan
<1>4. CASE m.provider = "appimage"
  BY <1>4 DEF Planning!AppImagePlan
<1> QED
  BY <1>1, <1>2, <1>3, <1>4

\* The way of a request from the manifest to the command.
LEMMA PlanningStep ==
  ASSUME Planning!PlanningInv, Planning!Next
  PROVE  Planning!PlanningInv'
<1> USE DEF Planning!PlanningInv, Planning!Stages, Planning!RequestResolves,
            Planning!RequestListed, Planning!SimulatedIsRequest, Planning!Reach,
            Planning!host
<1>1. ASSUME NEW o \in Planning!OPERATIONS, NEW m \in Planning!Manifest, Planning!Ask(o, m)
      PROVE  Planning!PlanningInv'
  <2>1. v7 = "idle" /\ v8 = "none" /\ UNCHANGED <<v1, v2, v3, v4, v5, v8>>
    BY <1>1 DEF Planning!Ask
  <2>2. CASE ~(Planning!Layered(m) /\ Planning!Plans(m))
    <3>1. v7' = "refused"
      BY <1>1, <2>2 DEF Planning!Ask
    <3> QED
      BY <2>1, <3>1
  <2>3. CASE Planning!Layered(m) /\ Planning!Plans(m)
    <3>1. PICK manager \in IF m.provider = "system" THEN Planning!Selectable ELSE {"none"} :
            v6' = [operation |-> o, manifest |-> m, manager |-> manager]
      BY <1>1, <2>3 DEF Planning!Ask
    <3>2. v7' = IF m.provider = "system" THEN "planned" ELSE m.provider
      BY <1>1, <2>3 DEF Planning!Ask
    <3>3. m.provider \in Planning!PROVIDERS
      BY DEF Planning!Manifest
    <3>4. m.provider = "system" => manager \in v2
      BY <3>1, SelectableAvailable
    <3>5. manager \in Planning!SUPPORTED_MANAGERS \cup {"none"}
      BY <3>1, <3>4
    <3>6. v6' \in Planning!Requests /\ v6'.manifest = m /\ v6'.manager = manager
      BY <3>1, <3>5 DEF Planning!Requests
    <3> QED
      BY <2>1, <2>3, <3>2, <3>3, <3>4, <3>6, PlannedResolves DEF Planning!PROVIDERS
  <2> QED
    BY <2>2, <2>3
<1>2. CASE Planning!Simulate
  BY <1>2 DEF Planning!Simulate
<1>3. CASE Planning!Submit
  <2>1. v7 = "planned" /\ v6 \in Planning!Requests /\ v6.manager \in Planning!SUPPORTED_MANAGERS
        /\ v6.operation \in Planning!OPERATIONS
    BY <1>3 DEF Planning!Submit, Planning!Requests
  <2>2. ~Planning!ValidPlan(v6) => ~v6.manifest.id
    BY <2>1, TablesAgree DEF Planning!ValidPlan, Planning!RollbackPlanned
  <2>3. CASE Planning!ValidPlan(v6)
    BY <1>3, <2>3 DEF Planning!Submit
  <2>4. CASE ~Planning!ValidPlan(v6)
    BY <1>3, <2>2, <2>4 DEF Planning!Submit
  <2> QED
    BY <2>3, <2>4
<1>4. CASE Planning!Verify
  BY <1>4 DEF Planning!Verify
<1>5. CASE Planning!Execute
  <2>1. v7 = "trusted" /\ v6 \in Planning!Requests /\ v6.manager \in Planning!SUPPORTED_MANAGERS
        /\ v6.operation \in Planning!OPERATIONS
    BY <1>5 DEF Planning!Execute, Planning!Requests
  <2>2. Planning!Executable(v6)
    BY <2>1, TablesAgree, RollbackKnown DEF Planning!Executable
  <2> QED
    BY <1>5, <2>2 DEF Planning!Execute
<1>6. CASE Planning!RunEnds
  BY <1>6 DEF Planning!RunEnds
<1>7. CASE Planning!RunFlatpak
  <2>1. v6.operation \in Planning!OPERATIONS /\ v6.manifest.repository \in {"main"}
    BY <1>7 DEF Planning!RunFlatpak, Planning!Requests
  <2> QED
    BY <1>7, <2>1 DEF Planning!RunFlatpak
<1>8. CASE Planning!MetadataChanges
  BY <1>8 DEF Planning!MetadataChanges
<1> QED
  BY <1>1, <1>2, <1>3, <1>4, <1>5, <1>6, <1>7, <1>8 DEF Planning!Next

\* "validateSystemPackagePlan", "validatePackageExecutorRequest": whatever the manifest,
\* the operation and the package managers of the host, and however the metadata change
\* on the way, a plan that is shown is one that service and executor accept and run, and
\* apt runs only what it has simulated.
THEOREM PlansSurvive ==
  Spec => []PlanSurvives
<1> DEFINE Inv == focus = "planning" => Planning!PlanningInv
<1>1. Init => Inv
  BY PlanningInit DEF Init
<1>2. Inv /\ [Next]_slots => Inv'
  <2> SUFFICES ASSUME Inv, [Next]_slots, focus' = "planning"
               PROVE  Planning!PlanningInv'
    OBVIOUS
  <2>1. CASE focus = "planning" /\ Planning!Next
    BY <2>1, PlanningStep
  <2>2. CASE UNCHANGED slots
    BY <2>2 DEF slots, Planning!PlanningInv, Planning!RequestResolves,
                Planning!RequestListed, Planning!SimulatedIsRequest
  <2> QED
    BY <2>1, <2>2 DEF Next
<1>3. Inv => PlanSurvives
  BY DEF PlanSurvives, Planning!PlanSurvives, Planning!PlanningInv,
         Planning!RequestResolves, Planning!SimulatedIsRequest
<1> QED
  BY <1>1, <1>2, <1>3, PTL DEF Spec

-------------------------------------------------------------------------------
(* The recovery boot.  v1 is the boot, v2 its options, v3 the records, v4    *)
(* the agent, v5 its report.                                                 *)

LEMMA RecoveryInit ==
  ASSUME Recovery!Init
  PROVE  Recovery!RecoveryInv
BY DEF Recovery!Init, Recovery!RecoveryInv, Recovery!RecoveryType, Recovery!Idle,
       Recovery!AgentInRecovery, Recovery!AllCounted, Recovery!NothingWasCounted

\* What its service would recover is in a state that the agent counts, or in a record
\* that it cannot read, but for what it does not know.
LEMMA InterruptedCounts ==
  /\ \A t \in Pair : Recovery!Noticed(t) =>
       v3[t] # "none" /\ v3[t] \in Recovery!PendingPackage
  /\ \A t \in {"f1", "f2"} : Recovery!Noticed(t) =>
       v3[t] # "none" /\ (v3[t] \in Recovery!PendingFirmware \/ t \in {"f2"})
BY SystemAssumption
DEF Recovery!RecoveryAssumption, Recovery!Noticed, Recovery!Unnoticed,
    Recovery!Interrupted, Recovery!ActivePackage,
    Recovery!ActiveReviewed, Recovery!PendingPackage, Recovery!PendingFirmware

\* Without a step of the agent, an interrupted transaction stays so.
LEMMA InterruptedKept ==
  ASSUME v3' = v3
  PROVE  \A t : Recovery!Noticed(t)' <=> Recovery!Noticed(t)
BY DEF Recovery!Noticed, Recovery!Unnoticed, Recovery!Interrupted

\* A record is scanned: it is counted if it is one that its service would recover.
LEMMA RecordScanned ==
  ASSUME Recovery!RecoveryInv, NEW t \in Recovery!Tx, NEW from \in {"packages", "firmware"},
         NEW pending \in BOOLEAN, NEW corrupt \in BOOLEAN,
         Recovery!Scan(t, from, pending, corrupt),
         Recovery!Noticed(t) => pending \/ corrupt
  PROVE  Recovery!RecoveryInv'
<1> USE DEF Recovery!RecoveryInv, Recovery!RecoveryType
<1>1. /\ v1 = "recovery" /\ v4.at = from /\ t \in v4.left /\ UNCHANGED <<v1, v2, v3, v5>>
      /\ v4' = [v4 EXCEPT !.left = @ \ {t},
                  !.pending = IF pending /\ ~corrupt THEN @ \cup {t} ELSE @,
                  !.corrupt = IF corrupt THEN @ \cup {t} ELSE @]
  BY DEF Recovery!Scan
<1>2. /\ v4'.at = from /\ v4'.left = v4.left \ {t}
      /\ v4.pending \subseteq v4'.pending /\ v4.corrupt \subseteq v4'.corrupt
      /\ pending \/ corrupt => t \in v4'.pending \cup v4'.corrupt
      /\ v4' \in [at : {"idle", "packages", "firmware", "done"}, left : SUBSET Recovery!Tx,
                  pending : SUBSET Recovery!Tx, corrupt : SUBSET Recovery!Tx]
  BY <1>1
<1>3. \A u, l : Recovery!Counted(u, l) => Recovery!Counted(u, l)'
  BY <1>1, <1>2, InterruptedKept DEF Recovery!Counted
<1>4. Recovery!AllCounted'
  BY <1>1, <1>2, <1>3 DEF Recovery!AllCounted
<1>5. Recovery!AgentInRecovery' /\ Recovery!NothingWasCounted'
  BY <1>1, <1>2 DEF Recovery!AgentInRecovery, Recovery!NothingWasCounted
<1> QED
  BY <1>1, <1>2, <1>4, <1>5

\* Services write in normal boots, the agent counts in recovery boots.
LEMMA RecoveryStep ==
  ASSUME Recovery!RecoveryInv, Recovery!Next
  PROVE  Recovery!RecoveryInv'
<1> USE DEF Recovery!RecoveryInv, Recovery!RecoveryType
<1>1. CASE Recovery!Boot
  <2>1. v1 = "off" /\ v1' \in {"normal", "recovery"} /\ UNCHANGED <<v3, v4, v5>>
    BY <1>1 DEF Recovery!Boot
  <2>2. v4 = Recovery!Idle /\ v5 = "none"
    BY <2>1 DEF Recovery!AgentInRecovery
  <2> QED
    BY <2>1, <2>2
    DEF Recovery!Idle, Recovery!AgentInRecovery, Recovery!AllCounted,
        Recovery!NothingWasCounted
<1>2. CASE Recovery!PowerOff
  BY <1>2
  DEF Recovery!PowerOff, Recovery!Idle, Recovery!AgentInRecovery, Recovery!AllCounted,
      Recovery!NothingWasCounted
<1>3. CASE Recovery!Start
  <2>1. /\ v1 = "recovery" /\ v5 = "none" /\ UNCHANGED <<v1, v2, v3, v5>>
        /\ v4' = [at |-> "packages", left |-> {t \in Pair : v3[t] # "none"},
                  pending |-> {}, corrupt |-> {}]
    BY <1>3 DEF Recovery!Start, Recovery!Idle
  <2>2. \A t \in Pair : Recovery!Counted(t, "packages")'
    BY <2>1, InterruptedKept, InterruptedCounts DEF Recovery!Counted
  <2> QED
    BY <2>1, <2>2
    DEF Recovery!Tx, Recovery!AgentInRecovery, Recovery!AllCounted,
        Recovery!NothingWasCounted
<1>4. CASE Recovery!NextDirectory
  <2>1. /\ v1 = "recovery" /\ v4.at = "packages" /\ v4.left = {}
        /\ UNCHANGED <<v1, v2, v3, v5>>
        /\ v4' = [v4 EXCEPT !.at = "firmware", !.left = {t \in {"f1", "f2"} : v3[t] # "none"}]
    BY <1>4 DEF Recovery!NextDirectory
  <2>2. /\ v4'.at = "firmware" /\ v4'.left = {t \in {"f1", "f2"} : v3[t] # "none"}
        /\ v4'.pending = v4.pending /\ v4'.corrupt = v4.corrupt
    BY <2>1
  <2>3. \A t \in Pair : Recovery!Counted(t, "packages")'
    BY <2>1, <2>2, InterruptedKept DEF Recovery!Counted, Recovery!AllCounted
  <2>4. \A t \in {"f1", "f2"} : Recovery!Counted(t, "firmware")'
    BY <2>1, <2>2, InterruptedKept, InterruptedCounts DEF Recovery!Counted
  <2>5. Recovery!RecoveryType'
    BY <2>1 DEF Recovery!Tx
  <2>6. Recovery!AgentInRecovery' /\ Recovery!NothingWasCounted'
    BY <2>1, <2>2 DEF Recovery!AgentInRecovery, Recovery!NothingWasCounted
  <2> QED
    BY <2>2, <2>3, <2>4, <2>5, <2>6 DEF Recovery!AllCounted
<1>5. CASE Recovery!Report
  <2>1. /\ v1 = "recovery" /\ v4.at = "firmware" /\ v4.left = {}
        /\ UNCHANGED <<v1, v2, v3>> /\ v4' = [v4 EXCEPT !.at = "done"]
        /\ v5' \in {"none", "manual", "nothing"}
        /\ v5' = "nothing" => v4.pending = {} /\ v4.corrupt = {}
    BY <1>5 DEF Recovery!Report, Recovery!Manual
  <2>2. /\ v4'.at = "done" /\ v4'.left = {}
        /\ v4'.pending = v4.pending /\ v4'.corrupt = v4.corrupt
    BY <2>1
  <2>3. /\ \A t \in Pair : Recovery!Counted(t, "packages")'
        /\ \A t \in {"f1", "f2"} : Recovery!Counted(t, "firmware")'
    BY <2>1, <2>2, InterruptedKept DEF Recovery!Counted, Recovery!AllCounted
  <2> QED
    BY <2>1, <2>2, <2>3
    DEF Recovery!AgentInRecovery, Recovery!AllCounted, Recovery!NothingWasCounted
<1>6. ASSUME NEW t \in Recovery!Tx,
             Recovery!PackageWrites(t) \/ Recovery!FirmwareWrites(t) \/ Recovery!ReviewedWrites(t)
      PROVE  Recovery!RecoveryInv'
  <2>1. v1 = "normal" /\ UNCHANGED <<v1, v2, v4, v5>>
    BY <1>6 DEF Recovery!PackageWrites, Recovery!FirmwareWrites, Recovery!ReviewedWrites,
                Recovery!Write
  <2>2. v4 = Recovery!Idle /\ v5 = "none"
    BY <2>1 DEF Recovery!AgentInRecovery
  <2> QED
    BY <2>1, <2>2
    DEF Recovery!Idle, Recovery!AgentInRecovery, Recovery!AllCounted,
        Recovery!NothingWasCounted
<1>7. ASSUME NEW t \in Recovery!Tx, Recovery!ScanPackage(t)
      PROVE  Recovery!RecoveryInv'
  <2>1. t \in Pair
    BY <1>7 DEF Recovery!ScanPackage, Recovery!Scan, Recovery!AllCounted
  <2> DEFINE pending == v3[t] \in Recovery!PendingPackage
  <2>2. Recovery!Scan(t, "packages", pending, FALSE)
    BY <1>7 DEF Recovery!ScanPackage
  <2>3. Recovery!Noticed(t) => pending \/ FALSE
    BY <2>1, InterruptedCounts
  <2>4. pending \in BOOLEAN
    OBVIOUS
  <2> HIDE DEF pending
  <2> QED
    BY <2>2, <2>3, <2>4, RecordScanned
<1>8. ASSUME NEW t \in Recovery!Tx, Recovery!ScanFirmware(t)
      PROVE  Recovery!RecoveryInv'
  <2>1. t \in {"f1", "f2"}
    BY <1>8 DEF Recovery!ScanFirmware, Recovery!Scan, Recovery!AllCounted
  <2> DEFINE pending == v3[t] \in Recovery!PendingFirmware
             corrupt == t \in {"f2"}
  <2>2. Recovery!Scan(t, "firmware", pending, corrupt)
    BY <1>8 DEF Recovery!ScanFirmware
  <2>3. Recovery!Noticed(t) => pending \/ corrupt
    BY <2>1, InterruptedCounts
  <2>4. pending \in BOOLEAN /\ corrupt \in BOOLEAN
    OBVIOUS
  <2> HIDE DEF pending, corrupt
  <2> QED
    BY <2>2, <2>3, <2>4, RecordScanned
<1> QED
  BY <1>1, <1>2, <1>3, <1>4, <1>5, <1>6, <1>7, <1>8 DEF Recovery!Next

\* A report that there is nothing to recover has counted every record.
LEMMA RecoveryOverlooksNothing == Recovery!RecoveryInv => Recovery!NothingOverlooked
BY DEF Recovery!RecoveryInv, Recovery!NothingOverlooked, Recovery!NothingWasCounted,
       Recovery!AllCounted, Recovery!Counted, Recovery!Noticed, Recovery!Tx

\* Nothing changes when the slots are left alone.
LEMMA RecoveryStutter ==
  ASSUME Recovery!RecoveryInv, UNCHANGED slots
  PROVE  Recovery!RecoveryInv'
BY InterruptedKept
DEF slots, Recovery!RecoveryInv, Recovery!RecoveryType, Recovery!AgentInRecovery,
    Recovery!AllCounted, Recovery!Counted, Recovery!NothingWasCounted

-------------------------------------------------------------------------------
(* The driver report.  v1 is the devices, v2 and v3 catalog and policy, v4   *)
(* the clock, v5 the report under way, v6 the one that is offered.           *)

LEMMA DriversInit ==
  ASSUME Drivers!Init
  PROVE  Drivers!DriversInv
BY DEF Drivers!Init, Drivers!DriversInv

\* A report that goes on keeps what it has taken.
LEMMA ReportGoesOn ==
  ASSUME Drivers!DriversInv, v2' \in TheCatalogs, v6' = v6 \/ v6' = Drivers!None,
         v5' = Drivers!None \/ (DOMAIN v5' = Drivers!Fields /\ Drivers!Followed(v5'))
  PROVE  Drivers!DriversInv'
BY DEF Drivers!DriversInv, Drivers!Followed, Drivers!Reaches, Drivers!SafePlan,
       Drivers!SafeReport, Drivers!SafeInventory

\* The steps of a report, and of those who change what it has read.
LEMMA DriversStep ==
  ASSUME Drivers!DriversInv, Drivers!Next
  PROVE  Drivers!DriversInv'
<1> USE DEF Drivers!DriversInv
<1>1. CASE Drivers!LoadCatalog
  <2>1. PICK bs \in SUBSET TheBindings :
          v5' = [at |-> "policy", time |-> v4, catalog |-> v2, bindings |-> bs,
                 policy |-> NoOne, left |-> One, seen |-> [d \in One |-> NoOne],
                 snapshot |-> <<>>, plan |-> {}, health |-> <<>>, firmware |-> {}]
    BY <1>1 DEF Drivers!LoadCatalog
  <2>2. v6' = Drivers!None /\ v2' = v2
    BY <1>1 DEF Drivers!LoadCatalog, Drivers!Env
  <2>3. DOMAIN v5' = Drivers!Fields
    BY <2>1 DEF Drivers!Fields
  <2>4. v5'.at = "policy" /\ v5'.catalog = v2
    BY <2>1
  <2>5. Drivers!Followed(v5')
    BY <2>4 DEF Drivers!Followed, Drivers!Reaches
  <2> QED
    BY <2>2, <2>3, <2>5, ReportGoesOn
<1>2. CASE Drivers!LoadPolicy
  <2> DEFINE r == [v5 EXCEPT !.at = "scan", !.policy = v3]
  <2>1. v5.at = "policy" /\ v5' = r /\ UNCHANGED <<v2, v6>>
    BY <1>2 DEF Drivers!LoadPolicy, Drivers!Goes, Drivers!Env
  <2>2. v5 # Drivers!None
    BY <2>1 DEF Drivers!None
  <2>3. DOMAIN r = Drivers!Fields /\ r.at = "scan" /\ r.catalog = v5.catalog
    BY <2>2 DEF Drivers!Fields
  <2> HIDE DEF r
  <2>4. Drivers!Followed(r)
    BY <2>2, <2>3 DEF Drivers!Followed, Drivers!Reaches
  <2> QED
    BY <2>1, <2>3, <2>4, ReportGoesOn
<1>3. ASSUME NEW d \in One, Drivers!ScanDevice(d)
      PROVE  Drivers!DriversInv'
  <2> DEFINE r == [v5 EXCEPT !.left = @ \ {d}, !.seen[d] = v1[d]]
  <2>1. v5.at = "scan" /\ v5' = r /\ UNCHANGED <<v2, v6>>
    BY <1>3 DEF Drivers!ScanDevice, Drivers!Goes, Drivers!Env
  <2>2. v5 # Drivers!None
    BY <2>1 DEF Drivers!None
  <2>3. DOMAIN r = Drivers!Fields /\ r.at = "scan" /\ r.catalog = v5.catalog
    BY <2>1, <2>2 DEF Drivers!Fields
  <2> HIDE DEF r
  <2>4. Drivers!Followed(r)
    BY <2>2, <2>3 DEF Drivers!Followed, Drivers!Reaches
  <2> QED
    BY <2>1, <2>3, <2>4, ReportGoesOn
<1>4. CASE Drivers!TakeSnapshot
  <2> DEFINE snapshot == Drivers!Snapshot(v5.seen, v5.catalog)
             r == [v5 EXCEPT !.at = "resolve", !.snapshot = snapshot]
  <2>1. v5.at = "scan" /\ v5' \in {r, Drivers!None} /\ UNCHANGED <<v2, v6>>
    BY <1>4 DEF Drivers!TakeSnapshot, Drivers!Goes, Drivers!Env
  <2>2. v5 # Drivers!None
    BY <2>1 DEF Drivers!None
  <2> HIDE DEF snapshot
  <2>3. /\ DOMAIN r = Drivers!Fields /\ r.at = "resolve" /\ r.catalog = v5.catalog
        /\ r.seen = v5.seen /\ r.snapshot = snapshot
    BY <2>2 DEF Drivers!Fields
  <2> HIDE DEF r
  <2>4. Drivers!Followed(r)
    BY <2>2, <2>3 DEF Drivers!Followed, Drivers!Reaches, snapshot
  <2> QED
    BY <2>1, <2>3, <2>4, ReportGoesOn
<1>5. CASE Drivers!ResolveDriverPlan
  <2> DEFINE plan == Drivers!Plan(v5.snapshot, v5.catalog, v5.bindings, v5.time)
             r == [v5 EXCEPT !.at = "report", !.plan = plan]
  <2>1. /\ v5.at = "resolve" /\ UNCHANGED <<v2, v6>>
        /\ (Drivers!SafePlan(plan) /\ v5' = r) \/ v5' = Drivers!None
    BY <1>5 DEF Drivers!ResolveDriverPlan, Drivers!Goes, Drivers!Env
  <2>2. v5 # Drivers!None
    BY <2>1 DEF Drivers!None
  <2> HIDE DEF plan
  <2>3. /\ DOMAIN r = Drivers!Fields /\ r.at = "report" /\ r.catalog = v5.catalog
        /\ r.seen = v5.seen /\ r.snapshot = v5.snapshot /\ r.plan = plan
        /\ r.bindings = v5.bindings /\ r.time = v5.time
    BY <2>2 DEF Drivers!Fields
  <2> HIDE DEF r
  <2>4. Drivers!SafePlan(plan) => Drivers!Followed(r)
    BY <2>1, <2>2, <2>3 DEF Drivers!Followed, Drivers!Reaches, plan
  <2> QED
    BY <2>1, <2>3, <2>4, ReportGoesOn
<1>6. CASE Drivers!CreateReport
  <2> DEFINE health == [d \in DOMAIN v5.snapshot |-> Drivers!Assessed(v5.snapshot[d])]
             r == [v5 EXCEPT !.at = "firmware", !.health = health]
             safe == Drivers!SafeReport(v5.snapshot, v5.plan, v5.policy)
  <2>1. /\ v5.at = "report" /\ UNCHANGED <<v2, v6>>
        /\ (safe /\ v5' = r) \/ v5' = Drivers!None
    BY <1>6 DEF Drivers!CreateReport, Drivers!Fails, Drivers!Goes, Drivers!Env
  <2>2. v5 # Drivers!None
    BY <2>1 DEF Drivers!None
  <2> HIDE DEF health
  <2>3. /\ DOMAIN r = Drivers!Fields /\ r.at = "firmware" /\ r.catalog = v5.catalog
        /\ r.seen = v5.seen /\ r.snapshot = v5.snapshot /\ r.plan = v5.plan
        /\ r.bindings = v5.bindings /\ r.time = v5.time /\ r.policy = v5.policy
        /\ r.health = health
    BY <2>2 DEF Drivers!Fields
  <2> HIDE DEF r
  <2>4. safe => Drivers!Followed(r)
    BY <2>1, <2>2, <2>3 DEF Drivers!Followed, Drivers!Reaches, health
  <2> QED
    BY <2>1, <2>3, <2>4, ReportGoesOn
<1>7. CASE Drivers!CollectFirmware
  <2>1. /\ v5.at = "firmware" /\ UNCHANGED <<v2, v6>>
        /\ \/ v5' = Drivers!None
           \/ \E f : Drivers!SafeInventory(f)
                     /\ v5' = [v5 EXCEPT !.at = "publish", !.firmware = f]
    <3>1. Drivers!SafeInventory({})
      BY DEF Drivers!SafeInventory
    <3> QED
      BY <1>7, <3>1 DEF Drivers!CollectFirmware, Drivers!Fails, Drivers!Goes, Drivers!Env
  <2>2. v5 # Drivers!None
    <3>1. v5.at = "firmware"
      BY <1>7 DEF Drivers!CollectFirmware
    <3> QED
      BY <3>1 DEF Drivers!None
  <2>3. ASSUME NEW f, Drivers!SafeInventory(f),
               v5' = [v5 EXCEPT !.at = "publish", !.firmware = f]
        PROVE  Drivers!DriversInv'
    <3> DEFINE r == [v5 EXCEPT !.at = "publish", !.firmware = f]
    <3>1. /\ DOMAIN r = Drivers!Fields /\ r.at = "publish" /\ r.catalog = v5.catalog
          /\ r.seen = v5.seen /\ r.snapshot = v5.snapshot /\ r.plan = v5.plan
          /\ r.bindings = v5.bindings /\ r.time = v5.time /\ r.policy = v5.policy
          /\ r.health = v5.health /\ r.firmware = f
      BY <2>2 DEF Drivers!Fields
    <3>2. v5' = r
      BY <2>3
    <3> HIDE DEF r
    <3>3. Drivers!Followed(r)
      BY <2>1, <2>2, <2>3, <3>1 DEF Drivers!Followed, Drivers!Reaches
    <3> QED
      BY <2>1, <3>1, <3>2, <3>3, ReportGoesOn
  <2>4. CASE v5' = Drivers!None
    BY <2>1, <2>4, ReportGoesOn
  <2> QED
    BY <2>1, <2>3, <2>4
<1>8. CASE Drivers!Publish
  <2>1. v5.at = "publish" /\ v6' = v5 /\ v5' = Drivers!None /\ v2' = v2
    BY <1>8 DEF Drivers!Publish, Drivers!Env
  <2>2. v5 # Drivers!None
    BY <2>1 DEF Drivers!None
  <2> QED
    BY <2>1, <2>2 DEF Drivers!Followed, Drivers!Reaches, Drivers!SafePlan,
       Drivers!SafeReport, Drivers!SafeInventory
<1>9. CASE Drivers!EditCatalog \/ Drivers!EditPolicy \/ Drivers!Tick
           \/ \E d \in One : Drivers!Hotplug(d)
  <2>1. v2' \in TheCatalogs /\ UNCHANGED <<v5, v6>>
    BY <1>9 DEF Drivers!EditCatalog, Drivers!EditPolicy, Drivers!Tick, Drivers!Hotplug
  <2> QED
    BY <2>1, ReportGoesOn
<1> QED
  BY <1>1, <1>2, <1>3, <1>4, <1>5, <1>6, <1>7, <1>8, <1>9 DEF Drivers!Next

\* The entries that a device matched are the ones that the resolver finds by their ids.
LEMMA EntriesFound ==
  ASSUME NEW c \in TheCatalogs, NEW dev
  PROVE  {e \in c : e.id \in Drivers!Matched(dev, c).entryIds}
           = {e \in c : Drivers!Matches(e, dev)}
BY SystemAssumption DEF Drivers!DriverCenterAssumption, Drivers!Matched

\* Every operation of a plan is about a device that the catalog knows, and offers what it
\* says of it, a vendor's repository under a binding for it.
LEMMA PlanGrounded ==
  ASSUME NEW c \in TheCatalogs, NEW seen, NEW bindings, NEW t,
         NEW op \in Drivers!Plan(Drivers!Snapshot(seen, c), c, bindings, t)
  PROVE  LET dev == seen[op.device]  says == {e \in c : Drivers!Matches(e, dev)} IN
           /\ op.device \in DOMAIN Drivers!Snapshot(seen, c)
           /\ says # {}
           /\ \A x \in op.candidates : \E e \in says :
                x \in e.modules \cup e.firmware \cup e.packages
           /\ op.privileged => op.rollback # "not-required"
           /\ \A s \in op.sources :
                /\ \E e \in says : s \in e.sources /\ s.class \in Drivers!SourceClasses
                /\ s.class = Drivers!Vendor =>
                     \E b \in bindings :
                       /\ b.repo = s.repo /\ b.vendor = dev.vendor /\ b.platform = "debian13"
                       /\ b.until >= t /\ \E e \in says : e.packages \cap b.packages # {}
<1> DEFINE snapshot == Drivers!Snapshot(seen, c)
<1>1. PICK d \in DOMAIN snapshot :
        LET m == snapshot[d]
            support == Drivers!Support(m, c)
            sources == Drivers!TrustedSources(m, support, bindings, t)
        IN  \E k \in Drivers!Proposed(m, support, sources) :
              op = Drivers!Operation(d, k, support, sources)
  BY DEF Drivers!Plan
<1> DEFINE dev == seen[d]  m == Drivers!Matched(dev, c)
           says == {e \in c : Drivers!Matches(e, dev)}
           support == Drivers!Support(m, c)
           sources == Drivers!TrustedSources(m, support, bindings, t)
<1>2. snapshot[d] = m
  BY DEF Drivers!Snapshot
<1>3. PICK k \in Drivers!Proposed(m, support, sources) :
        op = Drivers!Operation(d, k, support, sources)
  BY <1>1, <1>2
<1>4. /\ op.device = d /\ op.candidates = Drivers!Candidates(k, support)
      /\ op.sources = sources /\ (op.privileged <=> k # "diagnose-unbound")
      /\ op.rollback = IF k = "diagnose-unbound" THEN "not-required"
                       ELSE Drivers!RollbackMode(sources)
  BY <1>3 DEF Drivers!Operation
<1>5. /\ m.device = dev /\ m.entryIds = {e.id : e \in says} /\ (m.matched <=> says # {})
      /\ m.sources = UNION {Drivers!Valid(e.sources) : e \in says}
  BY DEF Drivers!Matched
<1>6. /\ support.modules = UNION {e.modules : e \in says}
      /\ support.firmware = UNION {e.firmware : e \in says}
      /\ support.packages = UNION {e.packages : e \in says}
  <2>1. {e \in c : e.id \in m.entryIds} = says
    BY EntriesFound
  <2> QED
    BY <2>1 DEF Drivers!Support
<1> HIDE DEF m, support, says
<1>7. \A s \in sources :
        /\ s \in m.sources
        /\ s.class = Drivers!Vendor =>
             \E b \in bindings : Drivers!Binds(b, s, m, support, t)
  BY DEF Drivers!TrustedSources
<1> HIDE DEF sources
<1>8. says # {}
  <2>1. /\ k \in {"diagnose-unbound", "review-module", "review-firmware", "review-package",
                  "review-fwupd"}
        /\ k = "diagnose-unbound" => m.matched
        /\ k = "review-module" => support.modules # {}
        /\ k = "review-firmware" => support.firmware # {}
        /\ k = "review-package" => support.packages # {}
        /\ k = "review-fwupd" => \E s \in sources : s.class = "fwupd-lvfs"
    BY DEF Drivers!Proposed
  <2>2. says = {} => ~m.matched /\ support.modules = {} /\ support.firmware = {}
                     /\ support.packages = {} /\ sources = {}
    BY <1>5, <1>6, <1>7
  <2> QED
    BY <2>1, <2>2
<1>9. \A x \in op.candidates : \E e \in says : x \in e.modules \cup e.firmware \cup e.packages
  BY <1>4, <1>6 DEF Drivers!Candidates, Drivers!Proposed
<1>10. op.privileged => op.rollback # "not-required"
  BY <1>4 DEF Drivers!RollbackMode
<1>11. \A s \in op.sources :
         \E e \in says : s \in e.sources /\ s.class \in Drivers!SourceClasses
  BY <1>4, <1>5, <1>7 DEF Drivers!Valid
<1>12. ASSUME NEW s \in op.sources, s.class = Drivers!Vendor
       PROVE  \E b \in bindings :
                /\ b.repo = s.repo /\ b.vendor = dev.vendor /\ b.platform = "debian13"
                /\ b.until >= t /\ \E e \in says : e.packages \cap b.packages # {}
  <2>1. PICK b \in bindings : Drivers!Binds(b, s, m, support, t)
    BY <1>4, <1>7, <1>12
  <2>2. /\ b.repo = s.repo /\ b.vendor = dev.vendor /\ b.platform = "debian13"
        /\ b.packages \cap support.packages # {} /\ b.until >= t
    BY <1>5, <2>1 DEF Drivers!Binds
  <2>3. \E e \in says : e.packages \cap b.packages # {}
    BY <1>6, <2>2
  <2> QED
    BY <2>2, <2>3
<1> QED
  BY <1>4, <1>8, <1>9, <1>10, <1>11, <1>12 DEF says

\* What is offered is grounded in the catalog, the policy and the bindings it has read.
LEMMA DriversGrounded == Drivers!DriversInv => Drivers!OfferIsGrounded
<1> SUFFICES ASSUME Drivers!DriversInv, v6 # Drivers!None
             PROVE  Drivers!OfferIsGrounded
  BY DEF Drivers!OfferIsGrounded
<1>1. /\ v6.catalog \in TheCatalogs /\ v6.snapshot = Drivers!Snapshot(v6.seen, v6.catalog)
      /\ v6.plan = Drivers!Plan(v6.snapshot, v6.catalog, v6.bindings, v6.time)
      /\ Drivers!SafeReport(v6.snapshot, v6.plan, v6.policy)
      /\ v6.health = [d \in DOMAIN v6.snapshot |-> Drivers!Assessed(v6.snapshot[d])]
      /\ Drivers!SafeInventory(v6.firmware)
  BY DEF Drivers!DriversInv, Drivers!Followed, Drivers!Reaches
<1>2. \A r \in v6.firmware : r.remote = "lvfs"
  BY <1>1 DEF Drivers!SafeInventory
<1>3. ASSUME NEW op \in v6.plan
      PROVE  LET dev == v6.seen[op.device] IN
           /\ Drivers!Says(dev) # {} /\ v6.health[op.device] # "unknown"
           /\ \A x \in op.candidates : \E e \in Drivers!Says(dev) :
                x \in e.modules \cup e.firmware \cup e.packages
           /\ op.privileged => op.rollback # "not-required"
           /\ \A s \in op.sources :
                /\ \E e \in Drivers!Says(dev) : s \in e.sources
                /\ s.class \in Drivers!SourceClasses \cap v6.policy.classes /\ ~s.url
                /\ s.class = Drivers!Vendor =>
                     \E b \in v6.bindings :
                       /\ b.repo = s.repo /\ b.vendor = dev.vendor /\ b.platform = "debian13"
                       /\ b.until >= v6.time
                       /\ \E e \in Drivers!Says(dev) : e.packages \cap b.packages # {}
  <2> DEFINE d == op.device  dev == v6.seen[d]
             says == {e \in v6.catalog : Drivers!Matches(e, dev)}
  <2>1. Drivers!Says(dev) = says
    BY DEF Drivers!Says, Drivers!Matches, Drivers!Tokens
  <2>2. op \in Drivers!Plan(Drivers!Snapshot(v6.seen, v6.catalog), v6.catalog, v6.bindings,
                           v6.time)
    BY <1>1
  <2>3. /\ d \in DOMAIN v6.snapshot /\ says # {}
        /\ \A x \in op.candidates : \E e \in says :
             x \in e.modules \cup e.firmware \cup e.packages
        /\ op.privileged => op.rollback # "not-required"
        /\ \A s \in op.sources :
             /\ \E e \in says : s \in e.sources /\ s.class \in Drivers!SourceClasses
             /\ s.class = Drivers!Vendor =>
                  \E b \in v6.bindings :
                    /\ b.repo = s.repo /\ b.vendor = dev.vendor /\ b.platform = "debian13"
                    /\ b.until >= v6.time
                    /\ \E e \in says : e.packages \cap b.packages # {}
    BY <1>1, <2>2, PlanGrounded
  <2>4. v6.health[d] # "unknown"
    <3>1. v6.health[d] = Drivers!Assessed(v6.snapshot[d])
      BY <1>1, <2>3
    <3>2. v6.snapshot[d] = Drivers!Matched(dev, v6.catalog)
      BY <1>1, <2>3 DEF Drivers!Snapshot
    <3>3. Drivers!Matched(dev, v6.catalog).matched <=> says # {}
      BY DEF Drivers!Matched
    <3> QED
      BY <2>3, <3>1, <3>2, <3>3 DEF Drivers!Assessed
  <2>5. \A s \in op.sources : s.class \in v6.policy.classes /\ ~s.url
    BY <1>1 DEF Drivers!SafeReport, Drivers!Violates
  <2> QED
    BY <2>1, <2>3, <2>4, <2>5
<1> QED
  BY <1>2, <1>3 DEF Drivers!OfferIsGrounded

\* "Untrusted driver source class", "manual recovery is required": whatever is plugged in,
\* edited or expires while a report is made, it offers for a device only what catalog,
\* policy and evidence admit; and for any number of package transactions, a recovery boot
\* that reports nothing has overlooked none that was interrupted.
THEOREM ReportsAreGrounded ==
  Spec => []ReportsGrounded
<1> DEFINE Inv == /\ focus = "drivers" => Drivers!DriversInv
                  /\ focus = "recovery" => Recovery!RecoveryInv
<1>1. Init => Inv
  BY DriversInit, RecoveryInit DEF Init
<1>2. Inv /\ [Next]_slots => Inv'
  <2> SUFFICES ASSUME Inv, [Next]_slots
               PROVE  Inv'
    OBVIOUS
  <2>1. CASE focus = "drivers" /\ Drivers!Next /\ focus' = focus
    BY <2>1, DriversStep
  <2>2. CASE focus = "recovery" /\ Recovery!Next /\ focus' = focus
    BY <2>2, RecoveryStep
  <2>3. CASE focus \notin {"drivers", "recovery"} /\ focus' = focus
    BY <2>3
  <2>4. CASE UNCHANGED slots
    <3>1. UNCHANGED <<focus, v2, v5, v6>>
      BY <2>4 DEF slots
    <3>2. Drivers!DriversInv => Drivers!DriversInv'
      BY <3>1, ReportGoesOn DEF Drivers!DriversInv
    <3> QED
      BY <2>4, <3>1, <3>2, RecoveryStutter
  <2> QED
    BY <2>1, <2>2, <2>3, <2>4 DEF Next
<1>3. Inv => ReportsGrounded
  BY DriversGrounded, RecoveryOverlooksNothing DEF ReportsGrounded
<1> QED
  BY <1>1, <1>2, <1>3, PTL DEF Spec
================================================================================
