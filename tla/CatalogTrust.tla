----------------------------- MODULE CatalogTrust -----------------------------
(***************************************************************************)
(* What keeps a signed catalog from being rolled back.  On the System      *)
(* edition several verifications at a time share a store of append-only    *)
(* high-water files, and each may die between any two steps; the web       *)
(* edition keeps one mark in its storage.  The trust roots are rotated by  *)
(* a release script.                                                       *)
(***************************************************************************)
EXTENDS Naturals

CONSTANTS
  Call,         \* verifications at the same time
  Digest,       \* contents of a catalog
  CurrentKey,   \* key of the root in use
  NextKey,      \* key of the root to come
  MaxSequence   \* bound: catalogs have sequence 1 to MaxSequence

CatalogAssumption ==
  /\ CurrentKey # NextKey /\ {CurrentKey, NextKey} \cap {"none", "blank"} = {}
  /\ MaxSequence \in Nat

VARIABLES
  edition,   \* "system" or "web": which of the two is installed
  roots,     \* the trust document: the window of each enabled root
  trusted,   \* the keys of the document the verifier was made with
  file,      \* high-water files by sequence and digest: "none", "blank" or the key inside
  at, env,   \* where authorizeAppImage() is, and its envelope
  seen,      \* the high-water entry it listed (none before), and, as history,
             \* the sequences that were authorized by then
  granted,   \* history: sequence and digest of the authorizations
  back,      \* history: was one below what had been authorized before it listed?
  mark,      \* the web edition's mark
  web,       \* its verifyAndAccept(): "idle", or the envelope and the mark it read
  overlap    \* history: did two of those overlap?

calls == <<at, env, seen, granted, back>>
store == <<edition, roots, trusted, file, calls>>
page  == <<mark, web, overlap>>
cVars == <<store, page>>

Key      == {CurrentKey, NextKey}
Sequence == 1 .. MaxSequence

\* What a release signs: any content under any sequence, with either key.
Envelope == [sequence : Sequence, digest : Digest, key : Key]
Nothing  == [sequence |-> 0, digest |-> "none", key |-> "none"]

\* Not older than f, and not another catalog of the same sequence.
Ahead(e, f) ==
  e.sequence > f.sequence \/ (e.sequence = f.sequence /\ e.digest = f.digest)

-------------------------------------------------------------------------------
(* The trust roots.                                                          *)

Closed       == [from |-> 1, to |-> 0]
EnabledRoots == {k \in Key : roots[k] # Closed}

\* verifyRotation: the bundle is what the cutover asked for.
Rotated(cutover, retire) ==
  /\ EnabledRoots = Key /\ retire >= cutover
  /\ roots[CurrentKey] = [from |-> 1, to |-> retire]
  /\ roots[NextKey].from = cutover

\* applyRotation: from exactly one enabled root; both keys are as pinned.
ApplyRotation(cutover, retire) ==
  /\ retire >= cutover
  /\ EnabledRoots = {CurrentKey}
  /\ roots' = [roots EXCEPT ![CurrentKey] = [from |-> 1, to |-> retire],
                            ![NextKey] = [from |-> cutover, to |-> MaxSequence]]
  /\ UNCHANGED <<edition, trusted, file, calls, page>>

-------------------------------------------------------------------------------
(* System edition.                                                           *)

Entries    == {n \in Sequence \X Digest : file[n[1]][n[2]] # "none"}
AtHigh     == {n \in Entries : \A m \in Entries : m[1] <= n[1]}
Authorized == {g[1] : g \in granted}

Goto(c, l) == at' = [at EXCEPT ![c] = l]
Ends(c)    == Goto(c, "idle") /\ env' = [env EXCEPT ![c] = Nothing]
Refused(c) == Ends(c) /\ UNCHANGED <<granted, back>>

Granted(c) ==
  /\ Ends(c)
  /\ granted' = granted \cup {<<env[c].sequence, env[c].digest>>}
  /\ back' = (back \/ \E m \in seen[c] : \E n \in m.before : env[c].sequence < n)

\* The same envelope, signed by the same key.
SameSigned(e, f) == e = f

\* The root of the envelope is one of the verifier's; its window is not looked at.
TrustedRoot(e) == e.key \in trusted

\* read() first lists the directory: at most one digest at the highest sequence.
List(c) ==
  /\ at[c] \in {"authorize", "accept", "reread"} /\ seen[c] = {}
  /\ \/ /\ \A m, n \in AtHigh : m = n
        /\ seen' = [seen EXCEPT ![c] =
             {[entry |-> n, before |-> Authorized] :
                n \in IF AtHigh = {} THEN {<<0, "none">>} ELSE AtHigh}]
        /\ UNCHANGED <<at, env, granted, back>>
     \/ (\E m, n \in AtHigh : m # n) /\ Refused(c) /\ UNCHANGED seen
  /\ UNCHANGED <<edition, roots, trusted, file, page>>

\* ... and then reads that file, which must have been written out.
Read(c) ==
  LET m == (CHOOSE m \in seen[c] : TRUE).entry
  IN IF m[1] = 0 THEN Nothing
     ELSE [sequence |-> m[1], digest |-> m[2], key |-> file[m[1]][m[2]]]

Readable(c) == Read(c).key # "blank"

\* authorizeAppImage with an envelope.
Authorize(c, e) ==
  /\ edition = "system" /\ at[c] = "idle"
  /\ env' = [env EXCEPT ![c] = e] /\ Goto(c, "authorize")
  /\ UNCHANGED <<edition, roots, trusted, file, seen, granted, back, page>>

\* What was read is compared, the envelope verified.
Verify(c) ==
  /\ at[c] = "authorize" /\ seen[c] # {}
  /\ seen' = [seen EXCEPT ![c] = {}]
  /\ IF Readable(c) /\ Ahead(env[c], Read(c)) /\ TrustedRoot(env[c])
     THEN Goto(c, "accept") /\ UNCHANGED <<env, granted, back>> ELSE Refused(c)
  /\ UNCHANGED <<edition, roots, trusted, file, page>>

\* accept() has read again: what is there already is enough.
Accept(c) ==
  /\ at[c] = "accept" /\ seen[c] # {}
  /\ seen' = [seen EXCEPT ![c] = {}]
  /\ IF Readable(c) /\ SameSigned(Read(c), env[c]) THEN Granted(c)
     ELSE IF Readable(c) /\ env[c].sequence > Read(c).sequence
     THEN Goto(c, "create") /\ UNCHANGED <<env, granted, back>>
     ELSE Refused(c)
  /\ UNCHANGED <<edition, roots, trusted, file, page>>

\* The file is created exclusively; one that exists is somebody else's.
Create(c) ==
  /\ at[c] = "create"
  /\ LET e == env[c]
     IN IF file[e.sequence][e.digest] = "none"
        THEN /\ file' = [file EXCEPT ![e.sequence][e.digest] = "blank"]
             /\ Goto(c, "write")
        ELSE Goto(c, "reread") /\ UNCHANGED file
  /\ UNCHANGED <<edition, roots, trusted, env, seen, granted, back, page>>

Write(c) ==
  /\ at[c] = "write"
  /\ file' = [file EXCEPT ![env[c].sequence][env[c].digest] = env[c].key]
  /\ Goto(c, "reread")
  /\ UNCHANGED <<edition, roots, trusted, env, seen, granted, back, page>>

\* The high-water mark must be this envelope now.
Reread(c) ==
  /\ at[c] = "reread" /\ seen[c] # {}
  /\ seen' = [seen EXCEPT ![c] = {}]
  /\ IF Readable(c) /\ SameSigned(Read(c), env[c]) THEN Granted(c) ELSE Refused(c)
  /\ UNCHANGED <<edition, roots, trusted, file, page>>

\* The process dies; the next one is made with the document there is now.
Restart ==
  /\ at' = [c \in Call |-> "idle"] /\ env' = [c \in Call |-> Nothing]
  /\ seen' = [c \in Call |-> {}]
  /\ trusted' = EnabledRoots
  /\ UNCHANGED <<edition, roots, file, granted, back, page>>

-------------------------------------------------------------------------------
(* Web edition: read, verify, set.                                           *)

\* verifyPolicy against the mark that was read; an empty mark admits anything.
Fresh(e, previous) == previous = Nothing \/ Ahead(e, previous)

\* verify(): the policy, and then the digest, the key and the signature decide.
Verdicts(e, previous) == {FALSE, Fresh(e, previous)}

VerifyAndAccept(c, e) ==
  /\ edition = "web" /\ web[c].env = Nothing
  /\ web' = [web EXCEPT ![c] = [env |-> e, previous |-> mark]]
  /\ overlap' = (overlap \/ \E d \in Call : web[d].env # Nothing)
  /\ UNCHANGED <<store, mark>>

\* Mutant: whatever verified is stored.
StoreAny(c) ==
  /\ web[c].env # Nothing
  /\ web' = [web EXCEPT ![c].env = Nothing]
  /\ mark' = web[c].env
  /\ UNCHANGED <<store, overlap>>

\* After the awaits of the verification the mark is set, whatever it is by then.
Store(c) ==
  /\ web[c].env # Nothing
  /\ web' = [web EXCEPT ![c].env = Nothing]
  /\ \E ok \in Verdicts(web[c].env, web[c].previous) : mark' = IF ok THEN web[c].env ELSE mark
  /\ UNCHANGED <<store, overlap>>

-------------------------------------------------------------------------------
Init ==
  /\ edition \in {"system", "web"}
  /\ roots = [k \in Key |-> IF k = CurrentKey THEN [from |-> 1, to |-> MaxSequence] ELSE Closed]
  /\ trusted = {CurrentKey}
  /\ file = [n \in Sequence |-> [d \in Digest |-> "none"]]
  /\ at = [c \in Call |-> "idle"] /\ env = [c \in Call |-> Nothing]
  /\ seen = [c \in Call |-> {}]
  /\ granted = {} /\ back = FALSE
  /\ mark = Nothing
  /\ web = [c \in Call |-> [env |-> Nothing, previous |-> Nothing]]
  /\ overlap = FALSE

Next ==
  \/ \E c \in Call :
       \/ \E e \in Envelope : Authorize(c, e) \/ VerifyAndAccept(c, e)
       \/ List(c) \/ Verify(c) \/ Accept(c) \/ Create(c)
       \/ Write(c) \/ Reread(c) \/ Store(c)
  \/ \E m, n \in Sequence : ApplyRotation(m, n)
  \/ Restart

Spec == Init /\ [][Next]_cVars

-------------------------------------------------------------------------------
\* "antiRollback", "concurrentRollbackResistant": no authorization is given for a
\* catalog older than one authorized before it looked, and no two for different
\* catalogs of one sequence, whatever verifications overlap or die.  The web
\* edition's mark is not moved back unless two of its verifications overlapped.
NeverBackStep ==
  /\ ~back'
  /\ \A g, h \in granted' : g[1] = h[1] => g = h
  /\ mark' # mark => overlap \/ Ahead(mark', mark)

NeverBack == [][NeverBackStep]_cVars

\* "overlapSequences": a rotated bundle has a root for every sequence.
NoGap ==
  /\ \A s \in Sequence : \E k \in Key : roots[k].from <= s /\ s <= roots[k].to
  /\ EnabledRoots = Key => \E m, n \in Sequence : Rotated(m, n)

-------------------------------------------------------------------------------
(* Why: an entry of the store is never removed, so whoever lists sees every  *)
(* catalog authorized by then; and a page that verifies alone has the mark.  *)

CatalogType ==
  /\ file \in [Sequence -> [Digest -> Key \cup {"none", "blank"}]]
  /\ env \in [Call -> Envelope \cup {Nothing}]
  /\ at \in [Call -> {"idle", "authorize", "accept", "create", "write", "reread"}]
  /\ \A c \in Call : at[c] # "idle" => env[c] \in Envelope
  /\ mark \in Envelope \cup {Nothing}
  /\ web \in [Call -> [env : Envelope \cup {Nothing}, previous : Envelope \cup {Nothing}]]

Listed == UNION {seen[c] : c \in Call}

\* One entry at a time, and one for a sequence, over all who have listed.
ListedOnce ==
  /\ seen \in [Call -> SUBSET [entry : Entries \cup {<<0, "none">>}, before : SUBSET Sequence]]
  /\ \A c \in Call : \A m, k \in seen[c] : m = k
  /\ \A m, k \in Listed : m.entry[1] = k.entry[1] => m.entry = k.entry

\* What was authorized is in the store, and not above what is listed later.
GrantedOnce ==
  /\ granted \subseteq Entries /\ ~back
  /\ \A g, h \in granted : g[1] = h[1] => g = h
  /\ \A m \in Listed, g \in granted : m.entry[1] = g[1] => m.entry = g
  /\ \A m \in Listed : \A n \in m.before : m.entry \in Entries => n <= m.entry[1]

MarkFollowed ==
  ~overlap => \A c \in Call : web[c].env # Nothing =>
    /\ web[c].previous = mark
    /\ \A d \in Call : web[d].env # Nothing => d = c

RootsFor(retire, next) == [k \in Key |-> IF k = CurrentKey THEN [from |-> 1, to |-> retire] ELSE next]

RootsOverlap ==
  \/ roots = RootsFor(MaxSequence, Closed)
  \/ \E m, n \in Sequence : n >= m /\ roots = RootsFor(n, [from |-> m, to |-> MaxSequence])

IInv == CatalogType /\ ListedOnce /\ GrantedOnce /\ MarkFollowed /\ RootsOverlap
================================================================================
