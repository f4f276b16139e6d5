--------------------------- MODULE ShellAppearance ---------------------------
(***************************************************************************)
(* The appearance of the Web shell: the theme engine                       *)
(* (swir-theme-engine.js) with its profiles, accents and packs of design   *)
(* tokens, and the other writers of the accent, the settings of the shell  *)
(* (swir-os.js) and the first-boot form (swir-oobe.js).  What a token's    *)
(* value looks like is left out: a pack is the tokens it gives a value.    *)
(***************************************************************************)
EXTENDS FiniteSets

CONSTANTS Builtin, DefaultProfile,  \* the profiles of the shell
          Custom,                   \* ids that packs may take
          Accent, DefaultAccent,
          Token, UnsafeToken        \* design tokens, and what is not one

AppearanceAssumption ==
  /\ DefaultProfile \in Builtin /\ DefaultAccent \in Accent
  /\ Custom \cap Builtin = {} /\ UnsafeToken \notin Token

VARIABLES html,                \* profile and accent of the document
          inline,              \* tokens set on the document's element
          activeCustomTokenKeys,
          stored,              \* profile and accent of the store
          customProfiles       \* tokens of the registered packs

avars == <<html, inline, activeCustomTokenKeys, stored, customProfiles>>

normalizeAccent(a)  == IF a \in Accent THEN a ELSE DefaultAccent
normalizeProfile(p, packs) ==
  IF p \in Builtin \cup DOMAIN packs THEN p ELSE DefaultProfile

\* sanitizePack: an id of its own, tokens of the list, and at least one.
sanitizePack(id, tokens) ==
  id \in Custom /\ tokens # {} /\ tokens \subseteq Token

TokensOf(p, packs) == IF p \in DOMAIN packs THEN packs[p] ELSE {}

\* apply: the document, the inline tokens in place of those before, the store.
apply(profile, accent, packs, persist) ==
  LET p    == normalizeProfile(profile, packs)
      look == [profile |-> p, accent |-> normalizeAccent(accent)]
  IN  /\ html' = look
      /\ inline' = (inline \ activeCustomTokenKeys) \cup TokensOf(p, packs)
      /\ activeCustomTokenKeys' = TokensOf(p, packs)
      /\ stored' = IF persist THEN look ELSE stored

\* The engine starts with what is stored; it has written nothing yet.
AppearanceInit ==
  /\ stored \in [profile : Builtin \cup Custom, accent : Accent]
  /\ html = [profile |-> IF stored.profile \in Builtin THEN stored.profile ELSE DefaultProfile,
             accent |-> stored.accent]
  /\ inline = {} /\ activeCustomTokenKeys = {} /\ customProfiles = [p \in {} |-> {}]

SetProfile(p) == apply(p, html.accent, customProfiles, TRUE) /\ UNCHANGED customProfiles
SetAccent(a)  == apply(html.profile, a, customProfiles, TRUE) /\ UNCHANGED customProfiles
reset(packs)  == apply(DefaultProfile, DefaultAccent, packs, TRUE)
Reset         == reset(customProfiles) /\ UNCHANGED customProfiles

\* registerPack: known, not applied; a pack may take the place of its like.
RegisterPack(id, tokens) ==
  /\ sanitizePack(id, tokens)
  /\ customProfiles' = [p \in DOMAIN customProfiles \cup {id} |->
                          IF p = id THEN tokens ELSE customProfiles[p]]
  /\ UNCHANGED <<html, inline, activeCustomTokenKeys, stored>>

Without(id) == [p \in DOMAIN customProfiles \ {id} |-> customProfiles[p]]

\* snapshot().profile
Active(packs) == normalizeProfile(html.profile, packs)

\* wasActive, of a pack about to be removed.
WasActive(id) == Active(customProfiles) = id

UnregisterPack(id) ==
  /\ id \in DOMAIN customProfiles /\ customProfiles' = Without(id)
  /\ IF WasActive(id) THEN reset(Without(id))
     ELSE UNCHANGED <<html, inline, activeCustomTokenKeys, stored>>

\* setTheme of the shell, which knows nothing of profiles; the quick center,
\* the settings and the first-boot form call it.
SetTheme(a) ==
  /\ html' = [html EXCEPT !.accent = normalizeAccent(a)]
  /\ stored' = [stored EXCEPT !.accent = normalizeAccent(a)]
  /\ UNCHANGED <<inline, activeCustomTokenKeys, customProfiles>>

\* The page again: the engine knows no pack before one is registered.
Reload ==
  /\ html' = [profile |-> normalizeProfile(stored.profile, [p \in {} |-> {}]),
              accent |-> stored.accent]
  /\ inline' = {} /\ activeCustomTokenKeys' = {} /\ customProfiles' = [p \in {} |-> {}]
  /\ UNCHANGED stored

AppearanceNext ==
  \/ \E p \in Builtin \cup Custom : SetProfile(p)
  \/ \E a \in Accent : SetAccent(a) \/ SetTheme(a)
  \/ Reset \/ Reload
  \/ \E id \in Builtin \cup Custom, ts \in SUBSET (Token \cup {UnsafeToken}) : RegisterPack(id, ts)
  \/ \E id \in Custom : UnregisterPack(id)

AppearanceSpec == AppearanceInit /\ [][AppearanceNext]_avars

-----------------------------------------------------------------------------
\* However packs come and go and whoever sets the accent, the document has the
\* stored accent, and the stored profile or the default one; and its inline
\* tokens are gone as soon as their pack is (swir-theme-engine.js:87-122,
\* 143-151).
AppearanceAgrees ==
  /\ html.accent = stored.accent
  /\ html.profile \in {stored.profile, DefaultProfile}
  /\ html.profile \notin DOMAIN customProfiles => inline = {}

-----------------------------------------------------------------------------
\* The inline tokens are those the engine has set, and the packs have ids of their own.
AppearanceInv ==
  /\ html \in [profile : Builtin \cup Custom, accent : Accent]
  /\ stored \in [profile : Builtin \cup Custom, accent : Accent]
  /\ DOMAIN customProfiles \subseteq Custom
  /\ inline = activeCustomTokenKeys
  /\ AppearanceAgrees
=============================================================================
