----------------------------- MODULE ShellLocale -----------------------------
(***************************************************************************)
(* The language of the Web shell: the message packs and the locale of      *)
(* swir-i18n.js, the first-boot form that is translated in place           *)
(* (swir-oobe.js), and the bundled applications, each in a frame of its    *)
(* own, whose helper script (swir-app-i18n.js) the host injects            *)
(* (swir-app-i18n-host.js).  The packs of the applications arrive from a   *)
(* queue of scripts that run one after the other (swir-v11.js); a script   *)
(* that cannot be loaded is passed over.  A text is modelled by the locale *)
(* of the pack it comes from.                                              *)
(***************************************************************************)
EXTENDS Naturals, Sequences

CONSTANTS Locale, FallbackLocale, None,
          ScriptOf, LanguageOf, AliasOf,  \* tables of the browser and the file
          Key, Frame,
          BaseKeys,                       \* keys of the packs loaded first
          PackScripts                     \* what each later script registers

LocaleAssumption ==
  /\ FallbackLocale \in Locale /\ None \notin Locale
  /\ \A table \in {ScriptOf, LanguageOf, AliasOf} : table \in [Locale -> Locale \cup {None}]
  /\ BaseKeys \in [Locale -> SUBSET Key]
  /\ PackScripts \in Seq([Locale -> SUBSET Key])

VARIABLES currentLocale,
          messagePacks,  \* keys of each locale
          position,      \* of the queue of scripts
          form,          \* the first-boot form: is it shown, and its texts
          frames         \* the document of each frame and its texts

lvars == <<currentLocale, messagePacks, position, form, frames>>

\* A table that knows nothing of a locale leaves its place in the chain empty.
localeChain(l) == <<l, ScriptOf[l], LanguageOf[l], AliasOf[l], FallbackLocale>>

InChain(x, l) == \E i \in 1 .. 5 : localeChain(l)[i] = x

\* The places of the chain whose packs have the key, and the text of the first of them.
Places(l, packs, k) ==
  {i \in 1 .. 5 : localeChain(l)[i] \in Locale /\ k \in packs[localeChain(l)[i]]}

translate(l, packs, k) ==
  IF Places(l, packs, k) = {} THEN None
  ELSE localeChain(l)[CHOOSE i \in Places(l, packs, k) : \A j \in Places(l, packs, k) : i <= j]

\* applyDocument: a key without a translation shows itself.
applyDocument(l, packs) == [k \in Key |-> translate(l, packs, k)]

\* apply, in a frame: a key without a translation leaves the text as it was.
apply(text, l, packs) ==
  [k \in Key |-> IF translate(l, packs, k) = None THEN text[k] ELSE translate(l, packs, k)]

English == [k \in Key |-> FallbackLocale]
NoDoc   == [at |-> "none", text |-> English]
Hidden  == [shown |-> FALSE, text |-> English]

\* preferredLocale: the stored one, the browser's, or the fallback.
LocaleInit ==
  /\ currentLocale \in Locale /\ messagePacks = BaseKeys /\ position = 1
  /\ form = Hidden /\ frames = [f \in Frame |-> NoDoc]

Reapply(l, packs) ==
  IF form.shown THEN [form EXCEPT !.text = applyDocument(l, packs)] ELSE form

\* setLocale: the document, and the listeners, which are the helped frames.
SetLocale(l) ==
  /\ currentLocale' = l
  /\ form' = Reapply(l, messagePacks)
  /\ frames' = [f \in Frame |->
                  IF frames[f].at = "helped"
                  THEN [frames[f] EXCEPT !.text = apply(@, l, messagePacks)]
                  ELSE frames[f]]
  /\ UNCHANGED <<messagePacks, position>>

\* A pack concerns the document if its locale is in the current one's chain.
Concerns(l) == InChain(l, currentLocale)
\* Does a registration translate the document again?
Retranslates(l) == Concerns(l)

\* registerMessages of all the locales of one script.  No listener is told.
registerMessages(packs) ==
  LET after == [l \in Locale |-> messagePacks[l] \cup packs[l]]
  IN  /\ messagePacks' = after
      /\ form' = IF \E l \in Locale : packs[l] # {} /\ Retranslates(l)
                 THEN Reapply(currentLocale, after) ELSE form

\* The host is the last script of the queue.
HostRuns == position > Len(PackScripts)

\* The next script runs, or could not be loaded.
RunScript ==
  /\ position <= Len(PackScripts) /\ position' = position + 1
  /\ registerMessages(PackScripts[position]) \/ UNCHANGED <<messagePacks, form>>
  /\ UNCHANGED <<currentLocale, frames>>

\* The first-boot form appears, and is removed when setup is done.
Show ==
  /\ form' = IF form.shown THEN Hidden
             ELSE [shown |-> TRUE, text |-> applyDocument(currentLocale, messagePacks)]
  /\ UNCHANGED <<currentLocale, messagePacks, position, frames>>

Becomes(f, doc) ==
  frames' = [frames EXCEPT ![f] = doc] /\ UNCHANGED <<currentLocale, messagePacks, position, form>>

\* A window opens with its English document, or navigates, or closes; pagehide
\* ends the subscription.
OpenFrame(f)  == Becomes(f, [at |-> "plain", text |-> English])
CloseFrame(f) == frames[f].at # "none" /\ Becomes(f, NoDoc)

\* watch and inject: at the load of the document, or at once if it is complete.
Inject(f) == HostRuns /\ frames[f].at = "plain" /\ Becomes(f, [frames[f] EXCEPT !.at = "injected"])

\* The helper has been fetched: it applies, and subscribes.
HelperStart(f) ==
  /\ frames[f].at = "injected"
  /\ Becomes(f, [at |-> "helped", text |-> apply(frames[f].text, currentLocale, messagePacks)])

LocaleNext ==
  \/ \E l \in Locale : SetLocale(l)
  \/ RunScript \/ Show
  \/ \E f \in Frame : OpenFrame(f) \/ CloseFrame(f) \/ Inject(f) \/ HelperStart(f)

LocaleSpec == LocaleInit /\ [][LocaleNext]_lvars

-----------------------------------------------------------------------------
\* Whatever the order of scripts, windows and choices of a language, the form
\* and every helped frame show each key from the first pack that has it among
\* the fallbacks of the current locale, of all the packs loaded
\* (swir-i18n.js:122-128, 195, 209; swir-v11.js:3-12).
ShowsTheLocale ==
  /\ form.shown => form.text = applyDocument(currentLocale, messagePacks)
  /\ \A f \in Frame, k \in Key :
       frames[f].at = "helped" /\ translate(currentLocale, messagePacks, k) # None
         => frames[f].text[k] = translate(currentLocale, messagePacks, k)

-----------------------------------------------------------------------------
\* No frame is helped before all the packs are there.
LocaleInv ==
  /\ currentLocale \in Locale /\ DOMAIN messagePacks = Locale
  /\ position \in Nat \ {0}
  /\ DOMAIN form = {"shown", "text"} /\ DOMAIN frames = Frame
  /\ \A f \in Frame :
       /\ DOMAIN frames[f] = {"at", "text"}
       /\ frames[f].at \in {"injected", "helped"} => HostRuns
  /\ ShowsTheLocale
=============================================================================
