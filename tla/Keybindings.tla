---------------------------- MODULE Keybindings ----------------------------
(***************************************************************************)
(* The shortcuts a user chose (hotkeys/registry.ts, settings/keybindings.ts *)
(* and settings/settings.ts) in the windows of a browser, which share the  *)
(* storage, and the page of the settings that edits them                   *)
(* (settings/KeybindingSettings.tsx).  What a text of the storage, of the  *)
(* draft or of an import says is a member of KeyTexts: the chords it gives to *)
(* actions, or Garbage for anything the parsers refuse.                    *)
(***************************************************************************)
EXTENDS Naturals, FiniteSets

CONSTANTS
  Panes,     \* the windows
  Actions,   \* the ids of the registry
  Default,   \* HOTKEYS_REGISTRY: the chord of each action
  KeyTexts,  \* texts that are written or found
  Unbound,   \* null: the action has no chord
  Kept,      \* no entry: the action keeps its default
  Garbage,   \* not JSON, an unknown action, a malformed chord
  NoPane,    \* no window
  MaxEdits   \* bound: texts typed, dialogs and reloads

Chords == {Default[a] : a \in Actions}
Overrides == [Actions -> Chords \cup {Unbound, Kept}]
Nothing == [a \in Actions |-> Kept]

ASSUME KeyConstants ==
  /\ MaxEdits \in Nat /\ NoPane \notin Panes
  /\ \A a, b \in Actions : Default[a] = Default[b] => a = b
  /\ KeyTexts \subseteq Overrides \cup {Garbage} /\ Nothing \in KeyTexts

VARIABLES
  bound,     \* keybindings of each window
  effective, \* effectiveHotkeys: the chord of each action, or Unbound
  stored,    \* localStorage
  page,      \* the settings: "closed", "open", or "under" a dialog
  draft,     \* the text of the page
  saver,     \* history: the window whose save was the last, and lasted
  edits      \* counter of the bound

keyVars == <<bound, effective, stored, page, draft, saver, edits>>

\* Property: type correctness.
KeysTypeOK ==
  /\ bound \in [Panes -> Overrides]
  /\ effective \in [Panes -> [Actions -> Chords \cup {Unbound}]]
  /\ stored \in KeyTexts /\ draft \in [Panes -> KeyTexts]
  /\ page \in [Panes -> {"closed", "open", "under"}]
  /\ saver \in Panes \cup {NoPane} /\ edits \in 0 .. MaxEdits

-----------------------------------------------------------------------------
\* mergeKeybindings.
Merged(o) == [a \in Actions |-> IF o[a] = Kept THEN Default[a] ELSE o[a]]

\* Two actions of a registry with one chord.
Clash(e) == \E a, b \in Actions : a # b /\ e[a] # Unbound /\ e[a] = e[b]

\* A plausible slip: the chords given are compared with one another, not with the defaults kept.
Valid_AmongOverrides(t) ==
  /\ t # Garbage
  /\ ~\E a, b \in Actions : a # b /\ t[a] \notin {Unbound, Kept} /\ t[a] = t[b]

\* validateKeybindingOverrides and the two parsers before it.
Valid(t) == t # Garbage /\ ~Clash(Merged(t))

\* loadKeybindingOverrides: what a window starts with.
Loaded(t) == IF Valid(t) THEN t ELSE Nothing

KeysInit ==
  /\ stored \in KeyTexts
  /\ bound = [w \in Panes |-> Loaded(stored)]
  /\ effective = [w \in Panes |-> Merged(Loaded(stored))]
  /\ page = [w \in Panes |-> "closed"]
  /\ draft = [w \in Panes |-> Nothing]
  /\ saver = NoPane /\ edits = 0

Edits == edits < MaxEdits /\ edits' = edits + 1

\* applyValidated: the window takes the chords over; the storage takes them too unless it refuses
\* (persist), and then another window's save stays the last.
Takes(w, t, lasts) ==
  /\ bound' = [bound EXCEPT ![w] = t]
  /\ effective' = [effective EXCEPT ![w] = Merged(t)]
  /\ stored' = IF lasts THEN t ELSE stored
  /\ saver' = IF lasts THEN w ELSE IF saver = w THEN NoPane ELSE saver

\* The effect of the page: its draft is the chords in force whenever it comes on the screen, from
\* under a dialog too, and whenever they change.
Redrafts(w, t) == draft' = [draft EXCEPT ![w] = t]

OpensPage(w) ==
  /\ page[w] = "closed" /\ page' = [page EXCEPT ![w] = "open"]
  /\ Redrafts(w, bound[w])
  /\ UNCHANGED <<bound, effective, stored, saver, edits>>

ClosesPage(w) ==
  /\ page[w] = "open" /\ page' = [page EXCEPT ![w] = "closed"]
  /\ UNCHANGED <<bound, effective, stored, draft, saver, edits>>

TypesKeys(w, t) ==
  /\ page[w] = "open" /\ Edits /\ Redrafts(w, t)
  /\ UNCHANGED <<bound, effective, stored, page, saver>>

\* applyKeybindingJson: a text that is refused changes nothing but the error shown.
Applies(w) ==
  /\ page[w] = "open" /\ Valid(draft[w])
  /\ \E lasts \in BOOLEAN : Takes(w, draft[w], lasts)
  /\ UNCHANGED <<page, draft, edits>>

\* resetKeybindings.
ResetsKeys(w) ==
  /\ page[w] = "open"
  /\ \E lasts \in BOOLEAN : Takes(w, Nothing, lasts)
  /\ Redrafts(w, Nothing)
  /\ UNCHANGED <<page, edits>>

\* A dialog hides the page: the one of the import, or one of a task command.
Hides(w) ==
  /\ page[w] = "open" /\ Edits /\ page' = [page EXCEPT ![w] = "under"]
  /\ UNCHANGED <<bound, effective, stored, draft, saver>>

\* The dialog is gone; an import with a valid text applies it.
Imports(w, t) ==
  /\ page[w] = "under" /\ page' = [page EXCEPT ![w] = "open"]
  /\ \/ Valid(t) /\ (\E lasts \in BOOLEAN : Takes(w, t, lasts)) /\ Redrafts(w, t)
     \/ Redrafts(w, bound[w]) /\ UNCHANGED <<bound, effective, stored, saver>>
  /\ UNCHANGED edits

\* The window is loaded again.
ReloadsKeys(w) ==
  /\ Edits
  /\ bound' = [bound EXCEPT ![w] = Loaded(stored)]
  /\ effective' = [effective EXCEPT ![w] = Merged(Loaded(stored))]
  /\ page' = [page EXCEPT ![w] = "closed"]
  /\ Redrafts(w, Nothing)
  /\ UNCHANGED <<stored, saver>>

KeysNext ==
  \E w \in Panes :
    \/ OpensPage(w) \/ ClosesPage(w) \/ Applies(w) \/ ResetsKeys(w) \/ Hides(w) \/ ReloadsKeys(w)
    \/ \E t \in KeyTexts : TypesKeys(w, t) \/ Imports(w, t)

KeysSpec == KeysInit /\ [][KeysNext]_keyVars

-----------------------------------------------------------------------------
\* No chord of a window runs two actions (resolveHotkey would hide the second).
ChordsApart == \A w \in Panes : ~Clash(effective[w])

\* What the last save left in the storage is what its window would find after a reload.
SavedIsLoaded == \A w \in Panes : saver = w => Loaded(stored) = bound[w]

\* Property: whatever the windows type, import, reset and reload, and whatever the storage held or
\* refuses, no chord of any window stands for two actions, and a save that lasted is found again.
KeysHold == ChordsApart /\ SavedIsLoaded

\* Not run, it fails: what one window saved stays when another saves.  The whole object is written.
SavesAddUp == [][\A w \in Panes : saver = w /\ stored' # stored => bound'[w] # bound[w]]_keyVars

\* Not run, it fails: a draft is kept until it is applied, reset or left.
DraftIsKept ==
  [][\A w \in Panes : page[w] = "under" /\ page'[w] = "open" /\ bound' = bound => draft' = draft]_keyVars
=============================================================================
