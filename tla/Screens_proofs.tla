--------------------------- MODULE Screens_proofs ---------------------------
(***************************************************************************)
(* Theorems about what clients show: the dialogs and their shortcuts, the  *)
(* shortcuts a user chose, the transcript of a tab and the tasks that      *)
(* clients make, each for any number of tasks, chords, entries and         *)
(* instances.  Every one of them is its own specification; they share no   *)
(* state.                                                                  *)
(***************************************************************************)
EXTENDS Integers, Dialogs, Keybindings, Transcripts, Fanout, SequenceTheorems, TLAPS

-----------------------------------------------------------------------------
(* The dialogs and the shortcuts.                                            *)

\* A stack that holds what is open and nothing else that keeps the shortcuts off.
Sound(open, st) ==
  /\ open \subseteq Panels /\ st \subseteq Modals
  /\ \A p \in Panels : p \in st => p \in open
  /\ "chooser" \in st => chooser
  /\ "guide" \in st <=> guide = "missing"
  /\ "dialog" \in st <=> asked # <<>>

DialogsInv == DialogsTypeOK /\ Sound(panels, stack) /\ ConfirmedForIt

LEMMA DialogTypes ==
  ASSUME DialogsTypeOK
  PROVE  /\ panels \subseteq Panels /\ stack \subseteq Modals /\ chooser \in BOOLEAN
         /\ guide \in {"asked", "found", "missing"}
         /\ asked \in Seq(Request) /\ calls \subseteq Request /\ dispatching \in BOOLEAN
         /\ chosen \in Owners \cup {NoOwner} /\ mention \in {"closed", "above", "below"}
         /\ tasks \in [Owners -> [stage : {"active", "archived", "gone"}, dirty : BOOLEAN]]
         /\ did \subseteq Request /\ granted \subseteq Request
         /\ asks \in 0 .. MaxDialogs /\ news \in 0 .. MaxNews
         /\ MaxDialogs \in Nat /\ MaxNews \in Nat /\ NoOwner \notin Owners
BY DialogConstants DEF DialogsTypeOK

\* The types of a state, from those of its parts.
LEMMA DialogsTyped ==
  ASSUME panels' \subseteq Panels, stack' \subseteq Modals, chooser' \in BOOLEAN,
         guide' \in {"asked", "found", "missing"},
         asked' \in Seq(Request), calls' \subseteq Request, dispatching' \in BOOLEAN,
         chosen' \in Owners \cup {NoOwner}, mention' \in {"closed", "above", "below"},
         tasks' \in [Owners -> [stage : {"active", "archived", "gone"}, dirty : BOOLEAN]],
         did' \subseteq Request, granted' \subseteq Request, asks' \in 0 .. MaxDialogs, news' \in 0 .. MaxNews
  PROVE  DialogsTypeOK'
BY DEF DialogsTypeOK

LEMMA DialogsInitially == DialogsInit => DialogsInv
<1> SUFFICES ASSUME DialogsInit PROVE DialogsInv
  OBVIOUS
<1>1. DialogsTypeOK
  <2>1. asked \in Seq(Request) /\ calls \subseteq Request /\ did \subseteq Request /\ granted \subseteq Request
    BY DEF DialogsInit
  <2>2. /\ panels \subseteq Panels /\ stack \subseteq Modals /\ chooser \in BOOLEAN /\ dispatching \in BOOLEAN
        /\ guide \in {"asked", "found", "missing"} /\ mention \in {"closed", "above", "below"}
        /\ chosen \in Owners \cup {NoOwner}
    BY DEF DialogsInit
  <2>3. tasks \in [Owners -> [stage : {"active", "archived", "gone"}, dirty : BOOLEAN]]
    BY DEF DialogsInit
  <2>4. asks \in 0 .. MaxDialogs /\ news \in 0 .. MaxNews
    BY DialogConstants DEF DialogsInit
  <2> QED
    BY <2>1, <2>2, <2>3, <2>4 DEF DialogsTypeOK
<1>2. Sound(panels, stack) /\ ConfirmedForIt
  BY DEF DialogsInit, Sound, ConfirmedForIt
<1> QED
  BY <1>1, <1>2 DEF DialogsInv

\* A panel that is opened or closed takes its rivals along, on the screen and on the stack.
LEMMA SetsIsSound ==
  ASSUME DialogsTypeOK, NEW open, NEW st, Sound(open, st), NEW p \in Panels, NEW on \in BOOLEAN,
         Sets(open, st, p, on), guide' = guide, asked' = asked
  PROVE  Sound(panels, stack)' /\ chooser' \in BOOLEAN
<1>1. Rivals(p) \subseteq Panels
  BY DEF Panels, Rivals
<1>2. panels' \subseteq Panels /\ stack' \subseteq Modals /\ \A q \in Panels : q \in stack' => q \in panels'
  BY <1>1 DEF Sets, Sound, Opened, Stacked, Modals, Panels
<1>3. chooser' \in BOOLEAN /\ ("chooser" \in stack' => chooser')
  BY <1>1, DialogTypes DEF Sets, Sound, Stacked, Panels
<1>4. ("guide" \in stack' <=> "guide" \in st) /\ ("dialog" \in stack' <=> "dialog" \in st)
  BY <1>1 DEF Sets, Stacked, Panels
<1> QED
  BY <1>2, <1>3, <1>4 DEF Sound

LEMMA ClosedIsSound ==
  ASSUME Sound(panels, stack)
  PROVE  Sound(Opened(panels, "palette", FALSE), Stacked(stack, "palette", FALSE))
<1>1. Rivals("palette") \subseteq Panels /\ "palette" \in Panels
  BY DEF Panels, Rivals
<1> QED
  BY <1>1 DEF Sound, Opened, Stacked, Panels, Modals

\* A request that is asked puts its dialog on the stack; a call puts nothing there.
LEMMA AsksIsSound ==
  ASSUME DialogsTypeOK, NEW open, NEW st, Sound(open, st), NEW r \in Request, Asks(r, st),
         panels' = open, chooser' = chooser, guide' = guide
  PROVE  Sound(panels, stack)' /\ asked' \in Seq(Request) /\ asks' \in 0 .. MaxDialogs /\ calls' = calls /\ did' = did
<1>1. asked' = Append(asked, r) /\ asked' \in Seq(Request) /\ asked' # <<>>
  BY DialogTypes DEF Asks
<1>2. stack' = IF asked = <<>> THEN st \cup {"dialog"} ELSE st
  BY DEF Asks
<1>3. stack' \subseteq Modals /\ "dialog" \in stack' /\ \A m \in Modals \ {"dialog"} : m \in stack' <=> m \in st
  BY <1>2 DEF Sound, Modals
<1>4. Sound(panels, stack)'
  BY <1>1, <1>3 DEF Sound, Modals, Panels
<1> QED
  BY <1>1, <1>4, DialogTypes DEF Asks

LEMMA CallsIsSound ==
  ASSUME DialogsTypeOK, NEW open, NEW st, Sound(open, st), NEW r \in Request, Calls(r),
         panels' = open, chooser' = chooser, guide' = guide, asked' = asked, stack' = st
  PROVE  Sound(panels, stack)' /\ calls' \subseteq Request /\ did' \subseteq Request /\ asks' \in 0 .. MaxDialogs
BY DialogTypes DEF Sound, Calls

\* What is only asked for, closed or harmless needs no confirmation.
LEMMA CallsConfirmed ==
  ASSUME ConfirmedForIt, granted' = granted, NEW r \in Request, did' = did \cup {r},
         r.op = "close" \/ (r.op = "archive" /\ r.owner \notin Adopted)
  PROVE  ConfirmedForIt'
BY DEF ConfirmedForIt

LEMMA GoesTyped ==
  ASSUME DialogsTypeOK, NEW t \in Owners, Goes(t)
  PROVE  chosen' \in Owners \cup {NoOwner} /\ dispatching' \in BOOLEAN /\ mention' \in {"closed", "above", "below"}
BY DialogTypes DEF Goes

LEMMA CommandsKeep ==
  ASSUME DialogsTypeOK, ConfirmedForIt, NEW open, NEW st, Sound(open, st), NEW r \in Request, Commands(r, st),
         panels' = open, chooser' = chooser, guide' = guide, granted' = granted, tasks' = tasks, news' = news,
         UNCHANGED <<chosen, dispatching, mention>>
  PROVE  DialogsInv'
<1>1. CASE r.op = "archive" /\ r.owner \notin Adopted /\ Calls(r) /\ stack' = st /\ UNCHANGED asked
  <2>1. Sound(panels, stack)' /\ calls' \subseteq Request /\ did' \subseteq Request /\ asks' \in 0 .. MaxDialogs
    BY <1>1, CallsIsSound
  <2>2. ConfirmedForIt'
    BY <1>1, CallsConfirmed DEF Calls
  <2>3. DialogsTypeOK'
    BY <1>1, <2>1, DialogTypes, DialogsTyped DEF Sound
  <2> QED
    BY <2>1, <2>2, <2>3 DEF DialogsInv
<1>2. CASE Asks(r, st)
  <2>1. Sound(panels, stack)' /\ asked' \in Seq(Request) /\ asks' \in 0 .. MaxDialogs /\ calls' = calls /\ did' = did
    BY <1>2, AsksIsSound
  <2>2. ConfirmedForIt'
    BY <2>1 DEF ConfirmedForIt
  <2>3. DialogsTypeOK'
    BY <1>2, <2>1, DialogTypes, DialogsTyped DEF Sound
  <2> QED
    BY <2>1, <2>2, <2>3 DEF DialogsInv
<1> QED
  BY <1>1, <1>2 DEF Commands

\* The action of a shortcut, from the window or from the palette that has closed.
LEMMA RunsKeep ==
  ASSUME DialogsTypeOK, ConfirmedForIt, NEW open, NEW st, Sound(open, st), NEW k \in Keys, Runs(k, open, st),
         guide' = guide, tasks' = tasks, granted' = granted, news' = news
  PROVE  DialogsInv'
<1>1. CASE k \in Panels /\ Sets(open, st, k, k \notin open)
           /\ UNCHANGED <<asked, calls, did, asks, chosen, dispatching, mention>>
  <2>1. Sound(panels, stack)' /\ chooser' \in BOOLEAN
    BY <1>1, SetsIsSound
  <2>2. DialogsTypeOK'
    BY <1>1, <2>1, DialogTypes, DialogsTyped DEF Sound
  <2>3. ConfirmedForIt'
    BY <1>1 DEF ConfirmedForIt
  <2> QED
    BY <2>1, <2>2, <2>3 DEF DialogsInv
<1>2. CASE /\ panels' = open /\ stack' = st /\ UNCHANGED <<chooser, asked, calls, did, asks>>
           /\ chosen' \in Owners \cup {NoOwner} /\ dispatching' \in BOOLEAN /\ mention' \in {"closed", "above", "below"}
  <2>1. Sound(panels, stack)'
    BY <1>2 DEF Sound
  <2>2. DialogsTypeOK'
    BY <1>2, <2>1, DialogTypes, DialogsTyped DEF Sound
  <2>3. ConfirmedForIt'
    BY <1>2 DEF ConfirmedForIt
  <2> QED
    BY <2>1, <2>2, <2>3 DEF DialogsInv
<1>3. CASE AppRuns(k, open, st)
  <2>1. ASSUME NEW t \in Owners, Goes(t)
        PROVE  /\ chosen' \in Owners \cup {NoOwner} /\ dispatching' \in BOOLEAN
               /\ mention' \in {"closed", "above", "below"}
    BY <2>1, GoesTyped
  <2>2. CASE dispatching' = TRUE /\ UNCHANGED <<chosen, mention>>
    BY <1>1, <1>2, <1>3, <2>1, <2>2, DialogTypes DEF AppRuns
  <2> QED
    BY <1>1, <1>2, <1>3, <2>1, <2>2 DEF AppRuns
<1>4. CASE TabRuns(k, open, st)
  <2>1. chosen \in Owners /\ panels' = open /\ UNCHANGED <<chooser, chosen, dispatching, mention>>
    BY <1>4, DialogTypes DEF TabRuns, Centre
  <2>2. CASE Asks([op |-> "rename", owner |-> chosen], st)
    <3>1. [op |-> "rename", owner |-> chosen] \in Request
      BY <2>1 DEF Request, Prompts
    <3>2. Sound(panels, stack)' /\ asked' \in Seq(Request) /\ asks' \in 0 .. MaxDialogs /\ calls' = calls /\ did' = did
      BY <2>1, <2>2, <3>1, AsksIsSound
    <3>3. ConfirmedForIt'
      BY <3>2 DEF ConfirmedForIt
    <3>4. DialogsTypeOK'
      BY <2>1, <3>2, DialogTypes, DialogsTyped DEF Sound
    <3> QED
      BY <3>2, <3>3, <3>4 DEF DialogsInv
  <2>3. CASE Calls([op |-> "close", owner |-> chosen]) /\ stack' = st /\ UNCHANGED asked
    <3>1. [op |-> "close", owner |-> chosen] \in Request
      BY <2>1 DEF Request
    <3>2. Sound(panels, stack)' /\ calls' \subseteq Request /\ did' \subseteq Request /\ asks' \in 0 .. MaxDialogs
      BY <2>1, <2>3, <3>1, CallsIsSound
    <3>3. ConfirmedForIt'
      BY <2>3, <3>1, CallsConfirmed DEF Calls
    <3>4. DialogsTypeOK'
      BY <2>1, <2>3, <3>2, DialogTypes, DialogsTyped DEF Sound
    <3> QED
      BY <3>2, <3>3, <3>4 DEF DialogsInv
  <2> QED
    BY <1>4, <2>2, <2>3 DEF TabRuns
<1> QED
  BY <1>3, <1>4 DEF Runs

\* A dialog that is answered: what is done is what was asked, and what is guarded was granted.
LEMMA CompletesKeeps ==
  ASSUME DialogsInv, NEW yes \in BOOLEAN, Completes(yes)
  PROVE  DialogsInv'
<1> DEFINE r == Head(asked)
           rest == Tail(asked)
           then == IF r.op \in Defaulted \/ (yes /\ r.op # "adopt")
                   THEN {[op |-> r.op, owner |-> ForWhom(r)]} ELSE {}
           next == IF r.op = "adopt" /\ yes THEN Append(rest, AsksName(r)) ELSE rest
<1>1. DialogsTypeOK /\ Sound(panels, stack) /\ ConfirmedForIt /\ asked # <<>>
  BY DEF DialogsInv, Completes
<1>2. r \in Request /\ rest \in Seq(Request)
  BY <1>1, DialogTypes
<1>3. then \subseteq {r}
  BY <1>2 DEF Request, ForWhom
<1>4. AsksName(r) \in Request
  BY <1>2 DEF Request, AsksName, Defaulted
<1>5. next \in Seq(Request)
  BY <1>2, <1>4
<1>6. /\ asked' = next /\ stack' = IF next = <<>> THEN stack \ {"dialog"} ELSE stack
      /\ calls' = calls \cup then /\ did' = did \cup then
      /\ granted' = IF yes THEN granted \cup {r} ELSE granted
      /\ UNCHANGED <<panels, chooser, guide, chosen, dispatching, tasks, mention, asks, news>>
  BY DEF Completes
<1>7. ConfirmedForIt'
  <2> SUFFICES ASSUME NEW c \in did',
                      c.op \in {"force", "delete", "merge"} \/ (c.op = "archive" /\ c.owner \in Adopted)
               PROVE  c \in granted'
    BY DEF ConfirmedForIt
  <2>1. CASE c \in did
    BY <1>1, <1>6, <2>1 DEF ConfirmedForIt
  <2>2. CASE c \in then
    <3>1. c = r /\ r.op \notin Defaulted
      BY <1>3, <2>2 DEF Defaulted
    <3>2. yes
      BY <2>2, <3>1
    <3> QED
      BY <1>6, <3>1, <3>2
  <2> QED
    BY <1>6, <2>1, <2>2
<1> HIDE DEF r, rest, then, next
<1>8. Sound(panels, stack)'
  BY <1>1, <1>6 DEF Sound, Panels, Modals
<1>9. DialogsTypeOK'
  BY <1>1, <1>2, <1>3, <1>5, <1>6, <1>8, DialogTypes, DialogsTyped DEF Sound
<1> QED
  BY <1>7, <1>8, <1>9 DEF DialogsInv

\* The daemon's answer asks for the force of an archive it refused, or changes the tasks.
LEMMA RepliesKeeps ==
  ASSUME DialogsInv, NEW c \in calls, Replies(c)
  PROVE  DialogsInv'
<1>1. DialogsTypeOK /\ Sound(panels, stack) /\ ConfirmedForIt /\ c \in Request /\ c.owner \in Owners
  BY DialogTypes DEF DialogsInv, Request
<1>2. /\ calls' = calls \ {c} /\ UNCHANGED <<panels, chooser, guide, did, granted, news>>
  BY DEF Replies
<1>3. ConfirmedForIt'
  BY <1>1, <1>2 DEF ConfirmedForIt
<1>4. CASE /\ asks < MaxDialogs /\ asks' = asks + 1
           /\ asked' = Append(asked, [c EXCEPT !.op = "force"])
           /\ stack' = stack \cup {"dialog"}
           /\ UNCHANGED <<tasks, chosen, dispatching, mention>>
  <2>1. [c EXCEPT !.op = "force"] \in Request
    BY <1>1 DEF Request, Confirms
  <2>2. asked' \in Seq(Request) /\ asked' # <<>> /\ asks' \in 0 .. MaxDialogs
    BY <1>1, <1>4, <2>1, DialogTypes
  <2>3. Sound(panels, stack)'
    BY <1>1, <1>2, <1>4, <2>2 DEF Sound, Modals, Panels
  <2>4. DialogsTypeOK'
    BY <1>1, <1>2, <1>4, <2>2, <2>3, DialogTypes, DialogsTyped DEF Sound
  <2> QED
    BY <1>3, <2>3, <2>4 DEF DialogsInv
<1>5. CASE UNCHANGED <<asked, stack, asks>> /\ ~(asks' = asks + 1)
  <2>1. Sound(panels, stack)'
    BY <1>1, <1>2, <1>5 DEF Sound
  <2> DEFINE T == [Owners -> [stage : {"active", "archived", "gone"}, dirty : BOOLEAN]]
             K == chosen' \in Owners \cup {NoOwner} /\ dispatching' \in BOOLEAN /\ mention' \in {"closed", "above", "below"}
  <2>2. tasks \in T /\ chosen \in Owners \cup {NoOwner} /\ dispatching \in BOOLEAN /\ mention \in {"closed", "above", "below"}
    BY <1>1, DialogTypes
  <2>3. \A s \in {"archived", "gone"} : [tasks EXCEPT ![c.owner].stage = s] \in T
    BY <1>1, <2>2
  <2>4. Goes(c.owner) => K
    BY <1>1, GoesTyped
  <2> HIDE DEF T
  <2>5. tasks' \in T /\ K
    BY <1>5, <2>2, <2>3, <2>4 DEF Replies
  <2>6. DialogsTypeOK'
    BY <1>1, <1>2, <1>5, <2>1, <2>5, DialogTypes, DialogsTyped DEF Sound, T
  <2> QED
    BY <1>3, <2>1, <2>6 DEF DialogsInv
<1>6. asks # asks + 1
  BY <1>1, DialogTypes
<1> QED
  BY <1>4, <1>5, <1>6 DEF Replies

\* What changes neither the dialogs asked nor the calls made.
LEMMA ScreenKeeps ==
  ASSUME DialogsInv, Sound(panels, stack)', chooser' \in BOOLEAN, guide' \in {"asked", "found", "missing"},
         UNCHANGED <<asked, calls, did, granted, asks>>,
         chosen' \in Owners \cup {NoOwner}, dispatching' \in BOOLEAN, mention' \in {"closed", "above", "below"},
         tasks' \in [Owners -> [stage : {"active", "archived", "gone"}, dirty : BOOLEAN]],
         news' \in 0 .. MaxNews
  PROVE  DialogsInv'
<1>1. DialogsTypeOK'
  BY DialogTypes, DialogsTyped DEF Sound, DialogsInv
<1>2. ConfirmedForIt'
  BY DEF DialogsInv, ConfirmedForIt
<1> QED
  BY <1>1, <1>2 DEF DialogsInv

LEMMA DialogsKept == DialogsInv /\ [DialogsNext]_dialogVars => DialogsInv'
<1> SUFFICES ASSUME DialogsInv, [DialogsNext]_dialogVars PROVE DialogsInv'
  OBVIOUS
<1>1. DialogsTypeOK /\ Sound(panels, stack) /\ ConfirmedForIt
  BY DEF DialogsInv
<1>2. ASSUME NEW k \in Keys, Presses(k) PROVE DialogsInv'
  BY <1>1, <1>2, RunsKeep DEF Presses
<1>3. CASE PaletteRuns
  <2>1. Sound(Opened(panels, "palette", FALSE), Stacked(stack, "palette", FALSE))
    BY <1>1, ClosedIsSound
  <2>2. UNCHANGED <<guide, tasks, granted, news>>
    BY <1>3 DEF PaletteRuns
  <2>3. ASSUME NEW k \in PaletteOffers, Runs(k, Opened(panels, "palette", FALSE), Stacked(stack, "palette", FALSE))
        PROVE  DialogsInv'
    BY <1>1, <2>1, <2>2, <2>3, RunsKeep DEF PaletteOffers
  <2>4. ASSUME chosen # NoOwner, NEW op \in PaletteOps,
               Commands([op |-> op, owner |-> chosen], Stacked(stack, "palette", FALSE)),
               panels' = Opened(panels, "palette", FALSE), UNCHANGED <<chooser, chosen, dispatching, mention>>
        PROVE  DialogsInv'
    <3>1. [op |-> op, owner |-> chosen] \in Request
      BY <1>1, <2>4, DialogTypes DEF Request, PaletteOps, TaskOps, Confirms, Prompts
    <3> QED
      BY <1>1, <2>1, <2>2, <2>4, <3>1, CommandsKeep
  <2> QED
    BY <1>3, <2>3, <2>4 DEF PaletteRuns
<1>4. CASE Buttons
  <2>1. ASSUME NEW p \in {"cheatsheet", "settings", "inbox"}, Sets(panels, stack, p, TRUE)
        PROVE  Sound(panels, stack)' /\ chooser' \in BOOLEAN
    BY <1>1, <1>4, <2>1, SetsIsSound DEF Panels, Buttons
  <2>2. ASSUME Chooses(TRUE), UNCHANGED panels
        PROVE  Sound(panels, stack)' /\ chooser' \in BOOLEAN
    BY <1>1, <1>4, <2>2 DEF Chooses, Sound, Panels, Modals, Buttons
  <2>3. Sound(panels, stack)' /\ chooser' \in BOOLEAN
    BY <1>4, <2>1, <2>2 DEF Buttons
  <2> QED
    BY <1>1, <1>4, <2>3, DialogTypes, ScreenKeeps DEF Buttons
<1>5. CASE LeavesChooser
  <2>1. Sound(panels, stack)' /\ chooser' \in BOOLEAN
    BY <1>1, <1>5 DEF LeavesChooser, Chooses, Sound, Panels, Modals
  <2>2. dispatching' \in BOOLEAN /\ mention' \in {"closed", "above", "below"}
    BY <1>1, <1>5, DialogTypes DEF LeavesChooser
  <2> QED
    BY <1>1, <1>5, <2>1, <2>2, DialogTypes, ScreenKeeps DEF LeavesChooser
<1>6. CASE Decides
  BY <1>6, CompletesKeeps DEF Decides
<1>7. CASE Mentions \/ TabsChange
  <2>1. Sound(panels, stack)' /\ news' \in 0 .. MaxNews
    BY <1>1, <1>7, DialogTypes DEF Mentions, TabsChange, Sound
  <2> QED
    BY <1>1, <1>7, <2>1, DialogTypes, ScreenKeeps DEF Mentions, TabsChange
<1>8. CASE OthersChange
  <2>1. Sound(panels, stack)' /\ news' \in 0 .. MaxNews /\ mention' \in {"closed", "above", "below"}
    BY <1>1, <1>8, DialogTypes DEF OthersChange, Sound
  <2> DEFINE T == [Owners -> [stage : {"active", "archived", "gone"}, dirty : BOOLEAN]]
  <2>2. tasks' \in T
    <3>1. tasks \in T
      BY <1>1, DialogTypes
    <3>2. ASSUME NEW t \in Owners, tasks' = [tasks EXCEPT ![t].dirty = ~@] PROVE tasks' \in T
      BY <3>1, <3>2
    <3>3. ASSUME NEW t \in Owners, tasks' = [tasks EXCEPT ![t].stage = IF @ = "active" THEN "archived" ELSE "active"]
          PROVE  tasks' \in T
      BY <3>1, <3>3
    <3> HIDE DEF T
    <3> QED
      BY <1>8, <3>2, <3>3 DEF OthersChange
  <2> QED
    BY <1>1, <1>8, <2>1, <2>2, DialogTypes, ScreenKeeps DEF OthersChange
<1>9. ASSUME NEW t \in Owners, TaskKeys(t) PROVE DialogsInv'
  <2>1. PICK op \in MenuOps : Commands([op |-> op, owner |-> t], stack)
    BY <1>9 DEF TaskKeys
  <2>2. [op |-> op, owner |-> t] \in Request
    BY DEF Request, MenuOps, TaskOps, Confirms, Prompts, Defaulted
  <2> QED
    BY <1>1, <1>9, <2>1, <2>2, CommandsKeep DEF TaskKeys
<1>10. ASSUME NEW t \in Owners, Selects(t) PROVE DialogsInv'
  <2>1. Sound(panels, stack)'
    BY <1>1, <1>10 DEF Selects, Sound
  <2> QED
    BY <1>1, <1>10, <2>1, GoesTyped, DialogTypes, ScreenKeeps DEF Selects
<1>11. ASSUME NEW t \in Owners, InboxGoes(t) PROVE DialogsInv'
  <2>1. Sound(panels, stack)' /\ chooser' \in BOOLEAN
    BY <1>1, <1>11, SetsIsSound DEF InboxGoes, Panels
  <2> QED
    BY <1>1, <1>11, <2>1, GoesTyped, DialogTypes, ScreenKeeps DEF InboxGoes
<1>12. ASSUME NEW p \in Panels, Dismisses(p) PROVE DialogsInv'
  <2>1. Sound(panels, stack)' /\ chooser' \in BOOLEAN
    BY <1>1, <1>12, SetsIsSound DEF Dismisses
  <2> QED
    BY <1>1, <1>12, <2>1, DialogTypes, ScreenKeeps DEF Dismisses
<1>13. ASSUME NEW found \in BOOLEAN, FindsTmux(found) PROVE DialogsInv'
  <2>1. Sound(panels, stack)' /\ guide' \in {"asked", "found", "missing"}
    BY <1>1, <1>13 DEF FindsTmux, Sound, Panels, Modals
  <2> QED
    BY <1>1, <1>13, <2>1, DialogTypes, ScreenKeeps DEF FindsTmux
<1>14. ASSUME NEW c \in calls, Replies(c) PROVE DialogsInv'
  BY <1>14, RepliesKeeps
<1>15. CASE UNCHANGED dialogVars
  <2>1. Sound(panels, stack)'
    BY <1>1, <1>15 DEF dialogVars, Sound
  <2> QED
    BY <1>1, <1>15, <2>1, DialogTypes, ScreenKeeps DEF dialogVars
<1> QED
  BY <1>2, <1>3, <1>4, <1>5, <1>6, <1>7, <1>8, <1>9, <1>10, <1>11, <1>12, <1>13, <1>14, <1>15, Zenon DEF DialogsNext

\* In whatever order panels, dialogs, answers and commands come, the window is never deaf to its
\* shortcuts with nothing on the screen, none runs under a dialog, and what must be confirmed was
\* confirmed for the very task it is done to (stores/ui.ts, chrome/dialogs.tsx, taskCommands.ts).
THEOREM DialogsAreTrue == DialogsSpec => []DialogsHold
<1>1. DialogsInv => DialogsHold
  <2> SUFFICES ASSUME DialogsInv PROVE DialogsHold
    OBVIOUS
  <2>1. Sound(panels, stack) /\ ConfirmedForIt
    BY DEF DialogsInv
  <2>2. AsksAreModal
    BY <2>1 DEF Sound, AsksAreModal
  <2>3. NeverDead
    <3> SUFFICES ASSUME NEW m \in stack PROVE OnScreen # {}
      BY DEF NeverDead
    <3>1. CASE asked # <<>>
      BY <3>1 DEF OnScreen
    <3>2. CASE asked = <<>> /\ m \in Panels
      BY <2>1, <3>2 DEF Sound, OnScreen
    <3>3. CASE asked = <<>> /\ m = "chooser"
      BY <2>1, <3>3 DEF Sound, OnScreen
    <3>4. CASE m = "guide"
      BY <2>1, <3>4 DEF Sound, OnScreen
    <3>5. m \in Panels \cup {"chooser", "guide", "dialog"}
      BY <2>1 DEF Sound, Modals
    <3>6. m = "dialog" => asked # <<>>
      BY <2>1 DEF Sound
    <3> QED
      BY <3>1, <3>2, <3>3, <3>4, <3>5, <3>6
  <2> QED
    BY <2>1, <2>2, <2>3 DEF DialogsHold
<1> QED
  BY <1>1, DialogsInitially, DialogsKept, PTL DEF DialogsSpec

-----------------------------------------------------------------------------
(* The shortcuts a user chose.                                               *)

\* A window has chords that it would take over again, and runs what they say.
Accepted ==
  \A w \in Panes : /\ bound[w] \in KeyTexts \cap Overrides /\ Loaded(bound[w]) = bound[w]
                   /\ effective[w] = Merged(bound[w])

\* The storage holds what the window has that saved last.
Found == \A w \in Panes : saver = w => stored = bound[w]

KeysInv == KeysTypeOK /\ Accepted /\ Found

LEMMA MergedTyped ==
  ASSUME NEW o \in Overrides PROVE Merged(o) \in [Actions -> Chords \cup {Unbound}]
BY DEF Merged, Overrides, Chords

\* The defaults are chords of their own.
LEMMA DefaultsApart == Nothing \in Overrides /\ ~Clash(Merged(Nothing))
<1>1. Nothing \in Overrides
  BY DEF Nothing, Overrides
<1>2. \A a \in Actions : Merged(Nothing)[a] = Default[a]
  BY DEF Merged, Nothing
<1>3. ~Clash(Merged(Nothing))
  BY <1>2, KeyConstants DEF Clash
<1> QED
  BY <1>1, <1>3

\* What a window starts with is what it would load again, and no chord of it stands for two actions.
LEMMA LoadedHolds ==
  ASSUME NEW t \in KeyTexts
  PROVE  /\ Loaded(t) \in Overrides /\ Loaded(Loaded(t)) = Loaded(t) /\ ~Clash(Merged(Loaded(t)))
         /\ Loaded(t) \in KeyTexts
         /\ Valid(t) => Loaded(t) = t
<1>1. CASE Valid(t)
  <2>1. t # Garbage /\ ~Clash(Merged(t))
    BY <1>1 DEF Valid
  <2>2. t \in Overrides
    BY <2>1, KeyConstants
  <2>3. Loaded(t) = t
    BY <1>1 DEF Loaded
  <2> QED
    BY <2>1, <2>2, <2>3
<1>2. CASE ~Valid(t)
  <2>1. Loaded(t) = Nothing /\ Loaded(Nothing) = Nothing
    BY <1>2 DEF Loaded
  <2> QED
    BY <1>2, <2>1, DefaultsApart, KeyConstants
<1> QED
  BY <1>1, <1>2

LEMMA KeysInitially == KeysInit => KeysInv
<1> SUFFICES ASSUME KeysInit PROVE KeysInv
  OBVIOUS
<1>1. stored \in KeyTexts /\ saver = NoPane /\ edits = 0
  BY DEF KeysInit
<1>2. \A w \in Panes : bound[w] = Loaded(stored) /\ effective[w] = Merged(Loaded(stored))
  BY DEF KeysInit
<1>3. bound \in [Panes -> Overrides] /\ effective \in [Panes -> [Actions -> Chords \cup {Unbound}]]
  BY <1>1, LoadedHolds, MergedTyped DEF KeysInit
<1>4. KeysTypeOK
  BY <1>1, <1>3, KeyConstants DEF KeysInit, KeysTypeOK
<1>5. Accepted
  BY <1>1, <1>2, LoadedHolds DEF Accepted
<1>6. Found
  BY <1>1, KeyConstants DEF Found
<1> QED
  BY <1>4, <1>5, <1>6 DEF KeysInv

\* A window takes over chords that it would load again, in the storage or in itself alone.
LEMMA TakesKeeps ==
  ASSUME KeysInv, NEW w \in Panes, NEW t \in KeyTexts, t \in Overrides, Loaded(t) = t, NEW lasts \in BOOLEAN,
         Takes(w, t, lasts)
  PROVE  /\ bound' \in [Panes -> Overrides] /\ effective' \in [Panes -> [Actions -> Chords \cup {Unbound}]]
         /\ stored' \in KeyTexts /\ saver' \in Panes \cup {NoPane}
         /\ Accepted' /\ Found'
<1>1. /\ bound \in [Panes -> Overrides] /\ effective \in [Panes -> [Actions -> Chords \cup {Unbound}]]
      /\ stored \in KeyTexts /\ saver \in Panes \cup {NoPane} /\ Accepted /\ Found /\ NoPane \notin Panes
  BY KeyConstants DEF KeysInv, KeysTypeOK
<1>2. /\ bound' = [bound EXCEPT ![w] = t] /\ effective' = [effective EXCEPT ![w] = Merged(t)]
      /\ stored' = (IF lasts THEN t ELSE stored)
      /\ saver' = IF lasts THEN w ELSE IF saver = w THEN NoPane ELSE saver
  BY DEF Takes
<1>3. Merged(t) \in [Actions -> Chords \cup {Unbound}]
  BY MergedTyped
<1>4. bound' \in [Panes -> Overrides] /\ effective' \in [Panes -> [Actions -> Chords \cup {Unbound}]]
  BY <1>1, <1>2, <1>3
<1>5. stored' \in KeyTexts /\ saver' \in Panes \cup {NoPane}
  BY <1>1, <1>2
<1>6. \A v \in Panes : IF v = w THEN bound'[v] = t /\ effective'[v] = Merged(t)
                       ELSE bound'[v] = bound[v] /\ effective'[v] = effective[v]
  BY <1>1, <1>2
<1>7. Accepted'
  BY <1>1, <1>6 DEF Accepted
<1>8. Found'
  BY <1>1, <1>2, <1>6 DEF Found
<1> QED
  BY <1>4, <1>5, <1>7, <1>8

LEMMA KeysKept == KeysInv /\ [KeysNext]_keyVars => KeysInv'
<1> SUFFICES ASSUME KeysInv, [KeysNext]_keyVars PROVE KeysInv'
  OBVIOUS
<1>1. /\ bound \in [Panes -> Overrides] /\ effective \in [Panes -> [Actions -> Chords \cup {Unbound}]]
      /\ stored \in KeyTexts /\ draft \in [Panes -> KeyTexts] /\ page \in [Panes -> {"closed", "open", "under"}]
      /\ saver \in Panes \cup {NoPane} /\ edits \in 0 .. MaxEdits /\ Accepted /\ Found
      /\ NoPane \notin Panes /\ MaxEdits \in Nat /\ Nothing \in KeyTexts
  BY KeyConstants DEF KeysInv, KeysTypeOK
<1>2. ASSUME bound' \in [Panes -> Overrides], effective' \in [Panes -> [Actions -> Chords \cup {Unbound}]],
             stored' \in KeyTexts, draft' \in [Panes -> KeyTexts], page' \in [Panes -> {"closed", "open", "under"}],
             saver' \in Panes \cup {NoPane}, edits' \in 0 .. MaxEdits
      PROVE  KeysTypeOK'
  BY <1>2 DEF KeysTypeOK
<1>3. ASSUME UNCHANGED <<bound, effective, stored, saver>> PROVE Accepted' /\ Found'
  BY <1>1, <1>3 DEF Accepted, Found
<1>4. ASSUME Edits PROVE edits' \in 0 .. MaxEdits
  BY <1>1, <1>4 DEF Edits
<1>5. ASSUME NEW w \in Panes, NEW t \in KeyTexts, Redrafts(w, t) PROVE draft' \in [Panes -> KeyTexts]
  BY <1>1, <1>5 DEF Redrafts
<1>6. ASSUME NEW w \in Panes, NEW s \in {"closed", "open", "under"}, page' = [page EXCEPT ![w] = s]
      PROVE  page' \in [Panes -> {"closed", "open", "under"}]
  BY <1>1, <1>6
<1>7. ASSUME NEW w \in Panes, NEW t \in KeyTexts, Valid(t), NEW lasts \in BOOLEAN, Takes(w, t, lasts)
      PROVE  /\ bound' \in [Panes -> Overrides] /\ effective' \in [Panes -> [Actions -> Chords \cup {Unbound}]]
             /\ stored' \in KeyTexts /\ saver' \in Panes \cup {NoPane} /\ Accepted' /\ Found'
  BY <1>7, LoadedHolds, TakesKeeps
<1>8. ASSUME NEW w \in Panes, NEW lasts \in BOOLEAN, Takes(w, Nothing, lasts)
      PROVE  /\ bound' \in [Panes -> Overrides] /\ effective' \in [Panes -> [Actions -> Chords \cup {Unbound}]]
             /\ stored' \in KeyTexts /\ saver' \in Panes \cup {NoPane} /\ Accepted' /\ Found'
  <2>1. Loaded(Nothing) = Nothing
    BY DEF Loaded
  <2> QED
    BY <1>1, <1>8, <2>1, DefaultsApart, TakesKeeps
<1>9. ASSUME NEW w \in Panes, OpensPage(w) PROVE KeysInv'
  <2>1. bound[w] \in KeyTexts
    BY <1>1 DEF Accepted
  <2> QED
    BY <1>1, <1>2, <1>3, <1>5, <1>6, <1>9, <2>1 DEF OpensPage, KeysInv
<1>10. ASSUME NEW w \in Panes, ClosesPage(w) PROVE KeysInv'
  BY <1>1, <1>2, <1>3, <1>6, <1>10 DEF ClosesPage, KeysInv
<1>11. ASSUME NEW w \in Panes, NEW t \in KeyTexts, TypesKeys(w, t) PROVE KeysInv'
  BY <1>1, <1>2, <1>3, <1>4, <1>5, <1>11 DEF TypesKeys, KeysInv
<1>12. ASSUME NEW w \in Panes, Applies(w) PROVE KeysInv'
  <2>1. PICK lasts \in BOOLEAN : Takes(w, draft[w], lasts)
    BY <1>12 DEF Applies
  <2>2. draft[w] \in KeyTexts /\ Valid(draft[w])
    BY <1>1, <1>12 DEF Applies
  <2> QED
    BY <1>1, <1>2, <1>7, <1>12, <2>1, <2>2 DEF Applies, KeysInv
<1>13. ASSUME NEW w \in Panes, ResetsKeys(w) PROVE KeysInv'
  <2>1. PICK lasts \in BOOLEAN : Takes(w, Nothing, lasts)
    BY <1>13 DEF ResetsKeys
  <2> QED
    BY <1>1, <1>2, <1>5, <1>8, <1>13, <2>1 DEF ResetsKeys, KeysInv
<1>14. ASSUME NEW w \in Panes, Hides(w) PROVE KeysInv'
  BY <1>1, <1>2, <1>3, <1>4, <1>6, <1>14 DEF Hides, KeysInv
<1>15. ASSUME NEW w \in Panes, NEW t \in KeyTexts, Imports(w, t) PROVE KeysInv'
  <2>1. page' \in [Panes -> {"closed", "open", "under"}] /\ edits' = edits
    BY <1>6, <1>15 DEF Imports
  <2>2. CASE Valid(t) /\ (\E lasts \in BOOLEAN : Takes(w, t, lasts)) /\ Redrafts(w, t)
    BY <1>1, <1>2, <1>5, <1>7, <2>1, <2>2 DEF KeysInv
  <2>3. CASE Redrafts(w, bound[w]) /\ UNCHANGED <<bound, effective, stored, saver>>
    <3>1. bound[w] \in KeyTexts
      BY <1>1 DEF Accepted
    <3> QED
      BY <1>1, <1>2, <1>3, <1>5, <2>1, <2>3, <3>1 DEF KeysInv
  <2> QED
    BY <1>15, <2>2, <2>3 DEF Imports
<1>16. ASSUME NEW w \in Panes, ReloadsKeys(w) PROVE KeysInv'
  <2>1. /\ bound' = [bound EXCEPT ![w] = Loaded(stored)]
        /\ effective' = [effective EXCEPT ![w] = Merged(Loaded(stored))]
        /\ stored' = stored /\ saver' = saver /\ page' = [page EXCEPT ![w] = "closed"]
    BY <1>16 DEF ReloadsKeys
  <2>2. /\ Loaded(stored) \in KeyTexts \cap Overrides /\ Loaded(Loaded(stored)) = Loaded(stored)
        /\ Merged(Loaded(stored)) \in [Actions -> Chords \cup {Unbound}]
    BY <1>1, LoadedHolds, MergedTyped
  <2>3. \A v \in Panes : IF v = w THEN bound'[v] = Loaded(stored) /\ effective'[v] = Merged(Loaded(stored))
                         ELSE bound'[v] = bound[v] /\ effective'[v] = effective[v]
    BY <1>1, <2>1
  <2>4. Accepted'
    BY <1>1, <2>2, <2>3 DEF Accepted
  <2>5. Found'
    BY <1>1, <2>1, <2>3 DEF Found, Accepted
  <2>6. bound' \in [Panes -> Overrides] /\ effective' \in [Panes -> [Actions -> Chords \cup {Unbound}]]
    BY <1>1, <2>1, <2>2
  <2>7. draft' \in [Panes -> KeyTexts] /\ edits' \in 0 .. MaxEdits
    BY <1>1, <1>4, <1>5, <1>16 DEF ReloadsKeys
  <2> QED
    BY <1>1, <1>2, <1>6, <2>1, <2>4, <2>5, <2>6, <2>7 DEF KeysInv
<1>17. CASE UNCHANGED keyVars
  BY <1>1, <1>2, <1>3, <1>17 DEF keyVars, KeysInv
<1> QED
  BY <1>9, <1>10, <1>11, <1>12, <1>13, <1>14, <1>15, <1>16, <1>17, Zenon DEF KeysNext

\* Whatever the windows type, import, reset and load again, and whatever the storage holds or
\* refuses, no chord of a window stands for two actions, and a save that lasted is found again
\* (hotkeys/registry.ts, settings/keybindings.ts).
THEOREM KeysAreTrue == KeysSpec => []KeysHold
<1>1. KeysInv => KeysHold
  <2> SUFFICES ASSUME KeysInv, NEW w \in Panes PROVE ~Clash(effective[w]) /\ (saver = w => Loaded(stored) = bound[w])
    BY DEF KeysHold, ChordsApart, SavedIsLoaded
  <2>1. /\ bound[w] \in KeyTexts /\ Loaded(bound[w]) = bound[w] /\ effective[w] = Merged(bound[w])
        /\ saver = w => stored = bound[w]
    BY DEF KeysInv, Accepted, Found
  <2>2. ~Clash(Merged(Loaded(bound[w])))
    BY <2>1, LoadedHolds
  <2> QED
    BY <2>1, <2>2
<1> QED
  BY <1>1, KeysInitially, KeysKept, PTL DEF KeysSpec

-----------------------------------------------------------------------------
(* The transcript of a tab.                                                  *)

Names == Sessions \cup {Unset}
Entry == Sessions \X Nat
Cursor == [of : Names, identity : Nat \X BOOLEAN, at : Nat]
Pages == [available : BOOLEAN, reset : BOOLEAN, entries : Seq(Entry), cursor : Cursor]
Flight == [cursor : Cursor, answered : BOOLEAN, page : Pages]

TranscriptTypes ==
  /\ sid \in Names /\ newest \in Names
  /\ logs \in [Sessions -> [lines : Nat, part : BOOLEAN]]
  /\ shown \in [entries : Seq(Entry), cursor : Cursor]
  /\ flights \in Seq(Flight)

\* The answer to a cursor: nothing, or lines of one session without a gap, that follow the one of
\* the cursor; and the cursor of the answer is where they end.
Run(es, s, from, n) == DOMAIN es = 1 .. n /\ \A k \in 1 .. n : es[k] = <<s, from + k>>
FitsAfter(c, p) ==
  \/ p.entries = <<>> /\ p.cursor.at = 0
  \/ /\ ~p.reset
     /\ \E s \in Sessions, from \in Nat, n \in Nat :
          /\ Run(p.entries, s, from, n)
          /\ from > 0 => c.at = from /\ c.of = s
          /\ p.cursor.at > 0 => n > 0 /\ p.cursor.of = s /\ p.cursor.at = from + n
Fits == \A i \in DOMAIN flights : flights[i].answered => FitsAfter(flights[i].cursor, flights[i].page)

OnlyOwn(es) == \A k \in DOMAIN es : es[k][1] \in Own
Ours ==
  ~tailed => /\ sid \in Own \cup {Unset} /\ newest \in Own \cup {Unset}
             /\ OnlyOwn(shown.entries) /\ \A i \in DOMAIN flights : OnlyOwn(flights[i].page.entries)

\* Each line comes after the one before it, and the line before a cursor is shown, also of the
\* cursors that are under way.
Chain(es) == \A i \in DOMAIN es : es[i][2] > 1 => \E j \in 1 .. i - 1 : es[j] = <<es[i][1], es[i][2] - 1>>
Covers(es, c) == c.at > 0 => \E j \in DOMAIN es : es[j] = <<c.of, c.at>>
Chained ==
  ~overtook => /\ Chain(shown.entries) /\ Covers(shown.entries, shown.cursor)
               /\ \A i \in DOMAIN flights : Covers(shown.entries, flights[i].cursor)

TranscriptInv == TranscriptTypes /\ Fits /\ Ours /\ Chained

LEMMA PageOf ==
  ASSUME NEW e \in Seq(Entry), NEW c \in Cursor, NEW p, p = Page(FALSE, e, c)
  PROVE  p \in Pages /\ p.entries = e /\ p.cursor = c
<1>1. TRUE \in BOOLEAN /\ FALSE \in BOOLEAN
  OBVIOUS
<1> QED
  BY <1>1 DEF Page, Pages

LEMMA ResetOf ==
  ASSUME NEW e \in Seq(Entry), NEW c \in Cursor, NEW p, p = Page(TRUE, e, c)
  PROVE  p \in Pages /\ p.entries = e /\ p.cursor = c
<1>1. TRUE \in BOOLEAN
  OBVIOUS
<1> QED
  BY <1>1 DEF Page, Pages

LEMMA CursorTypes ==
  /\ NoCursor \in Cursor /\ NoCursor.at = 0 /\ <<>> \in Seq(Entry)
  /\ Unavailable \in Pages /\ Unavailable.entries = <<>> /\ Unavailable.cursor = NoCursor
<1>1. <<0, FALSE>> \in Nat \X BOOLEAN
  OBVIOUS
<1>2. NoCursor \in Cursor /\ NoCursor.at = 0
  BY <1>1 DEF NoCursor, Cursor, Names
<1>3. <<>> \in Seq(Entry)
  OBVIOUS
<1>5. FALSE \in BOOLEAN
  OBVIOUS
<1>6. Unavailable \in Pages /\ Unavailable.entries = <<>> /\ Unavailable.cursor = NoCursor
  <2>0. PICK e \in Seq(Entry), d \in Cursor : e = <<>> /\ d = NoCursor
    BY <1>2, <1>3
  <2>3. PICK p : p = Page(FALSE, e, d)
    OBVIOUS
  <2>1. p \in Pages /\ p.entries = <<>> /\ p.cursor = NoCursor
    BY <2>0, <2>3, PageOf
  <2>2. Unavailable = [p EXCEPT !.available = FALSE]
    BY <2>0, <2>3 DEF Unavailable
  <2> QED
    BY <1>5, <2>1, <2>2 DEF Pages
<1> QED
  BY <1>2, <1>3, <1>6

\* What the reader answers.
LEMMA AnswersFit ==
  ASSUME TranscriptTypes, NEW c \in Cursor
  PROVE  /\ Answer(c) \in Pages /\ FitsAfter(c, Answer(c))
         /\ \A k \in DOMAIN Answer(c).entries : Answer(c).entries[k][1] = sid
<1>1. CASE sid = Unset
  <2>1. Answer(c) = Unavailable
    BY <1>1 DEF Answer
  <2> QED
    BY <2>1, CursorTypes DEF FitsAfter
<1>2. CASE sid # Unset
  <2> DEFINE lines == logs[sid].lines
             from == c.at
             upTo == IF c.at + PageMax < lines THEN c.at + PageMax ELSE lines
             next == NextCursor(sid, upTo)
             es == Entries(sid, c.at, upTo)
  <2>1. sid \in Sessions /\ logs[sid] \in [lines : Nat, part : BOOLEAN] /\ lines \in Nat /\ c.at \in Nat /\ PageMax \in Nat /\ PageMax > 0
    <3>1. sid \in Sessions
      BY <1>2 DEF TranscriptTypes, Names
    <3>2. logs[sid] \in [lines : Nat, part : BOOLEAN]
      BY <3>1 DEF TranscriptTypes
    <3>3. lines \in Nat
      BY <3>2
    <3>4. c.at \in Nat
      BY DEF Cursor
    <3>5. PageMax \in Nat /\ PageMax > 0
      BY TranscriptsAssumption
    <3> QED
      BY <3>1, <3>2, <3>3, <3>4, <3>5
  <2>2. upTo \in Nat /\ (upTo # lines => upTo = c.at + PageMax /\ upTo > c.at)
    <3>1. PICK size \in Nat : size = PageMax /\ size > 0
      BY <2>1
    <3>2. PICK at \in Nat : at = c.at
      BY <2>1
    <3>3. PICK n \in Nat : n = logs[sid].lines
      BY <2>1
    <3>4. at + size \in Nat /\ at + size > at
      BY <3>1
    <3>5. upTo = (IF at + size < n THEN at + size ELSE n) /\ lines = n
      BY <3>1, <3>2, <3>3
    <3> QED
      BY ONLY <3>1, <3>2, <3>3, <3>4, <3>5
  <2>3. Identity(sid) \in Nat \X BOOLEAN
    BY <2>1 DEF Identity
  <2>4. next \in Cursor /\ (next.at > 0 => upTo # lines /\ next.of = sid /\ next.at = upTo)
    <3>1. CASE upTo = lines
      BY <3>1, CursorTypes DEF NextCursor
    <3>2. CASE upTo # lines
      <4>1. next = [of |-> sid, identity |-> Identity(sid), at |-> upTo]
        BY <3>2 DEF NextCursor
      <4> QED
        BY <2>1, <2>2, <2>3, <3>2, <4>1 DEF Cursor, Names
    <3> QED
      BY <3>1, <3>2
  <2>5. PICK n \in Nat : 1 .. (upTo - c.at) = 1 .. n /\ (upTo > c.at => n = upTo - c.at)
    <3>1. CASE upTo > c.at
      <4>1. upTo - c.at \in Nat
        BY <2>1, <2>2, <3>1
      <4> QED
        BY <4>1
    <3>2. CASE ~(upTo > c.at)
      <4>1. 1 .. (upTo - c.at) = 1 .. 0
        BY <2>1, <2>2, <3>2
      <4> QED
        BY <4>1, <3>2
    <3> QED
      BY <3>1, <3>2
  <2>6. es = [i \in 1 .. n |-> <<sid, c.at + i>>]
    BY <2>5 DEF Entries
  <2>7. es \in Seq(Entry) /\ Run(es, sid, c.at, n)
    <3>1. ASSUME NEW i \in 1 .. n
          PROVE  <<sid, c.at + i>> \in Entry
      <4>1. c.at + i \in Nat /\ c.at + i > 0
        BY <2>1
      <4> QED
        BY <2>1, <4>1 DEF Entry
    <3> HIDE DEF es
    <3>2. es \in [1 .. n -> Entry]
      BY <2>6, <3>1
    <3>3. es \in Seq(Entry) /\ Len(es) = n
      BY <3>2
    <3> QED
      BY <2>6, <3>3 DEF Run
  <2> HIDE DEF es, next, upTo, lines
  <2>8. CASE c = NoCursor \/ ~Stale(sid, c)
    <3>1. c.at > 0 => c.of = sid
      BY <2>8, CursorTypes DEF Stale
    <3>2. Answer(c) = Page(FALSE, <<>>, NoCursor) \/ Answer(c) = Page(FALSE, es, next)
      BY <1>2, <2>8 DEF Answer, Reads, Continues, es, next, upTo, lines
    <3>0. PICK a : a = Answer(c)
      OBVIOUS
    <3>3. CASE Answer(c) = Page(FALSE, <<>>, NoCursor)
      <4>1. a \in Pages /\ a.entries = <<>> /\ a.cursor = NoCursor
        <5>1. PICK e \in Seq(Entry), d \in Cursor : e = <<>> /\ d = NoCursor
          BY CursorTypes
        <5>2. a = Page(FALSE, e, d)
          BY <3>0, <3>3, <5>1
        <5>3. a \in Pages /\ a.entries = e /\ a.cursor = d
          BY <5>2, PageOf
        <5> QED
          BY <5>1, <5>3
      <4> QED
        BY <3>0, <4>1, CursorTypes DEF FitsAfter
    <3>4. CASE Answer(c) = Page(FALSE, es, next)
      <4>2. Answer(c) \in Pages /\ Answer(c).entries = es /\ Answer(c).cursor = next /\ ~Answer(c).reset
        <5>1. PICK e \in Seq(Entry), d \in Cursor : e = es /\ d = next
          BY <2>4, <2>7
        <5>2. a = Page(FALSE, e, d)
          BY <3>0, <3>4, <5>1
        <5>3. a \in Pages /\ a.entries = e /\ a.cursor = d
          BY <5>2, PageOf
        <5>4. ~a.reset
          BY <5>2 DEF Page
        <5> QED
          BY <3>0, <5>1, <5>3, <5>4
      <4>3. next.at > 0 => n > 0 /\ next.of = sid /\ next.at = c.at + n
        BY <2>1, <2>2, <2>4, <2>5
      <4>4. FitsAfter(c, Answer(c))
        BY <2>1, <2>7, <3>1, <4>2, <4>3 DEF FitsAfter
      <4> QED
        BY <2>6, <4>2, <4>4
    <3> QED
      BY <3>2, <3>3, <3>4
  <2>9. CASE ~(c = NoCursor \/ ~Stale(sid, c))
    <3>1. Answer(c) = Page(FALSE, <<>>, NoCursor) \/ Answer(c) = Page(TRUE, <<>>, NoCursor)
      BY <1>2, <2>9 DEF Answer, Reads, Resets
    <3>2. PICK a : a = Answer(c)
      OBVIOUS
    <3>3. a \in Pages /\ a.entries = <<>> /\ a.cursor = NoCursor
      <4>1. PICK e \in Seq(Entry), d \in Cursor : e = <<>> /\ d = NoCursor
        BY CursorTypes
      <4>2. CASE Answer(c) = Page(FALSE, <<>>, NoCursor)
        <5>1. a = Page(FALSE, e, d)
          BY <3>2, <4>1, <4>2
        <5>2. a \in Pages /\ a.entries = e /\ a.cursor = d
          BY <5>1, PageOf
        <5> QED
          BY <4>1, <5>2
      <4>3. CASE Answer(c) = Page(TRUE, <<>>, NoCursor)
        <5>1. a = Page(TRUE, e, d)
          BY <3>2, <4>1, <4>3
        <5>2. a \in Pages /\ a.entries = e /\ a.cursor = d
          BY <5>1, ResetOf
        <5> QED
          BY <4>1, <5>2
      <4> QED
        BY <3>1, <4>2, <4>3
    <3> QED
      BY <3>2, <3>3, CursorTypes DEF FitsAfter
  <2> QED
    BY <2>8, <2>9
<1> QED
  BY <1>1, <1>2

LEMMA TranscriptInitially == TranscriptsInit => TranscriptInv
<1> SUFFICES ASSUME TranscriptsInit PROVE TranscriptInv
  OBVIOUS
<1>1. /\ sid \in {"first", Unset} /\ newest = Unset /\ flights = <<>>
      /\ logs = [s \in Sessions |-> [lines |-> IF s = "before" THEN 1 ELSE 0, part |-> FALSE]]
      /\ shown = [entries |-> <<>>, cursor |-> NoCursor]
  BY DEF TranscriptsInit
<1>2. logs \in [Sessions -> [lines : Nat, part : BOOLEAN]]
  <2>1. \A s \in Sessions : [lines |-> IF s = "before" THEN 1 ELSE 0, part |-> FALSE] \in [lines : Nat, part : BOOLEAN]
    OBVIOUS
  <2> QED
    BY <1>1, <2>1
<1>3. TranscriptTypes
  BY <1>1, <1>2, CursorTypes DEF TranscriptTypes, Names, Sessions, Own
<1>4. shown.entries = <<>> /\ shown.cursor = NoCursor /\ DOMAIN flights = {} /\ DOMAIN shown.entries = {}
  BY <1>1
<1>5. Fits /\ Ours
  BY <1>1, <1>4 DEF Fits, Ours, OnlyOwn, Own
<1>6. Chained
  BY <1>4, CursorTypes DEF Chained, Chain, Covers
<1> QED
  BY <1>3, <1>5, <1>6 DEF TranscriptInv

\* The engine, its name and the watcher leave what is shown and what is under way.
LEMMA EngineKeeps ==
  ASSUME TranscriptInv,
         (\E s \in Sessions : EngineWrites(s)) \/ StartsAfresh \/ Notified \/ WatcherTicks \/ Shows
  PROVE  TranscriptInv'
<1>1. TranscriptTypes /\ Fits /\ Ours /\ Chained
  BY DEF TranscriptInv
<1>2. shown' = shown /\ flights' = flights /\ overtook' = overtook
  BY DEF EngineWrites, StartsAfresh, Notified, WatcherTicks, Shows
<1>3. Fits' /\ Chained'
  BY <1>1, <1>2 DEF Fits, Chained
<1>4. TranscriptTypes' /\ Ours'
  <2>1. CASE \E s \in Sessions : EngineWrites(s)
    <3>1. PICK s \in Sessions : EngineWrites(s)
      BY <2>1
    <3>2. s \in Own \cup {"elsewhere"} /\ newest' = s /\ sid' = sid
      BY <3>1 DEF EngineWrites, Current, Own
    <3>3. tailed' = (tailed \/ s = "elsewhere")
      BY <3>1 DEF EngineWrites
    <3>4. logs' \in [Sessions -> [lines : Nat, part : BOOLEAN]]
      <4> DEFINE l == logs[s]
      <4>0. l \in [lines : Nat, part : BOOLEAN]
        BY <1>1 DEF TranscriptTypes
      <4>1. \E m \in [lines : Nat, part : BOOLEAN] : logs' = [logs EXCEPT ![s] = m]
        <5>1. CASE logs[s].part
          <6>1. logs' = [logs EXCEPT ![s] = [lines |-> l.lines + 1, part |-> FALSE]]
            BY <1>1, <3>1, <5>1 DEF EngineWrites, TranscriptTypes
          <6>2. [lines |-> l.lines + 1, part |-> FALSE] \in [lines : Nat, part : BOOLEAN]
            BY <4>0
          <6> HIDE DEF l
          <6> QED
            BY <6>1, <6>2
        <5>2. CASE ~logs[s].part
          <6>1. logs' = [logs EXCEPT ![s] = [l EXCEPT !.part = TRUE]] \/ logs' = [logs EXCEPT ![s] = [l EXCEPT !.lines = @ + 1]]
            BY <1>1, <3>1, <5>2 DEF EngineWrites, TranscriptTypes
          <6>2. [l EXCEPT !.part = TRUE] \in [lines : Nat, part : BOOLEAN]
            <7>1. TRUE \in BOOLEAN
              OBVIOUS
            <7> HIDE DEF l
            <7> QED
              BY <4>0, <7>1
          <6>3. [l EXCEPT !.lines = @ + 1] \in [lines : Nat, part : BOOLEAN]
            <7> HIDE DEF l
            <7> QED
              BY <4>0
          <6> HIDE DEF l
          <6> QED
            BY <6>1, <6>2, <6>3
        <5> QED
          BY <5>1, <5>2
      <4> QED
        BY <1>1, <4>1 DEF TranscriptTypes
    <3>5. Ours'
      BY <1>1, <1>2, <3>2, <3>3 DEF Ours
    <3> QED
      BY <1>1, <1>2, <3>2, <3>4, <3>5 DEF TranscriptTypes, Names
  <2>2. CASE StartsAfresh \/ Notified \/ WatcherTicks \/ Shows
    <3>1. newest' = newest /\ logs' = logs /\ tailed' = tailed
      BY <2>2 DEF StartsAfresh, Notified, WatcherTicks, Shows
    <3>2. sid' = sid \/ sid' \in Own \/ sid' = newest
      BY <2>2 DEF StartsAfresh, Notified, WatcherTicks, Shows, Current, Own
    <3>3. TranscriptTypes'
      BY <1>1, <1>2, <3>1, <3>2 DEF TranscriptTypes, Names, Sessions
    <3>4. Ours'
      BY <1>1, <1>2, <3>1, <3>2 DEF Ours
    <3> QED
      BY <3>3, <3>4
  <2> QED
    BY <2>1, <2>2
<1> QED
  BY <1>3, <1>4 DEF TranscriptInv

\* The view asks from where it is.
LEMMA PollsKeeps ==
  ASSUME TranscriptInv, Polls
  PROVE  TranscriptInv'
<1> DEFINE f == [cursor |-> shown.cursor, answered |-> FALSE, page |-> Unavailable]
<1>1. TranscriptTypes /\ Fits /\ Ours /\ Chained
  BY DEF TranscriptInv
<1>2. flights' = Append(flights, f) /\ UNCHANGED <<sid, logs, newest, shown, overtook, tailed>>
  BY DEF Polls
<1>3. f \in Flight /\ ~f.answered /\ f.cursor = shown.cursor /\ f.page.entries = <<>>
  BY <1>1, CursorTypes DEF Flight, TranscriptTypes
<1> HIDE DEF f
<1>4. flights' \in Seq(Flight) /\ flights \in Seq(Flight)
  BY <1>1, <1>2, <1>3 DEF TranscriptTypes
<1>5. \A i \in DOMAIN flights' : (i \in DOMAIN flights /\ flights'[i] = flights[i]) \/ flights'[i] = f
  BY <1>2, <1>3, <1>4
<1>6. TranscriptTypes'
  BY <1>1, <1>2, <1>4 DEF TranscriptTypes
<1>7. Fits'
  BY <1>1, <1>3, <1>5 DEF Fits
<1>8. Ours'
  <2>1. OnlyOwn(f.page.entries)
    BY <1>3 DEF OnlyOwn
  <2> QED
    BY <1>1, <1>2, <1>5, <2>1 DEF Ours
<1>9. Chained'
  BY <1>1, <1>2, <1>3, <1>5 DEF Chained
<1> QED
  BY <1>6, <1>7, <1>8, <1>9 DEF TranscriptInv

\* A page is read.
LEMMA ServesKeeps ==
  ASSUME TranscriptInv, NEW i \in DOMAIN flights, ServesPage(i)
  PROVE  TranscriptInv'
<1> DEFINE a == Answer(flights[i].cursor)
<1>1. TranscriptTypes /\ Fits /\ Ours /\ Chained
  BY DEF TranscriptInv
<1>2. /\ flights' = [flights EXCEPT ![i].answered = TRUE, ![i].page = a]
      /\ overtook' = (overtook \/ \E j \in 1..(i - 1) : ~flights[j].answered)
      /\ UNCHANGED <<sid, logs, newest, shown, tailed>>
  BY DEF ServesPage
<1>3. flights \in Seq(Flight) /\ flights[i] \in Flight
  BY <1>1 DEF TranscriptTypes
<1>4. flights[i].cursor \in Cursor
  BY <1>3 DEF Flight
<1>5. a \in Pages /\ FitsAfter(flights[i].cursor, a) /\ \A k \in DOMAIN a.entries : a.entries[k][1] = sid
  BY <1>1, <1>4, AnswersFit
<1> HIDE DEF a
<1>6. PICK g \in Flight : flights' = [flights EXCEPT ![i] = g] /\ g.cursor = flights[i].cursor /\ g.page = a
  <2> DEFINE h == flights[i]
             g == [[h EXCEPT !.answered = TRUE] EXCEPT !.page = a]
  <2>1. flights' = [flights EXCEPT ![i] = g]
    BY <1>2, <1>3
  <2>2. TRUE \in BOOLEAN /\ h \in Flight
    BY <1>3
  <2> HIDE DEF h
  <2>3. g \in Flight /\ g.cursor = h.cursor /\ g.page = a
    BY <1>5, <2>2 DEF Flight
  <2> QED
    BY <2>1, <2>3 DEF h
<1>7. flights' \in Seq(Flight) /\ DOMAIN flights' = DOMAIN flights
      /\ \A j \in DOMAIN flights : flights'[j] = IF j = i THEN g ELSE flights[j]
  BY <1>3, <1>6
<1>8. TranscriptTypes'
  BY <1>1, <1>2, <1>7 DEF TranscriptTypes
<1>9. Fits'
  BY <1>1, <1>5, <1>6, <1>7 DEF Fits
<1>10. Ours'
  <2> SUFFICES ASSUME ~tailed' PROVE
         /\ sid' \in Own \cup {Unset} /\ newest' \in Own \cup {Unset}
         /\ OnlyOwn(shown'.entries) /\ \A j \in DOMAIN flights' : OnlyOwn(flights'[j].page.entries)
    BY DEF Ours
  <2>1. sid \in Own \cup {Unset} /\ newest \in Own \cup {Unset} /\ OnlyOwn(shown.entries) /\ \A j \in DOMAIN flights : OnlyOwn(flights[j].page.entries)
    BY <1>1, <1>2 DEF Ours
  <2>2. OnlyOwn(a.entries)
    <3>1. CASE sid = Unset
      <4>1. a.entries = <<>>
        BY <3>1, CursorTypes DEF a, Answer
      <4> QED
        BY <4>1 DEF OnlyOwn
    <3>2. CASE sid # Unset
      BY <1>5, <2>1, <3>2 DEF OnlyOwn
    <3> QED
      BY <3>1, <3>2
  <2> QED
    BY <1>2, <1>6, <1>7, <2>1, <2>2
<1>11. Chained'
  <2> SUFFICES ASSUME ~overtook' PROVE
         /\ Chain(shown'.entries) /\ Covers(shown'.entries, shown'.cursor)
         /\ \A j \in DOMAIN flights' : Covers(shown'.entries, flights'[j].cursor)
    BY DEF Chained
  <2>1. ~overtook
    BY <1>2
  <2>2. /\ Chain(shown.entries) /\ Covers(shown.entries, shown.cursor)
        /\ \A j \in DOMAIN flights : Covers(shown.entries, flights[j].cursor)
    BY <1>1, <2>1 DEF Chained
  <2>3. \A j \in DOMAIN flights' : j \in DOMAIN flights /\ flights'[j].cursor = flights[j].cursor
    BY <1>6, <1>7
  <2> QED
    BY <1>2, <2>2, <2>3
<1> QED
  BY <1>8, <1>9, <1>10, <1>11 DEF TranscriptInv

\* What is appended goes on where the cursor was.
LEMMA AppendsChain ==
  ASSUME NEW es \in Seq(Entry), NEW p \in Pages, NEW c \in Cursor, FitsAfter(c, p), Chain(es), Covers(es, c)
  PROVE  /\ Chain(es \o p.entries) /\ Covers(es \o p.entries, p.cursor)
         /\ \A d \in Cursor : Covers(es, d) => Covers(es \o p.entries, d)
<1> DEFINE all == es \o p.entries
<1>1. /\ p.entries \in Seq(Entry) /\ p.cursor.at \in Nat /\ c.at \in Nat
  BY DEF Pages, Cursor
<1>2. /\ all \in Seq(Entry) /\ Len(all) = Len(es) + Len(p.entries) /\ DOMAIN all = 1 .. Len(all)
      /\ DOMAIN es = 1 .. Len(es) /\ Len(es) \in Nat /\ Len(p.entries) \in Nat /\ DOMAIN p.entries = 1 .. Len(p.entries)
      /\ \A j \in DOMAIN es : j \in DOMAIN all /\ all[j] = es[j]
      /\ \A k \in DOMAIN p.entries : Len(es) + k \in DOMAIN all /\ all[Len(es) + k] = p.entries[k]
  BY <1>1
<1> HIDE DEF all
<1>3. \A d \in Cursor : Covers(es, d) => Covers(all, d)
  BY <1>2 DEF Covers
<1>4. CASE p.entries = <<>> /\ p.cursor.at = 0
  <2>1. all = es
    BY <1>4, ConcatEmptySeq DEF all
  <2>2. Chain(all)
    BY <2>1
  <2>3. Covers(all, p.cursor)
    BY <1>4 DEF Covers
  <2> QED
    BY <1>3, <2>2, <2>3 DEF all
<1>5. CASE ~(p.entries = <<>> /\ p.cursor.at = 0)
  <2>1. PICK s \in Sessions, from \in Nat, n \in Nat :
          /\ Run(p.entries, s, from, n)
          /\ from > 0 => c.at = from /\ c.of = s
          /\ p.cursor.at > 0 => n > 0 /\ p.cursor.of = s /\ p.cursor.at = from + n
    BY <1>5 DEF FitsAfter
  <2>2. Len(p.entries) = n /\ \A k \in 1 .. n : p.entries[k] = <<s, from + k>>
    BY <1>1, <1>2, <2>1 DEF Run
  <2>3. Covers(all, p.cursor)
    <3> SUFFICES ASSUME p.cursor.at > 0 PROVE \E j \in DOMAIN all : all[j] = <<p.cursor.of, p.cursor.at>>
      BY DEF Covers
    <3>1. n > 0 /\ p.cursor.of = s /\ p.cursor.at = from + n
      BY <2>1
    <3>2. n \in DOMAIN p.entries /\ p.entries[n] = <<s, from + n>>
      BY <1>2, <2>2, <3>1
    <3> QED
      BY <1>2, <3>1, <3>2
  <2>4. Chain(all)
    <3> SUFFICES ASSUME NEW i \in DOMAIN all, all[i][2] > 1
                 PROVE  \E j \in 1 .. i - 1 : all[j] = <<all[i][1], all[i][2] - 1>>
      BY DEF Chain
    <3>1. CASE i \in DOMAIN es
      <4>1. PICK j \in 1 .. i - 1 : es[j] = <<es[i][1], es[i][2] - 1>>
        BY <1>2, <3>1 DEF Chain
      <4>2. j \in DOMAIN es
        BY <1>2, <3>1, <4>1
      <4> QED
        BY <1>2, <3>1, <4>1, <4>2
    <3>2. CASE i \notin DOMAIN es
      <4>1. PICK k \in 1 .. n : i = Len(es) + k
        <5>1. i \in Nat /\ i > Len(es) /\ i <= Len(es) + n
          BY <1>2, <2>2, <3>2
        <5>2. i - Len(es) \in 1 .. n /\ i = Len(es) + (i - Len(es))
          BY <1>2, <5>1
        <5> QED
          BY <5>2
      <4>2. all[i] = <<s, from + k>>
        BY <1>2, <2>2, <4>1
      <4>3. CASE k > 1
        <5>1. k - 1 \in 1 .. n /\ k - 1 \in DOMAIN p.entries
          BY <1>2, <2>2, <4>3
        <5>2. all[Len(es) + (k - 1)] = <<s, from + (k - 1)>>
          BY <1>2, <2>2, <5>1
        <5>3. Len(es) + (k - 1) \in 1 .. i - 1 /\ from + (k - 1) = from + k - 1
          BY <1>2, <4>1, <4>3
        <5> QED
          BY <4>2, <5>2, <5>3
      <4>4. CASE k = 1
        <5>1. from > 0 /\ c.at = from /\ c.of = s
          BY <2>1, <4>2, <4>4
        <5>2. PICK j \in DOMAIN es : es[j] = <<s, from>>
          BY <5>1 DEF Covers
        <5>3. j \in 1 .. i - 1 /\ all[j] = <<s, from>>
          BY <1>2, <4>1, <5>2
        <5>4. from + k - 1 = from
          BY <4>4
        <5> QED
          BY <4>2, <5>3, <5>4
      <4> QED
        BY <4>1, <4>3, <4>4
    <3> QED
      BY <3>1, <3>2
  <2> QED
    BY <1>3, <2>3, <2>4 DEF all
<1> QED
  BY <1>4, <1>5

\* What is left of a sequence without one of its elements.
Without(q, i) == SubSeq(q, 1, i - 1) \o SubSeq(q, i + 1, Len(q))
OneLess(S, q, i, r) ==
  /\ r \in Seq(S) /\ Len(r) = Len(q) - 1
  /\ \A j \in DOMAIN r : \E k \in DOMAIN q : k # i /\ r[j] = q[k]

LEMMA LeavesOut ==
  ASSUME NEW S, NEW q \in Seq(S), NEW i \in 1 .. Len(q)
  PROVE  OneLess(S, q, i, Without(q, i))
<1>0. PICK r : r = Without(q, i)
  OBVIOUS
<1>1. PICK n \in Nat : n = Len(q)
  OBVIOUS
<1>2. PICK m \in Nat : m = i /\ m >= 1 /\ m <= n
  BY <1>1
<1>3. DOMAIN q = 1 .. n /\ \A j \in 1 .. n : q[j] \in S
  BY <1>1, ElementOfSeq
<1>4. \E a \in Seq(S) : a = SubSeq(q, 1, m - 1) /\ Len(a) = m - 1 /\ \A j \in 1 .. m - 1 : a[j] = q[j]
  <2>1. 1 \in Int /\ m - 1 \in Int /\ \A j \in 1 .. m - 1 : q[j] \in S
    BY <1>2, <1>3
  <2>2. /\ SubSeq(q, 1, m - 1) \in Seq(S) /\ Len(SubSeq(q, 1, m - 1)) = IF 1 <= m - 1 THEN m - 1 - 1 + 1 ELSE 0
        /\ \A j \in 1 .. m - 1 - 1 + 1 : SubSeq(q, 1, m - 1)[j] = q[1 + j - 1]
    BY <2>1, SubSeqProperties
  <2>3. (IF 1 <= m - 1 THEN m - 1 - 1 + 1 ELSE 0) = m - 1 /\ m - 1 - 1 + 1 = m - 1
    BY <1>2
  <2>4. \A j \in 1 .. m - 1 : 1 + j - 1 = j
    BY <1>2
  <2> QED
    BY <2>2, <2>3, <2>4
<1>5. \E b \in Seq(S) : b = SubSeq(q, m + 1, n) /\ Len(b) = n - m /\ \A j \in 1 .. n - m : b[j] = q[m + j]
  <2>1. m + 1 \in Int /\ n \in Int /\ \A j \in m + 1 .. n : q[j] \in S
    BY <1>2, <1>3
  <2>2. /\ SubSeq(q, m + 1, n) \in Seq(S)
        /\ Len(SubSeq(q, m + 1, n)) = IF m + 1 <= n THEN n - (m + 1) + 1 ELSE 0
        /\ \A j \in 1 .. n - (m + 1) + 1 : SubSeq(q, m + 1, n)[j] = q[m + 1 + j - 1]
    BY <2>1, SubSeqProperties
  <2>3. (IF m + 1 <= n THEN n - (m + 1) + 1 ELSE 0) = n - m /\ n - (m + 1) + 1 = n - m
    BY <1>2
  <2>4. \A j \in 1 .. n - m : m + 1 + j - 1 = m + j
    BY <1>2
  <2>5. PICK b \in Seq(S) : b = SubSeq(q, m + 1, n)
    BY <2>2
  <2>6. Len(b) = n - m
    BY <2>2, <2>3, <2>5
  <2>7. \A j \in 1 .. n - m : b[j] = q[m + 1 + j - 1]
    BY <2>2, <2>3, <2>5
  <2>8. \A j \in 1 .. n - m : b[j] = q[m + j]
    BY <2>4, <2>7
  <2> QED
    BY <2>5, <2>6, <2>8
<1>6. PICK a \in Seq(S) : a = SubSeq(q, 1, m - 1) /\ Len(a) = m - 1 /\ \A j \in 1 .. m - 1 : a[j] = q[j]
  BY <1>4
<1>7. PICK b \in Seq(S) : b = SubSeq(q, m + 1, n) /\ Len(b) = n - m /\ \A j \in 1 .. n - m : b[j] = q[m + j]
  BY <1>5
<1>8. r = a \o b
  BY <1>0, <1>1, <1>2, <1>6, <1>7 DEF Without
<1>9. Len(a) = m - 1 /\ Len(b) = n - m
  BY <1>6, <1>7
<1>10. /\ r \in Seq(S) /\ Len(r) = Len(a) + Len(b)
       /\ \A j \in 1 .. Len(a) + Len(b) : r[j] = IF j <= Len(a) THEN a[j] ELSE b[j - Len(a)]
  BY <1>8, ConcatProperties
<1>11. Len(a) + Len(b) = n - 1
  BY <1>2, <1>9
<1>12. /\ Len(r) = n - 1 /\ DOMAIN r = 1 .. n - 1
       /\ \A j \in 1 .. n - 1 : r[j] = IF j <= m - 1 THEN a[j] ELSE b[j - (m - 1)]
  <2>1. Len(r) = n - 1
    BY <1>10, <1>11
  <2>2. DOMAIN r = 1 .. n - 1
    <3>1. r \in Seq(S)
      BY <1>10
    <3>2. DOMAIN r = 1 .. Len(r)
      BY <3>1, LenProperties
    <3> QED
      BY <2>1, <3>2
  <2>3. \A j \in 1 .. n - 1 : r[j] = IF j <= m - 1 THEN a[j] ELSE b[j - (m - 1)]
    <3> SUFFICES ASSUME NEW j \in 1 .. n - 1 PROVE r[j] = IF j <= m - 1 THEN a[j] ELSE b[j - (m - 1)]
      OBVIOUS
    <3>1. j \in 1 .. Len(a) + Len(b)
      BY <1>11, Zenon
    <3>2. r[j] = IF j <= Len(a) THEN a[j] ELSE b[j - Len(a)]
      BY <1>10, <3>1, Zenon
    <3> QED
      BY <1>9, <3>2, Zenon
  <2> QED
    BY <2>1, <2>2, <2>3
<1>13. ASSUME NEW j \in 1 .. n - 1
       PROVE  \E k \in 1 .. n : k # m /\ r[j] = q[k]
  <2>1. CASE j <= m - 1
    <3>1. r[j] = a[j]
      BY <1>12, <2>1, Zenon
    <3>2. j \in 1 .. m - 1 /\ j \in 1 .. n /\ j # m
      BY <1>2, <2>1
    <3> QED
      BY <1>6, <3>1, <3>2, Zenon
  <2>2. CASE ~(j <= m - 1)
    <3>0. j \in Nat /\ j >= 1 /\ j <= n - 1 /\ j > m - 1
      BY <1>2, <2>2
    <3>1. j - (m - 1) \in 1 .. n - m /\ m + (j - (m - 1)) = j + 1 /\ j + 1 \in 1 .. n /\ j + 1 # m
      <4>1. j - (m - 1) \in 1 .. n - m
        <5>1. PICK x \in Nat : x = j
          BY <3>0
        <5>2. x >= 1 /\ x <= n - 1 /\ x > m - 1
          BY <3>0, <5>1
        <5>3. x - (m - 1) \in 1 .. n - m
          BY <1>2, <5>2
        <5> QED
          BY <5>1, <5>3
      <4>2. m + (j - (m - 1)) = j + 1 /\ j + 1 # m
        BY <1>2, <3>0
      <4>3. j + 1 \in 1 .. n
        BY <1>2, <3>0
      <4> QED
        BY <4>1, <4>2, <4>3
    <3>2. r[j] = b[j - (m - 1)]
      BY <1>12, <2>2
    <3>3. b[j - (m - 1)] = q[m + (j - (m - 1))]
      BY <1>7, <3>1
    <3> QED
      BY <3>1, <3>2, <3>3
  <2> QED
    BY <2>1, <2>2
<1>14. OneLess(S, q, i, r)
  BY <1>1, <1>2, <1>3, <1>10, <1>12, <1>13 DEF OneLess
<1> QED
  BY <1>0, <1>14

\* A page is shown.
LEMMA AppliesKeeps ==
  ASSUME TranscriptInv, NEW i \in DOMAIN flights, AppliesPage(i)
  PROVE  TranscriptInv'
<1> DEFINE p == flights[i].page
<1>1. TranscriptTypes /\ Fits /\ Ours /\ Chained
  BY DEF TranscriptInv
<1>2. /\ flights[i].answered
      /\ shown' = [cursor |-> p.cursor, entries |-> IF p.reset THEN p.entries ELSE shown.entries \o p.entries]
      /\ flights' = RemoveAt(flights, i)
      /\ UNCHANGED <<sid, logs, newest, tailed>>
  BY DEF AppliesPage
<1>3. overtook' = (overtook \/ i > 1 \/ (p.reset /\ Len(flights) > 1))
  BY DEF AppliesPage
<1>4. /\ flights \in Seq(Flight) /\ flights[i] \in Flight /\ shown \in [entries : Seq(Entry), cursor : Cursor]
      /\ i \in 1 .. Len(flights) /\ Len(flights) \in Nat
  BY <1>1 DEF TranscriptTypes
<1>5. p \in Pages /\ flights[i].cursor \in Cursor /\ FitsAfter(flights[i].cursor, p)
  BY <1>1, <1>2, <1>4 DEF Flight, Fits
<1>6. p.entries \in Seq(Entry) /\ p.cursor \in Cursor /\ shown.entries \in Seq(Entry)
  BY <1>4, <1>5 DEF Pages
<1>7. /\ flights' \in Seq(Flight) /\ Len(flights') = Len(flights) - 1
      /\ \A j \in DOMAIN flights' : \E k \in DOMAIN flights : k # i /\ flights'[j] = flights[k]
  <2>1. flights' = SubSeq(flights, 1, i - 1) \o SubSeq(flights, i + 1, Len(flights))
    BY <1>2 DEF RemoveAt
  <2>2. PICK q \in Seq(Flight) : q = flights
    BY <1>4
  <2>3. PICK h \in 1 .. Len(q) : h = i
    BY <1>4, <2>2
  <2>4. flights' = Without(q, h)
    BY <2>1, <2>2, <2>3 DEF Without
  <2>5. OneLess(Flight, q, h, Without(q, h))
    BY LeavesOut
  <2> QED
    BY <2>2, <2>3, <2>4, <2>5 DEF OneLess
<1> HIDE DEF p
<1>8. shown' \in [entries : Seq(Entry), cursor : Cursor] /\ shown'.cursor = p.cursor
      /\ shown'.entries = IF p.reset THEN p.entries ELSE shown.entries \o p.entries
  BY <1>2, <1>6
<1>9. TranscriptTypes'
  BY <1>1, <1>2, <1>7, <1>8 DEF TranscriptTypes
<1>10. Fits'
  BY <1>1, <1>7 DEF Fits
<1>11. Ours'
  <2> SUFFICES ASSUME ~tailed' PROVE
         /\ sid' \in Own \cup {Unset} /\ newest' \in Own \cup {Unset}
         /\ OnlyOwn(shown'.entries) /\ \A j \in DOMAIN flights' : OnlyOwn(flights'[j].page.entries)
    BY DEF Ours
  <2>1. /\ sid \in Own \cup {Unset} /\ newest \in Own \cup {Unset} /\ OnlyOwn(shown.entries)
        /\ \A j \in DOMAIN flights : OnlyOwn(flights[j].page.entries)
    BY <1>1, <1>2 DEF Ours
  <2>2. OnlyOwn(p.entries)
    BY <2>1 DEF p
  <2>3. OnlyOwn(shown.entries \o p.entries)
    <3> SUFFICES ASSUME NEW k \in DOMAIN (shown.entries \o p.entries)
                 PROVE  (shown.entries \o p.entries)[k][1] \in Own
      BY DEF OnlyOwn
    <3> DEFINE es == shown.entries
               fs == p.entries
    <3> HIDE DEF es, fs
    <3>1. /\ Len(es \o fs) = Len(es) + Len(fs) /\ es \o fs \in Seq(Entry)
          /\ \A j \in 1 .. Len(es) + Len(fs) : (es \o fs)[j] = IF j <= Len(es) THEN es[j] ELSE fs[j - Len(es)]
      BY <1>6, ConcatProperties DEF es, fs
    <3>2. Len(es) \in Nat /\ Len(fs) \in Nat /\ DOMAIN es = 1 .. Len(es) /\ DOMAIN fs = 1 .. Len(fs)
      BY <1>6 DEF es, fs
    <3>3. k \in 1 .. Len(es) + Len(fs)
      <4>1. k \in DOMAIN (es \o fs)
        BY DEF es, fs
      <4> QED
        BY <3>1, <4>1
    <3>4. CASE k <= Len(es)
      <4>1. k \in DOMAIN es /\ (es \o fs)[k] = es[k]
        BY <3>1, <3>2, <3>3, <3>4
      <4> QED
        BY <2>1, <4>1 DEF OnlyOwn, es, fs
    <3>5. CASE ~(k <= Len(es))
      <4>1. k - Len(es) \in DOMAIN fs /\ (es \o fs)[k] = fs[k - Len(es)]
        BY <3>1, <3>2, <3>3, <3>5
      <4> QED
        BY <2>2, <4>1 DEF OnlyOwn, es, fs
    <3> QED
      BY <3>4, <3>5
  <2> QED
    BY <1>2, <1>7, <1>8, <2>1, <2>2, <2>3
<1>12. Chained'
  <2> SUFFICES ASSUME ~overtook' PROVE
         /\ Chain(shown'.entries) /\ Covers(shown'.entries, shown'.cursor)
         /\ \A j \in DOMAIN flights' : Covers(shown'.entries, flights'[j].cursor)
    BY DEF Chained
  <2>0. ~overtook /\ ~(p.reset /\ Len(flights) > 1)
    BY <1>3, Zenon
  <2>1. ~overtook /\ (p.reset => Len(flights) = 1)
    <3>1. Len(flights) > 1 \/ Len(flights) = 1
      <4>1. PICK n \in Nat : n = Len(flights)
        BY <1>4
      <4>2. n >= 1
        BY <1>4, <4>1
      <4>3. n > 1 \/ n = 1
        BY <4>2
      <4> QED
        BY <4>1, <4>3
    <3> QED
      BY <2>0, <3>1, Zenon
  <2>2. /\ Chain(shown.entries)
        /\ \A j \in DOMAIN flights : Covers(shown.entries, flights[j].cursor)
    BY <1>1, <2>1 DEF Chained
  <2>3. CASE p.reset
    <3>0. p.entries = <<>> /\ p.cursor.at = 0
      BY <1>5, <2>3, Zenon DEF FitsAfter
    <3>1. p.entries = <<>> /\ p.cursor.at = 0 /\ DOMAIN flights' = {}
      <4>1. Len(flights') = 1 - 1
        BY <1>7, <2>1, <2>3, Zenon
      <4> QED
        BY <1>7, <3>0, <4>1
    <3>2. shown'.entries = <<>> /\ shown'.cursor.at = 0
      BY <1>8, <2>3, <3>1
    <3> QED
      BY <3>1, <3>2 DEF Chain, Covers
  <2>4. CASE ~p.reset
    <3>1. shown'.entries = shown.entries \o p.entries
      BY <1>8, <2>4
    <3>2. /\ Chain(shown'.entries) /\ Covers(shown'.entries, p.cursor)
          /\ \A d \in Cursor : Covers(shown.entries, d) => Covers(shown'.entries, d)
      BY <1>5, <1>6, <2>2, <3>1, AppendsChain
    <3>3. ASSUME NEW j \in DOMAIN flights' PROVE Covers(shown'.entries, flights'[j].cursor)
      <4>1. PICK k \in DOMAIN flights : flights'[j] = flights[k]
        BY <1>7
      <4>2. flights[k].cursor \in Cursor
        <5>1. flights[k] \in Flight
          BY <1>4, <4>1, ElementOfSeq
        <5> QED
          BY <5>1 DEF Flight
      <4> QED
        BY <2>2, <3>2, <4>1, <4>2
    <3> QED
      BY <1>8, <3>2, <3>3
  <2> QED
    BY <2>3, <2>4
<1> QED
  BY <1>9, <1>10, <1>11, <1>12 DEF TranscriptInv

\* Theorem: whatever the engine writes between the pages, and in the middle of a line, each entry
\* that is shown comes after the one before it, unless requests overlapped; and as long as no
\* other engine writes in the worktree, it is the conversation of the tab.
THEOREM TranscriptIsTrue == TranscriptsSpec => []TranscriptHolds
<1>1. TranscriptInv /\ [TranscriptsNext]_transcriptVars => TranscriptInv'
  <2> SUFFICES ASSUME TranscriptInv, [TranscriptsNext]_transcriptVars PROVE TranscriptInv'
    OBVIOUS
  <2>1. CASE UNCHANGED transcriptVars
    BY <2>1 DEF transcriptVars, TranscriptInv, TranscriptTypes, Fits, Ours, Chained
  <2>2. CASE TranscriptsNext
    BY <2>2, EngineKeeps, PollsKeeps, ServesKeeps, AppliesKeeps DEF TranscriptsNext
  <2> QED
    BY <2>1, <2>2
<1>2. TranscriptInv => TranscriptHolds
  BY DEF TranscriptInv, Ours, OnlyOwn, Chained, Chain, TranscriptHolds
<1> QED
  BY <1>1, <1>2, TranscriptInitially, PTL DEF TranscriptsSpec

-----------------------------------------------------------------------------
(* The tasks that clients make.                                              *)

Rows == [by : 0 .. Agents, status : {"creating", "active", "error"}, stage : 1 .. Active,
         failed : BOOLEAN, ran : BOOLEAN]
Requests == [kind : {"create", "ensure", "retry"}, who : 0 .. Agents, task : Nat,
             via : {"socket", "tcp", "fetch"}, state : {"sent", "running", "ok", "failed"}, heard : BOOLEAN]
Newses == [task : Nat, what : 0 .. Active]
Steps == [current : 1 .. Active, failed : BOOLEAN]

FanoutTypes ==
  /\ made \in Seq(Rows) /\ requests \subseteq Requests /\ unheard \in Seq(Newses)
  /\ waits \in {"idle", "create", "ensure"} /\ report \in Seq(Nat) /\ Len(report) <= Agents
  /\ DOMAIN progress \subseteq TaskIds
  /\ progress = [t \in DOMAIN progress |-> progress[t]] /\ \A t \in DOMAIN progress : progress[t] \in Steps

\* A row: in error it has failed, active its engine ran, and before that it has not reached the end.
RowFits(r) ==
  /\ r.status = "error" => r.failed
  /\ r.status = "active" => r.ran
  /\ r.status = "creating" => r.stage < Active
RowsFit == \A t \in TaskIds : RowFits(made[t])

\* A request and the row it is about.
Untried(r) == r.status = "creating" /\ r.stage = 1 /\ ~r.failed
RequestFits(c) ==
  /\ c.kind = "create" => /\ c.state # "running" /\ (c.state # "ok" => c.task = 0)
                          /\ c.state = "ok" => made[c.task].by = c.who /\ Untried(made[c.task])
  /\ c.kind # "create" \/ c.state = "ok" => c.task \in TaskIds
  /\ c.kind = "ensure" => made[c.task].by = c.who /\ (c.state = "ok" => made[c.task].ran)
  /\ c.kind = "retry" => made[c.task].failed /\ c.who = Panel
  /\ c.state = "running" => made[c.task].status = "creating"
  /\ c.kind = "ensure" /\ c.state = "sent" /\ ~made[c.task].failed =>
       made[c.task].stage = 1 \/ Running(c.task) \/ made[c.task].status = "active"
RequestsFit == \A c \in requests : RequestFits(c)

\* Nobody else asks about a row whose maker has not heard of it, and one request runs for a row.
Alone ==
  \A c, d \in requests : c # d /\ c.task = d.task =>
    /\ ~(c.kind = "create" /\ c.state = "ok")
    /\ ~(c.state = "running" /\ d.state = "running")

\* What is not heard yet: of a row that never failed no stage it has not reached, and its end last.
Ending(t, k) == \E m \in k .. Len(unheard) : unheard[m] = [task |-> t, what |-> Active]
NewsFit(t, what, k) ==
  /\ t \in TaskIds
  /\ what = Error => made[t].failed
  /\ ~made[t].failed => what <= made[t].stage /\ (made[t].status = "active" => Ending(t, k))
NewsFits == \A k \in DOMAIN unheard : NewsFit(unheard[k].task, unheard[k].what, k)
ProgressFits ==
  \A t \in DOMAIN progress :
    /\ progress[t].failed => made[t].failed
    /\ ~made[t].failed => /\ progress[t].current > 2 => progress[t].current <= made[t].stage
                          /\ made[t].status = "active" => Ending(t, 1)

\* The instances: one that has not begun has neither request nor row, one whose request was not
\* sent twice has one of each at most, and no row before its request arrived.
Creates(i, c) == c.kind = "create" /\ c.who = i
Begun(i) == i < Instance \/ (i = Instance /\ waits # "idle")
InstancesFit ==
  \A i \in 1 .. Agents :
    /\ ~Begun(i) => (\A c \in requests : ~Creates(i, c)) /\ (\A t \in TaskIds : made[t].by # i)
    /\ i \notin twice =>
         /\ \A c, d \in requests : Creates(i, c) /\ Creates(i, d) => c = d
         /\ \A c \in requests : Creates(i, c) => c.via = "socket"
         /\ \A c \in requests : Creates(i, c) /\ c.state = "sent" => \A t \in TaskIds : made[t].by # i
         /\ \A t, u \in TaskIds : made[t].by = i /\ made[u].by = i => t = u
ReportFits == \A i \in DOMAIN report : report[i] # 0 => report[i] \in TaskIds /\ made[report[i]].ran /\ made[report[i]].by = i

FanoutInv == FanoutTypes /\ RowsFit /\ RequestsFit /\ Alone /\ NewsFits /\ ProgressFits /\ InstancesFit /\ ReportFits

LEMMA FanoutFacts ==
  ASSUME FanoutTypes
  PROVE  /\ TaskIds = 1 .. Len(made) /\ Len(made) \in Nat /\ \A t \in TaskIds : made[t] \in Rows
         /\ \A c \in requests : c \in Requests
         /\ DOMAIN unheard = 1 .. Len(unheard) /\ Len(unheard) \in Nat /\ \A k \in DOMAIN unheard : unheard[k] \in Newses
         /\ Agents \in Nat /\ Active \in Nat /\ Active > 2 /\ Instance \in Nat /\ Len(report) \in Nat
<1>1. made \in Seq(Rows) /\ requests \subseteq Requests /\ unheard \in Seq(Newses) /\ report \in Seq(Nat)
  BY DEF FanoutTypes
<1>2. Agents \in Nat /\ Active \in Nat /\ Active > 2
  BY FanoutAssumption
<1>3. TaskIds = 1 .. Len(made) /\ Len(made) \in Nat /\ \A t \in TaskIds : made[t] \in Rows
  BY <1>1 DEF TaskIds
<1>4. DOMAIN unheard = 1 .. Len(unheard) /\ Len(unheard) \in Nat /\ \A k \in DOMAIN unheard : unheard[k] \in Newses
  BY <1>1
<1>5. Instance \in Nat /\ Len(report) \in Nat
  BY <1>1 DEF Instance
<1> QED
  BY <1>1, <1>2, <1>3, <1>4, <1>5

\* The answer to a request, if somebody waits for it.
LEMMA ResolvedIs ==
  ASSUME NEW c \in Requests, NEW s \in {"ok", "failed"}, NEW t \in Nat, NEW x \in Resolved(c, s, t)
  PROVE  /\ x \in Requests /\ x.kind = c.kind /\ x.who = c.who /\ x.task = t /\ x.via = c.via
         /\ x.state = s /\ \A y \in Resolved(c, s, t) : x = y
<1>1. x = [[c EXCEPT !.state = s] EXCEPT !.task = t] /\ \A y \in Resolved(c, s, t) : x = y
  BY DEF Resolved
<1> QED
  BY <1>1 DEF Requests

LEMMA CallIs ==
  ASSUME NEW kind \in {"create", "ensure", "retry"}, NEW who \in 0 .. Agents, NEW t \in Nat,
         NEW via \in {"socket", "tcp", "fetch"}, NEW x, x = Call(kind, who, t, via)
  PROVE  /\ x \in Requests /\ x.kind = kind /\ x.who = who /\ x.task = t /\ x.via = via /\ x.state = "sent"
<1>1. TRUE \in BOOLEAN
  OBVIOUS
<1> QED
  BY <1>1 DEF Call, Requests

\* A row changes, and the request that changes it.
CreateOk(c) == c.kind = "create" /\ c.state = "ok"

Changes(t, c, r, X) ==
  /\ t \in TaskIds /\ c \in requests /\ c.task = t /\ c.kind # "create"
  /\ r \in Rows /\ RowFits(r) /\ r.by = made[t].by /\ (made[t].ran => r.ran) /\ (made[t].failed => r.failed)
  /\ ~r.failed => made[t].stage <= r.stage
  /\ \A d \in requests \ {c} : d.task = t => d.state # "running"
  /\ made' = [made EXCEPT ![t] = r] /\ requests' = (requests \ {c}) \cup X
  /\ \A x \in X : /\ x \in Requests /\ x.task = t /\ x.kind = c.kind /\ x.who = c.who
                  /\ x.state = "running" => r.status = "creating"
                  /\ x.state # "sent" /\ (x.state = "ok" => r.ran)
                  /\ x.kind = "retry" => r.failed
                  /\ \A y \in X : x = y
  /\ r.failed \/ r.status = "active" \/ \E x \in X : x.state = "running"
  /\ UNCHANGED <<waits, report, progress, twice>>

Tells(t, r) ==
  \/ unheard' = unheard /\ (~r.failed => r.status # "active")
  \/ \E w \in 0 .. Active : /\ unheard' = News(t, w)
                            /\ w = Error => r.failed
                            /\ ~r.failed => w <= r.stage /\ (r.status = "active" => w = Active)

LEMMA RowStep ==
  ASSUME FanoutInv, NEW t, NEW c, NEW r, NEW X, Changes(t, c, r, X), Tells(t, r)
  PROVE  FanoutInv'
<1>1. FanoutTypes /\ RowsFit /\ RequestsFit /\ Alone /\ NewsFits /\ ProgressFits /\ InstancesFit /\ ReportFits
  BY DEF FanoutInv
<1>2. /\ TaskIds = 1 .. Len(made) /\ Len(made) \in Nat /\ \A u \in TaskIds : made[u] \in Rows
      /\ \A d \in requests : d \in Requests
      /\ DOMAIN unheard = 1 .. Len(unheard) /\ Len(unheard) \in Nat /\ \A k \in DOMAIN unheard : unheard[k] \in Newses
      /\ Active \in Nat
  BY <1>1, FanoutFacts
<1>3. /\ t \in TaskIds /\ c \in requests /\ c.task = t /\ c.kind # "create"
      /\ r \in Rows /\ RowFits(r) /\ r.by = made[t].by /\ (made[t].ran => r.ran) /\ (made[t].failed => r.failed)
  BY DEF Changes
<1>4. made' = [made EXCEPT ![t] = r] /\ requests' = (requests \ {c}) \cup X
  BY DEF Changes
<1>5. \A x \in X : /\ x \in Requests /\ x.task = t /\ x.kind = c.kind /\ x.who = c.who
                   /\ x.state = "running" => r.status = "creating"
                   /\ x.state # "sent" /\ (x.state = "ok" => r.ran)
                   /\ x.kind = "retry" => r.failed
                   /\ \A y \in X : x = y
  BY DEF Changes
<1>6. \A d \in requests \ {c} : d.task = t => d.state # "running"
  BY DEF Changes
<1>7. UNCHANGED <<waits, report, progress, twice>>
  BY DEF Changes
<1>8. made \in Seq(Rows) /\ made' \in Seq(Rows) /\ TaskIds' = TaskIds
  <2>1. made \in Seq(Rows)
    BY <1>1 DEF FanoutTypes
  <2> QED
    BY <1>3, <1>4, <2>1 DEF TaskIds
<1>9. made'[t] = r /\ \A u \in TaskIds : u # t => made'[u] = made[u]
  BY <1>3, <1>4, <1>8 DEF TaskIds
<1>10. \A u \in TaskIds : made'[u].by = made[u].by /\ (made[u].ran => made'[u].ran) /\ (made[u].failed => made'[u].failed)
  BY <1>3, <1>9
<1>11. RowsFit'
  BY <1>1, <1>3, <1>8, <1>9 DEF RowsFit
<1>12. \A d \in requests : d # c /\ d.task # t => RequestFits(d)'
  <2> SUFFICES ASSUME NEW d \in requests, d # c, d.task # t PROVE RequestFits(d)'
    OBVIOUS
  <2>1. RequestFits(d)
    BY <1>1 DEF RequestsFit
  <2>2. d.task \in TaskIds => made'[d.task] = made[d.task]
    BY <1>9
  <2>3. Running(d.task) => Running(d.task)'
    BY <1>3, <1>4 DEF Running
  <2>4. d.kind \in {"create", "ensure", "retry"}
    BY <1>2 DEF Requests
  <2>5. CASE d.task \in TaskIds
    BY <1>8, <2>1, <2>2, <2>3, <2>5 DEF RequestFits, Untried
  <2>6. CASE d.task \notin TaskIds
    <3>1. d.kind = "create" /\ d.state # "ok" /\ d.state # "running" /\ d.task = 0
      BY <2>1, <2>6 DEF RequestFits
    <3> QED
      BY <3>1 DEF RequestFits
  <2> QED
    BY <2>5, <2>6
<1>13. \A d \in requests : d # c /\ d.task = t => RequestFits(d)' /\ d.kind # "create"
  <2> SUFFICES ASSUME NEW d \in requests, d # c, d.task = t PROVE RequestFits(d)' /\ d.kind # "create"
    OBVIOUS
  <2>1. RequestFits(d) /\ ~(d.kind = "create" /\ d.state = "ok") /\ d.state # "running"
    BY <1>1, <1>3, <1>6 DEF RequestsFit, Alone
  <2>2. d.kind # "create"
    BY <1>2, <1>3, <2>1 DEF RequestFits
  <2>3. r.failed \/ r.status = "active" \/ Running(t)'
    <3>1. r.failed \/ r.status = "active" \/ \E x \in X : x.state = "running"
      BY DEF Changes
    <3> QED
      BY <1>4, <1>5, <3>1 DEF Running
  <2>4. t \in TaskIds'
    BY <1>3, <1>8
  <2>5. d.kind = "ensure" => r.by = d.who /\ (d.state = "ok" => r.ran)
    BY <1>3, <2>1 DEF RequestFits
  <2>6. d.kind = "retry" => r.failed /\ d.who = Panel
    BY <1>3, <2>1 DEF RequestFits
  <2> QED
    BY <1>9, <2>1, <2>2, <2>3, <2>4, <2>5, <2>6 DEF RequestFits
<1>14. \A x \in X : RequestFits(x)'
  <2> SUFFICES ASSUME NEW x \in X PROVE RequestFits(x)'
    OBVIOUS
  <2>1. x.task = t /\ x.kind = c.kind /\ x.who = c.who /\ x.kind # "create"
    BY <1>3, <1>5
  <2>2. RequestFits(c)
    BY <1>1, <1>3 DEF RequestsFit
  <2>3. x.kind = "ensure" => r.by = x.who /\ (x.state = "ok" => r.ran)
    BY <1>3, <1>5, <2>1, <2>2 DEF RequestFits
  <2>4. x.kind = "retry" => r.failed /\ x.who = Panel
    BY <1>3, <1>5, <2>1, <2>2 DEF RequestFits
  <2>5. x.state = "running" => r.status = "creating"
    BY <1>5
  <2>6. x.state # "sent" /\ t \in TaskIds'
    BY <1>3, <1>5, <1>8
  <2> QED
    BY <1>9, <2>1, <2>3, <2>4, <2>5, <2>6 DEF RequestFits
<1>15. RequestsFit'
  BY <1>4, <1>12, <1>13, <1>14 DEF RequestsFit
<1>16. Alone'
  <2> SUFFICES ASSUME NEW d \in requests', NEW e \in requests', d # e, d.task = e.task
               PROVE  ~(d.kind = "create" /\ d.state = "ok") /\ ~(d.state = "running" /\ e.state = "running")
    BY DEF Alone
  <2>1. CASE d \in requests /\ e \in requests
    BY <1>1, <2>1 DEF Alone
  <2>2. CASE d \in X
    <3>1. e \in requests \ {c} /\ e.task = t /\ d.kind # "create"
      BY <1>3, <1>4, <1>5, <2>2
    <3> QED
      BY <1>6, <3>1
  <2>3. CASE e \in X
    <3>1. d \in requests \ {c} /\ d.task = t
      BY <1>3, <1>4, <1>5, <2>3
    <3> QED
      BY <1>6, <1>13, <3>1
  <2> QED
    BY <1>4, <2>1, <2>2, <2>3
<1>17. /\ unheard' \in Seq(Newses) /\ Len(unheard) <= Len(unheard')
       /\ \A k \in DOMAIN unheard : k \in DOMAIN unheard' /\ unheard'[k] = unheard[k]
       /\ \A k \in DOMAIN unheard' : \/ k \in DOMAIN unheard
                                     \/ /\ k = Len(unheard') /\ unheard'[k].task = t
                                        /\ unheard'[k].what = Error => r.failed
                                        /\ ~r.failed => unheard'[k].what <= r.stage
       /\ ~r.failed /\ r.status = "active" => Len(unheard') \in DOMAIN unheard' /\ unheard'[Len(unheard')] = [task |-> t, what |-> Active]
       /\ DOMAIN unheard' = 1 .. Len(unheard') /\ Len(unheard') \in Nat
  <2>1. unheard \in Seq(Newses)
    BY <1>1 DEF FanoutTypes
  <2>2. CASE unheard' = unheard /\ (~r.failed => r.status # "active")
    BY <2>1, <2>2
  <2>3. CASE ~(unheard' = unheard /\ (~r.failed => r.status # "active"))
    <3>1. PICK w \in 0 .. Active : /\ unheard' = News(t, w)
                                   /\ w = Error => r.failed
                                   /\ ~r.failed => w <= r.stage /\ (r.status = "active" => w = Active)
      BY <2>3 DEF Tells
    <3>2. [task |-> t, what |-> w] \in Newses
      BY <1>2, <1>3 DEF Newses
    <3>3. unheard' = Append(unheard, [task |-> t, what |-> w])
      BY <3>1 DEF News
    <3>4. PICK n \in Newses : n = [task |-> t, what |-> w]
      BY <3>2
    <3>5. n.task = t /\ n.what = w
      BY <3>4
    <3>6. /\ unheard' \in Seq(Newses) /\ Len(unheard') = Len(unheard) + 1
          /\ \A k \in 1 .. Len(unheard) : unheard'[k] = unheard[k]
          /\ unheard'[Len(unheard) + 1] = n
      BY <2>1, <3>3, <3>4, AppendProperties
    <3>7. DOMAIN unheard' = 1 .. Len(unheard) + 1
      BY <3>6
    <3> QED
      BY <1>2, <3>1, <3>4, <3>5, <3>6, <3>7
  <2> QED
    BY <2>2, <2>3
<1>18. \A u \in TaskIds, k \in DOMAIN unheard : Ending(u, k) => Ending(u, k)'
  <2> SUFFICES ASSUME NEW u \in TaskIds, NEW k \in DOMAIN unheard, Ending(u, k) PROVE Ending(u, k)'
    OBVIOUS
  <2>1. PICK m \in k .. Len(unheard) : unheard[m] = [task |-> u, what |-> Active]
    BY DEF Ending
  <2>2. m \in DOMAIN unheard /\ m \in k .. Len(unheard')
    BY <1>2, <1>17, <2>1
  <2> QED
    BY <1>17, <2>1, <2>2 DEF Ending
<1>19. ~r.failed /\ r.status = "active" => \A k \in DOMAIN unheard' : Ending(t, k)'
  <2> SUFFICES ASSUME ~r.failed, r.status = "active", NEW k \in DOMAIN unheard' PROVE Ending(t, k)'
    OBVIOUS
  <2>1. Len(unheard') \in k .. Len(unheard')
    BY <1>17
  <2> QED
    BY <1>17, <2>1 DEF Ending
<1>20. NewsFits'
  <2> SUFFICES ASSUME NEW k \in DOMAIN unheard' PROVE NewsFit(unheard[k].task, unheard[k].what, k)'
    BY DEF NewsFits
  <2>1. CASE k \in DOMAIN unheard
    <3>1. PICK u : u = unheard[k].task
      OBVIOUS
    <3>2. PICK w : w = unheard[k].what
      OBVIOUS
    <3>3. NewsFit(u, w, k)
      BY <1>1, <2>1, <3>1, <3>2 DEF NewsFits
    <3>4. unheard'[k] = unheard[k]
      BY <1>17, <2>1
    <3>5. CASE u # t
      <4>1. u \in TaskIds /\ made'[u] = made[u] /\ (Ending(u, k) => Ending(u, k)')
        BY <1>9, <1>18, <2>1, <3>3, <3>5 DEF NewsFit
      <4> QED
        BY <1>8, <3>1, <3>2, <3>3, <3>4, <4>1 DEF NewsFit
    <3>6. CASE u = t
      <4>1. ~r.failed => w <= r.stage
        <5>1. HAVE ~r.failed
        <5>2. w <= made[t].stage /\ made[t].stage <= r.stage
          BY <1>3, <3>3, <3>6, <5>1 DEF Changes, NewsFit
        <5>3. w \in Nat /\ made[t].stage \in Nat /\ r.stage \in Nat
          BY <1>2, <1>3, <2>1, <3>2 DEF Newses, Rows
        <5> QED
          BY <5>2, <5>3
      <4>2. w = Error => r.failed
        BY <1>3, <3>3, <3>6 DEF NewsFit
      <4>3. ~r.failed /\ r.status = "active" => Ending(t, k)'
        BY <1>19
      <4>4. t \in TaskIds' /\ made'[t] = r
        BY <1>3, <1>8, <1>9
      <4> QED
        BY <3>1, <3>2, <3>4, <3>6, <4>1, <4>2, <4>3, <4>4 DEF NewsFit
    <3> QED
      BY <3>5, <3>6
  <2>2. CASE k \notin DOMAIN unheard
    <3>1. PICK w : w = unheard'[k].what
      OBVIOUS
    <3>2. unheard'[k].task = t /\ (w = Error => r.failed) /\ (~r.failed => w <= r.stage)
      BY <1>17, <2>2, <3>1
    <3>3. ~r.failed /\ r.status = "active" => Ending(t, k)'
      BY <1>19
    <3>4. t \in TaskIds' /\ made'[t] = r
      BY <1>3, <1>8, <1>9
    <3> QED
      BY <3>1, <3>2, <3>3, <3>4 DEF NewsFit
  <2> QED
    BY <2>1, <2>2
<1>21. ProgressFits'
  <2> SUFFICES ASSUME NEW u \in DOMAIN progress
               PROVE  /\ progress[u].failed => made'[u].failed
                      /\ ~made'[u].failed => /\ progress[u].current > 2 => progress[u].current <= made'[u].stage
                                             /\ made'[u].status = "active" => Ending(u, 1)'
    BY <1>7 DEF ProgressFits
  <2>1. u \in TaskIds /\ progress[u] \in Steps
    BY <1>1 DEF FanoutTypes
  <2>2. /\ progress[u].failed => made[u].failed
        /\ ~made[u].failed => /\ progress[u].current > 2 => progress[u].current <= made[u].stage
                              /\ made[u].status = "active" => Ending(u, 1)
    BY <1>1 DEF ProgressFits
  <2>3. CASE u # t
    <3>1. made'[u] = made[u]
      BY <1>9, <2>1, <2>3
    <3>2. Ending(u, 1) => Ending(u, 1)'
      <4>1. Ending(u, 1) => 1 \in DOMAIN unheard
        BY <1>2 DEF Ending
      <4> QED
        BY <1>18, <2>1, <4>1
    <3> QED
      BY <2>2, <3>1, <3>2
  <2>4. CASE u = t
    <3>1. made'[u] = r
      BY <1>9, <2>4
    <3>2. progress[u].failed => r.failed
      BY <1>3, <2>2, <2>4
    <3>3. ~r.failed /\ progress[u].current > 2 => progress[u].current <= r.stage
      <4>1. HAVE ~r.failed /\ progress[u].current > 2
      <4>2. progress[u].current <= made[t].stage /\ made[t].stage <= r.stage
        BY <1>3, <2>2, <2>4, <4>1 DEF Changes
      <4>3. progress[u].current \in Nat /\ made[t].stage \in Nat /\ r.stage \in Nat
        BY <1>2, <1>3, <2>1 DEF Steps, Rows
      <4> QED
        BY <4>2, <4>3
    <3>4. ~r.failed /\ r.status = "active" => Ending(u, 1)'
      <4>1. HAVE ~r.failed /\ r.status = "active"
      <4>2. 1 \in DOMAIN unheard'
        BY <1>17, <4>1
      <4> QED
        BY <1>19, <2>4, <4>1, <4>2
    <3> QED
      BY <3>1, <3>2, <3>3, <3>4
  <2> QED
    BY <2>3, <2>4
<1>22. InstancesFit'
  <2>1. Instance' = Instance /\ \A i \in 1 .. Agents : Begun(i)' <=> Begun(i)
    BY <1>7 DEF Begun, Instance
  <2>2. \A i \in 1 .. Agents, d \in requests' : Creates(i, d) => d \in requests
    BY <1>3, <1>4, <1>5 DEF Creates
  <2> QED
    BY <1>1, <1>7, <1>8, <1>10, <2>1, <2>2 DEF InstancesFit
<1>23. ReportFits'
  BY <1>1, <1>7, <1>8, <1>10 DEF ReportFits
<1>24. FanoutTypes'
  <2>1. requests' \subseteq Requests
    BY <1>2, <1>4, <1>5
  <2> QED
    BY <1>1, <1>7, <1>8, <1>17, <2>1 DEF FanoutTypes
<1> QED
  BY <1>11, <1>15, <1>16, <1>20, <1>21, <1>22, <1>23, <1>24 DEF FanoutInv

\* Requests come and go, and the rows stay.
Swaps(C, X) ==
  /\ made' = made /\ unheard' = unheard /\ requests' = (requests \ C) \cup X
  /\ \A x \in X : x \in Requests /\ RequestFits(x)'
  /\ \A d \in requests \ C : d.state = "sent" /\ Running(d.task) => Running(d.task)'
  /\ \A x \in X, d \in requests' : x # d /\ x.task = d.task =>
       ~CreateOk(x) /\ ~CreateOk(d) /\ ~(x.state = "running" /\ d.state = "running")

LEMMA SwapStep ==
  ASSUME FanoutInv, NEW C, NEW X, Swaps(C, X)
  PROVE  /\ RowsFit' /\ RequestsFit' /\ Alone' /\ NewsFits' /\ requests' \subseteq Requests
         /\ TaskIds' = TaskIds /\ \A t, k : Ending(t, k)' <=> Ending(t, k)
<1>1. FanoutTypes /\ RowsFit /\ RequestsFit /\ Alone /\ NewsFits
  BY DEF FanoutInv
<1>2. made' = made /\ unheard' = unheard /\ requests' = (requests \ C) \cup X
  BY DEF Swaps
<1>3. TaskIds' = TaskIds /\ \A t, k : Ending(t, k)' <=> Ending(t, k)
  BY <1>2 DEF TaskIds, Ending
<1>4. RowsFit'
  BY <1>1, <1>2, <1>3 DEF RowsFit
<1>5. NewsFits'
  <2> SUFFICES ASSUME NEW k \in DOMAIN unheard PROVE NewsFit(unheard[k].task, unheard[k].what, k)'
    BY <1>2 DEF NewsFits
  <2>1. NewsFit(unheard[k].task, unheard[k].what, k)
    BY <1>1 DEF NewsFits
  <2> QED
    BY <1>2, <1>3, <2>1 DEF NewsFit
<1>6. \A d \in requests \ C : RequestFits(d)'
  <2> SUFFICES ASSUME NEW d \in requests \ C PROVE RequestFits(d)'
    OBVIOUS
  <2>1. RequestFits(d)
    BY <1>1 DEF RequestsFit
  <2>2. d.state = "sent" /\ Running(d.task) => Running(d.task)'
    BY DEF Swaps
  <2> QED
    BY <1>2, <1>3, <2>1, <2>2 DEF RequestFits
<1>7. RequestsFit'
  BY <1>2, <1>6 DEF RequestsFit, Swaps
<1>8. Alone'
  <2> SUFFICES ASSUME NEW d \in requests', NEW e \in requests', d # e, d.task = e.task
               PROVE  ~(d.kind = "create" /\ d.state = "ok") /\ ~(d.state = "running" /\ e.state = "running")
    BY DEF Alone
  <2>1. CASE d \in requests /\ e \in requests
    BY <1>1, <2>1 DEF Alone
  <2>2. CASE d \in X
    BY <2>2 DEF Swaps, CreateOk
  <2>3. CASE e \in X
    BY <2>3 DEF Swaps, CreateOk
  <2> QED
    BY <1>2, <2>1, <2>2, <2>3
<1>9. requests' \subseteq Requests
  <2>1. requests \subseteq Requests
    BY <1>1 DEF FanoutTypes
  <2> QED
    BY <1>2, <2>1 DEF Swaps
<1> QED
  BY <1>3, <1>4, <1>5, <1>7, <1>8, <1>9

\* No instance begins, and a request to create one is not new unless it is sent twice.
Settled ==
  /\ made' = made /\ twice \subseteq twice'
  /\ \A i \in 1 .. Agents : ~Begun(i)' => ~Begun(i)
  /\ \A i \in 1 .. Agents, x \in requests' : Creates(i, x) =>
       (\E c \in requests : Creates(i, c)) /\ (i \in twice' \/ x \in requests)

LEMMA SettledInstances ==
  ASSUME InstancesFit, Settled
  PROVE  InstancesFit'
<1>1. made' = made /\ TaskIds' = TaskIds /\ twice \subseteq twice'
  BY DEF Settled, TaskIds
<1> SUFFICES ASSUME NEW i \in 1 .. Agents
             PROVE  /\ ~Begun(i)' => (\A c \in requests' : ~Creates(i, c)) /\ (\A t \in TaskIds : made[t].by # i)
                    /\ i \notin twice' =>
                         /\ \A c, d \in requests' : Creates(i, c) /\ Creates(i, d) => c = d
                         /\ \A c \in requests' : Creates(i, c) => c.via = "socket"
                         /\ \A c \in requests' : Creates(i, c) /\ c.state = "sent" => \A t \in TaskIds : made[t].by # i
                         /\ \A t, u \in TaskIds : made[t].by = i /\ made[u].by = i => t = u
  BY <1>1 DEF InstancesFit, Creates
<1>2. ~Begun(i)' => ~Begun(i)
  BY DEF Settled
<1>3. \A x \in requests' : Creates(i, x) => (\E c \in requests : Creates(i, c)) /\ (i \in twice' \/ x \in requests)
  BY DEF Settled
<1>4. ~Begun(i)' => (\A c \in requests' : ~Creates(i, c)) /\ (\A t \in TaskIds : made[t].by # i)
  BY <1>2, <1>3 DEF InstancesFit
<1>5. i \notin twice' =>
         /\ \A c, d \in requests' : Creates(i, c) /\ Creates(i, d) => c = d
         /\ \A c \in requests' : Creates(i, c) => c.via = "socket"
         /\ \A c \in requests' : Creates(i, c) /\ c.state = "sent" => \A t \in TaskIds : made[t].by # i
         /\ \A t, u \in TaskIds : made[t].by = i /\ made[u].by = i => t = u
  <2> SUFFICES ASSUME i \notin twice'
               PROVE  /\ \A c, d \in requests' : Creates(i, c) /\ Creates(i, d) => c = d
                      /\ \A c \in requests' : Creates(i, c) => c.via = "socket"
                      /\ \A c \in requests' : Creates(i, c) /\ c.state = "sent" => \A t \in TaskIds : made[t].by # i
                      /\ \A t, u \in TaskIds : made[t].by = i /\ made[u].by = i => t = u
    OBVIOUS
  <2>1. i \notin twice
    BY <1>1
  <2>2. \A x \in requests' : Creates(i, x) => x \in requests
    BY <1>3
  <2> QED
    BY <2>1, <2>2 DEF InstancesFit
<1> QED
  BY <1>4, <1>5

\* What the command line and the panel say is left as it is.
LEMMA SaidStays ==
  ASSUME FanoutTypes, ProgressFits, ReportFits, made' = made, unheard' = unheard
  PROVE  /\ progress' = progress => ProgressFits'
         /\ report' = report => ReportFits'
<1>1. TaskIds' = TaskIds /\ \A t, k : Ending(t, k)' <=> Ending(t, k)
  BY DEF TaskIds, Ending
<1>2. progress' = progress => ProgressFits'
  <2> SUFFICES ASSUME progress' = progress, NEW t \in DOMAIN progress
               PROVE  /\ progress[t].failed => made[t].failed
                      /\ ~made[t].failed => /\ progress[t].current > 2 => progress[t].current <= made[t].stage
                                            /\ made[t].status = "active" => Ending(t, 1)'
    BY DEF ProgressFits
  <2> QED
    BY <1>1 DEF ProgressFits
<1>3. report' = report => ReportFits'
  BY <1>1 DEF ReportFits
<1> QED
  BY <1>2, <1>3

-----------------------------------------------------------------------------
(* The steps of the daemon.                                                  *)

LEMMA OtherStill ==
  ASSUME Alone, NEW c \in requests, c.state = "running" \/ ~Running(c.task)
  PROVE  \A d \in requests \ {c} : d.task = c.task => d.state # "running"
BY DEF Alone, Running

\* A request that asks for something of a row is answered, and the row stays.
LEMMA AnswerKeeps ==
  ASSUME FanoutInv, NEW c \in requests, c.state = "sent", c.kind # "create",
         NEW s \in {"ok", "failed"}, s = "ok" => c.kind = "ensure" /\ made[c.task].status = "active",
         requests' = (requests \ {c}) \cup Resolved(c, s, c.task),
         UNCHANGED <<made, unheard, waits, report, progress, twice>>
  PROVE  FanoutInv'
<1>1. FanoutTypes /\ RowsFit /\ RequestsFit /\ Alone /\ ProgressFits /\ InstancesFit /\ ReportFits
  BY DEF FanoutInv
<1>2. c \in Requests /\ RequestFits(c)
  BY <1>1, FanoutFacts DEF RequestsFit
<1>4. c.task \in TaskIds /\ RowFits(made[c.task])
  BY <1>1, <1>2 DEF RequestFits, RowsFit
<1> DEFINE X == Resolved(c, s, c.task)
<1>5. requests' = (requests \ {c}) \cup X
  OBVIOUS
<1>6. \A x \in X : /\ x \in Requests /\ x.kind = c.kind /\ x.who = c.who /\ x.task = c.task /\ x.state = s
                   /\ \A y \in X : x = y
  <2>1. c.task \in Nat
    BY <1>2 DEF Requests
  <2> QED
    BY <1>2, <2>1, ResolvedIs
<1> HIDE DEF X
<1>7. \A x \in X : RequestFits(x)'
  <2> SUFFICES ASSUME NEW x \in X PROVE RequestFits(x)'
    OBVIOUS
  <2>1. x.kind = c.kind /\ x.who = c.who /\ x.task = c.task /\ x.state = s
    BY <1>6
  <2>2. c.task \in TaskIds'
    BY <1>4 DEF TaskIds
  <2>3. c.kind = "ensure" => made[c.task].by = c.who /\ (s = "ok" => made[c.task].ran)
    BY <1>2, <1>4 DEF RowFits, RequestFits
  <2>4. c.kind = "retry" => made[c.task].failed /\ c.who = Panel
    BY <1>2 DEF RequestFits
  <2> QED
    BY <2>1, <2>2, <2>3, <2>4 DEF RequestFits
<1>8. \A d \in requests \ {c} : d.state = "sent" /\ Running(d.task) => Running(d.task)'
  BY <1>5 DEF Running
<1>9. \A x \in X, d \in requests' : x # d /\ x.task = d.task =>
          ~CreateOk(x) /\ ~CreateOk(d) /\ ~(x.state = "running" /\ d.state = "running")
  <2> SUFFICES ASSUME NEW x \in X, NEW d \in requests', x # d, x.task = d.task
               PROVE  ~CreateOk(x) /\ ~CreateOk(d) /\ x.state # "running"
    OBVIOUS
  <2>1. x.kind = c.kind /\ x.task = c.task /\ x.state = s
    BY <1>6
  <2>2. d \in requests \ {c}
    BY <1>5, <1>6
  <2>3. ~CreateOk(d)
    BY <1>1, <2>1, <2>2 DEF Alone, CreateOk
  <2> QED
    BY <2>1, <2>3 DEF CreateOk
<1>10. Swaps({c}, X)
  BY <1>5, <1>6, <1>7, <1>8, <1>9 DEF Swaps
<1>11. Settled
  <2>1. \A i \in 1 .. Agents : Begun(i)' <=> Begun(i)
    BY DEF Begun, Instance
  <2>2. \A i \in 1 .. Agents, x \in requests' : Creates(i, x) => x \in requests
    BY <1>5, <1>6 DEF Creates
  <2> QED
    BY <2>1, <2>2 DEF Settled
<1>12. RowsFit' /\ RequestsFit' /\ Alone' /\ NewsFits' /\ requests' \subseteq Requests /\ TaskIds' = TaskIds
  BY <1>10, SwapStep
<1>13. InstancesFit' /\ ProgressFits' /\ ReportFits'
  BY <1>1, <1>11, SettledInstances, SaidStays
<1>14. FanoutTypes'
  BY <1>1, <1>12 DEF FanoutTypes
<1> QED
  BY <1>12, <1>13, <1>14 DEF FanoutInv

\* A row that starts again.
Anew(q) == [[q EXCEPT !.status = "creating"] EXCEPT !.stage = 1]

LEMMA StartsAgain ==
  ASSUME NEW q \in Rows, NEW r, r = Anew(q)
  PROVE  /\ r \in Rows /\ r.by = q.by /\ r.status = "creating" /\ r.stage = 1
         /\ RowFits(r) /\ (q.ran => r.ran) /\ (q.failed <=> r.failed)
<1>1. Active \in Nat /\ Active > 2
  BY FanoutAssumption
<1>2. r \in Rows
  <2>1. PICK p \in Rows : p = [q EXCEPT !.status = "creating"]
    BY DEF Rows
  <2>2. 1 \in 1 .. Active
    BY <1>1
  <2>3. r = [p EXCEPT !.stage = 1]
    BY <2>1 DEF Anew
  <2> QED
    BY <2>2, <2>3 DEF Rows
<1>3. r.by = q.by /\ r.status = "creating" /\ r.stage = 1
  BY <1>1 DEF Rows, Anew
<1>4. r.ran = q.ran /\ r.failed = q.failed
  BY DEF Rows, Anew
<1>5. RowFits(r)
  BY <1>1, <1>3 DEF RowFits
<1> QED
  BY <1>2, <1>3, <1>4, <1>5

\* A request that begins to run.
LEMMA RunsIs ==
  ASSUME NEW c \in Requests, NEW x, x = [c EXCEPT !.state = "running"]
  PROVE  x \in Requests /\ x.kind = c.kind /\ x.who = c.who /\ x.task = c.task /\ x.state = "running"
BY DEF Requests

LEMMA EnsuresTaskKeeps ==
  ASSUME FanoutInv, NEW c \in requests, EnsuresTask(c)
  PROVE  FanoutInv'
<1>1. FanoutTypes /\ RowsFit /\ RequestsFit /\ Alone
  BY DEF FanoutInv
<1>2. c \in Requests /\ RequestFits(c) /\ \A u \in TaskIds : made[u] \in Rows
  BY <1>1, FanoutFacts DEF RequestsFit
<1>3. /\ c.kind = "ensure" /\ c.state = "sent" /\ ~Running(c.task)
      /\ UNCHANGED <<unheard, waits, report, progress, twice>>
  BY DEF EnsuresTask, client
<1>4. c.task \in TaskIds /\ made[c.task] \in Rows
  BY <1>1, <1>2, <1>3 DEF RequestFits, RowsFit
<1>5. \A d \in requests \ {c} : d.task = c.task => d.state # "running"
  BY <1>1, <1>3, OtherStill
<1>6. ASSUME NEW state \in {"ok", "failed"}, state = "ok" => made[c.task].status = "active",
              requests' = (requests \ {c}) \cup Resolved(c, state, c.task), made' = made
      PROVE  FanoutInv'
  BY <1>3, <1>6, AnswerKeeps
<1>7. CASE made[c.task].status # "active" /\ Replace(c, [c EXCEPT !.state = "running"])
           /\ made' = [made EXCEPT ![c.task].status = "creating", ![c.task].stage = 1]
  <2>1. PICK x : x = [c EXCEPT !.state = "running"]
    OBVIOUS
  <2>2. x \in Requests /\ x.kind = c.kind /\ x.who = c.who /\ x.task = c.task /\ x.state = "running"
    BY <1>2, <2>1, RunsIs
  <2>3. PICK r : r = Anew(made[c.task])
    OBVIOUS
  <2>4. /\ r \in Rows /\ r.by = made[c.task].by /\ r.status = "creating" /\ r.stage = 1 /\ RowFits(r)
        /\ (made[c.task].ran => r.ran) /\ (made[c.task].failed <=> r.failed)
    BY <1>4, <2>3, StartsAgain
  <2>5. made' = [made EXCEPT ![c.task] = r] /\ requests' = (requests \ {c}) \cup {x}
    BY <1>7, <2>1, <2>3 DEF Replace, Anew
  <2>6. ~r.failed => made[c.task].stage <= r.stage
    BY <1>2, <1>3, <1>7, <2>4 DEF RequestFits
  <2>7. Changes(c.task, c, r, {x})
    BY <1>3, <1>4, <1>5, <2>2, <2>4, <2>5, <2>6 DEF Changes
  <2>8. Tells(c.task, r)
    BY <1>3, <2>4 DEF Tells
  <2> QED
    BY <2>7, <2>8, RowStep
<1>8. CASE \E state \in {"ok", "failed"} :
                /\ state = "ok" => made[c.task].status = "active"
                /\ requests' = (requests \ {c}) \cup Resolved(c, state, c.task) /\ made' = made
  BY <1>6, <1>8
<1> QED
  BY <1>7, <1>8 DEF EnsuresTask

LEMMA RetriesKeeps ==
  ASSUME FanoutInv, NEW c \in requests, Retries(c)
  PROVE  FanoutInv'
<1>1. FanoutTypes /\ RowsFit /\ RequestsFit /\ Alone
  BY DEF FanoutInv
<1>2. c \in Requests /\ RequestFits(c) /\ \A u \in TaskIds : made[u] \in Rows
  BY <1>1, FanoutFacts DEF RequestsFit
<1>3. /\ c.kind = "retry" /\ c.state = "sent" /\ ~Running(c.task)
      /\ UNCHANGED <<waits, report, progress, twice>>
  BY DEF Retries, client
<1>4. c.task \in TaskIds /\ made[c.task] \in Rows /\ made[c.task].failed
  BY <1>1, <1>2, <1>3 DEF RequestFits, RowsFit
<1>5. \A d \in requests \ {c} : d.task = c.task => d.state # "running"
  BY <1>1, <1>3, OtherStill
<1>6. CASE made[c.task].status # "error"
  <2>1. requests' = (requests \ {c}) \cup Resolved(c, "failed", c.task) /\ made' = made /\ unheard' = unheard
    BY <1>6 DEF Retries
  <2> QED
    BY <1>3, <1>6, <2>1, AnswerKeeps
<1>7. CASE made[c.task].status = "error"
  <2>1. PICK x : x = [c EXCEPT !.state = "running"]
    OBVIOUS
  <2>2. x \in Requests /\ x.kind = c.kind /\ x.who = c.who /\ x.task = c.task /\ x.state = "running"
    BY <1>2, <2>1, RunsIs
  <2>3. PICK r : r = Anew(made[c.task])
    OBVIOUS
  <2>4. /\ r \in Rows /\ r.by = made[c.task].by /\ r.status = "creating" /\ r.stage = 1 /\ RowFits(r)
        /\ (made[c.task].ran => r.ran) /\ (made[c.task].failed <=> r.failed)
    BY <1>4, <2>3, StartsAgain
  <2>5. /\ made' = [made EXCEPT ![c.task] = r] /\ requests' = (requests \ {c}) \cup {x}
        /\ unheard' = News(c.task, 1)
    BY <1>7, <2>1, <2>3 DEF Retries, Replace, Anew
  <2>6. Changes(c.task, c, r, {x})
    BY <1>3, <1>4, <1>5, <2>2, <2>4, <2>5 DEF Changes
  <2>7. Tells(c.task, r)
    <3>1. 1 \in 0 .. Active
      BY FanoutAssumption
    <3> QED
      BY <1>4, <2>4, <2>5, <3>1 DEF Tells
  <2> QED
    BY <2>6, <2>7, RowStep
<1> QED
  BY <1>6, <1>7

LEMMA AdvancesKeeps ==
  ASSUME FanoutInv, NEW c \in requests, Advances(c)
  PROVE  FanoutInv'
<1>1. FanoutTypes /\ RowsFit /\ RequestsFit /\ Alone
  BY DEF FanoutInv
<1>2. c \in Requests /\ RequestFits(c) /\ (\A u \in TaskIds : made[u] \in Rows) /\ Active \in Nat /\ Active > 2
  BY <1>1, FanoutFacts DEF RequestsFit
<1>3. c.state = "running" /\ UNCHANGED <<waits, report, progress, twice>>
  BY DEF Advances, client
<1>4. c.kind # "create" /\ c.task \in TaskIds /\ made[c.task].status = "creating"
  BY <1>2, <1>3 DEF RequestFits
<1>5. PICK q \in Rows : q = made[c.task]
  BY <1>2, <1>4
<1>6. q.stage \in 1 .. Active /\ q.stage < Active /\ q.status = "creating"
  BY <1>1, <1>4, <1>5 DEF RowsFit, RowFits, Rows
<1>7. \A d \in requests \ {c} : d.task = c.task => d.state # "running"
  BY <1>1, <1>3, OtherStill
<1>8. unheard' = News(c.task, q.stage + 1) /\ q.stage + 1 \in 0 .. Active /\ q.stage + 1 # Error
  BY <1>2, <1>5, <1>6 DEF Advances, Error
<1>9. c.kind = "retry" => q.failed
  BY <1>2, <1>5 DEF RequestFits
<1>10. CASE q.stage + 1 < Active
  <2>1. PICK r : r = [q EXCEPT !.stage = q.stage + 1]
    OBVIOUS
  <2>2. r \in Rows
    <3>1. q.stage + 1 \in 1 .. Active
      BY <1>2, <1>6
    <3> QED
      BY <2>1, <3>1 DEF Rows
  <2>3. r.by = q.by /\ r.status = "creating" /\ r.stage = q.stage + 1
    BY <1>6, <2>1 DEF Rows
  <2>4. r.ran = q.ran /\ r.failed = q.failed
    BY <2>1 DEF Rows
  <2>5. RowFits(r) /\ q.stage <= r.stage
    BY <1>6, <1>10, <2>3 DEF RowFits
  <2>6. made' = [made EXCEPT ![c.task] = r] /\ requests' = (requests \ {c}) \cup {c}
    BY <1>5, <1>10, <2>1 DEF Advances
  <2>7. Changes(c.task, c, r, {c})
    BY <1>2, <1>3, <1>4, <1>5, <1>7, <1>9, <2>2, <2>3, <2>4, <2>5, <2>6 DEF Changes
  <2>8. Tells(c.task, r)
    BY <1>8, <2>3 DEF Tells
  <2> QED
    BY <2>7, <2>8, RowStep
<1>11. CASE ~(q.stage + 1 < Active)
  <2> DEFINE X == Resolved(c, "ok", c.task)
  <2>1. PICK r : r = [q EXCEPT !.stage = Active, !.status = "active", !.ran = TRUE]
    OBVIOUS
  <2>2. r \in Rows
    <3>1. Active \in 1 .. Active
      BY <1>2
    <3> QED
      BY <2>1, <3>1 DEF Rows
  <2>3. r.by = q.by /\ r.status = "active" /\ r.stage = Active
    BY <2>1 DEF Rows
  <2>4. r.ran /\ r.failed = q.failed
    BY <2>1 DEF Rows
  <2>5. RowFits(r) /\ q.stage <= r.stage /\ q.stage + 1 = Active
    BY <1>2, <1>6, <1>11, <2>3, <2>4 DEF RowFits
  <2>6. made' = [made EXCEPT ![c.task] = r] /\ requests' = (requests \ {c}) \cup X
    BY <1>5, <1>11, <2>1 DEF Advances
  <2>7. \A x \in X : /\ x \in Requests /\ x.kind = c.kind /\ x.who = c.who /\ x.task = c.task /\ x.state = "ok"
                     /\ \A y \in X : x = y
    <3>1. c.task \in Nat
      BY <1>2 DEF Requests
    <3> QED
      BY <1>2, <3>1, ResolvedIs
  <2> HIDE DEF X
  <2>8. Changes(c.task, c, r, X)
    BY <1>3, <1>4, <1>5, <1>7, <1>9, <2>2, <2>3, <2>4, <2>5, <2>6, <2>7 DEF Changes
  <2>9. Tells(c.task, r)
    BY <1>8, <2>3, <2>5 DEF Tells
  <2> QED
    BY <2>8, <2>9, RowStep
<1> QED
  BY <1>10, <1>11

LEMMA FailsKeeps ==
  ASSUME FanoutInv, NEW c \in requests, Fails(c)
  PROVE  FanoutInv'
<1>1. FanoutTypes /\ RowsFit /\ RequestsFit /\ Alone
  BY DEF FanoutInv
<1>2. c \in Requests /\ RequestFits(c) /\ (\A u \in TaskIds : made[u] \in Rows) /\ Active \in Nat
  BY <1>1, FanoutFacts DEF RequestsFit
<1>3. c.state = "running" /\ unheard' = News(c.task, Error) /\ UNCHANGED <<waits, report, progress, twice>>
  BY DEF Fails, client
<1>4. c.kind # "create" /\ c.task \in TaskIds
  BY <1>2, <1>3 DEF RequestFits
<1>5. PICK q \in Rows : q = made[c.task]
  BY <1>2, <1>4
<1>6. \A d \in requests \ {c} : d.task = c.task => d.state # "running"
  BY <1>1, <1>3, OtherStill
<1> DEFINE X == Resolved(c, "failed", c.task)
<1>7. PICK r : r = [q EXCEPT !.status = "error", !.failed = TRUE]
  OBVIOUS
<1>8. r \in Rows
  BY <1>7 DEF Rows
<1>9. r.by = q.by /\ r.status = "error"
  BY <1>7 DEF Rows
<1>10. r.failed /\ r.ran = q.ran
  BY <1>7 DEF Rows
<1>11. RowFits(r)
  BY <1>9, <1>10 DEF RowFits
<1>12. made' = [made EXCEPT ![c.task] = r] /\ requests' = (requests \ {c}) \cup X
  BY <1>5, <1>7 DEF Fails
<1>13. \A x \in X : /\ x \in Requests /\ x.kind = c.kind /\ x.who = c.who /\ x.task = c.task /\ x.state = "failed"
                    /\ \A y \in X : x = y
  <2>1. c.task \in Nat
    BY <1>2 DEF Requests
  <2> QED
    BY <1>2, <2>1, ResolvedIs
<1> HIDE DEF X
<1>14. Changes(c.task, c, r, X)
  BY <1>3, <1>4, <1>5, <1>6, <1>8, <1>9, <1>10, <1>11, <1>12, <1>13 DEF Changes
<1>15. Tells(c.task, r)
  <2>1. Error \in 0 .. Active
    BY <1>2 DEF Error
  <2> QED
    BY <1>3, <1>9, <1>10, <2>1 DEF Tells
<1> QED
  BY <1>14, <1>15, RowStep

LEMMA CutsKeeps ==
  ASSUME FanoutInv, NEW c \in requests, Cuts(c)
  PROVE  FanoutInv'
<1>1. FanoutTypes /\ RequestsFit /\ Alone /\ ProgressFits /\ InstancesFit /\ ReportFits
  BY DEF FanoutInv
<1>2. c \in Requests /\ RequestFits(c)
  BY <1>1, FanoutFacts DEF RequestsFit
<1>3. /\ c.state \in {"sent", "running"}
      /\ UNCHANGED <<made, unheard, waits, report, progress>>
  BY DEF Cuts, client
<1>4. PICK deaf : deaf = [c EXCEPT !.heard = FALSE]
  OBVIOUS
<1>5. PICK again : again = [c EXCEPT !.state = "sent", !.via = "tcp"]
  OBVIOUS
<1>6. PICK end : end = [c EXCEPT !.state = "failed"]
  OBVIOUS
<1>7. /\ deaf \in Requests /\ deaf.kind = c.kind /\ deaf.who = c.who /\ deaf.task = c.task /\ deaf.state = c.state
      /\ again \in Requests /\ again.kind = c.kind /\ again.who = c.who /\ again.task = c.task /\ again.state = "sent"
      /\ end \in Requests /\ end.kind = c.kind /\ end.who = c.who /\ end.task = c.task /\ end.state = "failed"
  <2>1. deaf \in Requests /\ deaf.kind = c.kind /\ deaf.who = c.who /\ deaf.task = c.task /\ deaf.state = c.state
    BY <1>2, <1>4 DEF Requests
  <2>2. again \in Requests /\ again.kind = c.kind /\ again.who = c.who /\ again.task = c.task /\ again.state = "sent"
    BY <1>2, <1>5 DEF Requests
  <2>3. end \in Requests /\ end.kind = c.kind /\ end.who = c.who /\ end.task = c.task /\ end.state = "failed"
    BY <1>2, <1>6 DEF Requests
  <2> QED
    BY <2>1, <2>2, <2>3
<1>8. PICK X : /\ requests' = (requests \ {c}) \cup X
               /\ X \subseteq {deaf, again, end} /\ (c.state = "running" => deaf \in X)
               /\ end \in X => c.via # "socket" /\ again \notin X
  <2>1. PICK arrived \in BOOLEAN :
           /\ c.state = "running" => arrived
           /\ requests' = (requests \ {c}) \cup (IF arrived THEN {deaf} ELSE {}) \cup {IF c.via = "socket" THEN again ELSE end}
    BY <1>4, <1>5, <1>6 DEF Cuts
  <2>2. PICK X : X = (IF arrived THEN {deaf} ELSE {}) \cup {IF c.via = "socket" THEN again ELSE end}
    OBVIOUS
  <2>3. end # again /\ end # deaf
    BY <1>3, <1>7
  <2>4. requests' = (requests \ {c}) \cup X
    BY <2>1, <2>2
  <2>5. X \subseteq {deaf, again, end} /\ (c.state = "running" => deaf \in X)
    BY <2>1, <2>2
  <2>6. end \in X => c.via # "socket" /\ again \notin X
    <3>1. CASE c.via = "socket"
      BY <2>2, <2>3, <3>1
    <3>2. CASE c.via # "socket"
      <4>1. deaf.via = c.via /\ again.via = "tcp" /\ end.via = c.via
        BY <1>2, <1>4, <1>5, <1>6 DEF Requests
      <4>2. deaf.heard = FALSE
        BY <1>2, <1>4 DEF Requests
      <4>3. again.heard = c.heard /\ c.heard
        BY <1>2, <1>5 DEF Requests, Cuts
      <4>4. again # deaf
        BY <4>2, <4>3
      <4> QED
        BY <2>2, <2>3, <3>2, <4>4
    <3> QED
      BY <3>1, <3>2
  <2> QED
    BY <2>4, <2>5, <2>6
<1>9. \A x \in X : /\ x \in Requests /\ x.kind = c.kind /\ x.who = c.who /\ x.task = c.task
                   /\ x.state \in {c.state, "sent", "failed"}
                   /\ x.state = "running" => c.state = "running" /\ x = deaf
  BY <1>7, <1>8
<1>10. \A t : Running(t) => Running(t)'
  <2> SUFFICES ASSUME NEW t, Running(t) PROVE Running(t)'
    OBVIOUS
  <2>1. PICK d \in requests : d.task = t /\ d.state = "running"
    BY DEF Running
  <2>2. CASE d = c
    BY <1>7, <1>8, <2>1, <2>2 DEF Running
  <2>3. CASE d # c
    BY <1>8, <2>1, <2>3 DEF Running
  <2> QED
    BY <2>2, <2>3
<1>11. \A x \in X : RequestFits(x)'
  <2> SUFFICES ASSUME NEW x \in X PROVE RequestFits(x)'
    OBVIOUS
  <2>1. /\ x.kind = c.kind /\ x.who = c.who /\ x.task = c.task /\ x.state \in {"running", "sent", "failed"}
        /\ x.state = "running" => c.state = "running"
    BY <1>3, <1>9
  <2>2. c.kind = "create" => c.task = 0 /\ c.state # "running"
    BY <1>2, <1>3 DEF RequestFits
  <2>3. c.kind # "create" => c.task \in TaskIds'
    BY <1>2, <1>3 DEF RequestFits, TaskIds
  <2>4. c.kind = "ensure" => made[c.task].by = c.who
    BY <1>2 DEF RequestFits
  <2>5. c.kind = "retry" => made[c.task].failed /\ c.who = Panel
    BY <1>2 DEF RequestFits
  <2>6. c.state = "running" => made[c.task].status = "creating"
    BY <1>2 DEF RequestFits
  <2>7. x.kind = "ensure" /\ x.state = "sent" /\ ~made[c.task].failed =>
          made[c.task].stage = 1 \/ Running(c.task)' \/ made[c.task].status = "active"
    <3>1. CASE c.state = "running"
      <4>1. Running(c.task)
        BY <3>1 DEF Running
      <4> QED
        BY <1>10, <4>1
    <3>2. CASE c.state = "sent"
      BY <1>2, <1>10, <2>1, <3>2 DEF RequestFits
    <3> QED
      BY <1>3, <3>1, <3>2
  <2> QED
    BY <1>3, <2>1, <2>2, <2>3, <2>4, <2>5, <2>6, <2>7 DEF RequestFits
<1>12. \A x \in X, d \in requests' : x # d /\ x.task = d.task =>
          ~CreateOk(x) /\ ~CreateOk(d) /\ ~(x.state = "running" /\ d.state = "running")
  <2> SUFFICES ASSUME NEW x \in X, NEW d \in requests', x # d, x.task = d.task
               PROVE  ~CreateOk(x) /\ ~CreateOk(d) /\ ~(x.state = "running" /\ d.state = "running")
    OBVIOUS
  <2>1. x.kind = c.kind /\ x.task = c.task /\ x.state # "ok" /\ (x.state = "running" => c.state = "running" /\ x = deaf)
    BY <1>3, <1>9
  <2>2. CASE d \in X
    <3>1. d.state # "ok" /\ (d.state = "running" => d = deaf)
      BY <1>3, <1>9, <2>2
    <3> QED
      BY <2>1, <3>1 DEF CreateOk
  <2>3. CASE d \in requests \ {c}
    BY <1>1, <2>1, <2>3 DEF Alone, CreateOk
  <2> QED
    BY <1>8, <2>2, <2>3
<1>13. Swaps({c}, X)
  BY <1>3, <1>8, <1>9, <1>10, <1>11, <1>12 DEF Swaps
<1>14. Settled
  <2>1. \A i \in 1 .. Agents : Begun(i)' <=> Begun(i)
    BY <1>3 DEF Begun, Instance
  <2>2. twice \subseteq twice'
    BY DEF Cuts
  <2> SUFFICES ASSUME NEW i \in 1 .. Agents, NEW x \in requests', Creates(i, x)
               PROVE  (\E e \in requests : Creates(i, e)) /\ (i \in twice' \/ x \in requests)
    BY <1>3, <2>1, <2>2 DEF Settled
  <2>3. CASE x \in requests
    BY <2>3
  <2>4. CASE x \in X
    <3>1. Creates(i, c)
      BY <1>9, <2>4 DEF Creates
    <3>2. i \notin twice => c.via = "socket"
      BY <1>1, <3>1 DEF InstancesFit
    <3>3. i \in twice'
      BY <2>2, <3>1, <3>2 DEF Cuts, Creates
    <3> QED
      BY <3>1, <3>3
  <2> QED
    BY <1>8, <2>3, <2>4
<1>15. RowsFit' /\ RequestsFit' /\ Alone' /\ NewsFits' /\ requests' \subseteq Requests /\ TaskIds' = TaskIds
  BY <1>13, SwapStep
<1>16. InstancesFit' /\ ProgressFits' /\ ReportFits'
  BY <1>1, <1>3, <1>14, SettledInstances, SaidStays
<1>17. FanoutTypes'
  BY <1>1, <1>3, <1>15 DEF FanoutTypes
<1> QED
  BY <1>15, <1>16, <1>17 DEF FanoutInv

LEMMA DaemonStopsKeeps ==
  ASSUME FanoutInv, DaemonStops
  PROVE  FanoutInv'
<1>1. FanoutTypes /\ RequestsFit /\ Alone /\ ProgressFits /\ InstancesFit /\ ReportFits
  BY DEF FanoutInv
<1>2. \A c \in requests : c \in Requests /\ RequestFits(c)
  BY <1>1, FanoutFacts DEF RequestsFit
<1>3. UNCHANGED <<made, unheard, waits, report, progress, twice>>
  BY DEF DaemonStops, client
<1> DEFINE C == {d \in requests : d.state \in {"sent", "running"}}
           X == UNION {Resolved(c, "failed", c.task) : c \in C}
<1>4. requests' = (requests \ C) \cup X
  <2>1. requests' = {c \in requests : c.state \notin {"sent", "running"}} \cup X
    BY DEF DaemonStops
  <2>2. {c \in requests : c.state \notin {"sent", "running"}} = requests \ C
    OBVIOUS
  <2> QED
    BY <2>1, <2>2
<1>5. \A x \in X : \E c \in C : x \in Resolved(c, "failed", c.task)
  OBVIOUS
<1>6. \A x \in X : \E c \in C : /\ x \in Requests /\ x.kind = c.kind /\ x.who = c.who /\ x.task = c.task
                                /\ x.via = c.via /\ x.state = "failed" /\ \A y \in Resolved(c, "failed", c.task) : x = y
  <2> SUFFICES ASSUME NEW x \in X
               PROVE  \E c \in C : /\ x \in Requests /\ x.kind = c.kind /\ x.who = c.who /\ x.task = c.task
                                   /\ x.via = c.via /\ x.state = "failed" /\ \A y \in Resolved(c, "failed", c.task) : x = y
    OBVIOUS
  <2>1. PICK c \in C : x \in Resolved(c, "failed", c.task)
    BY <1>5
  <2>2. c \in Requests /\ c.task \in Nat
    BY <1>2 DEF Requests
  <2> QED
    BY <2>1, <2>2, ResolvedIs
<1>7. /\ C \subseteq requests /\ \A c \in C : c.state \in {"sent", "running"}
      /\ \A d \in requests \ C : d.state # "sent" /\ d.state # "running"
  OBVIOUS
<1>8. \A i \in 1 .. Agents, x, y \in X : Creates(i, x) /\ Creates(i, y) /\ i \notin twice => x = y
  <2> SUFFICES ASSUME NEW i \in 1 .. Agents, NEW x \in X, NEW y \in X, Creates(i, x), Creates(i, y), i \notin twice
               PROVE  x = y
    OBVIOUS
  <2>1. PICK c \in C : x \in Resolved(c, "failed", c.task)
    BY <1>5
  <2>2. PICK d \in C : y \in Resolved(d, "failed", d.task)
    BY <1>5
  <2>3. c \in Requests /\ c.task \in Nat /\ d \in Requests /\ d.task \in Nat
    BY <1>2 DEF Requests
  <2>4. Creates(i, c) /\ Creates(i, d)
    BY <2>1, <2>2, <2>3, ResolvedIs DEF Creates
  <2>5. c = d
    BY <1>1, <1>7, <2>4 DEF InstancesFit
  <2> QED
    BY <2>1, <2>2, <2>3, <2>5, ResolvedIs
<1> HIDE DEF C, X
<1>9. \A x \in X : RequestFits(x)'
  <2> SUFFICES ASSUME NEW x \in X PROVE RequestFits(x)'
    OBVIOUS
  <2>1. PICK c \in C : x.kind = c.kind /\ x.who = c.who /\ x.task = c.task /\ x.state = "failed"
    BY <1>6
  <2>2. RequestFits(c) /\ c.state \in {"sent", "running"}
    BY <1>2, <1>7
  <2>3. c.kind = "create" => c.task = 0
    BY <2>2 DEF RequestFits
  <2>4. c.kind # "create" => c.task \in TaskIds'
    BY <1>3, <2>2 DEF RequestFits, TaskIds
  <2>5. c.kind = "ensure" => made[c.task].by = c.who
    BY <2>2 DEF RequestFits
  <2>6. c.kind = "retry" => made[c.task].failed /\ c.who = Panel
    BY <2>2 DEF RequestFits
  <2> QED
    BY <1>3, <2>1, <2>3, <2>4, <2>5, <2>6 DEF RequestFits
<1>10. \A x \in X, d \in requests' : x # d /\ x.task = d.task =>
          ~CreateOk(x) /\ ~CreateOk(d) /\ ~(x.state = "running" /\ d.state = "running")
  <2> SUFFICES ASSUME NEW x \in X, NEW d \in requests', x # d, x.task = d.task
               PROVE  x.state = "failed" /\ ~CreateOk(d)
    BY DEF CreateOk
  <2>1. PICK c \in C : x.task = c.task /\ x.state = "failed"
    BY <1>6
  <2>2. CASE d \in X
    <3>1. d.state = "failed"
      BY <1>6, <2>2
    <3> QED
      BY <2>1, <3>1 DEF CreateOk
  <2>3. CASE d \in requests \ C
    <3>1. c # d
      BY <2>3
    <3> QED
      BY <1>1, <1>7, <2>1, <2>3, <3>1 DEF Alone, CreateOk
  <2> QED
    BY <1>4, <2>2, <2>3
<1>11. Swaps(C, X)
  <2>1. \A x \in X : x \in Requests
    BY <1>6
  <2> QED
    BY <1>3, <1>4, <1>7, <1>9, <1>10, <2>1 DEF Swaps
<1>12. InstancesFit'
  <2>1. TaskIds' = TaskIds /\ \A i \in 1 .. Agents : Begun(i)' <=> Begun(i)
    BY <1>3 DEF TaskIds, Begun, Instance
  <2>2. \A i, x : Creates(i, x)' <=> Creates(i, x)
    BY DEF Creates
  <2>3. \A i \in 1 .. Agents, x \in X : Creates(i, x) => \E c \in C : Creates(i, c) /\ x.via = c.via /\ x.state = "failed"
    BY <1>6 DEF Creates
  <2> SUFFICES ASSUME NEW i \in 1 .. Agents
               PROVE  /\ ~Begun(i) => \A c \in requests' : ~Creates(i, c)
                      /\ i \notin twice =>
                           /\ \A c, d \in requests' : Creates(i, c) /\ Creates(i, d) => c = d
                           /\ \A c \in requests' : Creates(i, c) => c.via = "socket" /\ c.state # "sent"
    BY <1>1, <1>3, <2>1, <2>2 DEF InstancesFit
  <2>4. ~Begun(i) => \A c \in requests' : ~Creates(i, c)
    BY <1>1, <1>4, <1>7, <2>3 DEF InstancesFit
  <2>5. i \notin twice => \A c \in requests' : Creates(i, c) => c.via = "socket" /\ c.state # "sent"
    <3> SUFFICES ASSUME i \notin twice, NEW c \in requests', Creates(i, c) PROVE c.via = "socket" /\ c.state # "sent"
      OBVIOUS
    <3>1. CASE c \in requests \ C
      BY <1>1, <1>7, <3>1 DEF InstancesFit
    <3>2. CASE c \in X
      <4>1. PICK d \in C : Creates(i, d) /\ c.via = d.via /\ c.state = "failed"
        BY <2>3, <3>2
      <4> QED
        BY <1>1, <1>7, <4>1 DEF InstancesFit
    <3> QED
      BY <1>4, <3>1, <3>2
  <2>6. i \notin twice => \A c, d \in requests' : Creates(i, c) /\ Creates(i, d) => c = d
    <3> SUFFICES ASSUME i \notin twice, NEW c \in requests', NEW d \in requests', Creates(i, c), Creates(i, d)
                 PROVE  c = d
      OBVIOUS
    <3>1. \A e, f \in requests : Creates(i, e) /\ Creates(i, f) => e = f
      BY <1>1 DEF InstancesFit
    <3>2. CASE c \in X /\ d \in X
      BY <1>8, <3>2
    <3>3. CASE c \in requests \ C /\ d \in requests \ C
      BY <3>1, <3>3
    <3>4. CASE c \in X /\ d \in requests \ C
      BY <1>7, <2>3, <3>1, <3>4
    <3>5. CASE d \in X /\ c \in requests \ C
      BY <1>7, <2>3, <3>1, <3>5
    <3> QED
      BY <1>4, <3>2, <3>3, <3>4, <3>5
  <2> QED
    BY <2>4, <2>5, <2>6
<1>13. RowsFit' /\ RequestsFit' /\ Alone' /\ NewsFits' /\ requests' \subseteq Requests /\ TaskIds' = TaskIds
  BY <1>11, SwapStep
<1>14. ProgressFits' /\ ReportFits'
  BY <1>1, <1>3, SaidStays
<1>15. FanoutTypes'
  BY <1>1, <1>3, <1>13 DEF FanoutTypes
<1> QED
  BY <1>12, <1>13, <1>14, <1>15 DEF FanoutInv

LEMMA IntentsKeeps ==
  ASSUME FanoutInv, NEW c \in requests, Intents(c)
  PROVE  FanoutInv'
<1>1. FanoutTypes /\ RowsFit /\ RequestsFit /\ Alone /\ NewsFits /\ ProgressFits /\ InstancesFit /\ ReportFits
  BY DEF FanoutInv
<1>2. /\ \A d \in requests : d \in Requests /\ RequestFits(d)
      /\ Active \in Nat /\ Active > 2 /\ Agents \in Nat
  BY <1>1, FanoutFacts DEF RequestsFit
<1>3. /\ c.kind = "create" /\ c.state = "sent" /\ c.who \in 0 .. Agents
      /\ UNCHANGED <<waits, report, progress, twice>>
  BY <1>2 DEF Intents, client, Requests
<1>4. PICK r : r = [by |-> c.who, status |-> "creating", stage |-> 1, failed |-> FALSE, ran |-> FALSE]
  OBVIOUS
<1>5. r \in Rows /\ r.by = c.who /\ Untried(r) /\ RowFits(r) /\ r.status = "creating" /\ r.stage = 1
  <2>1. r \in Rows
    BY <1>2, <1>3, <1>4 DEF Rows
  <2> QED
    BY <1>2, <1>4, <2>1 DEF Untried, RowFits
<1>6. PICK n \in Nat : n = Len(made) + 1
  BY <1>1, FanoutFacts
<1>7. made \in Seq(Rows) /\ made' = Append(made, r)
  BY <1>1, <1>4 DEF FanoutTypes, Intents
<1>8. made' \in Seq(Rows) /\ Len(made') = n /\ made'[n] = r /\ \A u \in 1 .. Len(made) : made'[u] = made[u]
  BY <1>5, <1>6, <1>7, AppendProperties
<1>9. /\ TaskIds = 1 .. Len(made) /\ TaskIds' = TaskIds \cup {n} /\ n \notin TaskIds /\ n # 0
      /\ made'[n] = r /\ \A u \in TaskIds : made'[u] = made[u]
  <2>1. TaskIds = 1 .. Len(made) /\ TaskIds' = 1 .. n /\ Len(made) \in Nat
    BY <1>7, <1>8 DEF TaskIds
  <2> QED
    BY <1>6, <1>8, <2>1
<1> DEFINE X == Resolved(c, "ok", n)
<1>10. requests' = (requests \ {c}) \cup X
  BY <1>8 DEF Intents
<1>11. \A x \in X : /\ x \in Requests /\ x.kind = "create" /\ x.who = c.who /\ x.task = n /\ x.via = c.via
                    /\ x.state = "ok" /\ \A y \in X : x = y
  BY <1>2, <1>3, ResolvedIs
<1> HIDE DEF X
<1>12. /\ unheard' \in Seq(Newses) /\ Len(unheard') = Len(unheard) + 1 /\ Len(unheard) \in Nat
       /\ DOMAIN unheard = 1 .. Len(unheard) /\ DOMAIN unheard' = 1 .. Len(unheard) + 1
       /\ \A k \in 1 .. Len(unheard) : unheard'[k] = unheard[k]
       /\ unheard'[Len(unheard) + 1].task = n /\ unheard'[Len(unheard) + 1].what = 1
  <2>1. PICK e : e = [task |-> n, what |-> 1]
    OBVIOUS
  <2>2. e \in Newses /\ e.task = n /\ e.what = 1
    BY <1>2, <2>1 DEF Newses
  <2>3. unheard \in Seq(Newses) /\ unheard' = Append(unheard, e)
    BY <1>1, <1>8, <2>1 DEF FanoutTypes, Intents, News
  <2>4. /\ unheard' \in Seq(Newses) /\ Len(unheard') = Len(unheard) + 1
        /\ \A k \in 1 .. Len(unheard) : unheard'[k] = unheard[k]
        /\ unheard'[Len(unheard) + 1] = e
    BY <2>2, <2>3, AppendProperties
  <2> QED
    BY <2>2, <2>3, <2>4
<1>13. \A t, k : k \in Nat /\ k >= 1 /\ Ending(t, k) => Ending(t, k)'
  <2> SUFFICES ASSUME NEW t, NEW k \in Nat, k >= 1, Ending(t, k) PROVE Ending(t, k)'
    OBVIOUS
  <2>1. PICK m \in k .. Len(unheard) : unheard[m] = [task |-> t, what |-> Active]
    BY DEF Ending
  <2>2. m \in 1 .. Len(unheard) /\ m \in k .. Len(unheard')
    BY <1>12, <2>1
  <2> QED
    BY <1>12, <2>1, <2>2 DEF Ending
<1>14. RowsFit'
  BY <1>1, <1>5, <1>9 DEF RowsFit
<1>15. \A d \in requests \ {c} : RequestFits(d)'
  <2> SUFFICES ASSUME NEW d \in requests \ {c} PROVE RequestFits(d)'
    OBVIOUS
  <2>1. RequestFits(d)
    BY <1>2
  <2>2. Running(d.task) => Running(d.task)'
    BY <1>3, <1>10 DEF Running
  <2>3. CASE d.task \in TaskIds
    <3>1. made'[d.task] = made[d.task] /\ d.task \in TaskIds'
      BY <1>9, <2>3
    <3> QED
      BY <2>1, <2>2, <3>1 DEF RequestFits, Untried
  <2>4. CASE d.task \notin TaskIds
    <3>1. d.kind \in {"create", "ensure", "retry"}
      BY <1>2 DEF Requests
    <3>2. d.kind = "create" /\ d.state # "ok" /\ d.state # "running" /\ d.task = 0
      BY <2>1, <2>4, <3>1 DEF RequestFits
    <3> QED
      BY <3>2 DEF RequestFits
  <2> QED
    BY <2>3, <2>4
<1>16. RequestsFit'
  <2> SUFFICES ASSUME NEW x \in X PROVE RequestFits(x)'
    BY <1>10, <1>15 DEF RequestsFit
  <2>1. x.kind = "create" /\ x.who = c.who /\ x.task = n /\ x.state = "ok"
    BY <1>11
  <2> QED
    BY <1>5, <1>9, <2>1 DEF RequestFits
<1>17. Alone'
  <2>1. \A d \in requests : d.task # n
    <3> SUFFICES ASSUME NEW d \in requests PROVE d.task # n
      OBVIOUS
    <3>1. d.task \in TaskIds \/ d.task = 0
      BY <1>2 DEF RequestFits, Requests
    <3> QED
      BY <1>9, <3>1
  <2> SUFFICES ASSUME NEW d \in requests', NEW e \in requests', d # e, d.task = e.task
               PROVE  ~(d.kind = "create" /\ d.state = "ok") /\ ~(d.state = "running" /\ e.state = "running")
    BY DEF Alone
  <2>2. d \in requests /\ e \in requests
    BY <1>10, <1>11, <2>1
  <2> QED
    BY <1>1, <2>2 DEF Alone
<1>18. NewsFits'
  <2> SUFFICES ASSUME NEW k \in DOMAIN unheard' PROVE NewsFit(unheard[k].task, unheard[k].what, k)'
    BY DEF NewsFits
  <2>1. CASE k \in 1 .. Len(unheard)
    <3>1. PICK u : u = unheard[k].task
      OBVIOUS
    <3>2. PICK w : w = unheard[k].what
      OBVIOUS
    <3>3. NewsFit(u, w, k)
      BY <1>1, <1>12, <2>1, <3>1, <3>2 DEF NewsFits
    <3>4. unheard'[k] = unheard[k] /\ k \in Nat /\ k >= 1
      BY <1>12, <2>1
    <3>5. u \in TaskIds' /\ made'[u] = made[u] /\ (Ending(u, k) => Ending(u, k)')
      BY <1>9, <1>13, <3>3, <3>4 DEF NewsFit
    <3> QED
      BY <3>1, <3>2, <3>3, <3>4, <3>5 DEF NewsFit
  <2>2. CASE k \notin 1 .. Len(unheard)
    <3>1. unheard'[k].task = n /\ unheard'[k].what = 1
      BY <1>12, <2>2
    <3>2. r.status # "active"
      BY <1>5
    <3> QED
      BY <1>5, <1>9, <3>1, <3>2 DEF NewsFit, Error
  <2> QED
    BY <2>1, <2>2
<1>19. ProgressFits'
  <2> SUFFICES ASSUME NEW u \in DOMAIN progress
               PROVE  /\ progress[u].failed => made'[u].failed
                      /\ ~made'[u].failed => /\ progress[u].current > 2 => progress[u].current <= made'[u].stage
                                             /\ made'[u].status = "active" => Ending(u, 1)'
    BY <1>3 DEF ProgressFits
  <2>1. u \in TaskIds
    BY <1>1 DEF FanoutTypes
  <2>2. made'[u] = made[u] /\ (Ending(u, 1) => Ending(u, 1)')
    BY <1>9, <1>13, <2>1
  <2> QED
    BY <1>1, <2>2 DEF ProgressFits
<1>20. ReportFits'
  BY <1>1, <1>3, <1>9 DEF ReportFits
<1>21. InstancesFit'
  <2>1. \A i \in 1 .. Agents : Begun(i)' <=> Begun(i)
    BY <1>3 DEF Begun, Instance
  <2>2. \A i, x : Creates(i, x)' <=> Creates(i, x)
    BY DEF Creates
  <2> SUFFICES ASSUME NEW i \in 1 .. Agents
               PROVE  /\ ~Begun(i) => (\A d \in requests' : ~Creates(i, d)) /\ (\A t \in TaskIds' : made'[t].by # i)
                      /\ i \notin twice =>
                           /\ \A d, e \in requests' : Creates(i, d) /\ Creates(i, e) => d = e
                           /\ \A d \in requests' : Creates(i, d) => d.via = "socket"
                           /\ \A d \in requests' : Creates(i, d) /\ d.state = "sent" => \A t \in TaskIds' : made'[t].by # i
                           /\ \A t, u \in TaskIds' : made'[t].by = i /\ made'[u].by = i => t = u
    BY <1>3, <2>1, <2>2 DEF InstancesFit
  <2>3. CASE c.who # i
    <3>1. ~Creates(i, c) /\ \A x \in X : ~Creates(i, x)
      BY <1>11, <2>3 DEF Creates
    <3>2. \A d \in requests' : Creates(i, d) => d \in requests
      BY <1>10, <3>1
    <3>3. \A t \in TaskIds' : made'[t].by = i => t \in TaskIds /\ made[t].by = i
      BY <1>5, <1>9, <2>3
    <3>4. ~Begun(i) => (\A d \in requests' : ~Creates(i, d)) /\ (\A t \in TaskIds' : made'[t].by # i)
      BY <1>1, <3>2, <3>3 DEF InstancesFit
    <3>5. i \notin twice =>
            /\ \A d, e \in requests' : Creates(i, d) /\ Creates(i, e) => d = e
            /\ \A d \in requests' : Creates(i, d) => d.via = "socket"
            /\ \A d \in requests' : Creates(i, d) /\ d.state = "sent" => \A t \in TaskIds' : made'[t].by # i
            /\ \A t, u \in TaskIds' : made'[t].by = i /\ made'[u].by = i => t = u
      BY <1>1, <3>2, <3>3 DEF InstancesFit
    <3> QED
      BY <3>4, <3>5
  <2>4. CASE c.who = i
    <3>1. Creates(i, c)
      BY <1>3, <2>4 DEF Creates
    <3>2. Begun(i)
      BY <1>1, <3>1 DEF InstancesFit
    <3> SUFFICES ASSUME i \notin twice
                 PROVE  /\ \A d, e \in requests' : Creates(i, d) /\ Creates(i, e) => d = e
                        /\ \A d \in requests' : Creates(i, d) => d.via = "socket"
                        /\ \A d \in requests' : Creates(i, d) /\ d.state = "sent" => \A t \in TaskIds' : made'[t].by # i
                        /\ \A t, u \in TaskIds' : made'[t].by = i /\ made'[u].by = i => t = u
      BY <3>2
    <3>3. \A d \in requests' : Creates(i, d) => d \in X
      <4>1. \A d \in requests : Creates(i, d) => d = c
        BY <1>1, <3>1 DEF InstancesFit
      <4> QED
        BY <1>10, <4>1
    <3>4. \A d \in X : d.via = "socket" /\ d.state = "ok" /\ \A e \in X : d = e
      <4>1. c.via = "socket"
        BY <1>1, <3>1 DEF InstancesFit
      <4> QED
        BY <1>11, <4>1
    <3>5. \A t \in TaskIds : made[t].by # i
      BY <1>1, <1>3, <3>1 DEF InstancesFit
    <3>6. \A t \in TaskIds' : made'[t].by = i => t = n
      BY <1>9, <3>5
    <3> QED
      BY <3>3, <3>4, <3>6
  <2> QED
    BY <2>3, <2>4
<1>22. FanoutTypes'
  <2>1. requests' \subseteq Requests
    BY <1>2, <1>10, <1>11
  <2>2. DOMAIN progress' \subseteq TaskIds' /\ progress' = [t \in DOMAIN progress' |-> progress'[t]]
        /\ \A t \in DOMAIN progress' : progress'[t] \in Steps
    BY <1>1, <1>3, <1>9 DEF FanoutTypes
  <2> QED
    BY <1>1, <1>3, <1>8, <1>12, <2>1, <2>2 DEF FanoutTypes
<1> QED
  BY <1>14, <1>16, <1>17, <1>18, <1>19, <1>20, <1>21, <1>22 DEF FanoutInv

-----------------------------------------------------------------------------
(* The steps of the command line.                                            *)

LEMMA CliAsksKeeps ==
  ASSUME FanoutInv, CliAsks
  PROVE  FanoutInv'
<1>1. FanoutTypes /\ RequestsFit /\ Alone /\ ProgressFits /\ InstancesFit /\ ReportFits
  BY DEF FanoutInv
<1>2. /\ \A d \in requests : d \in Requests /\ RequestFits(d)
      /\ TaskIds = 1 .. Len(made) /\ Agents \in Nat /\ Len(report) \in Nat
  BY <1>1, FanoutFacts DEF RequestsFit
<1>3. /\ UNCHANGED <<made, unheard, report, progress, twice>>
      /\ waits = "idle" /\ waits' = "create" /\ Instance \in 1 .. Agents
  BY <1>2 DEF CliAsks, Instance
<1>4. PICK x : x = Call("create", Instance, 0, "socket")
  OBVIOUS
<1>5. x \in Requests /\ x.kind = "create" /\ x.who = Instance /\ x.task = 0 /\ x.via = "socket" /\ x.state = "sent"
  <2>1. Instance \in 0 .. Agents
    BY <1>3
  <2> QED
    BY <1>4, <2>1, CallIs
<1>6. requests' = (requests \ {}) \cup {x}
  BY <1>4 DEF CliAsks
<1>7. RequestFits(x)'
  BY <1>5 DEF RequestFits
<1>8. Swaps({}, {x})
  <2>1. \A d \in requests' : d.task = 0 => ~CreateOk(d)
    BY <1>2, <1>5, <1>6 DEF RequestFits, CreateOk
  <2>2. \A t : Running(t) => Running(t)'
    BY <1>6 DEF Running
  <2> QED
    BY <1>3, <1>5, <1>6, <1>7, <2>1, <2>2 DEF Swaps, CreateOk
<1>9. RowsFit' /\ RequestsFit' /\ Alone' /\ NewsFits' /\ requests' \subseteq Requests /\ TaskIds' = TaskIds
  BY <1>8, SwapStep
<1>10. InstancesFit'
  <2>1. \A i \in 1 .. Agents : Begun(i)' <=> Begun(i) \/ i = Instance
    BY <1>3 DEF Begun, Instance
  <2>2. \A i, c : Creates(i, c)' <=> Creates(i, c)
    BY DEF Creates
  <2>3. ~Begun(Instance)
    BY <1>2, <1>3 DEF Begun, Instance
  <2> SUFFICES ASSUME NEW i \in 1 .. Agents
               PROVE  /\ ~Begun(i)' => (\A d \in requests' : ~Creates(i, d)) /\ (\A t \in TaskIds : made[t].by # i)
                      /\ i \notin twice =>
                           /\ \A d, e \in requests' : Creates(i, d) /\ Creates(i, e) => d = e
                           /\ \A d \in requests' : Creates(i, d) => d.via = "socket"
                           /\ \A d \in requests' : Creates(i, d) /\ d.state = "sent" => \A t \in TaskIds : made[t].by # i
                           /\ \A t, u \in TaskIds : made[t].by = i /\ made[u].by = i => t = u
    BY <1>3, <1>9, <2>2 DEF InstancesFit
  <2>4. CASE i = Instance
    <3>1. Begun(i)' /\ \A d \in requests' : Creates(i, d) => d = x
      BY <1>1, <1>6, <2>1, <2>3, <2>4 DEF InstancesFit
    <3>2. \A t \in TaskIds : made[t].by # i
      BY <1>1, <2>3, <2>4 DEF InstancesFit
    <3> QED
      BY <1>5, <3>1, <3>2
  <2>5. CASE i # Instance
    <3>1. \A d \in requests' : Creates(i, d) => d \in requests
      BY <1>5, <1>6, <2>5 DEF Creates
    <3>2. ~Begun(i)' => (\A d \in requests' : ~Creates(i, d)) /\ (\A t \in TaskIds : made[t].by # i)
      BY <1>1, <2>1, <3>1 DEF InstancesFit
    <3>3. i \notin twice =>
            /\ \A d, e \in requests' : Creates(i, d) /\ Creates(i, e) => d = e
            /\ \A d \in requests' : Creates(i, d) => d.via = "socket"
            /\ \A d \in requests' : Creates(i, d) /\ d.state = "sent" => \A t \in TaskIds : made[t].by # i
            /\ \A t, u \in TaskIds : made[t].by = i /\ made[u].by = i => t = u
      BY <1>1, <3>1 DEF InstancesFit
    <3> QED
      BY <3>2, <3>3
  <2> QED
    BY <2>4, <2>5
<1>11. ProgressFits' /\ ReportFits'
  BY <1>1, <1>3, SaidStays
<1>12. FanoutTypes'
  BY <1>1, <1>3, <1>9 DEF FanoutTypes
<1> QED
  BY <1>9, <1>10, <1>11, <1>12 DEF FanoutInv

\* The maker of a row asks for it to be set up, in place of the request that made it.
LEMMA EnsuresItsRow ==
  ASSUME FanoutInv, NEW c \in requests, CreateOk(c), NEW via \in {"socket", "fetch"},
         requests' = (requests \ {c}) \cup {Call("ensure", c.who, c.task, via)},
         UNCHANGED <<made, unheard, report, twice>>,
         \A i \in 1 .. Agents : Begun(i)' <=> Begun(i)
  PROVE  /\ RowsFit' /\ RequestsFit' /\ Alone' /\ NewsFits' /\ requests' \subseteq Requests /\ TaskIds' = TaskIds
         /\ InstancesFit' /\ Untried(made[c.task]) /\ c.task \in TaskIds
<1>1. FanoutTypes /\ RequestsFit /\ Alone /\ InstancesFit
  BY DEF FanoutInv
<1>2. c \in Requests /\ RequestFits(c)
  BY <1>1, FanoutFacts DEF RequestsFit
<1>3. PICK x : x = Call("ensure", c.who, c.task, via)
  OBVIOUS
<1>4. x \in Requests /\ x.kind = "ensure" /\ x.who = c.who /\ x.task = c.task /\ x.via = via /\ x.state = "sent"
  <2>1. c.who \in 0 .. Agents /\ c.task \in Nat
    BY <1>2 DEF Requests
  <2> QED
    BY <1>3, <2>1, CallIs
<1>5. requests' = (requests \ {c}) \cup {x}
  BY <1>3
<1>6. c.task \in TaskIds /\ made[c.task].by = c.who /\ Untried(made[c.task])
  BY <1>2 DEF RequestFits, CreateOk
<1>7. RequestFits(x)'
  <2>1. c.task \in TaskIds'
    BY <1>6 DEF TaskIds
  <2> QED
    BY <1>4, <1>6, <2>1 DEF RequestFits, Untried
<1>8. Swaps({c}, {x})
  <2>1. \A d \in requests \ {c} : d.task # c.task
    BY <1>1 DEF Alone, CreateOk
  <2>2. \A t : Running(t) => Running(t)'
    BY <1>5 DEF Running, CreateOk
  <2> QED
    BY <1>4, <1>5, <1>7, <2>1, <2>2 DEF Swaps, CreateOk
<1>9. Settled
  <2>1. \A i \in 1 .. Agents, d \in requests' : Creates(i, d) => d \in requests
    BY <1>4, <1>5 DEF Creates
  <2> QED
    BY <2>1 DEF Settled
<1> QED
  BY <1>1, <1>6, <1>8, <1>9, SwapStep, SettledInstances

LEMMA CliEnsuresKeeps ==
  ASSUME FanoutInv, NEW c \in requests, CliEnsures(c)
  PROVE  FanoutInv'
<1>1. FanoutTypes /\ ProgressFits /\ ReportFits
  BY DEF FanoutInv
<1>2. /\ CreateOk(c) /\ UNCHANGED <<made, unheard, report, progress, twice>>
      /\ waits = "create" /\ waits' = "ensure"
  BY DEF CliEnsures, CreateOk
<1>3. requests' = (requests \ {c}) \cup {Call("ensure", c.who, c.task, "socket")}
  BY DEF CliEnsures, Replace
<1>4. \A i \in 1 .. Agents : Begun(i)' <=> Begun(i)
  BY <1>2 DEF Begun, Instance
<1>5. /\ RowsFit' /\ RequestsFit' /\ Alone' /\ NewsFits' /\ requests' \subseteq Requests /\ TaskIds' = TaskIds
      /\ InstancesFit'
  BY <1>2, <1>3, <1>4, EnsuresItsRow
<1>6. ProgressFits' /\ ReportFits'
  BY <1>1, <1>2, SaidStays
<1>7. FanoutTypes'
  BY <1>1, <1>2, <1>5 DEF FanoutTypes
<1> QED
  BY <1>5, <1>6, <1>7 DEF FanoutInv

\* A request that is over is forgotten.
LEMMA Forgets ==
  ASSUME FanoutInv, NEW c \in requests, c.state \in {"ok", "failed"}, requests' = requests \ {c},
         UNCHANGED <<made, unheard, twice>>, \A i \in 1 .. Agents : ~Begun(i)' => ~Begun(i)
  PROVE  /\ RowsFit' /\ RequestsFit' /\ Alone' /\ NewsFits' /\ requests' \subseteq Requests /\ TaskIds' = TaskIds
         /\ InstancesFit'
<1>1. InstancesFit
  BY DEF FanoutInv
<1>2. Swaps({c}, {})
  <2>1. \A t : Running(t) => Running(t)'
    BY DEF Running
  <2>2. requests' = (requests \ {c}) \cup {}
    OBVIOUS
  <2> QED
    BY <2>1, <2>2 DEF Swaps
<1>3. Settled
  BY DEF Settled
<1> QED
  BY <1>1, <1>2, <1>3, SwapStep, SettledInstances

LEMMA CliHearsKeeps ==
  ASSUME FanoutInv, NEW c \in requests, CliHears(c)
  PROVE  FanoutInv'
<1>1. FanoutTypes /\ RequestsFit /\ ProgressFits /\ InstancesFit /\ ReportFits
  BY DEF FanoutInv
<1>2. /\ c \in Requests /\ RequestFits(c) /\ Agents \in Nat
  BY <1>1, FanoutFacts DEF RequestsFit
<1>3. /\ requests' = requests \ {c} /\ c.state \in {"ok", "failed"} /\ c.who = Instance
      /\ c.state = "ok" => c.kind = "ensure"
      /\ waits # "idle" /\ waits' = "idle" /\ UNCHANGED <<made, unheard, progress, twice>>
  BY DEF CliHears
<1>4. PICK v \in Nat : v = IF c.state = "ok" THEN c.task ELSE 0
  BY <1>2 DEF Requests
<1>5. report \in Seq(Nat) /\ report' = Append(report, v)
  BY <1>1, <1>4 DEF FanoutTypes, CliHears, CliReports
<1>6. PICK n \in Nat : n = Len(report)
  BY <1>5
<1>7. report' \in Seq(Nat) /\ Len(report') = n + 1 /\ report'[n + 1] = v /\ \A k \in 1 .. n : report'[k] = report[k]
  BY <1>5, <1>6, AppendProperties
<1>8. Instance = n + 1 /\ Instance' = n + 2 /\ n + 1 <= Agents
  BY <1>2, <1>3, <1>6, <1>7 DEF Instance, Requests
<1>9. \A i \in 1 .. Agents : ~Begun(i)' => ~Begun(i)
  BY <1>3, <1>8 DEF Begun
<1>10. /\ RowsFit' /\ RequestsFit' /\ Alone' /\ NewsFits' /\ requests' \subseteq Requests /\ TaskIds' = TaskIds
       /\ InstancesFit'
  BY <1>3, <1>9, Forgets
<1>11. ProgressFits'
  BY <1>1, <1>3, SaidStays
<1>12. ReportFits'
  <2>1. DOMAIN report = 1 .. n /\ DOMAIN report' = 1 .. n + 1
    BY <1>5, <1>6, <1>7
  <2>2. v # 0 => v \in TaskIds /\ made[v].ran /\ made[v].by = n + 1
    BY <1>2, <1>3, <1>4, <1>8 DEF RequestFits
  <2> SUFFICES ASSUME NEW i \in 1 .. n + 1, report'[i] # 0
               PROVE  report'[i] \in TaskIds /\ made[report'[i]].ran /\ made[report'[i]].by = i
    BY <1>3, <1>10, <2>1 DEF ReportFits
  <2>3. CASE i \in 1 .. n
    BY <1>1, <1>7, <2>1, <2>3 DEF ReportFits
  <2>4. CASE i = n + 1
    BY <1>7, <2>2, <2>4
  <2> QED
    BY <1>6, <2>3, <2>4
<1>13. FanoutTypes'
  BY <1>1, <1>3, <1>7, <1>8, <1>10 DEF FanoutTypes
<1> QED
  BY <1>10, <1>11, <1>12, <1>13 DEF FanoutInv

-----------------------------------------------------------------------------
(* The steps of the panel.                                                   *)

LEMMA SubmitsKeeps ==
  ASSUME FanoutInv, Submits
  PROVE  FanoutInv'
<1>1. FanoutTypes /\ RequestsFit /\ ProgressFits /\ InstancesFit /\ ReportFits
  BY DEF FanoutInv
<1>2. (\A d \in requests : d \in Requests /\ RequestFits(d)) /\ Agents \in Nat
  BY <1>1, FanoutFacts DEF RequestsFit
<1>3. UNCHANGED <<made, unheard, waits, report, progress, twice>>
  BY DEF Submits
<1>4. PICK x : x = Call("create", Panel, 0, "fetch")
  OBVIOUS
<1>5. x \in Requests /\ x.kind = "create" /\ x.who = 0 /\ x.task = 0 /\ x.state = "sent"
  <2>1. Panel \in 0 .. Agents /\ Panel = 0
    BY <1>2 DEF Panel
  <2> QED
    BY <1>4, <2>1, CallIs
<1>6. requests' = (requests \ {}) \cup {x}
  BY <1>4 DEF Submits
<1>7. RequestFits(x)'
  BY <1>5 DEF RequestFits
<1>8. Swaps({}, {x})
  <2>1. \A d \in requests' : d.task = 0 => ~CreateOk(d)
    <3>1. 0 \notin TaskIds
      BY <1>1, FanoutFacts
    <3> QED
      BY <1>2, <1>5, <1>6, <3>1 DEF RequestFits, CreateOk
  <2>2. \A t : Running(t) => Running(t)'
    BY <1>6 DEF Running
  <2> QED
    BY <1>3, <1>5, <1>6, <1>7, <2>1, <2>2 DEF Swaps, CreateOk
<1>9. RowsFit' /\ RequestsFit' /\ Alone' /\ NewsFits' /\ requests' \subseteq Requests /\ TaskIds' = TaskIds
  BY <1>8, SwapStep
<1>10. Settled
  <2>1. \A i \in 1 .. Agents : Begun(i)' <=> Begun(i)
    BY <1>3 DEF Begun, Instance
  <2>2. \A i \in 1 .. Agents, d \in requests' : Creates(i, d) => d \in requests
    BY <1>5, <1>6 DEF Creates
  <2> QED
    BY <1>3, <2>1, <2>2 DEF Settled
<1>11. InstancesFit' /\ ProgressFits' /\ ReportFits'
  BY <1>1, <1>3, <1>10, SettledInstances, SaidStays
<1>12. FanoutTypes'
  BY <1>1, <1>3, <1>9 DEF FanoutTypes
<1> QED
  BY <1>9, <1>11, <1>12 DEF FanoutInv

LEMMA PanelRetriesKeeps ==
  ASSUME FanoutInv, NEW t \in TaskIds, PanelRetries(t)
  PROVE  FanoutInv'
<1>1. FanoutTypes /\ RowsFit /\ RequestsFit /\ ProgressFits /\ InstancesFit /\ ReportFits
  BY DEF FanoutInv
<1>2. (\A d \in requests : d \in Requests /\ RequestFits(d)) /\ Agents \in Nat /\ t \in Nat
  BY <1>1, FanoutFacts DEF RequestsFit
<1>3. UNCHANGED <<made, unheard, waits, report, progress, twice>> /\ made[t].failed
  BY <1>1 DEF PanelRetries, RowsFit, RowFits
<1>4. PICK x : x = Call("retry", Panel, t, "fetch")
  OBVIOUS
<1>5. x \in Requests /\ x.kind = "retry" /\ x.who = Panel /\ x.task = t /\ x.state = "sent"
  <2>1. Panel \in 0 .. Agents
    BY <1>2 DEF Panel
  <2> QED
    BY <1>2, <1>4, <2>1, CallIs
<1>6. requests' = (requests \ {}) \cup {x}
  BY <1>4 DEF PanelRetries
<1>7. RequestFits(x)'
  <2>1. t \in TaskIds'
    BY <1>3 DEF TaskIds
  <2> QED
    BY <1>3, <1>5, <2>1 DEF RequestFits
<1>8. Swaps({}, {x})
  <2>1. \A d \in requests' : d.task = t => ~CreateOk(d)
    BY <1>2, <1>3, <1>5, <1>6 DEF RequestFits, CreateOk, Untried
  <2>2. \A u : Running(u) => Running(u)'
    BY <1>6 DEF Running
  <2> QED
    BY <1>3, <1>5, <1>6, <1>7, <2>1, <2>2 DEF Swaps, CreateOk
<1>9. RowsFit' /\ RequestsFit' /\ Alone' /\ NewsFits' /\ requests' \subseteq Requests /\ TaskIds' = TaskIds
  BY <1>8, SwapStep
<1>10. Settled
  <2>1. \A i \in 1 .. Agents : Begun(i)' <=> Begun(i)
    BY <1>3 DEF Begun, Instance
  <2>2. \A i \in 1 .. Agents, d \in requests' : Creates(i, d) => d \in requests
    BY <1>5, <1>6 DEF Creates
  <2> QED
    BY <1>3, <2>1, <2>2 DEF Settled
<1>11. InstancesFit' /\ ProgressFits' /\ ReportFits'
  BY <1>1, <1>3, <1>10, SettledInstances, SaidStays
<1>12. FanoutTypes'
  BY <1>1, <1>3, <1>9 DEF FanoutTypes
<1> QED
  BY <1>9, <1>11, <1>12 DEF FanoutInv

LEMMA Shown ==
  ASSUME FanoutTypes, NEW t \in TaskIds, NEW p \in Steps, ShowsStage(t, p)
  PROVE  /\ DOMAIN progress' = DOMAIN progress \cup {t} /\ progress'[t] = p
         /\ progress' = [u \in DOMAIN progress' |-> progress'[u]]
         /\ \A u \in DOMAIN progress : u # t => progress'[u] = progress[u]
         /\ DOMAIN progress' \subseteq TaskIds /\ \A u \in DOMAIN progress' : progress'[u] \in Steps
BY DEF FanoutTypes, ShowsStage

LEMMA BeginsAt ==
  ASSUME NEW s \in {1, 2}, NEW p, p = Progress(s, FALSE)
  PROVE  p \in Steps /\ p.current = s /\ p.failed = FALSE
<1>1. s \in 1 .. Active
  BY FanoutAssumption
<1>2. p = [current |-> s, failed |-> FALSE]
  BY DEF Progress
<1>3. p.current = s
  BY DEF Progress
<1>4. p.failed = FALSE
  BY DEF Progress
<1> QED
  BY <1>1, <1>2, <1>3, <1>4 DEF Steps

LEMMA PanelHearsKeeps ==
  ASSUME FanoutInv, NEW c \in requests, PanelHears(c)
  PROVE  FanoutInv'
<1>1. FanoutTypes /\ ProgressFits /\ ReportFits
  BY DEF FanoutInv
<1>2. /\ UNCHANGED <<made, unheard, waits, report, twice>>
      /\ c.who = Panel /\ c.state \in {"ok", "failed"}
  BY DEF PanelHears
<1>3. \A i \in 1 .. Agents : Begun(i)' <=> Begun(i)
  BY <1>2 DEF Begun, Instance
<1>4. ReportFits'
  BY <1>1, <1>2, SaidStays
<1>5. CASE CreateOk(c)
  <2>1. /\ requests' = (requests \ {c}) \cup {Call("ensure", c.who, c.task, "fetch")}
        /\ ShowsStage(c.task, Progress(2, FALSE))
    BY <1>2, <1>5 DEF PanelHears, Replace, CreateOk
  <2>2. /\ RowsFit' /\ RequestsFit' /\ Alone' /\ NewsFits' /\ requests' \subseteq Requests /\ TaskIds' = TaskIds
        /\ InstancesFit' /\ Untried(made[c.task]) /\ c.task \in TaskIds
    BY <1>2, <1>3, <1>5, <2>1, EnsuresItsRow
  <2>3. PICK p : p = Progress(2, FALSE)
    OBVIOUS
  <2>7. p \in Steps /\ p.current = 2 /\ p.failed = FALSE
    BY <2>3, BeginsAt
  <2>4. /\ DOMAIN progress' = DOMAIN progress \cup {c.task} /\ progress'[c.task] = p
        /\ progress' = [u \in DOMAIN progress' |-> progress'[u]]
        /\ \A u \in DOMAIN progress : u # c.task => progress'[u] = progress[u]
        /\ DOMAIN progress' \subseteq TaskIds /\ \A u \in DOMAIN progress' : progress'[u] \in Steps
    BY <1>1, <2>1, <2>2, <2>3, <2>7, Shown
  <2>5. ProgressFits'
    <3> SUFFICES ASSUME NEW u \in DOMAIN progress'
                 PROVE  /\ progress'[u].failed => made[u].failed
                        /\ ~made[u].failed => /\ progress'[u].current > 2 => progress'[u].current <= made[u].stage
                                              /\ made[u].status = "active" => Ending(u, 1)'
      BY <1>2 DEF ProgressFits
    <3>1. CASE u = c.task
      <4>1. made[u].status = "creating" /\ progress'[u] = p
        BY <2>2, <2>4, <3>1 DEF Untried
      <4>2. progress'[u].current = 2 /\ progress'[u].failed = FALSE
        BY <2>7, <4>1
      <4> QED
        BY <4>1, <4>2
    <3>2. CASE u # c.task
      <4>1. u \in DOMAIN progress /\ progress'[u] = progress[u]
        BY <2>4, <3>2
      <4>2. Ending(u, 1) => Ending(u, 1)'
        BY <1>2 DEF Ending
      <4> QED
        BY <1>1, <4>1, <4>2 DEF ProgressFits
    <3> QED
      BY <3>1, <3>2
  <2>6. FanoutTypes'
    BY <1>1, <1>2, <2>2, <2>4 DEF FanoutTypes
  <2> QED
    BY <1>4, <2>2, <2>5, <2>6 DEF FanoutInv
<1>6. CASE ~CreateOk(c)
  <2>1. requests' = requests \ {c} /\ progress' = progress
    BY <1>6 DEF PanelHears, CreateOk
  <2>2. /\ RowsFit' /\ RequestsFit' /\ Alone' /\ NewsFits' /\ requests' \subseteq Requests /\ TaskIds' = TaskIds
        /\ InstancesFit'
    BY <1>2, <1>3, <2>1, Forgets
  <2>3. ProgressFits'
    BY <1>1, <1>2, <2>1, SaidStays
  <2>4. FanoutTypes'
    BY <1>1, <1>2, <2>1, <2>2 DEF FanoutTypes
  <2> QED
    BY <1>4, <2>2, <2>3, <2>4 DEF FanoutInv
<1> QED
  BY <1>5, <1>6

\* What the list may say of a row, once the event at the head is heard.
Tellable(t, p) ==
  /\ p \in Steps
  /\ p.failed => made[t].failed
  /\ ~made[t].failed => (p.current > 2 => p.current <= made[t].stage)

LEMMA HearsNewsKeeps ==
  ASSUME FanoutInv, HearsNews
  PROVE  FanoutInv'
<1>1. FanoutTypes /\ RowsFit /\ RequestsFit /\ Alone /\ NewsFits /\ ProgressFits /\ InstancesFit /\ ReportFits
  BY DEF FanoutInv
<1>2. /\ UNCHANGED <<made, requests, waits, report, twice>> /\ unheard # <<>> /\ unheard' = Tail(unheard)
  BY DEF HearsNews
<1>3. PICK n \in Nat : n = Len(unheard)
  BY <1>1, FanoutFacts
<1>4. /\ n >= 1 /\ unheard' \in Seq(Newses) /\ Len(unheard') = n - 1
      /\ DOMAIN unheard = 1 .. n /\ DOMAIN unheard' = 1 .. n - 1
      /\ \A k \in 1 .. n - 1 : unheard'[k] = unheard[k + 1]
      /\ Head(unheard) = unheard[1] /\ unheard[1] \in Newses
  <2>1. unheard \in Seq(Newses)
    BY <1>1 DEF FanoutTypes
  <2> QED
    BY <1>2, <1>3, <2>1
<1>5. TaskIds' = TaskIds
  BY <1>2 DEF TaskIds
<1>6. PICK t : t = unheard[1].task
  OBVIOUS
<1>7. PICK w : w = unheard[1].what
  OBVIOUS
<1>8. NewsFit(t, w, 1) /\ t \in TaskIds /\ w \in 0 .. Active
  <2>1. 1 \in DOMAIN unheard
    BY <1>3, <1>4
  <2> QED
    BY <1>1, <1>4, <1>6, <1>7, <2>1 DEF NewsFits, NewsFit, Newses
<1>9. \A u, k : k \in Nat /\ k >= 1 /\ Ending(u, k + 1) => Ending(u, k)'
  <2> SUFFICES ASSUME NEW u, NEW k \in Nat, k >= 1, Ending(u, k + 1) PROVE Ending(u, k)'
    OBVIOUS
  <2>1. PICK m \in k + 1 .. n : unheard[m] = [task |-> u, what |-> Active]
    BY <1>3 DEF Ending
  <2>2. PICK j \in Nat : j + 1 = m
    <3>1. m - 1 \in Nat /\ (m - 1) + 1 = m
      BY <1>3, <2>1
    <3> QED
      BY <3>1
  <2>3. j \in 1 .. n - 1 /\ j \in k .. n - 1
    BY <1>3, <2>1, <2>2
  <2>4. unheard'[j] = [task |-> u, what |-> Active]
    BY <1>4, <2>1, <2>2, <2>3
  <2> QED
    BY <1>4, <2>3, <2>4 DEF Ending
<1>10. \A u : Ending(u, 1) => Ending(u, 1)' \/ (u = t /\ w = Active)
  <2> SUFFICES ASSUME NEW u, Ending(u, 1), ~(u = t /\ w = Active) PROVE Ending(u, 2)
    <3>1. 1 + 1 = 2 /\ 1 \in Nat
      OBVIOUS
    <3> QED
      BY <1>9, <3>1
  <2>1. PICK m \in 1 .. n : unheard[m] = [task |-> u, what |-> Active]
    BY <1>3 DEF Ending
  <2>2. m # 1
    <3>1. CASE m = 1
      BY <1>6, <1>7, <2>1, <3>1
    <3> QED
      BY <3>1
  <2>3. m \in 2 .. n
    BY <1>3, <2>1, <2>2
  <2> QED
    BY <1>3, <2>1, <2>3 DEF Ending
<1>11. NewsFits'
  <2> SUFFICES ASSUME NEW k \in 1 .. n - 1 PROVE NewsFit(unheard[k].task, unheard[k].what, k)'
    BY <1>4 DEF NewsFits
  <2>1. PICK u : u = unheard[k + 1].task
    OBVIOUS
  <2>2. PICK v : v = unheard[k + 1].what
    OBVIOUS
  <2>3. k \in Nat /\ k >= 1 /\ k + 1 \in 1 .. n
    BY <1>3
  <2>4. NewsFit(u, v, k + 1)
    BY <1>1, <1>4, <2>1, <2>2, <2>3 DEF NewsFits
  <2>5. Ending(u, k + 1) => Ending(u, k)'
    BY <1>9, <2>3
  <2>6. unheard'[k].task = u /\ unheard'[k].what = v
    BY <1>4, <2>1, <2>2
  <2> QED
    BY <1>2, <1>5, <2>4, <2>5, <2>6 DEF NewsFit
<1>12. Tellable(t, StageOf(t))
  <2>1. CASE t \in DOMAIN progress
    BY <1>1, <2>1 DEF Tellable, StageOf, ProgressFits, FanoutTypes
  <2>2. CASE t \notin DOMAIN progress
    <3>1. PICK p : p = Progress(1, FALSE)
      OBVIOUS
    <3>2. p \in Steps /\ p.current = 1 /\ p.failed = FALSE
      BY <3>1, BeginsAt
    <3>3. Tellable(t, p)
      BY <3>2 DEF Tellable
    <3> QED
      BY <2>2, <3>1, <3>3 DEF StageOf
  <2> QED
    BY <2>1, <2>2
\* The list without the task, or with what may be told of it.
<1>13. \/ \E p : /\ Tellable(t, p) /\ ShowsStage(t, p)
                 /\ ~made[t].failed => w # Active
       \/ progress' = [u \in DOMAIN progress \ {t} |-> progress[u]]
  <2>1. CASE w = Error
    <3>1. PICK q \in Steps : q = StageOf(t)
      BY <1>12 DEF Tellable
    <3>2. PICK p \in Steps : p = [q EXCEPT !.failed = TRUE]
      BY DEF Steps
    <3>3. ShowsStage(t, p)
      BY <1>4, <1>6, <1>7, <2>1, <3>1, <3>2 DEF HearsNews
    <3>4. made[t].failed
      BY <1>8, <2>1 DEF NewsFit
    <3> QED
      BY <3>3, <3>4 DEF Tellable
  <2>2. CASE w # Error
    <3>1. PICK p : p = Advanced(StageOf(t), w)
      OBVIOUS
    <3>2. IF p.current = Active /\ ~p.failed
          THEN progress' = [u \in DOMAIN progress \ {t} |-> progress[u]]
          ELSE ShowsStage(t, p)
      BY <1>4, <1>6, <1>7, <2>2, <3>1 DEF HearsNews
    <3>3. Tellable(t, p) /\ (w = Active => p.current = Active)
      <4>1. CASE w < StageOf(t).current /\ w # Active
        BY <1>12, <3>1, <4>1 DEF Advanced
      <4>2. CASE ~(w < StageOf(t).current /\ w # Active)
        <5>1. p = Progress(w, StageOf(t).failed)
          BY <3>1, <4>2 DEF Advanced
        <5>2. p.current = w
          BY <5>1 DEF Progress
        <5>3. p.failed = StageOf(t).failed
          BY <5>1 DEF Progress
        <5>4. p \in Steps
          <6>1. StageOf(t).failed \in BOOLEAN
            BY <1>12 DEF Tellable, Steps
          <6>2. w \in 1 .. Active
            BY <1>8, <2>2, FanoutAssumption DEF Error
          <6> QED
            BY <5>1, <6>1, <6>2 DEF Progress, Steps
        <5>5. p.failed => made[t].failed
          BY <1>12, <5>3 DEF Tellable
        <5>6. ~made[t].failed => w <= made[t].stage
          BY <1>8 DEF NewsFit
        <5> QED
          BY <5>2, <5>4, <5>5, <5>6 DEF Tellable
      <4> QED
        BY <4>1, <4>2
    <3>4. CASE p.current = Active /\ ~p.failed
      BY <3>2, <3>4
    <3>5. CASE ~(p.current = Active /\ ~p.failed)
      <4>1. ~made[t].failed => ~p.failed
        BY <3>3 DEF Tellable
      <4> QED
        BY <2>2, <3>2, <3>3, <3>5, <4>1
    <3> QED
      BY <3>4, <3>5
  <2> QED
    BY <2>1, <2>2
<1>14. \A u \in DOMAIN progress : u # t =>
          /\ progress[u].failed => made[u].failed
          /\ ~made[u].failed => /\ progress[u].current > 2 => progress[u].current <= made[u].stage
                                /\ made[u].status = "active" => Ending(u, 1)'
  <2> SUFFICES ASSUME NEW u \in DOMAIN progress, u # t
               PROVE  /\ progress[u].failed => made[u].failed
                      /\ ~made[u].failed => /\ progress[u].current > 2 => progress[u].current <= made[u].stage
                                            /\ made[u].status = "active" => Ending(u, 1)'
    OBVIOUS
  <2>1. Ending(u, 1) => Ending(u, 1)'
    BY <1>10
  <2> QED
    BY <1>1, <2>1 DEF ProgressFits
<1>15. /\ ProgressFits' /\ DOMAIN progress' \subseteq TaskIds
       /\ progress' = [u \in DOMAIN progress' |-> progress'[u]] /\ \A u \in DOMAIN progress' : progress'[u] \in Steps
  <2>1. CASE \E p : /\ Tellable(t, p) /\ ShowsStage(t, p)
                    /\ ~made[t].failed => w # Active
    <3>1. PICK p : /\ Tellable(t, p) /\ ShowsStage(t, p)
                   /\ ~made[t].failed => w # Active
      BY <2>1
    <3>2. p \in Steps
      BY <3>1 DEF Tellable
    <3>3. /\ DOMAIN progress' = DOMAIN progress \cup {t} /\ progress'[t] = p
          /\ progress' = [u \in DOMAIN progress' |-> progress'[u]]
          /\ \A u \in DOMAIN progress : u # t => progress'[u] = progress[u]
          /\ DOMAIN progress' \subseteq TaskIds /\ \A u \in DOMAIN progress' : progress'[u] \in Steps
      BY <1>1, <1>8, <3>1, <3>2, Shown
    <3>4. ProgressFits'
      <4> SUFFICES ASSUME NEW u \in DOMAIN progress'
                   PROVE  /\ progress'[u].failed => made[u].failed
                          /\ ~made[u].failed => /\ progress'[u].current > 2 => progress'[u].current <= made[u].stage
                                                /\ made[u].status = "active" => Ending(u, 1)'
        BY <1>2 DEF ProgressFits
      <4>1. CASE u # t
        BY <1>14, <3>3, <4>1
      <4>2. CASE u = t
        <5>1. /\ p.failed => made[t].failed
              /\ ~made[t].failed => (p.current > 2 => p.current <= made[t].stage)
          BY <3>1 DEF Tellable
        <5>2. ~made[t].failed /\ made[t].status = "active" => Ending(t, 1)'
          <6>1. HAVE ~made[t].failed /\ made[t].status = "active"
          <6>2. Ending(t, 1)
            BY <1>8, <6>1 DEF NewsFit
          <6>3. w # Active
            BY <6>1, <3>1
          <6> QED
            BY <1>10, <6>2, <6>3
        <5> QED
          BY <3>3, <4>2, <5>1, <5>2
      <4> QED
        BY <4>1, <4>2
    <3> QED
      BY <3>3, <3>4
  <2>2. CASE progress' = [u \in DOMAIN progress \ {t} |-> progress[u]]
    <3>1. DOMAIN progress' = DOMAIN progress \ {t} /\ \A u \in DOMAIN progress' : u # t /\ progress'[u] = progress[u]
      BY <2>2
    <3>2. ProgressFits'
      BY <1>2, <1>14, <3>1 DEF ProgressFits
    <3> QED
      BY <1>1, <2>2, <3>1, <3>2 DEF FanoutTypes
  <2> QED
    BY <1>13, <2>1, <2>2
<1>16. RowsFit' /\ ReportFits'
  BY <1>1, <1>2, <1>5 DEF RowsFit, ReportFits
<1>17. RequestsFit'
  <2> SUFFICES ASSUME NEW c \in requests PROVE RequestFits(c)'
    BY <1>2 DEF RequestsFit
  <2>1. Running(c.task)' <=> Running(c.task)
    BY <1>2 DEF Running
  <2> QED
    BY <1>1, <1>2, <1>5, <2>1 DEF RequestsFit, RequestFits
<1>18. Alone'
  BY <1>1, <1>2 DEF Alone
<1>19. InstancesFit'
  <2>1. \A i \in 1 .. Agents : Begun(i)' <=> Begun(i)
    BY <1>2 DEF Begun, Instance
  <2>2. Settled
    BY <1>2, <2>1 DEF Settled
  <2> QED
    BY <1>1, <2>2, SettledInstances
<1>20. FanoutTypes'
  BY <1>1, <1>2, <1>4, <1>5, <1>15 DEF FanoutTypes
<1> QED
  BY <1>11, <1>15, <1>16, <1>17, <1>18, <1>19, <1>20 DEF FanoutInv

-----------------------------------------------------------------------------
(* Together.                                                                 *)

LEMMA FanoutStarts == FanoutInit => FanoutInv
<1> SUFFICES ASSUME FanoutInit PROVE FanoutInv
  OBVIOUS
<1>1. /\ made = <<>> /\ requests = {} /\ unheard = <<>> /\ waits = "idle" /\ report = <<>> /\ progress = <<>>
  BY DEF FanoutInit
<1>2. TaskIds = {} /\ DOMAIN unheard = {} /\ DOMAIN progress = {} /\ DOMAIN report = {} /\ Len(report) = 0
  BY <1>1 DEF TaskIds
<1>3. progress = [t \in DOMAIN progress |-> progress[t]]
  BY <1>1
<1>4. FanoutTypes
  BY <1>1, <1>2, <1>3, FanoutAssumption DEF FanoutTypes
<1>5. RowsFit /\ RequestsFit /\ Alone /\ NewsFits /\ ProgressFits /\ InstancesFit /\ ReportFits
  BY <1>1, <1>2 DEF RowsFit, RequestsFit, Alone, NewsFits, ProgressFits, InstancesFit, ReportFits
<1> QED
  BY <1>4, <1>5 DEF FanoutInv

LEMMA FanoutSteps == FanoutInv /\ [FanoutNext]_fanoutVars => FanoutInv'
<1> SUFFICES ASSUME FanoutInv, [FanoutNext]_fanoutVars PROVE FanoutInv'
  OBVIOUS
<1>1. ASSUME NEW c \in requests,
             \/ Intents(c) \/ EnsuresTask(c) \/ Retries(c) \/ Advances(c) \/ Fails(c) \/ Cuts(c)
             \/ CliEnsures(c) \/ CliHears(c) \/ PanelHears(c)
      PROVE  FanoutInv'
  BY <1>1, IntentsKeeps, EnsuresTaskKeeps, RetriesKeeps, AdvancesKeeps, FailsKeeps, CutsKeeps, CliEnsuresKeeps,
     CliHearsKeeps, PanelHearsKeeps
<1>2. ASSUME NEW t \in TaskIds, PanelRetries(t) PROVE FanoutInv'
  BY <1>2, PanelRetriesKeeps
<1>3. CASE DaemonStops \/ CliAsks \/ Submits \/ HearsNews
  BY <1>3, DaemonStopsKeeps, CliAsksKeeps, SubmitsKeeps, HearsNewsKeeps
<1>4. CASE UNCHANGED fanoutVars
  <2>1. UNCHANGED <<made, requests, unheard, waits, report, progress, twice>>
    BY <1>4 DEF fanoutVars
  <2> QED
    BY <2>1 DEF FanoutInv, FanoutTypes, RowsFit, RequestsFit, RequestFits, Alone, NewsFits, NewsFit, ProgressFits,
                InstancesFit, ReportFits, TaskIds, Ending, Running, Begun, Instance, Creates
<1> QED
  BY <1>1, <1>2, <1>3, <1>4 DEF FanoutNext

LEMMA FanoutTells == FanoutInv => CreationIsReported
<1> SUFFICES ASSUME FanoutInv PROVE CreationIsReported
  OBVIOUS
<1>1. FanoutTypes /\ ProgressFits /\ InstancesFit /\ ReportFits
  BY DEF FanoutInv
<1>2. \A i \in DOMAIN report : report[i] # 0 => made[report[i]].ran /\ made[report[i]].by = i
  BY <1>1 DEF ReportFits
<1>3. \A i \in (1 .. Agents) \ twice : \A t, u \in TaskIds : made[t].by = i /\ made[u].by = i => t = u
  BY <1>1 DEF InstancesFit
<1>4. ASSUME unheard = <<>>, NEW t \in DOMAIN progress
      PROVE  /\ ~made[t].failed => ~progress[t].failed /\ made[t].status # "active"
             /\ progress[t].current > 2 /\ ~made[t].failed => progress[t].current <= made[t].stage
  <2>1. ~Ending(t, 1)
    BY <1>4 DEF Ending
  <2> QED
    BY <1>1, <1>4, <2>1 DEF ProgressFits
<1> QED
  BY <1>2, <1>3, <1>4 DEF CreationIsReported

\* What the clients say of the tasks they made is so, for any number of instances and tasks,
\* however often connections are cut, setups fail and the daemon ends.
THEOREM CreationIsTrue == FanoutSpec => []CreationIsReported
<1>1. FanoutSpec => []FanoutInv
  BY FanoutStarts, FanoutSteps, PTL DEF FanoutSpec
<1> QED
  BY <1>1, FanoutTells, PTL
=============================================================================
