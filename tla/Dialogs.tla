------------------------------ MODULE Dialogs ------------------------------
(***************************************************************************)
(* What the keyboard does in a window of the desktop client: the stack of  *)
(* modals that keeps the shortcuts off (stores/ui.ts), the panels with     *)
(* their shortcuts (hotkeys/), the queue of confirm and prompt dialogs     *)
(* (chrome/dialogs.tsx) and the task commands that wait for their answer   *)
(* (sidebar/taskCommands.ts, sidebar/Sidebar.tsx, CommandPalette.tsx).     *)
(* The stack is a set: the code asks only whether it is empty.             *)
(***************************************************************************)
EXTENDS Naturals, Sequences, FiniteSets

CONSTANTS
  Owners,      \* tasks, and what else a command may act for
  Adopted,     \* those whose worktree Coolie did not make
  NoOwner,     \* no task
  MaxDialogs,     \* bound: dialogs asked and calls made
  MaxNews      \* bound: changes made by others

ASSUME DialogConstants ==
  Adopted \subseteq Owners /\ NoOwner \notin Owners /\ {MaxDialogs, MaxNews} \subseteq Nat

VARIABLES
  panels,      \* the open panels: cheatsheet, palette, settings, inbox
  stack,       \* modalStack
  chooser,     \* projectPickerOpen of the sidebar
  guide,       \* tmux on the PATH: "asked", "found" or "missing"
  asked,       \* the requests of the dialogs, the first is shown
  calls,       \* requests to the daemon without an answer yet
  chosen,      \* the selected task
  dispatching, \* dispatchMode
  tasks,       \* the state of each task: [stage, dirty]
  mention,     \* the composer's picker: "closed", "above" or "below" the layer of the tabs
  did, granted,\* history: calls made; requests accepted
  asks, news   \* counters of the bounds

dialogVars == <<panels, stack, chooser, guide, asked, calls, chosen, dispatching,
                tasks, mention, did, granted, asks, news>>

Panels == {"cheatsheet", "palette", "settings", "inbox"}
Modals == Panels \cup {"chooser", "guide", "dialog"}

\* What a confirm dialog guards, and the prompts; a prompt of the last row is sent whatever the answer.
Confirms == {"archive", "force", "delete", "merge"}
Prompts == {"rename", "adopt", "checkpoint"}
Defaulted == {"finish", "adoptAs"}
Request == [op : Confirms \cup Prompts \cup Defaulted \cup {"close"}, owner : Owners]

\* Property: type correctness.
DialogsTypeOK ==
  /\ panels \subseteq Panels /\ stack \subseteq Modals
  /\ chooser \in BOOLEAN /\ guide \in {"asked", "found", "missing"}
  /\ asked \in Seq(Request) /\ calls \subseteq Request
  /\ chosen \in Owners \cup {NoOwner} /\ dispatching \in BOOLEAN
  /\ tasks \in [Owners -> [stage : {"active", "archived", "gone"}, dirty : BOOLEAN]]
  /\ mention \in {"closed", "above", "below"}
  /\ did \subseteq Request /\ granted \subseteq Request
  /\ asks \in 0 .. MaxDialogs /\ news \in 0 .. MaxNews

DialogsInit ==
  /\ panels = {} /\ stack = {} /\ chooser = FALSE /\ guide = "asked"
  /\ asked = <<>> /\ calls = {} /\ dispatching = FALSE
  /\ chosen \in Owners \cup {NoOwner}
  /\ tasks = [t \in Owners |-> [stage |-> "active", dirty |-> FALSE]]
  /\ mention = "closed" /\ did = {} /\ granted = {} /\ asks = 0 /\ news = 0

-----------------------------------------------------------------------------
(* The panels.  Opening one closes its rivals; opening and closing both    *)
(* take the rivals out of the stack.                                       *)

Rivals(p) == CASE p = "cheatsheet" -> {"palette", "settings"}
               [] p = "palette"    -> {"cheatsheet", "settings"}
               [] p = "settings"   -> {"cheatsheet", "palette", "inbox"}
               [] p = "inbox"      -> {"cheatsheet", "palette", "settings"}

Opened(open, p, on) == IF on THEN (open \ Rivals(p)) \cup {p} ELSE open \ {p}

\* A plausible slip: a panel is put on the stack or taken off it, and its rivals are left there.
Stacked_Alone(st, p, on) == IF on THEN st \cup {p} ELSE st \ {p}

Stacked(st, p, on) == (st \ (Rivals(p) \cup {p})) \cup (IF on THEN {p} ELSE {})

\* setCheatsheet, setPalette, setSettings and setInboxOpen, from the panels and the stack given.
\* The sidebar closes its project picker when the settings open.
Sets(open, st, p, on) ==
  LET settles == p = "settings" /\ on
  IN /\ panels' = Opened(open, p, on)
     /\ stack' = Stacked(st, p, on) \ (IF settles THEN {"chooser"} ELSE {})
     /\ chooser' = (chooser /\ ~settles)

Chooses(on) ==
  /\ chooser' = on
  /\ stack' = IF on THEN stack \cup {"chooser"} ELSE stack \ {"chooser"}

\* What is rendered: a dialog hides the settings and the project picker, the settings the picker.
OnScreen ==
  (panels \ (IF asked # <<>> THEN {"settings"} ELSE {}))
  \cup (IF chooser /\ asked = <<>> /\ "settings" \notin panels THEN {"chooser"} ELSE {})
  \cup (IF guide = "missing" THEN {"guide"} ELSE {})
  \cup (IF asked # <<>> THEN {"dialog"} ELSE {})

\* Dialogs, settings and the project picker keep Tab to themselves; from the other modals it leads
\* on to the buttons behind them.
TabLeaves == OnScreen \cap {"dialog", "settings", "chooser"} = {}

-----------------------------------------------------------------------------
(* Dialogs and calls.                                                      *)

Asks(r, st) ==
  /\ asks < MaxDialogs /\ asks' = asks + 1
  /\ asked' = Append(asked, r)
  /\ stack' = IF asked = <<>> THEN st \cup {"dialog"} ELSE st
  /\ UNCHANGED <<calls, did>>

Calls(r) ==
  /\ asks < MaxDialogs /\ asks' = asks + 1
  /\ calls' = calls \cup {r} /\ did' = did \cup {r}

Goes(t) == chosen' = t /\ dispatching' = FALSE /\ mention' = IF chosen = t THEN mention ELSE "closed"

\* The continuation of a request: what is sent or asked next, for the task the request was made
\* for, and not for the one selected by now.
ForWhom(r) == r.owner

\* Adopting a worktree asks for its number, then for a name.
AsksName(r) == [r EXCEPT !.op = "adoptAs"]

Completes(yes) ==
  LET r == Head(asked)
      rest == Tail(asked)
      then == IF r.op \in Defaulted \/ (yes /\ r.op # "adopt")
              THEN {[op |-> r.op, owner |-> ForWhom(r)]} ELSE {}
      next == IF r.op = "adopt" /\ yes THEN Append(rest, AsksName(r)) ELSE rest
  IN /\ asked # <<>>
     /\ asked' = next
     /\ stack' = IF next = <<>> THEN stack \ {"dialog"} ELSE stack
     /\ calls' = calls \cup then /\ did' = did \cup then
     /\ granted' = IF yes THEN granted \cup {r} ELSE granted
     /\ UNCHANGED <<panels, chooser, guide, chosen, dispatching, tasks, mention, asks, news>>

\* The host shows the first request and takes its keys before anything else does.
Decides == \E yes \in BOOLEAN : Completes(yes)

\* A task command of the sidebar's keys, the palette or the row menu.  The first archive of an
\* adopted task is confirmed, any other is sent; a refusal asks for the force (Replies).
Commands(r, st) ==
  IF r.op = "archive" /\ r.owner \notin Adopted
  THEN Calls(r) /\ stack' = st /\ UNCHANGED asked
  ELSE Asks(r, st)

TaskOps == {"archive", "delete", "rename"}
PaletteOps == TaskOps \cup {"checkpoint"}
MenuOps == TaskOps \cup {"finish", "merge", "adopt"}

\* The daemon's answer: a dirty worktree refuses the archive without force; a deleted task is
\* no longer selected; a finished one is shown.
Replies(c) ==
  LET t == c.owner
      stage(s) == tasks' = [tasks EXCEPT ![t].stage = s]
      refused == c.op = "archive" /\ tasks[t].dirty
  IN /\ c \in calls /\ calls' = calls \ {c}
     /\ \/ /\ refused /\ asks < MaxDialogs /\ asks' = asks + 1
           /\ asked' = Append(asked, [c EXCEPT !.op = "force"])
           /\ stack' = stack \cup {"dialog"}
           /\ UNCHANGED <<tasks, chosen, dispatching, mention>>
        \/ /\ UNCHANGED <<asked, stack, asks>>
           /\ \/ c.op \in {"archive", "force"} /\ ~refused /\ stage("archived")
                 /\ mention' = (IF chosen = t THEN "closed" ELSE mention)
                 /\ UNCHANGED <<chosen, dispatching>>
              \/ c.op = "delete" /\ stage("gone") /\ UNCHANGED dispatching
                 /\ chosen' = (IF chosen = t THEN NoOwner ELSE chosen)
                 /\ mention' = (IF chosen = t THEN "closed" ELSE mention)
              \/ c.op \in {"finish", "merge"} /\ Goes(t) /\ UNCHANGED tasks
              \/ c.op \in {"rename", "adoptAs", "close", "checkpoint"} /\ UNCHANGED <<tasks, chosen, dispatching, mention>>
              \/ UNCHANGED <<tasks, chosen, dispatching, mention>>   \* failed: a toast
     /\ UNCHANGED <<panels, chooser, guide, did, granted, news>>

-----------------------------------------------------------------------------
(* Shortcuts and buttons.                                                  *)

\* The tabs of the selected task are on the screen, and with them their layer of shortcuts.
Centre == chosen # NoOwner /\ ~dispatching /\ tasks[chosen].stage = "active"

Keys == Panels \cup {"jump", "attention", "new", "tabRename", "tabClose"}

\* The layer of the window: the panels, the tasks by number and by attention, a new task.  The
\* composer's picker is pushed after it and swallows the last.
AppRuns(k, open, st) ==
  \/ /\ k \in Panels /\ Sets(open, st, k, k \notin open)
     /\ UNCHANGED <<asked, calls, did, asks, chosen, dispatching, mention>>
  \/ /\ panels' = open /\ stack' = st /\ UNCHANGED <<chooser, asked, calls, did, asks>>
     /\ \/ k = "jump" /\ \E t \in Owners : tasks[t].stage = "active" /\ Goes(t)
        \/ k = "attention" /\ \E t \in Owners : tasks[t].stage # "gone" /\ Goes(t)
        \/ k = "new" /\ mention = "closed" /\ dispatching' = TRUE /\ UNCHANGED <<chosen, mention>>

\* The layer of the tabs; the composer's picker swallows "close" while its layer is above it.
TabRuns(k, open, st) ==
  /\ Centre /\ panels' = open /\ UNCHANGED <<chooser, chosen, dispatching, mention>>
  /\ \/ k = "tabRename" /\ Asks([op |-> "rename", owner |-> chosen], st)
     \/ /\ k = "tabClose" /\ mention # "above"
        /\ Calls([op |-> "close", owner |-> chosen]) /\ stack' = st /\ UNCHANGED asked

\* dispatchHotkeyId: the last layer pushed that knows the action runs it.
Runs(k, open, st) == AppRuns(k, open, st) \/ TabRuns(k, open, st)

\* A chord runs its action only while no modal is on the stack.
Presses(k) ==
  /\ stack = {} /\ Runs(k, panels, stack)
  /\ UNCHANGED <<guide, tasks, granted, news>>

PaletteOffers == Keys \ {"palette"}

\* The palette closes, then runs what was chosen, whatever else is on the stack.
PaletteRuns ==
  /\ "palette" \in panels /\ asked = <<>>
  /\ LET open == Opened(panels, "palette", FALSE)
         st == Stacked(stack, "palette", FALSE)
     IN \/ \E k \in PaletteOffers : Runs(k, open, st)
        \/ /\ chosen # NoOwner
           /\ \E op \in PaletteOps : Commands([op |-> op, owner |-> chosen], st)
           /\ panels' = open /\ UNCHANGED <<chooser, chosen, dispatching, mention>>
  /\ UNCHANGED <<guide, tasks, granted, news>>

\* The buttons of the sidebar and the footer, by mouse or with Tab.
Buttons ==
  /\ TabLeaves
  /\ \/ \E p \in {"cheatsheet", "settings", "inbox"} : Sets(panels, stack, p, TRUE)
     \/ Chooses(TRUE) /\ UNCHANGED panels
  /\ UNCHANGED <<guide, asked, calls, chosen, dispatching, tasks, mention, did, granted, asks, news>>

\* The keys of the list of tasks and the menu of a row.
TaskKeys(t) ==
  /\ TabLeaves /\ tasks[t].stage # "gone"
  /\ \E op \in MenuOps : /\ op = "archive" => tasks[t].stage = "active"
                         /\ Commands([op |-> op, owner |-> t], stack)
  /\ UNCHANGED <<panels, chooser, guide, chosen, dispatching, tasks, mention, granted, news>>

Selects(t) ==
  /\ TabLeaves /\ tasks[t].stage # "gone" /\ Goes(t)
  /\ UNCHANGED <<panels, stack, chooser, guide, asked, calls, tasks, did, granted, asks, news>>

\* Escape or a click beside a panel.
Dismisses(p) ==
  /\ p \in panels /\ asked = <<>> /\ Sets(panels, stack, p, FALSE)
  /\ UNCHANGED <<guide, asked, calls, chosen, dispatching, tasks, mention, did, granted, asks, news>>

\* The project picker is left, or a project is opened in it and a task is started there.
LeavesChooser ==
  /\ "chooser" \in OnScreen /\ Chooses(FALSE)
  /\ dispatching' \in {dispatching, TRUE}
  /\ mention' = IF dispatching' # dispatching THEN "closed" ELSE mention
  /\ UNCHANGED <<panels, guide, asked, calls, chosen, tasks, did, granted, asks, news>>

\* An item of the inbox: go there and close it.
InboxGoes(t) ==
  /\ "inbox" \in panels /\ asked = <<>> /\ tasks[t].stage # "gone"
  /\ Goes(t) /\ Sets(panels, stack, "inbox", FALSE)
  /\ UNCHANGED <<guide, asked, calls, tasks, did, granted, asks, news>>

\* tmuxOnPath answers, at the start or when the user tries again.
FindsTmux(found) ==
  /\ guide # "found"
  /\ guide' = IF found THEN "found" ELSE "missing"
  /\ stack' = IF found THEN stack \ {"guide"} ELSE stack \cup {"guide"}
  /\ UNCHANGED <<panels, chooser, asked, calls, chosen, dispatching, tasks, mention, did, granted, asks, news>>

\* The composer's picker pushes its layer when it opens and takes it off when it closes.
Mentions ==
  /\ Centre /\ mention' = IF mention = "closed" THEN "above" ELSE "closed"
  /\ UNCHANGED <<panels, stack, chooser, guide, asked, calls, chosen, dispatching, tasks, did, granted, asks, news>>

\* The list of tabs changes: TabsBar takes its layer off and pushes it again, on top.
TabsChange ==
  /\ news < MaxNews /\ news' = news + 1
  /\ Centre /\ mention = "above" /\ mention' = "below"
  /\ UNCHANGED <<panels, stack, chooser, guide, asked, calls, chosen, dispatching, tasks, did, granted, asks>>

\* The agent edits files; another client archives or brings back.
OthersChange ==
  /\ news < MaxNews /\ news' = news + 1
  /\ \E t \in Owners :
       /\ tasks[t].stage # "gone"
       /\ \/ tasks' = [tasks EXCEPT ![t].dirty = ~@]
          \/ tasks' = [tasks EXCEPT ![t].stage = IF @ = "active" THEN "archived" ELSE "active"]
       /\ mention' = IF chosen = t /\ tasks'[t].stage # "active" THEN "closed" ELSE mention
  /\ UNCHANGED <<panels, stack, chooser, guide, asked, calls, chosen, dispatching, did, granted, asks>>

DialogsNext ==
  \/ \E k \in Keys : Presses(k)
  \/ PaletteRuns \/ Buttons \/ LeavesChooser \/ Decides \/ Mentions \/ TabsChange \/ OthersChange
  \/ \E t \in Owners : TaskKeys(t) \/ Selects(t) \/ InboxGoes(t)
  \/ \E p \in Panels : Dismisses(p)
  \/ \E found \in BOOLEAN : FindsTmux(found)
  \/ \E c \in calls : Replies(c)

DialogsSpec == DialogsInit /\ [][DialogsNext]_dialogVars

-----------------------------------------------------------------------------
\* The shortcuts are off only while a modal is on the screen that can be closed.
NeverDead == stack # {} => OnScreen # {}

\* While a dialog is asked no shortcut runs.
AsksAreModal == asked # <<>> => "dialog" \in stack

\* What needs a confirmation was confirmed for that very task.
ConfirmedForIt ==
  \A c \in did :
    c.op \in {"force", "delete", "merge"} \/ (c.op = "archive" /\ c.owner \in Adopted) => c \in granted

\* Property: whatever order panels, dialogs, answers and palette commands come in, the stack that
\* keeps the shortcuts off never outlives what is on the screen (the window would be deaf to every
\* chord), no shortcut runs under a dialog, and a forced archive, a deletion or a merge acts for the
\* task its dialog named, though the selection moved on.
DialogsHold == NeverDead /\ AsksAreModal /\ ConfirmedForIt

\* Not run, it fails: a modal on the screen keeps the shortcuts off.  With Tab out of the inbox the
\* cheatsheet opens beside it, and closing the inbox takes the cheatsheet off the stack as well.
ShownBlocks == OnScreen # {} => stack # {}

\* Not run, it fails: the composer's picker swallows the tab shortcuts while it is open.
PickerSwallows ==
  [][mention # "closed" /\ mention' = mention =>
     \A c \in calls' \ calls : c.op # "close"]_dialogVars

\* Not run, it fails: a dialog that is cancelled does nothing.
CancelDoesNothing ==
  [][asked # <<>> /\ asked' = Tail(asked) /\ granted' = granted => calls' \subseteq calls]_dialogVars
=============================================================================
