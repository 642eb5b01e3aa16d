------------------------------ MODULE MCTasks ------------------------------
(***************************************************************************)
(* One TLC run for eight components of the tasks that share no state here: *)
(* the tabs and tmux windows of a task, the zen layout of its session, the *)
(* transcript of a tab, its finish, its checkpoints, its environment with  *)
(* the setup, the board, and the receipts of its input.  Each behaviour is *)
(* one of one of them; the others stay as they began.                      *)
(***************************************************************************)
EXTENDS TabWindows, Layout, Transcripts, Finish, Checkpoints, Provision, Board, Receipts

CONSTANTS tab1, tab2, tab3, task1, task2, f1, f2, root1, root2, n1, n2, n3,
          k1, k2, body1, body2, e1, e2, sh, desk1, desk2

VARIABLE part   \* the component that runs

TasksParts == {"tabs", "layout", "transcripts", "finish", "checkpoints", "provision", "board", "receipts"}
tasksVars == <<part, tabVars, layoutVars, transcriptVars, finishVars, ckVars, provisionVars,
               boardVars, receiptVars>>

TasksInit ==
  /\ part \in TasksParts
  /\ TabsInit /\ FinishInit /\ CheckpointsInit /\ ProvisionInit /\ BoardInit
  /\ ReceiptsInit /\ LayoutInit /\ TranscriptsInit
  /\ part = "tabs" \/ runs[0] # Nobody
  /\ part = "finish" \/ remote
  /\ part = "provision" \/ <<setups, hasInit>> = <<0, FALSE>>
  /\ part = "transcripts" \/ watching
  /\ disk = {root1} /\ Open = {e1}

TasksNext ==
  /\ UNCHANGED part
  /\ IF part = "tabs" THEN TabsNext ELSE UNCHANGED tabVars
  /\ IF part = "layout" THEN LayoutNext ELSE UNCHANGED layoutVars
  /\ IF part = "transcripts" THEN TranscriptsNext ELSE UNCHANGED transcriptVars
  /\ IF part = "finish" THEN FinishNext ELSE UNCHANGED finishVars
  /\ IF part = "checkpoints" THEN CheckpointsNext ELSE UNCHANGED ckVars
  /\ IF part = "provision" THEN ProvisionNext ELSE UNCHANGED provisionVars
  /\ IF part = "board" THEN BoardNext ELSE UNCHANGED boardVars
  /\ IF part = "receipts" THEN ReceiptsNext ELSE UNCHANGED receiptVars

TasksSpec == TasksInit /\ [][TasksNext]_tasksVars

\* Bound of the tabs: no property speaks of them once a program ended by itself, a crash cut a
\* request in two, window 0 was a shell's, or a window was opened past rows that a failed heal left.
TabsBound == Undisturbed

\* Bound of the layout: a window selected in a terminal, or one end or failure of tmux.
LayoutBound == hands + breaks <= 1

\* Bound of the board: an order is dragged while one repository is there, two other changes are made
\* of at most two tasks.
BoardBound ==
  /\ drags + moves <= 2
  /\ drags = 1 => disk = {root1}
  /\ moves = 2 => last < 3
=============================================================================
