---------------------------- MODULE Transcripts ----------------------------
(***************************************************************************)
(* The conversation of an engine as its window shows it: the file the      *)
(* engine writes, the reader that gives it out in pages                    *)
(* (engine/transcript-reader.ts, claude/transcript.ts, codex/transcript.ts,*)
(* http/transcript.ts), the cache that joins the pages                     *)
(* (stores/transcript.ts, transcript/TranscriptView.tsx), and the watcher  *)
(* that finds the session of an engine that names it itself                *)
(* (engine/codex/rollout.ts, engine/bootstrap.ts).                         *)
(*                                                                         *)
(* An entry is the number of its line in the file of its session; a line   *)
(* that is being written is there in part.  The view asks every two        *)
(* seconds, whether or not its last request was answered.                  *)
(***************************************************************************)
EXTENDS Naturals, SequencesExt

CONSTANTS
  PageMax,      \* entries in a page
  MaxLines, MaxFlights, MaxShown   \* bounds: lines of a session, requests under way, entries
                \* that are shown when the view asks

ASSUME TranscriptsAssumption == {PageMax, MaxLines, MaxFlights, MaxShown} \subseteq Nat \ {0}

VARIABLES
  sid,          \* engine_session_id of the tab
  logs,        \* of each session, how many lines its file has, and whether another began
  newest,       \* the session whose file was written last since the tab was started
  watching,     \* the watcher is armed
  shown,        \* the cache of the view: its entries and its cursor
  visible,      \* the transcript is shown, not the terminal
  flights,      \* the requests under way, in the order in which they were sent
  overtook,     \* history: a later request was served or answered first,
                \* or sent before the answer to this one emptied the cache
  tailed        \* history: another engine wrote in the worktree since the tab was started

transcriptVars == <<sid, logs, newest, watching, shown, visible, flights, overtook, tailed>>

-----------------------------------------------------------------------------
Unset == "unset"
\* Of the tab: the first, and the one after the engine was started afresh.  Of the worktree: one
\* that ended before, and one of another terminal.
Own == {"first", "afresh"}
Sessions == Own \cup {"before", "elsewhere"}
NoCursor == [of |-> Unset, identity |-> <<0, FALSE>>, at |-> 0]

\* buildTranscriptIdentity: size and time change with every write.
Identity(s) == <<logs[s].lines, logs[s].part>>
Entries(s, from, to) == [i \in 1..(to - from) |-> <<s, from + i>>]
Page(reset, entries, cursor) ==
  [available |-> TRUE, reset |-> reset, entries |-> entries, cursor |-> cursor]
Unavailable == [Page(FALSE, <<>>, NoCursor) EXCEPT !.available = FALSE]

\* The cursor is where the page ended, and none if that is the end of the file.
NextCursor(s, upTo) ==
  IF upTo = logs[s].lines THEN NoCursor ELSE [of |-> s, identity |-> Identity(s), at |-> upTo]

\* decodeTranscriptCursor and the checks of the reader: the cursor is of another session, or of
\* a file that was written since.
Stale(s, cursor) == cursor.of # s \/ cursor.identity # Identity(s)

Continues(s, cursor, reset) ==
  LET lines == logs[s].lines
      upTo == IF cursor.at + PageMax < lines THEN cursor.at + PageMax ELSE lines IN
  Page(reset, Entries(s, cursor.at, upTo), NextCursor(s, upTo))

\* As Resets, but the page goes on from the cursor.
Resets_InPlace(s, cursor) == Continues(s, cursor, TRUE)

\* The page that empties the cache; the next request starts the file again.
Resets(s, cursor) == Page(TRUE, <<>>, NoCursor)

\* readIncrementalTranscript: a line that cannot be parsed is passed over.
Reads(s, cursor) ==
  IF logs[s] = [lines |-> 0, part |-> FALSE] THEN Page(FALSE, <<>>, NoCursor)
  ELSE IF cursor # NoCursor /\ Stale(s, cursor) THEN Resets(s, cursor)
  ELSE Continues(s, cursor, FALSE)

\* readTabTranscript
Answer(cursor) == IF sid = Unset THEN Unavailable ELSE Reads(sid, cursor)

-----------------------------------------------------------------------------
(* The engine.                                                              *)

\* The session the engine of the tab is in, whatever the tab takes it for.
Current == IF sid = "afresh" THEN "afresh" ELSE "first"

EngineWrites(s) ==
  /\ s \in {Current, "elsewhere"}
  /\ IF logs[s].part
     THEN logs' = [logs EXCEPT ![s] = [lines |-> @.lines + 1, part |-> FALSE]]
     ELSE /\ logs[s].lines < MaxLines
          /\ \/ logs' = [logs EXCEPT ![s].part = TRUE]
             \/ logs' = [logs EXCEPT ![s].lines = @ + 1]
  /\ newest' = s
  /\ tailed' = (tailed \/ s = "elsewhere")
  /\ UNCHANGED <<sid, watching, shown, visible, flights, overtook>>

\* A heal or a change of the engine starts a session of a new name.
StartsAfresh ==
  /\ sid \in Sessions \ {"afresh"}
  /\ sid' = "afresh"
  /\ UNCHANGED <<logs, newest, watching, shown, visible, flights, overtook, tailed>>

\* The notify command of an engine at the end of a turn names the session it is in.
Notified ==
  /\ logs[Current].lines > 0 /\ sid # Current
  /\ sid' = Current
  /\ UNCHANGED <<logs, newest, watching, shown, visible, flights, overtook, tailed>>

\* A tick of the watcher: it stops once the session is known, or the newest file of the
\* worktree since the start is taken for the one of the tab.
WatcherTicks ==
  /\ watching
  /\ IF sid # Unset THEN watching' = FALSE /\ UNCHANGED sid
     ELSE newest # Unset /\ sid' = newest /\ watching' = FALSE
  /\ UNCHANGED <<logs, newest, shown, visible, flights, overtook, tailed>>

-----------------------------------------------------------------------------
(* The view.                                                                *)

Shows ==
  /\ visible' = ~visible
  /\ UNCHANGED <<sid, logs, newest, watching, shown, flights, overtook, tailed>>

\* refreshVisible, when the view is mounted and every two seconds.
Polls ==
  /\ visible
  /\ Len(flights) < MaxFlights /\ Len(shown.entries) <= MaxShown
  /\ flights' = Append(flights, [cursor |-> shown.cursor, answered |-> FALSE, page |-> Unavailable])
  /\ UNCHANGED <<sid, logs, newest, watching, shown, visible, overtook, tailed>>

ServesPage(i) ==
  /\ ~flights[i].answered
  /\ flights' = [flights EXCEPT ![i].answered = TRUE, ![i].page = Answer(flights[i].cursor)]
  /\ overtook' = (overtook \/ \E j \in 1..(i - 1) : ~flights[j].answered)
  /\ UNCHANGED <<sid, logs, newest, watching, shown, visible, tailed>>

\* applyPage, mergeTranscriptPage; an engine without a transcript gets its terminal back.
AppliesPage(i) ==
  /\ flights[i].answered
  /\ LET page == flights[i].page IN
     /\ shown' = [cursor |-> page.cursor,
                  entries |-> IF page.reset THEN page.entries ELSE shown.entries \o page.entries]
     /\ visible' = (visible /\ page.available)
  /\ overtook' = (overtook \/ i > 1 \/ (flights[i].page.reset /\ Len(flights) > 1))
  /\ flights' = RemoveAt(flights, i)
  /\ UNCHANGED <<sid, logs, newest, watching, tailed>>

-----------------------------------------------------------------------------
\* An engine whose session Coolie names, or one that names it itself.
TranscriptsInit ==
  /\ \/ sid = "first" /\ watching = FALSE
     \/ sid = Unset /\ watching = TRUE
  /\ logs = [s \in Sessions |-> [lines |-> IF s = "before" THEN 1 ELSE 0, part |-> FALSE]]
  /\ newest = Unset
  /\ shown = [entries |-> <<>>, cursor |-> NoCursor]
  /\ visible = FALSE
  /\ flights = <<>>
  /\ overtook = FALSE /\ tailed = FALSE

TranscriptsNext ==
  \/ \E s \in Sessions : EngineWrites(s)
  \/ StartsAfresh \/ Notified \/ WatcherTicks \/ Shows \/ Polls
  \/ \E i \in DOMAIN flights : ServesPage(i) \/ AppliesPage(i)

TranscriptsSpec == TranscriptsInit /\ [][TranscriptsNext]_transcriptVars

-----------------------------------------------------------------------------
TranscriptsTypeOK ==
  /\ sid \in Sessions \cup {Unset} /\ newest \in Sessions \cup {Unset}
  /\ logs \in [Sessions -> [lines : 0..MaxLines, part : BOOLEAN]]
  /\ ToSet(shown.entries) \subseteq Sessions \X (1..MaxLines)
  /\ Len(flights) <= MaxFlights
  /\ {watching, visible, overtook, tailed} \subseteq BOOLEAN

\* Whatever the engine writes between the pages, and in the middle of a line, the view leaves
\* no entry out: each one that is shown comes after the one before it; unless requests
\* overlapped, and the later one was first or the earlier one emptied the cache.  And as long
\* as no other engine writes in the worktree, it is the conversation of the tab.
TranscriptHolds ==
  /\ ~overtook => \A i \in DOMAIN shown.entries : LET e == shown.entries[i] IN
       e[2] > 1 => \E j \in 1..(i - 1) : shown.entries[j] = <<e[1], e[2] - 1>>
  /\ ~tailed => \A i \in DOMAIN shown.entries : shown.entries[i][1] \in Own

\* The transcript is read "incrementally, by a cursor": no entry is shown twice.
EntriesOnce == IsInjective(shown.entries)
=============================================================================
