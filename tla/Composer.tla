------------------------------ MODULE Composer ------------------------------
(***************************************************************************)
(* Where the user writes (composer/Composer.tsx, Dispatch.tsx, drafts.ts,  *)
(* attachments.ts): one composer that is handed from workspace to          *)
(* workspace, the one of the dispatch panel, the drafts that are kept for  *)
(* each of them, and the messages, pictures and dispatches that are under  *)
(* way while the user types on, goes elsewhere and comes back.             *)
(*                                                                         *)
(* A text is the set of the words and of the picture labels in it.  A word *)
(* is named by when it was typed, a label by its number, which the picture *)
(* has in the list of the composer.                                        *)
(***************************************************************************)
EXTENDS Naturals, FiniteSets, SequencesExt

CONSTANTS
  Spaces,       \* workspaces
  Projects,     \* what is dispatched is written for one of them
  MaxWords, MaxPictures, MaxPosts, MaxLosses   \* bounds: words typed, pictures attached,
                \* requests under way, requests that fail

ASSUME ComposerAssumption ==
  /\ Spaces \cap Projects = {}
  /\ {MaxWords, MaxPictures, MaxPosts, MaxLosses} \subseteq Nat

VARIABLES
  knownSpaces,       \* the workspaces there are
  place,       \* the workspace or the project whose text is shown
  text,        \* the text that is shown
  attached,    \* the pictures of the composer, in order
  drafts,      \* of each place, the text that is kept
  under,       \* the requests under way
  arrived,     \* what reached each workspace: words and pictures
  home,        \* history: where each word was typed, each picture attached
  misled, lostSome,   \* history: a failed message came back elsewhere; a text was overwritten
               \* or dropped
  losses

composerVars == <<knownSpaces, place, text, attached, drafts, under, arrived, home, misled,
                  lostSome, losses>>

-----------------------------------------------------------------------------
Places == Spaces \cup Projects
Word(n) == <<"word", n>>
Label(n) == <<"label", n>>
Picture(n) == <<"picture", n>>
Made(kind) == Cardinality({x \in DOMAIN home : x[1] = kind})
Notes(x, where) == home' = [y \in DOMAIN home \cup {x} |-> IF y = x THEN where ELSE home[y]]

\* translateAttachmentReferences: a label stands for the picture of that number.
Translated(body, pictures) ==
  {x \in body : x[1] = "word"} \cup {Picture(pictures[n]) : n \in {m \in DOMAIN pictures : Label(m) \in body}}

\* What is under way: kind, where it was sent from, the composer that sent it.
Flight(kind, body) ==
  [kind |-> kind, from |-> place, body |-> body, pictures |-> attached, gone |-> FALSE]
Flies(f) == Cardinality(under) < MaxPosts /\ f \notin under /\ under' = under \cup {f}

\* update
Write(t) == text' = t /\ drafts' = [drafts EXCEPT ![place] = t]

\* The composer of the dispatch panel is another one: what the old one began goes on with the
\* text and the pictures it had, but a picture for another workspace is forgotten.
Left(f) ==
  CASE f.gone -> f
    [] ~f.gone /\ f.kind # "picture" -> [f EXCEPT !.gone = TRUE]
    [] ~f.gone /\ f.kind = "picture" -> [f EXCEPT !.gone = TRUE, !.pictures = attached, !.body = text]
Leaves(flights) == {Left(f) : f \in {g \in flights : g.gone \/ g.kind # "picture" \/ g.from = place}}

\* The effects of a change of workspace: the draft is loaded, the pictures are forgotten.
Shows(there, kept) ==
  /\ place' = there
  /\ text' = kept[there]
  /\ attached' = <<>>
  /\ drafts' = kept

-----------------------------------------------------------------------------
(* The user.                                                                *)

Writes ==
  /\ Made("word") < MaxWords
  /\ LET w == Word(Made("word") + 1) IN Write(text \cup {w}) /\ Notes(w, place)
  /\ UNCHANGED <<knownSpaces, place, attached, under, arrived, misled, lostSome, losses>>

\* selectWs, setDispatchMode; the same composer if both are workspaces.
GoesTo(there) ==
  /\ there # place /\ there \in knownSpaces \cup Projects
  /\ ~(place \in Projects /\ there \in Projects)
  /\ Shows(there, drafts)
  /\ under' = IF place \in Spaces /\ there \in Spaces THEN under ELSE Leaves(under)
  /\ UNCHANGED <<knownSpaces, arrived, home, misled, lostSome, losses>>

\* Another project in the dispatch panel: the text is carried over, unless it is empty.
Carries(there) ==
  /\ place \in Projects /\ there \in Projects \ {place}
  /\ LET text0 == drafts[place] IN
     IF text0 = {} THEN Shows(there, drafts) /\ UNCHANGED lostSome
     ELSE /\ Shows(there, [drafts EXCEPT ![place] = {}, ![there] = text0])
          /\ lostSome' = (lostSome \/ drafts[there] # {})
  /\ UNCHANGED <<knownSpaces, under, arrived, home, misled, losses>>

\* A comment on a diff is written for the workspace in which its dialog was opened, and
\* whatever is shown is loaded again.
Injects(there) ==
  /\ there \in knownSpaces
  /\ Made("word") < MaxWords
  /\ LET w == Word(Made("word") + 1) IN
     /\ Notes(w, there)
     /\ drafts' = [drafts EXCEPT ![there] = @ \cup {w}]
  /\ text' = drafts'[place]
  /\ lostSome' = (lostSome \/ ~(text \subseteq drafts[place]))
  /\ UNCHANGED <<knownSpaces, place, attached, under, arrived, misled, losses>>

\* deliver: the text is cleared at once.
SendsText ==
  /\ place \in Spaces /\ text # {}
  /\ Flies(Flight("message", text))
  /\ Write({}) /\ attached' = <<>>
  /\ UNCHANGED <<knownSpaces, place, arrived, home, misled, lostSome, losses>>

\* submit: one at a time of a panel (postingIntent), and only with a base branch and an engine
\* that can be used; the text is cleared by then, and what is not submitted goes nowhere.
Posting == \E f \in under : f.kind = "dispatch" /\ ~f.gone
Dispatches ==
  /\ place \in Projects /\ text # {}
  /\ Write({}) /\ attached' = <<>>
  /\ \/ ~Posting /\ Flies(Flight("dispatch", text)) /\ UNCHANGED <<lostSome, losses>>
     \/ Posting /\ lostSome' = TRUE /\ UNCHANGED <<under, losses>>
     \/ /\ losses < MaxLosses /\ losses' = losses + 1      \* no engine, or no branch
        /\ lostSome' = TRUE /\ UNCHANGED under
  /\ UNCHANGED <<knownSpaces, place, arrived, home, misled>>

Attaches ==
  /\ Made("picture") < MaxPictures
  /\ LET n == Made("picture") + 1 IN
     /\ Notes(Picture(n), place)
     /\ Flies([Flight("picture", {}) EXCEPT !.pictures = <<n>>])
  /\ UNCHANGED <<knownSpaces, place, text, attached, drafts, arrived, misled, lostSome, losses>>

-----------------------------------------------------------------------------
(* What comes back.                                                         *)

\* The server has the message.
Arrive(f, there) ==
  arrived' = [arrived EXCEPT ![there] = @ \cup Translated(f.body, f.pictures)]

Delivered(f) ==
  /\ f.kind = "message"
  /\ Arrive(f, f.from)
  /\ under' = under \ {f}
  /\ UNCHANGED <<knownSpaces, place, text, attached, drafts, home, misled, lostSome, losses>>

\* As Undelivered, but the text comes back to the composer only, and not to the draft.
Undelivered_NoDraft(f) ==
  /\ f.kind = "message"
  /\ losses < MaxLosses /\ losses' = losses + 1
  /\ \/ UNCHANGED arrived
     \/ Arrive(f, f.from)
  /\ IF f.gone THEN UNCHANGED <<text, attached>> ELSE text' = f.body /\ attached' = f.pictures
  /\ misled' = (misled \/ (~f.gone /\ place # f.from))
  /\ under' = under \ {f}
  /\ UNCHANGED <<knownSpaces, place, drafts, home, lostSome>>

\* The text of the message is written again, by the composer that sent it: into the draft of
\* the workspace it was sent from, and into what is shown.
Undelivered(f) ==
  /\ f.kind = "message"
  /\ losses < MaxLosses /\ losses' = losses + 1
  /\ \/ UNCHANGED arrived
     \/ Arrive(f, f.from)         \* only the answer was lost
  /\ drafts' = [drafts EXCEPT ![f.from] = f.body]
  /\ IF f.gone THEN UNCHANGED <<text, attached>> ELSE text' = f.body /\ attached' = f.pictures
  /\ misled' = (misled \/ (~f.gone /\ place # f.from))
  /\ lostSome' = (lostSome \/ drafts[f.from] # {} \/ (IF f.gone THEN place = f.from ELSE text # {}))
  /\ under' = under \ {f}
  /\ UNCHANGED <<knownSpaces, place, home>>

\* The new workspace is shown, wherever the user is.
Created(f) ==
  /\ f.kind = "dispatch"
  /\ \E w \in Spaces \ knownSpaces :
       /\ knownSpaces' = knownSpaces \cup {w}
       /\ Arrive(f, w)
       /\ Shows(w, drafts)
  /\ under' = IF place \in Spaces THEN under \ {f} ELSE Leaves(under \ {f})
  /\ UNCHANGED <<home, misled, lostSome, losses>>

\* The error is shown, the text is not.
NotCreated(f) ==
  /\ f.kind = "dispatch"
  /\ losses < MaxLosses /\ losses' = losses + 1
  /\ lostSome' = TRUE
  /\ under' = under \ {f}
  /\ UNCHANGED <<knownSpaces, place, text, attached, drafts, arrived, home, misled>>

\* A picture is there: its label goes into the text of the composer that sent it, but not when
\* that shows another workspace by now.
Uploaded(f) ==
  /\ f.kind = "picture"
  /\ IF f.gone
     THEN /\ drafts' = [drafts EXCEPT ![f.from] = f.body \cup {Label(Len(f.pictures) + 1)}]
          /\ lostSome' = (lostSome \/ ~(drafts[f.from] \subseteq f.body))
          /\ UNCHANGED <<text, attached>>
     ELSE /\ IF place = f.from
             THEN attached' = attached \o f.pictures /\ Write(text \cup {Label(Len(attached'))})
             ELSE UNCHANGED <<text, attached, drafts>>
          /\ UNCHANGED lostSome
  /\ under' = under \ {f}
  /\ UNCHANGED <<knownSpaces, place, arrived, home, misled, losses>>

-----------------------------------------------------------------------------
ComposerInit ==
  /\ \E w \in Spaces : knownSpaces = {w} /\ place = w
  /\ text = {} /\ attached = <<>>
  /\ drafts = [x \in Places |-> {}]
  /\ under = {}
  /\ arrived = [w \in Spaces |-> {}]
  /\ home = <<>>
  /\ misled = FALSE /\ lostSome = FALSE
  /\ losses = 0

ComposerNext ==
  \/ Writes \/ SendsText \/ Dispatches \/ Attaches
  \/ \E there \in Places : GoesTo(there) \/ Carries(there) \/ Injects(there)
  \/ \E f \in under : Delivered(f) \/ Undelivered(f) \/ Created(f) \/ NotCreated(f) \/ Uploaded(f)

ComposerSpec == ComposerInit /\ [][ComposerNext]_composerVars

-----------------------------------------------------------------------------
Texts == SUBSET ({Word(n) : n \in 1..MaxWords} \cup {Label(n) : n \in 1..MaxPictures})

ComposerTypeOK ==
  /\ knownSpaces \subseteq Spaces /\ place \in knownSpaces \cup Projects
  /\ text \in Texts /\ attached \in Seq(1..MaxPictures)
  /\ drafts \in [Places -> Texts]
  /\ \A f \in under : f.kind \in {"message", "dispatch", "picture"} /\ f.from \in Places /\ f.body \in Texts
  /\ {misled, lostSome} \subseteq BOOLEAN
  /\ losses \in 0..MaxLosses

\* What reaches a workspace was written for it or dispatched to it: words and pictures, of
\* uploads that end late, of messages that fail and of drafts that are carried over; unless
\* a message that failed came back while another workspace was shown.
WordsStayHome ==
  ~misled => \A w \in Spaces : \A x \in arrived[w] : home[x] \in {w} \cup Projects

\* Every word that was typed is in a draft, under way, or in a workspace, whatever ends late
\* and wherever the user goes; unless a text that failed or was carried over was put over
\* another, or one that was dispatched was dropped.
NothingTypedIsLost ==
  ~lostSome => \A x \in DOMAIN home : x[1] = "word" =>
    \/ \E y \in Places : x \in drafts[y]
    \/ \E f \in under : f.kind # "picture" /\ x \in f.body
    \/ \E w \in Spaces : x \in arrived[w]

\* What Composer.tsx says of a message under way: the user may go on with the next one, and
\* when it fails its draft is restored; so no word typed since is lost by it.
NextIsKept ==
  [][\A f \in under : Undelivered(f) => text \subseteq drafts'[place]]_composerVars

\* What the user writes arrives where it was meant for, and is not lost on the way.
WordsKept == WordsStayHome /\ NothingTypedIsLost
=============================================================================
