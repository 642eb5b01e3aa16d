--------------------------- MODULE Services_proofs ---------------------------
(***************************************************************************)
(* Theorems about the services of the daemon: the run scripts, the control *)
(* channel of tmux, the claim of the daemon and the background collector,  *)
(* each for any number of its processes, windows, commands and workspaces. *)
(* Every one of them is its own specification; they share no state.        *)
(***************************************************************************)
EXTENDS Daemon, Runs, TmuxControl, Collecting, TLAPS, SequenceTheorems

-----------------------------------------------------------------------------
(* The run scripts of a workspace.                                           *)

LEMMA RunsInitTyped == RunsInit => RunsTypeOK
BY RunsAssumption DEF RunsInit, RunsTypeOK, NoEntry, Ended, Running, Procs

\* The callbacks of a process leave an entry and strays that are of their types.
LEMMA ReentersTyped ==
  ASSUME RunsTypeOK, NEW p \in Procs, NEW status \in {Running} \cup Ended, Reenters(p, status)
  PROVE  /\ entry' \in [pid : 0..MaxRuns, status : {"none", Running} \cup Ended]
         /\ strayed' \in SUBSET Procs
BY RunsAssumption DEF RunsTypeOK, Reenters, Enter, Displaced, Procs, Running, Ended

LEMMA RunsStepTyped == RunsTypeOK /\ [RunsNext]_runVars => RunsTypeOK'
<1> SUFFICES ASSUME RunsTypeOK, [RunsNext]_runVars PROVE RunsTypeOK'
  OBVIOUS
<1> USE RunsAssumption
<1>1. CASE RunStarts
  <2>1. spawned' \in Procs
    BY <1>1 DEF RunStarts, RunsTypeOK, Procs
  <2> QED
    BY <1>1, <2>1 DEF RunStarts, RunsTypeOK, Enter, Procs, Running, Ended
<1>2. CASE StopAsks
  <2>1. CASE entry.pid \in living
    BY <1>2, <2>1 DEF StopAsks, RunsTypeOK
  <2>2. CASE entry.pid \notin living
    <3>1. row' \in Ended
      BY <1>2, <2>2 DEF StopAsks, Ended
    <3> QED
      BY <1>2, <2>2, <3>1 DEF StopAsks, RunsTypeOK, Running, Ended
  <2> QED BY <2>1, <2>2
<1>3. CASE RunsListed
  BY <1>3 DEF RunsListed, RunsTypeOK, NoEntry, Running, Ended
<1>4. CASE DaemonRestarts
  BY <1>4 DEF DaemonRestarts, RunsTypeOK, NoEntry, Running, Ended, Procs
<1>5. ASSUME NEW p \in Procs, RunPrints(p) PROVE RunsTypeOK'
  BY <1>5, ReentersTyped DEF RunPrints, RunsTypeOK
<1>6. ASSUME NEW p \in Procs, RunEnds(p) PROVE RunsTypeOK'
  <2>1. CASE p \in children
    <3>1. PICK status \in Ended : Reenters(p, status)
      BY <1>6, <2>1 DEF RunEnds
    <3> QED
      BY <1>6, <3>1, ReentersTyped DEF RunEnds, RunsTypeOK
  <2>2. CASE p \notin children
    BY <1>6, <2>2 DEF RunEnds, RunsTypeOK
  <2> QED BY <2>1, <2>2
<1>7. ASSUME NEW p \in Procs, RunCloses(p) PROVE RunsTypeOK'
  BY <1>7 DEF RunCloses, RunsTypeOK
<1>8. ASSUME NEW p \in Procs, StopEnds(p) PROVE RunsTypeOK'
  BY <1>8 DEF StopEnds, RunsTypeOK, Enter, Displaced, Procs, Running, Ended
<1>9. CASE UNCHANGED runVars
  BY <1>9 DEF runVars, RunsTypeOK
<1> QED
  BY <1>1, <1>2, <1>3, <1>4, <1>5, <1>6, <1>7, <1>8, <1>9 DEF RunsNext

\* Every variable of the run scripts keeps to its type (runs/manager.ts).
THEOREM RunsTyped == RunsSpec => []RunsTypeOK
BY RunsInitTyped, RunsStepTyped, PTL DEF RunsSpec

-----------------------------------------------------------------------------
\* Whatever a process that is put in the place of the entry displaces has strayed.
LEMMA ReentersAlone ==
  ASSUME OneProcess, NEW p, NEW status, Reenters(p, status)
  PROVE  living \ strayed' \subseteq {p} /\ entry'.pid = p
BY DEF OneProcess, Reenters, Enter, Displaced

LEMMA StepAlone == OneProcess /\ [RunsNext]_runVars => OneProcess'
<1> SUFFICES ASSUME OneProcess, [RunsNext]_runVars PROVE OneProcess'
  OBVIOUS
<1>1. CASE RunStarts
  BY <1>1 DEF RunStarts, OneProcess, Enter
<1>2. CASE StopAsks
  BY <1>2 DEF StopAsks, OneProcess
<1>3. CASE RunsListed
  BY <1>3 DEF RunsListed, OneProcess
<1>4. CASE DaemonRestarts
  BY <1>4 DEF DaemonRestarts, OneProcess
<1>5. ASSUME NEW p \in Procs, RunPrints(p) PROVE OneProcess'
  BY <1>5, ReentersAlone DEF RunPrints, OneProcess
<1>6. ASSUME NEW p \in Procs, RunEnds(p) PROVE OneProcess'
  <2>1. CASE p \in children
    <3>1. PICK status \in Ended : Reenters(p, status)
      BY <1>6, <2>1 DEF RunEnds
    <3> QED
      BY <1>6, <3>1, ReentersAlone DEF RunEnds, OneProcess
  <2>2. CASE p \notin children
    BY <1>6, <2>2 DEF RunEnds, OneProcess
  <2> QED BY <2>1, <2>2
<1>7. ASSUME NEW p \in Procs, RunCloses(p) PROVE OneProcess'
  BY <1>7 DEF RunCloses, OneProcess
<1>8. ASSUME NEW p \in Procs, StopEnds(p) PROVE OneProcess'
  BY <1>8 DEF StopEnds, OneProcess, Enter, Displaced
<1>9. CASE UNCHANGED runVars
  BY <1>9 DEF runVars, OneProcess
<1> QED
  BY <1>1, <1>2, <1>3, <1>4, <1>5, <1>6, <1>7, <1>8, <1>9 DEF RunsNext

\* A run script has one process, beside those the daemon lost sight of: start, output, exit,
\* stop and the listing of the panel may come in any order, over any number of restarts.
THEOREM OneRun == RunsSpec => []OneProcess
<1>1. RunsInit => OneProcess
  BY DEF RunsInit, OneProcess
<1> QED
  BY <1>1, StepAlone, PTL DEF RunsSpec

-----------------------------------------------------------------------------
(* The control channel of tmux: what the child that is connected still owes. *)

\* The replies that are due, in order: that of the connection, then those of the commands.
Expected == IF awaitingGuard THEN <<Guard>> \o pending ELSE pending

\* Nothing waits where there is no child, and the one there is is the youngest.
Connected ==
  /\ child = 0 => pending = <<>>
  /\ child # 0 => child = generation /\ child \in alive
  /\ \A h \in Children : h > generation => pipe[h] = <<>> /\ asked[h] = <<>> /\ h \notin alive

\* What a child is still asked was issued and has not been run.
AskedIsUnrun ==
  /\ \A h \in Children : \A k \in DOMAIN asked[h] : asked[h][k] # Guard =>
       outcome[asked[h][k]] # "none" /\ executed[asked[h][k]] = "none"
  /\ \A c \in Commands : outcome[c] = "none" => executed[c] = "none"

\* A command is asked of one child, once.
AskedOnce ==
  \A h, i \in Children : \A k \in DOMAIN asked[h], l \in DOMAIN asked[i] :
    asked[h][k] = asked[i][l] /\ asked[h][k] # Guard => h = i /\ k = l

\* Of the replies that are due in the order E, the lines P are under way, and the commands A
\* are to be run yet; ran is what became of the others.
Owed(E, P, A, ran) ==
  /\ Len(E) = Len(P) + Len(A)
  /\ \A k \in 1..Len(P) : E[k] # Guard => ran[E[k]] = P[k]
  /\ \A k \in 1..Len(A) : A[k] = E[Len(P) + k]

\* The child that is connected owes what the daemon waits for.
InStep == child # 0 => Owed(Expected, pipe[child], asked[child], executed)

ControlInv ==
  ControlTypeOK /\ Connected /\ AskedIsUnrun /\ AskedOnce /\ RepliesMatch /\ InStep

Asked == Commands \cup {Guard}
Ran == {"done", "refused"}

LEMMA Numbered ==
  /\ MaxChildren \in Nat \ {0} /\ MaxCommands \in Nat \ {0}
  /\ Commands \subseteq Nat /\ Children \subseteq Nat /\ Guard \notin Commands /\ 0 \notin Children
BY ControlAssumption DEF Commands, Children, Guard

LEMMA ControlInitTyped == ControlInit => ControlTypeOK
<1> SUFFICES ASSUME ControlInit PROVE ControlTypeOK
  OBVIOUS
<1>1. <<>> \in Seq(Commands) /\ <<>> \in Seq(Asked) /\ <<>> \in Seq({"done", "refused"})
  OBVIOUS
<1>2. generation \in 0..MaxChildren /\ child \in 0..MaxChildren
  BY Numbered DEF ControlInit
<1>3. asked \in [Children -> Seq(Asked)] /\ pipe \in [Children -> Seq({"done", "refused"})]
  BY <1>1 DEF ControlInit
<1> QED
  BY <1>1, <1>2, <1>3 DEF ControlInit, ControlTypeOK, Asked

LEMMA ControlStepTyped == ControlTypeOK /\ [ControlNext]_controlVars => ControlTypeOK'
<1> SUFFICES ASSUME ControlTypeOK, [ControlNext]_controlVars PROVE ControlTypeOK'
  OBVIOUS
<1> USE Numbered
<1>1. ASSUME NEW c \in Commands, Exec(c) PROVE ControlTypeOK'
  <2>3. pending' \in Seq(Commands) /\ outcome' \in [Commands -> {"none", "waits", "ok", "failed"}]
    BY <1>1 DEF Exec, ControlTypeOK
  <2>1. CASE child # 0
    <3>1. child \in Children
      BY <2>1 DEF ControlTypeOK, Children
    <3>2. asked[child] \in Seq(Asked) /\ Append(asked[child], c) \in Seq(Asked)
      BY <3>1 DEF ControlTypeOK, Asked
    <3>3. asked' \in [Children -> Seq(Asked)]
      BY <1>1, <2>1, <3>1, <3>2 DEF Exec, ControlTypeOK, Asked
    <3> QED
      BY <1>1, <2>1, <2>3, <3>3 DEF Exec, ControlTypeOK, Asked
  <2>2. CASE child = 0
    <3>1. generation' \in 0..MaxChildren /\ child' \in Children /\ child' \in 0..MaxChildren
      BY <1>1, <2>2 DEF Exec, ControlTypeOK, Children
    <3>2. <<Guard, c>> \in Seq(Asked)
      BY DEF Asked
    <3>3. asked' \in [Children -> Seq(Asked)]
      BY <1>1, <2>2, <3>1, <3>2 DEF Exec, ControlTypeOK, Asked
    <3>4. awaitingGuard' \in BOOLEAN /\ alive' \subseteq Children /\ UNCHANGED <<executed, pipe>>
      BY <1>1, <2>2, <3>1 DEF Exec, ControlTypeOK
    <3> QED
      BY <2>3, <3>1, <3>3, <3>4 DEF ControlTypeOK, Asked
  <2> QED
    BY <2>1, <2>2
<1>2. ASSUME NEW g \in Children, Replies(g) PROVE ControlTypeOK'
  <2>1. PICK done \in {"done", "refused"} :
          /\ executed' = IF Head(asked[g]) = Guard THEN executed ELSE [executed EXCEPT ![Head(asked[g])] = done]
          /\ pipe' = [pipe EXCEPT ![g] = Append(@, done)]
    BY <1>2 DEF Replies
  <2>2. executed' \in [Commands -> {"none", "done", "refused"}]
    BY <2>1 DEF ControlTypeOK
  <2>3. Append(pipe[g], done) \in Seq({"done", "refused"}) /\ Tail(asked[g]) \in Seq(Asked)
    BY <1>2 DEF Replies, ControlTypeOK, Asked
  <2> QED
    BY <1>2, <2>1, <2>2, <2>3 DEF Replies, ControlTypeOK, Asked
<1>3. ASSUME NEW g \in Children, OnLine(g) PROVE ControlTypeOK'
  <2>1. Tail(pipe[g]) \in Seq({"done", "refused"})
    BY <1>3 DEF OnLine, ControlTypeOK
  <2>2. pipe' \in [Children -> Seq({"done", "refused"})]
    BY <1>3, <2>1 DEF OnLine, ControlTypeOK
  <2>3. awaitingGuard' \in BOOLEAN
    BY <1>3 DEF OnLine, ControlTypeOK
  <2>4. pending' \in Seq(Commands)
    <3>1. pending' = pending \/ (pending # <<>> /\ pending' = Tail(pending))
      BY <1>3 DEF OnLine
    <3>2. pending \in Seq(Commands) /\ (pending # <<>> => Tail(pending) \in Seq(Commands))
      BY DEF ControlTypeOK
    <3> QED
      BY <3>1, <3>2
  <2>5. outcome' \in [Commands -> {"none", "waits", "ok", "failed"}]
    BY <1>3 DEF OnLine, Settle, ControlTypeOK
  <2> QED
    BY <1>3, <2>2, <2>3, <2>4, <2>5 DEF OnLine, ControlTypeOK
<1>4. ASSUME NEW g \in Children, ControlChildExits(g) PROVE ControlTypeOK'
  <2>1. outcome' \in [Commands -> {"none", "waits", "ok", "failed"}] /\ pending' \in Seq(Commands)
    <3>1. FailAll \/ (outcome' = outcome /\ pending' = pending)
      BY <1>4 DEF ControlChildExits
    <3>2. outcome' \in [Commands -> {"none", "waits", "ok", "failed"}]
      BY <3>1 DEF FailAll, Settle, ControlTypeOK
    <3>3. CASE FailAll
      BY <3>2, <3>3 DEF FailAll
    <3> QED
      BY <3>1, <3>2, <3>3 DEF ControlTypeOK
  <2> QED
    BY <1>4, <2>1 DEF ControlChildExits, ControlTypeOK
<1>5. CASE TimesOut
  <2>1. outcome' \in [Commands -> {"none", "waits", "ok", "failed"}] /\ pending' \in Seq(Commands)
    BY <1>5 DEF TimesOut, FailAll, Settle, ControlTypeOK
  <2> QED
    BY <1>5, <2>1 DEF TimesOut, ControlTypeOK
<1>6. CASE UNCHANGED controlVars
  BY <1>6 DEF controlVars, ControlTypeOK
<1> QED
  BY <1>1, <1>2, <1>3, <1>4, <1>5, <1>6 DEF ControlNext

\* Failing what waits settles no command that was not issued, and tells none that it is ok.
LEMMA FailsAll ==
  ASSUME ControlTypeOK, FailAll, RepliesMatch, UNCHANGED executed
  PROVE  /\ pending' = <<>> /\ RepliesMatch'
         /\ \A c \in Commands : outcome'[c] = outcome[c] \/ outcome'[c] = "failed"
BY DEF FailAll, Settle, RepliesMatch, ControlTypeOK

\* A command joins the replies that are due.
LEMMA ExpectsMore ==
  ASSUME ControlTypeOK, NEW c \in Commands, pending' = Append(pending, c), awaitingGuard' = awaitingGuard
  PROVE  Expected \in Seq(Asked) /\ Expected' = Append(Expected, c)
<1>1. pending \in Seq(Asked) /\ <<Guard>> \in Seq(Asked) /\ c \in Asked
  BY DEF ControlTypeOK, Asked
<1> QED
  BY <1>1 DEF Expected

\* A line that comes in takes the first of the replies that are due.
LEMMA ExpectsLess ==
  ASSUME ControlTypeOK, awaitingGuard' = FALSE,
         \/ awaitingGuard /\ pending' = pending
         \/ ~awaitingGuard /\ pending # <<>> /\ pending' = Tail(pending)
  PROVE  Expected \in Seq(Asked) /\ Expected # <<>> /\ Expected' = Tail(Expected)
<1>1. pending \in Seq(Asked) /\ <<Guard>> \in Seq(Asked)
  BY DEF ControlTypeOK, Asked
<1> QED
  BY <1>1 DEF Expected, ControlTypeOK

\* A command that is issued is due last.
LEMMA OwedMore ==
  ASSUME NEW E \in Seq(Asked), NEW P \in Seq(Ran), NEW A \in Seq(Asked), NEW ran, NEW c \in Asked,
         Owed(E, P, A, ran)
  PROVE  Owed(Append(E, c), P, Append(A, c), ran)
<1>1. /\ Append(E, c) \in Seq(Asked) /\ Len(Append(E, c)) = Len(E) + 1
      /\ Append(A, c) \in Seq(Asked) /\ Len(Append(A, c)) = Len(A) + 1
      /\ Len(P) \in Nat /\ Len(A) \in Nat /\ Len(E) \in Nat
      /\ Append(E, c)[Len(E) + 1] = c /\ Append(A, c)[Len(A) + 1] = c
  OBVIOUS
<1>2. \A k \in 1..Len(E) : Append(E, c)[k] = E[k]
  OBVIOUS
<1>3. \A k \in 1..Len(A) : Append(A, c)[k] = A[k]
  OBVIOUS
<1>4. \A k \in 1..Len(P) : k \in 1..Len(E)
  BY <1>1 DEF Owed
<1>5. \A k \in 1..Len(Append(A, c)) : Append(A, c)[k] = Append(E, c)[Len(P) + k]
  <2> SUFFICES ASSUME NEW k \in 1..Len(A) + 1 PROVE Append(A, c)[k] = Append(E, c)[Len(P) + k]
    BY <1>1
  <2>1. CASE k = Len(A) + 1
    BY <1>1, <2>1 DEF Owed
  <2>2. CASE k \in 1..Len(A)
    <3>1. Len(P) + k \in 1..Len(E)
      BY <1>1, <2>2 DEF Owed
    <3> QED
      BY <1>2, <1>3, <2>2, <3>1 DEF Owed
  <2>3. k = Len(A) + 1 \/ k \in 1..Len(A)
    OBVIOUS
  <2> QED
    BY <2>1, <2>2, <2>3, Zenon
<1>6. Len(Append(E, c)) = Len(P) + Len(Append(A, c))
  BY <1>1 DEF Owed
<1>7. \A k \in 1..Len(P) : Append(E, c)[k] # Guard => ran[Append(E, c)[k]] = P[k]
  BY <1>2, <1>4 DEF Owed
<1> QED
  BY <1>5, <1>6, <1>7 DEF Owed

\* The first line that comes in answers what is due first.
LEMMA OwedLess ==
  ASSUME NEW E \in Seq(Asked), NEW P \in Seq(Ran), NEW A \in Seq(Asked), NEW ran,
         Owed(E, P, A, ran), P # <<>>
  PROVE  Owed(Tail(E), Tail(P), A, ran) /\ (Head(E) # Guard => ran[Head(E)] = Head(P))
<1>1. Len(P) \in Nat \ {0} /\ Len(A) \in Nat /\ Len(E) \in Nat \ {0} /\ E # <<>>
  BY DEF Owed
<1>2. Len(Tail(E)) = Len(E) - 1 /\ \A k \in 1..Len(E) - 1 : Tail(E)[k] = E[k + 1]
  BY <1>1
<1>3. Len(Tail(P)) = Len(P) - 1 /\ \A k \in 1..Len(P) - 1 : Tail(P)[k] = P[k + 1]
  BY <1>1
<1>4. Head(E) = E[1] /\ Head(P) = P[1]
  BY <1>1
<1>5. \A k \in 1..Len(P) - 1 : k + 1 \in 1..Len(P) /\ k \in 1..Len(E) - 1
  BY <1>1 DEF Owed
<1>6. \A k \in 1..Len(A) : Len(P) + k \in 1..Len(E) /\ Len(P) - 1 + k \in 1..Len(E) - 1
  BY <1>1 DEF Owed
<1>7. \A k \in 1..Len(A) : A[k] = Tail(E)[Len(P) - 1 + k]
  BY <1>1, <1>2, <1>6 DEF Owed
<1>8. \A k \in 1..Len(P) - 1 : Tail(E)[k] # Guard => ran[Tail(E)[k]] = Tail(P)[k]
  BY <1>2, <1>3, <1>5 DEF Owed
<1> QED
  BY <1>1, <1>2, <1>3, <1>4, <1>7, <1>8 DEF Owed

\* A command that is run keeps what was run before it, and its reply is under way.
LEMMA OwedRun ==
  ASSUME NEW E \in Seq(Asked), NEW P \in Seq(Ran), NEW A \in Seq(Asked), NEW ran, NEW ran2, NEW done \in Ran,
         Owed(E, P, A, ran), A # <<>>,
         \A x \in Commands : ran[x] # "none" => ran2[x] = ran[x],
         Head(A) # Guard => ran2[Head(A)] = done
  PROVE  Owed(E, Append(P, done), Tail(A), ran2)
<1>1. Len(P) \in Nat /\ Len(A) \in Nat \ {0} /\ Len(E) \in Nat \ {0}
  BY DEF Owed
<1>2. /\ Len(Tail(A)) = Len(A) - 1 /\ \A k \in 1..Len(A) - 1 : Tail(A)[k] = A[k + 1]
      /\ Head(A) = A[1]
  BY <1>1
<1>3. /\ Len(Append(P, done)) = Len(P) + 1 /\ Append(P, done)[Len(P) + 1] = done
      /\ \A k \in 1..Len(P) : Append(P, done)[k] = P[k]
  BY <1>1
<1>4. A[1] = E[Len(P) + 1]
  BY <1>1 DEF Owed
<1>5. \A k \in 1..Len(P) : E[k] # Guard => ran2[E[k]] = P[k]
  <2> SUFFICES ASSUME NEW k \in 1..Len(P), E[k] # Guard PROVE ran2[E[k]] = P[k]
    OBVIOUS
  <2>1. k \in 1..Len(E) /\ P[k] \in Ran
    BY <1>1 DEF Owed
  <2>2. E[k] \in Commands /\ ran[E[k]] = P[k]
    BY <2>1 DEF Owed, Asked
  <2> QED
    BY <2>1, <2>2 DEF Ran
<1>6. \A k \in 1..Len(P) + 1 : E[k] # Guard => ran2[E[k]] = Append(P, done)[k]
  BY <1>1, <1>2, <1>3, <1>4, <1>5
<1>7. \A k \in 1..Len(A) - 1 : Tail(A)[k] = E[Len(P) + 1 + k]
  <2> SUFFICES ASSUME NEW k \in 1..Len(A) - 1 PROVE Tail(A)[k] = E[Len(P) + 1 + k]
    OBVIOUS
  <2>1. k + 1 \in 1..Len(A) /\ Len(P) + (k + 1) = Len(P) + 1 + k
    BY <1>1
  <2> QED
    BY <1>2, <2>1 DEF Owed
<1> QED
  BY <1>1, <1>2, <1>3, <1>6, <1>7 DEF Owed

\* What another child runs changes nothing of it.
LEMMA OwedStays ==
  ASSUME NEW E \in Seq(Asked), NEW P \in Seq(Ran), NEW A \in Seq(Asked), NEW ran, NEW ran2,
         Owed(E, P, A, ran), \A x \in Commands : ran[x] # "none" => ran2[x] = ran[x]
  PROVE  Owed(E, P, A, ran2)
<1>1. \A k \in 1..Len(P) : E[k] # Guard => ran2[E[k]] = P[k]
  <2> SUFFICES ASSUME NEW k \in 1..Len(P), E[k] # Guard PROVE ran2[E[k]] = P[k]
    OBVIOUS
  <2>1. k \in 1..Len(E) /\ P[k] \in Ran
    BY DEF Owed
  <2>2. E[k] \in Commands /\ ran[E[k]] = P[k]
    BY <2>1 DEF Owed, Asked
  <2> QED
    BY <2>1, <2>2 DEF Ran
<1> QED
  BY <1>1 DEF Owed

-----------------------------------------------------------------------------
(* Each step keeps it. *)

LEMMA ControlTypes ==
  ASSUME ControlTypeOK, NEW h \in Children
  PROVE  /\ pipe[h] \in Seq(Ran) /\ asked[h] \in Seq(Asked)
         /\ Len(pipe[h]) \in Nat /\ Len(asked[h]) \in Nat
         /\ \A k \in DOMAIN asked[h] : asked[h][k] \in Asked
BY DEF ControlTypeOK, Asked, Ran

LEMMA ExpectedTyped ==
  ASSUME ControlTypeOK
  PROVE  Expected \in Seq(Asked)
<1>1. pending \in Seq(Asked) /\ <<Guard>> \in Seq(Asked)
  BY DEF ControlTypeOK, Asked
<1> QED
  BY <1>1 DEF Expected

\* What is asked beyond what was is the reply of the connection and, of child g at n, command c.
AsksOnly(g, n, c) ==
  \A h \in Children : \A k \in DOMAIN asked'[h] :
    \/ k \in DOMAIN asked[h] /\ asked'[h][k] = asked[h][k]
    \/ h = g /\ k = n /\ asked'[h][k] = c
    \/ asked'[h][k] = Guard

\* A command that is issued has been asked of no child, and is asked of one now.
LEMMA AsksMore ==
  ASSUME ControlTypeOK, AskedIsUnrun, AskedOnce, NEW c \in Commands, NEW g \in Children, NEW n \in Nat,
         outcome[c] = "none", outcome' = [outcome EXCEPT ![c] = "waits"], executed' = executed,
         AsksOnly(g, n, c)
  PROVE  AskedIsUnrun' /\ AskedOnce'
<1>1. \A h \in Children : \A k \in DOMAIN asked[h] : asked[h][k] \in Asked
  BY ControlTypes
<1>2. \A h \in Children : \A k \in DOMAIN asked[h] : asked[h][k] # c
  BY <1>1, Numbered DEF AskedIsUnrun
<1> USE DEF AsksOnly
<1>3. \A b \in Commands : outcome'[b] = IF b = c THEN "waits" ELSE outcome[b]
  BY DEF ControlTypeOK
<1>4. \A h \in Children : \A k \in DOMAIN asked'[h] : asked'[h][k] # Guard =>
        outcome'[asked'[h][k]] # "none" /\ executed'[asked'[h][k]] = "none"
  <2> SUFFICES ASSUME NEW h \in Children, NEW k \in DOMAIN asked'[h], asked'[h][k] # Guard
               PROVE  outcome'[asked'[h][k]] # "none" /\ executed'[asked'[h][k]] = "none"
    OBVIOUS
  <2>1. CASE k \in DOMAIN asked[h] /\ asked'[h][k] = asked[h][k]
    BY <1>1, <1>3, <2>1 DEF AskedIsUnrun, Asked
  <2>2. CASE asked'[h][k] = c
    BY <1>3, <2>2 DEF AskedIsUnrun
  <2> QED
    BY <2>1, <2>2
<1>5. AskedOnce'
  <2> SUFFICES ASSUME NEW h \in Children, NEW i \in Children,
                      NEW k \in DOMAIN asked'[h], NEW l \in DOMAIN asked'[i],
                      asked'[h][k] = asked'[i][l], asked'[h][k] # Guard
               PROVE  h = i /\ k = l
    BY DEF AskedOnce
  <2>1. CASE asked'[h][k] = c
    <3>1. c # Guard /\ asked'[i][l] = c
      BY <2>1, Numbered
    <3>2. h = g /\ k = n
      BY <1>2, <2>1, <3>1
    <3>3. i = g /\ l = n
      BY <1>2, <3>1
    <3> QED
      BY <3>2, <3>3
  <2>2. CASE asked'[h][k] # c
    <3>1. k \in DOMAIN asked[h] /\ asked'[h][k] = asked[h][k] /\ l \in DOMAIN asked[i] /\ asked'[i][l] = asked[i][l]
      BY <2>2
    <3>2. asked[h][k] = asked[i][l] /\ asked[h][k] # Guard
      BY <3>1
    <3> QED
      BY <3>1, <3>2 DEF AskedOnce
  <2> QED
    BY <2>1, <2>2
<1>6. \A b \in Commands : outcome'[b] = "none" => executed'[b] = "none"
  BY <1>3 DEF AskedIsUnrun
<1> QED
  BY <1>4, <1>5, <1>6 DEF AskedIsUnrun

LEMMA ExecKeeps ==
  ASSUME ControlInv, ControlTypeOK', NEW c \in Commands, Exec(c)
  PROVE  ControlInv'
<1> USE Numbered
<1>1. /\ ControlTypeOK /\ Connected /\ AskedIsUnrun /\ AskedOnce /\ RepliesMatch /\ InStep
      /\ outcome[c] = "none" /\ outcome' = [outcome EXCEPT ![c] = "waits"]
      /\ pending' = Append(pending, c) /\ executed' = executed /\ pipe' = pipe
  BY DEF ControlInv, Exec
<1>2. RepliesMatch'
  BY <1>1 DEF RepliesMatch, ControlTypeOK
<1>3. CASE child # 0
  <2>1. /\ child \in Children /\ child = generation
        /\ UNCHANGED <<generation, child, awaitingGuard, alive>>
        /\ asked' = [asked EXCEPT ![child] = Append(@, c)]
    BY <1>1, <1>3 DEF Connected, ControlTypeOK, Children, Exec
  <2>2. \A h \in Children : h # child => asked'[h] = asked[h]
    BY <1>1, <2>1 DEF ControlTypeOK
  <2>3. asked'[child] = Append(asked[child], c)
    BY <1>1, <2>1 DEF ControlTypeOK
  <2>4. Connected'
    BY <1>1, <1>3, <2>1, <2>2 DEF Connected, ControlTypeOK
  <2>5. c \in Asked /\ asked[child] \in Seq(Asked) /\ pipe[child] \in Seq(Ran) /\ Len(asked[child]) + 1 \in Nat
    BY <1>1, <2>1, ControlTypes DEF Asked
  <2>6. AsksOnly(child, Len(asked[child]) + 1, c)
    <3>1. /\ asked'[child][Len(asked[child]) + 1] = c
          /\ DOMAIN asked'[child] = DOMAIN asked[child] \cup {Len(asked[child]) + 1}
          /\ \A k \in DOMAIN asked[child] : asked'[child][k] = asked[child][k]
      BY <2>3, <2>5
    <3> QED
      BY <2>1, <2>2, <2>5, <3>1 DEF AsksOnly
  <2>7. AskedIsUnrun' /\ AskedOnce'
    BY <1>1, <2>1, <2>5, <2>6, AsksMore
  <2>8. Expected \in Seq(Asked) /\ Expected' = Append(Expected, c)
    BY <1>1, <2>1, ExpectsMore
  <2>9. Owed(Append(Expected, c), pipe[child], Append(asked[child], c), executed)
    BY <1>1, <1>3, <2>5, <2>8, OwedMore DEF InStep
  <2>10. InStep'
    BY <1>1, <2>1, <2>3, <2>8, <2>9 DEF InStep
  <2> QED
    BY <1>2, <2>4, <2>7, <2>10 DEF ControlInv
<1>4. CASE child = 0
  <2>1. /\ generation' \in Children /\ child' = generation' /\ generation' = generation + 1 /\ awaitingGuard'
        /\ alive' = alive \cup {child'} /\ asked' = [asked EXCEPT ![child'] = <<Guard, c>>]
    BY <1>1, <1>4 DEF Exec, ControlTypeOK, Children
  <2>2. generation \in Nat /\ generation' > generation /\ child' # 0
    BY <1>1, <2>1 DEF ControlTypeOK
  <2>3. pipe[child'] = <<>> /\ asked[child'] = <<>> /\ pending = <<>>
    BY <1>1, <1>4, <2>1, <2>2 DEF Connected
  <2>4. asked'[child'] = <<Guard, c>> /\ \A h \in Children : h # child' => asked'[h] = asked[h]
    BY <1>1, <2>1 DEF ControlTypeOK
  <2>5. Connected'
    <3>1. \A h \in Children : h > generation' =>
            h > generation /\ h # child' /\ pipe'[h] = pipe[h] /\ asked'[h] = asked[h] /\ (h \in alive' => h \in alive)
      BY <1>1, <2>1, <2>2, <2>4
    <3> QED
      BY <1>1, <2>1, <2>2, <3>1 DEF Connected
  <2>6. AsksOnly(child', 2, c) /\ child' \in Children /\ 2 \in Nat
    BY <2>1, <2>4 DEF AsksOnly
  <2>7. AskedIsUnrun' /\ AskedOnce'
    BY <1>1, <2>1, <2>6, AsksMore
  <2>8. Expected' = <<Guard>> \o <<c>>
    BY <1>1, <2>1, <2>3 DEF Expected
  <2>9. Owed(<<Guard>> \o <<c>>, <<>>, <<Guard, c>>, executed)
    BY DEF Owed
  <2>10. InStep'
    BY <1>1, <2>1, <2>3, <2>4, <2>8, <2>9 DEF InStep
  <2> QED
    BY <1>2, <2>5, <2>7, <2>10 DEF ControlInv
<1> QED
  BY <1>3, <1>4

\* The command a child runs is asked no more, and is no other than those that are asked still.
LEMMA RunsFirst ==
  ASSUME ControlTypeOK, AskedIsUnrun, AskedOnce, NEW g \in Children, Replies(g)
  PROVE  /\ AskedIsUnrun' /\ AskedOnce'
         /\ \A x \in Commands : executed[x] # "none" => executed'[x] = executed[x]
<1> DEFINE s(h) == IF h = g THEN 1 ELSE 0
<1>1. /\ asked[g] # <<>> /\ asked[g] \in Seq(Asked)
      /\ asked' = [asked EXCEPT ![g] = Tail(@)] /\ outcome' = outcome
  BY ControlTypes DEF Replies
<1>2. asked'[g] = Tail(asked[g]) /\ \A h \in Children : h # g => asked'[h] = asked[h]
  BY <1>1 DEF ControlTypeOK
<1>3. PICK c \in Asked : c = Head(asked[g])
  BY <1>1
<1>4. 1 \in DOMAIN asked[g] /\ asked[g][1] = c
  BY <1>1, <1>3
<1>5. PICK done \in Ran :
        /\ executed' = IF c = Guard THEN executed ELSE [executed EXCEPT ![c] = done]
        /\ pipe' = [pipe EXCEPT ![g] = Append(@, done)]
  BY <1>3 DEF Replies, Ran
<1>6. \A x \in Commands : x # c => executed'[x] = executed[x]
  BY <1>5 DEF ControlTypeOK
<1>7. \A h \in Children : \A k \in DOMAIN asked'[h] :
        k + s(h) \in DOMAIN asked[h] /\ asked'[h][k] = asked[h][k + s(h)]
  <2> SUFFICES ASSUME NEW h \in Children, NEW k \in DOMAIN asked'[h]
               PROVE  k + s(h) \in DOMAIN asked[h] /\ asked'[h][k] = asked[h][k + s(h)]
    OBVIOUS
  <2>1. CASE h = g
    <3>1. DOMAIN Tail(asked[g]) = 1..Len(asked[g]) - 1 /\ DOMAIN asked[g] = 1..Len(asked[g])
      BY <1>1
    <3>2. \A j \in 1..Len(asked[g]) - 1 : Tail(asked[g])[j] = asked[g][j + 1] /\ j + 1 \in 1..Len(asked[g])
      BY <1>1
    <3> QED
      BY <1>2, <2>1, <3>1, <3>2
  <2>2. CASE h # g
    <3>1. asked'[h] = asked[h] /\ asked[h] \in Seq(Asked)
      BY <1>2, <2>2, ControlTypes
    <3> QED
      BY <2>2, <3>1
  <2> QED
    BY <2>1, <2>2
<1>8. \A h \in Children : \A k \in DOMAIN asked'[h] : asked'[h][k] \in Asked /\ k \in Nat \ {0}
  <2>1. \A h \in Children : asked'[h] \in Seq(Asked)
    BY <1>1, <1>2, ControlTypes
  <2> QED
    BY <2>1
<1>9. \A h \in Children : \A k \in DOMAIN asked'[h] : asked'[h][k] = c => c = Guard
  <2> SUFFICES ASSUME NEW h \in Children, NEW k \in DOMAIN asked'[h], asked'[h][k] = c, c # Guard
               PROVE  FALSE
    OBVIOUS
  <2>1. k + s(h) \in DOMAIN asked[h] /\ asked[h][k + s(h)] = asked[g][1] /\ asked[g][1] # Guard
    BY <1>4, <1>7
  <2>2. h = g /\ k + s(h) = 1
    BY <1>4, <2>1 DEF AskedOnce
  <2> QED
    BY <1>8, <2>2
<1>10. \A h \in Children : \A k \in DOMAIN asked'[h] : asked'[h][k] # Guard =>
         outcome'[asked'[h][k]] # "none" /\ executed'[asked'[h][k]] = "none"
  <2> SUFFICES ASSUME NEW h \in Children, NEW k \in DOMAIN asked'[h], asked'[h][k] # Guard
               PROVE  outcome'[asked'[h][k]] # "none" /\ executed'[asked'[h][k]] = "none"
    OBVIOUS
  <2>1. outcome[asked'[h][k]] # "none" /\ executed[asked'[h][k]] = "none"
    BY <1>7 DEF AskedIsUnrun
  <2>2. asked'[h][k] \in Commands /\ asked'[h][k] # c
    BY <1>8, <1>9 DEF Asked
  <2> QED
    BY <1>1, <1>6, <2>1, <2>2
<1>11. AskedOnce'
  <2> SUFFICES ASSUME NEW h \in Children, NEW i \in Children,
                      NEW k \in DOMAIN asked'[h], NEW l \in DOMAIN asked'[i],
                      asked'[h][k] = asked'[i][l], asked'[h][k] # Guard
               PROVE  h = i /\ k = l
    BY DEF AskedOnce
  <2>1. /\ k + s(h) \in DOMAIN asked[h] /\ l + s(i) \in DOMAIN asked[i]
        /\ asked[h][k + s(h)] = asked[i][l + s(i)] /\ asked[h][k + s(h)] # Guard
    BY <1>7
  <2>2. h = i /\ k + s(h) = l + s(i)
    BY <2>1 DEF AskedOnce
  <2> QED
    BY <1>8, <2>2
<1>12. \A b \in Commands : outcome'[b] = "none" => executed'[b] = "none"
  <2> SUFFICES ASSUME NEW b \in Commands, outcome[b] = "none" PROVE executed'[b] = "none"
    BY <1>1
  <2>1. CASE b = c
    BY <1>4, <2>1, Numbered DEF AskedIsUnrun
  <2>2. CASE b # c
    BY <1>6, <2>2 DEF AskedIsUnrun
  <2> QED
    BY <2>1, <2>2
<1>13. \A x \in Commands : executed[x] # "none" => executed'[x] = executed[x]
  <2> SUFFICES ASSUME NEW x \in Commands, executed[x] # "none" PROVE executed'[x] = executed[x]
    OBVIOUS
  <2>1. x # c
    BY <1>4, Numbered DEF AskedIsUnrun
  <2> QED
    BY <1>6, <2>1
<1> QED
  BY <1>10, <1>11, <1>12, <1>13 DEF AskedIsUnrun

LEMMA RepliesKeeps ==
  ASSUME ControlInv, ControlTypeOK', NEW g \in Children, Replies(g)
  PROVE  ControlInv'
<1>1. /\ ControlTypeOK /\ Connected /\ AskedIsUnrun /\ AskedOnce /\ RepliesMatch /\ InStep
      /\ g \in alive /\ asked[g] # <<>> /\ asked' = [asked EXCEPT ![g] = Tail(@)]
      /\ UNCHANGED <<generation, child, awaitingGuard, pending, outcome, alive>>
  BY DEF ControlInv, Replies
<1>2. /\ AskedIsUnrun' /\ AskedOnce'
      /\ \A x \in Commands : executed[x] # "none" => executed'[x] = executed[x]
  BY <1>1, RunsFirst
<1>3. RepliesMatch'
  BY <1>1, <1>2 DEF RepliesMatch
<1>4. PICK done \in Ran :
        /\ executed' = IF Head(asked[g]) = Guard THEN executed ELSE [executed EXCEPT ![Head(asked[g])] = done]
        /\ pipe' = [pipe EXCEPT ![g] = Append(@, done)]
  BY DEF Replies, Ran
<1>5. /\ asked'[g] = Tail(asked[g]) /\ pipe'[g] = Append(pipe[g], done)
      /\ \A h \in Children : h # g => asked'[h] = asked[h] /\ pipe'[h] = pipe[h]
  BY <1>1, <1>4 DEF ControlTypeOK
<1>6. Connected'
  BY <1>1, <1>5 DEF Connected
<1>7. Expected \in Seq(Asked) /\ Expected' = Expected
  BY <1>1, ExpectedTyped DEF Expected
<1>8. InStep'
  <2> SUFFICES ASSUME child # 0 PROVE Owed(Expected, pipe'[child], asked'[child], executed')
    BY <1>1, <1>7 DEF InStep
  <2>1. child \in Children /\ Owed(Expected, pipe[child], asked[child], executed)
    BY <1>1 DEF InStep, ControlTypeOK, Children
  <2>2. pipe[child] \in Seq(Ran) /\ asked[child] \in Seq(Asked)
    BY <1>1, <2>1, ControlTypes
  <2>3. CASE child = g
    <3>1. Head(asked[g]) # Guard => executed'[Head(asked[g])] = done
      <4>1. Head(asked[g]) \in Asked
        BY <1>1, <2>2, <2>3
      <4> QED
        BY <1>1, <1>4, <4>1 DEF ControlTypeOK, Asked
    <3>2. Owed(Expected, pipe[g], asked[g], executed) /\ pipe[g] \in Seq(Ran) /\ asked[g] \in Seq(Asked)
      BY <2>1, <2>2, <2>3
    <3>3. Owed(Expected, Append(pipe[g], done), Tail(asked[g]), executed')
      BY <1>1, <1>2, <1>7, <3>1, <3>2, OwedRun
    <3> QED
      BY <1>5, <2>3, <3>3
  <2>4. CASE child # g
    BY <1>2, <1>5, <1>7, <2>1, <2>2, <2>4, OwedStays
  <2> QED
    BY <2>3, <2>4
<1> QED
  BY <1>2, <1>3, <1>6, <1>8 DEF ControlInv

LEMMA OnLineKeeps ==
  ASSUME ControlInv, ControlTypeOK', NEW g \in Children, OnLine(g)
  PROVE  ControlInv'
<1>1. /\ ControlTypeOK /\ Connected /\ AskedIsUnrun /\ AskedOnce /\ RepliesMatch /\ InStep
      /\ pipe[g] # <<>> /\ pipe' = [pipe EXCEPT ![g] = Tail(@)]
      /\ UNCHANGED <<generation, child, executed, asked, alive>>
  BY DEF ControlInv, OnLine
<1>2. pipe'[g] = Tail(pipe[g]) /\ \A h \in Children : h # g => pipe'[h] = pipe[h]
  BY <1>1 DEF ControlTypeOK
<1>3. AskedOnce'
  BY <1>1 DEF AskedOnce
<1>4. pipe[g] \in Seq(Ran) /\ asked[g] \in Seq(Asked) /\ Expected \in Seq(Asked)
  BY <1>1, ControlTypes, ExpectedTyped
<1>5. g <= generation
  BY <1>1, Numbered DEF Connected, ControlTypeOK, Children
<1>6. CASE UNCHANGED <<awaitingGuard, pending, outcome>> /\ (child # 0 => child # g)
  <2>1. Connected'
    BY <1>1, <1>2, <1>5, <1>6, Numbered DEF Connected, ControlTypeOK, Children
  <2>2. AskedIsUnrun' /\ RepliesMatch'
    BY <1>1, <1>6 DEF AskedIsUnrun, RepliesMatch
  <2>3. InStep'
    BY <1>1, <1>2, <1>6, Numbered DEF InStep, Expected, ControlTypeOK, Children
  <2> QED
    BY <1>3, <2>1, <2>2, <2>3 DEF ControlInv
<1>7. CASE awaitingGuard /\ g = generation
  <2>1. awaitingGuard' = FALSE /\ UNCHANGED <<pending, outcome>>
    BY <1>7 DEF OnLine
  <2>2. Connected'
    BY <1>1, <1>2, <1>5, <1>7, <2>1, Numbered DEF Connected, ControlTypeOK, Children
  <2>3. AskedIsUnrun' /\ RepliesMatch'
    BY <1>1, <2>1 DEF AskedIsUnrun, RepliesMatch
  <2>4. Expected' = Tail(Expected)
    BY <1>1, <1>7, <2>1, ExpectsLess
  <2>5. child # 0 => child = g
    BY <1>1, <1>7 DEF Connected
  <2>6. InStep'
    BY <1>1, <1>2, <1>4, <2>4, <2>5, OwedLess DEF InStep
  <2> QED
    BY <1>3, <2>2, <2>3, <2>6 DEF ControlInv
<1>8. CASE ~awaitingGuard /\ pending # <<>> /\ g = generation
  <2>1. /\ awaitingGuard' = FALSE /\ pending' = Tail(pending)
        /\ Settle({Head(pending)}, IF Head(pipe[g]) = "done" THEN "ok" ELSE "failed")
    BY <1>8 DEF OnLine
  <2>2. child = g
    BY <1>1, <1>8 DEF Connected
  <2>3. Head(pending) \in Commands /\ Expected = pending /\ Head(pending) # Guard
    BY <1>1, <1>8, Numbered DEF ControlTypeOK, Expected
  <2>4. Expected' = Tail(Expected)
    BY <1>1, <1>8, <2>1, ExpectsLess
  <2>5. Owed(Expected, pipe[g], asked[g], executed)
    BY <1>1, <2>2, Numbered DEF InStep
  <2>6. Owed(Tail(Expected), Tail(pipe[g]), asked[g], executed) /\ executed[Head(pending)] = Head(pipe[g])
    BY <1>1, <1>4, <2>3, <2>5, OwedLess
  <2>7. InStep'
    BY <1>1, <1>2, <2>2, <2>4, <2>6 DEF InStep
  <2>8. \A c \in Commands : outcome'[c] = IF c = Head(pending)
                                         THEN IF Head(pipe[g]) = "done" THEN "ok" ELSE "failed"
                                         ELSE outcome[c]
    BY <2>1 DEF Settle
  <2>9. AskedIsUnrun'
    <3>1. \A c \in Commands : outcome'[c] = "none" => outcome[c] = "none"
      BY <2>8
    <3>2. \A c \in Commands : outcome[c] # "none" => outcome'[c] # "none"
      BY <2>8
    <3>3. \A h \in Children : \A k \in DOMAIN asked[h] : asked[h][k] \in Asked
      BY <1>1, ControlTypes
    <3> QED
      BY <1>1, <3>1, <3>2, <3>3 DEF AskedIsUnrun, Asked
  <2>10. RepliesMatch'
    BY <1>1, <2>6, <2>8 DEF RepliesMatch
  <2>11. Connected'
    BY <1>1, <1>2, <1>5, <2>2, Numbered DEF Connected, ControlTypeOK, Children
  <2> QED
    BY <1>3, <2>7, <2>9, <2>10, <2>11 DEF ControlInv
<1>9. \/ UNCHANGED <<awaitingGuard, pending, outcome>> /\ (child # 0 => child # g)
      \/ awaitingGuard /\ g = generation
      \/ ~awaitingGuard /\ pending # <<>> /\ g = generation
  <2>1. CASE g # generation
    BY <1>1, <2>1 DEF OnLine, Connected
  <2>2. CASE g = generation /\ ~awaitingGuard /\ pending = <<>>
    <3>1. child # 0 /\ child = g => Len(Expected) = 0 /\ Len(Expected) = Len(pipe[g]) + Len(asked[g])
      BY <1>1, <2>2 DEF InStep, Owed, Expected
    <3>2. Len(pipe[g]) \in Nat \ {0} /\ Len(asked[g]) \in Nat
      BY <1>1, <1>4
    <3>3. child # 0 => child # g
      <4> SUFFICES ASSUME child # 0, child = g PROVE FALSE
        OBVIOUS
      <4>1. 0 = Len(pipe[g]) + Len(asked[g])
        BY <3>1
      <4>2. \A m \in Nat \ {0}, n \in Nat : 0 # m + n
        OBVIOUS
      <4> QED
        BY <3>2, <4>1, <4>2
    <3> QED
      BY <2>2, <3>3 DEF OnLine
  <2> QED
    BY <2>1, <2>2
<1> QED
  BY <1>6, <1>7, <1>8, <1>9

\* All that wait fail, and there is no child any more.
LEMMA FailsKeeps ==
  ASSUME ControlInv, ControlTypeOK', FailAll, child' = 0, UNCHANGED <<generation, awaitingGuard, executed, pipe, asked>>,
         alive' \subseteq alive
  PROVE  ControlInv'
<1>1. /\ ControlTypeOK /\ Connected /\ AskedIsUnrun /\ AskedOnce /\ RepliesMatch
  BY DEF ControlInv
<1>2. pending' = <<>> /\ RepliesMatch' /\ \A c \in Commands : outcome'[c] = outcome[c] \/ outcome'[c] = "failed"
  BY <1>1, FailsAll
<1>3. Connected'
  BY <1>1, <1>2 DEF Connected
<1>4. \A h \in Children : \A k \in DOMAIN asked[h] : asked[h][k] \in Asked
  BY <1>1, ControlTypes
<1>5. AskedIsUnrun'
  BY <1>1, <1>2, <1>4 DEF AskedIsUnrun, Asked
<1>6. AskedOnce' /\ InStep'
  BY <1>1 DEF AskedOnce, InStep
<1> QED
  BY <1>2, <1>3, <1>5, <1>6 DEF ControlInv

LEMMA ExitsKeeps ==
  ASSUME ControlInv, ControlTypeOK', NEW g \in Children, ControlChildExits(g)
  PROVE  ControlInv'
<1>1. CASE g = generation
  BY <1>1, FailsKeeps DEF ControlChildExits
<1>2. CASE g # generation
  <2>1. /\ ControlTypeOK /\ Connected /\ AskedIsUnrun /\ AskedOnce /\ RepliesMatch /\ InStep
        /\ UNCHANGED <<generation, child, awaitingGuard, pending, outcome, executed, pipe, asked>>
        /\ alive' = alive \ {g}
    BY <1>2 DEF ControlInv, ControlChildExits
  <2>2. Connected'
    BY <1>2, <2>1 DEF Connected
  <2>3. AskedIsUnrun' /\ AskedOnce' /\ RepliesMatch' /\ InStep'
    BY <2>1 DEF AskedIsUnrun, AskedOnce, RepliesMatch, InStep, Expected
  <2> QED
    BY <2>2, <2>3 DEF ControlInv
<1> QED
  BY <1>1, <1>2

LEMMA ControlInitially == ControlInit => ControlInv
<1> SUFFICES ASSUME ControlInit PROVE ControlInv
  OBVIOUS
<1>1. \A h \in Children : pipe[h] = <<>> /\ asked[h] = <<>>
  BY DEF ControlInit
<1>2. Connected /\ AskedIsUnrun /\ AskedOnce /\ RepliesMatch /\ InStep
  BY <1>1 DEF ControlInit, Connected, AskedIsUnrun, AskedOnce, RepliesMatch, InStep
<1> QED
  BY <1>2, ControlInitTyped DEF ControlInv

LEMMA ControlKept == ControlInv /\ [ControlNext]_controlVars => ControlInv'
<1> SUFFICES ASSUME ControlInv, [ControlNext]_controlVars PROVE ControlInv'
  OBVIOUS
<1>1. ControlTypeOK'
  BY ControlStepTyped DEF ControlInv
<1>2. CASE TimesOut
  BY <1>1, <1>2, FailsKeeps DEF TimesOut
<1>3. CASE UNCHANGED controlVars
  BY <1>3 DEF controlVars, ControlInv, ControlTypeOK, Connected, AskedIsUnrun, AskedOnce, RepliesMatch, InStep,
     Expected
<1> QED
  BY <1>1, <1>2, <1>3, ExecKeeps, RepliesKeeps, OnLineKeeps, ExitsKeeps DEF ControlNext

\* RepliesMatch: a caller of the control channel is told ok only of a command that tmux carried
\* out, over timeouts, exits and lines of earlier children, for any number of them.
THEOREM RepliesAreTheirs == ControlSpec => []RepliesMatch
<1>1. ControlInv => RepliesMatch
  BY DEF ControlInv
<1> QED
  BY ControlInitially, ControlKept, <1>1, PTL DEF ControlSpec

-----------------------------------------------------------------------------
(* The claim of the daemon.                                                  *)

\* The steps of a process before it has won or lost the claim.
Claiming == {"start", "sweep", "reconcile", "lock", "lockText", "breakLock", "link", "evict"}

\* A process wins by the link alone, and as long as no live registration was removed the file
\* names the one that won, from then until it hangs up.
Won ==
  /\ \A d \in Daemons : pc[d] \in Claiming => ~won[d]
  /\ ~robbed => \A d \in Daemons : d \in Serving \/ (pc[d] = "unlock" /\ won[d]) => info = d

\* Two rounds of the link are tried.
Rounds == \A d \in Daemons : pc[d] \in {"link", "evict"} => round[d] \in 1..2

ClaimInv == DaemonTypeOK /\ Won /\ Rounds

LEMMA DaemonInitTyped == DaemonInit => ClaimInv
<1> USE DaemonAssumption
<1>1. DaemonInit => {info, lock, sock} \subseteq Files
  BY DEF DaemonInit, Files
<1>2. DaemonInit => DaemonTypeOK
  <2> SUFFICES ASSUME DaemonInit PROVE DaemonTypeOK
    OBVIOUS
  <2>1. pc \in [Daemons -> Steps]
    BY DEF DaemonInit, Steps
  <2>2. round \in [Daemons -> 0..3] /\ won \in [Daemons -> BOOLEAN] /\ timer \in [Daemons -> {"off", "armed", "fired"}]
    BY DEF DaemonInit
  <2>3. /\ mode \in [Guis -> {"off", "seek", "wait", "dial", "online"}]
        /\ peer \in [Guis -> Daemons \cup {NoOne}]
    BY DEF DaemonInit
  <2>4. mishaps \in 0..MaxMishaps
    BY DEF DaemonInit
  <2> QED
    BY <1>1, <2>1, <2>2, <2>3, <2>4 DEF DaemonInit, DaemonTypeOK
<1>3. DaemonInit => Won /\ Rounds
  BY DEF DaemonInit, Won, Rounds, Claiming, Serving
<1> QED
  BY <1>2, <1>3 DEF ClaimInv

\* A process that starts in the place of one that is gone.
LEMMA SpawnedKeeps ==
  ASSUME ClaimInv, NEW d \in Daemons, Spawned(d), UNCHANGED robbed
  PROVE  /\ Won' /\ Rounds'
         /\ {info', lock', sock'} \subseteq Files /\ blank' \in BOOLEAN /\ pc' \in [Daemons -> Steps]
         /\ round' \in [Daemons -> 0..3] /\ won' \in [Daemons -> BOOLEAN]
         /\ timer' \in [Daemons -> {"off", "armed", "fired"}]
<1>1. Won'
  BY DEF ClaimInv, DaemonTypeOK, Won, Spawned, Go, Renamed, Claiming, Serving
<1>2. Rounds'
  BY DEF ClaimInv, DaemonTypeOK, Rounds, Spawned, Go
<1> QED
  BY <1>1, <1>2 DEF ClaimInv, DaemonTypeOK, Spawned, Go, Renamed, Files, Steps

\* The end of the streams of a process.
LEMMA HangupTyped ==
  ASSUME DaemonTypeOK, NEW d, Hangup(d)
  PROVE  /\ mode' \in [Guis -> {"off", "seek", "wait", "dial", "online"}]
         /\ peer' \in [Guis -> Daemons \cup {NoOne}]
BY DEF DaemonTypeOK, Hangup

\* A process that shuts down: its registration, or that of another, goes with it.
LEMMA ShutdownKeeps ==
  ASSUME ClaimInv, NEW d \in Daemons, Shutdown(d), mishaps' \in 0..MaxMishaps,
         reset' \in {"none", "wait", "recheck", "wipe"}, victim' \in Daemons \cup {NoOne}
  PROVE  ClaimInv'
<1>1. Won'
  BY DaemonAssumption DEF ClaimInv, DaemonTypeOK, Won, Shutdown, RemoveInfo, Go, Claiming, Serving, Answers, Alive
<1>2. mode' \in [Guis -> {"off", "seek", "wait", "dial", "online"}] /\ peer' \in [Guis -> Daemons \cup {NoOne}]
  BY HangupTyped DEF ClaimInv, Shutdown
<1>3. DaemonTypeOK'
  BY <1>2 DEF ClaimInv, DaemonTypeOK, Shutdown, RemoveInfo, Go, Files, Steps
<1>4. Rounds'
  BY DEF ClaimInv, DaemonTypeOK, Rounds, Shutdown, Go
<1> QED
  BY <1>1, <1>3, <1>4 DEF ClaimInv

\* The steps of one process up to the registration.
LEMMA WorksKeeps ==
  ASSUME ClaimInv, NEW d \in Daemons, Works(d)
  PROVE  ClaimInv'
<1> USE DaemonAssumption DEF ClaimInv, DaemonTypeOK, Won, Rounds, Go, Claiming, Serving, Probe, InTime, Mishap, Answers,
                             files, procs, clients, resetting, Files, Steps
<1>1. CASE LookAround(d)
  BY <1>1 DEF LookAround
<1>2. CASE Sweep(d)
  BY <1>2 DEF Sweep, RemoveInfo, Alive
<1>3. CASE Reconcile(d)
  BY <1>3 DEF Reconcile
<1>4. CASE TakeLock(d)
  BY <1>4 DEF TakeLock
<1>5. CASE WriteLock(d)
  BY <1>5 DEF WriteLock
<1>6. CASE FindLock(d)
  BY <1>6 DEF FindLock
<1>7. CASE BreakLock(d)
  BY <1>7 DEF BreakLock
<1>8. CASE Link(d)
  <2>1. DaemonTypeOK'
    <3>1. info' \in Files /\ won' \in [Daemons -> BOOLEAN]
      BY <1>8 DEF Link
    <3>2. pc' \in [Daemons -> Steps]
      BY <1>8 DEF Link
    <3>3. mishaps' \in 0..MaxMishaps
      BY <1>8 DEF Link
    <3> QED
      BY <1>8, <3>1, <3>2, <3>3 DEF Link
  <2>2. Won'
    BY <1>8 DEF Link
  <2>3. Rounds'
    BY <1>8 DEF Link
  <2> QED
    BY <2>1, <2>2, <2>3
<1>9. CASE Evict(d)
  <2>1. DaemonTypeOK'
    <3>1. round[d] \in 1..2
      BY <1>9 DEF Evict
    <3>2. round[d] + 1 \in 0..3
      BY <3>1
    <3> QED
      BY <1>9, <3>2 DEF Evict, RemoveInfo
  <2>2. Won'
    BY <1>9 DEF Evict, RemoveInfo, Alive
  <2>3. Rounds'
    BY <1>9 DEF Evict
  <2> QED
    BY <2>1, <2>2, <2>3
<1>10. CASE Unlock(d)
  BY <1>10 DEF Unlock, Registers
<1>11. CASE TimerFires(d)
  BY <1>11 DEF TimerFires
<1>12. CASE IdleExit(d)
  BY <1>12, ShutdownKeeps DEF IdleExit
<1>13. CASE Exit(d)
  BY <1>13 DEF Exit
<1> QED
  BY <1>1, <1>2, <1>3, <1>4, <1>5, <1>6, <1>7, <1>8, <1>9, <1>10, <1>11, <1>12, <1>13 DEF Works

\* The windows, which move the timer of the process they hold at most.
LEMMA WindowsKeep ==
  ASSUME ClaimInv, NEW g \in Guis, Seeks(g) \/ GuiOpens(g) \/ GuiCloses(g)
  PROVE  ClaimInv'
<1> USE DaemonAssumption DEF ClaimInv, DaemonTypeOK, Probe, InTime, Mishap, Answers, files, procs, clients, resetting
<1>1. CASE GuiFinds(g)
  BY <1>1 DEF GuiFinds, Won, Rounds, Serving
<1>2. CASE GuiSpawns(g)
  <2>1. PICK d \in Daemons : Spawned(d)
    BY <1>2 DEF GuiSpawns
  <2>2. UNCHANGED robbed
    BY <1>2 DEF GuiSpawns
  <2>3. /\ Won' /\ Rounds' /\ {info', lock', sock'} \subseteq Files /\ blank' \in BOOLEAN /\ pc' \in [Daemons -> Steps]
        /\ round' \in [Daemons -> 0..3] /\ won' \in [Daemons -> BOOLEAN]
        /\ timer' \in [Daemons -> {"off", "armed", "fired"}]
    BY <2>1, <2>2, SpawnedKeeps
  <2>4. mishaps' \in 0..MaxMishaps /\ mode' \in [Guis -> {"off", "seek", "wait", "dial", "online"}]
    BY <1>2 DEF GuiSpawns
  <2> QED
    BY <1>2, <2>3, <2>4 DEF GuiSpawns
<1>3. CASE GuiGivesUp(g)
  BY <1>3 DEF GuiGivesUp, Won, Rounds, Serving
<1>4. CASE GuiDials(g)
  BY <1>4 DEF GuiDials, Won, Rounds, Serving
<1>5. CASE GuiOpens(g)
  BY <1>5 DEF GuiOpens, Won, Rounds, Serving
<1>6. CASE GuiCloses(g)
  BY <1>6 DEF GuiCloses, Won, Rounds, Serving
<1> QED
  BY <1>1, <1>2, <1>3, <1>4, <1>5, <1>6 DEF Seeks

\* coolie reset.
LEMMA ResetsKeep ==
  ASSUME ClaimInv, Resets
  PROVE  ClaimInv'
<1> USE DaemonAssumption DEF ClaimInv, DaemonTypeOK, Mishap, files, procs, clients, resetting
<1>1. CASE ResetStops
  <2>1. mishaps' \in 0..MaxMishaps /\ reset' \in {"wait", "recheck"}
    BY <1>1 DEF ResetStops
  <2>2. CASE info \in Daemons /\ Shutdown(info) /\ victim' = info
    BY <2>1, <2>2, ShutdownKeeps
  <2>3. CASE UNCHANGED <<files, procs, clients, robbed>> /\ victim' \in Daemons \cup {NoOne}
    BY <2>1, <2>3 DEF Won, Rounds, Serving
  <2> QED
    BY <1>1, <2>2, <2>3 DEF ResetStops
<1>2. CASE ResetWaits
  BY <1>2 DEF ResetWaits, Won, Rounds, Serving
<1>3. CASE ResetRechecks
  BY <1>3 DEF ResetRechecks, Won, Rounds, Serving
<1>4. CASE ResetWipes
  BY <1>4 DEF ResetWipes, RemoveInfo, Alive, Won, Rounds, Serving, Files
<1> QED
  BY <1>1, <1>2, <1>3, <1>4 DEF Resets

LEMMA ClaimKept == ClaimInv /\ [DaemonNext]_daemonVars => ClaimInv'
<1> SUFFICES ASSUME ClaimInv, [DaemonNext]_daemonVars PROVE ClaimInv'
  OBVIOUS
<1> USE DaemonAssumption
<1>1. ASSUME NEW d \in Daemons, CliSpawn(d) PROVE ClaimInv'
  BY <1>1, SpawnedKeeps DEF CliSpawn, ClaimInv, DaemonTypeOK, clients, resetting
<1>2. ASSUME NEW d \in Daemons, Stop(d) PROVE ClaimInv'
  <2>1. mishaps' \in 0..MaxMishaps
    BY <1>2 DEF Stop, Mishap, ClaimInv, DaemonTypeOK
  <2> QED
    BY <1>2, <2>1, ShutdownKeeps DEF Stop, ClaimInv, DaemonTypeOK, resetting
<1>3. ASSUME NEW d \in Daemons, Crash(d) PROVE ClaimInv'
  <2>1. Won' /\ Rounds'
    BY <1>3 DEF Crash, Mishap, Go, ClaimInv, DaemonTypeOK, Won, Rounds, Claiming, Serving, files
  <2>2. mode' \in [Guis -> {"off", "seek", "wait", "dial", "online"}] /\ peer' \in [Guis -> Daemons \cup {NoOne}]
    BY <1>3, HangupTyped DEF ClaimInv, Crash
  <2> QED
    BY <1>3, <2>1, <2>2 DEF Crash, Mishap, Go, ClaimInv, DaemonTypeOK, Steps, files, resetting
<1>4. CASE UNCHANGED daemonVars
  BY <1>4 DEF daemonVars, files, procs, clients, resetting, ClaimInv, DaemonTypeOK, Won, Rounds, Serving
<1> QED
  BY <1>1, <1>2, <1>3, <1>4, WorksKeeps, WindowsKeep, ResetsKeep DEF DaemonNext

\* SoleUnlessRobbed: one daemon serves and server.json names it, for any number of processes
\* and windows and any interleaving of their file system calls, unless a live registration
\* was removed by somebody else.
THEOREM ServesAlone == DaemonSpec => []SoleUnlessRobbed
<1>1. ClaimInv => SoleUnlessRobbed
  BY DEF ClaimInv, Won, SoleUnlessRobbed, Serving
<1> QED
  BY DaemonInitTyped, ClaimKept, <1>1, PTL DEF DaemonSpec

-----------------------------------------------------------------------------
(* The collector and the checks panel.                                       *)

Cells == [at : {"out", "due", "read"}, as : {"none", "active", "archived"}, v : 0..Failed]
Snapshots == [as : {"none", "active", "archived"}, v : 0..Failed]

\* What a collection knows of a workspace that it listed was its status then, and it never
\* listed a deleted one: so a snapshot is stored only under the status active or archived.
ListedAs ==
  \A k \in Keys, w \in Workspaces : collects[k][w].at # "out" => collects[k][w].as \in {"active", "archived"}

\* The versions of the worktrees are counted by the changes.
Counted == changes \in 0..MaxWorld

CollectInv == CollectingTypeOK /\ ListedAs /\ Counted /\ EventsTellSnapshots /\ PaintedIsSelected

LEMMA CollectInitKeeps == CollectingInit => CollectInv
<1> SUFFICES ASSUME CollectingInit PROVE CollectInv
  OBVIOUS
<1> USE CollectingAssumption
<1>1. /\ MaxWorld \in Nat /\ 0 \in 0..MaxWorld /\ 0 \in 0..Failed
  BY DEF Failed
<1>2. world \in [Workspaces -> [status : {"active", "archived", "deleted"}, version : Versions]]
  BY <1>1 DEF CollectingInit, Versions
<1>3. NoCollect \in [Workspaces -> Cells]
  BY <1>1 DEF NoCollect, Out, Cell, Cells
<1>4. collects \in [Keys -> [Workspaces -> Cells]]
  BY <1>3 DEF CollectingInit
<1>5. snapshots \in [Workspaces -> Snapshots] /\ toldOf \in [Workspaces -> Snapshots]
  BY <1>1 DEF CollectingInit, NoSnapshot, Snapshots
<1>6. CollectingTypeOK
  BY <1>2, <1>4, <1>5 DEF CollectingInit, CollectingTypeOK, Cells, Snapshots
<1>7. ListedAs
  BY DEF CollectingInit, ListedAs, NoCollect, Out, Cell
<1> QED
  BY <1>1, <1>6, <1>7 DEF CollectingInit, CollectInv, Counted, EventsTellSnapshots, PaintedIsSelected

\* A collection begins.
LEMMA CollectsKeeps ==
  ASSUME CollectInv, NEW k \in Keys, Collects(k)
  PROVE  /\ collects' \in [Keys -> [Workspaces -> Cells]]
         /\ snapshots' \in [Workspaces -> Snapshots] /\ toldOf' = toldOf
         /\ ListedAs' /\ EventsTellSnapshots'
<1> USE CollectingAssumption
<1>1. /\ 0 \in 0..Failed
      /\ collects \in [Keys -> [Workspaces -> Cells]] /\ snapshots \in [Workspaces -> Snapshots]
      /\ \A w \in Workspaces : world[w].status \in {"active", "archived", "deleted"}
  BY DEF CollectInv, CollectingTypeOK, Cells, Snapshots, Failed
<1> DEFINE begun == [w \in Workspaces |-> IF w \in k /\ Listed(w) THEN Cell("due", world[w].status, 0) ELSE Out]
<1>2. collects' = [collects EXCEPT ![k] = begun]
  BY DEF Collects
<1>3. \A w \in Workspaces : begun[w] \in Cells /\ (begun[w].at # "out" => begun[w].as \in {"active", "archived"})
  BY <1>1 DEF Cell, Out, Cells, Listed
<1>4. begun \in [Workspaces -> Cells]
  BY <1>3
<1>5. collects' \in [Keys -> [Workspaces -> Cells]]
  BY <1>1, <1>2, <1>4
<1>6. ListedAs'
  BY <1>1, <1>2, <1>3 DEF CollectInv, ListedAs
<1>7. NoSnapshot \in Snapshots
  BY <1>1 DEF NoSnapshot, Snapshots
<1>8. \A w \in Workspaces : snapshots'[w] \in {snapshots[w], NoSnapshot}
  BY <1>1 DEF Collects
<1>9. snapshots' \in [Workspaces -> Snapshots] /\ toldOf' = toldOf
  BY <1>1, <1>7 DEF Collects
<1>10. EventsTellSnapshots'
  BY <1>8, <1>9 DEF CollectInv, EventsTellSnapshots
<1> QED
  BY <1>5, <1>6, <1>9, <1>10

\* One workspace of a collection is read, or its snapshot stored.
LEMMA CellMoves ==
  ASSUME CollectInv, NEW k \in Keys, NEW w \in Workspaces, NEW cell \in Cells,
         collects' = [collects EXCEPT ![k][w] = cell],
         cell.at # "out" => cell.as \in {"active", "archived"}
  PROVE  collects' \in [Keys -> [Workspaces -> Cells]] /\ ListedAs'
<1>1. collects \in [Keys -> [Workspaces -> Cells]]
  BY DEF CollectInv, CollectingTypeOK, Cells
<1>2. \A j \in Keys, u \in Workspaces :
        collects'[j][u] = IF j = k /\ u = w THEN cell ELSE collects[j][u]
  BY <1>1
<1>3. collects' \in [Keys -> [Workspaces -> Cells]]
  BY <1>1
<1> QED
  BY <1>2, <1>3 DEF CollectInv, ListedAs

LEMMA ProbesKeeps ==
  ASSUME CollectInv, NEW k \in Keys, NEW w \in Workspaces, Probes(k, w)
  PROVE  CollectInv'
<1> USE CollectingAssumption
<1>1. PICK v \in 0..Failed : collects' = [collects EXCEPT ![k][w] = Cell("read", "active", v)]
  <2>1. world[w].version \in 0..Failed /\ Failed \in 0..Failed
    BY DEF CollectInv, CollectingTypeOK, Versions, Failed
  <2> QED
    BY <2>1 DEF Probes
<1>2. Cell("read", "active", v) \in Cells /\ Cell("read", "active", v).as = "active"
  BY DEF Cell, Cells
<1>3. collects' \in [Keys -> [Workspaces -> Cells]] /\ ListedAs'
  BY <1>1, <1>2, CellMoves
<1> QED
  BY <1>3 DEF CollectInv, CollectingTypeOK, Cells, Counted, EventsTellSnapshots, PaintedIsSelected, Probes, window

LEMMA StoresKeeps ==
  ASSUME CollectInv, NEW k \in Keys, NEW w \in Workspaces, Stores(k, w)
  PROVE  CollectInv'
<1> USE CollectingAssumption
<1> DEFINE snapshot == [as |-> collects[k][w].as, v |-> collects[k][w].v]
<1>1. collects[k][w] \in Cells /\ snapshots \in [Workspaces -> Snapshots] /\ toldOf \in [Workspaces -> Snapshots]
  BY DEF CollectInv, CollectingTypeOK, Cells, Snapshots
<1>2. snapshot \in Snapshots
  BY <1>1 DEF Cells, Snapshots
<1>3. Out \in Cells /\ Out.at = "out"
  BY DEF Out, Cell, Cells, Failed
<1>4. collects' = [collects EXCEPT ![k][w] = Out]
  BY DEF Stores
<1>5. collects' \in [Keys -> [Workspaces -> Cells]] /\ ListedAs'
  BY <1>3, <1>4, CellMoves
<1>6. collects[k][w].at # "out"
  BY DEF Stores
<1>7. snapshot # NoSnapshot
  BY <1>6 DEF CollectInv, ListedAs, NoSnapshot
<1>8. /\ snapshots' = [snapshots EXCEPT ![w] = snapshot]
      /\ toldOf' = IF snapshots[w] = snapshot THEN toldOf ELSE [toldOf EXCEPT ![w] = snapshot]
  BY DEF Stores
<1>9. snapshots' \in [Workspaces -> Snapshots] /\ toldOf' \in [Workspaces -> Snapshots]
  BY <1>1, <1>2, <1>8
<1>10. EventsTellSnapshots'
  <2> SUFFICES ASSUME NEW u \in Workspaces, snapshots'[u] # NoSnapshot PROVE toldOf'[u] = snapshots'[u]
    BY DEF EventsTellSnapshots
  <2>1. CASE u # w
    BY <2>1, <1>1, <1>8 DEF CollectInv, EventsTellSnapshots
  <2>2. CASE u = w /\ snapshots[w] = snapshot
    BY <2>2, <1>1, <1>7, <1>8 DEF CollectInv, EventsTellSnapshots
  <2>3. CASE u = w /\ snapshots[w] # snapshot
    BY <2>3, <1>1, <1>8
  <2> QED
    BY <2>1, <2>2, <2>3
<1> QED
  BY <1>5, <1>9, <1>10 DEF CollectInv, CollectingTypeOK, Cells, Snapshots, Counted, PaintedIsSelected, Stores, window

\* The requests of the panel, and what it paints.
LEMMA PollsAnswered ==
  ASSUME polls \subseteq [ws : Workspaces, ready : BOOLEAN], NEW w \in Workspaces,
         polls' = {IF p.ws = w THEN Poll(w, TRUE) ELSE p : p \in polls}
  PROVE  polls' \subseteq [ws : Workspaces, ready : BOOLEAN]
<1> SUFFICES ASSUME NEW q \in polls' PROVE q \in [ws : Workspaces, ready : BOOLEAN]
  OBVIOUS
<1>1. PICK p \in polls : q = IF p.ws = w THEN Poll(w, TRUE) ELSE p
  OBVIOUS
<1> QED
  BY <1>1 DEF Poll

LEMMA PanelKeeps ==
  ASSUME CollectInv,
         \/ PanelPolls
         \/ \E w \in Workspaces : Selects(w) \/ AwaitsCollect(w) \/ AnswersChecks(w)
         \/ \E p \in polls : PanelPaints(p) \/ PanelFails(p)
  PROVE  CollectInv'
<1> USE DEF CollectInv, CollectingTypeOK, ListedAs, Counted, EventsTellSnapshots, PaintedIsSelected, collector, window,
            Poll, ChecksGo
<1>1. CASE PanelPolls
  <2>1. panel.ws \in Workspaces
    BY <1>1 DEF PanelPolls
  <2>2. polls' \subseteq [ws : Workspaces, ready : BOOLEAN]
    <3>1. (world[panel.ws].status # "active") \in BOOLEAN
      OBVIOUS
    <3>2. Poll(panel.ws, world[panel.ws].status # "active") \in [ws : Workspaces, ready : BOOLEAN]
      BY <2>1, <3>1
    <3> QED
      BY <1>1, <3>2 DEF PanelPolls
  <2>3. checking' \in [Workspaces -> {"none", "git", "collect", "ci"}]
    BY <1>1 DEF PanelPolls
  <2>4. UNCHANGED <<world, changes, watched, collects, snapshots, toldOf, panel, repainted>>
    BY <1>1 DEF PanelPolls
  <2> QED
    BY <2>2, <2>3, <2>4
<1>2. ASSUME NEW w \in Workspaces, Selects(w) PROVE CollectInv'
  BY <1>2 DEF Selects
<1>3. ASSUME NEW w \in Workspaces, AwaitsCollect(w) PROVE CollectInv'
  BY <1>3 DEF AwaitsCollect
<1>4. ASSUME NEW w \in Workspaces, AnswersChecks(w) PROVE CollectInv'
  <2>0. polls \subseteq [ws : Workspaces, ready : BOOLEAN]
    OBVIOUS
  <2>1. checking' \in [Workspaces -> {"none", "git", "collect", "ci"}]
    BY <1>4 DEF AnswersChecks
  <2>2. polls' = {IF p.ws = w THEN Poll(w, TRUE) ELSE p : p \in polls}
    BY <1>4 DEF AnswersChecks
  <2>3. polls' \subseteq [ws : Workspaces, ready : BOOLEAN]
    BY <2>0, <2>2, PollsAnswered
  <2>4. UNCHANGED <<world, changes, watched, collects, snapshots, toldOf, panel, repainted>>
    BY <1>4 DEF AnswersChecks
  <2> QED
    BY <2>1, <2>3, <2>4
<1>5. ASSUME NEW p \in polls, PanelPaints(p) PROVE CollectInv'
  BY <1>5 DEF PanelPaints
<1>6. ASSUME NEW p \in polls, PanelFails(p) PROVE CollectInv'
  BY <1>6 DEF PanelFails
<1> QED
  BY <1>1, <1>2, <1>3, <1>4, <1>5, <1>6

LEMMA CollectKept == CollectInv /\ [CollectingNext]_collectVars => CollectInv'
<1> SUFFICES ASSUME CollectInv, [CollectingNext]_collectVars PROVE CollectInv'
  OBVIOUS
<1> USE CollectingAssumption
<1>1. ASSUME NEW k \in Keys, Collects(k), UNCHANGED <<watched, world, changes, polls, panel, repainted>>,
             checking' \in [Workspaces -> {"none", "git", "collect", "ci"}]
      PROVE  CollectInv'
  <2>1. /\ collects' \in [Keys -> [Workspaces -> Cells]]
        /\ snapshots' \in [Workspaces -> Snapshots] /\ toldOf' = toldOf
        /\ ListedAs' /\ EventsTellSnapshots'
    BY <1>1, CollectsKeeps
  <2> QED
    BY <1>1, <2>1 DEF CollectInv, CollectingTypeOK, Cells, Snapshots, Counted, PaintedIsSelected
<1>2. checking \in [Workspaces -> {"none", "git", "collect", "ci"}]
  BY DEF CollectInv, CollectingTypeOK
<1>3. CASE Ticks
  BY <1>1, <1>2, <1>3 DEF Ticks, Keys, window
<1>4. ASSUME NEW w \in Workspaces, Demanded(w) PROVE CollectInv'
  BY <1>1, <1>2, <1>4 DEF Demanded, Keys, window
<1>5. ASSUME NEW w \in Workspaces, ReadsStatus(w) PROVE CollectInv'
  <2>1. checking' \in [Workspaces -> {"none", "git", "collect", "ci"}]
    BY <1>2, <1>5 DEF ReadsStatus, ChecksGo
  <2>2. UNCHANGED <<world, changes, polls, panel, repainted, trouble>>
    BY <1>5 DEF ReadsStatus
  <2>3. {w} \in Keys
    BY DEF Keys
  <2>4. CASE Collects({w}) /\ UNCHANGED watched
    BY <1>1, <2>1, <2>2, <2>3, <2>4
  <2>5. CASE UNCHANGED collector
    BY <2>1, <2>2, <2>5 DEF collector, CollectInv, CollectingTypeOK, ListedAs, Counted, EventsTellSnapshots, PaintedIsSelected
  <2> QED
    BY <1>5, <2>4, <2>5 DEF ReadsStatus
<1>6. ASSUME NEW w \in Workspaces, WorldChanges(w) PROVE CollectInv'
  <2>1. changes' \in 0..MaxWorld
    BY <1>6 DEF WorldChanges, CollectInv, Counted
  <2>2. world' \in [Workspaces -> [status : {"active", "archived", "deleted"}, version : Versions]]
    <3> DEFINE Worlds == [status : {"active", "archived", "deleted"}, version : Versions]
    <3>1. world \in [Workspaces -> Worlds] /\ changes' \in Versions
      BY <2>1 DEF CollectInv, CollectingTypeOK, Versions
    <3>2. PICK c \in Worlds : world' = [world EXCEPT ![w] = c]
      <4>1. CASE world' = [world EXCEPT ![w].version = changes']
        BY <4>1, <3>1
      <4>2. ASSUME NEW s \in {"active", "archived", "deleted"}, world' = [world EXCEPT ![w].status = s]
            PROVE  \E c \in Worlds : world' = [world EXCEPT ![w] = c]
        BY <4>2, <3>1
      <4> HIDE DEF Worlds
      <4> QED
        BY <1>6, <4>1, <4>2 DEF WorldChanges
    <3> HIDE DEF Worlds
    <3>3. world' \in [Workspaces -> Worlds]
      BY <3>1, <3>2
    <3> QED
      BY <3>3 DEF Worlds
  <2> QED
    BY <1>6, <2>1, <2>2 DEF WorldChanges, collector, window, CollectInv, CollectingTypeOK, ListedAs, Counted,
       EventsTellSnapshots, PaintedIsSelected
<1>7. CASE UNCHANGED collectVars
  BY <1>7 DEF collectVars, CollectInv, CollectingTypeOK, ListedAs, Counted, EventsTellSnapshots, PaintedIsSelected
<1> QED
  BY <1>3, <1>4, <1>5, <1>6, <1>7, ProbesKeeps, StoresKeeps, PanelKeeps DEF CollectingNext

\* CollectingKeeps: for any number of workspaces, collections that overlap and requests of
\* the panel, the event told last of a workspace is the snapshot there is, and what the panel
\* painted since a workspace was selected is of that workspace.
THEOREM CollectorTells == CollectingSpec => []CollectingKeeps
<1>1. CollectInv => CollectingKeeps
  BY DEF CollectInv, CollectingKeeps
<1> QED
  BY CollectInitKeeps, CollectKept, <1>1, PTL DEF CollectingSpec
=============================================================================
