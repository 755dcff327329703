--------------------------- MODULE BoardQueue_proofs ---------------------------
(* Proofs about RunJournal and BoardQueue, for any number of queues, goals,   *)
(* requests, turns, processes and faults. First what every transaction of the *)
(* run journal keeps: the invariant Known, which says how the status of a     *)
(* run, its summary and the states of its turns go together. Then the         *)
(* documents of the queues, what the handlers and the polls carry from one    *)
(* transaction to the next, and the anchor.                                   *)
EXTENDS BoardQueue, TLAPS

--------------------------------------------------------------------------------
(* The run journal.                                                           *)

\* An acknowledged summary, or none, speaks for all turns of the run.
SummaryKnows(run, sent) == run.summary \in {"", "acknowledged"} =>
    \A s \in Slots : sent[s].status \in {"unsent", "acknowledged"}

\* A checkpoint covers no turn that is still out.
SavedIsAnswered(sent) == \A s \in Slots : sent[s].saved => sent[s].status # "dispatched"

\* NothingLeftInDoubt of one run.
NoDoubt(run, sent) == \A s \in Slots :
    /\ run.status \in {"failed", "stopped"} => sent[s].status \in {"unsent", "acknowledged"}
    /\ run.status \in {"complete", "interrupted"} =>
          \/ sent[s].status \in {"unsent", "acknowledged"}
          \/ sent[s].status = "delivery_unknown" /\ sent[s].saved

\* A Stop and a result are found only in runs that they closed.
Closed(run) ==
    /\ run.stop = TRUE => run.status \in {"stopping"} \cup (TerminalRun \ {"complete"})
    /\ run.result # None => run.status = "complete"

RunKnown(run, sent) ==
    /\ run \in Run /\ sent \in [Slots -> Turn]
    /\ SummaryKnows(run, sent) /\ SavedIsAnswered(sent)
    /\ NoDoubt(run, sent) /\ Closed(run)

Known == JournalTypeOK /\ \A r \in Requests : RunKnown(runs[r], turns[r])

\* What no transaction takes back: a result, and the end that a Stop puts to
\* the run's turns, to its file changes and to its success.
KeptRow(run, sent, new, now) ==
    /\ run.result # None => new.result = run.result
    /\ run.stop = TRUE =>
          /\ new.changed = run.changed /\ new.status # "complete"
          /\ \A s \in Slots : sent[s].status = "unsent" => now[s].status = "unsent"
Kept == \A r \in Requests : KeptRow(runs[r], turns[r], runs'[r], turns'[r])

\* The invariant says what the property asks for.
LEMMA KnownImpliesNoDoubt == Known => NothingLeftInDoubt
  BY DEF Known, RunKnown, NoDoubt, NothingLeftInDoubt

LEMMA KnownInit == JournalInit => Known
<1> SUFFICES ASSUME JournalInit PROVE Known
  OBVIOUS
<1>1. NoRun \in Run /\ NoRun.status = "none" /\ NoRun.stop = FALSE /\ NoRun.result = None
  BY DEF NoRun, Run, Owners
<1>2. Unsent \in Turn /\ Unsent.status = "unsent" /\ Unsent.saved = FALSE
  BY DEF Unsent, Turn
<1>3. JournalTypeOK
  BY <1>1, <1>2 DEF JournalInit, JournalTypeOK
<1>4. \A r \in Requests : runs[r] = NoRun /\ turns[r] = [s \in Slots |-> Unsent]
  BY DEF JournalInit
<1>5. RunKnown(NoRun, [s \in Slots |-> Unsent])
  BY <1>1, <1>2 DEF RunKnown, SummaryKnows, SavedIsAnswered, NoDoubt, Closed
<1> QED BY <1>3, <1>4, <1>5 DEF Known

\* A transaction changes the rows of one request: what it leaves there decides.
LEMMA OneRow ==
  ASSUME NEW r \in Requests, NEW run, NEW sent, Known,
         runs' = [runs EXCEPT ![r] = run], turns' = [turns EXCEPT ![r] = sent],
         RunKnown(run, sent),
         KeptRow(runs[r], turns[r], run, sent)
  PROVE  Known' /\ Kept
<1>1. JournalTypeOK'
  BY DEF Known, JournalTypeOK, RunKnown
<1>2. /\ runs'[r] = run /\ turns'[r] = sent
      /\ \A q \in Requests : q # r => runs'[q] = runs[q] /\ turns'[q] = turns[q]
  BY DEF Known, JournalTypeOK
<1>3. \A q \in Requests : RunKnown(runs'[q], turns'[q])
  BY <1>2 DEF Known
<1>4. ASSUME NEW q \in Requests PROVE KeptRow(runs[q], turns[q], runs'[q], turns'[q])
  <2>1. RunKnown(runs[q], turns[q])
    BY DEF Known
  <2> QED BY <1>2, <2>1 DEF KeptRow, RunKnown, Closed, TerminalRun
<1> QED BY <1>1, <1>3, <1>4
        DEF Known, RunKnown, SummaryKnows, SavedIsAnswered, NoDoubt, Closed, Kept

\* Nothing of the journal changes.
LEMMA SameJournalKeeps ==
  ASSUME Known, UNCHANGED journal
  PROVE  Known' /\ Kept
<1>1. UNCHANGED <<runs, turns>>
  BY DEF journal
<1>2. ASSUME NEW r \in Requests PROVE KeptRow(runs[r], turns[r], runs'[r], turns'[r])
  BY <1>1 DEF Known, RunKnown, Closed, KeptRow
<1> QED BY <1>1, <1>2
        DEF Known, JournalTypeOK, RunKnown, SummaryKnows, SavedIsAnswered, NoDoubt, Closed, Kept

\* accept()
LEMMA AcceptKeeps ==
  ASSUME NEW r \in Requests, NEW p \in Procs \cup {None}, Known, Accept(r, p)
  PROVE  Known' /\ Kept
<1> DEFINE run == runs[r]
           sent == turns[r]
           new == [run EXCEPT !.status = "accepted", !.owner = p]
<1>1. RunKnown(run, sent)
  BY DEF Known
<1>2. runs' = [runs EXCEPT ![r] = new] /\ turns' = [turns EXCEPT ![r] = sent]
      /\ run.status = "none"
  BY DEF Accept, Known, JournalTypeOK
<1> HIDE DEF run, sent
<1>3. new \in Run /\ new.status = "accepted" /\ new.summary = run.summary
      /\ new.stop = run.stop /\ new.result = run.result /\ new.changed = run.changed
  BY <1>1 DEF RunKnown, Run, Owners, ActiveRun
<1>4. RunKnown(new, sent) /\ KeptRow(run, sent, new, sent)
  BY <1>1, <1>2, <1>3
  DEF RunKnown, SummaryKnows, SavedIsAnswered, NoDoubt, Closed, TerminalRun, KeptRow
<1> QED BY <1>2, <1>3, <1>4, OneRow DEF run, sent

\* start()
LEMMA StartKeeps ==
  ASSUME NEW r \in Requests, NEW p \in Procs \cup {None}, Known, StartRun(r, p)
  PROVE  Known' /\ Kept
<1> DEFINE run == runs[r]
           sent == turns[r]
           new == [run EXCEPT !.status = "running", !.owner = p]
<1>1. RunKnown(run, sent)
  BY DEF Known
<1>2. runs' = [runs EXCEPT ![r] = new] /\ turns' = [turns EXCEPT ![r] = sent]
      /\ run.status = "accepted"
  BY DEF StartRun, Known, JournalTypeOK
<1> HIDE DEF run, sent
<1>3. new \in Run /\ new.status = "running" /\ new.summary = run.summary
      /\ new.stop = run.stop /\ new.result = run.result /\ new.changed = run.changed
  BY <1>1 DEF RunKnown, Run, Owners, ActiveRun
<1>4. RunKnown(new, sent) /\ KeptRow(run, sent, new, sent)
  BY <1>1, <1>2, <1>3
  DEF RunKnown, SummaryKnows, SavedIsAnswered, NoDoubt, Closed, TerminalRun, KeptRow
<1> QED BY <1>2, <1>3, <1>4, OneRow DEF run, sent

\* begin_effect()
LEMMA BeginKeeps ==
  ASSUME NEW r \in Requests, NEW s \in Slots, Known, BeginEffect(r, s)
  PROVE  Known' /\ Kept
<1> DEFINE run == runs[r]
           sent == turns[r]
           new == [run EXCEPT !.summary = "dispatched"]
           out == [sent EXCEPT ![s] = [status |-> "dispatched", saved |-> FALSE]]
<1>1. RunKnown(run, sent)
  BY DEF Known
<1>2. runs' = [runs EXCEPT ![r] = new] /\ turns' = [turns EXCEPT ![r] = out]
      /\ run.status = "running"
  BY DEF BeginEffect, Known, JournalTypeOK
<1> HIDE DEF run, sent
<1>3. new \in Run /\ new.status = run.status /\ new.summary = "dispatched"
      /\ new.stop = run.stop /\ new.result = run.result /\ new.changed = run.changed
  BY <1>1 DEF RunKnown, Run
<1>4. out \in [Slots -> Turn]
      /\ \A u \in Slots : out[u] = IF u = s THEN [status |-> "dispatched", saved |-> FALSE] ELSE sent[u]
  BY <1>1 DEF RunKnown, Turn
<1>5. RunKnown(new, out) /\ KeptRow(run, sent, new, out)
  BY <1>1, <1>2, <1>3, <1>4
  DEF RunKnown, SummaryKnows, SavedIsAnswered, NoDoubt, Closed, TerminalRun, KeptRow
<1> QED BY <1>2, <1>3, <1>5, OneRow DEF run, sent

\* finish_effect(): the summary is made from the turns that are still out.
LEMMA FinishEffectKeeps ==
  ASSUME NEW r \in Requests, NEW s \in Slots,
         NEW status \in {"acknowledged", "delivery_unknown"}, Known,
         FinishEffect(r, s, status)
  PROVE  Known' /\ Kept
<1> DEFINE run == runs[r]
           sent == turns[r]
           known == Summary(r, s, status)
           new == [run EXCEPT !.summary = known]
           now == [sent EXCEPT ![s].status = status]
<1>1. RunKnown(run, sent)
  BY DEF Known
<1>2. runs' = [runs EXCEPT ![r] = new] /\ turns' = [turns EXCEPT ![r] = now]
      /\ sent[s].status = "dispatched"
  BY DEF FinishEffect, Known, JournalTypeOK
<1>3. known \in {"dispatched", "acknowledged", "delivery_unknown"}
  BY DEF Summary
<1>4. known = "acknowledged" => status = "acknowledged"
        /\ \A u \in Slots : u # s => sent[u].status \in {"unsent", "acknowledged"}
  <2>1. \A u \in Slots : sent[u].status \in {"unsent", "dispatched", "acknowledged", "delivery_unknown"}
    BY <1>1 DEF RunKnown, Turn
  <2>2. known = "acknowledged" =>
          /\ status = "acknowledged"
          /\ \A u \in Slots : sent[u].status # "delivery_unknown"
          /\ \A u \in Slots : u # s => sent[u].status # "dispatched"
    BY DEF Summary, With
  <2> QED BY <2>1, <2>2
<1> HIDE DEF run, sent, known
<1>5. new \in Run /\ new.status = run.status /\ new.summary = known
      /\ new.stop = run.stop /\ new.result = run.result /\ new.changed = run.changed
  BY <1>1, <1>3 DEF RunKnown, Run
<1>6. now \in [Slots -> Turn]
      /\ \A u \in Slots : now[u].status = (IF u = s THEN status ELSE sent[u].status)
                          /\ now[u].saved = sent[u].saved
  BY <1>1 DEF RunKnown, Turn
<1>7. RunKnown(new, now) /\ KeptRow(run, sent, new, now)
  BY <1>1, <1>2, <1>3, <1>4, <1>5, <1>6
  DEF RunKnown, SummaryKnows, SavedIsAnswered, NoDoubt, Closed, TerminalRun, KeptRow
<1> QED BY <1>2, <1>5, <1>7, OneRow DEF run, sent

\* Saving the turns of a run of which none is out keeps what is known of it.
LEMMA SavedKeeps ==
  ASSUME NEW r \in Requests, Known,
         \A s \in Slots : turns[r][s].status # "dispatched"
  PROVE  /\ RunKnown(runs[r], SavedTurns(r))
         /\ \A s \in Slots : SavedTurns(r)[s].status = turns[r][s].status
<1>1. RunKnown(runs[r], turns[r])
  BY DEF Known
<1>2. SavedTurns(r) \in [Slots -> Turn]
      /\ \A s \in Slots : /\ SavedTurns(r)[s].status = turns[r][s].status
                          /\ turns[r][s].saved => SavedTurns(r)[s].saved
  BY <1>1 DEF RunKnown, SavedTurns, Turn
<1> QED BY <1>1, <1>2 DEF RunKnown, SummaryKnows, SavedIsAnswered, NoDoubt, Closed, TerminalRun

\* checkpoint(), once the workers are back
LEMMA CheckpointKeeps ==
  ASSUME NEW r \in Requests, Known, With(r, "dispatched") = {}, Checkpoint(r)
  PROVE  Known' /\ Kept
<1>1. runs' = [runs EXCEPT ![r] = runs[r]] /\ turns' = [turns EXCEPT ![r] = SavedTurns(r)]
  BY DEF Checkpoint, Known, JournalTypeOK
<1>2. RunKnown(runs[r], SavedTurns(r)) /\ KeptRow(runs[r], turns[r], runs[r], SavedTurns(r))
  BY SavedKeeps DEF With, KeptRow, RunKnown, Closed
<1> QED BY <1>1, <1>2, OneRow

\* finish(): nothing the run sent is unsaved, so that nothing is still out.
LEMMA FinishKeeps ==
  ASSUME NEW r \in Requests, NEW result \in Results, Known, Finish(r, result)
  PROVE  Known' /\ Kept
<1> DEFINE run == runs[r]
           sent == turns[r]
           new == [run EXCEPT !.status = "complete", !.result = result]
<1>1. RunKnown(run, sent)
  BY DEF Known
<1>2. runs' = [runs EXCEPT ![r] = new] /\ turns' = [turns EXCEPT ![r] = sent]
      /\ run.status = "running"
  BY DEF Finish, CanFinish, Known, JournalTypeOK
<1>3. \A s \in Slots : sent[s].status = "unsent" \/ sent[s].saved
  BY DEF Finish, CanFinish, Unsaved
<1> HIDE DEF run, sent
<1>4. new \in Run /\ new.status = "complete" /\ new.summary = run.summary /\ new.stop = run.stop
  BY <1>1 DEF RunKnown, Run, TerminalRun
<1>5. RunKnown(new, sent) /\ KeptRow(run, sent, new, sent)
  <2>1. \A s \in Slots : sent[s].status \in {"unsent", "dispatched", "acknowledged", "delivery_unknown"}
    BY <1>1 DEF RunKnown, Turn
  <2> QED BY <1>1, <1>2, <1>3, <1>4, <2>1
          DEF RunKnown, SummaryKnows, SavedIsAnswered, NoDoubt, Closed, TerminalRun, KeptRow
<1>6. run.result = None
  BY <1>1, <1>2 DEF RunKnown, Closed
<1> QED BY <1>2, <1>5, <1>6, OneRow DEF run, sent

\* fail(): the status it chooses agrees with what is known of the turns.
LEMMA FailKeeps ==
  ASSUME NEW r \in Requests, NEW known \in BOOLEAN, Known, Fail(r, known)
  PROVE  Known' /\ Kept
<1>1. CASE runs[r].status \notin ActiveRun
  <2>1. UNCHANGED journal
    BY <1>1 DEF Fail
  <2> QED BY <2>1, SameJournalKeeps
<1>2. CASE runs[r].status \in ActiveRun
  <2> DEFINE run == runs[r]
             sent == turns[r]
             now == IF Receipt(r, known) THEN SavedTurns(r) ELSE sent
             status == FailStatus(r, known)
             new == [run EXCEPT !.status = status]
  <2>1. RunKnown(run, sent)
    BY DEF Known
  <2>2. runs' = [runs EXCEPT ![r] = new] /\ turns' = [turns EXCEPT ![r] = now]
    BY <1>2 DEF Fail, Known, JournalTypeOK
  <2>3. status \in {"delivery_unknown", "outcome_unknown", "stopped", "failed"}
    BY DEF FailStatus
  <2>4. status \in {"stopped", "failed"} => run.summary \in {"", "acknowledged"}
    <3>1. run.summary \in {"dispatched", "delivery_unknown"} => status = "delivery_unknown"
      BY DEF FailStatus
    <3>2. run.summary \in {"", "dispatched", "acknowledged", "delivery_unknown"}
      BY <2>1 DEF RunKnown, Run
    <3> QED BY <3>1, <3>2
  <2>5. RunKnown(run, now) /\ \A s \in Slots : now[s].status = sent[s].status
    <3>1. Receipt(r, known) => \A s \in Slots : sent[s].status # "dispatched"
      BY <2>1 DEF Receipt, RunKnown, SummaryKnows
    <3>2. CASE Receipt(r, known)
      BY <3>1, <3>2, SavedKeeps
    <3>3. CASE ~Receipt(r, known)
      BY <2>1, <3>3
    <3> QED BY <3>2, <3>3
  <2>6. run.result = None
    BY <1>2, <2>1 DEF RunKnown, Closed, ActiveRun
  <2> HIDE DEF run, sent, now, status
  <2>7. new \in Run /\ new.status = status /\ new.summary = run.summary
        /\ new.stop = run.stop /\ new.result = run.result /\ new.changed = run.changed
    BY <2>1, <2>3 DEF RunKnown, Run, TerminalRun
  <2>8. RunKnown(new, now) /\ KeptRow(run, sent, new, now)
    BY <2>1, <2>3, <2>4, <2>5, <2>6, <2>7
    DEF RunKnown, SummaryKnows, SavedIsAnswered, NoDoubt, Closed, TerminalRun, KeptRow
  <2> QED BY <2>2, <2>6, <2>8, OneRow DEF run, sent
<1> QED BY <1>1, <1>2

\* request_stop()
LEMMA StopKeeps ==
  ASSUME NEW r \in Requests, Known, RequestStop(r)
  PROVE  Known' /\ Kept
<1> DEFINE run == runs[r]
           sent == turns[r]
           new == [run EXCEPT !.status = "stopping", !.stop = TRUE]
<1>1. RunKnown(run, sent)
  BY DEF Known
<1>2. runs' = [runs EXCEPT ![r] = new] /\ turns' = [turns EXCEPT ![r] = sent]
      /\ run.status \in {"accepted", "running"}
  BY DEF RequestStop, Known, JournalTypeOK
<1> HIDE DEF run, sent
<1>3. new \in Run /\ new.status = "stopping" /\ new.summary = run.summary
      /\ new.result = run.result /\ new.changed = run.changed
  BY <1>1 DEF RunKnown, Run, ActiveRun
<1>4. RunKnown(new, sent) /\ KeptRow(run, sent, new, sent)
  BY <1>1, <1>2, <1>3
  DEF RunKnown, SummaryKnows, SavedIsAnswered, NoDoubt, Closed, TerminalRun, KeptRow
<1> QED BY <1>2, <1>3, <1>4, OneRow DEF run, sent

\* post_provider_mutation()
LEMMA MutationKeeps ==
  ASSUME NEW r \in Requests, Known, PostProviderMutation(r)
  PROVE  Known' /\ Kept
<1> DEFINE run == runs[r]
           sent == turns[r]
           new == [run EXCEPT !.changed = TRUE]
<1>1. RunKnown(run, sent)
  BY DEF Known
<1>2. runs' = [runs EXCEPT ![r] = new] /\ turns' = [turns EXCEPT ![r] = sent]
      /\ run.stop # TRUE
  BY DEF PostProviderMutation, Known, JournalTypeOK
<1> HIDE DEF run, sent
<1>3. new \in Run /\ new.status = run.status /\ new.summary = run.summary
      /\ new.stop = run.stop /\ new.result = run.result
  BY <1>1 DEF RunKnown, Run
<1>4. RunKnown(new, sent) /\ KeptRow(run, sent, new, sent)
  BY <1>1, <1>2, <1>3 DEF RunKnown, SummaryKnows, SavedIsAnswered, NoDoubt, Closed, KeptRow
<1> QED BY <1>2, <1>3, <1>4, OneRow DEF run, sent

\* The death of a process takes its ownership and nothing else.
LEMMA OrphanKeeps ==
  ASSUME NEW p \in Procs, Known, runs' = Orphaned(p), UNCHANGED turns
  PROVE  Known' /\ Kept
<1>1. \A r \in Requests :
        /\ runs'[r] \in Run /\ runs'[r].status = runs[r].status
        /\ runs'[r].summary = runs[r].summary
        /\ runs'[r].stop = runs[r].stop /\ runs'[r].result = runs[r].result
        /\ runs'[r].changed = runs[r].changed
  BY DEF Orphaned, Known, JournalTypeOK, Run, Owners
<1>2. JournalTypeOK'
  BY <1>1 DEF Orphaned, Known, JournalTypeOK
<1>3. ASSUME NEW r \in Requests
      PROVE  RunKnown(runs'[r], turns'[r]) /\ KeptRow(runs[r], turns[r], runs'[r], turns'[r])
  <2>1. RunKnown(runs[r], turns[r]) /\ turns'[r] = turns[r]
    BY DEF Known
  <2> QED BY <1>1, <2>1 DEF RunKnown, SummaryKnows, SavedIsAnswered, NoDoubt, Closed, KeptRow
<1> QED BY <1>1, <1>2, <1>3
        DEF Known, RunKnown, SummaryKnows, SavedIsAnswered, NoDoubt, Closed, Kept

\* recover_interrupted()
LEMMA RecoverKeeps ==
  ASSUME Known, RecoverInterrupted
  PROVE  Known' /\ Kept
<1>1. ASSUME NEW r \in Requests
      PROVE  RunKnown(runs'[r], turns'[r]) /\ KeptRow(runs[r], turns[r], runs'[r], turns'[r])
  <2> DEFINE run == runs[r]
             sent == turns[r]
             new == [run EXCEPT !.status = DeadStatus(r)]
  <2>1. RunKnown(run, sent) /\ turns'[r] = sent
    BY DEF Known, RecoverInterrupted
  <2>2. CASE ~(run.status \in ActiveRun /\ run.owner = Gone)
    BY <2>1, <2>2 DEF RecoverInterrupted, KeptRow, RunKnown, Closed
  <2>3. CASE run.status \in ActiveRun /\ run.owner = Gone
    <3>1. DeadStatus(r) \in {"delivery_unknown", "outcome_unknown", "interrupted"}
      BY DEF DeadStatus
    <3>2. DeadStatus(r) = "interrupted" =>
            \A s \in Slots : sent[s].status = "unsent" \/ sent[s].saved
      BY DEF DeadStatus, Unsaved
    <3>3. runs'[r] = new
      BY <2>3 DEF RecoverInterrupted
    <3>4. run.result = None
      BY <2>1, <2>3 DEF RunKnown, Closed, ActiveRun
    <3>5. \A s \in Slots : sent[s].status \in {"unsent", "dispatched", "acknowledged", "delivery_unknown"}
      BY <2>1 DEF RunKnown, Turn
    <3> HIDE DEF run, sent
    <3>6. new \in Run /\ new.status = DeadStatus(r) /\ new.summary = run.summary
          /\ new.stop = run.stop /\ new.result = run.result /\ new.changed = run.changed
      BY <2>1, <3>1 DEF RunKnown, Run, TerminalRun
    <3>7. RunKnown(new, sent) /\ KeptRow(run, sent, new, sent)
      BY <2>1, <3>1, <3>2, <3>4, <3>5, <3>6
      DEF RunKnown, SummaryKnows, SavedIsAnswered, NoDoubt, Closed, TerminalRun, KeptRow
    <3> QED BY <2>1, <3>3, <3>4, <3>7 DEF run, sent
  <2> QED BY <2>2, <2>3
<1>2. runs' \in [Requests -> Run]
  <2>1. \A r \in Requests : runs'[r] \in Run
    BY <1>1 DEF RunKnown
  <2> QED BY <2>1 DEF RecoverInterrupted
<1>3. JournalTypeOK'
  BY <1>2 DEF RecoverInterrupted, Known, JournalTypeOK
<1> QED BY <1>1, <1>3
        DEF Known, RunKnown, SummaryKnows, SavedIsAnswered, NoDoubt, Closed, Kept

--------------------------------------------------------------------------------
(* The inductive invariant.                                                   *)

\* The document d of queue q: the goals before the cursor are complete, each
\* was verified by a run made for it, and a request is found at the goal it names.
DocKnown(q, d) ==
    /\ d \in Queue
    /\ d.status \in {"none"} \cup Open => d.cursor <= N
    /\ \A i \in 1..N :
          /\ d.goals[i].request # None =>
                TargetOf[d.goals[i].request] = [queue |-> q, goal |-> i]
          /\ d.goals[i].state = "complete" <=> i < d.cursor
          /\ d.goals[i].state = "complete" => VerifiedBy(q, i)
BoardKnown == \A q \in Queues : DocKnown(q, queues[q])

\* A handler records only a result that is there.
HandlersKnown == \A r \in Requests : handler[r].at = "recording" => runs[r].result # None

\* A poll carries a request together with the goal it names.
PollsKnown == \A p \in Procs : poll[p] # None =>
    TargetOf[poll[p].request] = [queue |-> poll[p].queue, goal |-> poll[p].goal]

\* The queues and their anchor, and the threads that work on them.
BoardOK ==
    /\ queues \in [Queues -> Queue] /\ head \in Queues \cup {None}
    /\ behind \in {0, 1} /\ faults \in 0..MaxFaults
    /\ BoardKnown
ThreadsOK ==
    /\ handler \in [Requests -> Handler] /\ poll \in [Procs -> Seen \cup {None}]
    /\ up \in [Procs -> BOOLEAN]
    /\ HandlersKnown /\ PollsKnown

IInv == Known /\ BoardOK /\ ThreadsOK

--------------------------------------------------------------------------------
(* The documents.                                                             *)

\* Replacing the current goal by one that is not complete.
LEMMA SetCurrentKnown ==
  ASSUME NEW q \in Queues, NEW d, DocKnown(q, d), d.cursor <= N,
         NEW status \in {"cancelled"} \cup Open, NEW goal \in Goal,
         goal.state # "complete",
         goal.request # None => TargetOf[goal.request] = [queue |-> q, goal |-> d.cursor]
  PROVE  /\ DocKnown(q, SetCurrent(d, status, goal))
         /\ SetCurrent(d, status, goal).cursor = d.cursor
         /\ Current(SetCurrent(d, status, goal)) = goal
<1> DEFINE c == d.cursor
           new == SetCurrent(d, status, goal)
<1>1. /\ d \in Queue /\ c \in 1..N /\ d.goals \in [1..N -> Goal]
      /\ \A i \in 1..N :
          /\ d.goals[i].request # None =>
                TargetOf[d.goals[i].request] = [queue |-> q, goal |-> i]
          /\ d.goals[i].state = "complete" <=> i < c
          /\ d.goals[i].state = "complete" => VerifiedBy(q, i)
  BY BoardAssumption DEF DocKnown, Queue
<1>2. /\ new \in Queue /\ new.status = status /\ new.cursor = c
      /\ new.goals = [d.goals EXCEPT ![c] = goal]
  BY <1>1 DEF SetCurrent, Queue
<1>3. \A i \in 1..N : new.goals[i] = IF i = c THEN goal ELSE d.goals[i]
  BY <1>1, <1>2
<1> HIDE DEF new, c
<1>4. DocKnown(q, new)
  BY <1>1, <1>2, <1>3, BoardAssumption DEF DocKnown, c
<1>5. Current(new) = goal
  BY <1>1, <1>2, <1>3 DEF Current
<1> QED BY <1>2, <1>4, <1>5 DEF new, c

\* The current goal of an open queue keeps its request when it is paused.
LEMMA PausedKnown ==
  ASSUME NEW q \in Queues, NEW d, DocKnown(q, d), d.cursor <= N
  PROVE  /\ DocKnown(q, Paused(d)) /\ Paused(d).cursor = d.cursor
         /\ Current(Paused(d)).request = Current(d).request
<1> DEFINE goal == [Current(d) EXCEPT !.state = "paused", !.owner = None]
<1>1. /\ d.cursor \in 1..N /\ Current(d) \in Goal
      /\ Current(d).request # None => TargetOf[Current(d).request] = [queue |-> q, goal |-> d.cursor]
  BY BoardAssumption DEF DocKnown, Queue, Current
<1>2. goal \in Goal /\ goal.state = "paused" /\ goal.request = Current(d).request
  BY <1>1 DEF Goal, Owners
<1>3. Paused(d) = SetCurrent(d, "paused", goal)
  BY DEF Paused
<1> HIDE DEF goal
<1> QED BY <1>1, <1>2, <1>3, SetCurrentKnown DEF Open

\* The recovery of a queue whose process died.
LEMMA RecoveredKnown ==
  ASSUME NEW q \in Queues, NEW d, DocKnown(q, d)
  PROVE  /\ DocKnown(q, Recovered(d)) /\ Recovered(d).cursor = d.cursor
<1>1. d.status = "running" => d.cursor <= N
  BY DEF DocKnown, Open
<1>2. Recovered(d) = Paused(d) \/ Recovered(d) = d
  BY DEF Recovered, Paused
<1>3. CASE d.status # "running"
  BY <1>3 DEF Recovered
<1>4. CASE d.status = "running"
  BY <1>1, <1>2, <1>4, PausedKnown
<1> QED BY <1>3, <1>4

\* A verified result of the current goal.
LEMMA CompletedKnown ==
  ASSUME NEW q \in Queues, NEW d, DocKnown(q, d), d.cursor <= N, VerifiedBy(q, d.cursor)
  PROVE  DocKnown(q, Completed(d))
<1> DEFINE c == d.cursor
           goal == [Current(d) EXCEPT !.state = "complete", !.owner = None]
           new == Completed(d)
<1>1. /\ d \in Queue /\ c \in 1..N /\ d.goals \in [1..N -> Goal] /\ Current(d) = d.goals[c]
      /\ \A i \in 1..N :
          /\ d.goals[i].request # None =>
                TargetOf[d.goals[i].request] = [queue |-> q, goal |-> i]
          /\ d.goals[i].state = "complete" <=> i < c
          /\ d.goals[i].state = "complete" => VerifiedBy(q, i)
  BY BoardAssumption DEF DocKnown, Queue, Current
<1>2. goal \in Goal /\ goal.state = "complete" /\ goal.request = d.goals[c].request
  <2>1. Current(d) \in Goal
    BY <1>1
  <2> QED BY <1>1, <2>1 DEF Goal, Owners
<1>3. /\ new.status = IF c = N THEN "complete" ELSE "queued"
      /\ new.cursor = c + 1 /\ new \in Queue
      /\ new.goals = [d.goals EXCEPT ![c] = goal]
  <2> DEFINE status == IF c = N THEN "complete" ELSE "queued"
             done == SetCurrent(d, status, goal)
  <2>1. done \in Queue /\ done.status = status /\ done.cursor = c
        /\ done.goals = [d.goals EXCEPT ![c] = goal]
    BY <1>1, <1>2 DEF SetCurrent, Queue, Open
  <2>2. new = [done EXCEPT !.cursor = c + 1]
    BY <2>1 DEF Completed
  <2>3. c + 1 \in 1..(N + 1)
    BY <1>1, BoardAssumption
  <2> HIDE DEF done, new, c, status
  <2>4. new.status = done.status /\ new.cursor = c + 1 /\ new \in Queue /\ new.goals = done.goals
    BY <2>1, <2>2, <2>3 DEF Queue
  <2> QED BY <2>1, <2>4 DEF status
<1>4. \A i \in 1..N : new.goals[i] = IF i = c THEN goal ELSE d.goals[i]
  BY <1>1, <1>3
<1>5. VerifiedBy(q, c)
  OBVIOUS
<1> HIDE DEF new, c, goal
<1> QED
  <2>1. new.status \in Open => new.cursor <= N
    BY <1>1, <1>3, BoardAssumption DEF Open
  <2>2. ASSUME NEW i \in 1..N
        PROVE  /\ new.goals[i].request # None =>
                      TargetOf[new.goals[i].request] = [queue |-> q, goal |-> i]
               /\ new.goals[i].state = "complete" <=> i < new.cursor
               /\ new.goals[i].state = "complete" => VerifiedBy(q, i)
    BY <1>1, <1>2, <1>3, <1>4, <1>5
  <2> QED BY <1>3, <2>1, <2>2 DEF DocKnown, new

\* A claim of the goal the request names.
LEMMA ClaimedKnown ==
  ASSUME NEW q \in Queues, NEW d, DocKnown(q, d), NEW r \in Requests, NEW p \in Procs,
         TargetOf[r] = [queue |-> q, goal |-> d.cursor], d.cursor <= N
  PROVE  DocKnown(q, Claimed(d, r, p))
<1> DEFINE goal == [state |-> "running", request |-> r, owner |-> p]
<1>1. goal \in Goal /\ goal.state # "complete" /\ goal.request = r
  BY DEF Goal, Owners
<1> HIDE DEF goal
<1> QED BY <1>1, SetCurrentKnown DEF Claimed, Open, goal

\* start() and cancel() write the status alone.
LEMMA StatusKnown ==
  ASSUME NEW q \in Queues, NEW d, DocKnown(q, d), d.cursor <= N,
         NEW status \in {"queued", "cancelled"}
  PROVE  DocKnown(q, [d EXCEPT !.status = status])
<1> DEFINE new == [d EXCEPT !.status = status]
<1>1. new \in Queue /\ new.cursor = d.cursor /\ new.goals = d.goals
  BY DEF DocKnown, Queue, Open
<1> HIDE DEF new
<1>2. DocKnown(q, new)
  BY <1>1 DEF DocKnown
<1> QED BY <1>2 DEF new
--------------------------------------------------------------------------------
(* The transactions.                                                          *)

\* One revision behind is within reach of the repair.
LEMMA NearOpens == BoardOK => Opens /\ Forwarded = 0
  BY DEF BoardOK, Opens, Forwarded

\* A committed change, whether or not its anchor was written.
LEMMA CommitBoard ==
  ASSUME BoardOK, UNCHANGED journal, NEW q \in Queues, NEW d, DocKnown(q, d),
         Commit(q, d), Anchored \/ Unanchored
  PROVE  BoardOK'
<1>1. behind' \in {0, 1} /\ faults' \in 0..MaxFaults
  BY NearOpens, BoardAssumption DEF Anchored, Unanchored, BoardOK
<1>2. queues' = [queues EXCEPT ![q] = d] /\ head' = q
  BY DEF Commit
<1>3. queues' \in [Queues -> Queue] /\ head' \in Queues \cup {None}
  BY <1>2 DEF BoardOK, DocKnown
<1>4. ASSUME NEW k \in Queues PROVE DocKnown(k, queues'[k])
  <2>1. queues'[k] = IF k = q THEN d ELSE queues[k]
    BY <1>2 DEF BoardOK
  <2> QED BY <2>1 DEF BoardOK, BoardKnown
<1>5. BoardKnown'
  BY <1>4 DEF BoardKnown, DocKnown, VerifiedBy, journal
<1> QED BY <1>1, <1>3, <1>5 DEF BoardOK

\* A transaction that changes nothing.
LEMMA ReadBoard ==
  ASSUME BoardOK, UNCHANGED journal, Read
  PROVE  BoardOK'
<1>1. behind' \in {0, 1} /\ UNCHANGED <<queues, head, faults>>
  BY NearOpens DEF Read
<1> QED BY <1>1 DEF BoardOK, BoardKnown, DocKnown, VerifiedBy, journal

\* The journal moves on and takes no result back.
LEMMA SameBoard ==
  ASSUME BoardOK, Kept, UNCHANGED <<boardVars, faults>>
  PROVE  BoardOK'
<1>1. ASSUME NEW q \in Queues, NEW i \in 1..N, VerifiedBy(q, i) PROVE VerifiedBy(q, i)'
  BY <1>1, BoardAssumption DEF VerifiedBy, Kept, KeptRow, Results
<1>2. ASSUME NEW q \in Queues PROVE DocKnown(q, queues[q])'
  BY <1>1, <1>2 DEF BoardOK, BoardKnown, DocKnown, boardVars
<1> QED BY <1>2 DEF BoardOK, BoardKnown, boardVars

\* A record completes the goal that the run was made for, or pauses the current one.
LEMMA RecordBoard ==
  ASSUME BoardOK, UNCHANGED journal, NEW q \in Queues, NEW i \in 1..N,
         NEW result \in Results, result = "verified" => VerifiedBy(q, i),
         Record(q, i, result), RecordAnchored(q, i) \/ RecordUnanchored(q, i)
  PROVE  BoardOK'
<1>1. CASE ~OfCurrent(queues[q], i)
  BY <1>1, ReadBoard DEF Record
<1>2. CASE OfCurrent(queues[q], i)
  <2> DEFINE d == queues[q]
  <2>1. DocKnown(q, d) /\ d.cursor <= N /\ i = d.cursor
    BY <1>2 DEF BoardOK, BoardKnown, OfCurrent
  <2>2. DocKnown(q, Outcome(d, result))
    <3>1. CASE result = "verified"
      BY <2>1, <3>1, CompletedKnown DEF Outcome
    <3>2. CASE result # "verified"
      BY <2>1, <3>2, PausedKnown DEF Outcome
    <3> QED BY <3>1, <3>2
  <2>3. Commit(q, Outcome(d, result)) /\ (Anchored \/ Unanchored)
    BY <1>2 DEF Record, RecordAnchored, RecordUnanchored
  <2> QED BY <2>2, <2>3, CommitBoard
<1> QED BY <1>1, <1>2

--------------------------------------------------------------------------------
(* The threads.                                                               *)

LEMMA SameThreads ==
  ASSUME ThreadsOK, Kept, UNCHANGED <<handler, poll, up>>
  PROVE  ThreadsOK'
  BY DEF ThreadsOK, HandlersKnown, PollsKnown, Kept, KeptRow

\* A handler goes on, to record only a result that is there.
LEMMA HandlerMoves ==
  ASSUME ThreadsOK, Kept, UNCHANGED <<poll, up>>, NEW r \in Requests,
         NEW new \in Handler, handler' = [handler EXCEPT ![r] = new],
         new.at = "recording" => runs'[r].result # None
  PROVE  ThreadsOK'
<1>1. \A s \in Requests : handler'[s] = IF s = r THEN new ELSE handler[s]
  BY DEF ThreadsOK
<1>2. HandlersKnown'
  BY <1>1 DEF ThreadsOK, HandlersKnown, Kept, KeptRow
<1> QED BY <1>2 DEF ThreadsOK, PollsKnown

LEMMA HandlerGoesTo ==
  ASSUME ThreadsOK, Kept, UNCHANGED <<poll, up>>, NEW r \in Requests,
         NEW stage \in Stages, To(r, stage),
         stage = "recording" => runs'[r].result # None
  PROVE  ThreadsOK'
<1> DEFINE new == [handler[r] EXCEPT !.at = stage]
<1>1. new \in Handler /\ new.at = stage
  BY DEF ThreadsOK, Handler
<1>2. handler' = [handler EXCEPT ![r] = new]
  BY DEF To, ThreadsOK
<1> HIDE DEF new
<1> QED BY <1>1, <1>2, HandlerMoves

LEMMA HandlerEnds ==
  ASSUME ThreadsOK, Kept, UNCHANGED <<poll, up>>, NEW r \in Requests, Ends(r)
  PROVE  ThreadsOK'
<1>1. Idle \in Handler /\ Idle.at # "recording"
  BY DEF Idle, Handler, Stages
<1> QED BY <1>1, HandlerMoves DEF Ends

\* A poll takes the request of the current goal with it, or is over.
LEMMA PollMoves ==
  ASSUME ThreadsOK, Kept, UNCHANGED <<handler, up>>, NEW p \in Procs,
         NEW seen \in Seen \cup {None}, poll' = [poll EXCEPT ![p] = seen],
         seen # None => TargetOf[seen.request] = [queue |-> seen.queue, goal |-> seen.goal]
  PROVE  ThreadsOK'
<1>1. \A k \in Procs : poll'[k] = IF k = p THEN seen ELSE poll[k]
  BY DEF ThreadsOK
<1>2. PollsKnown'
  BY <1>1 DEF ThreadsOK, PollsKnown
<1> QED BY <1>2 DEF ThreadsOK, HandlersKnown, Kept, KeptRow
--------------------------------------------------------------------------------
(* The steps.                                                                 *)

LEMMA InitInvariant == Init => IInv
<1> SUFFICES ASSUME Init PROVE IInv
  OBVIOUS
<1>1. Known
  BY KnownInit DEF Init
<1>2. NewGoal \in Goal /\ NewGoal.state = "queued" /\ NewGoal.request = None
  BY DEF NewGoal, Goal, Owners
<1>3. NoQueue \in Queue /\ NoQueue.status = "none" /\ NoQueue.cursor = 1
      /\ \A i \in 1..N : NoQueue.goals[i] = NewGoal
  BY <1>2, BoardAssumption DEF NoQueue, Queue, Open
<1>4. ASSUME NEW q \in Queues PROVE DocKnown(q, NoQueue)
  BY <1>2, <1>3, BoardAssumption DEF DocKnown, Open
<1>5. BoardOK
  BY <1>3, <1>4, BoardAssumption DEF Init, BoardOK, BoardKnown
<1>6. Idle \in Handler /\ Idle.at # "recording"
  BY DEF Idle, Handler, Stages
<1>7. ThreadsOK
  BY <1>6 DEF Init, ThreadsOK, HandlersKnown, PollsKnown
<1> QED BY <1>1, <1>5, <1>7 DEF IInv

\* Steps that touch the journal and at most the stage of one handler.
LEMMA JournalStep ==
  ASSUME IInv, Known', Kept, UNCHANGED <<boardVars, faults>>, ThreadsOK'
  PROVE  IInv' /\ Kept
  BY SameBoard DEF IInv

\* Steps that leave the journal alone.
LEMMA BoardStep ==
  ASSUME IInv, UNCHANGED journal, BoardOK', ThreadsOK'
  PROVE  IInv' /\ Kept
  BY SameJournalKeeps DEF IInv

\* start(), its reuse of an open queue, and cancel()
LEMMA UserKeeps ==
  ASSUME IInv, NEW q \in Queues, StartQueue(q) \/ ReuseQueue(q) \/ Cancel(q)
  PROVE  IInv' /\ Kept
<1>1. DocKnown(q, queues[q]) /\ UNCHANGED journal /\ ThreadsOK' /\ BoardOK
  BY SameThreads, SameJournalKeeps DEF IInv, BoardOK, BoardKnown, StartQueue, ReuseQueue, Cancel
<1>2. CASE StartQueue(q)
  <2>1. queues[q].cursor <= N
    BY <1>1, <1>2 DEF DocKnown, StartQueue
  <2> QED BY <1>1, <1>2, <2>1, StatusKnown, CommitBoard, BoardStep DEF StartQueue
<1>3. CASE Cancel(q)
  <2>1. queues[q].cursor <= N
    BY <1>1, <1>3 DEF DocKnown, Cancel, Cancellable
  <2> QED BY <1>1, <1>3, <2>1, StatusKnown, CommitBoard, BoardStep DEF Cancel
<1>4. CASE ReuseQueue(q)
  <2>1. DocKnown(q, Recovered(queues[q]))
    BY <1>1, RecoveredKnown
  <2> QED BY <1>1, <1>4, <2>1, CommitBoard, ReadBoard, BoardStep DEF ReuseQueue
<1> QED BY <1>2, <1>3, <1>4

\* claim()
LEMMA ClaimKeeps ==
  ASSUME IInv, NEW r \in Requests, NEW p \in Procs, Claim(r, p)
  PROVE  IInv' /\ Kept
<1> DEFINE q == TargetOf[r].queue
           d == Recovered(queues[q])
           claimed == [at |-> "claimed", proc |-> p]
<1>1. q \in Queues /\ TargetOf[r].goal \in 1..N /\ TargetOf[r] = [queue |-> q, goal |-> TargetOf[r].goal]
  BY BoardAssumption
<1>2. DocKnown(q, d) /\ UNCHANGED <<journal, poll, up>> /\ BoardOK /\ ThreadsOK
  BY <1>1, RecoveredKnown DEF IInv, BoardOK, BoardKnown, Claim
<1>3. Claimable(d, r)
  BY DEF Claim
<1>4. d.cursor <= N /\ TargetOf[r].goal = d.cursor
  BY <1>3 DEF Claimable, OfCurrent
<1>5. Kept
  BY <1>2, SameJournalKeeps DEF IInv
<1>6. claimed \in Handler /\ claimed.at # "recording"
  BY DEF Handler, Stages
<1>7. \/ Read /\ handler' = [handler EXCEPT ![r] = claimed]
      \/ Commit(q, Claimed(d, r, p)) /\ Anchored /\ handler' = [handler EXCEPT ![r] = claimed]
      \/ Commit(q, Claimed(d, r, p)) /\ Unanchored /\ UNCHANGED handler
  BY DEF Claim
<1> HIDE DEF q, d, claimed
<1>8. ThreadsOK'
  BY <1>2, <1>5, <1>6, <1>7, HandlerMoves, SameThreads
<1>9. BoardOK'
  BY <1>1, <1>2, <1>4, <1>7, ClaimedKnown, CommitBoard, ReadBoard
<1> QED BY <1>2, <1>8, <1>9, BoardStep

\* The steps of a handler with the journal: accept, start, turns, checkpoint,
\* finish, fail, and the Stop of the user.
LEMMA HandlerKeeps ==
  ASSUME IInv, NEW r \in Requests,
         \/ AcceptNew(r) \/ AcceptAgain(r) \/ Start(r) \/ SaveReply(r) \/ GiveUp(r)
         \/ Stop(r) \/ ChangeFiles(r)
         \/ \E known \in BOOLEAN : FailRun(r, known)
         \/ \E result \in Results : FinishRun(r, result)
         \/ \E s \in Slots : BeginTurn(r, s)
         \/ \E s \in Slots, status \in {"acknowledged", "delivery_unknown"} : EndTurn(r, s, status)
  PROVE  IInv' /\ Kept
<1>1. Known /\ BoardOK /\ ThreadsOK /\ handler[r] \in Handler
  BY DEF IInv, ThreadsOK
<1>2. \A stage \in {"accepted", "working", "saved", "failing", "noting", "recording"} : stage \in Stages
  BY DEF Stages
<1>3. CASE AcceptNew(r)
  <2>1. Known' /\ Kept
    BY <1>1, <1>3, AcceptKeeps DEF AcceptNew, Handler
  <2> QED BY <1>1, <1>2, <1>3, <2>1, HandlerGoesTo, JournalStep DEF AcceptNew
<1>4. CASE AcceptAgain(r)
  <2>1. Known' /\ Kept /\ UNCHANGED runs
    BY <1>1, <1>4, SameJournalKeeps DEF AcceptAgain, journal
  <2>2. ThreadsOK'
    BY <1>1, <1>2, <1>4, <2>1, HandlerGoesTo, HandlerEnds DEF AcceptAgain
  <2> QED BY <1>4, <2>1, <2>2, JournalStep DEF AcceptAgain
<1>5. CASE Start(r)
  <2>1. Known' /\ Kept
    BY <1>1, <1>5, StartKeeps, SameJournalKeeps DEF Start, Handler
  <2>2. ThreadsOK'
    BY <1>1, <1>2, <1>5, <2>1, HandlerGoesTo DEF Start
  <2> QED BY <1>5, <2>1, <2>2, JournalStep DEF Start
<1>6. CASE SaveReply(r)
  <2>1. Known' /\ Kept
    BY <1>1, <1>6, CheckpointKeeps DEF SaveReply, Back
  <2>2. ThreadsOK'
    BY <1>1, <1>2, <1>6, <2>1, HandlerGoesTo DEF SaveReply
  <2> QED BY <1>6, <2>1, <2>2, JournalStep DEF SaveReply
<1>7. CASE GiveUp(r)
  <2>1. Known' /\ Kept
    BY <1>1, <1>7, SameJournalKeeps DEF GiveUp
  <2>2. ThreadsOK'
    BY <1>1, <1>2, <1>7, <2>1, HandlerGoesTo DEF GiveUp
  <2> QED BY <1>7, <2>1, <2>2, JournalStep DEF GiveUp
<1>8. CASE Stop(r)
  <2>1. Known' /\ Kept
    BY <1>1, <1>8, StopKeeps DEF Stop
  <2> QED BY <1>1, <1>8, <2>1, SameThreads, JournalStep DEF Stop
<1>9. CASE ChangeFiles(r)
  <2>1. Known' /\ Kept
    BY <1>1, <1>9, MutationKeeps DEF ChangeFiles
  <2> QED BY <1>1, <1>9, <2>1, SameThreads, JournalStep DEF ChangeFiles
<1>10. ASSUME NEW known \in BOOLEAN, FailRun(r, known) PROVE IInv' /\ Kept
  <2>1. Known' /\ Kept
    BY <1>1, <1>10, FailKeeps DEF FailRun
  <2>2. ThreadsOK'
    BY <1>1, <1>2, <1>10, <2>1, HandlerGoesTo DEF FailRun
  <2> QED BY <1>10, <2>1, <2>2, JournalStep DEF FailRun
<1>11. ASSUME NEW result \in Results, FinishRun(r, result) PROVE IInv' /\ Kept
  <2>1. Known' /\ Kept
    BY <1>1, <1>11, FinishKeeps DEF FinishRun
  <2>2. runs'[r].result # None
    <3>1. runs' = [runs EXCEPT ![r].status = "complete", ![r].result = result] /\ runs[r] \in Run
      BY <1>1, <1>11 DEF FinishRun, Finish, Known, JournalTypeOK
    <3>2. runs'[r].result = result
      BY <1>1, <3>1 DEF Known, JournalTypeOK, Run
    <3> QED BY <3>2, BoardAssumption
  <2>3. ThreadsOK'
    BY <1>1, <1>2, <1>11, <2>1, <2>2, HandlerGoesTo DEF FinishRun
  <2> QED BY <1>11, <2>1, <2>3, JournalStep DEF FinishRun
<1>12. ASSUME NEW s \in Slots, BeginTurn(r, s) PROVE IInv' /\ Kept
  <2>1. Known' /\ Kept
    BY <1>1, <1>12, BeginKeeps DEF BeginTurn
  <2> QED BY <1>1, <1>12, <2>1, SameThreads, JournalStep DEF BeginTurn
<1>13. ASSUME NEW s \in Slots, NEW status \in {"acknowledged", "delivery_unknown"},
              EndTurn(r, s, status)
       PROVE  IInv' /\ Kept
  <2>1. Known' /\ Kept
    BY <1>1, <1>13, FinishEffectKeeps DEF EndTurn
  <2> QED BY <1>1, <1>13, <2>1, SameThreads, JournalStep DEF EndTurn
<1> QED BY <1>3, <1>4, <1>5, <1>6, <1>7, <1>8, <1>9, <1>10, <1>11, <1>12, <1>13

\* record_result() and record_failure()
LEMMA RecordKeeps ==
  ASSUME IInv, NEW r \in Requests, RecordResult(r) \/ RecordFailure(r)
  PROVE  IInv' /\ Kept
<1> DEFINE q == TargetOf[r].queue
           i == TargetOf[r].goal
<1>1. q \in Queues /\ i \in 1..N /\ TargetOf[r] = [queue |-> q, goal |-> i]
  BY BoardAssumption
<1>2. UNCHANGED <<journal, poll, up>> /\ BoardOK /\ ThreadsOK /\ Known
  BY DEF IInv, RecordResult, RecordFailure
<1>3. Kept
  BY <1>2, SameJournalKeeps
<1>4. CASE RecordResult(r)
  <2>1. runs[r].result \in Results
    <3>1. runs[r].result # None /\ runs[r] \in Run
      BY <1>2, <1>4 DEF RecordResult, ThreadsOK, HandlersKnown, Known, JournalTypeOK
    <3> QED BY <3>1 DEF Run
  <2>2. runs[r].result = "verified" => VerifiedBy(q, i)
    BY <1>1 DEF VerifiedBy
  <2>3. BoardOK'
    BY <1>1, <1>2, <1>4, <2>1, <2>2, RecordBoard DEF RecordResult
  <2>4. ThreadsOK'
    BY <1>2, <1>3, <1>4, HandlerEnds, HandlerGoesTo DEF RecordResult, Stages
  <2> QED BY <1>2, <2>3, <2>4, BoardStep
<1>5. CASE RecordFailure(r)
  <2>1. BoardOK'
    BY <1>1, <1>2, <1>5, RecordBoard DEF RecordFailure, Results
  <2>2. ThreadsOK'
    BY <1>2, <1>3, <1>5, HandlerEnds DEF RecordFailure
  <2> QED BY <1>2, <2>1, <2>2, BoardStep
<1> QED BY <1>4, <1>5

\* reconcile()
LEMMA PollStatusKeeps ==
  ASSUME IInv, NEW p \in Procs, PollStatus(p)
  PROVE  IInv' /\ Kept
<1> DEFINE d == Recovered(queues[head])
           seen == Sees(d, head)
<1>1. head \in Queues /\ UNCHANGED <<journal, handler, up>> /\ BoardOK /\ ThreadsOK /\ Known
  BY DEF IInv, BoardOK, PollStatus
<1>2. DocKnown(head, queues[head])
  BY <1>1 DEF BoardOK, BoardKnown
<1>3. DocKnown(head, d)
  BY <1>1, <1>2, RecoveredKnown
<1>4. Kept
  BY <1>1, SameJournalKeeps
<1>5. \/ d = queues[head] /\ Read /\ poll' = [poll EXCEPT ![p] = seen]
      \/ Commit(head, d) /\ Anchored /\ poll' = [poll EXCEPT ![p] = seen]
      \/ Commit(head, d) /\ Unanchored /\ UNCHANGED poll
  BY DEF PollStatus
<1>6. seen \in Seen \cup {None}
      /\ (seen # None => TargetOf[seen.request] = [queue |-> seen.queue, goal |-> seen.goal])
  <2> HIDE DEF d
  <2>1. CASE ~(d.status \in Open /\ Current(d).request # None)
    BY <2>1 DEF Sees
  <2>2. CASE d.status \in Open /\ Current(d).request # None
    <3>1. d.cursor \in 1..N /\ d.goals[d.cursor] \in Goal
      BY <1>3, <2>2, BoardAssumption DEF DocKnown, Queue
    <3>2. Current(d).request \in Requests
          /\ TargetOf[Current(d).request] = [queue |-> head, goal |-> d.cursor]
      BY <1>3, <2>2, <3>1 DEF DocKnown, Current, Goal
    <3>3. seen = [request |-> Current(d).request, queue |-> head, goal |-> d.cursor]
      BY <2>2 DEF Sees
    <3> HIDE DEF seen
    <3> QED BY <1>1, <3>1, <3>2, <3>3 DEF Seen
  <2> QED BY <2>1, <2>2
<1> HIDE DEF d, seen
<1>7. ThreadsOK'
  BY <1>1, <1>4, <1>5, <1>6, PollMoves, SameThreads
<1>8. BoardOK'
  BY <1>1, <1>3, <1>5, CommitBoard, ReadBoard
<1> QED BY <1>1, <1>7, <1>8, BoardStep

LEMMA PollRecordKeeps ==
  ASSUME IInv, NEW p \in Procs, PollRecord(p)
  PROVE  IInv' /\ Kept
<1> DEFINE t == poll[p]
           result == Reported(runs[t.request])
<1>1. UNCHANGED <<journal, handler, up>> /\ BoardOK /\ ThreadsOK /\ Known
  BY DEF IInv, PollRecord
<1>2. t # None /\ t \in Seen /\ TargetOf[t.request] = [queue |-> t.queue, goal |-> t.goal]
  BY <1>1 DEF PollRecord, ThreadsOK, PollsKnown
<1>3. t.request \in Requests /\ t.queue \in Queues /\ t.goal \in 1..N
  BY <1>2 DEF Seen
<1>4. Kept
  BY <1>1, SameJournalKeeps
<1>5. /\ result \in Results \cup {None}
      /\ result = "verified" => VerifiedBy(t.queue, t.goal)
  <2>1. runs[t.request] \in Run
    BY <1>1, <1>3 DEF Known, JournalTypeOK
  <2>2. result = "verified" => runs[t.request].result = "verified"
    BY BoardAssumption DEF Reported, Results
  <2>3. result \in Results \cup {None}
    BY <2>1 DEF Reported, Results, Run
  <2> QED BY <1>2, <1>3, <2>2, <2>3 DEF VerifiedBy
<1>6. ThreadsOK'
  BY <1>1, <1>4, PollMoves DEF PollRecord
<1>7. BoardOK'
  <2>1. CASE result = None
    BY <1>1, <1>4, <2>1, SameBoard DEF PollRecord
  <2>2. CASE result # None
    BY <1>1, <1>3, <1>5, <2>2, RecordBoard DEF PollRecord
  <2> QED BY <2>1, <2>2
<1> QED BY <1>1, <1>6, <1>7, BoardStep

\* A process dies, or comes back.
LEMMA CrashKeeps ==
  ASSUME IInv, NEW p \in Procs, Crash(p)
  PROVE  IInv' /\ Kept
<1>1. Known' /\ Kept /\ BoardOK /\ ThreadsOK
  BY OrphanKeeps DEF IInv, Crash
<1>2. ASSUME NEW q \in Queues PROVE DocKnown(q, queues[q])'
  <2> DEFINE d == queues[q]
             lost(goal) == [goal EXCEPT !.owner = IF @ = p THEN Gone ELSE @]
             goals == [i \in 1..N |-> lost(d.goals[i])]
  <2>1. DocKnown(q, d)
    BY <1>1 DEF BoardOK, BoardKnown
  <2>2. queues'[q] = [d EXCEPT !.goals = goals]
    BY DEF Crash
  <2>3. \A goal \in Goal : lost(goal) \in Goal /\ lost(goal).state = goal.state
                           /\ lost(goal).request = goal.request
    BY DEF Goal, Owners
  <2>4. \A i \in 1..N : goals[i] \in Goal /\ goals[i].state = d.goals[i].state
                        /\ goals[i].request = d.goals[i].request
    BY <2>1, <2>3 DEF DocKnown, Queue
  <2>5. goals \in [1..N -> Goal]
    BY <2>4
  <2> HIDE DEF goals, d, lost
  <2>6. queues'[q] \in Queue /\ queues'[q].status = d.status /\ queues'[q].cursor = d.cursor
        /\ queues'[q].goals = goals
    BY <2>1, <2>2, <2>5 DEF DocKnown, Queue
  <2>7. \A i \in 1..N : VerifiedBy(q, i) => VerifiedBy(q, i)'
    BY <1>1, BoardAssumption DEF VerifiedBy, Kept, KeptRow, Results
  <2> QED BY <2>1, <2>4, <2>6, <2>7 DEF DocKnown
<1>3. BoardOK'
  <2>1. queues' \in [Queues -> Queue]
    BY <1>2 DEF Crash, DocKnown
  <2>2. faults' \in 0..MaxFaults /\ behind' = behind /\ head' = head
    BY <1>1, BoardAssumption DEF Crash, BoardOK
  <2> QED BY <1>1, <1>2, <2>1, <2>2 DEF BoardOK, BoardKnown
<1>4. ThreadsOK'
  <2>1. Idle \in Handler /\ Idle.at # "recording"
    BY DEF Idle, Handler, Stages
  <2>2. handler' \in [Requests -> Handler] /\ HandlersKnown'
    BY <1>1, <2>1 DEF Crash, ThreadsOK, HandlersKnown, Kept, KeptRow
  <2>3. poll' \in [Procs -> Seen \cup {None}] /\ up' \in [Procs -> BOOLEAN] /\ PollsKnown'
    BY <1>1 DEF Crash, ThreadsOK, PollsKnown
  <2> QED BY <2>2, <2>3 DEF ThreadsOK
<1> QED BY <1>1, <1>3, <1>4 DEF IInv

LEMMA RestartKeeps ==
  ASSUME IInv, NEW p \in Procs, Restart(p)
  PROVE  IInv' /\ Kept
<1>1. Known' /\ Kept
  BY RecoverKeeps DEF IInv, Restart
<1>2. ThreadsOK'
  BY <1>1 DEF IInv, Restart, ThreadsOK, HandlersKnown, PollsKnown, Kept, KeptRow
<1> QED BY <1>1, <1>2, JournalStep DEF Restart

LEMMA StepInvariant == IInv /\ [Next]_vars => IInv' /\ Kept
<1> SUFFICES ASSUME IInv, [Next]_vars PROVE IInv' /\ Kept
  OBVIOUS
<1>1. ASSUME NEW q \in Queues, StartQueue(q) \/ ReuseQueue(q) \/ Cancel(q) PROVE IInv' /\ Kept
  BY <1>1, UserKeeps
<1>2. ASSUME NEW r \in Requests, Stop(r) \/ ChangeFiles(r) PROVE IInv' /\ Kept
  BY <1>2, HandlerKeeps
<1>3. ASSUME NEW r \in Requests, Serve(r) PROVE IInv' /\ Kept
  BY <1>3, HandlerKeeps, RecordKeeps DEF Serve
<1>4. ASSUME NEW r \in Requests, NEW p \in Procs, Claim(r, p) PROVE IInv' /\ Kept
  BY <1>4, ClaimKeeps
<1>5. ASSUME NEW r \in Requests, NEW s \in TurnsOf[r], BeginTurn(r, s) PROVE IInv' /\ Kept
  <2>1. s \in Slots
    BY BoardAssumption
  <2> QED BY <1>5, <2>1, HandlerKeeps
<1>6. ASSUME NEW p \in Procs, PollStatus(p) \/ PollRecord(p) \/ Crash(p) \/ Restart(p) PROVE IInv' /\ Kept
  BY <1>6, PollStatusKeeps, PollRecordKeeps, CrashKeeps, RestartKeeps
<1>7. CASE UNCHANGED vars
  <2>1. UNCHANGED journal /\ UNCHANGED <<boardVars, faults>> /\ UNCHANGED <<handler, poll, up>>
    BY <1>7 DEF vars, journal, boardVars
  <2> QED BY <2>1, SameJournalKeeps, SameThreads, JournalStep DEF IInv
<1> QED BY <1>1, <1>2, <1>3, <1>4, <1>5, <1>6, <1>7 DEF Next

--------------------------------------------------------------------------------
(* The theorems.                                                              *)

\* Every reachable state has the invariant.
THEOREM BoardInvariant == Spec => []IInv
  BY InitInvariant, StepInvariant, PTL DEF Spec

\* The variables keep their types.
THEOREM BoardTypes == Spec => []TypeOK
<1>1. IInv => TypeOK
  BY DEF IInv, Known, BoardOK, ThreadsOK, TypeOK
<1> QED BY <1>1, BoardInvariant, PTL

\* The goals of a queue are completed one after the other, each by a verified
\* result of a run made for it, whatever is lost, repeated or late.
THEOREM GoalsCompletedInOrder == Spec => []CompletedInOrder
<1>1. IInv => CompletedInOrder
  BY DEF IInv, BoardOK, BoardKnown, DocKnown, CompletedInOrder
<1> QED BY <1>1, BoardInvariant, PTL

\* What a closed run says of its provider turns is true of them.
THEOREM NoTurnInDoubt == Spec => []NothingLeftInDoubt
<1>1. IInv => NothingLeftInDoubt
  BY KnownImpliesNoDoubt DEF IInv
<1> QED BY <1>1, BoardInvariant, PTL

\* The anchor is never further behind than the next transaction repairs.
THEOREM BoardAlwaysOpens == Spec => []AlwaysOpens
<1>1. IInv => AlwaysOpens
  BY NearOpens DEF IInv, AlwaysOpens
<1> QED BY <1>1, BoardInvariant, PTL
\* After a Stop the run sends nothing more, changes no file and does not end in
\* success.
THEOREM AStopIsFinal == Spec => StopIsFinal
<1>1. IInv /\ Kept =>
        \A r \in Requests : runs[r].stop =>
            /\ runs'[r].changed = runs[r].changed /\ runs'[r].status # "complete"
            /\ \A s \in Slots : turns[r][s].status = "unsent" => turns'[r][s].status = "unsent"
  BY DEF IInv, Known, RunKnown, Run, Kept, KeptRow
<1>2. IInv /\ [Next]_vars => [\A r \in Requests : runs[r].stop =>
            /\ runs'[r].changed = runs[r].changed /\ runs'[r].status # "complete"
            /\ \A s \in Slots : turns[r][s].status = "unsent" => turns'[r][s].status = "unsent"]_vars
  BY <1>1, StepInvariant
<1> QED BY <1>2, BoardInvariant, PTL DEF Spec, StopIsFinal
================================================================================
