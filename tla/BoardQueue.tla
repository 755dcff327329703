------------------------------ MODULE BoardQueue ------------------------------
(* The board's queue of goals (swarm_goal_queue.py) together with the request *)
(* handler that runs its goals (/api/swarm/say in server.py) and the run      *)
(* journal. A goal is claimed, its request becomes a run, the run's result is *)
(* recorded: three stores that are written one after the other, while every   *)
(* open window polls and repairs the queue, and processes may die in between. *)
EXTENDS RunJournal, Naturals

CONSTANTS
    Queues,    \* the queues ever started; a start request makes at most one
    N,         \* goals in a queue
    TargetOf,  \* request |-> the queue and goal its body names
    ChatOf,    \* request |-> the chat it is sent in
    TurnsOf,   \* bound: request |-> the slots its run may use
    MaxFaults  \* bound on crashes and failed anchor writes

ASSUME BoardAssumption ==
    /\ N \in Nat \ {0} /\ MaxFaults \in Nat
    /\ None \notin Requests \cup Queues /\ None \notin Results
    /\ TargetOf \in [Requests -> [queue : Queues, goal : 1..N]]
    /\ TurnsOf \in [Requests -> SUBSET Slots]

VARIABLES
    queues,   \* queue |-> its document
    head,     \* the queue written last, which status() projects
    behind,   \* revisions that the external anchor is behind the database
    handler,  \* request |-> the thread that serves it
    poll,     \* process |-> what its reconcile() saw
    up,       \* process |-> is it running
    faults

boardVars == <<queues, head, behind>>
vars == <<runs, turns, queues, head, behind, handler, poll, up, faults>>

Open == {"queued", "running", "paused"}  \* ACTIVE in swarm_goal_queue.py
Goal == [state : {"queued", "running", "paused", "complete"},
         request : Requests \cup {None}, owner : Owners]
Queue == [status : {"none", "complete", "cancelled"} \cup Open, cursor : 1..(N + 1),
          goals : [1..N -> Goal]]
Stages == {"idle", "claimed", "accepted", "working", "saved", "recording", "failing", "noting"}
Handler == [at : Stages, proc : Procs \cup {None}]
Seen == [request : Requests, queue : Queues, goal : 1..N]
Idle == [at |-> "idle", proc |-> None]

TypeOK ==
    /\ JournalTypeOK
    /\ queues \in [Queues -> Queue] /\ head \in Queues \cup {None} /\ behind \in Nat
    /\ handler \in [Requests -> Handler] /\ poll \in [Procs -> Seen \cup {None}]
    /\ up \in [Procs -> BOOLEAN] /\ faults \in 0..MaxFaults

NewGoal == [state |-> "queued", request |-> None, owner |-> None]
NoQueue == [status |-> "none", cursor |-> 1, goals |-> [i \in 1..N |-> NewGoal]]
Init ==
    /\ JournalInit
    /\ queues = [q \in Queues |-> NoQueue]
    /\ head = None /\ behind = 0
    /\ handler = [r \in Requests |-> Idle] /\ poll = [p \in Procs |-> None]
    /\ up = [p \in Procs |-> TRUE] /\ faults = 0

--------------------------------------------------------------------------------
(* The transaction (_tx): on entry an anchor that is one revision behind is   *)
(* moved forward, a greater distance is an integrity failure; a change is     *)
(* committed and then the anchor written, which may fail: the caller sees an  *)
(* error although the change is there.                                        *)
ForwardedNever == behind
Forwarded == IF behind = 1 THEN 0 ELSE behind
Opens == Forwarded = 0
Read == Opens /\ behind' = Forwarded /\ UNCHANGED <<queues, head, faults>>
Commit(q, document) ==
    /\ Opens
    /\ queues' = [queues EXCEPT ![q] = document]
    /\ head' = q
Anchored == behind' = 0 /\ UNCHANGED faults
Unanchored == faults < MaxFaults /\ faults' = faults + 1 /\ behind' = Forwarded + 1

Current(document) == document.goals[document.cursor]
SetCurrent(document, status, goal) ==
    [document EXCEPT !.status = status, !.goals[document.cursor] = goal]

\* A running goal whose process died is paused (_recover_dead).
Recovered(document) ==
    IF document.status = "running" /\ Current(document).owner \notin Procs
    THEN SetCurrent(document, "paused", [Current(document) EXCEPT !.state = "paused", !.owner = None])
    ELSE document

\* record_result: a verified result completes the goal it names, if that is
\* the current one, and moves the cursor.
OfOpen(document, i) == document.cursor <= N
OfCurrent(document, i) == document.cursor <= N /\ i = document.cursor
Completed(document) ==
    LET done == SetCurrent(document, IF document.cursor = N THEN "complete" ELSE "queued",
                           [Current(document) EXCEPT !.state = "complete", !.owner = None])
    IN  [done EXCEPT !.cursor = @ + 1]
\* record_failure, and record_result of a result that is not verified.
Paused(document) ==
    SetCurrent(document, "paused", [Current(document) EXCEPT !.state = "paused", !.owner = None])
Outcome(document, result) == IF result = "verified" THEN Completed(document) ELSE Paused(document)

Record(q, i, result) ==
    IF OfCurrent(queues[q], i) THEN Commit(q, Outcome(queues[q], result)) ELSE Read
\* A record that wrote nothing has no anchor to write either.
RecordAnchored(q, i) == OfCurrent(queues[q], i) => Anchored
RecordUnanchored(q, i) == OfCurrent(queues[q], i) /\ Unanchored

--------------------------------------------------------------------------------
(* The user: start, stop and cancel.                                          *)
OpenQueues == {q \in Queues : queues[q].status \in Open}

\* start(): the goals of the board become a queue when none is open.
StartQueue(q) ==
    /\ queues[q].status = "none" /\ OpenQueues = {}
    /\ Commit(q, [queues[q] EXCEPT !.status = "queued"])
    /\ Anchored \/ Unanchored
    /\ UNCHANGED <<journal, handler, poll, up>>

\* start() while one is open returns that one, the latest of them, recovered.
ReuseQueue(q) ==
    /\ q \in OpenQueues /\ (head \in OpenQueues => q = head)
    /\ IF Recovered(queues[q]) = queues[q] THEN Read
       ELSE Commit(q, Recovered(queues[q])) /\ (Anchored \/ Unanchored)
    /\ UNCHANGED <<journal, handler, poll, up>>

Cancellable(q) == queues[q].status \in Open \ {"running"}
Cancel(q) ==
    /\ Cancellable(q)
    /\ Commit(q, [queues[q] EXCEPT !.status = "cancelled"])
    /\ Anchored \/ Unanchored
    /\ UNCHANGED <<journal, handler, poll, up>>

Stop(r) == RequestStop(r) /\ UNCHANGED <<boardVars, handler, poll, up, faults>>

--------------------------------------------------------------------------------
(* The request handler.                                                       *)
To(r, stage) == handler' = [handler EXCEPT ![r].at = stage]
Ends(r) == handler' = [handler EXCEPT ![r] = Idle]

\* The lease of the whole chat turn.
ChatFree(r) == \A s \in Requests : ChatOf[s] = ChatOf[r] => handler[s].at = "idle"

\* claim(), refused unless the request names the current goal of an open queue
\* and that goal does not run already for another request.
Claimable(document, r) ==
    /\ document.status \in Open
    /\ OfCurrent(document, TargetOf[r].goal)
    /\ Current(document).state = "running" => Current(document).request = r
Claimed(document, r, p) ==
    SetCurrent(document, "running", [state |-> "running", request |-> r, owner |-> p])

Claim(r, p) ==
    LET q == TargetOf[r].queue
        document == Recovered(queues[q])
    IN  /\ up[p] /\ ChatFree(r) /\ Claimable(document, r)
        /\ IF Current(document).state = "running"
           THEN Read /\ handler' = [handler EXCEPT ![r] = [at |-> "claimed", proc |-> p]]
           ELSE /\ Commit(q, Claimed(document, r, p))
                /\ \/ Anchored /\ handler' = [handler EXCEPT ![r] = [at |-> "claimed", proc |-> p]]
                   \/ Unanchored /\ UNCHANGED handler
        /\ UNCHANGED <<journal, poll, up>>

\* accept(): a request that was accepted before is answered from its run; one
\* whose board has changed since is refused.
AcceptNew(r) ==
    /\ handler[r].at = "claimed"
    /\ Accept(r, handler[r].proc) /\ To(r, "accepted")
    /\ UNCHANGED <<boardVars, poll, up, faults>>
AcceptAgain(r) ==
    /\ handler[r].at = "claimed" /\ runs[r].status # "none"
    /\ \/ runs[r].result # None /\ To(r, "recording")
       \/ runs[r].result = None /\ Ends(r)
       \/ To(r, "noting")
    /\ UNCHANGED <<journal, boardVars, poll, up, faults>>

Start(r) ==
    /\ handler[r].at = "accepted"
    /\ \/ StartRun(r, handler[r].proc) /\ To(r, "working")
       \/ runs[r].status # "accepted" /\ To(r, "failing") /\ UNCHANGED journal
    /\ UNCHANGED <<boardVars, poll, up, faults>>

BeginTurn(r, s) ==
    /\ handler[r].at = "working" /\ BeginEffect(r, s)
    /\ UNCHANGED <<boardVars, handler, poll, up, faults>>
EndTurn(r, s, status) ==
    /\ handler[r].at = "working" /\ FinishEffect(r, s, status)
    /\ UNCHANGED <<boardVars, handler, poll, up, faults>>
ChangeFiles(r) ==
    /\ handler[r].at = "working" /\ PostProviderMutation(r)
    /\ UNCHANGED <<boardVars, handler, poll, up, faults>>

\* The workers are back; their answer is checkpointed and the run finished.
Back(r) == With(r, "dispatched") = {}
SaveReply(r) ==
    /\ handler[r].at = "working" /\ Back(r)
    /\ Checkpoint(r) /\ To(r, "saved")
    /\ UNCHANGED <<boardVars, poll, up, faults>>
FinishRun(r, result) ==
    /\ handler[r].at = "saved"
    /\ Finish(r, result) /\ To(r, "recording")
    /\ UNCHANGED <<boardVars, poll, up, faults>>
\* An exception: of the work, of a Stop, of a checkpoint or finish that is refused.
GiveUp(r) ==
    /\ \/ handler[r].at = "working" /\ Back(r)
       \/ handler[r].at = "saved" /\ ~CanFinish(r)
    /\ To(r, "failing")
    /\ UNCHANGED <<journal, boardVars, poll, up, faults>>
FailRun(r, known) ==
    /\ handler[r].at = "failing"
    /\ Fail(r, known) /\ To(r, "noting")
    /\ UNCHANGED <<boardVars, poll, up, faults>>

RecordResult(r) ==
    LET t == TargetOf[r]
    IN  /\ handler[r].at = "recording"
        /\ Record(t.queue, t.goal, runs[r].result)
        /\ \/ RecordAnchored(t.queue, t.goal) /\ Ends(r)
           \/ RecordUnanchored(t.queue, t.goal) /\ To(r, "failing")
        /\ UNCHANGED <<journal, poll, up>>
RecordFailure(r) ==
    LET t == TargetOf[r]
    IN  /\ handler[r].at = "noting"
        /\ Record(t.queue, t.goal, "unverified")
        /\ RecordAnchored(t.queue, t.goal) \/ RecordUnanchored(t.queue, t.goal)
        /\ Ends(r)
        /\ UNCHANGED <<journal, poll, up>>

--------------------------------------------------------------------------------
(* reconcile(): status() in one transaction, the run's outcome in another.    *)
Sees(document, q) ==
    IF document.status \in Open /\ Current(document).request # None
    THEN [request |-> Current(document).request, queue |-> q, goal |-> document.cursor]
    ELSE None
PollStatus(p) ==
    /\ up[p] /\ poll[p] = None /\ head # None
    /\ LET document == Recovered(queues[head])
       IN  \/ /\ IF document = queues[head] THEN Read ELSE Commit(head, document) /\ Anchored
              /\ poll' = [poll EXCEPT ![p] = Sees(document, head)]
           \/ document # queues[head] /\ Commit(head, document) /\ Unanchored /\ UNCHANGED poll
    /\ UNCHANGED <<journal, handler, up>>

KnownFailures == {"failed", "stopped"}
Unsuccessful == {"failed", "stopped", "interrupted", "delivery_unknown", "outcome_unknown"}

\* What a run reports to the queue, if it is over.
Reported(run) ==
    IF run.result # None THEN run.result
    ELSE IF run.status \in Unsuccessful THEN "unverified" ELSE None

\* Terminal runs do not change, so that the lookup goes with what it leads to.
PollRecord(p) ==
    /\ poll[p] # None
    /\ LET t == poll[p]
           result == Reported(runs[t.request])
       IN  IF result = None THEN UNCHANGED <<boardVars, faults>>
           ELSE /\ Record(t.queue, t.goal, result)
                /\ RecordAnchored(t.queue, t.goal) \/ RecordUnanchored(t.queue, t.goal)
    /\ poll' = [poll EXCEPT ![p] = None]
    /\ UNCHANGED <<journal, handler, up>>

--------------------------------------------------------------------------------
(* A process dies with its handlers and polls; it is started again and opens  *)
(* the run journal.                                                           *)
Crash(p) ==
    /\ up[p] /\ faults < MaxFaults
    /\ faults' = faults + 1 /\ up' = [up EXCEPT ![p] = FALSE]
    /\ runs' = Orphaned(p)
    /\ queues' = [q \in Queues |-> [queues[q] EXCEPT !.goals =
                    [i \in 1..N |-> [queues[q].goals[i] EXCEPT !.owner = IF @ = p THEN Gone ELSE @]]]]
    /\ handler' = [r \in Requests |-> IF handler[r].proc = p THEN Idle ELSE handler[r]]
    /\ poll' = [poll EXCEPT ![p] = None]
    /\ UNCHANGED <<turns, head, behind>>

Restart(p) ==
    /\ ~up[p]
    /\ up' = [up EXCEPT ![p] = TRUE]
    /\ RecoverInterrupted
    /\ UNCHANGED <<boardVars, handler, poll, faults>>

Serve(r) ==
    \/ AcceptNew(r) \/ AcceptAgain(r) \/ Start(r)
    \/ \E s \in Slots, status \in {"acknowledged", "delivery_unknown"} : EndTurn(r, s, status)
    \/ SaveReply(r) \/ \E result \in Results : FinishRun(r, result)
    \/ GiveUp(r) \/ \E known \in BOOLEAN : FailRun(r, known)
    \/ RecordResult(r) \/ RecordFailure(r)

Next ==
    \/ \E q \in Queues : StartQueue(q) \/ ReuseQueue(q) \/ Cancel(q)
    \/ \E r \in Requests : Stop(r) \/ Serve(r) \/ ChangeFiles(r)
    \/ \E r \in Requests, p \in Procs : Claim(r, p)
    \/ \E r \in Requests : \E s \in TurnsOf[r] : BeginTurn(r, s)
    \/ \E p \in Procs : PollStatus(p) \/ PollRecord(p) \/ Crash(p) \/ Restart(p)

Spec == Init /\ [][Next]_vars

--------------------------------------------------------------------------------
(* Properties.                                                                *)

\* The queue never skips, repeats or invents a goal: what lies behind the
\* cursor is complete, nothing else is, and each completed goal was verified by
\* a run that was made for exactly that goal.
VerifiedBy(q, i) == \E r \in Requests :
    TargetOf[r] = [queue |-> q, goal |-> i] /\ runs[r].result = "verified"
CompletedInOrder == \A q \in Queues, i \in 1..N :
    /\ queues[q].goals[i].state = "complete" <=> i < queues[q].cursor
    /\ queues[q].goals[i].state = "complete" => VerifiedBy(q, i)

\* Wherever a process died or an anchor write failed, the next transaction finds
\* the anchor where it can repair it, and the queue opens.
AlwaysOpens == Opens

\* Once a Stop was accepted the run sends nothing more to a provider, changes
\* no file and does not end in success.
StopIsFinal == [][\A r \in Requests : runs[r].stop =>
    /\ runs'[r].changed = runs[r].changed /\ runs'[r].status # "complete"
    /\ \A s \in Slots : turns[r][s].status = "unsent" => turns'[r][s].status = "unsent"]_vars

\* Providers answer or time out, threads are scheduled, a running queue is
\* polled, and Nexus is opened again.
Fairness ==
    /\ \A r \in Requests : WF_vars(Serve(r))
    /\ \A p \in Procs : WF_vars(PollStatus(p)) /\ WF_vars(PollRecord(p)) /\ WF_vars(Restart(p))
FairSpec == Spec /\ Fairness

\* A queue whose current goal was given a run does not say "running" for ever:
\* the goal completes or can be resumed, whoever died in between.
Running(q) == queues[q].status = "running" /\ runs[Current(queues[q]).request].status # "none"
GoalComesBack == \A q \in Queues : Running(q) ~> ~Running(q)
================================================================================
