------------------------------ MODULE GoalEngine ------------------------------
(***************************************************************************)
(* One long-horizon goal: its task ledger, the scheduler thread that runs  *)
(* it, one executor thread per claimed task, the project files, the user's *)
(* controls, and a crash of the whole process with the recovery that       *)
(* follows (GoalStore and LongHorizonRuntime in                            *)
(* src/our_harness/long_horizon.py; files: changes.py).                    *)
(*                                                                         *)
(* Every GoalStore method is one database transaction, so one action.      *)
(* Executors run concurrently; the apply loop holds the runtime lock that  *)
(* controls also take, so a control never falls inside it, but a crash     *)
(* can.  The goal owns its project here: ProjectQueue is about ownership.  *)
(* Reviews, delegation, hand-offs and protocol corrections are left out.   *)
(*                                                                         *)
(* The goal is not in facilitator mode (execution_mode, facilitator.py): a *)
(* facilitator goal saves each proposal in the selected project under the  *)
(* write lease, defers or rejects one that meets a busy project or a       *)
(* conflict, reopens no peer after a change, and completes when its tasks  *)
(* are finished, whatever its checks say and without agreement.            *)
(***************************************************************************)
EXTENDS Naturals, FiniteSets

CONSTANTS
    Tasks,           \* task identities; their number is policy.max_tasks
    Founders,        \* the tasks the goal is created with
    RequireAll,      \* require_all_participants: one named task per agent
    MaxParallel,     \* policy.max_parallel
    Budget,          \* budget.max_provider_calls; a call's number is its effect id
    Actions,         \* kinds of structured action an agent may return
    Controls,        \* user controls that may be used
    MaxEpoch,        \* bound on objective epochs (one per Steer)
    MaxCrashes,      \* bound on crashes
    CrashInRollback, \* whether a crash may catch a running task's rollback unfinished
    None

ASSUME EngineAssumption ==
    /\ IsFiniteSet(Tasks) /\ Founders \subseteq Tasks /\ None \notin Tasks
    /\ RequireAll \in BOOLEAN /\ CrashInRollback \in BOOLEAN
    /\ MaxParallel \in Nat \ {0} /\ Budget \in Nat /\ MaxEpoch \in Nat \ {0}
    /\ MaxCrashes \in Nat
    /\ Budget >= Cardinality(Founders)
    /\ Actions \subseteq {"edit", "deliver", "complete", "ask", "context"}
    /\ Controls \subseteq {"pause", "resume", "cancel", "retry", "steer"}

VARIABLES
    goal,       \* status, objective epoch, provider calls used, scheduler lease
    tasks,      \* task |-> its ledger entry
    files,      \* task |-> manifest and project content of its file transaction
    artifacts,  \* effect id |-> how many file artifacts the goal records for it
    runner,     \* the scheduler thread and the <<task, action>> pairs it applies
    turn,       \* task |-> its executor thread, at last the action it returns
    up,         \* the process is running
    crashes

vars == <<goal, tasks, files, artifacts, runner, turn, up, crashes>>

Statuses == {"queued", "running", "paused", "waiting_for_user", "cancelling",
             "cancelled", "complete"}
Stopped == {"paused", "waiting_for_user", "cancelling"}
Terminal == {"complete", "cancelled"}
TaskStates == {"absent", "ready", "running", "pending_apply", "waiting",
               "blocked", "complete", "cancelled"}
Finished == {"absent", "complete", "cancelled"}

\* provider_effect_state; every value that needs nothing more is "settled".
EffectStates == {"settled", "dispatched", "reply_received", "acknowledged",
                 "context", "outcome_unknown", "reconciliation_required",
                 "known_reply_failed"}
Kinds == {"edit", "deliver", "complete", "ask"}
Pending == Kinds \cup {"none"}

\* "edit" and "deliver" carry file changes; "deliver" and "complete" end the task.
Changes(kind) == kind \in {"edit", "deliver"}
Completes(kind) == kind \in {"deliver", "complete"}

Task == [state : TaskStates, leased : BOOLEAN, claimEpoch : 0..MaxEpoch,
         effect : EffectStates, effectId : 0..Budget, unknown : BOOLEAN,
         reconcile : BOOLEAN, action : Pending,
         txn : {"none", "prepared", "applied"}, txnEffect : 0..Budget,
         agreed : BOOLEAN]

NewTask(state) ==
    [state |-> state, leased |-> FALSE, claimEpoch |-> 0, effect |-> "settled",
     effectId |-> 0, unknown |-> FALSE, reconcile |-> FALSE, action |-> "none",
     txn |-> "none", txnEffect |-> 0, agreed |-> FALSE]

\* Project content of a task's last file transaction: none of it, some of it
\* or all of it is in the files, or one file is torn (it is written in place).
\* "closed" is an aborted or rolled-back manifest.
File == [manifest : {"none", "prepared", "applied", "rolling_back", "closed"},
         content : {"before", "partial", "torn", "after"}]
Untouched == [manifest |-> "none", content |-> "before"]
RolledBack == [manifest |-> "closed", content |-> "before"]

\* Mutant of RollbackWorks: an interrupted transaction is put back from anywhere.
RollbackFromAnywhere(file) ==
    file.manifest \in {"closed", "prepared", "rolling_back", "applied"} /\ file.content # "torn"

\* FileTransaction.rollback: an interrupted "prepared" transaction is put back
\* only from one of its boundaries, any other unless a file matches neither.
RollbackWorks(file) ==
    \/ file.manifest = "closed"
    \/ file.manifest = "prepared" /\ file.content \in {"before", "after"}
    \/ file.manifest \in {"rolling_back", "applied"} /\ file.content # "torn"

Idle == [pc |-> "none", todo |-> {}, item |-> None, touched |-> FALSE]
At(pc) == [Idle EXCEPT !.pc = pc]

UnsettledEffect(r) ==
    \/ r.action # "none" \/ r.txn # "none" \/ r.unknown \/ r.reconcile
    \/ r.effect \in {"dispatched", "reply_received", "acknowledged", "context",
                     "outcome_unknown", "reconciliation_required"}

Required(t) == RequireAll /\ t \in Founders
NeverDispatched == {t \in Tasks : Required(t) /\ tasks[t].effectId = 0}
InState(S) == {t \in Tasks : tasks[t].state \in S}
WithoutLease(r) == [r EXCEPT !.leased = FALSE]
\* Mutant of Emptied: the applied transaction stays on the task.
ActionEmptied(r) == [r EXCEPT !.action = "none"]
Emptied(r) == [r EXCEPT !.action = "none", !.txn = "none", !.txnEffect = 0]

\* The status with the goal's scheduler left as it is.
Unless(S, status) == IF goal.status \in S THEN goal.status ELSE status

-----------------------------------------------------------------------------
\* The schedule node: what the scheduler thread does next.

Scheduling == up /\ runner.pc = "schedule"
Runnable == goal.status \notin Stopped \cup Terminal
Deferred == {t \in InState({"pending_apply"}) : tasks[t].action # "none"}
\* Mutant of AllFinished: a parked task counts as finished.
NothingToRun == InState({"ready", "running", "pending_apply", "waiting"}) = {}
AllFinished == InState(Finished) = Tasks

ScheduleEnd ==
    /\ Scheduling /\ ~Runnable
    /\ runner' = At("stopping")
    /\ UNCHANGED <<goal, tasks, files, artifacts, turn, up, crashes>>

ScheduleApply ==
    /\ Scheduling /\ Runnable /\ Deferred # {}
    /\ runner' = [At("apply") EXCEPT !.todo = {<<t, tasks[t].action>> : t \in Deferred}]
    /\ UNCHANGED <<goal, tasks, files, artifacts, turn, up, crashes>>

ScheduleVerify ==
    /\ Scheduling /\ Runnable /\ Deferred = {} /\ AllFinished
    /\ runner' = At("verify")
    /\ UNCHANGED <<goal, tasks, files, artifacts, turn, up, crashes>>

\* A required team takes one turn at a time, an undispatched member first; an
\* answered question may go before it while its call stays reserved.
InTurn(S) ==
    /\ Cardinality(S) = 1
    /\ \/ S \subseteq NeverDispatched
       \/ InState({"ready"}) \cap NeverDispatched = {}
       \/ Budget - goal.calls > Cardinality(NeverDispatched)

ClaimReady(S) ==
    /\ Scheduling /\ Runnable /\ Deferred = {} /\ ~AllFinished
    /\ goal.calls < Budget
    /\ S # {} /\ S \subseteq InState({"ready"})
    /\ Cardinality(S) <= MaxParallel /\ Cardinality(S) <= Budget - goal.calls
    /\ RequireAll => InTurn(S)
    /\ tasks' = [t \in Tasks |->
          IF t \in S
          THEN [tasks[t] EXCEPT !.state = "running", !.leased = TRUE,
                                !.unknown = FALSE, !.claimEpoch = goal.epoch]
          ELSE tasks[t]]
    /\ turn' = [t \in Tasks |-> IF t \in S THEN "boot" ELSE turn[t]]
    /\ goal' = [goal EXCEPT !.status = "running"]
    /\ runner' = At("act")
    /\ UNCHANGED <<files, artifacts, up, crashes>>

\* No call left, or (pause_deadlock) nothing that could run again.
NothingToClaim ==
    /\ Scheduling /\ Runnable /\ Deferred = {} /\ ~AllFinished
    /\ goal.calls >= Budget \/ InState({"ready"}) = {}
    /\ goal' = [goal EXCEPT !.status =
          IF goal.calls >= Budget \/ InState({"running", "pending_apply"}) = {}
          THEN "paused" ELSE @]
    /\ runner' = At("stopping")
    /\ UNCHANGED <<tasks, files, artifacts, turn, up, crashes>>

-----------------------------------------------------------------------------
\* A turn of an agent: the executor thread of task t.

Turn(t, pcs) == up /\ runner.pc = "act" /\ turn[t] \in pcs

HoldsLease(t) == tasks[t].leased /\ tasks[t].state = "running"
Superseded(t) == tasks[t].claimEpoch # goal.epoch \/ ~tasks[t].leased

\* _continue_required_team_after_terminal, on the ledger d.
TeamContinues(d, t) ==
    /\ Required(t) /\ ~d[t].unknown /\ d[t].action = "none" /\ d[t].txn = "none"
    /\ goal.status \in {"queued", "running"}
    /\ \E u \in Tasks : Required(u) /\ d[u].state \in
          {"ready", "waiting", "running", "pending_apply"}

TeamStatus(d) ==
    IF \E u \in Tasks : Required(u) /\ d[u].state = "running"
    THEN "running" ELSE "queued"

\* fail_task.  A task that no longer holds its lease is left alone; a failure
\* whose outcome is known may be handed to another agent, or let a required
\* team continue; otherwise the goal pauses.
FailTask(t, uncertain, failover, settle) ==
    LET received == tasks[t].effect \in {"reply_received", "reconciliation_required"}
        failed == [WithoutLease(tasks[t]) EXCEPT
            !.state = "blocked", !.unknown = uncertain,
            !.reconcile = @ \/ received,
            !.effect = IF uncertain THEN "outcome_unknown"
                       ELSE IF received THEN "known_reply_failed" ELSE "settled"]
        d == [tasks EXCEPT ![t] = failed]
        reassigned == /\ failover /\ ~uncertain /\ ~Required(t)
                      /\ goal.status # "cancelling"
    IN  IF ~tasks[t].leased THEN UNCHANGED <<goal, tasks>>
        ELSE IF reassigned
        THEN /\ tasks' = [tasks EXCEPT ![t] = [failed EXCEPT !.state = "ready",
                                                             !.effect = "settled"]]
             /\ goal' = [goal EXCEPT !.status = Unless(Stopped, "queued")]
        ELSE /\ tasks' = d
             /\ goal' = [goal EXCEPT !.status =
                    IF settle /\ ~uncertain /\ TeamContinues(d, t) THEN TeamStatus(d)
                    ELSE Unless(Stopped, "paused")]

EndsTurn(t, outcome) ==
    /\ turn' = [turn EXCEPT ![t] = outcome]
    /\ UNCHANGED <<files, artifacts, runner, up, crashes>>

\* continuation_route, before a prompt is built.
DeferContinuation(t) ==
    /\ tasks' = [tasks EXCEPT ![t] =
          IF @.leased THEN [WithoutLease(@) EXCEPT !.state = "ready"] ELSE @]
    /\ UNCHANGED goal

ContinuationRoute(t) ==
    /\ Turn(t, {"boot"})
    /\ \/ Superseded(t) /\ UNCHANGED <<goal, tasks>>
       \/ ~Superseded(t) /\ goal.status \in Stopped /\ DeferContinuation(t)
    /\ EndsTurn(t, "done")

\* record_dispatch: a call is sent from a fresh prompt, or to repair a reply
\* that was received.  The last calls are kept for required members who have
\* not had theirs.
\* Mutant of Admitted: the call budget is not checked again.
AdmittedOnLease(t) ==
    HoldsLease(t) /\ goal.status \notin Stopped \cup {"cancelled"}
        /\ tasks[t].claimEpoch = goal.epoch
Admitted(t) ==
    /\ HoldsLease(t) /\ goal.status \notin Stopped \cup {"cancelled"}
    /\ tasks[t].claimEpoch = goal.epoch
    /\ goal.calls < Budget

\* Mutant of Reserved: no call is kept for members without one.
NotReserved(t) == RequireAll /\ Budget = goal.calls
Reserved(t) ==
    RequireAll /\ Budget - goal.calls - 1 < Cardinality(NeverDispatched \ {t})

RecordDispatch(t) ==
    /\ Turn(t, {"boot", "replied"})
    /\ Admitted(t) /\ ~Reserved(t)
    /\ goal' = [goal EXCEPT !.calls = @ + 1]
    /\ tasks' = [tasks EXCEPT ![t].effect = "dispatched",
                              ![t].effectId = goal.calls + 1]
    /\ EndsTurn(t, "sent")

\* block_received_reply
BlockReceivedReply(t) ==
    LET d == [tasks EXCEPT ![t] = [WithoutLease(@) EXCEPT
                 !.state = "blocked", !.unknown = FALSE, !.reconcile = TRUE,
                 !.effect = "reconciliation_required"]]
    IN  /\ tasks' = d
        /\ goal' = [goal EXCEPT !.status =
               IF TeamContinues(d, t) THEN TeamStatus(d)
               ELSE Unless(Stopped \cup {"cancelled"}, "paused")]

DispatchRefused(t) ==
    /\ Turn(t, {"boot", "replied"})
    /\ ~(Admitted(t) /\ ~Reserved(t))
    /\ \/ ~tasks[t].leased /\ UNCHANGED <<goal, tasks>>
       \/ /\ tasks[t].leased /\ tasks[t].effect = "reply_received"
          /\ BlockReceivedReply(t)
       \/ /\ tasks[t].leased /\ tasks[t].effect # "reply_received"
          /\ IF \/ Admitted(t) /\ tasks[t].effect = "context"
                \/ goal.status \in {"paused", "waiting_for_user"}
             THEN DeferContinuation(t)
             ELSE FailTask(t, FALSE, FALSE, FALSE)
    /\ EndsTurn(t, "done")

\* The provider's answer; a reply to a superseded turn is refused.
RecordProviderReply(t) ==
    /\ Turn(t, {"sent"}) /\ HoldsLease(t)
    /\ tasks' = [tasks EXCEPT ![t].effect = "reply_received"]
    /\ UNCHANGED goal
    /\ EndsTurn(t, "replied")

\* The call failed, its outcome is unknown, or its reply could not be used.
TurnFails(t, uncertain, failover) ==
    /\ Turn(t, {"sent", "replied"})
    /\ uncertain => turn[t] = "sent"
    /\ FailTask(t, uncertain, failover, TRUE)
    /\ EndsTurn(t, "done")

\* acknowledge_context_step: the agent asked for context and goes on.
AcknowledgeContextStep(t) ==
    /\ "context" \in Actions
    /\ Turn(t, {"replied"})
    /\ HoldsLease(t) /\ goal.status # "cancelling"
    /\ tasks[t].claimEpoch = goal.epoch
    /\ tasks' = [tasks EXCEPT ![t].effect = "context"]
    /\ UNCHANGED goal
    /\ EndsTurn(t, "boot")

\* record_action.  The stale branch comes before every other check.
RecordAction(t, kind) ==
    /\ Turn(t, {"replied"})
    /\ \/ /\ tasks[t].claimEpoch # goal.epoch
          /\ tasks' = [tasks EXCEPT ![t] = [Emptied(WithoutLease(@)) EXCEPT
                          !.state = "ready", !.unknown = FALSE, !.effect = "settled"]]
          /\ goal' = [goal EXCEPT !.status = Unless({"cancelling"}, "queued")]
          /\ EndsTurn(t, "done")
       \/ /\ tasks[t].claimEpoch = goal.epoch /\ HoldsLease(t)
          /\ tasks' = [tasks EXCEPT ![t].action = kind, ![t].reconcile = FALSE,
                                    ![t].effect = "acknowledged"]
          /\ UNCHANGED goal
          /\ EndsTurn(t, kind)

\* _act_node waits for every executor, then applies what they returned.
JoinTurns ==
    /\ up /\ runner.pc = "act"
    /\ \A t \in Tasks : turn[t] \in Kinds \cup {"idle", "done"}
    /\ runner' = [At("apply") EXCEPT !.todo = {<<t, turn[t]>> : t \in
                                                {u \in Tasks : turn[u] \in Kinds}}]
    /\ turn' = [t \in Tasks |-> "idle"]
    /\ UNCHANGED <<goal, tasks, files, artifacts, up, crashes>>

-----------------------------------------------------------------------------
\* The apply loop (_apply_node_locked), one action per transaction it commits.

Applying == up /\ runner.pc = "apply"
Choosing == Applying /\ runner.item = None
Has(t) == \E kind \in Kinds : <<t, kind>> \in runner.todo
Doing(t) == CHOOSE kind \in Kinds : <<t, kind>> \in runner.todo
Taken(t) == [runner EXCEPT !.todo = {p \in @ : p[1] # t}]

\* Mutant of Current: a reply is taken on the word of the batch.
CurrentWhenBatched(t) == tasks[t].state # "absent"

\* Checked for each action, and again by prepare_transaction and apply_action.
Current(t) ==
    tasks[t].state \in {"running", "pending_apply"} /\ tasks[t].claimEpoch = goal.epoch

ApplySkips(t) ==
    /\ Choosing /\ Has(t) /\ ~Current(t)
    /\ runner' = Taken(t)
    /\ UNCHANGED <<goal, tasks, files, artifacts, turn, up, crashes>>

\* An earlier action of this batch asked the user, or the goal was stopped
\* before the batch began: the reply stays as pending work.
DeferPendingAction(t) ==
    /\ Choosing /\ Has(t) /\ Current(t) /\ goal.status \in Stopped
    /\ tasks' = [tasks EXCEPT ![t].state = "pending_apply"]
    /\ runner' = Taken(t)
    /\ UNCHANGED <<goal, files, artifacts, turn, up, crashes>>

\* Mutant of Applicable: the goal's status is not looked at again.
ApplicableWhateverStatus(t) == Choosing /\ Has(t) /\ Current(t)
Applicable(t) == Choosing /\ Has(t) /\ Current(t) /\ goal.status \notin Stopped
NeedsFiles(t) == Changes(Doing(t)) /\ tasks[t].txn # "applied"

\* The project no longer is what the agent saw, or an old transaction cannot
\* be taken up again: the apply loop raises.  (In facilitator mode a busy project
\* defers the proposal and a conflict rejects it; that mode is not modelled.)
ApplyRaises(t) ==
    /\ Applicable(t) /\ NeedsFiles(t)
    /\ runner' = At("failing")
    /\ UNCHANGED <<goal, tasks, files, artifacts, turn, up, crashes>>

PrepareTransaction(t) ==
    /\ Applicable(t) /\ NeedsFiles(t)
    /\ files[t].content = "before"
    /\ tasks[t].txn = "prepared" => files[t].manifest \in {"none", "prepared"}
    /\ tasks' = [tasks EXCEPT ![t].txn = "prepared", ![t].txnEffect = tasks[t].effectId]
    /\ files' = IF tasks[t].txn = "none" THEN [files EXCEPT ![t] = Untouched] ELSE files
    /\ runner' = [runner EXCEPT !.item = t]
    /\ UNCHANGED <<goal, artifacts, turn, up, crashes>>

\* FileTransaction.apply for the task in hand.
InHand(t) == Applying /\ runner.item = t
FileStep(t, file) ==
    /\ files' = [files EXCEPT ![t] = file]
    /\ UNCHANGED <<goal, tasks, artifacts, runner, turn, up, crashes>>
Manifest(t, state) == [files[t] EXCEPT !.manifest = state]
Content(t, part) == [files[t] EXCEPT !.content = part]

WriteManifest(t) ==
    InHand(t) /\ files[t].manifest = "none" /\ FileStep(t, Manifest(t, "prepared"))

Replace(t) ==
    /\ InHand(t) /\ files[t].manifest = "prepared"
    /\ \/ files[t].content \in {"before", "partial"} /\ FileStep(t, Content(t, "torn"))
       \/ /\ files[t].content = "torn"
          /\ \E part \in {"partial", "after"} : FileStep(t, Content(t, part))

Commit(t) ==
    /\ InHand(t) /\ files[t].manifest = "prepared" /\ files[t].content = "after"
    /\ FileStep(t, Manifest(t, "applied"))

\* A replacement fails: nothing was replaced and the manifest is aborted, or
\* the replaced files are put back, unless one of them is torn.
ApplyAborts(t) ==
    /\ InHand(t) /\ files[t].content = "before" /\ files[t].manifest \in {"none", "prepared"}
    /\ files' = [files EXCEPT ![t] =
          IF @.manifest = "prepared" THEN Manifest(t, "closed") ELSE @]
    /\ runner' = At("failing")
    /\ UNCHANGED <<goal, tasks, artifacts, turn, up, crashes>>

ApplyFails(t) ==
    /\ InHand(t) /\ files[t].content # "before" /\ files[t].manifest = "prepared"
    /\ FileStep(t, Manifest(t, "rolling_back"))

AutomaticRollback(t) ==
    /\ InHand(t) /\ files[t].manifest = "rolling_back"
    /\ files' = IF RollbackWorks(files[t]) THEN [files EXCEPT ![t] = RolledBack] ELSE files
    /\ runner' = At("failing")
    /\ UNCHANGED <<goal, tasks, artifacts, turn, up, crashes>>

RecordTransactionApplied(t) ==
    /\ InHand(t) /\ files[t].manifest = "applied" /\ tasks[t].txn = "prepared"
    /\ tasks' = [tasks EXCEPT ![t].txn = "applied"]
    /\ UNCHANGED <<goal, files, artifacts, runner, turn, up, crashes>>

\* apply_action: the reply takes effect in the ledger in one transaction.  Outside
\* facilitator mode a changed result needs the agreement of every required member
\* again.
\* Mutant of Reopened: peers' agreement outlives the change.
StillAgreed(d, t) == [u \in Tasks |-> IF u = t THEN [d[u] EXCEPT !.agreed = FALSE] ELSE d[u]]

Reopened(d, t) ==
    [u \in Tasks |->
        IF ~Required(u) THEN d[u]
        ELSE [d[u] EXCEPT !.agreed = FALSE,
                          !.state = IF u # t /\ @ = "complete" THEN "ready" ELSE @]]

Taking(t) ==
    LET kind == Doing(t)
        next == [Emptied(WithoutLease(tasks[t])) EXCEPT
                    !.state = IF kind = "ask" THEN "waiting"
                              ELSE IF Completes(kind) THEN "complete" ELSE "ready",
                    !.effect = "settled"]
        d == [tasks EXCEPT ![t] = next]
        shared == IF Changes(kind) THEN Reopened(d, t) ELSE d
    IN  [shared EXCEPT ![t].agreed = (Completes(kind) /\ Required(t)) \/ @]

ApplyAction(t) ==
    /\ \/ Applicable(t) /\ ~NeedsFiles(t)
       \/ InHand(t) /\ tasks[t].txn = "applied"
    /\ tasks' = Taking(t)
    /\ artifacts' = IF tasks[t].txn = "applied"
                    THEN [artifacts EXCEPT ![tasks[t].txnEffect] = @ + 1] ELSE artifacts
    /\ files' = [files EXCEPT ![t] = Untouched]
    /\ goal' = [goal EXCEPT !.status =
          IF Doing(t) = "ask" THEN "waiting_for_user" ELSE Unless(Stopped, "queued")]
    /\ runner' = [Taken(t) EXCEPT !.item = None]
    /\ UNCHANGED <<turn, up, crashes>>

ApplyDone ==
    /\ Choosing /\ runner.todo = {}
    /\ runner' = At(IF Runnable THEN "schedule" ELSE "stopping")
    /\ UNCHANGED <<goal, tasks, files, artifacts, turn, up, crashes>>

-----------------------------------------------------------------------------
\* Verification, outside the lock, and its result (complete_verification).

Verifying == up /\ runner.pc = "verify"
EndVerify(status, pc) ==
    /\ goal' = [goal EXCEPT !.status = status]
    /\ runner' = At(pc)
    /\ UNCHANGED <<files, artifacts, turn, up, crashes>>

VerificationStopped ==
    /\ Verifying /\ goal.status \in Stopped \cup Terminal
    /\ UNCHANGED tasks /\ EndVerify(goal.status, "stopping")

\* The goal was changed while its checks ran: their result is not used.
VerificationSuperseded ==
    /\ Verifying /\ Runnable /\ runner.touched
    /\ UNCHANGED tasks
    /\ EndVerify(IF InState({"running"}) # {} THEN "running" ELSE "queued", "schedule")

\* Unsettled work would make complete_verification raise; it never gets there
\* (AgreedOnTheResult).  Outside facilitator mode passing checks complete the goal
\* only with its tasks finished and its members agreed.
Checked ==
    Verifying /\ Runnable /\ ~runner.touched /\ \A t \in Tasks : ~UnsettledEffect(tasks[t])
Accepted ==
    /\ AllFinished
    /\ \A t \in Tasks : Required(t) /\ tasks[t].state # "cancelled" => tasks[t].agreed

VerificationPasses ==
    Checked /\ Accepted /\ UNCHANGED tasks /\ EndVerify("complete", "stopping")

\* The checks could not run, failed too often, or max_tasks is reached.
VerificationPauses ==
    Checked /\ UNCHANGED tasks /\ EndVerify("paused", "stopping")

VerificationFails(spare) ==
    /\ Checked /\ tasks[spare].state = "absent"
    /\ tasks' = [tasks EXCEPT ![spare] = NewTask("ready")]
    /\ EndVerify("queued", "schedule")

-----------------------------------------------------------------------------
\* Cancellation settles every task (settle_for_cancellation).

\* A transaction is settled by keeping what its manifest says was applied and
\* by putting back everything else; a half-replaced set of files under a
\* "prepared" manifest is in doubt and stays.
CanSettle(t) ==
    \/ tasks[t].txn = "none"
    \/ files[t].manifest = "applied"
    \/ /\ tasks[t].txn = "prepared"
       /\ RollbackWorks(files[t]) \/ files[t] = Untouched

Landed(t) == tasks[t].txn # "none" /\ files[t].manifest = "applied"
Publishing(S) ==
    [e \in DOMAIN artifacts |->
        artifacts[e] + Cardinality({t \in S : Landed(t) /\ tasks[t].txnEffect = e})]

SettledTask(t) ==
    [Emptied(tasks[t]) EXCEPT !.unknown = FALSE, !.reconcile = FALSE, !.effect = "settled"]

\* Mutant of SettleTasks: what landed is not recorded.
SettleSilently(S) ==
    /\ files' = [t \in Tasks |->
          IF t \in S /\ tasks[t].txn # "none" THEN Untouched ELSE files[t]]
    /\ UNCHANGED artifacts

SettleTasks(S) ==
    /\ files' = [t \in Tasks |->
          IF t \in S /\ tasks[t].txn # "none" THEN Untouched ELSE files[t]]
    /\ artifacts' = Publishing(S)

SettlesForCancellation ==
    /\ \A t \in Tasks : CanSettle(t)
    /\ SettleTasks(Tasks)
    /\ tasks' = [t \in Tasks |-> [SettledTask(t) EXCEPT
          !.state = IF @ \in Finished THEN @ ELSE "cancelled"]]
    /\ goal' = [goal EXCEPT !.status = "cancelled", !.worker = "none"]

\* One task cannot be settled: those before it in the ledger were.
CancellationBlocked(worker) ==
    \E S \in SUBSET {t \in Tasks : CanSettle(t)} :
        /\ \E t \in Tasks : ~CanSettle(t)
        /\ SettleTasks(S)
        /\ tasks' = [t \in Tasks |->
              IF t \in S THEN SettledTask(t)
              ELSE IF tasks[t].txn # "none" /\ tasks[t].state \in {"running", "pending_apply"}
              THEN [WithoutLease(tasks[t]) EXCEPT !.state = "blocked"]
              ELSE tasks[t]]
        /\ goal' = [goal EXCEPT !.status = "paused", !.worker = worker]

FinishCancellation(worker) == SettlesForCancellation \/ CancellationBlocked(worker)

-----------------------------------------------------------------------------
\* The scheduler thread ends: run's finally clause, the handler of an
\* exception, and the removal from the workers table.

\* Mutant of StopRun: a draining cancellation is left to somebody else.
StopRunOnly ==
    /\ up /\ runner.pc \in {"stopping", "failing"}
    /\ goal' = [goal EXCEPT !.worker = "none"]
    /\ runner' = At(IF runner.pc = "failing" THEN "handling" ELSE "leaving")
    /\ UNCHANGED <<tasks, files, artifacts, turn, up, crashes>>

StopRun ==
    /\ up /\ runner.pc \in {"stopping", "failing"}
    /\ IF goal.status = "cancelling" THEN FinishCancellation("none")
       ELSE goal' = [goal EXCEPT !.worker = "none"] /\ UNCHANGED <<tasks, files, artifacts>>
    /\ runner' = At(IF \/ runner.pc = "failing"
                       \/ goal.status = "cancelling" /\ goal'.status = "paused"
                    THEN "handling" ELSE "leaving")
    /\ UNCHANGED <<turn, up, crashes>>

\* fail_pending_apply and pause_runtime_failure, unless the goal was stopped.
HandleFailure ==
    /\ up /\ runner.pc = "handling"
    /\ IF Runnable
       THEN /\ tasks' = [t \in Tasks |->
                  IF tasks[t].state \in {"running", "pending_apply"} /\ tasks[t].action # "none"
                  THEN [WithoutLease(tasks[t]) EXCEPT !.state = "blocked"] ELSE tasks[t]]
            /\ goal' = [goal EXCEPT !.status = "paused"]
       ELSE UNCHANGED <<goal, tasks>>
    /\ runner' = At("leaving")
    /\ UNCHANGED <<files, artifacts, turn, up, crashes>>

ThreadEnds ==
    /\ up /\ runner.pc = "leaving"
    /\ runner' = Idle
    /\ UNCHANGED <<goal, tasks, files, artifacts, turn, up, crashes>>

-----------------------------------------------------------------------------
\* The user's controls.  They take the lock the apply loop holds; one that
\* leaves the goal queued tries to start it (start_background).

Control(kind) == up /\ runner.pc # "apply" /\ kind \in Controls
Touched == IF runner.pc = "verify" THEN [runner EXCEPT !.touched = TRUE] ELSE runner
AskedUser == InState({"waiting"}) # {}

\* A thread that still is alive, or a lease a dead one left, keeps another
\* from starting: the goal is only reported as reused.
Start(g) ==
    IF g.status = "queued" /\ runner.pc = "none" /\ g.worker = "none"
    THEN goal' = [g EXCEPT !.worker = "live"] /\ runner' = At("schedule")
    ELSE goal' = g /\ runner' = Touched
WithStatus(status) == [goal EXCEPT !.status = status]

Pause ==
    /\ Control("pause") /\ goal.status \notin Terminal \cup {"cancelling", "paused"}
    /\ goal' = WithStatus("paused") /\ runner' = Touched
    /\ UNCHANGED <<tasks, files, artifacts, turn, up, crashes>>

\* resume_recovery: which interrupted calls may be made again, and whether
\* without asking because every reply is known.
Interrupted == {t \in InState({"blocked"}) : UnsettledEffect(tasks[t])}
KnownReply(t) == tasks[t].effect = "known_reply_failed" /\ ~tasks[t].unknown
ProviderOnly(t) ==
    /\ tasks[t].effectId # 0 /\ (tasks[t].unknown \/ tasks[t].reconcile)
    /\ tasks[t].action = "none" /\ tasks[t].txn = "none"
    /\ \/ KnownReply(t)
       \/ tasks[t].effect \in {"outcome_unknown", "reconciliation_required",
                                "dispatched", "reply_received"}
CanRetry ==
    /\ Interrupted # {} /\ \A t \in Interrupted : ProviderOnly(t)
    /\ goal.worker # "live" /\ InState({"running"}) = {}
Automatic == CanRetry /\ \A t \in Interrupted : KnownReply(t)

Resume(choice) ==
    LET again == IF choice \/ Automatic THEN Interrupted ELSE {}
    IN  /\ Control("resume") /\ goal.status = "paused" /\ ~AskedUser
        /\ choice => CanRetry
        /\ Interrupted \subseteq again
        /\ tasks' = [t \in Tasks |->
              IF t \in again
              THEN [WithoutLease(tasks[t]) EXCEPT !.state = "ready", !.unknown = FALSE,
                        !.reconcile = FALSE, !.effect = "settled"]
              ELSE IF tasks[t].state = "blocked" /\ ~tasks[t].unknown
              THEN [tasks[t] EXCEPT !.state = "ready"] ELSE tasks[t]]
        /\ Start(WithStatus("queued"))
        /\ UNCHANGED <<files, artifacts, turn, up, crashes>>

\* Mutant of Cancel: a live scheduler is not drained.
CancelAtOnce ==
    /\ Control("cancel") /\ goal.status \notin Terminal \cup {"cancelling"}
    /\ FinishCancellation(goal.worker)
    /\ runner' = Touched
    /\ UNCHANGED <<turn, up, crashes>>

Cancel ==
    /\ Control("cancel") /\ goal.status \notin Terminal \cup {"cancelling"}
    /\ IF goal.worker = "live"
       THEN goal' = WithStatus("cancelling") /\ UNCHANGED <<tasks, files, artifacts>>
       ELSE FinishCancellation(goal.worker)
    /\ runner' = Touched
    /\ UNCHANGED <<turn, up, crashes>>

\* An effect that is not settled needs the user's word that it was inspected;
\* the project as it then is becomes the new boundary.
Retry(t) ==
    /\ Control("retry") /\ goal.status \notin Terminal \cup {"cancelling"} /\ ~AskedUser
    /\ tasks[t].state = "blocked"
    /\ LET inspected == tasks[t].unknown \/ tasks[t].reconcile
           fresh == [WithoutLease(tasks[t]) EXCEPT !.state = "ready", !.unknown = FALSE,
                        !.reconcile = FALSE, !.effect = "settled"]
       IN  /\ UnsettledEffect(tasks[t]) => inspected
           /\ tasks' = [tasks EXCEPT ![t] = IF inspected THEN Emptied(fresh) ELSE fresh]
           /\ files' = IF inspected THEN [files EXCEPT ![t] = Untouched] ELSE files
           /\ artifacts' = IF tasks[t].txn = "applied" THEN Publishing({t}) ELSE artifacts
    /\ Start(WithStatus("queued"))
    /\ UNCHANGED <<turn, up, crashes>>

\* Steer starts a new objective epoch.  Applied transactions are published,
\* prepared ones rolled back, and unfinished turns superseded where they are.
CanRollBack(t) ==
    tasks[t].txn = "prepared" => RollbackWorks(files[t])

Steered(t) ==
    LET r == tasks[t]
        published == [Emptied(WithoutLease(r)) EXCEPT !.state = "complete", !.effect = "settled"]
        kept == IF r.txn = "applied" THEN published ELSE r
    IN  IF kept.state \in {"running", "pending_apply", "blocked"}
        THEN [Emptied(WithoutLease(kept)) EXCEPT
                 !.state = "ready", !.unknown = FALSE, !.effect = "settled", !.agreed = FALSE]
        ELSE [kept EXCEPT !.agreed = FALSE,
                 !.state = IF Required(t) /\ @ = "complete" THEN "ready" ELSE @]

Steer(spare) ==
    LET d == [t \in Tasks |-> Steered(t)]
        finished == \A t \in Tasks : d[t].state \in Finished
        next == IF finished THEN [d EXCEPT ![spare] = NewTask("ready")] ELSE d
    IN  /\ Control("steer") /\ goal.status \notin Terminal \cup {"cancelling"} /\ ~AskedUser
        /\ goal.epoch < MaxEpoch
        /\ \A t \in Tasks : CanRollBack(t)
        /\ finished => tasks[spare].state = "absent"
        /\ tasks' = next
        /\ files' = [t \in Tasks |-> IF tasks[t].txn # "none" THEN Untouched ELSE files[t]]
        /\ artifacts' = Publishing({t \in Tasks : tasks[t].txn = "applied"})
        /\ Start([goal EXCEPT !.epoch = @ + 1, !.status =
              IF \E t \in Tasks : next[t].state = "running" THEN "running" ELSE "queued"])
        /\ UNCHANGED <<turn, up, crashes>>

Answer ==
    /\ up /\ runner.pc # "apply" /\ AskedUser
    /\ goal.status \notin Terminal \cup {"cancelling"}
    /\ tasks' = [t \in Tasks |->
          IF tasks[t].state = "waiting" THEN [tasks[t] EXCEPT !.state = "ready"] ELSE tasks[t]]
    /\ Start(WithStatus("queued"))
    /\ UNCHANGED <<files, artifacts, turn, up, crashes>>

-----------------------------------------------------------------------------
\* The process dies at any point, and the next start recovers the goal
\* (recover_all: recover_dead, recover_orphaned_queue, the drained cancel).

Crash ==
    /\ up /\ crashes < MaxCrashes
    /\ CrashInRollback \/ \A t \in InState({"running"}) : files[t].manifest # "rolling_back"
    /\ up' = FALSE /\ crashes' = crashes + 1
    /\ runner' = Idle
    /\ turn' = [t \in Tasks |-> "idle"]
    /\ goal' = [goal EXCEPT !.worker = IF @ = "live" THEN "dead" ELSE @]
    /\ UNCHANGED <<tasks, files, artifacts>>

\* recover_dead for an acknowledged action: what was applied is kept for the
\* apply loop, a transaction that can be put back is, one in doubt is parked.
InDoubt(t) == files[t].manifest = "prepared" /\ ~RollbackWorks(files[t])
PutBack(t) == files[t].manifest = "prepared" /\ RollbackWorks(files[t])

\* Mutant of RecoveredAction: one in doubt is treated as put back.
RecoveredUndoubted(t) ==
    LET r == [tasks[t] EXCEPT !.state = "pending_apply"]
    IN  CASE tasks[t].txn # "prepared" -> r
          [] tasks[t].txn = "prepared" /\ files[t].manifest = "applied" ->
                [r EXCEPT !.txn = "applied"]
          [] OTHER -> [r EXCEPT !.txn = "none", !.txnEffect = 0]

RecoveredAction(t) ==
    LET r == [tasks[t] EXCEPT !.state = "pending_apply"]
    IN  CASE tasks[t].txn # "prepared" -> r
          [] tasks[t].txn = "prepared" /\ files[t].manifest = "applied" ->
                [r EXCEPT !.txn = "applied"]
          [] tasks[t].txn = "prepared" /\ InDoubt(t) ->
                [r EXCEPT !.state = "blocked", !.unknown = TRUE]
          [] OTHER -> [r EXCEPT !.txn = "none", !.txnEffect = 0]

RecoveredTask(t) ==
    LET r == tasks[t]
        freed == WithoutLease(r)
    IN  CASE r.effect = "context" -> [freed EXCEPT !.state = "ready", !.unknown = FALSE]
          [] r.effect = "reply_received" ->
                [freed EXCEPT !.state = "blocked", !.unknown = FALSE, !.reconcile = TRUE,
                              !.effect = "reconciliation_required"]
          [] r.effect = "acknowledged" /\ r.action # "none" -> RecoveredAction(t)
          [] OTHER ->
                [freed EXCEPT !.state = "blocked", !.unknown = r.effect = "dispatched",
                              !.effect = IF @ = "dispatched" THEN "outcome_unknown" ELSE @]

RecoverDead ==
    /\ tasks' = [t \in Tasks |->
          IF tasks[t].state = "running" THEN RecoveredTask(t) ELSE tasks[t]]
    /\ files' = [t \in Tasks |->
          IF tasks[t].state = "running" /\ tasks[t].txn = "prepared" /\ PutBack(t)
          THEN RolledBack ELSE files[t]]
    /\ goal' = [goal EXCEPT !.worker = "none", !.status = Unless({"cancelling"}, "paused")]

Recover ==
    /\ ~up /\ up' = TRUE
    /\ IF InState({"running"}) # {} THEN RecoverDead
       ELSE /\ goal' = IF goal.status = "queued"
                       THEN [goal EXCEPT !.status = "paused", !.worker = "none"] ELSE goal
            /\ UNCHANGED <<tasks, files>>
    /\ runner' = IF goal.status = "cancelling" THEN At("recovering") ELSE Idle
    /\ UNCHANGED <<artifacts, turn, crashes>>

RecoverCancelled ==
    /\ up /\ runner.pc = "recovering"
    /\ FinishCancellation(goal.worker)
    /\ runner' = Idle
    /\ UNCHANGED <<turn, up, crashes>>

-----------------------------------------------------------------------------
Init ==
    /\ goal = [status |-> "queued", epoch |-> 1, calls |-> 0, worker |-> "live"]
    /\ tasks = [t \in Tasks |-> NewTask(IF t \in Founders THEN "ready" ELSE "absent")]
    /\ files = [t \in Tasks |-> Untouched]
    /\ artifacts = [e \in 1..Budget |-> 0]
    /\ runner = At("schedule")
    /\ turn = [t \in Tasks |-> "idle"]
    /\ up = TRUE /\ crashes = 0

Scheduler ==
    \/ ScheduleEnd \/ ScheduleApply \/ ScheduleVerify \/ NothingToClaim
    \/ \E S \in SUBSET Tasks : ClaimReady(S)
    \/ JoinTurns \/ ApplyDone
    \/ VerificationStopped \/ VerificationSuperseded
    \/ VerificationPasses \/ VerificationPauses
    \/ \E t \in Tasks : VerificationFails(t)
    \/ StopRun \/ HandleFailure \/ ThreadEnds

Apply(t) ==
    \/ ApplySkips(t) \/ DeferPendingAction(t) \/ ApplyRaises(t) \/ PrepareTransaction(t)
    \/ WriteManifest(t) \/ Replace(t) \/ Commit(t) \/ ApplyAborts(t) \/ ApplyFails(t)
    \/ AutomaticRollback(t) \/ RecordTransactionApplied(t) \/ ApplyAction(t)

Executor(t) ==
    \/ ContinuationRoute(t) \/ RecordDispatch(t) \/ DispatchRefused(t)
    \/ RecordProviderReply(t) \/ AcknowledgeContextStep(t)
    \/ \E uncertain, failover \in BOOLEAN : TurnFails(t, uncertain, failover)
    \/ \E kind \in Actions \ {"context"} : RecordAction(t, kind)

User ==
    \/ Pause \/ Cancel \/ Answer
    \/ \E choice \in BOOLEAN : Resume(choice)
    \/ \E t \in Tasks : Retry(t) \/ Steer(t)

Engine == Scheduler \/ Recover \/ RecoverCancelled \/ \E t \in Tasks : Apply(t) \/ Executor(t)
Next == Engine \/ User \/ Crash
Spec == Init /\ [][Next]_vars

\* The engine keeps running: its threads are scheduled, provider calls end (the
\* adapters have timeouts), and Nexus is started again after a crash.  Nothing
\* is assumed of the user.
FairSpec == Spec /\ WF_vars(Engine)

-----------------------------------------------------------------------------
\* Every variable keeps its type.
TypeOK ==
    /\ goal \in [status : Statuses, epoch : 1..MaxEpoch, calls : 0..Budget,
                 worker : {"none", "live", "dead"}]
    /\ tasks \in [Tasks -> Task]
    /\ files \in [Tasks -> File]
    /\ artifacts \in [1..Budget -> Nat]
    /\ runner \in [pc : {"none", "schedule", "act", "apply", "verify", "stopping",
                         "failing", "handling", "leaving", "recovering"},
                   todo : SUBSET (Tasks \X Kinds), item : Tasks \cup {None}, touched : BOOLEAN]
    /\ turn \in [Tasks -> {"idle", "boot", "sent", "replied", "done"} \cup Kinds]
    /\ up \in BOOLEAN /\ crashes \in 0..MaxCrashes

\* Files are only written for a reply to the current objective, by a task that
\* still holds its lease, while the goal is running: a reply that a Pause, a
\* Steer or a Cancel overtook is never applied (_apply_node_locked).
WritesAreCurrent ==
    runner.item # None =>
        LET r == tasks[runner.item]
        IN  /\ r.leased /\ r.claimEpoch = goal.epoch
            /\ goal.status \in {"queued", "running"}

\* Behind a Pause, an open question, a draining cancellation or the end of a
\* goal no provider call is made and no file replaced, whatever the executors
\* already were doing (record_dispatch, _apply_node_locked).
Advances(t) ==
    files'[t].content # files[t].content /\ files'[t].content # "before"
NothingBehindAStop ==
    [][goal.status \in Stopped \cup Terminal =>
          goal'.calls = goal.calls /\ \A t \in Tasks : ~Advances(t)]_vars

\* The changes of one reply enter the goal's artifacts at most once, across
\* crashes, retries and cancellation (apply_action, publish_recovered_applied).
LandsOnce == \A e \in DOMAIN artifacts : artifacts[e] <= 1

\* A task with no open transaction has left no half-made change in the files,
\* one whose transaction counts as applied has all of it there, and one whose
\* call or transaction is in doubt is parked until the user decided about it;
\* recovery, cancellation and Steer keep all three (recover_dead, fail_task,
\* settle_for_cancellation).
AtBoundary ==
    \A t \in Tasks :
        /\ tasks[t].txn = "none" => files[t].content = "before"
        /\ tasks[t].txn = "applied" => files[t].content = "after"
        /\ tasks[t].unknown => tasks[t].state = "blocked"

\* A required team always has a call left for each named member that has not
\* had one (claim_ready, record_dispatch), whatever retries and repairs cost.
EveryMemberKeepsACall ==
    RequireAll => Budget - goal.calls >= Cardinality(NeverDispatched)

\* A cancelled goal is quiet: nobody works for it, and every effect and file
\* transaction is settled (control "cancel", run's finally clause).
CancelledIsQuiet ==
    goal.status = "cancelled" =>
        /\ goal.worker = "none" /\ runner.pc \in {"none", "leaving", "handling"}
        /\ \A t \in Tasks :
              /\ turn[t] = "idle" /\ tasks[t].state \in Finished
              /\ ~UnsettledEffect(tasks[t]) /\ files[t].content = "before"

\* A goal is checked only when its work is settled, with no call, reply or file
\* transaction of a task open (_schedule_node), and a shared one that is not in
\* facilitator mode completes only when every named member had a turn of its own,
\* finished, and stands by the result (apply_action, complete_verification).
AgreedOnTheResult ==
    /\ runner.pc = "verify" => \A t \in Tasks : ~UnsettledEffect(tasks[t])
    /\ goal.status = "complete" /\ RequireAll =>
        \A t \in Founders :
            tasks[t].state = "complete" /\ tasks[t].agreed /\ tasks[t].effectId # 0

\* A change that lands while a shared goal outside facilitator mode goes on takes
\* back every agreement but that of the member whose reply it is (apply_action's
\* renewed agreement, which facilitator mode switches off).  What
\* counts is when a reply is applied: one that was left on its task is counted as
\* agreement to changes that its author never saw.
ChangesReopen ==
    [][RequireAll /\ goal'.status \in {"queued", "running"} =>
          \A t \in Founders, e \in DOMAIN artifacts :
              artifacts'[e] > artifacts[e] /\ tasks'[t].agreed => tasks[t].effectId = e]_vars

\* A transaction that counts as applied leaves its task only by entering the
\* goal's artifacts, at that very step: in no crash, cancellation, retry or
\* change of the objective are its changes forgotten (apply_action,
\* publish_recovered_applied, recover_dead).
AppliedIsRecorded ==
    [][\A t \in Tasks :
          tasks[t].txn = "applied" /\ tasks'[t].txn # "applied" =>
              artifacts'[tasks[t].txnEffect] = artifacts[tasks[t].txnEffect] + 1]_vars

\* A half-made change is finished by the apply loop that holds it, or taken back
\* by a rollback that had begun and finds no torn file, or given up by a user
\* who was shown it and answered that it was inspected; nothing else touches it
\* (recover_dead, settle_for_cancellation, steer, retry).
HalfMade(file) == file.content \in {"partial", "torn"}
Finishing(t) == runner.item = t /\ files[t].manifest = "prepared" /\ files'[t].content = "after"
TakingBack(t) ==
    /\ tasks[t].txn = "prepared"
    /\ files[t].manifest = "rolling_back" /\ files[t].content = "partial"
HalfMadeIsKept ==
    [][\A t \in Tasks :
          HalfMade(files[t]) /\ ~HalfMade(files'[t]) =>
              Finishing(t) \/ TakingBack(t) \/ (tasks[t].unknown /\ Retry(t))]_vars

\* A cancellation that was accepted finishes, also across a crash: it settles,
\* or pauses because a file transaction is in doubt.
CancellationDrains == goal.status = "cancelling" ~> goal.status \in {"cancelled", "paused"}
=============================================================================
