# Nexus Harness in TLA+

Nexus Harness lets several AI agents work on a person's project for hours:
they take turns, propose file changes, are paused, steered and cancelled by the
user, and survive crashes of the programs that drive them. This directory holds
a model of the parts where that is hard to get right, the TLC runs that check
it on small instances, and TLAPS proofs of what holds for every instance.

Source paths below are relative to `src/src/our_harness/`; `LH` is
`long_horizon.py`, the heart of the system.

## 1. The system and what is modelled

| Part (source) | State | Operations | What makes it correct | Module |
|---|---|---|---|---|
| Project queue (`LH`, `GoalStore`) | the `project_queue` claim of each goal | create, promote, release, adopt a workspace, recover | overlapping projects have one owner; waiters are served in order and never forgotten | `ProjectQueue` |
| Goal engine (`LH`, `GoalStore` and `LongHorizonRuntime`; `goal_recovery.py`, `goal_budget_policy.py`) | goal document, task ledger, scheduler lease, threads | schedule, claim, dispatch, reply, apply, verify, pause, resume, cancel, retry, steer, answer, recover | a change lands once and whole; nothing moves behind a stop; unknown calls are never repeated silently | `GoalEngine` |
| File transactions (`changes.py`) | manifest and files | prepare, apply, unwind, rollback, finalize | all or nothing across crashes; nobody's edit is lost | `FileTransaction`, implementing `AtomicChange` |
| Write lease (`project_operations.py`) | lease and ticket tables | claim, poll, release | writers are exclusive, and a thread that goes on polling keeps its turn | `OperationLease` |
| Isolated workspaces (`goal_workspaces.py`) | a goal's copy, its state file, the publication's transaction | create, prepare with rebase, publish, recover | a goal publishes its own verified changes and nobody's are overwritten | `GoalWorkspaces` |
| Run journal (`swarm_runs.py`) | rows of runs and provider turns | accept, start, begin and finish a turn, checkpoint, finish, fail, stop, recover | a run that is over knows, or owns up to, the outcome of all it sent | `RunJournal` |
| Board goal queue (`swarm_goal_queue.py`) and its request handler (`server.py`) | queue documents and their external anchor, request threads | start, claim, record, poll and repair, cancel | goals complete in order on evidence of their own; the queue always opens and never says "running" for ever | `BoardQueue` |
| Resident jobs (`resident.py`, and the run they carry out in `workflow.py`) | job rows, command journal, daemon, worker processes, run checkpoint and transaction | submit, cancel, resume, stop, take up, report, settle, recover | nothing is begun twice, nothing is left running unwatched, reports are true, half-done work is kept | `ResidentJobs` |
| Project-work journal (`swarm_work.py`, `_MutationSaga`) | a run's journal of change sets, their manifests, the files | begin, apply, record, abandon; Stop and its undo, keep, complete; recover, acknowledge | a Stop takes back the whole run or says what it could not; nothing else takes back applied work; the journal is true | `MutationSaga` |
| Everything else | | | | section 6 |

How they interact. A chat or board creates a goal; the *project queue* decides
in the same database transaction whether it owns its directory or waits. An
owner is started: one scheduler thread per goal alternates between claiming
ready tasks (one executor thread each, which calls a provider), applying what
came back and verifying. Applying goes through a *file transaction*; goals that
work directly in the project (facilitator mode) take the *write lease* around it,
goals with an *isolated workspace* publish it when its checks have passed. A goal that ends or
is cancelled releases its project, and the waiters are promoted. A board may
instead work through its own *queue of goals*, each of which is one chat request
whose *run* and provider turns are journalled. The *resident daemon* is a third
way in: a background process that works off jobs, each in a worker process of
its own, for the workflow engine. *Project work* is the fourth: a board's agents
change the project in passes, one file transaction per reply, all of them in the
*journal* of the run, so that a Stop can take the run back.

What is hard. Several processes and threads interleave between transactions;
replies arrive after the user paused, steered or cancelled; a provider call may
have happened although no answer came; a process may die between any two
writes, and the files, the database, its anchor and the other stores are not
written together; children outlive the process that started them.
`PROJECT.json` lists these hazards at their lines, with the properties about
them.

## 2. The modules

The stores are SQLite databases that several processes open; a store method is
one `BEGIN IMMEDIATE` transaction, and that is what makes one action of the
models. A file, a process or a thread that is not covered by the transaction is
an action of its own.

`ProjectQueue`: the queue of all goals of a store. `goals[g]` is the goal's
document as the queue sees it: status, claim (`owner`, `waiter`, `released`),
execution mode, scheduler lease, what its tasks have done so far, the blocker a
waiter names, and its place in order of creation. `Mutate` is
`GoalStore._mutate`: it writes a document, derives the claim from the status
and promotes waiters when an owner let go, all in one step. The other actions
are the operations that pass through it (create, start, dispatch, end of a
turn, answer, verification, pause, resume, cancel, retry), the start failures,
a crash, and the sequence of a restart: `OpenStore` (the migration, which
raises when two owners overlap), `RecoverAll` (adoption of workspaces and
normalisation of dead goals) and `RecoverCancelled`.

`GoalEngine`: one goal that owns its project and is not in facilitator mode
(section 6 says what that mode does otherwise). `goal` is the document, `tasks`
the ledger, `files` what each task's file transaction left on disk, `artifacts`
what the goal published, `runner` the scheduler thread (its program counter,
and the batch it is applying), `turn` each executor thread. The actions follow
the code's order: the schedule node (`ScheduleApply` before `ScheduleVerify`
before `ClaimReady`), the turn (`ContinuationRoute`, `RecordDispatch`,
`RecordProviderReply`, `RecordAction`, and the three ways a turn fails), the
apply loop (`PrepareTransaction` to `ApplyAction`, one action per commit and per
file write), verification, the end of a thread (`StopRun`, `HandleFailure`,
`ThreadEnds`), the controls, and `Crash` with `Recover`. A control and the apply
loop take the same runtime lock, so `Control` needs `runner.pc # "apply"`; a
crash does not. File contents are one of `before`, `partial`, `torn`, `after`:
what `FileTransaction` says in detail for each file. Reviews, delegation,
hand-offs and protocol corrections are left out, and a call budget without a
limit is one that is not reached.

`FileTransaction`: one transaction with a plan of files to modify, create and
delete. `content[f]` is what the file holds, `manifest` the state on disk, `op`
the call under way: its step, the files it has not come to, the exclusive
targets it holds and the file in its hand. `_ExclusiveTarget.__enter__` is two
steps for a new file: `Create` makes it, empty, and `Lease` locks, reads and
compares it; in between it may be found written to (`CreateConflict`, which removes
it) or be impossible to lock or read (`CreateStrands`, which leaves it). A
replacement is two steps, because `_ExclusiveTarget.write` truncates the file in
place; a manifest write and a restore are one, because `atomic_write` replaces
them. Every step may fail: the apply (`ApplyFails`), the removal of a new file
(`UnwindFails`), the manifest of a failed apply (`ClosingFails`), a rollback before
or after it began (`RollbackRefused`, for whatever reason it cannot read what it
needs, and `RollbackFails`). `stuck` remembers the new files that a failed call
left behind; it guides no step, and the refinement needs it. An editor that ignores
the advisory locks may save or restore a file at any moment (`Edit`), and a
crash may fall between any two steps. `AtomicChange` is the promise in three
phases (open, applied, reverted); the refinement maps the manifest to the phase.
A reverted change may leave a new file that could not be taken away, but only an
empty one.

`OperationLease`: threads of several processes that want to write to
directories which may overlap. Each action is one transaction of
`project_operations.claim`; the poll (`Admit`, `Refuse`) refreshes its own ticket
and deletes the stale ones it looks at, in the order of the code. `Age` is 30
seconds without a poll.

`GoalWorkspaces`: goals with private copies of one project. A file is the set of
edits its text holds together with those taken out of it again, so that two
versions can have the same content and different identities, as in the code
(`_content` and `_identity`); "made from" is inclusion. `source` is the project, `private[g]` a copy, `state[g]`
the authenticated state file (baseline, publication receipt, pending rebase),
`manifest[g]` the publication's transaction, `call` the call that holds the
publication lock. The actions are `create` in its two steps, the three outcomes
of `_recover_publication`, `prepare_publish` (reuse of a receipt, the rebase file
by file, the second listing), the checks, `publish` with its transaction from the
intent to the receipt, and the acknowledgement in the goal's database. The user
edits the project between any two steps and may carry an agent's version over by
hand; a call may die or fail at any step. A listing of the project is one step,
and an automatic rollback is one step; `FileTransaction` has its detail.

`RunJournal` and `BoardQueue`: `runs[r]` is the row of a request's run (status,
owning process, Stop flag, the summary `effect_status`, result, whether its file
change landed), `turns[r][s]` a provider turn and whether a checkpoint covers it.
`BoardQueue` extends it with the queue documents, `head` (the queue written
last), and `behind`: by how many revisions the anchor outside the database is
behind. `Commit` is the transaction `_tx`, `Anchored` and `Unanchored` its two
ends; an entry that finds the anchor one behind repairs it. `handler[r]` is the
thread that serves `/api/swarm/say`, by its stage: claim the goal, accept and
start the run, work, save, finish, record, with the failure path beside each.
`poll[p]` is what `reconcile` saw in its first transaction and uses in its
second. A process dies with its handlers and polls, and its identity becomes one
that owns nothing.

`ResidentJobs`: `jobs` are the rows, `runs` the harness run of each (row,
checkpoint, what its transaction did to the project), `workers` the child
processes by the lease each was made for, `daemon` the main loop, `calls` the
request threads with their journal rows. A worker reports only while the row is
`running` under its lease; the daemon may die and leave its worker behind, so
that several workers of one job exist. What a worker does inside a run is under
the project lock (`Inside`), and the open transaction of a run is `prepared`,
`half` or `rolling`. A cancellation and a resume are two transactions, a read and
an `UPDATE` without the condition that was read. Settings: rollback of an
exhausted run is on (the default), nobody but the harness edits the files
(`FileTransaction` and `GoalWorkspaces` have that), and the sequential
interpreter of a run is the one mapped.

`MutationSaga`: a project-work run and the next one. `entry[t]` and `phase` are
the journal, `state[t]`, `files[t]` and `base[t]` the manifest of transaction `t`
with its backups, `content[f]` the version a file holds (which transaction wrote
it), `call` the step of the process. `Begin` to `Abandon` is `apply_changes` inside
`post_provider_mutation`; `Cancel` to `Conflicted` is `compensate`, newest first,
with a journal write after each transaction; `NextRun` to `Acknowledge` are
`recover_orphans` and what `work_together` does with its result. `FileTransaction.rollback`
is one set of actions, used by the failed apply, the undo and the recovery
(`call.for`); with `Faults` any file, backup or manifest it needs may be unreadable,
before it begins (`RollbackRefused`) or later (`RestoreStops`), and without it only
what the change sets themselves cause happens (`Refuses`). Somebody else may edit a file, or bring back any version of it, at
any moment, and a crash may fall between any two writes.

The `MC*` modules give the instances names; `*_proofs` hold the theorems.

## 3. The runs

| Run | Instance | Shows |
|---|---|---|
| `QueueFifo` | three goals on one directory, one of them isolated, 1 crash | `OwnerExclusion`, `BlockerIsOwner`, `UnsettledKeepsOwnership`, `ReleasePromotes`, `NoOvertaking` |
| `QueueNested` | goals of an older version, chats among them, on a directory and two nested in it, 1 crash | `RunnersExclusive` |
| `GoalTeam` | two named members, room for a third task, 4 calls, 2 epochs, 2 crashes, no Pause | `LandsOnce`, `AppliedIsRecorded`, `AtBoundary` (what is in doubt is parked, too), `HalfMadeIsKept`, `EveryMemberKeepsACall`, `AgreedOnTheResult` (on settled work), `ChangesReopen` |
| `GoalSolo` | two parallel tasks, 3 calls, 1 crash, pause/resume/cancel/steer, fair | `WritesAreCurrent`, `CancelledIsQuiet`, `NothingBehindAStop`, `CancellationDrains` |
| `FileChange` | four files: two modified, one new, one deleted; 2 edits, 2 crashes, any failures | `AllOrNothing`, `EditsKept` |
| `WriteLease` | a directory and two nested in it, 2 processes, 1 stall, 1 lost delete, 1 crash, fair | `Exclusive`, `TicketsAccounted`, `PrecedenceKept`, `TicketServed` |
| `WorkspaceSolo` | one goal with two edits, the user with one, all may be taken back; 2 files, 3 interruptions | `OnlyOwnDelta`, `NoLostUpdate`, `AgentWorkKept`, `PublishedIsVerified` |
| `Board` | two requests for the first of two goals, up to two overlapping turns, 1 crash or failed anchor write, fair | `CompletedInOrder`, `NothingLeftInDoubt`, `AlwaysOpens`, `StopIsFinal`, `GoalComesBack` |
| `ResidentJobs` | three jobs, two of them waiting; 1 request of any kind; 1 death, fair | `NothingTwice`, `RunningIsWatched`, `OutcomeIsTrue`, `HalfDoneIsKept`, `JobsSettle` |
| `Saga` | two transactions over two files, in one run or two; 1 edit, 2 crashes, whatever a rollback reads may be unreadable | `CancelUndoes`, `JournalIsTrue`, `AppliedWorkStays` |
| `SagaStop` | two transactions over one file, no edit, crash or unreadable file | a violation, section 4 |
| `GoalHalfRolledBack` | as `GoalTeam`, with a crash inside an automatic rollback | a violation, section 4 |

Why these bounds are enough for the cases of interest. Three goals are the
least with a blocker, a waiter and a second waiter (or a second owner on a
nested directory) that could overtake it. Two tasks are the least for a
required team and for a reply that outlives another one's stop; the third task
in `GoalTeam` is the repair task that verification adds. Four calls allow a
retry beside the reserved ones; two objective epochs are one Steer, hence a
current and a superseded turn; two crashes interrupt a recovery. Four files have
one of each kind and a second to be half way between. Two files are the least
for a publication or a rebase to be cut in half, and three interruptions are a
crash of the call, of its recovery, and of the call after that. Two requests for
one board goal are a lost answer that is sent again, or a second window; two
slots are two turns that overlap; a fault falls at every point of the three
stores. Two waiting jobs are the least for a
request that hits another job's worker; the four leases are never used up. Instances
with two requests (a stale write) and with two deaths were explored without an
error, as were two goals that publish past each other and three transactions of a
`MutationSaga`. Two transactions are the least for an undo whose order
matters and for one that stops half-way; two crashes interrupt a run and then its
recovery. The theorems of section 5 do not depend on these numbers. The type
invariants are all theorems, and not in a run as well.

Every bound is a constant named in a comment of its module (`Max...`, `Budget`,
`Files`, `Tasks`, `Goals`, `Edits`, `Undoable`, `TurnsOf`, `Leases`) and sits in
a guard. Symmetry is used for interchangeable members, files, and edits of one
author, and in no run that checks liveness.
`GoalTeam` has no Pause only because of its size: with Pause it was explored once,
without an error, and `GoalSolo` has it. `CrashInRollback = FALSE` leaves out one moment of a crash,
the one that `GoalHalfRolledBack` is about; the other runs then check what holds
besides. Deadlock is not checked, because every system here may really stop: a
complete or cancelled goal, a paused goal, an ended transaction, an empty queue.
`Saga` checks it: a next run can always be started.

Fairness. `GoalEngine!FairSpec` is weak fairness of the engine as a whole: its
threads are scheduled, a provider call ends (adapters have timeouts), Nexus is
started again after a crash. Nothing is assumed of the user, who may never
resume or answer. `OperationLease!FairSpec` is weak fairness of polling every
0.1 s, of leaving and releasing (the write ends), and of time passing for a
ticket nobody refreshes. `BoardQueue!FairSpec`: a request thread goes on, a
running queue is polled (every open window does so every 1.2 seconds,
`watchBoardGoalQueue` in `ui/app.js:17049`), Nexus is opened again. Nothing makes
the user send, stop or cancel. `ResidentJobs!FairSpec`: the daemon's loop,
its children and its request threads go on, a run ends
(`workflow.max_elapsed_seconds`), and somebody starts a daemon that is down.

## 4. Where the code and its documents disagree

Two runs expect a violation. `GoalHalfRolledBack` (`AtBoundary`): recovery
forgets a transaction that a crash caught during its automatic rollback, and
leaves the files half rolled back; the comment above it says the rollback
reconciles to the state before. `SagaStop` (`StopUndoes`): a change set refused
before its manifest was written makes `compensate` give up (`swarm_work.py:1624`),
so that a Stop leaves every older change of the run applied, and the next run
reports files that "changed afterwards"; `docs/AGENT_ACCESS.md:358` says a cancel
undoes the run. `PROJECT.json` quotes the lines.

The models contain these behaviours too; the properties are stated so that they
say what holds in spite of them.

* Queue. Adopting a waiting chat's workspace makes it an owner beside an
  overlapping owner that cannot be adopted, and the next opening of the store
  refuses to continue (`LH:4299`): `OwnerExclusion` holds of a store without
  such chats, `RunnersExclusive` of every store.
* Goal. The reply of a superseded turn sets a goal that the user paused back to
  `queued` (`LH:5957`); a dead scheduler lease survives recovery when no task was
  running, and Resume then queues a goal that nobody runs (`LH:5089`), also when
  it meets a thread about to end (`LH:10425`).
* Queue. A waiter may name a blocker whose project does not overlap its own any more,
  because the blocker was resumed as a facilitator; it waits for the next release
  although nothing stands in its way (`BlockerIsOwner` names the case).
* Files. A new file that was created and then cannot be locked or read stays,
  empty and with its descriptor open, because `__exit__` is not registered yet
  (`changes.py:227`, `254`); nothing was `attempted`, so the manifest says "aborted"
  over it (`changes.py:616`), and a retry finds a file it did not plan for.
  `AllOrNothing` names the case. A new file that somebody wrote to between its
  creation and its comparison is removed with what they wrote (`changes.py:259`);
  `EditsKept` counts the creation as the check of that file.
* Agreement. A reply that the apply loop could not finish stays acknowledged on a
  running task when a Pause, or a Cancel that had to give up, comes before the
  failure is handled (`LH:10454`). The recovery after a crash gives it to the apply
  loop again, and it is then applied after changes of other members and counts as
  agreement with them (`LH:6891`), although its author never saw them; the
  prompt at `LH:9156` promises that "a later change reopens an earlier
  agreement". So `AgreedOnTheResult` does not say that who agreed had the last
  word, and `ChangesReopen` counts from the moment a reply is applied.
* Workspaces. A rebase that stopped between two files refuses a copy nobody
  touched for good, because the file it had not come to is neither the old nor
  the new one once the project moved on (`goal_workspaces.py:880`, `913`). A
  transaction folder without a manifest, and a publication that was rolled back,
  are not tried again (`goal_workspaces.py:842`); the project is visible half
  published while a call that died waits to be recovered.
* Board. `reconcile` may bring a queue back that was cancelled between its two
  transactions, and a result recorded late may have its goal sent twice; a claim
  that was committed but not anchored is an error to the user and stays. After a
  recovery the effect of an interrupted run stays `dispatched`, and its
  conversation is not fenced (`swarm_runs.py:1938`), against the docstring at
  `swarm_runs.py:2321`.
* Resident jobs. A job cancelled between its being picked and its lease ends the
  daemon (`resident.py:759`). The unconditional writes of `request_cancel` and
  `queue_resume` (`resident.py:353`) may overwrite what a worker reported
  meanwhile, so a completed job may be shown as cancelled; Cancel may kill
  another job's worker (`resident.py:809`). A worker that outlived its daemon and
  completes leaves its job `resume_ready` without a checkpoint, which can be
  neither resumed nor cancelled. A worker killed while it applied files has its
  run failed on resume and its checkpoint deleted; the project keeps the half
  change, and the transaction in doubt blocks every later run until a person
  settles it. `HalfDoneIsKept` names that case.
* Project work. A ledger that fails after a change set was applied and recorded
  has it marked "restored", and the agents are told that it was undone
  (`swarm_work.py:13415`), while its files stay. A transaction caught between its
  first and its last file is in doubt and stays half applied, against the docstring
  at `swarm_work.py:1770`; the journal names it as a conflict. An undo that was cut
  off in the middle of a rollback and, taken up again, gives up over a newer change
  set that became unreadable leaves the older one half taken back under an entry
  that still says "applied" (`swarm_work.py:1633`); `JournalIsTrue` names that case. The journal of a
  recovered run is final before the notice about its conflicts is saved
  (`swarm_work.py:1951`), so a run that stops early loses that notice.

## 5. What is proved

Assumptions are the named `ASSUME`s of the modules: `Shared` and `Overlaps` are
symmetric (two paths overlap when one contains the other), the file plan is not
empty, names of things and "none" differ, the counters are natural numbers.
There is no bound on goals, files, threads, edits, requests, turns, processes,
jobs, leases or crashes. Each proof module states its inductive invariant `IInv`
as a conjunction of named parts; TLC checked the parts before they were proved.

`ProjectQueue_proofs`. `IInv` strengthens the properties with what keeps them:
each document is well formed for its status (`WellFormed`), goals are numbered in
order of creation and no two share a number (`BirthOrder`), a goal whose effects
are not settled is an owner (`WorkOwned`), overlapping owners do not exist in a
store without chats of an older version (`Exclusive`), and a waiter's blocker is
an owner that overlaps it, or did so until it became a facilitator
(`BlockersOwn`). `Exclusive` alone is not inductive: a
promotion admits several waiters at once, and they do not overlap only because
each is checked against the older waiters, which needs `BirthOrder`. From it
follow `TypeCorrect`, `OneOwner`, `WaitersNameOwners`, `UnsettledNeverReleased`
and `ReleaseHandsOver`. What a step may do to the schedulers and to the order
(`Keeps`) is a second induction over the same invariant. `OneRunner` holds of every
store: only a start makes a scheduler live, it needs a project without another
owner, and whoever runs is an owner (`WorkOwned`). For `FirstComeFirstServed`,
`PassOrder` shows that of two goals of one scope a pass that admits only one admits
the older: the rival that keeps the other waiting is that one, or a third goal
admitted in between. A start with adoptions is excepted, as in `OneOwner`: TLC shows
a chat moved to its own copy past an older one whose move failed.

`GoalEngine_proofs`. `IInv` has a part for each way in which two of the threads,
the ledger and the files rely on one another. `Place`: the lease is live exactly
while the scheduler can still work, and executors exist only in the act node.
`Row`, for every task: its entry is coherent (`Ledger`: an action is recorded only
on a task that is running, to be applied or parked; a transaction has the number of
the call it came from; a finished task has nothing open), a reply that was not
applied has landed nothing (`Unlanded`), what an executor or the batch holds is the
recorded action or is not current any more (`Executing`), and the manifest tells
what is in the files (`OnDisk`). `Written`: the task in hand is current in a goal
that runs. `Numbered`: no two tasks have the same call, and only made calls landed.
`Quiet`, `Settled` and `EveryMemberKeepsACall` complete it. `LandsOnce` shows why
all of it is needed: an action may be applied by the loop, published by a
cancellation, by Steer or by Retry, and taken up again by recovery; it lands once
because each of these needs it on its task (`Unlanded`) and leaves the task without
it (`Ledger`). Each action has a lemma; most change one task (`OneTurn`,
`EntryOnly`) or all of them in the same way (`LedgerStep`). From it: `EngineTypes`,
`OnlyCurrentRepliesWrite`, `RepliesLandOnce`, `MembersKeepTheirCalls`,
`AppliedIsOnDisk` (what counts as applied is in the files, what is unknown is
parked), `StopsHold`. `BoundariesAreKept`, `CancelledGoalsAreQuiet` and
`HalfMadeChangesStay` assume `~CrashInRollback`: without it they are false, which
is what the run `GoalHalfRolledBack` shows for the first; `AppliedIsOnDisk` is the
part that holds in spite of it.
A second invariant, `Team` and `Held`, is about agreement: only an action with
changes ever has a transaction and only a member that had a call agreed (`Honest`),
a complete goal is finished and agreed on, tasks are cancelled only with their goal
(`Ended`), and the transaction in hand belongs to the batch. From both follow
`TeamsAgree`, `ChangesReopenAgreement`, and what becomes of a transaction's changes.
`AppliedWorkIsRecorded`: a call whose transaction counts as applied has landed
nothing (`Unlanded`) and its manifest says it landed (`OnDisk`), so whichever of the
apply loop, a cancellation, Steer or Retry takes it from its task also records it;
with `RepliesLandOnce` it lands exactly once. `HalfMadeChangesStay`: a half-made
change has an open transaction (`OnDisk`) whose reply has changes (`Honest`), so no
new transaction and no reply can replace it, and cancellation, Steer and recovery
pass it by unless the rollback works.

`FileTransaction_proofs`. `IInv` says what the manifest implies about each file
at every step of every call (`UnderManifest`), which targets a call holds
(`Leases`), and which of the files nobody else touched are known to be as before,
or empty and remembered in `stuck` or in the call (`KnownBefore`). From it: `TransactionTypes`, `EditsSurvive`, `GivenUpForGood` (a
transaction that was aborted or rolled back is never applied again; a theorem
without a run of its own), and `AllOrNothingHolds`, the refinement of
`AtomicChange`: every step maps to a step of the abstract change or leaves it as
it is.

`OperationLease_proofs`. A holder has its lease row and lease rows of live claims
do not overlap (`HoldersHaveLeases`, `LeasesApart`): `WritersApart`.
It never looks at the queue, so it holds whatever happens to tickets. The second part
is about the line itself. Deleting tickets keeps some places of it, in their order:
`Keeping` is stated by the place of its k-th ticket (`Nth`), and `NthPlace` and
`NthGrows` show that those places are the ones kept and grow with k. Every step then
leaves a line whose tickets come, in order, from the one before (`LeftOf`), with
at most a new one at the end (`StepLine`), and changes of ownership go together with
where its thread is (`StepAccounted`). From it: `LeaseTypes`,
`NoTicketLeftBehind`, and `TheLineKeepsItsOrder` (two threads in line never change
places, a theorem without a run of its own). `TurnIsKept` is about one thread that
goes on polling: `KeepingKeeps` shows that a deletion spares every ticket it does not
choose, `TicketKept` that no action of anybody chooses a ticket that is live and
whose thread waits, and `StepLine` that what was behind it stays behind it; the
guard of `Admit` is the last and smallest part.

`BoardQueue_proofs`. Its first part, about the journal, says for each
transaction what it does to what is *known* of a run (`Known`: its summary is
true of its turns, and its status of both); this is stated once, for one run,
and cited for whichever handler, poll or restart performs the transaction. To
that `IInv` adds what a queue document may look like
with the anchor (`BoardOK`: the cursor separates complete goals from the others,
each with the evidence of a run that names it, and the anchor is at most one
behind), and what a handler knows by its stage (`ThreadsOK`: one that records has
a result, one that polls saw a request made for that goal). `AlwaysOpens` needs
all writers to repair before they commit; `NothingLeftInDoubt` needs the summary
to remember an unknown delivery when a later turn is acknowledged. From it:
`BoardTypes`, `GoalsCompletedInOrder`, `NoTurnInDoubt`, `BoardAlwaysOpens`,
`AStopIsFinal`.

`ResidentJobs_proofs`. `IInv` is `Typed`, `Watched`, `BeginOnce` and `Locked`.
`Watched`: a serving daemon has its eye on every running job, and between two
daemons each is in the audit that the next one carries out. `BeginOnce`: counting
starts is not inductive; the proof follows the right to begin a job's task
(`Owed`), which is handed from the queue to one lease and is only ever lost, and
shows that the worker that took it is the only one. `Locked`: one process at a
time is under the project lock (`LockHeldOnce`), a run and its row agree
(`RunsOK`), what a worker and the main loop know by where they are
(`WorkersKnow`, `DaemonKnows`), nobody else enters while a transaction is open
(`OpenAlone`), a request that will queue a job has something to resume
(`CallsKnow`), and a job that failed without its run has no worker under way
(`FailedIsOver`): without the last, a worker that ended before its checkpoint
could fail a job that another one completes. The proof looks at who may change
each variable first (`JobsChange`, `RunsChange`, ...), and then, under the lock,
at the one process that acts. From it: `ResidentTypes`, `DoneAtMostOnce`,
`RunningHasAWatcher`, `OutcomesAreTrue`, `HalfDoneWorkIsKept`.

`GoalWorkspaces_proofs`. `IInv` is `Typed`, `Copies`, `Records` and `CallKnows`.
`Copies`: every file of a copy comes from its baseline, and where it differs the
goal's agents worked on it, unless a rebase has begun that found it not to be the
goal's own (`pending.before` is its baseline) and may have replaced it; this is
what makes an interrupted rebase safe to begin again. `Records`: the changed
files of a receipt on record were made from the project's and by the goal, a
transaction has a manifest only with an intent on record, and what is on record
but not published was verified. `CallKnows` carries these facts through a call,
file by file in a rebase (`SyncKnows`) and under the leases (`WriteKnows`), while
the user edits everything else. From it: `WorkspaceTypes`, `OnlyOwnChanges`,
`NothingOverwritten`, `PublishedWasVerified`. `OwnWorkIsKept` assumes one goal in the
project (`SoleGoal`) and any number of files, edits and interruptions. Its invariant
`SoleInv` says what replaces a file of the copy: the project's version has seen
every edit of the agents that the baseline holds, or the listing an interrupted rebase began
with, and has none that the copy never had (`OwnSeen`); the version a rollback of
a publication would bring back is like that, too. With several goals it is not a
property of the rebase: the user may carry an old version of one copy into the
project by hand, and a later synchronization takes what the user chose. TLC
explored a large part of an instance with two goals and met no such case; it is not claimed.

`MutationSaga_proofs`. `CancelUndoes` rests on a chain (`Chain`): the backup of
each file of a standing transaction, and the content of each file nobody else
touched, is what was there at the start or the work of an older transaction that
stands (`Linked`). Writing, restoring, adding and dropping the newest keep it
(`ChainWrite`, `ChainAdd`, `ChainDrop`), and nothing else is ever done: `HandNewest`
says that an apply, an undo and a recovery only have the newest standing transaction
in hand, which follows from what an undo has gone through (`UndoKnows`) and from the
journal (`Journal`). When nothing stands any more, every such file is as at the
start. `GaveUp` is the same for an undo that stopped, whatever it could not read:
all that is newer is compensated, so the files hold the start or the work of the
transactions up to the one it names. `RecoveryKnows` says what a recovery knows of what it is about to write. From it: `SagaTypes`, `StopTakesBack`,
`TheJournalIsTrue`, `AppliedWorkIsKept`.

Only model-checked is liveness, which the prover does not do: `CancellationDrains`,
`TicketServed`, `GoalComesBack`, `JobsSettle`. Every invariant and action property of
a run has a theorem; `AgentWorkKept` has one for a single goal.

## 6. Not modelled

Parts of the modelled components:

* `GoalEngine`: facilitator mode (`execution_mode`, `facilitator.py`). The module, its
  runs and its theorems are about goals that are not in that mode, and say nothing
  of one that is. A facilitator goal saves each proposal in the selected project
  under the write lease; the apply loop defers a proposal that meets a busy project
  and rejects one that conflicts (`LH:10164`); a change reopens no peer (`LH:6640`);
  and it completes once its tasks are complete or cancelled, whatever the checks say
  and without any agreement (`LH:8349`). So `AgreedOnTheResult` and `ChangesReopen`
  are not true of it. `ProjectQueue` has such goals, `OperationLease` and
  `FileTransaction` what their proposals pass through.
* `GoalEngine`: reviews, delegation, hand-offs between members, protocol
  corrections, and the text of objectives and findings. What an agent says is a
  choice among the actions its reply may contain; `goal_dialogue.py` and
  `goal_closeout.py` decide which text counts as which choice.
* `FileTransaction`: `combine_applied` and the separation of hard links. `GoalEngine`,
  `GoalWorkspaces`, `ResidentJobs` and `MutationSaga` count an aborted transaction as
  files as before; the empty new file it may leave is in `FileTransaction` only.
* `OperationLease`: the callers that wrap it (`apply_proposal`, `native_turn`,
  `run_effect`) do so around one call each and are not actions of their own.
* `GoalWorkspaces`: which files belong to a copy (caches, links, dependency
  trees), and discarding a copy.
* `RunJournal`, `BoardQueue`: capacity slots, the generation lease of a board,
  integrity seals, the projections that are read, the migration of old anchors,
  and the pruning of ended queues.
* `MutationSaga`: journals of several runs at once (another live run is somebody
  else who edits files), how the owner of a journal is known to be dead, damaged
  journals (set aside), heartbeats, a recovery that cannot read a manifest (it enters
  the change set as "restored", `swarm_work.py:1924`, which `JournalIsTrue` does not
  allow for), and the passes, prompts and checks of the run.
* `ResidentJobs`: the mailbox of a job, its events, authentication, approvals,
  what the nodes of a run compute, and the cooperative interpreter of a run.

Whole components, with the reason:

* *Cancellation tokens* (`cancellation.py`): flags and callbacks inside one
  process, two short critical sections. What a stop means for the durable state is
  in `CancelledIsQuiet` and `StopIsFinal`.
* *Agent mailbox and peer delivery*: what agents read changes no state of the
  modelled parts, and it is read at least once.
* *Goal verification* runs the checks of a project; the models have that they
  pass, fail or cannot run.
* *Collaboration ledger and timers*: bookkeeping beside the engine, sharing no
  state with it.
* *Pipelines and swarms* (`swarm.py`, `swarm_chats.py`, most of `swarm_work.py` and
  of `workflow.py`): the older orchestration modes with engines of their own; the
  steps of one run that the resident jobs depend on, and what project work does
  to files, are modelled.
* *Server, command line and chat*: requests and presentation; the handler of
  `/api/swarm/say` is modelled, a control is an action of `GoalEngine`, an answer
  of a chat a choice of `BoardQueue`.
* *Provider adapters, agent runtime and tools*: processes and network calls that
  are answered, fail, or end in an unknown outcome; what happens inside a turn.
* *Desktop application; configuration, memory, e-mail and pages; `qa.py`*: user
  interface, settings, content and test harness.

Most of the repository is of the second kind: presentation, adapters, the older
modes and quality assurance, without a protocol that the modelled stores depend
on. The modelled lines are those that change the state of the stores named in
section 1, a small share of the whole.

## 7. Plan

Done, in this order: queue, goal engine, file transactions, write lease, and
their proofs; then workspaces, run journal with board queue, resident jobs, the
project-work journal, and theirs. What is left, most important first:

1. What `GoalEngine` keeps of a task's transaction (`files[t]`) as a view of
   `FileTransaction`: the two were compared by reading; what becomes of
   `files[t]` in the ledger is proved (`HalfMadeChangesStay`,
   `AppliedWorkIsRecorded`).
2. Reviews and hand-offs in `GoalEngine`: they add members whose agreement counts.
3. The agents' mailbox, and the native turns that take the write lease.
