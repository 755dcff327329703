-------------------------- MODULE GoalEngine_proofs --------------------------
(***************************************************************************)
(* Proofs about GoalEngine for any tasks, team, budget and number of       *)
(* crashes: one inductive invariant, preserved by every action, and the    *)
(* properties that follow from it.  Like the module, they are about goals  *)
(* that are not in facilitator mode.                                       *)
(***************************************************************************)
EXTENDS GoalEngine, FiniteSetTheorems, TLAPS

-----------------------------------------------------------------------------
\* The inductive invariant, by parts.

\* The scheduler's lease is live exactly while its thread can still work.
Busy == {"schedule", "act", "apply", "verify", "stopping", "failing"}
Place ==
    /\ runner.pc # "none" => up
    /\ goal.worker = "live" <=> runner.pc \in Busy
    /\ runner.pc \in Busy \ {"stopping"} => goal.status \notin Terminal
    /\ runner.pc = "recovering" => goal.status = "cancelling"
    /\ runner.pc # "act" => \A t \in Tasks : turn[t] = "idle"
    /\ runner.pc # "apply" => runner.item = None /\ runner.todo = {}

\* A cancelled goal has nobody at work and no task left to finish.
Quiet ==
    goal.status = "cancelled" =>
        /\ goal.worker = "none" /\ runner.pc \in {"none", "leaving", "handling"}
        /\ \A t \in Tasks : tasks[t].state \in Finished

\* What a ledger entry says fits together, whatever happened to the goal.
Coherent(r) ==
    /\ r.state \in {"running", "pending_apply"} => r.leased = TRUE
    /\ r.action # "none" =>
          /\ r.state \in {"running", "pending_apply", "blocked"}
          /\ r.effect = "acknowledged" /\ r.reconcile = FALSE
    /\ r.txn # "none" => r.action # "none" /\ r.txnEffect = r.effectId
    /\ r.unknown = TRUE => r.state = "blocked" /\ r.txn # "applied"
    /\ r.state \in Finished => r.reconcile = FALSE /\ r.effect = "settled"
    /\ r.state = "absent" => r.effectId = 0
Ledger(t) ==
    /\ Coherent(tasks[t])
    /\ tasks[t].claimEpoch <= goal.epoch /\ tasks[t].effectId <= goal.calls
    /\ t \in Founders => tasks[t].state # "absent"

\* A reply that was not applied has landed nothing yet.
Unlanded(t) ==
    tasks[t].action # "none" \/ turn[t] \in {"sent", "replied"} =>
        tasks[t].effectId # 0 /\ artifacts[tasks[t].effectId] = 0

\* An executor at work has recorded no action; the reply it hands over, and
\* one in the batch, is the task's recorded action or is no longer current.
Executing(t) ==
    /\ turn[t] \in {"boot", "sent", "replied"} =>
          /\ tasks[t].action = "none"
          /\ tasks[t].leased = TRUE => tasks[t].state = "running"
    /\ turn[t] \in Kinds => tasks[t].action = turn[t] \/ ~Current(t)
    /\ \A kind \in Kinds :
          <<t, kind>> \in runner.todo => tasks[t].action = kind \/ ~Current(t)

\* The manifest of a transaction tells what is in the files.
OnDisk(t) ==
    LET f == files[t] IN
    /\ f.manifest \in {"none", "closed"} => f.content = "before"
    /\ f.manifest = "applied" => f.content = "after"
    /\ tasks[t].txn = "applied" => f.manifest = "applied"
    /\ ~CrashInRollback =>
          /\ tasks[t].txn = "none" => f.content = "before"
          /\ ~up /\ tasks[t].state = "running" => f.manifest # "rolling_back"

\* The task whose files are being written.
Written ==
    runner.item # None =>
        LET r == tasks[runner.item] IN
        /\ goal.status \in {"queued", "running"}
        /\ Current(runner.item) /\ r.txn # "none"

\* Calls have numbers of their own, and only made calls have landed anything.
Numbered ==
    /\ \A t, u \in Tasks :
          t # u /\ tasks[t].effectId = tasks[u].effectId => tasks[t].effectId = 0
    /\ \A e \in 1..Budget :
          artifacts[e] <= 1 /\ (artifacts[e] > 0 => e <= goal.calls)

\* A goal is verified with nothing open.
Settled == runner.pc = "verify" => \A t \in Tasks : ~UnsettledEffect(tasks[t])

Row(t) == Ledger(t) /\ Unlanded(t) /\ Executing(t) /\ OnDisk(t)
Rows == \A t \in Tasks : Row(t)

IInv ==
    /\ TypeOK /\ Place /\ Quiet /\ Rows /\ Written /\ Numbered /\ Settled
    /\ EveryMemberKeepsACall

-----------------------------------------------------------------------------
\* Lemmas about the operators of the model and the parts of the invariant.

Goal == [status : Statuses, epoch : 1..MaxEpoch, calls : 0..Budget,
         worker : {"none", "live", "dead"}]
Phases == Busy \cup {"none", "handling", "leaving", "recovering"}
Thread == [pc : Phases, todo : SUBSET (Tasks \X Kinds), item : Tasks \cup {None},
           touched : BOOLEAN]
Executions == {"idle", "boot", "sent", "replied", "done"} \cup Kinds

\* The type invariant, by variable, before and after a step.
LEMMA Types ==
  TypeOK <=> /\ goal \in Goal /\ tasks \in [Tasks -> Task] /\ files \in [Tasks -> File]
             /\ artifacts \in [1..Budget -> Nat] /\ runner \in Thread
             /\ turn \in [Tasks -> Executions]
             /\ up \in BOOLEAN /\ crashes \in 0..MaxCrashes
<1>1. Phases = {"none", "schedule", "act", "apply", "verify", "stopping",
                "failing", "handling", "leaving", "recovering"}
  BY DEF Phases, Busy
<1> QED BY <1>1 DEF TypeOK, Goal, Thread, Executions

LEMMA TypesNext ==
  TypeOK' <=> /\ goal' \in Goal /\ tasks' \in [Tasks -> Task] /\ files' \in [Tasks -> File]
              /\ artifacts' \in [1..Budget -> Nat] /\ runner' \in Thread
              /\ turn' \in [Tasks -> Executions]
              /\ up' \in BOOLEAN /\ crashes' \in 0..MaxCrashes
<1>1. Phases = {"none", "schedule", "act", "apply", "verify", "stopping",
                "failing", "handling", "leaving", "recovering"}
  BY DEF Phases, Busy
<1> QED BY <1>1 DEF TypeOK, Goal, Thread, Executions

LEMMA Counters ==
  ASSUME TypeOK
  PROVE  /\ goal.epoch \in Nat /\ goal.calls \in Nat /\ goal.epoch >= goal.epoch
         /\ goal.calls >= goal.calls
<1> QED BY EngineAssumption, Types DEF Goal

\* A task that loses its lease keeps the rest of its entry.
LEMMA Freed ==
  ASSUME NEW r \in Task
  PROVE  /\ WithoutLease(r) \in Task /\ WithoutLease(r).effectId = r.effectId
         /\ WithoutLease(r).claimEpoch = r.claimEpoch /\ WithoutLease(r).action = r.action
         /\ WithoutLease(r).txn = r.txn /\ WithoutLease(r).unknown = r.unknown
         /\ WithoutLease(r).state = r.state /\ WithoutLease(r).leased = FALSE
<1> QED BY DEF WithoutLease, Task

\* A thread that begins a phase has no batch, no transaction in hand, and has
\* not seen a control.
LEMMA Begins ==
  ASSUME NEW pc \in Phases
  PROVE  /\ At(pc).pc = pc /\ At(pc).todo = {} /\ At(pc).item = None
         /\ At(pc).touched = FALSE /\ At(pc) \in Thread
<1>1. /\ Idle.pc = "none" /\ Idle.todo = {} /\ Idle.item = None /\ Idle.touched = FALSE
      /\ Idle \in [pc : {"none"}, todo : {{}}, item : {None}, touched : {FALSE}]
  BY DEF Idle
<1>2. At(pc) = [Idle EXCEPT !.pc = pc]
  BY DEF At
<1> QED BY <1>1, <1>2 DEF Thread

LEMMA IdleThread ==
  /\ Idle.pc = "none" /\ Idle.todo = {} /\ Idle.item = None /\ Idle.touched = FALSE
  /\ Idle \in Thread
<1>1. /\ Idle.pc = "none" /\ Idle.todo = {} /\ Idle.item = None /\ Idle.touched = FALSE
      /\ Idle \in [pc : {"none"}, todo : {{}}, item : {None}, touched : {FALSE}]
  BY DEF Idle
<1> QED BY <1>1 DEF Thread, Phases

\* The calls kept for members do not change while nobody is dispatched.
LEMMA CallsKept ==
  ASSUME EveryMemberKeepsACall, goal'.calls = goal.calls,
         \A t \in Tasks : Required(t) => (tasks'[t].effectId = 0 <=> tasks[t].effectId = 0)
  PROVE  EveryMemberKeepsACall'
<1>1. NeverDispatched' = NeverDispatched
  BY DEF NeverDispatched, Required
<1> QED BY <1>1 DEF EveryMemberKeepsACall

\* A task nobody touched keeps its row of the invariant, also in a later epoch.
LEMMA RowKept ==
  ASSUME TypeOK, TypeOK', Rows, NEW t \in Tasks,
         tasks'[t] = tasks[t], files'[t] = files[t], turn'[t] \in {turn[t], "idle"},
         goal'.epoch >= goal.epoch, goal'.calls >= goal.calls,
         tasks[t].effectId # 0
             => artifacts'[tasks[t].effectId] = artifacts[tasks[t].effectId],
         \A kind \in Kinds : <<t, kind>> \in runner'.todo
             => <<t, kind>> \in runner.todo \/ tasks[t].action = kind \/ ~Current(t),
         up' \/ (tasks[t].state = "running" => files[t].manifest # "rolling_back")
  PROVE  Row(t)'
<1> USE DEF Rows, Row
<1>1. goal.epoch \in Nat /\ goal'.epoch \in Nat /\ tasks[t] \in Task /\ tasks[t].claimEpoch \in Nat
      /\ goal.calls \in Nat /\ goal'.calls \in Nat /\ tasks[t].effectId \in Nat
  <2>1. goal \in Goal /\ goal' \in Goal /\ tasks[t] \in Task
    BY Types, TypesNext
  <2>2. goal.epoch \in Nat /\ goal'.epoch \in Nat /\ goal.calls \in Nat /\ goal'.calls \in Nat
    BY <2>1, EngineAssumption DEF Goal
  <2>3. tasks[t].claimEpoch \in Nat /\ tasks[t].effectId \in Nat
    BY <2>1, EngineAssumption DEF Task
  <2> QED BY <2>1, <2>2, <2>3
<1>2. Ledger(t)'
  BY <1>1 DEF Ledger
<1>3. Unlanded(t)'
  BY DEF Unlanded
<1>4. Current(t)' => Current(t)
  BY <1>1 DEF Current, Ledger
<1>5. Executing(t)'
  BY <1>4 DEF Executing, Kinds
<1>6. OnDisk(t)'
  BY DEF OnDisk, TypeOK
<1> QED BY <1>2, <1>3, <1>5, <1>6

\* A step of the scheduler thread alone.
LEMMA ThreadOnly ==
  ASSUME IInv, UNCHANGED <<goal, tasks, files, artifacts, turn, up, crashes>>,
         up, runner' \in Thread,
         runner'.pc \in Busy <=> runner.pc \in Busy, runner'.pc # "recovering",
         runner'.pc \in Busy \ {"stopping"} => goal.status \notin Terminal,
         runner.pc # "act",
         runner'.pc # "apply" => runner'.item = None /\ runner'.todo = {},
         runner'.item \in {None, runner.item},
         goal.status = "cancelled" => runner'.pc \in {"none", "leaving", "handling"},
         \A t \in Tasks, kind \in Kinds : <<t, kind>> \in runner'.todo
             => <<t, kind>> \in runner.todo \/ tasks[t].action = kind \/ ~Current(t),
         runner'.pc = "verify" => \A t \in Tasks : ~UnsettledEffect(tasks[t])
  PROVE  IInv'
<1> USE DEF IInv
<1>1. TypeOK'
  BY Types, TypesNext
<1>2. Place' /\ Quiet'
  BY DEF Place, Quiet
<1>3. ASSUME NEW t \in Tasks PROVE Row(t)'
  BY <1>1, RowKept, Counters
<1>4. Written'
  BY DEF Written, Current
<1>5. Numbered' /\ Settled'
  BY DEF Numbered, Settled
<1>6. EveryMemberKeepsACall'
  BY CallsKept
<1> QED BY <1>1, <1>2, <1>3, <1>4, <1>5, <1>6 DEF Rows

-----------------------------------------------------------------------------
\* The scheduler's own steps keep the invariant.

LEMMA ScheduleEndKeeps ==
  ASSUME IInv, ScheduleEnd
  PROVE  IInv'
<1>1. "stopping" \in Phases /\ "stopping" \in Busy /\ runner.pc \in Busy /\ goal.status # "cancelled"
  BY DEF Phases, Busy, ScheduleEnd, Scheduling, IInv, Place, Terminal
<1> QED BY <1>1, Begins, ThreadOnly DEF ScheduleEnd, Scheduling

LEMMA ScheduleApplyKeeps ==
  ASSUME IInv, ScheduleApply
  PROVE  IInv'
<1>1. "apply" \in Phases /\ "apply" \in Busy /\ runner.pc \in Busy /\ goal.status \notin Terminal
      /\ goal.status # "cancelled"
  BY DEF Phases, Busy, ScheduleApply, Scheduling, Runnable, Terminal
<1>2. /\ runner' \in Thread /\ runner'.pc = "apply" /\ runner'.item = None
      /\ runner'.todo = {<<t, tasks[t].action>> : t \in Deferred}
  <2>1. \A t \in Deferred : t \in Tasks /\ tasks[t].action \in Kinds
    BY Types DEF IInv, Deferred, InState, Task, Pending
  <2> DEFINE batch == {<<t, tasks[t].action>> : t \in Deferred}
  <2>2. batch \in SUBSET (Tasks \X Kinds)
    BY <2>1
  <2>3. runner' = [At("apply") EXCEPT !.todo = batch]
    BY DEF ScheduleApply
  <2> HIDE DEF batch
  <2>4. At("apply") \in Thread /\ At("apply").pc = "apply" /\ At("apply").item = None
    BY <1>1, Begins
  <2>5. runner' \in Thread /\ runner'.pc = "apply" /\ runner'.item = None /\ runner'.todo = batch
    BY <2>2, <2>3, <2>4 DEF Thread
  <2> QED BY <2>5 DEF batch
<1>3. \A t \in Tasks, kind \in Kinds : <<t, kind>> \in runner'.todo => tasks[t].action = kind
  BY <1>2
<1> QED BY <1>1, <1>2, <1>3, ThreadOnly DEF ScheduleApply, Scheduling

LEMMA ScheduleVerifyKeeps ==
  ASSUME IInv, ScheduleVerify
  PROVE  IInv'
<1>1. "verify" \in Phases /\ "verify" \in Busy /\ runner.pc \in Busy /\ goal.status \notin Terminal
      /\ goal.status # "cancelled"
  BY DEF Phases, Busy, ScheduleVerify, Scheduling, Runnable, Terminal
<1>2. ASSUME NEW t \in Tasks PROVE ~UnsettledEffect(tasks[t])
  <2>1. tasks[t].state \in Finished /\ tasks[t] \in Task /\ Coherent(tasks[t])
    BY Types DEF IInv, Rows, Row, Ledger, ScheduleVerify, AllFinished, InState
  <2> QED BY <2>1 DEF Coherent, Finished, UnsettledEffect, Task
<1> QED BY <1>1, <1>2, Begins, ThreadOnly DEF ScheduleVerify, Scheduling

LEMMA ApplySkipsKeeps ==
  ASSUME IInv, NEW k \in Tasks, ApplySkips(k)
  PROVE  IInv'
<1>1. /\ runner' \in Thread /\ runner'.pc = runner.pc /\ runner'.item = runner.item
      /\ runner'.todo \subseteq runner.todo
  BY Types DEF IInv, ApplySkips, Taken, Thread
<1> QED BY <1>1, ThreadOnly DEF ApplySkips, Choosing, Applying, IInv, Place, Quiet

LEMMA ApplyRaisesKeeps ==
  ASSUME IInv, NEW k \in Tasks, ApplyRaises(k)
  PROVE  IInv'
<1>1. "failing" \in Phases /\ "failing" \in Busy /\ runner.pc = "apply" /\ "apply" \in Busy
      /\ goal.status \notin Terminal /\ goal.status # "cancelled"
  BY DEF Phases, Busy, ApplyRaises, Applicable, Choosing, Applying, Terminal, IInv, Place
<1> QED BY <1>1, Begins, ThreadOnly DEF ApplyRaises, Applicable, Choosing, Applying

LEMMA ApplyDoneKeeps ==
  ASSUME IInv, ApplyDone
  PROVE  IInv'
<1>1. runner.pc = "apply" /\ "apply" \in Busy /\ "schedule" \in Busy /\ "stopping" \in Busy
      /\ goal.status \notin Terminal /\ goal.status # "cancelled"
  BY DEF Phases, Busy, ApplyDone, Choosing, Applying, Terminal, IInv, Place
<1>2. PICK pc \in {"schedule", "stopping"} : pc \in Phases /\ pc \in Busy /\ runner' = At(pc)
  BY <1>1 DEF ApplyDone, Phases
<1> QED BY <1>1, <1>2, Begins, ThreadOnly DEF ApplyDone, Choosing, Applying

LEMMA ThreadEndsKeeps ==
  ASSUME IInv, ThreadEnds
  PROVE  IInv'
<1>1. "none" \notin Busy /\ "leaving" \notin Busy
  BY DEF Busy
<1> QED BY <1>1, IdleThread, ThreadOnly DEF ThreadEnds

-----------------------------------------------------------------------------
\* The file transaction of the task in hand.

LEMMA FilesOnly ==
  ASSUME IInv, NEW k \in Tasks, NEW f \in File, InHand(k),
         files' = [files EXCEPT ![k] = f],
         UNCHANGED <<goal, tasks, artifacts, turn, up, crashes>>,
         runner' = runner \/ runner' = At("failing"),
         f.manifest \in {"none", "closed"} => f.content = "before",
         f.manifest = "applied" => f.content = "after",
         tasks[k].txn = "applied" => f.manifest = "applied"
  PROVE  IInv'
<1> USE DEF IInv
<1>1. /\ up /\ runner.pc = "apply" /\ runner.item = k /\ tasks[k].txn # "none"
      /\ goal.status \notin Terminal /\ goal.status # "cancelled" /\ k # None
  BY EngineAssumption DEF InHand, Applying, Written, Terminal
<1>2. /\ runner' \in Thread /\ runner'.pc \in {"apply", "failing"}
      /\ runner'.item \in {None, runner.item} /\ runner'.todo \subseteq runner.todo
      /\ runner'.pc # "apply" => runner'.item = None /\ runner'.todo = {}
      /\ {"apply", "failing"} \subseteq Busy
  BY <1>1, Types, Begins DEF Phases, Busy, Place
<1>3. TypeOK'
  BY <1>2, Types, TypesNext
<1>4. Place' /\ Quiet'
  BY <1>1, <1>2 DEF Place, Quiet
<1>5. ASSUME NEW t \in Tasks PROVE Row(t)'
  <2>1. CASE t # k
    BY <1>1, <1>2, <1>3, <2>1, RowKept, Counters, Types
  <2>2. CASE t = k
    <3>1. files'[t] = f
      BY <2>2, Types
    <3>2. Ledger(t) /\ Unlanded(t) /\ Executing(t)
      BY DEF Rows, Row
    <3>3. Ledger(t)' /\ Unlanded(t)' /\ Executing(t)'
      BY <1>2, <3>2 DEF Ledger, Unlanded, Executing, Current
    <3>4. OnDisk(t)'
      BY <1>1, <2>2, <3>1 DEF OnDisk
    <3> QED BY <3>3, <3>4 DEF Row
  <2> QED BY <2>1, <2>2
<1>6. Written' /\ Numbered' /\ Settled'
  BY <1>2 DEF Written, Numbered, Settled, Current
<1>7. EveryMemberKeepsACall'
  BY CallsKept
<1> QED BY <1>3, <1>4, <1>5, <1>6, <1>7 DEF Rows

LEMMA FileFacts ==
  ASSUME TypeOK, Rows, NEW k \in Tasks
  PROVE  /\ files[k] \in File /\ OnDisk(k)
         /\ \A state \in {"none", "prepared", "applied", "rolling_back", "closed"} :
               /\ Manifest(k, state) \in File /\ Manifest(k, state).manifest = state
               /\ Manifest(k, state).content = files[k].content
         /\ \A part \in {"before", "partial", "torn", "after"} :
               /\ Content(k, part) \in File /\ Content(k, part).content = part
               /\ Content(k, part).manifest = files[k].manifest
<1> QED BY Types DEF Rows, Row, Manifest, Content, File

LEMMA WriteManifestKeeps ==
  ASSUME IInv, NEW k \in Tasks, WriteManifest(k)
  PROVE  IInv'
<1> QED BY FileFacts, FilesOnly DEF IInv, WriteManifest, FileStep, OnDisk

LEMMA ReplaceKeeps ==
  ASSUME IInv, NEW k \in Tasks, Replace(k)
  PROVE  IInv'
<1>1. PICK part \in {"torn", "partial", "after"} :
        files[k].manifest = "prepared" /\ FileStep(k, Content(k, part))
  BY DEF Replace
<1> QED BY <1>1, FileFacts, FilesOnly DEF IInv, Replace, FileStep, OnDisk

LEMMA CommitKeeps ==
  ASSUME IInv, NEW k \in Tasks, Commit(k)
  PROVE  IInv'
<1> QED BY FileFacts, FilesOnly DEF IInv, Commit, FileStep, OnDisk

LEMMA ApplyAbortsKeeps ==
  ASSUME IInv, NEW k \in Tasks, ApplyAborts(k)
  PROVE  IInv'
<1>1. PICK f \in File : /\ files' = [files EXCEPT ![k] = f] /\ f.content = "before"
                        /\ f.manifest \in {"none", "closed"}
  <2>1. CASE files[k].manifest = "prepared"
    BY <2>1, FileFacts DEF IInv, ApplyAborts
  <2>2. CASE files[k].manifest # "prepared"
    BY <2>2, FileFacts DEF IInv, ApplyAborts
  <2> QED BY <2>1, <2>2
<1>2. tasks[k].txn # "applied"
  BY FileFacts DEF IInv, ApplyAborts, OnDisk
<1> QED BY <1>1, <1>2, FilesOnly DEF ApplyAborts

LEMMA ApplyFailsKeeps ==
  ASSUME IInv, NEW k \in Tasks, ApplyFails(k)
  PROVE  IInv'
<1> QED BY FileFacts, FilesOnly DEF IInv, ApplyFails, FileStep, OnDisk

LEMMA AutomaticRollbackKeeps ==
  ASSUME IInv, NEW k \in Tasks, AutomaticRollback(k)
  PROVE  IInv'
<1>1. RolledBack \in File /\ RolledBack.manifest = "closed" /\ RolledBack.content = "before"
  BY DEF RolledBack, File
<1>2. PICK f \in {files[k], RolledBack} : files' = [files EXCEPT ![k] = f]
  <2>1. files = [files EXCEPT ![k] = files[k]]
    BY Types DEF IInv
  <2> QED BY <2>1 DEF AutomaticRollback
<1> QED BY <1>1, <1>2, FileFacts, FilesOnly DEF IInv, AutomaticRollback, OnDisk

-----------------------------------------------------------------------------
\* The turn of one agent.  Its task ends the step as r, its executor as v.

LEMMA OneTurn ==
  ASSUME IInv, NEW k \in Tasks, NEW r \in Task, NEW v \in Executions, NEW g \in Goal,
         up, runner.pc = "act", turn[k] \in {"boot", "sent", "replied"},
         tasks' = [tasks EXCEPT ![k] = r], turn' = [turn EXCEPT ![k] = v], goal' = g,
         UNCHANGED <<files, artifacts, runner, up, crashes>>,
         g.epoch = goal.epoch, g.worker = goal.worker, g.status \notin Terminal,
         \/ v # "sent" /\ g.calls = goal.calls /\ r.effectId = tasks[k].effectId
         \/ /\ v = "sent" /\ g.calls = goal.calls + 1 /\ r.effectId = g.calls
            /\ EveryMemberKeepsACall',
         Coherent(r), k \in Founders => r.state # "absent", r.claimEpoch = tasks[k].claimEpoch,
         r.txn = "none",
         v \in {"boot", "sent", "replied"} =>
             r.action = "none" /\ (r.leased = TRUE => r.state = "running"),
         v = "replied" => turn[k] = "sent",
         v \in Kinds => r.action = v,
         r.action # "none" => v \in Kinds /\ turn[k] = "replied"
  PROVE  IInv'
<1> USE DEF IInv
<1>1. TypeOK'
  BY Types, TypesNext
<1>2. /\ goal.epoch \in Nat /\ goal.calls \in Nat /\ g.calls \in Nat /\ g.calls >= goal.calls
      /\ \A t \in Tasks : tasks[t].effectId \in 0..goal.calls
      /\ \A e \in 1..Budget : artifacts[e] \in Nat
      /\ g.calls \in 0..Budget /\ Budget \in Nat /\ r.effectId \in 0..Budget
  <2>1. Budget \in Nat /\ g.calls \in 0..Budget /\ r.effectId \in 0..Budget
        /\ goal.calls \in 0..Budget /\ goal.epoch \in Nat
    BY Types, EngineAssumption DEF Goal, Task
  <2>2. ASSUME NEW t \in Tasks PROVE tasks[t].effectId \in 0..goal.calls
    <3>1. tasks[t] \in Task /\ Ledger(t)
      BY Types DEF Rows, Row
    <3> QED BY <2>1, <3>1 DEF Ledger, Task
  <2> QED BY <2>1, <2>2, Types
<1>3. tasks'[k] = r /\ turn'[k] = v
      /\ \A t \in Tasks : t # k => tasks'[t] = tasks[t] /\ turn'[t] = turn[t]
  BY Types
<1>4. Place' /\ Quiet' /\ Written' /\ Settled'
  BY <1>3 DEF Place, Quiet, Written, Settled, Terminal
<1>5. ASSUME NEW t \in Tasks PROVE Row(t)'
  <2>1. CASE t # k
    BY <1>1, <1>2, <1>3, <2>1, RowKept, Counters
  <2>2. CASE t = k
    <3>1. Ledger(k) /\ Unlanded(k) /\ Executing(k) /\ OnDisk(k)
      BY DEF Rows, Row
    <3>2. Ledger(k)'
      BY <1>2, <1>3, <3>1 DEF Ledger
    <3>3. Unlanded(k)'
      <4>1. CASE v = "sent"
        <5>1. artifacts[g.calls] = 0
          BY <1>2, <4>1 DEF Numbered
        <5> QED BY <1>2, <1>3, <4>1, <5>1 DEF Unlanded
      <4>2. CASE v # "sent"
        BY <1>3, <3>1, <4>2 DEF Unlanded, Kinds
      <4> QED BY <4>1, <4>2
    <3>4. Executing(k)'
      BY <1>3 DEF Executing, Place
    <3>5. OnDisk(k)'
      BY <1>3, <3>1 DEF OnDisk, Executing, Ledger, Coherent
    <3> QED BY <2>2, <3>2, <3>3, <3>4, <3>5 DEF Row
  <2> QED BY <2>1, <2>2
<1>6. Numbered'
  <2>1. ASSUME NEW t \in Tasks, NEW u \in Tasks, t # u,
               tasks'[t].effectId = tasks'[u].effectId
        PROVE  tasks'[t].effectId = 0
    BY <1>2, <1>3, <2>1 DEF Numbered
  <2>2. \A e \in 1..Budget : artifacts'[e] <= 1 /\ (artifacts'[e] > 0 => e <= g.calls)
    BY <1>2 DEF Numbered
  <2> QED BY <2>1, <2>2 DEF Numbered
<1>7. EveryMemberKeepsACall'
  BY <1>3, CallsKept
<1> QED BY <1>1, <1>4, <1>5, <1>6, <1>7 DEF Rows

\* Before: an executor at work has no action and no transaction, and its task
\* runs if it still holds the lease.
LEMMA AtWork ==
  ASSUME IInv, NEW k \in Tasks, Turn(k, {"boot", "sent", "replied"})
  PROVE  /\ up /\ runner.pc = "act" /\ turn[k] \in {"boot", "sent", "replied"}
         /\ tasks[k] \in Task /\ goal \in Goal /\ goal.status \notin Terminal
         /\ Coherent(tasks[k]) /\ tasks[k].action = "none" /\ tasks[k].txn = "none"
         /\ tasks[k].leased = TRUE => tasks[k].state = "running"
         /\ tasks = [tasks EXCEPT ![k] = tasks[k]]
         /\ "done" \in Executions /\ "sent" \in Executions /\ "replied" \in Executions
         /\ "boot" \in Executions /\ "done" \notin Kinds /\ Kinds \subseteq Executions
<1> USE DEF IInv
<1>1. up /\ runner.pc = "act" /\ turn[k] \in {"boot", "sent", "replied"}
  BY DEF Turn
<1>2. goal.status \notin Terminal
  BY <1>1 DEF Place, Busy
<1>3. Ledger(k) /\ Executing(k)
  BY DEF Rows, Row
<1> QED BY <1>1, <1>2, <1>3, Types DEF Ledger, Executing, Coherent, Executions, Kinds

\* A turn that is over: its task was let alone, or waits to be tried again or
\* decided about.
LEMMA TurnOver ==
  ASSUME IInv, NEW k \in Tasks, NEW r \in Task, NEW g \in Goal,
         Turn(k, {"boot", "sent", "replied"}), EndsTurn(k, "done"),
         tasks' = [tasks EXCEPT ![k] = r], goal' = g,
         g.epoch = goal.epoch, g.worker = goal.worker, g.calls = goal.calls,
         g.status \notin Terminal,
         \/ r = tasks[k]
         \/ /\ r.effectId = tasks[k].effectId /\ r.claimEpoch = tasks[k].claimEpoch
            /\ r.action = "none" /\ r.txn = "none" /\ r.state \in {"ready", "blocked"}
            /\ r.unknown = TRUE => r.state = "blocked"
  PROVE  IInv'
<1>1. Coherent(r) /\ r.action = "none" /\ r.txn = "none" /\ r.effectId = tasks[k].effectId
      /\ r.claimEpoch = tasks[k].claimEpoch
  <2>1. CASE r = tasks[k]
    BY <2>1, AtWork
  <2>2. CASE r # tasks[k]
    BY <2>2 DEF Coherent, Finished
  <2> QED BY <2>1, <2>2
<1>2. k \in Founders => r.state # "absent"
  BY DEF IInv, Rows, Row, Ledger
<1>3. UNCHANGED <<files, artifacts, runner, up, crashes>> /\ turn' = [turn EXCEPT ![k] = "done"]
  BY DEF EndsTurn
<1> QED BY <1>1, <1>2, <1>3, AtWork, OneTurn

LEMMA StatusOnly ==
  ASSUME TypeOK, NEW s \in Statuses \ Terminal
  PROVE  LET g == [goal EXCEPT !.status = s] IN
         /\ g \in Goal /\ g.status = s /\ g.status \notin Terminal
         /\ g.epoch = goal.epoch /\ g.worker = goal.worker /\ g.calls = goal.calls
<1> QED BY Types DEF Goal

LEMMA SameGoal ==
  ASSUME TypeOK
  PROVE  goal = [goal EXCEPT !.status = goal.status]
<1> QED BY Types DEF Goal

LEMMA StatusAfter ==
  ASSUME TypeOK, goal.status \notin Terminal, NEW S, NEW d
  PROVE  /\ Unless(S, "paused") \in Statuses \ Terminal
         /\ Unless(S, "queued") \in Statuses \ Terminal
         /\ TeamStatus(d) \in Statuses \ Terminal
         /\ goal.status \in Statuses \ Terminal
<1> QED BY Types DEF Unless, TeamStatus, Statuses, Terminal, Goal

\* fail_task leaves a task that lost its lease alone; otherwise the task is
\* ready for another agent or blocked, and is blocked if its outcome is unknown.
LEMMA FailedTask ==
  ASSUME IInv, NEW k \in Tasks, Turn(k, {"boot", "sent", "replied"}),
         NEW uncertain \in BOOLEAN, NEW failover \in BOOLEAN, NEW settle \in BOOLEAN,
         FailTask(k, uncertain, failover, settle), EndsTurn(k, "done")
  PROVE  IInv'
<1> DEFINE received == tasks[k].effect \in {"reply_received", "reconciliation_required"}
           failed == [WithoutLease(tasks[k]) EXCEPT
               !.state = "blocked", !.unknown = uncertain, !.reconcile = @ \/ received,
               !.effect = IF uncertain THEN "outcome_unknown"
                          ELSE IF received THEN "known_reply_failed" ELSE "settled"]
           again == [failed EXCEPT !.state = "ready", !.effect = "settled"]
<1>0. \E rec \in BOOLEAN, e \in EffectStates :
          failed = [WithoutLease(tasks[k]) EXCEPT
                       !.state = "blocked", !.unknown = uncertain,
                       !.reconcile = rec, !.effect = e]
  <2>1. tasks[k].reconcile \in BOOLEAN /\ WithoutLease(tasks[k]).reconcile \in BOOLEAN
    BY AtWork DEF Task, WithoutLease
  <2>2. (WithoutLease(tasks[k]).reconcile \/ received) \in BOOLEAN
    BY <2>1
  <2>3. (IF uncertain THEN "outcome_unknown"
         ELSE IF received THEN "known_reply_failed" ELSE "settled") \in EffectStates
    BY DEF EffectStates
  <2> QED BY <2>2, <2>3, Zenon
<1> HIDE DEF failed
<1>1. /\ failed \in Task /\ failed.effectId = tasks[k].effectId
      /\ failed.claimEpoch = tasks[k].claimEpoch /\ failed.action = "none"
      /\ failed.txn = "none" /\ failed.state = "blocked" /\ failed.unknown = uncertain
  <2> DEFINE w == WithoutLease(tasks[k])
  <2>0. tasks[k] \in Task /\ tasks[k].action = "none" /\ tasks[k].txn = "none"
    BY AtWork
  <2>1. /\ w \in Task /\ w.effectId = tasks[k].effectId
        /\ w.claimEpoch = tasks[k].claimEpoch /\ w.action = "none" /\ w.txn = "none"
    BY <2>0, Freed
  <2> HIDE DEF w
  <2>2. PICK rec \in BOOLEAN, e \in EffectStates :
            failed = [w EXCEPT !.state = "blocked", !.unknown = uncertain,
                               !.reconcile = rec, !.effect = e]
    BY <1>0 DEF w
  <2> QED BY <2>1, <2>2 DEF Task, TaskStates
<1>2. /\ again \in Task /\ again.effectId = tasks[k].effectId
      /\ again.claimEpoch = tasks[k].claimEpoch /\ again.action = "none"
      /\ again.txn = "none" /\ again.state = "ready" /\ again.unknown = uncertain
  BY <1>1 DEF Task, EffectStates, TaskStates
<1>3. CASE UNCHANGED <<goal, tasks>>
  BY <1>3, AtWork, TurnOver
<1>4. CASE ~uncertain /\ tasks' = [tasks EXCEPT ![k] = again]
           /\ goal' = [goal EXCEPT !.status = Unless(Stopped, "queued")]
  BY <1>2, <1>4, AtWork, StatusOnly, StatusAfter, TurnOver DEF IInv
<1>5. CASE /\ tasks' = [tasks EXCEPT ![k] = failed]
           /\ \E s \in Statuses \ Terminal : goal' = [goal EXCEPT !.status = s]
  BY <1>1, <1>5, AtWork, StatusOnly, TurnOver DEF IInv
<1>6. \/ UNCHANGED <<goal, tasks>>
      \/ ~uncertain /\ tasks' = [tasks EXCEPT ![k] = again]
         /\ goal' = [goal EXCEPT !.status = Unless(Stopped, "queued")]
      \/ /\ tasks' = [tasks EXCEPT ![k] = failed]
         /\ \/ goal' = [goal EXCEPT !.status = TeamStatus([tasks EXCEPT ![k] = failed])]
            \/ goal' = [goal EXCEPT !.status = Unless(Stopped, "paused")]
  BY DEF FailTask, failed
<1> QED BY <1>3, <1>4, <1>5, <1>6, AtWork, StatusAfter DEF IInv

\* A reply that must wait goes back to the ledger with nothing lost.
LEMMA DeferredTask ==
  ASSUME IInv, NEW k \in Tasks, Turn(k, {"boot", "sent", "replied"}),
         DeferContinuation(k), EndsTurn(k, "done")
  PROVE  IInv'
<1> DEFINE w == WithoutLease(tasks[k])
           r == [w EXCEPT !.state = "ready"]
<1>1. /\ r \in Task /\ r.effectId = tasks[k].effectId /\ r.claimEpoch = tasks[k].claimEpoch
      /\ r.action = "none" /\ r.txn = "none" /\ r.state = "ready"
      /\ r.unknown = tasks[k].unknown
  <2>0. tasks[k] \in Task /\ tasks[k].action = "none" /\ tasks[k].txn = "none"
    BY AtWork
  <2>1. /\ w \in Task /\ w.effectId = tasks[k].effectId /\ w.claimEpoch = tasks[k].claimEpoch
        /\ w.action = "none" /\ w.txn = "none" /\ w.unknown = tasks[k].unknown
    BY <2>0, Freed
  <2> HIDE DEF w
  <2> QED BY <2>1 DEF Task, TaskStates
<1>2. CASE tasks[k].leased = TRUE
  <2>1. r.unknown # TRUE
    BY <1>1, <1>2, AtWork DEF Coherent
  <2>2. tasks' = [tasks EXCEPT ![k] = r] /\ goal' = goal
    BY <1>2, AtWork DEF DeferContinuation
  <2> HIDE DEF r
  <2> QED BY <1>1, <2>1, <2>2, AtWork, TurnOver
<1>3. CASE tasks[k].leased # TRUE
  <2>1. tasks' = [tasks EXCEPT ![k] = tasks[k]] /\ goal' = goal
    BY <1>3, AtWork DEF DeferContinuation, Task
  <2> QED BY <2>1, AtWork, TurnOver
<1> QED BY <1>2, <1>3

\* An executor lets its task alone.
LEMMA LeftAlone ==
  ASSUME IInv, NEW k \in Tasks, Turn(k, {"boot", "sent", "replied"}),
         UNCHANGED <<goal, tasks>>, EndsTurn(k, "done")
  PROVE  IInv'
<1> QED BY AtWork, TurnOver

LEMMA ContinuationRouteKeeps ==
  ASSUME IInv, NEW k \in Tasks, ContinuationRoute(k)
  PROVE  IInv'
<1>1. Turn(k, {"boot", "sent", "replied"}) /\ EndsTurn(k, "done")
  BY DEF ContinuationRoute, Turn
<1> QED BY <1>1, DeferredTask, LeftAlone DEF ContinuationRoute

LEMMA RecordDispatchKeeps ==
  ASSUME IInv, NEW k \in Tasks, RecordDispatch(k)
  PROVE  IInv'
<1> DEFINE r == [tasks[k] EXCEPT !.effect = "dispatched", !.effectId = goal.calls + 1]
           g == [goal EXCEPT !.calls = @ + 1]
<1>1. Turn(k, {"boot", "sent", "replied"}) /\ EndsTurn(k, "sent")
  BY DEF RecordDispatch, Turn
<1>2. /\ Budget \in Nat /\ goal.calls \in Nat /\ goal.calls + 1 \in 0..Budget
      /\ HoldsLease(k) /\ ~Reserved(k)
  <2>1. Budget \in Nat /\ goal.calls \in 0..Budget
    BY <1>1, EngineAssumption, AtWork DEF Goal
  <2>2. goal.calls < Budget /\ HoldsLease(k) /\ ~Reserved(k)
    BY DEF RecordDispatch, Admitted
  <2> QED BY <2>1, <2>2
<1>3. /\ r \in Task /\ r.effectId = goal.calls + 1 /\ r.claimEpoch = tasks[k].claimEpoch
      /\ r.action = "none" /\ r.txn = "none" /\ r.state = "running"
      /\ r.unknown = tasks[k].unknown /\ r.leased = TRUE
  <2> DEFINE n == goal.calls + 1
  <2>1. n \in 0..Budget
    BY <1>2
  <2> HIDE DEF n
  <2>2. tasks[k] \in Task /\ tasks[k].leased = TRUE /\ tasks[k].state = "running"
    BY <1>1, <1>2, AtWork DEF HoldsLease, Task
  <2>3. "dispatched" \in EffectStates /\ tasks[k].action = "none" /\ tasks[k].txn = "none"
    BY <1>1, AtWork DEF EffectStates
  <2>4. r = [tasks[k] EXCEPT !.effect = "dispatched", !.effectId = n]
    BY DEF n
  <2>5. /\ r \in Task /\ r.effectId = n /\ r.claimEpoch = tasks[k].claimEpoch
        /\ r.action = "none" /\ r.txn = "none" /\ r.state = "running"
        /\ r.unknown = tasks[k].unknown /\ r.leased = TRUE
    BY <2>1, <2>2, <2>3, <2>4 DEF Task
  <2> QED BY <2>5 DEF n
<1>4. /\ g \in Goal /\ g.calls = goal.calls + 1 /\ g.status = goal.status
      /\ g.epoch = goal.epoch /\ g.worker = goal.worker
  BY <1>1, <1>2, AtWork DEF Goal
<1>5. tasks' = [tasks EXCEPT ![k] = r] /\ goal' = g
  <2>1. /\ goal' = [goal EXCEPT !.calls = @ + 1]
        /\ tasks' = [tasks EXCEPT ![k].effect = "dispatched", ![k].effectId = goal.calls + 1]
    BY DEF RecordDispatch
  <2>2. tasks \in [Tasks -> Task]
    BY Types DEF IInv
  <2> QED BY <2>1, <2>2
<1> HIDE DEF r, g
<1>6. Coherent(r)
  <2>1. Coherent(tasks[k]) /\ tasks[k].state = "running"
    BY <1>1, <1>2, AtWork DEF HoldsLease
  <2> QED BY <1>3, <2>1 DEF Coherent, Finished
<1>7. EveryMemberKeepsACall'
  <2>1. tasks'[k].effectId # 0 /\ \A t \in Tasks : t # k => tasks'[t] = tasks[t]
    BY <1>2, <1>3, <1>5, Types DEF IInv
  <2>2. NeverDispatched' = NeverDispatched \ {k}
    BY <2>1 DEF NeverDispatched, Required
  <2>3. IsFiniteSet(NeverDispatched \ {k})
    BY EngineAssumption, FS_Subset DEF NeverDispatched
  <2>4. Cardinality(NeverDispatched \ {k}) \in Nat
    BY <2>3, FS_CardinalityType
  <2>5. RequireAll => Budget - goal.calls - 1 >= Cardinality(NeverDispatched \ {k})
    BY <1>2, <2>4 DEF Reserved
  <2>6. goal'.calls = goal.calls + 1
    BY <1>4, <1>5
  <2> DEFINE n == Cardinality(NeverDispatched \ {k})
  <2>7. RequireAll => Budget - goal'.calls >= n
    <3> HIDE DEF n
    <3>1. n \in Nat /\ (RequireAll => Budget - goal.calls - 1 >= n)
      BY <2>4, <2>5 DEF n
    <3> QED BY <1>2, <2>6, <3>1
  <2> QED BY <2>2, <2>7 DEF EveryMemberKeepsACall
<1>8. /\ up /\ runner.pc = "act" /\ turn[k] \in {"boot", "sent", "replied"}
      /\ goal.status \notin Terminal /\ "sent" \in Executions /\ "sent" \notin Kinds
  BY <1>1, AtWork DEF Kinds
<1>9. /\ turn' = [turn EXCEPT ![k] = "sent"]
      /\ UNCHANGED <<files, artifacts, runner, up, crashes>>
  BY <1>1 DEF EndsTurn
<1> QED BY <1>3, <1>4, <1>5, <1>6, <1>7, <1>8, <1>9, OneTurn

\* block_received_reply parks the task; nothing of its reply was applied.
LEMMA BlockedReply ==
  ASSUME IInv, NEW k \in Tasks, Turn(k, {"boot", "sent", "replied"}),
         BlockReceivedReply(k), EndsTurn(k, "done")
  PROVE  IInv'
<1> DEFINE r == [WithoutLease(tasks[k]) EXCEPT
                    !.state = "blocked", !.unknown = FALSE, !.reconcile = TRUE,
                    !.effect = "reconciliation_required"]
<1>1. /\ r \in Task /\ r.effectId = tasks[k].effectId /\ r.claimEpoch = tasks[k].claimEpoch
      /\ r.action = "none" /\ r.txn = "none" /\ r.state = "blocked"
  <2> DEFINE w == WithoutLease(tasks[k])
  <2>0. tasks[k] \in Task /\ tasks[k].action = "none" /\ tasks[k].txn = "none"
    BY AtWork
  <2>1. /\ w \in Task /\ w.effectId = tasks[k].effectId
        /\ w.claimEpoch = tasks[k].claimEpoch /\ w.action = "none" /\ w.txn = "none"
    BY <2>0, Freed
  <2>2. r = [w EXCEPT !.state = "blocked", !.unknown = FALSE, !.reconcile = TRUE,
                      !.effect = "reconciliation_required"]
    OBVIOUS
  <2> HIDE DEF w
  <2> QED BY <2>1, <2>2 DEF Task, TaskStates, EffectStates
<1>2. /\ tasks' = [tasks EXCEPT ![k] = r]
      /\ \E s \in Statuses \ Terminal : goal' = [goal EXCEPT !.status = s]
  <2>1. tasks' = [tasks EXCEPT ![k] = r]
    BY DEF BlockReceivedReply
  <2>2. \/ goal' = [goal EXCEPT !.status = TeamStatus([tasks EXCEPT ![k] = r])]
        \/ goal' = [goal EXCEPT !.status = Unless(Stopped \cup {"cancelled"}, "paused")]
    BY DEF BlockReceivedReply
  <2> HIDE DEF r
  <2> QED BY <2>1, <2>2, AtWork, StatusAfter DEF IInv
<1> HIDE DEF r
<1> QED BY <1>1, <1>2, AtWork, StatusOnly, TurnOver DEF IInv

LEMMA DispatchRefusedKeeps ==
  ASSUME IInv, NEW k \in Tasks, DispatchRefused(k)
  PROVE  IInv'
<1>1. Turn(k, {"boot", "sent", "replied"}) /\ EndsTurn(k, "done")
  BY DEF DispatchRefused, Turn
<1>2. \/ UNCHANGED <<goal, tasks>> \/ BlockReceivedReply(k)
      \/ DeferContinuation(k) \/ FailTask(k, FALSE, FALSE, FALSE)
  BY DEF DispatchRefused
<1> QED BY <1>1, <1>2, LeftAlone, BlockedReply, DeferredTask, FailedTask

LEMMA TurnFailsKeeps ==
  ASSUME IInv, NEW k \in Tasks, NEW uncertain \in BOOLEAN, NEW failover \in BOOLEAN,
         TurnFails(k, uncertain, failover)
  PROVE  IInv'
<1>1. Turn(k, {"boot", "sent", "replied"}) /\ EndsTurn(k, "done")
  BY DEF TurnFails, Turn
<1> QED BY <1>1, FailedTask DEF TurnFails

\* A turn that goes on: only what its call has come to is recorded.
LEMMA TurnGoesOn ==
  ASSUME IInv, NEW k \in Tasks, Turn(k, {"boot", "sent", "replied"}), HoldsLease(k),
         NEW e \in EffectStates, NEW v \in {"boot", "replied"}, EndsTurn(k, v),
         v = "replied" => turn[k] = "sent",
         tasks' = [tasks EXCEPT ![k].effect = e], goal' = goal
  PROVE  IInv'
<1> DEFINE r == [tasks[k] EXCEPT !.effect = e]
<1>1. /\ r \in Task /\ r.effectId = tasks[k].effectId /\ r.claimEpoch = tasks[k].claimEpoch
      /\ r.action = "none" /\ r.txn = "none" /\ r.state = "running" /\ r.unknown = tasks[k].unknown
  BY AtWork DEF HoldsLease, Task
<1>2. tasks' = [tasks EXCEPT ![k] = r]
  BY Types DEF IInv
<1> HIDE DEF r
<1>3. Coherent(r)
  <2>1. r.leased = TRUE
    BY <1>2, AtWork DEF r, HoldsLease, Task
  <2> QED BY <1>1, <2>1, AtWork DEF Coherent, Finished, HoldsLease
<1> QED BY <1>1, <1>2, <1>3, AtWork, OneTurn DEF EndsTurn, Kinds

LEMMA RecordProviderReplyKeeps ==
  ASSUME IInv, NEW k \in Tasks, RecordProviderReply(k)
  PROVE  IInv'
<1>1. /\ Turn(k, {"boot", "sent", "replied"}) /\ turn[k] = "sent"
      /\ "reply_received" \in EffectStates
  BY DEF RecordProviderReply, Turn, EffectStates
<1> QED BY <1>1, TurnGoesOn DEF RecordProviderReply

LEMMA AcknowledgeContextStepKeeps ==
  ASSUME IInv, NEW k \in Tasks, AcknowledgeContextStep(k)
  PROVE  IInv'
<1>1. Turn(k, {"boot", "sent", "replied"}) /\ "context" \in EffectStates
  BY DEF AcknowledgeContextStep, Turn, EffectStates
<1> QED BY <1>1, TurnGoesOn DEF AcknowledgeContextStep

LEMMA RecordActionKeeps ==
  ASSUME IInv, NEW k \in Tasks, NEW kind \in Actions \ {"context"}, RecordAction(k, kind)
  PROVE  IInv'
<1>1. Turn(k, {"boot", "sent", "replied"}) /\ turn[k] = "replied" /\ kind \in Kinds
  BY EngineAssumption DEF RecordAction, Turn, Kinds
<1> DEFINE stale == [Emptied(WithoutLease(tasks[k])) EXCEPT
                        !.state = "ready", !.unknown = FALSE, !.effect = "settled"]
           done == [tasks[k] EXCEPT !.action = kind, !.reconcile = FALSE,
                                    !.effect = "acknowledged"]
<1>2. CASE /\ tasks' = [tasks EXCEPT ![k] = stale] /\ EndsTurn(k, "done")
           /\ goal' = [goal EXCEPT !.status = Unless({"cancelling"}, "queued")]
  <2>1. /\ stale \in Task /\ stale.effectId = tasks[k].effectId
        /\ stale.claimEpoch = tasks[k].claimEpoch /\ stale.action = "none"
        /\ stale.txn = "none" /\ stale.state = "ready" /\ stale.unknown = FALSE
    <3> DEFINE w == WithoutLease(tasks[k])
    <3>0. tasks[k] \in Task
      BY <1>1, AtWork
    <3>1. w \in Task /\ w.effectId = tasks[k].effectId /\ w.claimEpoch = tasks[k].claimEpoch
      BY <3>0, Freed
    <3> HIDE DEF w
    <3> DEFINE m == Emptied(w)
    <3>2. /\ m \in Task /\ m.effectId = w.effectId /\ m.claimEpoch = w.claimEpoch
          /\ m.action = "none" /\ m.txn = "none"
      <4>1. 0 \in 0..Budget
        BY EngineAssumption
      <4> QED BY <3>1, <4>1 DEF Emptied, Task, Pending
    <3> HIDE DEF m
    <3>3. stale = [m EXCEPT !.state = "ready", !.unknown = FALSE, !.effect = "settled"]
      BY DEF m, w
    <3> QED BY <3>1, <3>2, <3>3 DEF Task, TaskStates, EffectStates
  <2> HIDE DEF stale
  <2> QED BY <1>1, <1>2, <2>1, AtWork, StatusOnly, StatusAfter, TurnOver DEF IInv
<1>3. CASE /\ tasks' = [tasks EXCEPT ![k] = done] /\ HoldsLease(k) /\ goal' = goal
           /\ EndsTurn(k, kind)
  <2>1. /\ done \in Task /\ done.effectId = tasks[k].effectId
        /\ done.claimEpoch = tasks[k].claimEpoch /\ done.action = kind /\ done.txn = "none"
        /\ done.state = "running" /\ done.effect = "acknowledged" /\ done.reconcile = FALSE
        /\ done.unknown = tasks[k].unknown /\ done.leased = TRUE
    <3>1. kind \in Pending /\ "acknowledged" \in EffectStates
      BY <1>1 DEF Pending, EffectStates
    <3>2. /\ tasks[k] \in Task /\ tasks[k].leased = TRUE /\ tasks[k].state = "running"
          /\ tasks[k].txn = "none"
      BY <1>1, <1>3, AtWork DEF HoldsLease, Task
    <3> QED BY <3>1, <3>2 DEF Task
  <2> HIDE DEF done
  <2>2. Coherent(done)
    BY <1>1, <1>3, <2>1, AtWork DEF Coherent, Finished, HoldsLease
  <2>3. kind \notin {"boot", "sent", "replied"} /\ kind \in Executions
    BY <1>1 DEF Kinds, Executions
  <2> QED BY <1>1, <1>3, <2>1, <2>2, <2>3, AtWork, OneTurn DEF EndsTurn
<1>4. tasks \in [Tasks -> Task]
  BY Types DEF IInv
<1>5. \/ /\ tasks' = [tasks EXCEPT ![k] = stale] /\ EndsTurn(k, "done")
         /\ goal' = [goal EXCEPT !.status = Unless({"cancelling"}, "queued")]
      \/ /\ HoldsLease(k) /\ goal' = goal /\ EndsTurn(k, kind)
         /\ tasks' = [tasks EXCEPT ![k].action = kind, ![k].reconcile = FALSE,
                                   ![k].effect = "acknowledged"]
  BY DEF RecordAction
<1>6. [tasks EXCEPT ![k].action = kind, ![k].reconcile = FALSE, ![k].effect = "acknowledged"]
         = [tasks EXCEPT ![k] = done]
  BY <1>4
<1> HIDE DEF stale, done
<1> QED BY <1>2, <1>3, <1>5, <1>6

-----------------------------------------------------------------------------
\* The scheduler's claims, and the ledger's side of the apply loop.

\* Nothing is numbered anew, and nothing lands.
LEMMA SameCalls ==
  ASSUME IInv, artifacts' = artifacts, goal'.calls = goal.calls,
         \A t \in Tasks : tasks'[t].effectId = tasks[t].effectId
  PROVE  Numbered' /\ EveryMemberKeepsACall'
<1>1. Numbered'
  BY DEF IInv, Numbered
<1>2. EveryMemberKeepsACall'
  BY CallsKept DEF IInv
<1> QED BY <1>1, <1>2

\* A step that touches no task and no file.
LEMMA GoalOnly ==
  ASSUME IInv, NEW g \in Goal, goal' = g, g.epoch = goal.epoch, g.calls = goal.calls,
         UNCHANGED <<tasks, files, artifacts, up, crashes>>, up,
         runner' \in Thread, turn' \in [Tasks -> Executions],
         \A t \in Tasks : turn'[t] \in {turn[t], "idle"},
         \A t \in Tasks, kind \in Kinds : <<t, kind>> \in runner'.todo
             => <<t, kind>> \in runner.todo \/ tasks[t].action = kind \/ ~Current(t),
         Place', Quiet', Written', Settled'
  PROVE  IInv'
<1> USE DEF IInv
<1>1. TypeOK'
  BY Types, TypesNext
<1>2. ASSUME NEW t \in Tasks PROVE Row(t)'
  BY <1>1, RowKept, Counters
<1>3. Numbered' /\ EveryMemberKeepsACall'
  BY SameCalls
<1> QED BY <1>1, <1>2, <1>3 DEF Rows

LEMMA ClaimReadyKeeps ==
  ASSUME IInv, NEW S \in SUBSET Tasks, ClaimReady(S)
  PROVE  IInv'
<1> USE DEF IInv
<1>1. /\ up /\ runner.pc = "schedule" /\ "schedule" \in Busy /\ "act" \in Busy
      /\ S \subseteq InState({"ready"})
      /\ UNCHANGED <<files, artifacts, up, crashes>>
  BY DEF ClaimReady, Scheduling, Busy
<1>2. runner' = At("act") /\ "act" \in Phases
  BY DEF ClaimReady, Phases, Busy
<1>3. /\ goal' \in Goal /\ goal'.status = "running" /\ goal'.epoch = goal.epoch
      /\ goal'.calls = goal.calls /\ goal'.worker = goal.worker
  BY StatusOnly DEF ClaimReady, Statuses, Terminal
<1>4. /\ turn' \in [Tasks -> Executions]
      /\ \A t \in Tasks : turn'[t] = IF t \in S THEN "boot" ELSE "idle"
  BY <1>1, Types DEF ClaimReady, Executions, Place
<1> DEFINE r(t) == [tasks[t] EXCEPT !.state = "running", !.leased = TRUE,
                                    !.unknown = FALSE, !.claimEpoch = goal.epoch]
<1>5. ASSUME NEW t \in S
      PROVE  /\ tasks'[t] = r(t) /\ r(t) \in Task /\ r(t).state = "running"
             /\ r(t).leased = TRUE /\ r(t).unknown = FALSE /\ r(t).claimEpoch = goal.epoch
             /\ r(t).effectId = tasks[t].effectId /\ r(t).action = tasks[t].action
             /\ r(t).txn = tasks[t].txn /\ tasks[t].state = "ready"
  <2>1. tasks[t] \in Task /\ tasks[t].state = "ready"
    BY <1>1, Types DEF InState
  <2>2. goal.epoch \in 0..MaxEpoch
    BY Types, EngineAssumption DEF Goal
  <2>3. tasks'[t] = r(t)
    BY DEF ClaimReady
  <2> QED BY <2>1, <2>2, <2>3 DEF Task, TaskStates
<1>6. \A t \in Tasks : t \notin S => tasks'[t] = tasks[t]
  BY DEF ClaimReady
<1>7. tasks' \in [Tasks -> Task]
  <2>1. ASSUME NEW t \in Tasks PROVE tasks'[t] \in Task
    <3> HIDE DEF r
    <3>1. CASE t \in S
      BY <1>5, <3>1
    <3>2. CASE t \notin S
      BY <1>6, <3>2, Types
    <3> QED BY <3>1, <3>2
  <2>2. tasks' = [t \in Tasks |-> tasks'[t]]
    BY DEF ClaimReady
  <2> QED BY <2>1, <2>2
<1> HIDE DEF r
<1>8. TypeOK'
  BY <1>1, <1>2, <1>3, <1>4, <1>7, Begins, Types, TypesNext
<1>9. Place' /\ Quiet' /\ Written' /\ Settled'
  BY <1>1, <1>2, <1>3, Begins DEF Place, Quiet, Written, Settled, Terminal, Busy
<1>10. ASSUME NEW t \in Tasks PROVE Row(t)'
  <2>1. CASE t \notin S
    BY <1>1, <1>2, <1>3, <1>4, <1>6, <1>8, <2>1, Begins, RowKept, Counters
  <2>2. CASE t \in S
    <3>1. Ledger(t) /\ OnDisk(t)
      BY DEF Rows, Row
    <3>2. r(t).action = "none" /\ r(t).txn = "none"
      BY <1>5, <2>2, <3>1 DEF Ledger, Coherent
    <3>3. Ledger(t)'
      <4>1. tasks[t].effectId <= goal.calls /\ goal.epoch <= goal.epoch
        BY <3>1, Counters DEF Ledger
      <4>2. Coherent(r(t))
        BY <1>5, <2>2, <3>2 DEF Coherent, Finished
      <4> QED BY <1>3, <1>5, <2>2, <4>1, <4>2 DEF Ledger
    <3>4. Unlanded(t)' /\ Executing(t)'
      <4>1. /\ turn'[t] = "boot" /\ tasks'[t].action = "none" /\ runner'.todo = {}
            /\ tasks'[t].state = "running"
        BY <1>2, <1>4, <1>5, <2>2, <3>2, Begins
      <4> QED BY <4>1 DEF Unlanded, Executing, Kinds
    <3>5. OnDisk(t)'
      BY <1>1, <1>5, <2>2, <3>1, <3>2 DEF OnDisk
    <3> QED BY <3>3, <3>4, <3>5 DEF Row
  <2> QED BY <2>1, <2>2
<1>11. Numbered' /\ EveryMemberKeepsACall'
  <2>1. \A t \in Tasks : tasks'[t].effectId = tasks[t].effectId
    BY <1>5, <1>6
  <2> QED BY <1>1, <1>3, <2>1, SameCalls
<1> QED BY <1>8, <1>9, <1>10, <1>11 DEF Rows

LEMMA NothingToClaimKeeps ==
  ASSUME IInv, NothingToClaim
  PROVE  IInv'
<1> USE DEF IInv
<1>1. /\ up /\ runner.pc = "schedule" /\ "schedule" \in Busy /\ "stopping" \in Busy
      /\ "stopping" \in Phases /\ runner' = At("stopping") /\ goal.status \notin Terminal
  BY DEF NothingToClaim, Scheduling, Busy, Phases, Runnable
<1>2. PICK s \in Statuses \ Terminal : goal' = [goal EXCEPT !.status = s]
  <2>1. goal.status \in Statuses \ Terminal /\ "paused" \in Statuses \ Terminal
    BY <1>1, Types DEF Goal, Statuses, Terminal
  <2> QED BY <2>1 DEF NothingToClaim
<1>3. /\ goal' \in Goal /\ goal'.status \notin Terminal /\ goal'.epoch = goal.epoch
      /\ goal'.calls = goal.calls /\ goal'.worker = goal.worker
  BY <1>2, StatusOnly
<1>4. Place' /\ Quiet' /\ Written' /\ Settled'
  BY <1>1, <1>3, Begins DEF NothingToClaim, Place, Quiet, Written, Settled, Terminal, Busy
<1> QED BY <1>1, <1>3, <1>4, Begins, GoalOnly, Types DEF NothingToClaim

LEMMA JoinTurnsKeeps ==
  ASSUME IInv, JoinTurns
  PROVE  IInv'
<1> USE DEF IInv
<1> DEFINE batch == {<<t, turn[t]>> : t \in {u \in Tasks : turn[u] \in Kinds}}
<1>1. /\ up /\ runner.pc = "act" /\ "act" \in Busy /\ "apply" \in Busy /\ "apply" \in Phases
      /\ goal.status \notin Terminal
  BY DEF JoinTurns, Busy, Phases, Place
<1>2. batch \in SUBSET (Tasks \X Kinds)
  OBVIOUS
<1>3. \A t \in Tasks, kind \in Kinds : <<t, kind>> \in batch =>
          tasks[t].action = kind \/ ~Current(t)
  <2>1. \A t \in Tasks, kind \in Kinds : <<t, kind>> \in batch => kind = turn[t] /\ turn[t] \in Kinds
    OBVIOUS
  <2> QED BY <2>1 DEF Rows, Row, Executing
<1>4. runner' = [At("apply") EXCEPT !.todo = batch]
  BY DEF JoinTurns
<1> HIDE DEF batch
<1>5. At("apply") \in Thread /\ At("apply").pc = "apply" /\ At("apply").item = None
  BY <1>1, Begins
<1>6. runner' \in Thread /\ runner'.pc = "apply" /\ runner'.item = None /\ runner'.todo = batch
  BY <1>2, <1>4, <1>5 DEF Thread
<1>7. turn' \in [Tasks -> Executions] /\ \A t \in Tasks : turn'[t] = "idle"
  BY DEF JoinTurns, Executions
<1>8. Place' /\ Quiet' /\ Written' /\ Settled'
  BY <1>1, <1>6, <1>7 DEF JoinTurns, Place, Quiet, Written, Settled, Terminal, Busy
<1> QED BY <1>1, <1>3, <1>6, <1>7, <1>8, GoalOnly, Types DEF JoinTurns

\* A reply the apply loop looks at is the recorded action of its task.
LEMMA Batched ==
  ASSUME IInv, NEW k \in Tasks, Choosing, Has(k), Current(k)
  PROVE  /\ tasks[k].action # "none" /\ tasks[k] \in Task /\ Row(k)
         /\ up /\ runner.pc = "apply" /\ goal.status \notin Terminal
         /\ turn[k] = "idle"
<1>1. up /\ runner.pc = "apply" /\ "apply" \in Busy
  BY DEF Choosing, Applying, Busy
<1>2. tasks[k].action # "none"
  BY DEF IInv, Rows, Row, Executing, Has, Kinds
<1> QED BY <1>1, <1>2, Types DEF IInv, Rows, Place, Busy

\* What is left of the batch.
LEMMA TakenRest ==
  ASSUME TypeOK, NEW k \in Tasks
  PROVE  /\ Taken(k) \in Thread /\ Taken(k).pc = runner.pc /\ Taken(k).item = runner.item
         /\ Taken(k).todo \subseteq runner.todo
<1> QED BY Types DEF Taken, Thread

\* A step of the apply loop about task k, whose entry becomes r.
LEMMA EntryOnly ==
  ASSUME IInv, NEW k \in Tasks, NEW r \in Task, NEW f \in File, NEW i \in {None, k},
         up, runner.pc = "apply", "apply" \in Busy,
         tasks' = [tasks EXCEPT ![k] = r], files' = [files EXCEPT ![k] = f],
         UNCHANGED <<goal, artifacts, turn, up, crashes>>,
         runner' \in Thread, runner'.pc = "apply", runner'.item = i,
         runner'.todo \subseteq runner.todo,
         Coherent(r), k \in Founders => r.state # "absent", r.claimEpoch = tasks[k].claimEpoch,
         r.effectId = tasks[k].effectId, r.action = tasks[k].action,
         tasks[k].state \in {"running", "pending_apply"},
         i = k => /\ goal.status \in {"queued", "running"} /\ Current(k)
                  /\ r.state = tasks[k].state /\ r.txn # "none",
         f.manifest \in {"none", "closed"} => f.content = "before",
         f.manifest = "applied" => f.content = "after",
         r.txn = "applied" => f.manifest = "applied",
         ~CrashInRollback => (r.txn = "none" => f.content = "before")
  PROVE  IInv'
<1> USE DEF IInv
<1>1. TypeOK'
  BY Types, TypesNext
<1>2. tasks'[k] = r /\ files'[k] = f
      /\ \A t \in Tasks : t # k => tasks'[t] = tasks[t] /\ files'[t] = files[t]
  BY Types
<1>3. Place' /\ Quiet' /\ Written' /\ Settled'
  <2>1. k # None
    BY EngineAssumption
  <2>2. goal.status # "cancelled"
    BY DEF Place, Terminal, Busy
  <2> QED BY <1>2, <2>1, <2>2 DEF Place, Quiet, Written, Settled, Current, Terminal, Busy
<1>4. ASSUME NEW t \in Tasks PROVE Row(t)'
  <2>1. CASE t # k
    BY <1>1, <1>2, <2>1, RowKept, Counters
  <2>2. CASE t = k
    <3>1. Ledger(k) /\ Unlanded(k) /\ Executing(k) /\ turn[k] = "idle"
      BY DEF Rows, Row, Place
    <3>2. Ledger(k)'
      BY <1>2, <3>1 DEF Ledger
    <3>3. Unlanded(k)'
      BY <1>2, <3>1 DEF Unlanded
    <3>4. Executing(k)'
      BY <1>2, <3>1 DEF Executing, Current, Kinds
    <3>5. OnDisk(k)'
      BY <1>2 DEF OnDisk
    <3> QED BY <2>2, <3>2, <3>3, <3>4, <3>5 DEF Row
  <2> QED BY <2>1, <2>2
<1>5. Numbered' /\ EveryMemberKeepsACall'
  BY <1>2, SameCalls
<1> QED BY <1>1, <1>3, <1>4, <1>5 DEF Rows

LEMMA DeferPendingActionKeeps ==
  ASSUME IInv, NEW k \in Tasks, DeferPendingAction(k)
  PROVE  IInv'
<1> DEFINE r == [tasks[k] EXCEPT !.state = "pending_apply"]
<1>1. Choosing /\ Has(k) /\ Current(k) /\ "apply" \in Busy
  BY DEF DeferPendingAction, Busy
<1>2. /\ r \in Task /\ r.state = "pending_apply" /\ r.claimEpoch = tasks[k].claimEpoch
      /\ r.effectId = tasks[k].effectId /\ r.action = tasks[k].action
      /\ r.txn = tasks[k].txn /\ Coherent(r)
  <2>1. tasks[k] \in Task /\ Coherent(tasks[k]) /\ tasks[k].state \in {"running", "pending_apply"}
    BY <1>1, Batched DEF Row, Ledger, Current
  <2> QED BY <2>1 DEF Task, TaskStates, Coherent, Finished
<1>3. files[k] \in File /\ OnDisk(k) /\ files = [files EXCEPT ![k] = files[k]]
  BY FileFacts, Types DEF IInv
<1>4. tasks' = [tasks EXCEPT ![k] = r] /\ runner' = Taken(k) /\ runner.item = None
  BY DEF DeferPendingAction, Choosing
<1> HIDE DEF r
<1>5. /\ up /\ runner.pc = "apply" /\ Ledger(k)
      /\ tasks[k].state \in {"running", "pending_apply"}
      /\ UNCHANGED <<goal, files, artifacts, turn, up, crashes>>
  BY <1>1, Batched DEF Row, Current, DeferPendingAction
<1>6. /\ runner' \in Thread /\ runner'.pc = "apply" /\ runner'.item = None
      /\ runner'.todo \subseteq runner.todo
  BY <1>4, <1>5, TakenRest DEF IInv
<1>7. /\ files[k].manifest \in {"none", "closed"} => files[k].content = "before"
      /\ files[k].manifest = "applied" => files[k].content = "after"
      /\ r.txn = "applied" => files[k].manifest = "applied"
      /\ ~CrashInRollback => (r.txn = "none" => files[k].content = "before")
  BY <1>2, <1>3 DEF OnDisk
<1> QED BY <1>1, <1>2, <1>3, <1>4, <1>5, <1>6, <1>7, EngineAssumption, EntryOnly

LEMMA PrepareTransactionKeeps ==
  ASSUME IInv, NEW k \in Tasks, PrepareTransaction(k)
  PROVE  IInv'
<1> DEFINE r == [tasks[k] EXCEPT !.txn = "prepared", !.txnEffect = tasks[k].effectId]
<1>1. Choosing /\ Has(k) /\ Current(k) /\ "apply" \in Busy /\ goal.status \notin Stopped
  BY DEF PrepareTransaction, Applicable, Busy
<1>2. /\ r \in Task /\ r.state = tasks[k].state /\ r.claimEpoch = tasks[k].claimEpoch
      /\ r.effectId = tasks[k].effectId /\ r.action = tasks[k].action
      /\ r.txn = "prepared" /\ Coherent(r)
  <2>1. /\ tasks[k] \in Task /\ Coherent(tasks[k]) /\ tasks[k].action # "none"
        /\ tasks[k].state \in {"running", "pending_apply"}
    BY <1>1, Batched DEF Row, Ledger, Current
  <2> QED BY <2>1 DEF Task, Coherent, Finished
<1>3. PICK f \in File : /\ files' = [files EXCEPT ![k] = f]
                        /\ f.manifest \in {"none", "closed"} => f.content = "before"
                        /\ f.manifest = "applied" => f.content = "after"
  <2>1. files[k] \in File /\ OnDisk(k) /\ files = [files EXCEPT ![k] = files[k]]
    BY FileFacts, Types DEF IInv
  <2>2. Untouched \in File /\ Untouched.manifest = "none" /\ Untouched.content = "before"
    BY DEF Untouched, File
  <2> QED BY <2>1, <2>2 DEF PrepareTransaction, OnDisk
<1>4. tasks' = [tasks EXCEPT ![k] = r]
  BY Types DEF PrepareTransaction, IInv
<1>5. /\ runner' \in Thread /\ runner'.pc = "apply" /\ runner'.item = k
      /\ runner'.todo = runner.todo
  BY <1>1, Types DEF PrepareTransaction, IInv, Thread, Choosing, Applying
<1>6. goal.status \in {"queued", "running"}
  BY <1>1, Batched, Types DEF IInv, Goal, Statuses, Stopped, Terminal
<1> HIDE DEF r
<1> QED BY <1>1, <1>2, <1>3, <1>4, <1>5, <1>6, Batched, EntryOnly DEF PrepareTransaction, Current

LEMMA RecordTransactionAppliedKeeps ==
  ASSUME IInv, NEW k \in Tasks, RecordTransactionApplied(k)
  PROVE  IInv'
<1> DEFINE r == [tasks[k] EXCEPT !.txn = "applied"]
<1>1. /\ up /\ runner.pc = "apply" /\ "apply" \in Busy /\ runner.item = k
      /\ files[k].manifest = "applied" /\ tasks[k].txn = "prepared"
  BY DEF RecordTransactionApplied, InHand, Applying, Busy
<1>2. goal.status \in {"queued", "running"} /\ Current(k)
  BY <1>1, EngineAssumption DEF IInv, Written
<1>3. /\ r \in Task /\ r.state = tasks[k].state /\ r.claimEpoch = tasks[k].claimEpoch
      /\ r.effectId = tasks[k].effectId /\ r.action = tasks[k].action
      /\ r.txn = "applied" /\ Coherent(r) /\ (k \in Founders => r.state # "absent")
  <2>1. /\ tasks[k] \in Task /\ Ledger(k)
        /\ tasks[k].state \in {"running", "pending_apply"}
    BY <1>2, Types DEF IInv, Rows, Row, Current
  <2> QED BY <1>1, <2>1 DEF Task, Ledger, Coherent, Finished
<1>4. files[k] \in File /\ OnDisk(k) /\ files = [files EXCEPT ![k] = files[k]]
  BY FileFacts, Types DEF IInv
<1>5. tasks' = [tasks EXCEPT ![k] = r]
  BY Types DEF RecordTransactionApplied, IInv
<1> HIDE DEF r
<1>6. UNCHANGED <<goal, files, artifacts, runner, turn, up, crashes>> /\ runner' \in Thread
  BY Types DEF RecordTransactionApplied, IInv
<1> QED BY <1>1, <1>2, <1>3, <1>4, <1>5, <1>6, EntryOnly DEF OnDisk, Current

-----------------------------------------------------------------------------
\* Steps that change the ledger of many tasks, and publish what has landed.

\* What a step may do to a task so that its row of the invariant is kept: an
\* executor at work keeps its call, a current reply keeps its action, and the
\* call of an action that stays recorded lands nothing.
Carried(t) ==
    /\ Coherent(tasks[t])' /\ tasks'[t].claimEpoch <= goal'.epoch
    /\ t \in Founders => tasks'[t].state # "absent"
    /\ tasks'[t].effectId = tasks[t].effectId
    /\ tasks'[t].action # "none" => tasks'[t].action = tasks[t].action
    /\ (tasks'[t].action # "none" \/ turn'[t] \in {"sent", "replied"})
          /\ tasks[t].effectId # 0
          => artifacts'[tasks[t].effectId] = artifacts[tasks[t].effectId]
    /\ turn'[t] \in {"boot", "sent", "replied"} /\ tasks'[t].leased = TRUE
          => tasks'[t].state = "running"
    /\ \/ turn'[t] = "idle" /\ runner'.todo = {}
       \/ /\ runner'.todo \subseteq runner.todo
          /\ Current(t)' => Current(t) /\ tasks'[t].action = tasks[t].action
    /\ OnDisk(t)'

LEMMA CarriedRow ==
  ASSUME TypeOK, TypeOK', Rows, NEW t \in Tasks, Carried(t), goal'.calls = goal.calls,
         turn'[t] \in {turn[t], "idle"}
  PROVE  Row(t)'
<1>1. Ledger(t) /\ Unlanded(t) /\ Executing(t)
  BY DEF Rows, Row
<1>2. Ledger(t)'
  <2>1. tasks'[t].effectId <= goal'.calls
    BY <1>1, Counters, Types, EngineAssumption DEF Carried, Ledger, Goal
  <2> QED BY <2>1 DEF Carried, Ledger
<1>3. Unlanded(t)'
  BY <1>1 DEF Carried, Unlanded
<1>4. Executing(t)'
  <2>1. turn'[t] \in {"boot", "sent", "replied"} =>
            /\ tasks'[t].action = "none"
            /\ tasks'[t].leased = TRUE => tasks'[t].state = "running"
    BY <1>1 DEF Carried, Executing
  <2>2. CASE turn'[t] = "idle" /\ runner'.todo = {}
    BY <2>1, <2>2 DEF Executing, Kinds
  <2>3. CASE /\ runner'.todo \subseteq runner.todo
             /\ Current(t)' => Current(t) /\ tasks'[t].action = tasks[t].action
    BY <1>1, <2>1, <2>3 DEF Executing, Kinds
  <2> QED BY <2>1, <2>2, <2>3 DEF Carried
<1>5. OnDisk(t)'
  BY DEF Carried
<1> QED BY <1>2, <1>3, <1>4, <1>5 DEF Row

LEMMA LedgerStep ==
  ASSUME IInv, TypeOK', goal'.calls = goal.calls,
         \A t \in Tasks : Carried(t) /\ turn'[t] \in {turn[t], "idle"},
         \A e \in 1..Budget : artifacts'[e] <= 1 /\ (artifacts'[e] > 0 => e <= goal.calls),
         Place', Quiet', Written', Settled'
  PROVE  IInv'
<1> USE DEF IInv
<1>1. ASSUME NEW t \in Tasks PROVE Row(t)'
  BY CarriedRow
<1>2. Numbered'
  <2>1. ASSUME NEW t \in Tasks, NEW u \in Tasks, t # u,
               tasks'[t].effectId = tasks'[u].effectId
        PROVE  tasks'[t].effectId = 0
    BY <2>1 DEF Carried, Numbered
  <2> QED BY <2>1 DEF Numbered
<1>3. EveryMemberKeepsACall'
  <2>1. \A t \in Tasks : Required(t) => tasks'[t].effectId = tasks[t].effectId
    BY DEF Carried, Required
  <2> QED BY <2>1, CallsKept
<1> QED BY <1>1, <1>2, <1>3 DEF Rows

\* Publishing records what a landed transaction has put into the files, under
\* the number of its call, which nothing else has landed under.
LEMMA PublishedOnce ==
  ASSUME TypeOK, Rows, Numbered, NEW S \in SUBSET Tasks
  PROVE  /\ Publishing(S) \in [1..Budget -> Nat]
         /\ \A e \in 1..Budget :
               Publishing(S)[e] <= 1 /\ (Publishing(S)[e] > 0 => e <= goal.calls)
         /\ \A t \in Tasks :
               tasks[t].effectId # 0 /\ ~(t \in S /\ Landed(t)) =>
                   Publishing(S)[tasks[t].effectId] = artifacts[tasks[t].effectId]
<1> DEFINE of(e) == {t \in S : Landed(t) /\ tasks[t].txnEffect = e}
<1>1. DOMAIN artifacts = 1..Budget /\ \A e \in 1..Budget : artifacts[e] \in Nat
  BY Types
<1>2. /\ DOMAIN Publishing(S) = 1..Budget
      /\ \A e \in 1..Budget : Publishing(S)[e] = artifacts[e] + Cardinality(of(e))
      /\ Publishing(S) = [e \in 1..Budget |-> artifacts[e] + Cardinality(of(e))]
  BY <1>1 DEF Publishing
<1>3. ASSUME NEW e \in 1..Budget, NEW t \in of(e)
      PROVE  tasks[t].effectId = e /\ e # 0 /\ artifacts[e] = 0 /\ e <= goal.calls
             /\ of(e) = {t}
  <2>1. /\ tasks[t].effectId = e /\ e # 0 /\ artifacts[e] = 0 /\ e <= goal.calls
        /\ t \in Tasks /\ Landed(t)
    BY DEF Rows, Row, Ledger, Coherent, Unlanded, Landed
  <2>2. ASSUME NEW u \in of(e) PROVE u = t
    BY <2>1 DEF Rows, Row, Ledger, Coherent, Landed, Numbered
  <2> QED BY <2>1, <2>2
<1>4. ASSUME NEW e \in 1..Budget
      PROVE  /\ Cardinality(of(e)) \in Nat /\ Publishing(S)[e] \in Nat
             /\ Publishing(S)[e] <= 1 /\ (Publishing(S)[e] > 0 => e <= goal.calls)
             /\ of(e) = {} => Publishing(S)[e] = artifacts[e]
  <2>1. CASE of(e) = {}
    <3>1. Cardinality(of(e)) = 0
      BY <2>1, FS_EmptySet
    <3>2. Publishing(S)[e] = artifacts[e]
      BY <1>1, <1>2, <3>1
    <3> QED BY <1>1, <3>1, <3>2 DEF Numbered
  <2>2. CASE of(e) # {}
    <3>1. PICK t \in of(e) : TRUE
      BY <2>2
    <3>2. Cardinality({t}) = 1
      BY FS_Singleton
    <3>3. of(e) = {t} /\ artifacts[e] = 0 /\ e <= goal.calls
      BY <1>3
    <3>4. Cardinality(of(e)) = 1
      BY <3>2, <3>3
    <3>5. Publishing(S)[e] = 1
      BY <1>2, <3>3, <3>4
    <3> QED BY <2>2, <3>3, <3>4, <3>5
  <2> QED BY <2>1, <2>2
<1>5. Publishing(S) \in [1..Budget -> Nat]
  BY <1>2, <1>4
<1>6. ASSUME NEW t \in Tasks, tasks[t].effectId # 0, ~(t \in S /\ Landed(t))
      PROVE  Publishing(S)[tasks[t].effectId] = artifacts[tasks[t].effectId]
  <2> DEFINE e == tasks[t].effectId
  <2>1. e \in 1..Budget
    BY <1>6, Types, EngineAssumption DEF Task
  <2>2. of(e) = {}
    <3>1. SUFFICES ASSUME NEW u \in of(e) PROVE FALSE
      OBVIOUS
    <3>2. tasks[u].effectId = e /\ u \in S /\ Landed(u)
      BY <1>3, <2>1
    <3>3. u = t
      BY <1>6, <3>2 DEF Numbered
    <3> QED BY <1>6, <3>2, <3>3
  <2> QED BY <1>4, <2>1, <2>2
<1> QED BY <1>4, <1>5, <1>6

\* The rest of the team, when a change of the result reopened their work.
LEMMA ReopenedPeer ==
  ASSUME NEW r \in Task, Coherent(r), NEW s \in Task,
         s = r \/ s = [r EXCEPT !.agreed = FALSE,
                                !.state = IF @ = "complete" THEN "ready" ELSE @]
  PROVE  /\ Coherent(s) /\ s.effectId = r.effectId /\ s.action = r.action /\ s.txn = r.txn
         /\ s.claimEpoch = r.claimEpoch /\ s.leased = r.leased
         /\ s.state \in {r.state, "ready"}
<1>1. CASE s = r
  BY <1>1
<1>2. CASE s = [r EXCEPT !.agreed = FALSE, !.state = IF @ = "complete" THEN "ready" ELSE @]
  <2>1. PICK q \in {r.state, "ready"} :
            /\ s = [r EXCEPT !.agreed = FALSE, !.state = q]
            /\ q = "ready" => r.state \in {"ready", "complete"}
    BY <1>2
  <2>2. /\ s.effectId = r.effectId /\ s.action = r.action /\ s.txn = r.txn
        /\ s.claimEpoch = r.claimEpoch /\ s.leased = r.leased /\ s.state = q
        /\ s.unknown = r.unknown /\ s.reconcile = r.reconcile /\ s.effect = r.effect
        /\ s.txnEffect = r.txnEffect
    BY <2>1 DEF Task
  <2> QED BY <2>1, <2>2 DEF Coherent, Finished
<1> QED BY <1>1, <1>2

\* What apply_action leaves of the task, and of its peers.
LEMMA Took ==
  ASSUME IInv, NEW k \in Tasks, tasks[k].action # "none", Current(k)
  PROVE  /\ Taking(k) \in [Tasks -> Task]
         /\ LET r == Taking(k)[k] IN
              /\ Coherent(r) /\ r.effectId = tasks[k].effectId
              /\ r.claimEpoch = tasks[k].claimEpoch
              /\ r.state \in {"waiting", "complete", "ready"}
              /\ r.action = "none" /\ r.txn = "none" /\ r.leased = FALSE
         /\ \A u \in Tasks : u # k =>
              \/ Taking(k)[u] = tasks[u]
              \/ Taking(k)[u] = [tasks[u] EXCEPT !.agreed = FALSE,
                                    !.state = IF @ = "complete" THEN "ready" ELSE @]
<1> DEFINE kind == Doing(k)
           w == Emptied(WithoutLease(tasks[k]))
           next == [w EXCEPT !.state = IF kind = "ask" THEN "waiting"
                                       ELSE IF Completes(kind) THEN "complete" ELSE "ready",
                             !.effect = "settled"]
           d == [tasks EXCEPT ![k] = next]
           shared == IF Changes(kind) THEN Reopened(d, k) ELSE d
<1>1. /\ w \in Task /\ w.effectId = tasks[k].effectId /\ w.claimEpoch = tasks[k].claimEpoch
      /\ w.action = "none" /\ w.txn = "none" /\ w.leased = FALSE
      /\ w.unknown = FALSE /\ w.reconcile = FALSE
  <2>1. /\ tasks[k] \in Task /\ Coherent(tasks[k])
        /\ tasks[k].state \in {"running", "pending_apply"}
    BY Types DEF IInv, Rows, Row, Ledger, Current
  <2> DEFINE v == WithoutLease(tasks[k])
  <2>2. /\ v \in Task /\ v.effectId = tasks[k].effectId /\ v.claimEpoch = tasks[k].claimEpoch
        /\ v.leased = FALSE /\ v.unknown = FALSE /\ v.reconcile = FALSE
    BY <2>1 DEF WithoutLease, Task, Coherent
  <2> HIDE DEF v
  <2>3. 0 \in 0..Budget
    BY EngineAssumption
  <2>4. w = [v EXCEPT !.action = "none", !.txn = "none", !.txnEffect = 0]
    BY DEF v, Emptied
  <2> QED BY <2>2, <2>3, <2>4 DEF Task, Pending
<1> HIDE DEF w
<1>2. /\ next \in Task /\ next.effectId = w.effectId /\ next.claimEpoch = w.claimEpoch
      /\ next.action = "none" /\ next.txn = "none" /\ next.leased = FALSE
      /\ next.unknown = FALSE /\ next.reconcile = FALSE /\ next.effect = "settled"
      /\ next.state \in {"waiting", "complete", "ready"}
  BY <1>1 DEF Task, TaskStates, EffectStates
<1> HIDE DEF next
<1>3. d \in [Tasks -> Task] /\ d[k] = next /\ \A u \in Tasks : u # k => d[u] = tasks[u]
  BY <1>2, Types DEF IInv
<1> HIDE DEF d
<1>4. /\ shared \in [Tasks -> Task]
      /\ \E b \in BOOLEAN : shared[k] = [next EXCEPT !.agreed = b]
      /\ \A u \in Tasks : u # k =>
            \/ shared[u] = d[u]
            \/ shared[u] = [d[u] EXCEPT !.agreed = FALSE,
                                        !.state = IF @ = "complete" THEN "ready" ELSE @]
  <2>1. next.agreed \in BOOLEAN /\ next = [next EXCEPT !.agreed = next.agreed]
    BY <1>2 DEF Task
  <2>2. CASE ~Changes(kind)
    BY <1>3, <2>1, <2>2
  <2>3. CASE Changes(kind)
    <3> DEFINE e(u) == [d[u] EXCEPT !.agreed = FALSE,
                              !.state = IF u # k /\ @ = "complete" THEN "ready" ELSE @]
    <3>1. shared = [u \in Tasks |-> IF ~Required(u) THEN d[u] ELSE e(u)]
      BY <2>3 DEF Reopened
    <3>2. ASSUME NEW u \in Tasks PROVE e(u) \in Task
      <4>1. d[u] \in Task /\ "ready" \in TaskStates
        BY <1>3 DEF TaskStates
      <4>2. PICK q \in TaskStates : e(u) = [d[u] EXCEPT !.agreed = FALSE, !.state = q]
        BY <4>1 DEF Task
      <4> QED BY <4>1, <4>2 DEF Task
    <3>3. e(k) = [next EXCEPT !.agreed = FALSE]
      <4>1. e(k) = [next EXCEPT !.agreed = FALSE, !.state = next.state]
        BY <1>3
      <4> QED BY <1>2, <4>1 DEF Task
    <3>4. \A u \in Tasks : u # k =>
              e(u) = [d[u] EXCEPT !.agreed = FALSE,
                                  !.state = IF @ = "complete" THEN "ready" ELSE @]
      OBVIOUS
    <3> HIDE DEF e
    <3>5. shared \in [Tasks -> Task]
      BY <1>3, <3>1, <3>2
    <3>6. \E b \in BOOLEAN : shared[k] = [next EXCEPT !.agreed = b]
      BY <1>3, <2>1, <3>1, <3>3
    <3>7. \A u \in Tasks : shared[u] = d[u] \/ shared[u] = e(u)
      BY <3>1
    <3> HIDE DEF shared
    <3> QED BY <3>4, <3>5, <3>6, <3>7
  <2> QED BY <2>2, <2>3
<1>5. Taking(k) = [shared EXCEPT ![k].agreed = (Completes(kind) /\ Required(k)) \/ @]
  BY DEF Taking, shared, d, next, w
<1> HIDE DEF shared
<1>6. PICK b \in BOOLEAN : shared[k] = [next EXCEPT !.agreed = b]
  BY <1>4
<1> DEFINE c == (Completes(kind) /\ Required(k)) \/ shared[k].agreed
<1>7. c \in BOOLEAN
  <2>1. shared[k].agreed \in BOOLEAN
    BY <1>4 DEF Task
  <2> QED BY <2>1 DEF Completes, Required
<1>8. Taking(k) = [shared EXCEPT ![k] = [next EXCEPT !.agreed = c]]
  <2>1. Taking(k) = [shared EXCEPT ![k] = [shared[k] EXCEPT !.agreed = c]]
    BY <1>4, <1>5
  <2> HIDE DEF c
  <2>2. [shared[k] EXCEPT !.agreed = c] = [next EXCEPT !.agreed = c]
    BY <1>2, <1>6 DEF Task
  <2> QED BY <2>1, <2>2
<1> HIDE DEF c
<1> DEFINE r == [next EXCEPT !.agreed = c]
<1>9. /\ r \in Task /\ r.effectId = w.effectId /\ r.claimEpoch = w.claimEpoch
      /\ r.action = "none" /\ r.txn = "none" /\ r.leased = FALSE
      /\ r.unknown = FALSE /\ r.reconcile = FALSE /\ r.effect = "settled"
      /\ r.state \in {"waiting", "complete", "ready"}
  BY <1>2, <1>7 DEF Task
<1>10. Taking(k) = [shared EXCEPT ![k] = r]
  BY <1>8
<1> HIDE DEF r
<1>11. Coherent(r)
  BY <1>9 DEF Coherent
<1>12. /\ Taking(k) \in [Tasks -> Task] /\ Taking(k)[k] = r
       /\ \A u \in Tasks : u # k => Taking(k)[u] = shared[u]
  BY <1>4, <1>9, <1>10
<1>13. \A u \in Tasks : u # k =>
          \/ Taking(k)[u] = tasks[u]
          \/ Taking(k)[u] = [tasks[u] EXCEPT !.agreed = FALSE,
                                !.state = IF @ = "complete" THEN "ready" ELSE @]
  BY <1>3, <1>4, <1>12
<1> QED BY <1>1, <1>9, <1>11, <1>12, <1>13

LEMMA ApplyActionKeeps ==
  ASSUME IInv, NEW k \in Tasks, ApplyAction(k)
  PROVE  IInv'
<1> USE DEF IInv
<1>1. /\ up /\ runner.pc = "apply" /\ "apply" \in Busy /\ goal.status \notin Terminal
      /\ Current(k) /\ tasks[k].action # "none" /\ turn[k] = "idle"
      /\ \A t \in Tasks : turn[t] = "idle"
  <2>1. CASE Applicable(k)
    BY <2>1, Batched DEF Applicable, Place, Busy
  <2>2. CASE InHand(k)
    <3>1. runner.item = k /\ k # None
      BY <2>2, EngineAssumption DEF InHand
    <3>2. Current(k) /\ tasks[k].txn # "none" /\ goal.status \notin Terminal
      BY <3>1 DEF Written, Terminal
    <3>3. Coherent(tasks[k])
      BY DEF Rows, Row, Ledger
    <3> QED BY <2>2, <3>2, <3>3 DEF InHand, Applying, Busy, Place, Coherent
  <2> QED BY <2>1, <2>2 DEF ApplyAction
<1> DEFINE e == tasks[k].effectId
<1>2. /\ tasks[k] \in Task /\ Row(k) /\ e \in 1..Budget /\ artifacts[e] = 0
      /\ e <= goal.calls /\ (tasks[k].txn # "none" => tasks[k].txnEffect = e)
  <2>1. tasks[k] \in Task /\ Row(k)
    BY Types DEF Rows
  <2>2. e # 0 /\ artifacts[e] = 0 /\ e <= goal.calls /\ e \in 0..Budget
        /\ (tasks[k].txn # "none" => tasks[k].txnEffect = e)
    BY <1>1, <2>1 DEF Row, Unlanded, Ledger, Coherent, Task
  <2>3. Budget \in Nat
    BY EngineAssumption
  <2> QED BY <2>1, <2>2, <2>3
<1>3. /\ tasks' = Taking(k) /\ files' = [files EXCEPT ![k] = Untouched]
      /\ UNCHANGED <<turn, up, crashes>>
      /\ \/ tasks[k].txn = "applied" /\ artifacts' = [artifacts EXCEPT ![e] = @ + 1]
         \/ artifacts' = artifacts
  BY <1>2 DEF ApplyAction
<1>4. /\ artifacts' \in [1..Budget -> Nat]
      /\ \A x \in 1..Budget : x # e => artifacts'[x] = artifacts[x]
      /\ artifacts'[e] \in {0, 1}
  <2>1. artifacts \in [1..Budget -> Nat] /\ artifacts[e] = 0 /\ e \in 1..Budget
    BY <1>2, Types
  <2> HIDE DEF e
  <2>2. CASE artifacts' = artifacts
    BY <2>1, <2>2
  <2>3. CASE artifacts' = [artifacts EXCEPT ![e] = @ + 1]
    BY <2>1, <2>3
  <2> QED BY <1>3, <2>2, <2>3
<1>5. /\ runner' \in Thread /\ runner'.pc = "apply" /\ runner'.item = None
      /\ runner'.todo \subseteq runner.todo
  <2>1. runner' = [Taken(k) EXCEPT !.item = None]
    BY DEF ApplyAction
  <2> QED BY <1>1, <2>1, TakenRest DEF Thread
<1>6. /\ goal' \in Goal /\ goal'.status \notin Terminal /\ goal'.epoch = goal.epoch
      /\ goal'.calls = goal.calls /\ goal'.worker = goal.worker
  <2>1. PICK s \in Statuses \ Terminal : goal' = [goal EXCEPT !.status = s]
    <3>1. "waiting_for_user" \in Statuses \ Terminal
      BY DEF Statuses, Terminal
    <3> QED BY <1>1, <3>1, StatusAfter DEF ApplyAction
  <2> QED BY <2>1, StatusOnly
<1>7. Untouched \in File /\ Untouched.manifest = "none" /\ Untouched.content = "before"
  BY DEF Untouched, File
<1>8. tasks' \in [Tasks -> Task]
  BY <1>1, <1>3, Took
<1>9. TypeOK'
  BY <1>3, <1>4, <1>5, <1>6, <1>7, <1>8, Types, TypesNext
<1>10. ASSUME NEW t \in Tasks PROVE Carried(t) /\ turn'[t] \in {turn[t], "idle"}
  <2>0. turn'[t] = "idle" /\ Ledger(t) /\ OnDisk(t) /\ Unlanded(t) /\ goal.epoch \in Nat
    BY <1>1, <1>3, Counters DEF Rows, Row
  <2>1. CASE t = k
    <3>1. /\ Coherent(tasks'[k]) /\ tasks'[k].effectId = tasks[k].effectId
          /\ tasks'[k].claimEpoch = tasks[k].claimEpoch
          /\ tasks'[k].state \in {"waiting", "complete", "ready"}
          /\ tasks'[k].action = "none" /\ tasks'[k].txn = "none"
      BY <1>1, <1>3, Took
    <3>2. files'[k] = Untouched
      BY <1>3, Types
    <3>3. OnDisk(k)'
      BY <1>1, <1>3, <1>7, <3>1, <3>2 DEF OnDisk
    <3>4. ~Current(k)'
      BY <3>1 DEF Current
    <3> QED BY <1>5, <1>6, <2>0, <2>1, <3>1, <3>3, <3>4 DEF Carried, Ledger
  <2>2. CASE t # k
    <3>1. /\ Coherent(tasks'[t]) /\ tasks'[t].effectId = tasks[t].effectId
          /\ tasks'[t].action = tasks[t].action /\ tasks'[t].txn = tasks[t].txn
          /\ tasks'[t].claimEpoch = tasks[t].claimEpoch
          /\ tasks'[t].state = tasks[t].state \/ tasks'[t].state = "ready"
      <4>1. \/ tasks'[t] = tasks[t]
            \/ tasks'[t] = [tasks[t] EXCEPT !.agreed = FALSE,
                                !.state = IF @ = "complete" THEN "ready" ELSE @]
        BY <1>1, <1>3, <2>2, Took
      <4>2. tasks[t] \in Task /\ tasks'[t] \in Task /\ Coherent(tasks[t])
        BY <1>8, <2>0, Types DEF Ledger
      <4> QED BY <4>1, <4>2, ReopenedPeer
    <3>2. files'[t] = files[t]
      BY <1>3, <2>2, Types
    <3>3. OnDisk(t)'
      BY <1>1, <1>3, <2>0, <3>1, <3>2 DEF OnDisk
    <3>4. tasks[t].effectId # 0 => artifacts'[tasks[t].effectId] = artifacts[tasks[t].effectId]
      <4>1. tasks[t].effectId # 0 => tasks[t].effectId # e
        BY <2>2 DEF Numbered
      <4>2. tasks[t].effectId # 0 => tasks[t].effectId \in 1..Budget
        BY Types, EngineAssumption DEF Task
      <4> QED BY <1>4, <4>1, <4>2
    <3>5. Current(t)' => Current(t)
      BY <1>6, <3>1 DEF Current
    <3> QED BY <1>5, <1>6, <2>0, <3>1, <3>3, <3>4, <3>5 DEF Carried, Ledger
  <2> QED BY <2>0, <2>1, <2>2
<1>11. \A x \in 1..Budget : artifacts'[x] <= 1 /\ (artifacts'[x] > 0 => x <= goal.calls)
  BY <1>2, <1>4 DEF Numbered
<1>12. Place' /\ Quiet' /\ Written' /\ Settled'
  BY <1>1, <1>3, <1>5, <1>6 DEF Place, Quiet, Written, Settled, Terminal, Busy
<1> QED BY <1>6, <1>9, <1>10, <1>11, <1>12, LedgerStep

-----------------------------------------------------------------------------
\* Verification.

LEMMA NewTaskFacts ==
  ASSUME NEW s \in {"ready", "absent"}
  PROVE  LET r == NewTask(s) IN
         /\ r \in Task /\ r.state = s /\ r.leased = FALSE /\ r.claimEpoch = 0
         /\ r.effectId = 0 /\ r.unknown = FALSE /\ r.reconcile = FALSE
         /\ r.effect = "settled" /\ r.action = "none" /\ r.txn = "none" /\ Coherent(r)
<1> DEFINE r == NewTask(s)
<1>1. 0 \in 0..MaxEpoch /\ 0 \in 0..Budget
  BY EngineAssumption
<1>2. /\ r.state = s /\ r.leased = FALSE /\ r.claimEpoch = 0
      /\ r.effectId = 0 /\ r.unknown = FALSE /\ r.reconcile = FALSE
      /\ r.effect = "settled" /\ r.action = "none" /\ r.txn = "none"
  BY DEF NewTask
<1>3. r \in Task
  BY <1>1 DEF NewTask, Task, EffectStates, Pending, TaskStates
<1>4. Coherent(r)
  <2> HIDE DEF r
  <2> QED BY <1>2 DEF Coherent
<1> QED BY <1>2, <1>3, <1>4

\* Verification hands the goal on with another status.
LEMMA EndVerifyFacts ==
  ASSUME IInv, Verifying, NEW s \in Statuses, NEW pc \in {"schedule", "stopping"},
         EndVerify(s, pc), s \notin Terminal \/ (s = "complete" /\ pc = "stopping")
  PROVE  /\ up /\ goal' \in Goal /\ goal'.epoch = goal.epoch /\ goal'.calls = goal.calls
         /\ runner' \in Thread /\ runner'.todo = {} /\ UNCHANGED <<files, artifacts, turn, up, crashes>>
         /\ Place' /\ Quiet' /\ Written' /\ Settled'
         /\ \A t \in Tasks : turn[t] = "idle"
<1> USE DEF IInv
<1>1. /\ up /\ runner.pc = "verify" /\ {"verify", "schedule", "stopping"} \subseteq Busy
      /\ pc \in Phases /\ \A t \in Tasks : turn[t] = "idle"
  BY DEF Verifying, Busy, Phases, Place
<1>2. /\ goal' \in Goal /\ goal'.status = s /\ goal'.epoch = goal.epoch
      /\ goal'.calls = goal.calls /\ goal'.worker = goal.worker
  BY Types DEF EndVerify, Goal
<1>3. runner' = At(pc) /\ UNCHANGED <<files, artifacts, turn, up, crashes>>
  BY DEF EndVerify
<1>4. /\ runner' \in Thread /\ runner'.pc = pc /\ runner'.todo = {} /\ runner'.item = None
  BY <1>1, <1>3, Begins
<1>5. Place' /\ Quiet' /\ Written' /\ Settled'
  BY <1>1, <1>2, <1>3, <1>4 DEF Place, Quiet, Written, Settled, Terminal
<1> QED BY <1>1, <1>2, <1>3, <1>4, <1>5

LEMMA VerificationEnds ==
  ASSUME IInv, Verifying, NEW s \in Statuses, NEW pc \in {"schedule", "stopping"},
         EndVerify(s, pc), s \notin Terminal \/ (s = "complete" /\ pc = "stopping"),
         UNCHANGED tasks
  PROVE  IInv'
<1> QED BY EndVerifyFacts, GoalOnly, Types DEF IInv

LEMMA VerificationKeeps ==
  ASSUME IInv,
         \/ VerificationStopped \/ VerificationSuperseded
         \/ VerificationPasses \/ VerificationPauses
  PROVE  IInv'
<1>1. {"queued", "running", "paused", "complete"} \subseteq Statuses
      /\ Terminal = {"complete", "cancelled"} /\ goal.status \in Statuses
  BY Types DEF Statuses, Terminal, IInv, Goal
<1>2. Verifying => goal.status \notin Terminal
  BY DEF Verifying, IInv, Place, Busy
<1>3. CASE VerificationStopped
  <2>1. Verifying /\ EndVerify(goal.status, "stopping") /\ UNCHANGED tasks
    BY <1>3 DEF VerificationStopped
  <2> QED BY <1>1, <1>2, <2>1, VerificationEnds
<1>4. CASE VerificationSuperseded
  <2>1. PICK s \in {"queued", "running"} :
            Verifying /\ EndVerify(s, "schedule") /\ UNCHANGED tasks
    BY <1>4 DEF VerificationSuperseded
  <2>2. s \in Statuses /\ s \notin Terminal
    BY <1>1
  <2> QED BY <2>1, <2>2, VerificationEnds
<1>5. CASE VerificationPasses
  <2>1. Verifying /\ EndVerify("complete", "stopping") /\ UNCHANGED tasks
    BY <1>5 DEF VerificationPasses, Checked
  <2> QED BY <1>1, <2>1, VerificationEnds
<1>6. CASE VerificationPauses
  <2>1. Verifying /\ EndVerify("paused", "stopping") /\ UNCHANGED tasks
    BY <1>6 DEF VerificationPauses, Checked
  <2>2. "paused" \in Statuses /\ "paused" \notin Terminal
    BY <1>1
  <2> QED BY <2>1, <2>2, VerificationEnds
<1> QED BY <1>3, <1>4, <1>5, <1>6

LEMMA VerificationFailsKeeps ==
  ASSUME IInv, NEW spare \in Tasks, VerificationFails(spare)
  PROVE  IInv'
<1> USE DEF IInv
<1>1. /\ Verifying /\ EndVerify("queued", "schedule") /\ "queued" \in Statuses
      /\ "queued" \notin Terminal /\ tasks[spare].state = "absent"
  BY DEF VerificationFails, Checked, Statuses, Terminal
<1>2. /\ up /\ goal' \in Goal /\ goal'.epoch = goal.epoch /\ goal'.calls = goal.calls
      /\ runner' \in Thread /\ runner'.todo = {}
      /\ UNCHANGED <<files, artifacts, turn, up, crashes>>
      /\ Place' /\ Quiet' /\ Written' /\ Settled'
      /\ \A t \in Tasks : turn[t] = "idle"
  <2>1. EndVerify("queued", "schedule") /\ Verifying
    BY <1>1
  <2>2. "queued" \in Statuses /\ "schedule" \in {"schedule", "stopping"}
        /\ "queued" \notin Terminal
    BY <1>1
  <2> QED BY <2>1, <2>2, EndVerifyFacts
<1> DEFINE r == NewTask("ready")
<1>3. /\ r \in Task /\ r.state = "ready" /\ r.claimEpoch = 0 /\ r.effectId = 0
      /\ r.action = "none" /\ r.txn = "none" /\ Coherent(r)
  BY NewTaskFacts
<1>4. tasks' = [tasks EXCEPT ![spare] = r]
  BY DEF VerificationFails
<1> HIDE DEF r
<1>5. /\ tasks' \in [Tasks -> Task] /\ tasks'[spare] = r
      /\ \A t \in Tasks : t # spare => tasks'[t] = tasks[t]
  BY <1>3, <1>4, Types
<1>6. TypeOK'
  BY <1>2, <1>5, Types, TypesNext
<1>7. ASSUME NEW t \in Tasks PROVE Carried(t) /\ turn'[t] \in {turn[t], "idle"}
  <2>1. Ledger(t) /\ OnDisk(t) /\ goal.epoch \in Nat
    BY Counters DEF Rows, Row
  <2>2. CASE t = spare
    <3>1. tasks[t].txn = "none" /\ t \notin Founders /\ tasks[t].effectId = 0
      BY <1>1, <2>1, <2>2 DEF Ledger, Coherent
    <3>2. OnDisk(t)'
      BY <1>2, <1>3, <1>5, <2>1, <2>2, <3>1 DEF OnDisk
    <3> QED BY <1>2, <1>3, <1>5, <2>1, <2>2, <3>1, <3>2 DEF Carried
  <2>3. CASE t # spare
    <3>1. OnDisk(t)'
      BY <1>2, <1>5, <2>1, <2>3 DEF OnDisk
    <3> QED BY <1>2, <1>5, <2>1, <2>3, <3>1 DEF Carried, Ledger
  <2> QED BY <2>2, <2>3
<1>8. \A e \in 1..Budget : artifacts'[e] <= 1 /\ (artifacts'[e] > 0 => e <= goal.calls)
  BY <1>2 DEF Numbered
<1> QED BY <1>2, <1>6, <1>7, <1>8, LedgerStep

-----------------------------------------------------------------------------
\* Cancellation, and the end of the scheduler thread.

LEMMA SettledTaskFacts ==
  ASSUME NEW t \in Tasks, tasks[t] \in Task, Coherent(tasks[t])
  PROVE  LET r == SettledTask(t) IN
         /\ r \in Task /\ Coherent(r) /\ r.state = tasks[t].state
         /\ r.effectId = tasks[t].effectId /\ r.claimEpoch = tasks[t].claimEpoch
         /\ r.action = "none" /\ r.txn = "none"
         /\ \A s \in {r.state, "cancelled"} :
               LET q == [r EXCEPT !.state = s] IN
               /\ q \in Task /\ Coherent(q) /\ q.state = s
               /\ q.effectId = tasks[t].effectId /\ q.claimEpoch = tasks[t].claimEpoch
               /\ q.action = "none" /\ q.txn = "none"
<1> DEFINE m == Emptied(tasks[t])
           r == SettledTask(t)
<1>1. /\ m \in Task /\ m.state = tasks[t].state /\ m.effectId = tasks[t].effectId
      /\ m.claimEpoch = tasks[t].claimEpoch /\ m.action = "none" /\ m.txn = "none"
      /\ m.leased = tasks[t].leased
  <2>1. 0 \in 0..Budget
    BY EngineAssumption
  <2> QED BY <2>1 DEF Emptied, Task, Pending
<1>2. r = [m EXCEPT !.unknown = FALSE, !.reconcile = FALSE, !.effect = "settled"]
  BY DEF SettledTask
<1> HIDE DEF m, r
<1>3. /\ r \in Task /\ r.state = tasks[t].state /\ r.effectId = tasks[t].effectId
      /\ r.claimEpoch = tasks[t].claimEpoch /\ r.action = "none" /\ r.txn = "none"
      /\ r.leased = tasks[t].leased /\ r.unknown = FALSE /\ r.reconcile = FALSE
      /\ r.effect = "settled"
  BY <1>1, <1>2 DEF Task, EffectStates
<1>4. Coherent(r)
  BY <1>3 DEF Coherent
<1>5. ASSUME NEW s \in {r.state, "cancelled"}
      PROVE  LET q == [r EXCEPT !.state = s] IN
             /\ q \in Task /\ Coherent(q) /\ q.state = s
             /\ q.effectId = tasks[t].effectId /\ q.claimEpoch = tasks[t].claimEpoch
             /\ q.action = "none" /\ q.txn = "none"
  <2> DEFINE q == [r EXCEPT !.state = s]
  <2>1. /\ q \in Task /\ q.state = s /\ q.effectId = tasks[t].effectId
        /\ q.claimEpoch = tasks[t].claimEpoch /\ q.action = "none" /\ q.txn = "none"
        /\ q.leased = tasks[t].leased /\ q.unknown = FALSE /\ q.reconcile = FALSE
        /\ q.effect = "settled"
    BY <1>3 DEF Task, TaskStates
  <2> HIDE DEF q
  <2>2. Coherent(q)
    BY <1>3, <2>1 DEF Coherent
  <2> QED BY <2>1, <2>2 DEF q
<1> QED BY <1>3, <1>4, <1>5 DEF r

\* A task whose transaction cannot be settled waits for the user's decision.
LEMMA Parked ==
  ASSUME NEW r \in Task, Coherent(r), r.state \in {"running", "pending_apply"}
  PROVE  LET q == [WithoutLease(r) EXCEPT !.state = "blocked"] IN
         /\ q \in Task /\ Coherent(q) /\ q.state = "blocked" /\ q.effectId = r.effectId
         /\ q.claimEpoch = r.claimEpoch /\ q.action = r.action /\ q.txn = r.txn
         /\ q.leased = FALSE
<1> DEFINE w == WithoutLease(r)
           q == [w EXCEPT !.state = "blocked"]
<1>1. /\ w \in Task /\ w.leased = FALSE /\ w.effectId = r.effectId /\ w.claimEpoch = r.claimEpoch
      /\ w.action = r.action /\ w.txn = r.txn /\ w.txnEffect = r.txnEffect
      /\ w.unknown = r.unknown /\ w.reconcile = r.reconcile /\ w.effect = r.effect
  BY DEF WithoutLease, Task
<1> HIDE DEF w
<1>2. /\ q \in Task /\ q.leased = FALSE /\ q.effectId = r.effectId /\ q.claimEpoch = r.claimEpoch
      /\ q.action = r.action /\ q.txn = r.txn /\ q.txnEffect = r.txnEffect
      /\ q.unknown = r.unknown /\ q.reconcile = r.reconcile /\ q.effect = r.effect
      /\ q.state = "blocked"
  BY <1>1 DEF Task, TaskStates
<1> HIDE DEF q
<1>3. Coherent(q)
  BY <1>2 DEF Coherent, Finished
<1> QED BY <1>2, <1>3 DEF q, w

\* Nobody is at work when a cancellation is finished.
LEMMA FinishCancellationKeeps ==
  ASSUME IInv, NEW w \in {"none", "dead"}, FinishCancellation(w), up,
         \A t \in Tasks : turn[t] = "idle", UNCHANGED <<turn, up, crashes>>,
         runner' \in Thread, runner'.pc \in {"none", "handling", "leaving"},
         runner'.todo = {}, runner'.item = None
  PROVE  IInv'
<1> USE DEF IInv
<1>1. PICK S \in SUBSET {t \in Tasks : CanSettle(t)} :
        /\ files' = [t \in Tasks |->
              IF t \in S /\ tasks[t].txn # "none" THEN Untouched ELSE files[t]]
        /\ artifacts' = Publishing(S)
        /\ \/ /\ S = Tasks
              /\ tasks' = [t \in Tasks |-> [SettledTask(t) EXCEPT
                               !.state = IF @ \in Finished THEN @ ELSE "cancelled"]]
              /\ goal' = [goal EXCEPT !.status = "cancelled", !.worker = "none"]
           \/ /\ tasks' = [t \in Tasks |->
                    IF t \in S THEN SettledTask(t)
                    ELSE IF tasks[t].txn # "none" /\ tasks[t].state \in {"running", "pending_apply"}
                    THEN [WithoutLease(tasks[t]) EXCEPT !.state = "blocked"]
                    ELSE tasks[t]]
              /\ goal' = [goal EXCEPT !.status = "paused", !.worker = w]
  <2>1. CASE SettlesForCancellation
    BY <2>1 DEF SettlesForCancellation, SettleTasks
  <2>2. CASE CancellationBlocked(w)
    BY <2>2 DEF CancellationBlocked, SettleTasks
  <2> QED BY <2>1, <2>2 DEF FinishCancellation
<1>2. /\ goal' \in Goal /\ goal'.status \in {"cancelled", "paused"} /\ goal'.epoch = goal.epoch
      /\ goal'.calls = goal.calls /\ goal'.worker \in {"none", "dead"}
      /\ goal'.status = "cancelled" => goal'.worker = "none" /\ S = Tasks
            /\ tasks' = [t \in Tasks |-> [SettledTask(t) EXCEPT
                             !.state = IF @ \in Finished THEN @ ELSE "cancelled"]]
  BY <1>1, Types DEF Goal, Statuses
<1>3. ASSUME NEW t \in Tasks
      PROVE  tasks[t] \in Task /\ Coherent(tasks[t]) /\ Row(t) /\ files[t] \in File
  BY Types DEF Rows, Row, Ledger
<1>4. ASSUME NEW t \in Tasks, t \in S
      PROVE  /\ tasks'[t] \in Task /\ Coherent(tasks'[t])
             /\ tasks'[t].effectId = tasks[t].effectId
             /\ tasks'[t].claimEpoch = tasks[t].claimEpoch
             /\ tasks'[t].action = "none" /\ tasks'[t].txn = "none"
             /\ tasks'[t].state \in {tasks[t].state, "cancelled"}
             /\ goal'.status = "cancelled" => tasks'[t].state \in Finished
  <2> DEFINE r == SettledTask(t)
  <2>1. /\ r \in Task /\ Coherent(r) /\ r.state = tasks[t].state
        /\ r.effectId = tasks[t].effectId /\ r.claimEpoch = tasks[t].claimEpoch
        /\ r.action = "none" /\ r.txn = "none"
        /\ \A s \in {r.state, "cancelled"} :
               LET q == [r EXCEPT !.state = s] IN
               /\ q \in Task /\ Coherent(q) /\ q.state = s
               /\ q.effectId = tasks[t].effectId /\ q.claimEpoch = tasks[t].claimEpoch
               /\ q.action = "none" /\ q.txn = "none"
    BY <1>3, SettledTaskFacts
  <2> HIDE DEF r
  <2>2. CASE tasks'[t] = r /\ goal'.status # "cancelled"
    BY <2>1, <2>2
  <2>3. CASE tasks'[t] = [r EXCEPT !.state = IF @ \in Finished THEN @ ELSE "cancelled"]
    <3>1. PICK s \in {r.state, "cancelled"} :
             tasks'[t] = [r EXCEPT !.state = s] /\ s \in Finished
      BY <2>3 DEF Finished
    <3> QED BY <2>1, <3>1
  <2>4. goal' = [goal EXCEPT !.status = "paused", !.worker = w] => goal'.status # "cancelled"
    BY Types DEF Goal
  <2> QED BY <1>1, <1>4, <2>2, <2>3, <2>4 DEF r
<1>5. ASSUME NEW t \in Tasks, t \notin S
      PROVE  /\ tasks'[t] \in Task /\ Coherent(tasks'[t])
             /\ tasks'[t].effectId = tasks[t].effectId
             /\ tasks'[t].claimEpoch = tasks[t].claimEpoch
             /\ tasks'[t].action = tasks[t].action /\ tasks'[t].txn = tasks[t].txn
             /\ tasks'[t].state \in {tasks[t].state, "blocked"}
  <2>1. \/ tasks'[t] = tasks[t]
        \/ /\ tasks[t].state \in {"running", "pending_apply"}
           /\ tasks'[t] = [WithoutLease(tasks[t]) EXCEPT !.state = "blocked"]
    BY <1>1, <1>5
  <2>2. CASE tasks'[t] = tasks[t]
    BY <1>3, <2>2
  <2>3. CASE /\ tasks[t].state \in {"running", "pending_apply"}
             /\ tasks'[t] = [WithoutLease(tasks[t]) EXCEPT !.state = "blocked"]
    <3> DEFINE q == [WithoutLease(tasks[t]) EXCEPT !.state = "blocked"]
    <3>1. tasks[t] \in Task /\ Coherent(tasks[t])
      BY <1>3
    <3>2. /\ q \in Task /\ Coherent(q) /\ q.state = "blocked"
          /\ q.effectId = tasks[t].effectId /\ q.claimEpoch = tasks[t].claimEpoch
          /\ q.action = tasks[t].action /\ q.txn = tasks[t].txn
      BY <2>3, <3>1, Parked
    <3> HIDE DEF q
    <3> QED BY <2>3, <3>2 DEF q
  <2> QED BY <2>1, <2>2, <2>3
<1>6. tasks' \in [Tasks -> Task]
  <2>1. \A t \in Tasks : tasks'[t] \in Task
    BY <1>4, <1>5
  <2>2. tasks' = [t \in Tasks |-> tasks'[t]]
    BY <1>1
  <2> QED BY <2>1, <2>2
<1>7. /\ Untouched \in File /\ Untouched.manifest = "none" /\ Untouched.content = "before"
      /\ files' \in [Tasks -> File]
  <2>1. Untouched \in File /\ Untouched.manifest = "none" /\ Untouched.content = "before"
    BY DEF Untouched, File
  <2>2. \A t \in Tasks : (IF t \in S /\ tasks[t].txn # "none" THEN Untouched ELSE files[t]) \in File
    BY <1>3, <2>1
  <2> QED BY <1>1, <2>1, <2>2
<1>8. /\ artifacts' \in [1..Budget -> Nat]
      /\ \A e \in 1..Budget : artifacts'[e] <= 1 /\ (artifacts'[e] > 0 => e <= goal.calls)
      /\ \A t \in Tasks : tasks[t].effectId # 0 /\ t \notin S =>
             artifacts'[tasks[t].effectId] = artifacts[tasks[t].effectId]
  BY <1>1, PublishedOnce
<1>9. TypeOK'
  BY <1>2, <1>6, <1>7, <1>8, Types, TypesNext
<1>10. ASSUME NEW t \in Tasks PROVE Carried(t) /\ turn'[t] \in {turn[t], "idle"}
  <2>1. turn'[t] = "idle" /\ Ledger(t) /\ OnDisk(t)
    BY <1>3 DEF Row
  <2>2. CASE t \in S
    <3>1. files'[t] = Untouched \/ (files'[t] = files[t] /\ tasks[t].txn = "none")
      <4>1. files'[t] = IF t \in S /\ tasks[t].txn # "none" THEN Untouched ELSE files[t]
        BY <1>1
      <4> QED BY <2>2, <4>1
    <3>2. OnDisk(t)'
      BY <1>4, <1>7, <2>1, <2>2, <3>1 DEF OnDisk
    <3>3. t \in Founders => tasks'[t].state # "absent"
      BY <1>4, <2>1, <2>2 DEF Ledger
    <3> QED BY <1>2, <1>4, <2>1, <2>2, <3>2, <3>3 DEF Carried, Ledger
  <2>3. CASE t \notin S
    <3>1. files'[t] = files[t]
      BY <1>1, <2>3
    <3>2. OnDisk(t)'
      BY <1>5, <2>1, <2>3, <3>1 DEF OnDisk
    <3>3. t \in Founders => tasks'[t].state # "absent"
      BY <1>5, <2>1, <2>3 DEF Ledger
    <3> QED BY <1>2, <1>5, <1>8, <2>1, <2>3, <3>2, <3>3 DEF Carried, Ledger
  <2> QED BY <2>2, <2>3
<1>11. Place' /\ Written' /\ Settled'
  BY <1>2 DEF Place, Written, Settled, Busy
<1>12. Quiet'
  BY <1>2, <1>4 DEF Quiet
<1> QED BY <1>2, <1>8, <1>9, <1>10, <1>11, <1>12, LedgerStep

LEMMA StopRunKeeps ==
  ASSUME IInv, StopRun
  PROVE  IInv'
<1> USE DEF IInv
<1>1. /\ up /\ runner.pc \in {"stopping", "failing"} /\ {"stopping", "failing"} \subseteq Busy
      /\ {"handling", "leaving"} \subseteq Phases /\ \A t \in Tasks : turn[t] = "idle"
      /\ UNCHANGED <<turn, up, crashes>>
  BY DEF StopRun, Busy, Phases, Place
<1>2. /\ runner' \in Thread /\ runner'.pc \in {"handling", "leaving"}
      /\ runner'.todo = {} /\ runner'.item = None
  <2>1. PICK pc \in {"handling", "leaving"} : runner' = At(pc)
    BY DEF StopRun
  <2> QED BY <1>1, <2>1, Begins
<1>3. CASE goal.status = "cancelling"
  BY <1>1, <1>2, <1>3, FinishCancellationKeeps DEF StopRun
<1>4. CASE goal.status # "cancelling"
  <2>1. /\ goal' \in Goal /\ goal'.status = goal.status /\ goal'.epoch = goal.epoch
        /\ goal'.calls = goal.calls /\ goal'.worker = "none"
        /\ UNCHANGED <<tasks, files, artifacts>>
    BY <1>4, Types DEF StopRun, Goal
  <2>2. Place' /\ Quiet' /\ Written' /\ Settled'
    BY <1>1, <1>2, <2>1 DEF Place, Quiet, Written, Settled, Busy
  <2> QED BY <1>1, <1>2, <2>1, <2>2, GoalOnly, Types
<1> QED BY <1>3, <1>4

LEMMA HandleFailureKeeps ==
  ASSUME IInv, HandleFailure
  PROVE  IInv'
<1> USE DEF IInv
<1>1. /\ up /\ runner.pc = "handling" /\ "handling" \notin Busy /\ "leaving" \notin Busy
      /\ runner' = At("leaving") /\ "leaving" \in Phases
      /\ \A t \in Tasks : turn[t] = "idle"
      /\ UNCHANGED <<files, artifacts, turn, up, crashes>>
  BY DEF HandleFailure, Busy, Phases, Place
<1>2. /\ runner' \in Thread /\ runner'.pc = "leaving" /\ runner'.todo = {} /\ runner'.item = None
  BY <1>1, Begins
<1>3. CASE UNCHANGED <<goal, tasks>>
  <2>1. Place' /\ Quiet' /\ Written' /\ Settled'
    BY <1>1, <1>2, <1>3 DEF Place, Quiet, Written, Settled
  <2> QED BY <1>1, <1>2, <1>3, <2>1, GoalOnly, Types
<1>4. CASE /\ Runnable /\ goal' = [goal EXCEPT !.status = "paused"]
           /\ tasks' = [t \in Tasks |->
                  IF tasks[t].state \in {"running", "pending_apply"} /\ tasks[t].action # "none"
                  THEN [WithoutLease(tasks[t]) EXCEPT !.state = "blocked"] ELSE tasks[t]]
  <2>1. /\ goal' \in Goal /\ goal'.status = "paused" /\ goal'.epoch = goal.epoch
        /\ goal'.calls = goal.calls /\ goal'.worker = goal.worker
    BY <1>4, StatusOnly DEF Statuses, Terminal
  <2>2. ASSUME NEW t \in Tasks
        PROVE  /\ tasks'[t] \in Task /\ Coherent(tasks'[t])
               /\ tasks'[t].effectId = tasks[t].effectId
               /\ tasks'[t].claimEpoch = tasks[t].claimEpoch
               /\ tasks'[t].action = tasks[t].action /\ tasks'[t].txn = tasks[t].txn
               /\ tasks'[t].state \in {tasks[t].state, "blocked"}
    <3> DEFINE q == [WithoutLease(tasks[t]) EXCEPT !.state = "blocked"]
    <3>1. tasks[t] \in Task /\ Coherent(tasks[t])
      BY Types DEF Rows, Row, Ledger
    <3>2. CASE tasks'[t] = tasks[t]
      BY <3>1, <3>2
    <3>3. CASE tasks[t].state \in {"running", "pending_apply"} /\ tasks'[t] = q
      <4>1. /\ q \in Task /\ Coherent(q) /\ q.state = "blocked"
            /\ q.effectId = tasks[t].effectId /\ q.claimEpoch = tasks[t].claimEpoch
            /\ q.action = tasks[t].action /\ q.txn = tasks[t].txn
        BY <3>1, <3>3, Parked
      <4> HIDE DEF q
      <4> QED BY <3>3, <4>1
    <3>4. \/ tasks'[t] = tasks[t]
          \/ tasks[t].state \in {"running", "pending_apply"} /\ tasks'[t] = q
      BY <1>4
    <3> QED BY <3>2, <3>3, <3>4
  <2>3. tasks' \in [Tasks -> Task]
    <3>1. tasks' = [t \in Tasks |-> tasks'[t]]
      BY <1>4
    <3> QED BY <2>2, <3>1
  <2>4. TypeOK'
    BY <1>1, <1>2, <2>1, <2>3, Types, TypesNext
  <2>5. ASSUME NEW t \in Tasks PROVE Carried(t) /\ turn'[t] \in {turn[t], "idle"}
    <3>1. turn'[t] = "idle" /\ Ledger(t) /\ OnDisk(t)
      BY <1>1 DEF Rows, Row
    <3>2. OnDisk(t)'
      BY <1>1, <2>2, <3>1 DEF OnDisk
    <3> QED BY <1>1, <1>2, <2>1, <2>2, <3>1, <3>2 DEF Carried, Ledger
  <2>6. \A e \in 1..Budget : artifacts'[e] <= 1 /\ (artifacts'[e] > 0 => e <= goal.calls)
    BY <1>1 DEF Numbered
  <2>7. Place' /\ Quiet' /\ Written' /\ Settled'
    BY <1>1, <1>2, <2>1 DEF Place, Quiet, Written, Settled, Busy
  <2> QED BY <2>1, <2>4, <2>5, <2>6, <2>7, LedgerStep
<1> QED BY <1>3, <1>4 DEF HandleFailure

-----------------------------------------------------------------------------
\* The user's controls.

LEMMA TouchedFacts ==
  ASSUME TypeOK
  PROVE  /\ Touched \in Thread /\ Touched.pc = runner.pc /\ Touched.todo = runner.todo
         /\ Touched.item = runner.item
<1> QED BY Types DEF Touched, Thread

LEMMA PauseKeeps ==
  ASSUME IInv, Pause
  PROVE  IInv'
<1> USE DEF IInv
<1>1. /\ up /\ runner.pc # "apply" /\ goal.status \notin Terminal /\ goal.status # "cancelling"
      /\ runner' = Touched /\ UNCHANGED <<tasks, files, artifacts, turn, up, crashes>>
  BY DEF Pause, Control
<1>2. /\ goal' \in Goal /\ goal'.status = "paused" /\ goal'.epoch = goal.epoch
      /\ goal'.calls = goal.calls /\ goal'.worker = goal.worker
  BY StatusOnly DEF Pause, WithStatus, Statuses, Terminal
<1>3. Place' /\ Quiet' /\ Written' /\ Settled'
  BY <1>1, <1>2, TouchedFacts DEF Place, Quiet, Written, Settled, Terminal
<1> QED BY <1>1, <1>2, <1>3, TouchedFacts, GoalOnly, Types

LEMMA CancelKeeps ==
  ASSUME IInv, Cancel
  PROVE  IInv'
<1> USE DEF IInv
<1>1. /\ up /\ runner.pc # "apply" /\ goal.status \notin Terminal /\ goal.status # "cancelling"
      /\ runner' = Touched /\ UNCHANGED <<turn, up, crashes>>
  BY DEF Cancel, Control
<1>2. CASE goal.worker = "live"
  <2>1. /\ goal' \in Goal /\ goal'.status = "cancelling" /\ goal'.epoch = goal.epoch
        /\ goal'.calls = goal.calls /\ goal'.worker = goal.worker
        /\ UNCHANGED <<tasks, files, artifacts>>
    <3>1. /\ goal' = [goal EXCEPT !.status = "cancelling"]
          /\ UNCHANGED <<tasks, files, artifacts>>
      BY <1>2 DEF Cancel, WithStatus
    <3>2. "cancelling" \in Statuses \ Terminal
      BY DEF Statuses, Terminal
    <3> QED BY <3>1, <3>2, StatusOnly
  <2>2. Place' /\ Quiet' /\ Written' /\ Settled'
    BY <1>1, <2>1, TouchedFacts DEF Place, Quiet, Written, Settled, Terminal
  <2> QED BY <1>1, <2>1, <2>2, TouchedFacts, GoalOnly, Types
<1>3. CASE goal.worker # "live"
  <2>1. /\ runner.pc \in {"none", "handling", "leaving"} /\ runner.todo = {} /\ runner.item = None
        /\ \A t \in Tasks : turn[t] = "idle"
    <3>1. runner.pc \in Phases \ Busy /\ runner.pc # "recovering" /\ runner.pc # "act"
      BY <1>1, <1>3, Types DEF Place, Thread, Busy
    <3> QED BY <1>1, <3>1 DEF Place, Phases
  <2>2. goal.worker \in {"none", "dead"} /\ FinishCancellation(goal.worker)
    BY <1>3, Types DEF Cancel, Goal
  <2> QED BY <1>1, <2>1, <2>2, TouchedFacts, FinishCancellationKeeps
<1> QED BY <1>2, <1>3

LEMMA RecoverCancelledKeeps ==
  ASSUME IInv, RecoverCancelled
  PROVE  IInv'
<1> USE DEF IInv
<1>1. /\ up /\ runner.pc = "recovering" /\ "recovering" \notin Busy /\ runner' = Idle
      /\ UNCHANGED <<turn, up, crashes>> /\ FinishCancellation(goal.worker)
      /\ \A t \in Tasks : turn[t] = "idle"
  BY DEF RecoverCancelled, Busy, Place
<1>2. goal.worker \in {"none", "dead"}
  BY <1>1, Types DEF Place, Goal
<1> QED BY <1>1, <1>2, IdleThread, FinishCancellationKeeps

-----------------------------------------------------------------------------
\* A crash and the recovery.

LEMMA CrashKeeps ==
  ASSUME IInv, Crash
  PROVE  IInv'
<1> USE DEF IInv
<1>1. /\ up' = FALSE /\ crashes' \in 0..MaxCrashes /\ runner' = Idle
      /\ turn' = [t \in Tasks |-> "idle"] /\ UNCHANGED <<tasks, files, artifacts>>
      /\ CrashInRollback \/ \A t \in InState({"running"}) : files[t].manifest # "rolling_back"
  <2>1. crashes \in 0..MaxCrashes /\ MaxCrashes \in Nat /\ crashes < MaxCrashes
    BY Types, EngineAssumption DEF Crash
  <2> QED BY <2>1 DEF Crash
<1>2. /\ goal' \in Goal /\ goal'.status = goal.status /\ goal'.epoch = goal.epoch
      /\ goal'.calls = goal.calls /\ goal'.worker # "live"
      /\ goal.worker = "none" => goal'.worker = "none"
  BY Types DEF Crash, Goal
<1>3. turn' \in [Tasks -> Executions] /\ \A t \in Tasks : turn'[t] = "idle"
  BY <1>1 DEF Executions
<1>4. TypeOK'
  BY <1>1, <1>2, <1>3, IdleThread, Types, TypesNext
<1>5. ASSUME NEW t \in Tasks PROVE Carried(t) /\ turn'[t] \in {turn[t], "idle"}
  <2>1. turn'[t] = "idle" /\ Ledger(t) /\ OnDisk(t)
    BY <1>3 DEF Rows, Row
  <2>2. OnDisk(t)'
    BY <1>1, <2>1 DEF OnDisk, InState
  <2> QED BY <1>1, <1>2, <2>1, <2>2, IdleThread DEF Carried, Ledger
<1>6. \A e \in 1..Budget : artifacts'[e] <= 1 /\ (artifacts'[e] > 0 => e <= goal.calls)
  BY <1>1 DEF Numbered
<1>7. Place' /\ Quiet' /\ Written' /\ Settled'
  BY <1>1, <1>2, <1>3, IdleThread DEF Place, Quiet, Written, Settled, Busy
<1> QED BY <1>2, <1>4, <1>5, <1>6, <1>7, LedgerStep

\* What recovery makes of an acknowledged action.
LEMMA RecoveredActionFacts ==
  ASSUME NEW t \in Tasks, tasks[t] \in Task, Coherent(tasks[t]), tasks[t].state = "running",
         tasks[t].action # "none"
  PROVE  LET r == RecoveredAction(t) IN
         /\ r \in Task /\ Coherent(r) /\ r.state \in {"pending_apply", "blocked"}
         /\ r.effectId = tasks[t].effectId /\ r.claimEpoch = tasks[t].claimEpoch
         /\ r.action = tasks[t].action /\ r.agreed = tasks[t].agreed
         /\ \/ r.txn = tasks[t].txn
            \/ /\ r.txn = "applied" /\ tasks[t].txn = "prepared"
               /\ files[t].manifest = "applied"
            \/ /\ r.txn = "none" /\ tasks[t].txn = "prepared"
               /\ files[t].manifest # "applied" /\ ~InDoubt(t)
<1> DEFINE p == [tasks[t] EXCEPT !.state = "pending_apply"]
           r == RecoveredAction(t)
<1>1. /\ p \in Task /\ p.state = "pending_apply" /\ p.leased = TRUE
      /\ p.effectId = tasks[t].effectId /\ p.claimEpoch = tasks[t].claimEpoch
      /\ p.action = tasks[t].action /\ p.txn = tasks[t].txn /\ p.agreed = tasks[t].agreed
      /\ p.txnEffect = tasks[t].txnEffect /\ p.unknown = FALSE /\ p.reconcile = FALSE
      /\ p.effect = "acknowledged" /\ (p.txn # "none" => p.txnEffect = p.effectId)
  BY DEF Task, TaskStates, Coherent
<1>2. \/ tasks[t].txn # "prepared" /\ r = p
      \/ files[t].manifest = "applied" /\ tasks[t].txn = "prepared" /\ r = [p EXCEPT !.txn = "applied"]
      \/ tasks[t].txn = "prepared" /\ r = [p EXCEPT !.state = "blocked", !.unknown = TRUE]
      \/ /\ tasks[t].txn = "prepared" /\ files[t].manifest # "applied" /\ ~InDoubt(t)
         /\ r = [p EXCEPT !.txn = "none", !.txnEffect = 0]
  BY DEF RecoveredAction
<1> HIDE DEF p, r
<1>3. CASE r = p
  <2>1. Coherent(p)
    BY <1>1 DEF Coherent, Finished
  <2> QED BY <1>1, <1>3, <2>1 DEF r
<1>4. CASE files[t].manifest = "applied" /\ tasks[t].txn = "prepared" /\ r = [p EXCEPT !.txn = "applied"]
  <2>1. /\ r \in Task /\ r.state = "pending_apply" /\ r.leased = TRUE
        /\ r.effectId = p.effectId /\ r.claimEpoch = p.claimEpoch
        /\ r.action = p.action /\ r.agreed = p.agreed /\ r.txn = "applied" /\ r.txnEffect = p.txnEffect
        /\ r.unknown = FALSE /\ r.reconcile = FALSE /\ r.effect = "acknowledged"
    BY <1>1, <1>4 DEF Task
  <2>2. Coherent(r)
    BY <1>1, <1>4, <2>1 DEF Coherent, Finished
  <2> QED BY <1>1, <1>4, <2>1, <2>2 DEF r
<1>5. CASE tasks[t].txn = "prepared" /\ r = [p EXCEPT !.state = "blocked", !.unknown = TRUE]
  <2>1. /\ r \in Task /\ r.state = "blocked" /\ r.leased = TRUE
        /\ r.effectId = p.effectId /\ r.claimEpoch = p.claimEpoch
        /\ r.action = p.action /\ r.agreed = p.agreed /\ r.txn = p.txn /\ r.txnEffect = p.txnEffect
        /\ r.unknown = TRUE /\ r.reconcile = FALSE /\ r.effect = "acknowledged"
    BY <1>1, <1>5 DEF Task, TaskStates
  <2>2. Coherent(r)
    BY <1>1, <1>5, <2>1 DEF Coherent, Finished
  <2> QED BY <1>1, <1>5, <2>1, <2>2 DEF r
<1>6. CASE /\ tasks[t].txn = "prepared" /\ files[t].manifest # "applied" /\ ~InDoubt(t)
           /\ r = [p EXCEPT !.txn = "none", !.txnEffect = 0]
  <2>1. 0 \in 0..Budget
    BY EngineAssumption
  <2>2. /\ r \in Task /\ r.state = "pending_apply" /\ r.leased = TRUE
        /\ r.effectId = p.effectId /\ r.claimEpoch = p.claimEpoch
        /\ r.action = p.action /\ r.agreed = p.agreed /\ r.txn = "none"
        /\ r.unknown = FALSE /\ r.reconcile = FALSE /\ r.effect = "acknowledged"
    BY <1>1, <1>6, <2>1 DEF Task
  <2>3. Coherent(r)
    BY <1>1, <2>2 DEF Coherent, Finished
  <2> QED BY <1>1, <1>6, <2>2, <2>3 DEF r
<1> QED BY <1>2, <1>3, <1>4, <1>5, <1>6

\* What recovery makes of a running task: it keeps its call, and a transaction
\* it forgets is one that was put back or never came to a change.
LEMMA RecoveredTaskFacts ==
  ASSUME NEW t \in Tasks, tasks[t] \in Task, Coherent(tasks[t]), tasks[t].state = "running"
  PROVE  LET r == RecoveredTask(t) IN
         /\ r \in Task /\ Coherent(r) /\ r.state \in {"ready", "pending_apply", "blocked"}
         /\ r.effectId = tasks[t].effectId /\ r.claimEpoch = tasks[t].claimEpoch
         /\ r.action = tasks[t].action /\ r.agreed = tasks[t].agreed
         /\ \/ r.txn = tasks[t].txn
            \/ /\ r.txn = "applied" /\ tasks[t].txn = "prepared"
               /\ files[t].manifest = "applied"
            \/ /\ r.txn = "none" /\ tasks[t].txn = "prepared"
               /\ files[t].manifest # "applied" /\ ~InDoubt(t)
<1> DEFINE r == RecoveredTask(t)
           w == WithoutLease(tasks[t])
<1>1. CASE tasks[t].effect = "acknowledged" /\ tasks[t].action # "none"
  <2>1. r = RecoveredAction(t)
    BY <1>1 DEF RecoveredTask
  <2> HIDE DEF r
  <2> QED BY <1>1, <2>1, RecoveredActionFacts DEF r
<1>2. CASE ~(tasks[t].effect = "acknowledged" /\ tasks[t].action # "none")
  <2>1. /\ w \in Task /\ w.leased = FALSE /\ w.effectId = tasks[t].effectId
        /\ w.claimEpoch = tasks[t].claimEpoch /\ w.action = "none" /\ tasks[t].action = "none"
        /\ w.txn = "none" /\ tasks[t].txn = "none" /\ w.effect = tasks[t].effect
        /\ w.agreed = tasks[t].agreed
    BY <1>2 DEF WithoutLease, Task, Coherent
  <2>2. PICK s \in {"ready", "blocked"}, n \in BOOLEAN, c \in BOOLEAN, e \in EffectStates :
            /\ r = [w EXCEPT !.state = s, !.unknown = n, !.reconcile = c, !.effect = e]
            /\ n = TRUE => s = "blocked"
    <3>1. /\ w.reconcile \in BOOLEAN /\ w.effect \in EffectStates
          /\ w = [w EXCEPT !.reconcile = w.reconcile, !.effect = w.effect]
      BY <2>1 DEF Task
    <3>2. {"outcome_unknown", "reconciliation_required"} \subseteq EffectStates
      BY DEF EffectStates
    <3>3. CASE tasks[t].effect = "context"
      <4>1. r = [w EXCEPT !.state = "ready", !.unknown = FALSE]
        BY <3>3 DEF RecoveredTask
      <4> HIDE DEF r, w
      <4>2. r = [w EXCEPT !.state = "ready", !.unknown = FALSE,
                          !.reconcile = w.reconcile, !.effect = w.effect]
        BY <2>1, <4>1 DEF Task
      <4> QED BY <3>1, <4>2
    <3>4. CASE tasks[t].effect = "reply_received"
      <4>1. r = [w EXCEPT !.state = "blocked", !.unknown = FALSE, !.reconcile = TRUE,
                          !.effect = "reconciliation_required"]
        BY <3>4 DEF RecoveredTask
      <4> HIDE DEF r, w
      <4> QED BY <3>2, <4>1
    <3>5. CASE tasks[t].effect \notin {"context", "reply_received"}
      <4> DEFINE n == tasks[t].effect = "dispatched"
                 e == IF w.effect = "dispatched" THEN "outcome_unknown" ELSE w.effect
      <4>1. r = [w EXCEPT !.state = "blocked", !.unknown = n, !.effect = e]
        BY <1>2, <3>5 DEF RecoveredTask
      <4>2. n \in BOOLEAN /\ e \in EffectStates
        BY <3>1, <3>2
      <4> HIDE DEF n, e, r, w
      <4>3. r = [w EXCEPT !.state = "blocked", !.unknown = n,
                          !.reconcile = w.reconcile, !.effect = e]
        BY <2>1, <4>1 DEF Task
      <4> QED BY <3>1, <4>2, <4>3
    <3> QED BY <3>3, <3>4, <3>5
  <2> HIDE DEF r, w
  <2>3. /\ r \in Task /\ r.state = s /\ r.leased = FALSE /\ r.unknown = n
        /\ r.effectId = tasks[t].effectId /\ r.claimEpoch = tasks[t].claimEpoch
        /\ r.action = "none" /\ r.txn = "none" /\ r.agreed = tasks[t].agreed
    BY <2>1, <2>2 DEF Task, TaskStates
  <2>4. Coherent(r)
    BY <2>2, <2>3 DEF Coherent, Finished
  <2> QED BY <2>1, <2>3, <2>4 DEF r
<1> QED BY <1>1, <1>2

LEMMA RecoverKeeps ==
  ASSUME IInv, Recover
  PROVE  IInv'
<1> USE DEF IInv
<1>1. /\ ~up /\ up' = TRUE /\ runner.pc = "none" /\ "none" \notin Busy
      /\ \A t \in Tasks : turn[t] = "idle"
      /\ goal.worker # "live" /\ UNCHANGED <<artifacts, turn, crashes>>
  BY DEF Recover, Place, Busy
<1>2. /\ runner' \in Thread /\ runner'.todo = {} /\ runner'.item = None
      /\ runner'.pc \in {"none", "recovering"}
      /\ runner'.pc = "recovering" => goal.status = "cancelling"
  BY IdleThread, Begins DEF Recover, Phases
<1>3. /\ goal' \in Goal /\ goal'.epoch = goal.epoch /\ goal'.calls = goal.calls
      /\ goal'.worker # "live" /\ (goal.status = "cancelling" => goal'.status = "cancelling")
      /\ goal'.status = "cancelled" => UNCHANGED <<goal, tasks>>
  <2>1. CASE RecoverDead
    BY <1>1, <2>1, Types DEF RecoverDead, Unless, Goal, Statuses
  <2>2. CASE /\ goal' = IF goal.status = "queued"
                        THEN [goal EXCEPT !.status = "paused", !.worker = "none"] ELSE goal
             /\ UNCHANGED <<tasks, files>>
    BY <1>1, <2>2, Types DEF Goal, Statuses
  <2> QED BY <2>1, <2>2 DEF Recover
<1>4. ASSUME NEW t \in Tasks
      PROVE  \/ tasks'[t] = tasks[t] /\ files'[t] = files[t]
             \/ /\ tasks[t].state = "running" /\ tasks'[t] = RecoveredTask(t)
                /\ files'[t] = IF tasks[t].txn = "prepared" /\ PutBack(t)
                               THEN RolledBack ELSE files[t]
  BY DEF Recover, RecoverDead
<1>5. RolledBack \in File /\ RolledBack.manifest = "closed" /\ RolledBack.content = "before"
  BY DEF RolledBack, File
<1>6. ASSUME NEW t \in Tasks
      PROVE  /\ tasks'[t] \in Task /\ Coherent(tasks'[t]) /\ files'[t] \in File
             /\ tasks'[t].effectId = tasks[t].effectId
             /\ tasks'[t].claimEpoch = tasks[t].claimEpoch
             /\ tasks'[t].action = tasks[t].action
             /\ tasks'[t].state \in {tasks[t].state, "ready", "pending_apply", "blocked"}
             /\ OnDisk(t)'
  <2>1. tasks[t] \in Task /\ files[t] \in File /\ Coherent(tasks[t]) /\ OnDisk(t)
    BY Types DEF Rows, Row, Ledger
  <2>2. CASE tasks'[t] = tasks[t] /\ files'[t] = files[t]
    BY <1>1, <2>1, <2>2 DEF OnDisk
  <2>3. CASE /\ tasks[t].state = "running" /\ tasks'[t] = RecoveredTask(t)
             /\ files'[t] = IF tasks[t].txn = "prepared" /\ PutBack(t)
                            THEN RolledBack ELSE files[t]
    <3> DEFINE r == RecoveredTask(t)
    <3>1. /\ r \in Task /\ Coherent(r) /\ r.state \in {"ready", "pending_apply", "blocked"}
          /\ r.effectId = tasks[t].effectId /\ r.claimEpoch = tasks[t].claimEpoch
          /\ r.action = tasks[t].action
          /\ \/ r.txn = tasks[t].txn
             \/ r.txn = "applied" /\ files[t].manifest = "applied"
             \/ /\ r.txn = "none" /\ tasks[t].txn = "prepared"
                /\ files[t].manifest # "applied" /\ ~InDoubt(t)
      BY <2>1, <2>3, RecoveredTaskFacts
    <3> HIDE DEF r
    <3>2. tasks'[t] = r
      BY <2>3 DEF r
    <3>3. OnDisk(t)'
      <4>1. CASE tasks[t].txn = "prepared" /\ PutBack(t)
        <5>1. r.txn # "applied"
          BY <2>1, <3>1, <4>1 DEF OnDisk, PutBack
        <5> QED BY <1>1, <1>5, <2>3, <3>2, <4>1, <5>1 DEF OnDisk
      <4>2. CASE ~(tasks[t].txn = "prepared" /\ PutBack(t))
        <5>1. files'[t] = files[t]
          BY <2>3, <4>2
        <5>2. r.txn = "applied" => files[t].manifest = "applied"
          BY <2>1, <3>1 DEF OnDisk
        <5>3. ~CrashInRollback /\ r.txn = "none" => files[t].content = "before"
          <6>1. SUFFICES ASSUME ~CrashInRollback, r.txn = "none", tasks[t].txn = "prepared"
                         PROVE  files[t].content = "before"
            BY <2>1, <3>1 DEF OnDisk
          <6>2. files[t].manifest \notin {"applied", "rolling_back", "prepared"}
            BY <1>1, <2>1, <2>3, <3>1, <4>2, <6>1 DEF OnDisk, InDoubt, PutBack
          <6> QED BY <2>1, <6>2 DEF OnDisk, File
        <5> QED BY <1>1, <2>1, <3>2, <5>1, <5>2, <5>3 DEF OnDisk
      <4> QED BY <4>1, <4>2
    <3> QED BY <1>5, <2>1, <2>3, <3>1, <3>2, <3>3
  <2> QED BY <1>4, <2>2, <2>3
<1>7. tasks' \in [Tasks -> Task] /\ files' \in [Tasks -> File]
  <2>1. tasks' = [t \in Tasks |-> tasks'[t]] /\ files' = [t \in Tasks |-> files'[t]]
    <3>1. CASE RecoverDead
      BY <3>1 DEF RecoverDead
    <3>2. CASE UNCHANGED <<tasks, files>>
      BY <3>2, Types
    <3> QED BY <3>1, <3>2 DEF Recover
  <2> QED BY <1>6, <2>1
<1>8. TypeOK'
  BY <1>1, <1>2, <1>3, <1>7, Types, TypesNext
<1>9. ASSUME NEW t \in Tasks PROVE Carried(t) /\ turn'[t] \in {turn[t], "idle"}
  <2>1. turn'[t] = "idle" /\ Ledger(t)
    BY <1>1 DEF Rows, Row
  <2> QED BY <1>1, <1>2, <1>3, <1>6, <2>1 DEF Carried, Ledger
<1>10. \A e \in 1..Budget : artifacts'[e] <= 1 /\ (artifacts'[e] > 0 => e <= goal.calls)
  BY <1>1 DEF Numbered
<1>11. Place' /\ Quiet' /\ Written' /\ Settled'
  BY <1>1, <1>2, <1>3 DEF Place, Quiet, Written, Settled, Busy
<1> QED BY <1>3, <1>8, <1>9, <1>10, <1>11, LedgerStep

-----------------------------------------------------------------------------
\* The controls that start the scheduler again.

\* Where a control leaves the thread, whether or not it started one.
LEMMA Started ==
  ASSUME IInv, NEW g \in Goal, Start(g), up, up', runner.pc # "apply",
         g.worker = goal.worker, g.status \notin Terminal, goal.status # "cancelling",
         UNCHANGED turn
  PROVE  /\ goal' \in Goal /\ goal'.status = g.status /\ goal'.epoch = g.epoch
         /\ goal'.calls = g.calls
         /\ runner' \in Thread /\ runner'.todo = {} /\ runner'.item = None
         /\ runner'.pc \in {runner.pc, "schedule"}
         /\ Place' /\ Quiet' /\ Written'
<1> USE DEF IInv
<1>1. runner.pc # "recovering" /\ runner.todo = {} /\ runner.item = None
  BY DEF Place
<1>2. CASE g.status = "queued" /\ runner.pc = "none" /\ g.worker = "none"
  <2>1. /\ goal' \in Goal /\ goal'.status = g.status /\ goal'.epoch = g.epoch
        /\ goal'.calls = g.calls /\ goal'.worker = "live"
    BY <1>2 DEF Start, Goal
  <2>2. runner' = At("schedule") /\ "schedule" \in Phases /\ "schedule" \in Busy
        /\ "none" \notin Busy
    BY <1>2 DEF Start, Phases, Busy
  <2>3. /\ runner' \in Thread /\ runner'.pc = "schedule" /\ runner'.todo = {}
        /\ runner'.item = None
    BY <2>2, Begins
  <2>4. Place' /\ Quiet' /\ Written'
    BY <1>1, <1>2, <2>1, <2>2, <2>3 DEF Place, Quiet, Written, Terminal
  <2> QED BY <2>1, <2>3, <2>4
<1>3. CASE ~(g.status = "queued" /\ runner.pc = "none" /\ g.worker = "none")
  <2>1. goal' = g /\ runner' = Touched
    BY <1>3 DEF Start
  <2>2. /\ runner' \in Thread /\ runner'.pc = runner.pc /\ runner'.todo = {}
        /\ runner'.item = None
    BY <1>1, <2>1, TouchedFacts
  <2>3. Place' /\ Quiet' /\ Written'
    BY <1>1, <2>1, <2>2 DEF Place, Quiet, Written, Terminal
  <2> QED BY <2>1, <2>2, <2>3
<1> QED BY <1>2, <1>3

\* A task that is tried again, with its earlier call settled.
LEMMA TriedAgain ==
  ASSUME NEW r \in Task, Coherent(r), r.state = "blocked", r.action = "none"
  PROVE  LET q == [WithoutLease(r) EXCEPT !.state = "ready", !.unknown = FALSE,
                       !.reconcile = FALSE, !.effect = "settled"] IN
         /\ q \in Task /\ Coherent(q) /\ q.state = "ready" /\ q.effectId = r.effectId
         /\ q.claimEpoch = r.claimEpoch /\ q.action = "none" /\ q.txn = "none"
         /\ q.leased = FALSE /\ ~UnsettledEffect(q)
<1> DEFINE w == WithoutLease(r)
           q == [w EXCEPT !.state = "ready", !.unknown = FALSE,
                          !.reconcile = FALSE, !.effect = "settled"]
<1>1. /\ w \in Task /\ w.leased = FALSE /\ w.effectId = r.effectId
      /\ w.claimEpoch = r.claimEpoch /\ w.action = "none" /\ w.txn = "none"
  BY DEF WithoutLease, Task, Coherent
<1> HIDE DEF w
<1>2. /\ q \in Task /\ q.state = "ready" /\ q.leased = FALSE /\ q.effectId = r.effectId
      /\ q.claimEpoch = r.claimEpoch /\ q.action = "none" /\ q.txn = "none"
      /\ q.unknown = FALSE /\ q.reconcile = FALSE /\ q.effect = "settled"
  BY <1>1 DEF Task, TaskStates, EffectStates
<1> HIDE DEF q
<1>3. Coherent(q) /\ ~UnsettledEffect(q)
  BY <1>2 DEF Coherent, Finished, UnsettledEffect
<1> QED BY <1>2, <1>3 DEF q, w

\* A task that becomes ready with nothing else changed about it.
LEMMA MadeReady ==
  ASSUME NEW r \in Task, Coherent(r), r.state \in {"waiting", "blocked"}, r.action = "none",
         r.unknown # TRUE
  PROVE  LET q == [r EXCEPT !.state = "ready"] IN
         /\ q \in Task /\ Coherent(q) /\ q.state = "ready" /\ q.effectId = r.effectId
         /\ q.claimEpoch = r.claimEpoch /\ q.action = "none" /\ q.txn = r.txn
         /\ q.leased = r.leased /\ (UnsettledEffect(q) <=> UnsettledEffect(r))
<1> DEFINE q == [r EXCEPT !.state = "ready"]
<1>1. /\ q \in Task /\ q.state = "ready" /\ q.leased = r.leased /\ q.effectId = r.effectId
      /\ q.claimEpoch = r.claimEpoch /\ q.action = "none" /\ q.txn = r.txn
      /\ q.unknown = r.unknown /\ q.reconcile = r.reconcile /\ q.effect = r.effect
  BY DEF Task, TaskStates
<1> HIDE DEF q
<1>2. Coherent(q) /\ (UnsettledEffect(q) <=> UnsettledEffect(r))
  BY <1>1 DEF Coherent, Finished, UnsettledEffect
<1> QED BY <1>1, <1>2 DEF q

\* A control that changes tasks in the ledger and no file.
LEMMA LedgerControl ==
  ASSUME IInv, NEW g \in Goal, Start(g), up, runner.pc # "apply", g.worker = goal.worker,
         g.status \notin Terminal, goal.status # "cancelling",
         g.epoch = goal.epoch, g.calls = goal.calls,
         UNCHANGED <<files, artifacts, turn, up, crashes>>,
         tasks' = [t \in Tasks |-> tasks'[t]],
         \A t \in Tasks :
            \/ tasks'[t] = tasks[t]
            \/ /\ tasks'[t] \in Task /\ Coherent(tasks'[t]) /\ tasks'[t].state = "ready"
               /\ tasks'[t].effectId = tasks[t].effectId
               /\ tasks'[t].claimEpoch = tasks[t].claimEpoch
               /\ tasks'[t].action = "none" /\ tasks'[t].txn = tasks[t].txn
               /\ tasks'[t].leased = TRUE => turn[t] \notin {"boot", "sent", "replied"}
               /\ ~UnsettledEffect(tasks[t]) => ~UnsettledEffect(tasks'[t])
  PROVE  IInv'
<1> USE DEF IInv
<1>1. /\ goal' \in Goal /\ goal'.status = g.status /\ goal'.epoch = goal.epoch
      /\ goal'.calls = goal.calls
      /\ runner' \in Thread /\ runner'.todo = {} /\ runner'.item = None
      /\ runner'.pc \in {runner.pc, "schedule"}
      /\ Place' /\ Quiet' /\ Written'
  BY Started
<1>2. tasks' \in [Tasks -> Task]
  <2>1. \A t \in Tasks : tasks'[t] \in Task
    BY Types
  <2> QED BY <2>1
<1>3. TypeOK'
  BY <1>1, <1>2, Types, TypesNext
<1>4. ASSUME NEW t \in Tasks PROVE Carried(t) /\ turn'[t] \in {turn[t], "idle"}
  <2>1. Row(t)
    BY DEF Rows
  <2>2. CASE tasks'[t] = tasks[t]
    <3>1. OnDisk(t)'
      BY <2>1, <2>2 DEF Row, OnDisk
    <3>2. Current(t)' => Current(t)
      BY <1>1, <2>2 DEF Current
    <3> QED BY <1>1, <2>1, <2>2, <3>1, <3>2, Counters DEF Row, Carried, Ledger, Executing
  <2>3. CASE tasks'[t] # tasks[t]
    <3>1. OnDisk(t)'
      BY <2>1, <2>3 DEF Row, OnDisk
    <3>2. ~Current(t)'
      BY <2>3 DEF Current
    <3> QED BY <1>1, <2>1, <2>3, <3>1, <3>2 DEF Row, Carried, Ledger
  <2> QED BY <2>2, <2>3
<1>5. \A e \in 1..Budget : artifacts'[e] <= 1 /\ (artifacts'[e] > 0 => e <= goal.calls)
  BY DEF Numbered
<1>6. Settled'
  <2>1. SUFFICES ASSUME runner'.pc = "verify", NEW t \in Tasks
                 PROVE  ~UnsettledEffect(tasks'[t])
    BY DEF Settled
  <2>2. runner.pc = "verify"
    BY <1>1, <2>1
  <2>3. ~UnsettledEffect(tasks[t])
    BY <2>2 DEF Settled
  <2> QED BY <2>3
<1> QED BY <1>1, <1>3, <1>4, <1>5, <1>6, LedgerStep

\* The goal as a control that resumes it leaves it.
LEMMA QueuedAgain ==
  ASSUME TypeOK
  PROVE  LET g == WithStatus("queued") IN
         /\ g \in Goal /\ g.status = "queued" /\ g.status \notin Terminal
         /\ g.epoch = goal.epoch /\ g.worker = goal.worker /\ g.calls = goal.calls
<1>1. "queued" \in Statuses \ Terminal
  BY DEF Statuses, Terminal
<1> QED BY <1>1, StatusOnly DEF WithStatus

\* An executor at work holds no lease on a task that is blocked or waits.
LEMMA NotAtWork ==
  ASSUME IInv, NEW t \in Tasks, tasks[t].state # "running", tasks[t].leased = TRUE
  PROVE  turn[t] \notin {"boot", "sent", "replied"}
<1> QED BY DEF IInv, Rows, Row, Executing

LEMMA AnswerKeeps ==
  ASSUME IInv, Answer
  PROVE  IInv'
<1>1. /\ up /\ runner.pc # "apply" /\ goal.status # "cancelling" /\ Start(WithStatus("queued"))
      /\ UNCHANGED <<files, artifacts, turn, up, crashes>>
      /\ tasks' = [t \in Tasks |->
            IF tasks[t].state = "waiting" THEN [tasks[t] EXCEPT !.state = "ready"] ELSE tasks[t]]
  BY DEF Answer
<1> DEFINE g == WithStatus("queued")
<1>2. /\ g \in Goal /\ g.status \notin Terminal
      /\ g.epoch = goal.epoch /\ g.worker = goal.worker /\ g.calls = goal.calls
  BY QueuedAgain DEF IInv
<1>3. ASSUME NEW t \in Tasks
      PROVE  \/ tasks'[t] = tasks[t]
             \/ /\ tasks'[t] \in Task /\ Coherent(tasks'[t]) /\ tasks'[t].state = "ready"
                /\ tasks'[t].effectId = tasks[t].effectId
                /\ tasks'[t].claimEpoch = tasks[t].claimEpoch
                /\ tasks'[t].action = "none" /\ tasks'[t].txn = tasks[t].txn
                /\ tasks'[t].leased = TRUE => turn[t] \notin {"boot", "sent", "replied"}
                /\ ~UnsettledEffect(tasks[t]) => ~UnsettledEffect(tasks'[t])
  <2>1. CASE tasks[t].state # "waiting"
    BY <1>1, <2>1
  <2>2. CASE tasks[t].state = "waiting"
    <3> DEFINE q == [tasks[t] EXCEPT !.state = "ready"]
    <3>1. /\ tasks[t] \in Task /\ Coherent(tasks[t]) /\ tasks[t].action = "none"
          /\ tasks[t].unknown # TRUE
          /\ tasks[t].leased = TRUE => turn[t] \notin {"boot", "sent", "replied"}
      BY <2>2, NotAtWork, Types DEF IInv, Rows, Row, Ledger, Coherent
    <3>2. /\ q \in Task /\ Coherent(q) /\ q.state = "ready" /\ q.effectId = tasks[t].effectId
          /\ q.claimEpoch = tasks[t].claimEpoch /\ q.action = "none"
          /\ q.txn = tasks[t].txn /\ q.leased = tasks[t].leased
          /\ (UnsettledEffect(q) <=> UnsettledEffect(tasks[t]))
      BY <2>2, <3>1, MadeReady
    <3>3. tasks'[t] = q
      BY <1>1, <2>2
    <3> HIDE DEF q
    <3> QED BY <3>1, <3>2, <3>3
  <2> QED BY <2>1, <2>2
<1>4. tasks' = [t \in Tasks |-> tasks'[t]]
  BY <1>1
<1> HIDE DEF g
<1> QED BY <1>1, <1>2, <1>3, <1>4, LedgerControl DEF g

LEMMA ResumeKeeps ==
  ASSUME IInv, NEW choice \in BOOLEAN, Resume(choice)
  PROVE  IInv'
<1> DEFINE again == IF choice \/ Automatic THEN Interrupted ELSE {}
           g == WithStatus("queued")
<1>1. /\ up /\ runner.pc # "apply" /\ goal.status # "cancelling" /\ Start(g)
      /\ UNCHANGED <<files, artifacts, turn, up, crashes>>
      /\ Interrupted \subseteq again /\ (choice => CanRetry)
      /\ tasks' = [t \in Tasks |->
            IF t \in again
            THEN [WithoutLease(tasks[t]) EXCEPT !.state = "ready", !.unknown = FALSE,
                      !.reconcile = FALSE, !.effect = "settled"]
            ELSE IF tasks[t].state = "blocked" /\ ~tasks[t].unknown
            THEN [tasks[t] EXCEPT !.state = "ready"] ELSE tasks[t]]
  BY DEF Resume, Control
<1>2. /\ g \in Goal /\ g.status \notin Terminal
      /\ g.epoch = goal.epoch /\ g.worker = goal.worker /\ g.calls = goal.calls
  BY QueuedAgain DEF IInv
<1>3. \A t \in again : t \in Tasks /\ tasks[t].state = "blocked" /\ ProviderOnly(t)
  BY <1>1 DEF Automatic, CanRetry, Interrupted, InState
<1>4. ASSUME NEW t \in Tasks
      PROVE  \/ tasks'[t] = tasks[t]
             \/ /\ tasks'[t] \in Task /\ Coherent(tasks'[t]) /\ tasks'[t].state = "ready"
                /\ tasks'[t].effectId = tasks[t].effectId
                /\ tasks'[t].claimEpoch = tasks[t].claimEpoch
                /\ tasks'[t].action = "none" /\ tasks'[t].txn = tasks[t].txn
                /\ tasks'[t].leased = TRUE => turn[t] \notin {"boot", "sent", "replied"}
                /\ ~UnsettledEffect(tasks[t]) => ~UnsettledEffect(tasks'[t])
  <2>0. tasks[t] \in Task /\ Coherent(tasks[t])
    BY Types DEF IInv, Rows, Row, Ledger
  <2>1. CASE t \in again
    <3> DEFINE q == [WithoutLease(tasks[t]) EXCEPT !.state = "ready", !.unknown = FALSE,
                         !.reconcile = FALSE, !.effect = "settled"]
    <3>1. tasks[t].state = "blocked" /\ tasks[t].action = "none" /\ tasks[t].txn = "none"
      BY <1>3, <2>1 DEF ProviderOnly
    <3>2. /\ q \in Task /\ Coherent(q) /\ q.state = "ready" /\ q.effectId = tasks[t].effectId
          /\ q.claimEpoch = tasks[t].claimEpoch /\ q.action = "none" /\ q.txn = "none"
          /\ q.leased = FALSE /\ ~UnsettledEffect(q)
      BY <2>0, <3>1, TriedAgain
    <3>3. tasks'[t] = q
      BY <1>1, <2>1
    <3> HIDE DEF q
    <3> QED BY <3>1, <3>2, <3>3
  <2>2. CASE t \notin again /\ tasks[t].state = "blocked" /\ ~tasks[t].unknown
    <3> DEFINE q == [tasks[t] EXCEPT !.state = "ready"]
    <3>1. /\ tasks[t].action = "none" /\ tasks[t].unknown # TRUE
          /\ tasks[t].leased = TRUE => turn[t] \notin {"boot", "sent", "replied"}
      <4>1. ~UnsettledEffect(tasks[t])
        BY <1>1, <2>2 DEF Interrupted, InState
      <4> QED BY <2>0, <2>2, <4>1, NotAtWork DEF UnsettledEffect
    <3>2. /\ q \in Task /\ Coherent(q) /\ q.state = "ready" /\ q.effectId = tasks[t].effectId
          /\ q.claimEpoch = tasks[t].claimEpoch /\ q.action = "none"
          /\ q.txn = tasks[t].txn /\ q.leased = tasks[t].leased
          /\ (UnsettledEffect(q) <=> UnsettledEffect(tasks[t]))
      BY <2>0, <2>2, <3>1, MadeReady
    <3>3. tasks'[t] = q
      BY <1>1, <2>2
    <3> HIDE DEF q
    <3> QED BY <3>1, <3>2, <3>3
  <2>3. CASE t \notin again /\ ~(tasks[t].state = "blocked" /\ ~tasks[t].unknown)
    BY <1>1, <2>3
  <2> QED BY <2>1, <2>2, <2>3
<1>5. tasks' = [t \in Tasks |-> tasks'[t]]
  BY <1>1
<1> HIDE DEF g, again
<1> QED BY <1>1, <1>2, <1>4, <1>5, LedgerControl

LEMMA RetryKeeps ==
  ASSUME IInv, NEW k \in Tasks, Retry(k)
  PROVE  IInv'
<1> USE DEF IInv
<1> DEFINE g == WithStatus("queued")
           inspected == tasks[k].unknown \/ tasks[k].reconcile
           fresh == [WithoutLease(tasks[k]) EXCEPT !.state = "ready", !.unknown = FALSE,
                        !.reconcile = FALSE, !.effect = "settled"]
           q == IF inspected THEN Emptied(fresh) ELSE fresh
<1>1. /\ up /\ runner.pc # "apply" /\ goal.status # "cancelling" /\ Start(g)
      /\ UNCHANGED <<turn, up, crashes>> /\ tasks[k].state = "blocked"
      /\ UnsettledEffect(tasks[k]) => inspected
      /\ tasks' = [tasks EXCEPT ![k] = q]
      /\ files' = IF inspected THEN [files EXCEPT ![k] = Untouched] ELSE files
      /\ artifacts' = IF tasks[k].txn = "applied" THEN Publishing({k}) ELSE artifacts
  BY DEF Retry, Control
<1>2. /\ g \in Goal /\ g.status \notin Terminal
      /\ g.epoch = goal.epoch /\ g.worker = goal.worker /\ g.calls = goal.calls
  BY QueuedAgain
<1>3. /\ goal' \in Goal /\ goal'.epoch = goal.epoch /\ goal'.calls = goal.calls
      /\ runner' \in Thread /\ runner'.todo = {} /\ runner'.item = None
      /\ runner'.pc \in {runner.pc, "schedule"}
      /\ Place' /\ Quiet' /\ Written'
  <2> HIDE DEF g
  <2> QED BY <1>1, <1>2, Started
<1>4. /\ tasks[k] \in Task /\ Row(k) /\ tasks[k].txn # "applied"
      /\ ~inspected => tasks[k].action = "none" /\ tasks[k].txn = "none"
  <2>1. tasks[k] \in Task /\ Row(k) /\ Coherent(tasks[k])
    BY Types DEF Rows, Row, Ledger
  <2> QED BY <1>1, <2>1 DEF Coherent, UnsettledEffect, Task
<1>5. /\ q \in Task /\ Coherent(q) /\ q.state = "ready" /\ q.effectId = tasks[k].effectId
      /\ q.claimEpoch = tasks[k].claimEpoch /\ q.action = "none" /\ q.txn = "none"
      /\ q.leased = FALSE /\ ~UnsettledEffect(q)
  <2> DEFINE w == WithoutLease(tasks[k])
  <2>1. /\ w \in Task /\ w.leased = FALSE /\ w.effectId = tasks[k].effectId
        /\ w.claimEpoch = tasks[k].claimEpoch /\ w.action = tasks[k].action
        /\ w.txn = tasks[k].txn
    BY <1>4 DEF WithoutLease, Task
  <2> HIDE DEF w
  <2>2. fresh = [w EXCEPT !.state = "ready", !.unknown = FALSE,
                          !.reconcile = FALSE, !.effect = "settled"]
    BY DEF w
  <2> HIDE DEF fresh
  <2>3. /\ fresh \in Task /\ fresh.state = "ready" /\ fresh.leased = FALSE
        /\ fresh.effectId = tasks[k].effectId /\ fresh.claimEpoch = tasks[k].claimEpoch
        /\ fresh.action = tasks[k].action /\ fresh.txn = tasks[k].txn
        /\ fresh.unknown = FALSE /\ fresh.reconcile = FALSE /\ fresh.effect = "settled"
    BY <2>1, <2>2 DEF Task, TaskStates, EffectStates
  <2> DEFINE m == Emptied(fresh)
  <2>4. /\ m \in Task /\ m.state = "ready" /\ m.leased = FALSE
        /\ m.effectId = tasks[k].effectId /\ m.claimEpoch = tasks[k].claimEpoch
        /\ m.action = "none" /\ m.txn = "none"
        /\ m.unknown = FALSE /\ m.reconcile = FALSE /\ m.effect = "settled"
    <3>1. 0 \in 0..Budget
      BY EngineAssumption
    <3> QED BY <2>3, <3>1 DEF Emptied, Task, Pending
  <2>5. \/ q = m
        \/ q = fresh /\ fresh.action = "none" /\ fresh.txn = "none"
    BY <1>4, <2>3
  <2> HIDE DEF m, q, inspected
  <2>6. /\ q \in Task /\ q.state = "ready" /\ q.leased = FALSE
        /\ q.effectId = tasks[k].effectId /\ q.claimEpoch = tasks[k].claimEpoch
        /\ q.action = "none" /\ q.txn = "none"
        /\ q.unknown = FALSE /\ q.reconcile = FALSE /\ q.effect = "settled"
    BY <2>3, <2>4, <2>5
  <2>7. Coherent(q) /\ ~UnsettledEffect(q)
    BY <2>6 DEF Coherent, Finished, UnsettledEffect
  <2> QED BY <2>6, <2>7
<1> HIDE DEF q, fresh
<1>6. Untouched \in File /\ Untouched.manifest = "none" /\ Untouched.content = "before"
  BY DEF Untouched, File
<1>7. /\ tasks' \in [Tasks -> Task] /\ tasks'[k] = q
      /\ \A t \in Tasks : t # k => tasks'[t] = tasks[t]
  BY <1>1, <1>5, Types
<1>8. /\ files' \in [Tasks -> File] /\ artifacts' = artifacts
      /\ \A t \in Tasks : t # k => files'[t] = files[t]
      /\ inspected => files'[k] = Untouched
      /\ ~inspected => files'[k] = files[k]
  BY <1>1, <1>4, <1>6, Types
<1>9. TypeOK'
  BY <1>1, <1>3, <1>7, <1>8, Types, TypesNext
<1>10. ASSUME NEW t \in Tasks PROVE Carried(t) /\ turn'[t] \in {turn[t], "idle"}
  <2>1. Row(t)
    BY DEF Rows
  <2>2. CASE t # k
    <3>1. OnDisk(t)'
      BY <1>1, <1>7, <1>8, <2>1, <2>2 DEF Row, OnDisk
    <3>2. Current(t)' => Current(t)
      BY <1>3, <1>7, <2>2 DEF Current
    <3> QED BY <1>1, <1>3, <1>7, <1>8, <2>1, <2>2, <3>1, <3>2, Counters
            DEF Row, Carried, Ledger, Executing
  <2>3. CASE t = k
    <3>1. OnDisk(t)'
      BY <1>1, <1>4, <1>5, <1>6, <1>7, <1>8, <2>3 DEF Row, OnDisk
    <3>2. ~Current(t)'
      BY <1>5, <1>7, <2>3 DEF Current
    <3> QED BY <1>1, <1>3, <1>5, <1>7, <1>8, <2>1, <2>3, <3>1, <3>2
            DEF Row, Carried, Ledger
  <2> QED BY <2>2, <2>3
<1>11. \A e \in 1..Budget : artifacts'[e] <= 1 /\ (artifacts'[e] > 0 => e <= goal.calls)
  BY <1>8 DEF Numbered
<1>12. Settled'
  <2>1. SUFFICES ASSUME runner'.pc = "verify", NEW t \in Tasks
                 PROVE  ~UnsettledEffect(tasks'[t])
    BY DEF Settled
  <2>2. ~UnsettledEffect(tasks[t])
    BY <1>3, <2>1 DEF Settled
  <2> QED BY <1>5, <1>7, <2>2
<1> QED BY <1>3, <1>9, <1>10, <1>11, <1>12, LedgerStep

\* Steer leaves no action, no transaction and nobody current.
LEMMA SteeredFacts ==
  ASSUME NEW t \in Tasks, tasks[t] \in Task, Coherent(tasks[t])
  PROVE  LET r == Steered(t) IN
         /\ r \in Task /\ Coherent(r) /\ r.effectId = tasks[t].effectId
         /\ r.claimEpoch = tasks[t].claimEpoch /\ r.action = "none" /\ r.txn = "none"
         /\ r.state \in {"absent", "ready", "waiting", "complete", "cancelled"}
         /\ r.state = "absent" <=> tasks[t].state = "absent"
         /\ r.leased = TRUE => tasks[t].leased = TRUE /\ tasks[t].state # "running"
         /\ r.agreed = FALSE /\ (r.state = "cancelled" => tasks[t].state = "cancelled")
         /\ ~UnsettledEffect(tasks[t]) => ~UnsettledEffect(r)
<1> DEFINE r == tasks[t]
           w == WithoutLease(r)
           m == Emptied(w)
           s == Steered(t)
<1>1. /\ m \in Task /\ m.state = r.state /\ m.leased = FALSE /\ m.effectId = r.effectId
      /\ m.claimEpoch = r.claimEpoch /\ m.action = "none" /\ m.txn = "none"
      /\ m.unknown = r.unknown /\ m.reconcile = r.reconcile
  <2>1. /\ w \in Task /\ w.state = r.state /\ w.leased = FALSE /\ w.effectId = r.effectId
        /\ w.claimEpoch = r.claimEpoch /\ w.unknown = r.unknown /\ w.reconcile = r.reconcile
    BY DEF WithoutLease, Task
  <2> HIDE DEF w
  <2>2. 0 \in 0..Budget
    BY EngineAssumption
  <2> QED BY <2>1, <2>2 DEF Emptied, Task, Pending
<1>2. CASE r.txn = "applied"
  <2> DEFINE p == [m EXCEPT !.state = "complete", !.effect = "settled"]
  <2>1. r.unknown = FALSE /\ r.reconcile = FALSE /\ r.state \in {"running", "pending_apply", "blocked"}
    BY <1>2 DEF Coherent, Task
  <2> HIDE DEF m
  <2>2. /\ p \in Task /\ p.state = "complete" /\ p.leased = FALSE /\ p.effectId = r.effectId
        /\ p.claimEpoch = r.claimEpoch /\ p.action = "none" /\ p.txn = "none"
        /\ p.unknown = FALSE /\ p.reconcile = FALSE /\ p.effect = "settled"
    BY <1>1, <2>1 DEF Task, TaskStates, EffectStates
  <2>3. PICK z \in {"ready", "complete"} : s = [p EXCEPT !.agreed = FALSE, !.state = z]
    <3>1. s = [p EXCEPT !.agreed = FALSE,
                        !.state = IF Required(t) /\ @ = "complete" THEN "ready" ELSE @]
      BY <1>2, <2>2 DEF Steered, m
    <3> HIDE DEF p, s
    <3> QED BY <2>2, <3>1
  <2> HIDE DEF p, s
  <2>4. /\ s \in Task /\ s.state = z /\ s.leased = FALSE /\ s.effectId = r.effectId
        /\ s.claimEpoch = r.claimEpoch /\ s.action = "none" /\ s.txn = "none"
        /\ s.unknown = FALSE /\ s.reconcile = FALSE /\ s.effect = "settled"
        /\ s.agreed = FALSE
    BY <2>2, <2>3 DEF Task, TaskStates
  <2>5. Coherent(s) /\ ~UnsettledEffect(s)
    BY <2>4 DEF Coherent, Finished, UnsettledEffect
  <2> QED BY <2>1, <2>4, <2>5 DEF s
<1>3. CASE r.txn # "applied" /\ r.state \in {"running", "pending_apply", "blocked"}
  <2>1. s = [m EXCEPT !.state = "ready", !.unknown = FALSE, !.effect = "settled",
                      !.agreed = FALSE]
    BY <1>3 DEF Steered
  <2> HIDE DEF m, s
  <2>2. /\ s \in Task /\ s.state = "ready" /\ s.leased = FALSE /\ s.effectId = r.effectId
        /\ s.claimEpoch = r.claimEpoch /\ s.action = "none" /\ s.txn = "none"
        /\ s.unknown = FALSE /\ s.reconcile = r.reconcile /\ s.effect = "settled"
        /\ s.agreed = FALSE
    BY <1>1, <2>1 DEF Task, TaskStates, EffectStates
  <2>3. Coherent(s) /\ (~UnsettledEffect(r) => ~UnsettledEffect(s))
    BY <2>2 DEF Coherent, Finished, UnsettledEffect
  <2> QED BY <1>3, <2>2, <2>3 DEF s
<1>4. CASE r.txn # "applied" /\ r.state \notin {"running", "pending_apply", "blocked"}
  <2>1. /\ r.action = "none" /\ r.txn = "none" /\ r.unknown # TRUE
        /\ r.state \in {"absent", "ready", "waiting", "complete", "cancelled"}
    BY <1>4 DEF Coherent, Task, TaskStates
  <2>2. PICK z \in {r.state, "ready"} : /\ s = [r EXCEPT !.agreed = FALSE, !.state = z]
                                        /\ z # r.state => r.state = "complete"
    BY <1>4 DEF Steered
  <2> HIDE DEF s
  <2>3. /\ s \in Task /\ s.state = z /\ s.leased = r.leased /\ s.effectId = r.effectId
        /\ s.claimEpoch = r.claimEpoch /\ s.action = "none" /\ s.txn = "none"
        /\ s.unknown = r.unknown /\ s.reconcile = r.reconcile /\ s.effect = r.effect
        /\ s.agreed = FALSE
    BY <2>1, <2>2 DEF Task, TaskStates
  <2>4. Coherent(s) /\ (~UnsettledEffect(r) => ~UnsettledEffect(s))
    BY <2>1, <2>2, <2>3 DEF Coherent, Finished, UnsettledEffect
  <2> QED BY <1>4, <2>1, <2>2, <2>3, <2>4 DEF s
<1> QED BY <1>2, <1>3, <1>4

LEMMA SteerKeeps ==
  ASSUME IInv, NEW spare \in Tasks, Steer(spare)
  PROVE  IInv'
<1> USE DEF IInv
<1> DEFINE d == [t \in Tasks |-> Steered(t)]
           finished == \A t \in Tasks : d[t].state \in Finished
           next == IF finished THEN [d EXCEPT ![spare] = NewTask("ready")] ELSE d
           s == IF \E t \in Tasks : next[t].state = "running" THEN "running" ELSE "queued"
           g == [goal EXCEPT !.epoch = @ + 1, !.status = s]
           S == {t \in Tasks : tasks[t].txn = "applied"}
<1>1. /\ up /\ runner.pc # "apply" /\ goal.status # "cancelling" /\ Start(g)
      /\ UNCHANGED <<turn, up, crashes>> /\ goal.epoch < MaxEpoch
      /\ finished => tasks[spare].state = "absent"
      /\ tasks' = next
      /\ files' = [t \in Tasks |-> IF tasks[t].txn # "none" THEN Untouched ELSE files[t]]
      /\ artifacts' = Publishing(S)
  BY DEF Steer, Control
<1>2. /\ g \in Goal /\ g.status \notin Terminal
      /\ g.epoch = goal.epoch + 1 /\ g.worker = goal.worker /\ g.calls = goal.calls
  <2>1. goal.epoch \in Nat /\ MaxEpoch \in Nat /\ goal.epoch + 1 \in 1..MaxEpoch
    BY <1>1, Types, EngineAssumption DEF Goal
  <2>2. s \in {"running", "queued"}
    OBVIOUS
  <2> HIDE DEF s
  <2> QED BY <2>1, <2>2, Types DEF Goal, Statuses, Terminal
<1> HIDE DEF g
<1>3. /\ goal' \in Goal /\ goal'.epoch = goal.epoch + 1 /\ goal'.calls = goal.calls
      /\ runner' \in Thread /\ runner'.todo = {} /\ runner'.item = None
      /\ runner'.pc \in {runner.pc, "schedule"}
      /\ Place' /\ Quiet' /\ Written'
  BY <1>1, <1>2, Started
<1> HIDE DEF s
<1>4. ASSUME NEW t \in Tasks
      PROVE  /\ next[t] \in Task /\ Coherent(next[t]) /\ next[t].effectId = tasks[t].effectId
             /\ next[t].claimEpoch \in {tasks[t].claimEpoch, 0}
             /\ next[t].action = "none" /\ next[t].txn = "none"
             /\ next[t].state \in {"absent", "ready", "waiting", "complete", "cancelled"}
             /\ next[t].state = "absent" => tasks[t].state = "absent"
             /\ next[t].leased = TRUE => tasks[t].leased = TRUE /\ tasks[t].state # "running"
             /\ ~UnsettledEffect(tasks[t]) => ~UnsettledEffect(next[t])
  <2> DEFINE r == Steered(t)
             n == NewTask("ready")
  <2>1. tasks[t] \in Task /\ Coherent(tasks[t])
    BY Types DEF Rows, Row, Ledger
  <2>2. /\ r \in Task /\ Coherent(r) /\ r.effectId = tasks[t].effectId
        /\ r.claimEpoch = tasks[t].claimEpoch /\ r.action = "none" /\ r.txn = "none"
        /\ r.state \in {"absent", "ready", "waiting", "complete", "cancelled"}
        /\ r.state = "absent" => tasks[t].state = "absent"
        /\ r.leased = TRUE => tasks[t].leased = TRUE /\ tasks[t].state # "running"
        /\ ~UnsettledEffect(tasks[t]) => ~UnsettledEffect(r)
    BY <2>1, SteeredFacts
  <2>3. /\ n \in Task /\ n.state = "ready" /\ n.leased = FALSE /\ n.claimEpoch = 0
        /\ n.effectId = 0 /\ n.action = "none" /\ n.txn = "none" /\ Coherent(n)
        /\ n.unknown = FALSE /\ n.reconcile = FALSE /\ n.effect = "settled"
    BY NewTaskFacts
  <2> HIDE DEF r, n
  <2>4. CASE finished /\ t = spare
    <3>1. next[t] = n
      BY <2>4 DEF n
    <3>2. tasks[t].effectId = 0
      BY <1>1, <2>1, <2>4 DEF Coherent
    <3>3. ~UnsettledEffect(n)
      BY <2>3 DEF UnsettledEffect
    <3> HIDE DEF next, finished
    <3> QED BY <2>3, <3>1, <3>2, <3>3
  <2>5. CASE ~(finished /\ t = spare)
    <3>1. next[t] = r
      BY <2>5 DEF r
    <3> HIDE DEF next, finished
    <3> QED BY <2>2, <3>1
  <2> QED BY <2>4, <2>5
<1>5. tasks' \in [Tasks -> Task]
  <2>1. next = [t \in Tasks |-> next[t]]
    OBVIOUS
  <2> HIDE DEF next
  <2> QED BY <1>1, <1>4, <2>1
<1> HIDE DEF next, finished, d
<1>6. Untouched \in File /\ Untouched.manifest = "none" /\ Untouched.content = "before"
  BY DEF Untouched, File
<1>7. files' \in [Tasks -> File]
  <2>1. \A t \in Tasks : (IF tasks[t].txn # "none" THEN Untouched ELSE files[t]) \in File
    BY <1>6, Types
  <2> QED BY <1>1, <2>1
<1>8. /\ artifacts' \in [1..Budget -> Nat]
      /\ \A e \in 1..Budget : artifacts'[e] <= 1 /\ (artifacts'[e] > 0 => e <= goal.calls)
      /\ \A t \in Tasks : tasks[t].effectId # 0 /\ t \notin S =>
             artifacts'[tasks[t].effectId] = artifacts[tasks[t].effectId]
  BY <1>1, PublishedOnce
<1>9. TypeOK'
  BY <1>1, <1>3, <1>5, <1>7, <1>8, Types, TypesNext
<1>10. ASSUME NEW t \in Tasks PROVE Carried(t) /\ turn'[t] \in {turn[t], "idle"}
  <2>1. Row(t) /\ tasks'[t] = next[t] /\ turn'[t] = turn[t]
    BY <1>1 DEF Rows
  <2>2. OnDisk(t)'
    <3>1. files'[t] = IF tasks[t].txn # "none" THEN Untouched ELSE files[t]
      BY <1>1
    <3> QED BY <1>1, <1>4, <1>6, <2>1, <3>1 DEF Row, OnDisk
  <2>3. ~Current(t)'
    BY <1>4, <2>1 DEF Current
  <2>4. turn'[t] \in {"sent", "replied"} /\ tasks[t].effectId # 0 =>
            artifacts'[tasks[t].effectId] = artifacts[tasks[t].effectId]
    <3>1. turn[t] \in {"sent", "replied"} => tasks[t].txn # "applied"
      BY <2>1 DEF Row, Ledger, Coherent, Executing
    <3> QED BY <1>8, <2>1, <3>1
  <2>5. turn'[t] \in {"boot", "sent", "replied"} /\ tasks'[t].leased = TRUE
            => tasks'[t].state = "running"
    BY <1>4, <2>1, NotAtWork
  <2>6. tasks'[t].claimEpoch <= goal'.epoch
    <3>1. /\ tasks[t].claimEpoch <= goal.epoch /\ goal.epoch \in Nat
          /\ tasks[t].claimEpoch \in Nat
      <4>1. tasks[t].claimEpoch \in 0..MaxEpoch /\ goal.epoch \in Nat
        BY Counters, Types DEF Task
      <4> QED BY <2>1, <4>1 DEF Row, Ledger
    <3>2. tasks'[t].claimEpoch \in {tasks[t].claimEpoch, 0} /\ goal'.epoch = goal.epoch + 1
      BY <1>3, <1>4, <2>1
    <3> QED BY <3>1, <3>2
  <2> QED BY <1>3, <1>4, <2>1, <2>2, <2>3, <2>4, <2>5, <2>6 DEF Row, Carried, Ledger
<1>11. Settled'
  <2>1. SUFFICES ASSUME runner'.pc = "verify", NEW t \in Tasks
                 PROVE  ~UnsettledEffect(tasks'[t])
    BY DEF Settled
  <2>2. ~UnsettledEffect(tasks[t])
    BY <1>3, <2>1 DEF Settled
  <2> QED BY <1>1, <1>4, <2>2
<1> QED BY <1>3, <1>8, <1>9, <1>10, <1>11, LedgerStep

-----------------------------------------------------------------------------
\* The invariant, and what follows from it.

LEMMA InitInv == Init => IInv
<1> SUFFICES ASSUME Init PROVE IInv
  OBVIOUS
<1>1. /\ Budget \in Nat /\ MaxEpoch \in Nat \ {0} /\ MaxCrashes \in Nat
      /\ Budget >= Cardinality(Founders) /\ Founders \subseteq Tasks
  BY EngineAssumption
<1>2. /\ goal \in Goal /\ goal.status = "queued" /\ goal.epoch = 1 /\ goal.calls = 0
      /\ goal.worker = "live"
  BY <1>1 DEF Init, Goal, Statuses
<1>3. runner \in Thread /\ runner.pc = "schedule" /\ runner.todo = {} /\ runner.item = None
  <2>1. "schedule" \in Phases /\ runner = At("schedule")
    BY DEF Init, Phases, Busy
  <2> QED BY <2>1, Begins
<1>4. ASSUME NEW t \in Tasks
      PROVE  /\ tasks[t] \in Task /\ Coherent(tasks[t]) /\ tasks[t].claimEpoch = 0
             /\ tasks[t].effectId = 0 /\ tasks[t].action = "none" /\ tasks[t].txn = "none"
             /\ t \in Founders => tasks[t].state = "ready"
  <2>1. tasks[t] = NewTask(IF t \in Founders THEN "ready" ELSE "absent")
    BY DEF Init
  <2>2. PICK s \in {"ready", "absent"} : tasks[t] = NewTask(s) /\ (t \in Founders => s = "ready")
    BY <2>1
  <2> QED BY <2>2, NewTaskFacts
<1>5. tasks \in [Tasks -> Task]
  <2>1. tasks = [t \in Tasks |-> tasks[t]]
    BY DEF Init
  <2> QED BY <1>4, <2>1
<1>6. /\ files \in [Tasks -> File]
      /\ \A t \in Tasks : files[t].manifest = "none" /\ files[t].content = "before"
  <2>1. Untouched \in File /\ Untouched.manifest = "none" /\ Untouched.content = "before"
    BY DEF Untouched, File
  <2> QED BY <2>1 DEF Init
<1>7. /\ turn \in [Tasks -> Executions] /\ \A t \in Tasks : turn[t] = "idle"
  BY DEF Init, Executions
<1>8. /\ artifacts \in [1..Budget -> Nat] /\ \A e \in 1..Budget : artifacts[e] = 0
      /\ up = TRUE /\ crashes = 0 /\ crashes \in 0..MaxCrashes
  BY <1>1 DEF Init
<1>9. TypeOK
  BY <1>2, <1>3, <1>5, <1>6, <1>7, <1>8, Types
<1>10. Place /\ Quiet /\ Written /\ Settled
  BY <1>2, <1>3, <1>7, <1>8 DEF Place, Quiet, Written, Settled, Busy, Terminal
<1>11. ASSUME NEW t \in Tasks PROVE Row(t)
  <2>1. Ledger(t)
    BY <1>2, <1>4 DEF Ledger
  <2>2. Unlanded(t) /\ Executing(t)
    BY <1>3, <1>4, <1>7 DEF Unlanded, Executing, Kinds
  <2>3. OnDisk(t)
    BY <1>4, <1>6, <1>8 DEF OnDisk
  <2> QED BY <2>1, <2>2, <2>3 DEF Row
<1>12. Numbered
  BY <1>4, <1>8 DEF Numbered
<1>13. EveryMemberKeepsACall
  <2>1. RequireAll => NeverDispatched = Founders
    BY <1>1, <1>4 DEF NeverDispatched, Required
  <2> QED BY <1>1, <1>2, <2>1 DEF EveryMemberKeepsACall
<1> QED BY <1>9, <1>10, <1>11, <1>12, <1>13 DEF IInv, Rows

LEMMA SchedulerKeeps ==
  ASSUME IInv, Scheduler
  PROVE  IInv'
<1>1. CASE \/ ScheduleEnd \/ ScheduleApply \/ ScheduleVerify \/ NothingToClaim
           \/ \E S \in SUBSET Tasks : ClaimReady(S)
           \/ JoinTurns \/ ApplyDone
  BY <1>1, ScheduleEndKeeps, ScheduleApplyKeeps, ScheduleVerifyKeeps, NothingToClaimKeeps,
     ClaimReadyKeeps, JoinTurnsKeeps, ApplyDoneKeeps
<1>2. CASE \/ VerificationStopped \/ VerificationSuperseded
           \/ VerificationPasses \/ VerificationPauses
           \/ \E t \in Tasks : VerificationFails(t)
           \/ StopRun \/ HandleFailure \/ ThreadEnds
  BY <1>2, VerificationKeeps, VerificationFailsKeeps, StopRunKeeps, HandleFailureKeeps,
     ThreadEndsKeeps
<1> QED BY <1>1, <1>2 DEF Scheduler

LEMMA ApplyKeeps ==
  ASSUME IInv, NEW t \in Tasks, Apply(t)
  PROVE  IInv'
<1> QED BY ApplySkipsKeeps, DeferPendingActionKeeps, ApplyRaisesKeeps, PrepareTransactionKeeps,
           WriteManifestKeeps, ReplaceKeeps, CommitKeeps, ApplyAbortsKeeps, ApplyFailsKeeps,
           AutomaticRollbackKeeps, RecordTransactionAppliedKeeps, ApplyActionKeeps DEF Apply

LEMMA ExecutorKeeps ==
  ASSUME IInv, NEW t \in Tasks, Executor(t)
  PROVE  IInv'
<1> QED BY ContinuationRouteKeeps, RecordDispatchKeeps, DispatchRefusedKeeps,
           RecordProviderReplyKeeps, AcknowledgeContextStepKeeps, TurnFailsKeeps,
           RecordActionKeeps DEF Executor

LEMMA UserKeeps ==
  ASSUME IInv, User
  PROVE  IInv'
<1> QED BY PauseKeeps, CancelKeeps, AnswerKeeps, ResumeKeeps, RetryKeeps, SteerKeeps DEF User

LEMMA StutterKeeps ==
  ASSUME IInv, UNCHANGED vars
  PROVE  IInv'
<1> USE DEF IInv
<1>1. UNCHANGED <<goal, tasks, files, artifacts, runner, turn, up, crashes>>
  BY DEF vars
<1>2. TypeOK'
  BY <1>1, Types, TypesNext
<1>3. Place' /\ Quiet' /\ Written' /\ Settled'
  BY <1>1 DEF Place, Quiet, Written, Settled, Current
<1>4. ASSUME NEW t \in Tasks PROVE Carried(t) /\ turn'[t] \in {turn[t], "idle"}
  <2>1. Row(t)
    BY DEF Rows
  <2>2. OnDisk(t)' /\ (Current(t)' => Current(t))
    BY <1>1, <2>1 DEF Row, OnDisk, Current
  <2> QED BY <1>1, <2>1, <2>2 DEF Row, Carried, Ledger, Executing
<1>5. \A e \in 1..Budget : artifacts'[e] <= 1 /\ (artifacts'[e] > 0 => e <= goal.calls)
  BY <1>1 DEF Numbered
<1> QED BY <1>1, <1>2, <1>3, <1>4, <1>5, LedgerStep

LEMMA StepInv == IInv /\ [Next]_vars => IInv'
<1>1. ASSUME IInv, Engine PROVE IInv'
  BY <1>1, SchedulerKeeps, RecoverKeeps, RecoverCancelledKeeps, ApplyKeeps, ExecutorKeeps
     DEF Engine
<1> QED BY <1>1, UserKeeps, CrashKeeps, StutterKeeps DEF Next

\* The invariant holds in every reachable state, for any team, budget and
\* number of crashes, and whatever the user does.
THEOREM EngineInvariant == Spec => []IInv
<1> QED BY InitInv, StepInv, PTL DEF Spec

\* Every variable keeps its type.
THEOREM EngineTypes == Spec => []TypeOK
<1>1. IInv => TypeOK
  BY DEF IInv
<1> QED BY <1>1, EngineInvariant, PTL

\* Files are only written for a reply to the current objective, by a task that
\* still holds its lease, while the goal is running (_apply_node_locked).
THEOREM OnlyCurrentRepliesWrite == Spec => []WritesAreCurrent
<1>1. IInv => WritesAreCurrent
  <2>1. SUFFICES ASSUME IInv, runner.item # None
                 PROVE  /\ tasks[runner.item].leased
                        /\ tasks[runner.item].claimEpoch = goal.epoch
                        /\ goal.status \in {"queued", "running"}
    BY DEF WritesAreCurrent
  <2>2. runner.item \in Tasks /\ Current(runner.item) /\ goal.status \in {"queued", "running"}
    BY <2>1, Types DEF IInv, Thread, Written
  <2>3. Coherent(tasks[runner.item])
    BY <2>1, <2>2 DEF IInv, Rows, Row, Ledger
  <2> QED BY <2>2, <2>3 DEF Current, Coherent
<1> QED BY <1>1, EngineInvariant, PTL

\* The changes of one reply enter the goal's artifacts at most once, across
\* crashes, retries, steering and cancellation.
THEOREM RepliesLandOnce == Spec => []LandsOnce
<1>1. IInv => LandsOnce
  <2>1. ASSUME IInv PROVE DOMAIN artifacts = 1..Budget
    BY <2>1, Types DEF IInv
  <2> QED BY <2>1 DEF IInv, Numbered, LandsOnce
<1> QED BY <1>1, EngineInvariant, PTL

\* A required team always has a call left for each named member that has not
\* had one, whatever retries and repairs of the others cost.
THEOREM MembersKeepTheirCalls == Spec => []EveryMemberKeepsACall
<1>1. IInv => EveryMemberKeepsACall
  BY DEF IInv
<1> QED BY <1>1, EngineInvariant, PTL

\* A transaction that counts as applied has all its changes in the files, and
\* a task whose call or transaction is in doubt is parked, wherever crashes fall.
AppliedOrParked ==
    \A t \in Tasks :
        /\ tasks[t].txn = "applied" => files[t].content = "after"
        /\ tasks[t].unknown = TRUE => tasks[t].state = "blocked"
THEOREM AppliedIsOnDisk == Spec => []AppliedOrParked
<1>1. IInv => AppliedOrParked
  BY DEF IInv, Rows, Row, Ledger, Coherent, OnDisk, AppliedOrParked
<1> QED BY <1>1, EngineInvariant, PTL

\* As long as no crash catches the rollback of a running task unfinished (the
\* case GoalHalfRolledBack shows lost), a task with no open transaction has no
\* half-made change in the files either.
THEOREM BoundariesAreKept ==
  ASSUME ~CrashInRollback
  PROVE  Spec => []AtBoundary
<1>1. IInv => AtBoundary
  <2>1. SUFFICES ASSUME IInv, NEW t \in Tasks
                 PROVE  /\ tasks[t].txn = "none" => files[t].content = "before"
                        /\ tasks[t].txn = "applied" => files[t].content = "after"
                        /\ tasks[t].unknown => tasks[t].state = "blocked"
    BY DEF AtBoundary
  <2>2. tasks[t] \in Task /\ Coherent(tasks[t]) /\ OnDisk(t)
    BY <2>1, Types DEF IInv, Rows, Row, Ledger
  <2>3. tasks[t].unknown \in BOOLEAN
    BY <2>2 DEF Task
  <2>4. tasks[t].unknown => tasks[t].state = "blocked"
    BY <2>2, <2>3 DEF Coherent
  <2> QED BY <2>2, <2>4 DEF OnDisk
<1> QED BY <1>1, EngineInvariant, PTL

\* A cancelled goal is quiet: nobody works for it, every effect is settled, and
\* (as above) no file holds part of a change.
THEOREM CancelledGoalsAreQuiet ==
  ASSUME ~CrashInRollback
  PROVE  Spec => []CancelledIsQuiet
<1>1. IInv => CancelledIsQuiet
  <2>1. SUFFICES ASSUME IInv, goal.status = "cancelled"
                 PROVE  /\ goal.worker = "none" /\ runner.pc \in {"none", "leaving", "handling"}
                        /\ \A t \in Tasks :
                              /\ turn[t] = "idle" /\ tasks[t].state \in Finished
                              /\ ~UnsettledEffect(tasks[t]) /\ files[t].content = "before"
    BY DEF CancelledIsQuiet
  <2>2. /\ goal.worker = "none" /\ runner.pc \in {"none", "leaving", "handling"}
        /\ \A t \in Tasks : tasks[t].state \in Finished /\ turn[t] = "idle"
    BY <2>1 DEF IInv, Quiet, Place
  <2>3. ASSUME NEW t \in Tasks
        PROVE  ~UnsettledEffect(tasks[t]) /\ files[t].content = "before"
    <3>1. /\ tasks[t] \in Task /\ Coherent(tasks[t]) /\ OnDisk(t)
          /\ tasks[t].state \in Finished
      BY <2>1, <2>2, Types DEF IInv, Rows, Row, Ledger
    <3>2. tasks[t].action = "none" /\ tasks[t].txn = "none"
      BY <3>1 DEF Coherent, Finished
    <3> QED BY <3>1, <3>2 DEF Coherent, Finished, UnsettledEffect, OnDisk, Task
  <2> QED BY <2>2, <2>3
<1> QED BY <1>1, EngineInvariant, PTL

-----------------------------------------------------------------------------
\* What a stop holds back.

\* A step that makes no provider call and replaces no file.
Harmless == goal'.calls = goal.calls /\ \A t \in Tasks : ~Advances(t)

LEMMA CallsUncounted ==
  ASSUME TypeOK
  PROVE  \A s, w, e :
            /\ [goal EXCEPT !.status = s].calls = goal.calls
            /\ [goal EXCEPT !.worker = w].calls = goal.calls
            /\ [goal EXCEPT !.status = s, !.worker = w].calls = goal.calls
            /\ [goal EXCEPT !.worker = w, !.status = s].calls = goal.calls
            /\ [goal EXCEPT !.epoch = e, !.status = s].calls = goal.calls
            /\ [[goal EXCEPT !.status = s] EXCEPT !.worker = w].calls = goal.calls
            /\ [[goal EXCEPT !.epoch = e, !.status = s] EXCEPT !.worker = w].calls = goal.calls
<1> QED BY Types DEF Goal

\* Of the scheduler's steps none makes a call or replaces a file.
LEMMA PutBackOrKept ==
  ASSUME TypeOK, NEW S,
         files' = [t \in Tasks |-> IF t \in S THEN Untouched ELSE files[t]]
  PROVE  \A t \in Tasks : ~Advances(t)
<1>1. Untouched.content = "before"
  BY DEF Untouched
<1> QED BY <1>1 DEF Advances

LEMMA FinishCancellationHarmless ==
  ASSUME TypeOK, NEW w, FinishCancellation(w)
  PROVE  Harmless
<1>1. goal'.calls = goal.calls
  <2>1. \/ goal' = [goal EXCEPT !.status = "cancelled", !.worker = "none"]
        \/ goal' = [goal EXCEPT !.status = "paused", !.worker = w]
    BY DEF FinishCancellation, SettlesForCancellation, CancellationBlocked
  <2> QED BY <2>1, Types DEF Goal
<1>2. \E S : SettleTasks(S)
  BY DEF FinishCancellation, SettlesForCancellation, CancellationBlocked
<1>3. PICK S : files' = [t \in Tasks |->
                            IF t \in S /\ tasks[t].txn # "none" THEN Untouched ELSE files[t]]
  BY <1>2 DEF SettleTasks
<1>4. files' = [t \in Tasks |->
                   IF t \in {u \in Tasks : u \in S /\ tasks[u].txn # "none"}
                   THEN Untouched ELSE files[t]]
  BY <1>3
<1> QED BY <1>1, <1>4, PutBackOrKept DEF Harmless

LEMMA FilesKeptHarmless ==
  ASSUME UNCHANGED files, goal'.calls = goal.calls
  PROVE  Harmless
<1> QED BY DEF Harmless, Advances

LEMMA SchedulerHarmless ==
  ASSUME TypeOK, Scheduler
  PROVE  Harmless
<1>1. CASE \/ ScheduleEnd \/ ScheduleApply \/ ScheduleVerify \/ JoinTurns \/ ApplyDone
           \/ ThreadEnds
  BY <1>1, FilesKeptHarmless DEF ScheduleEnd, ScheduleApply, ScheduleVerify, JoinTurns,
     ApplyDone, ThreadEnds
<1>2. CASE NothingToClaim \/ \E S \in SUBSET Tasks : ClaimReady(S)
  BY <1>2, CallsUncounted, FilesKeptHarmless DEF NothingToClaim, ClaimReady
<1>3. CASE \/ VerificationStopped \/ VerificationSuperseded
           \/ VerificationPasses \/ VerificationPauses
           \/ \E t \in Tasks : VerificationFails(t)
  BY <1>3, CallsUncounted, FilesKeptHarmless DEF VerificationStopped, VerificationSuperseded,
     VerificationPasses, VerificationPauses, VerificationFails, EndVerify
<1>4. CASE StopRun
  BY <1>4, CallsUncounted, FilesKeptHarmless, FinishCancellationHarmless DEF StopRun
<1>5. CASE HandleFailure
  BY <1>5, CallsUncounted, FilesKeptHarmless DEF HandleFailure
<1> QED BY <1>1, <1>2, <1>3, <1>4, <1>5 DEF Scheduler

LEMMA StartHarmless ==
  ASSUME NEW g, Start(g), g.calls = goal.calls,
         \A w : [g EXCEPT !.worker = w].calls = goal.calls
  PROVE  goal'.calls = goal.calls
<1> QED BY DEF Start

LEMMA UserHarmless ==
  ASSUME TypeOK, User
  PROVE  Harmless
<1>1. CASE Pause
  BY <1>1, CallsUncounted, FilesKeptHarmless DEF Pause, WithStatus
<1>2. CASE Cancel
  BY <1>2, CallsUncounted, FilesKeptHarmless, FinishCancellationHarmless DEF Cancel, WithStatus
<1>3. \A s : Start(WithStatus(s)) => goal'.calls = goal.calls
  BY CallsUncounted, StartHarmless DEF WithStatus
<1>4. CASE Answer \/ \E choice \in BOOLEAN : Resume(choice)
  BY <1>3, <1>4, FilesKeptHarmless DEF Answer, Resume
<1>5. ASSUME NEW k \in Tasks, Retry(k) PROVE Harmless
  <2>1. goal'.calls = goal.calls
    BY <1>3, <1>5 DEF Retry
  <2>2. files' = files \/ files' = [files EXCEPT ![k] = Untouched]
    BY <1>5 DEF Retry
  <2>3. files' = [files EXCEPT ![k] = Untouched]
            => files' = [t \in Tasks |-> IF t \in {k} THEN Untouched ELSE files[t]]
    BY Types
  <2> QED BY <2>1, <2>2, <2>3, PutBackOrKept, FilesKeptHarmless DEF Harmless
<1>6. ASSUME NEW k \in Tasks, Steer(k) PROVE Harmless
  <2>1. PICK s : Start([goal EXCEPT !.epoch = @ + 1, !.status = s])
    BY <1>6 DEF Steer
  <2>2. goal'.calls = goal.calls
    <3> DEFINE g == [goal EXCEPT !.epoch = @ + 1, !.status = s]
    <3>1. g.calls = goal.calls /\ \A w : [g EXCEPT !.worker = w].calls = goal.calls
      BY CallsUncounted
    <3>2. Start(g)
      BY <2>1
    <3> HIDE DEF g
    <3> QED BY <3>1, <3>2, StartHarmless
  <2>3. files' = [t \in Tasks |->
                    IF t \in {u \in Tasks : tasks[u].txn # "none"} THEN Untouched ELSE files[t]]
    BY <1>6 DEF Steer
  <2> QED BY <2>2, <2>3, PutBackOrKept DEF Harmless
<1> QED BY <1>1, <1>2, <1>4, <1>5, <1>6 DEF User

LEMMA RecoverHarmless ==
  ASSUME TypeOK, Recover
  PROVE  Harmless
<1>1. goal'.calls = goal.calls
  <2>1. \/ \E s : goal' = [goal EXCEPT !.worker = "none", !.status = s]
        \/ goal' = [goal EXCEPT !.status = "paused", !.worker = "none"]
        \/ goal' = goal
    BY DEF Recover, RecoverDead
  <2> QED BY <2>1, Types DEF Goal
<1>2. RolledBack.content = "before"
  BY DEF RolledBack
<1>3. ASSUME NEW t \in Tasks PROVE ~Advances(t)
  BY <1>2 DEF Recover, RecoverDead, Advances
<1> QED BY <1>1, <1>3 DEF Harmless

\* An executor's only call is the one record_dispatch admits.
LEMMA ExecutorHarmless ==
  ASSUME TypeOK, NEW k \in Tasks, Executor(k), ~RecordDispatch(k)
  PROVE  Harmless
<1>1. UNCHANGED files
  BY DEF Executor, EndsTurn, ContinuationRoute, DispatchRefused, RecordProviderReply,
     TurnFails, AcknowledgeContextStep, RecordAction
<1>2. ASSUME NEW u \in BOOLEAN, NEW f \in BOOLEAN, NEW s \in BOOLEAN, FailTask(k, u, f, s)
      PROVE  goal'.calls = goal.calls
  <2>1. goal' = goal \/ \E x : goal' = [goal EXCEPT !.status = x]
    BY <1>2 DEF FailTask
  <2> QED BY <2>1, CallsUncounted
<1>3. BlockReceivedReply(k) => goal'.calls = goal.calls
  BY CallsUncounted DEF BlockReceivedReply
<1>4. DeferContinuation(k) => goal'.calls = goal.calls
  BY DEF DeferContinuation
<1>5. ContinuationRoute(k) \/ DispatchRefused(k) => goal'.calls = goal.calls
  BY <1>2, <1>3, <1>4 DEF ContinuationRoute, DispatchRefused
<1>6. \A kind \in Actions \ {"context"} : RecordAction(k, kind) => goal'.calls = goal.calls
  BY CallsUncounted DEF RecordAction
<1>7. \A u, f \in BOOLEAN : TurnFails(k, u, f) => goal'.calls = goal.calls
  BY <1>2 DEF TurnFails
<1>8. goal'.calls = goal.calls
  BY <1>5, <1>6, <1>7 DEF Executor, RecordProviderReply, AcknowledgeContextStep
<1> QED BY <1>1, <1>8, FilesKeptHarmless

\* The apply loop replaces files in one action only.
LEMMA ApplyHarmless ==
  ASSUME TypeOK, Rows, NEW k \in Tasks, Apply(k), ~Replace(k)
  PROVE  Harmless
<1>1. goal'.calls = goal.calls
  BY CallsUncounted DEF Apply, ApplySkips, DeferPendingAction, ApplyRaises, PrepareTransaction,
     WriteManifest, Commit, ApplyAborts, ApplyFails, AutomaticRollback, FileStep,
     RecordTransactionApplied, ApplyAction
<1>2. \E f \in File : /\ files' = [files EXCEPT ![k] = f]
                      /\ f.content \in {files[k].content, "before"}
  <2>1. /\ files[k] \in File /\ files = [files EXCEPT ![k] = files[k]]
        /\ \A state \in {"none", "prepared", "applied", "rolling_back", "closed"} :
              /\ Manifest(k, state) \in File
              /\ Manifest(k, state).content = files[k].content
    BY FileFacts, Types
  <2>2. /\ Untouched \in File /\ Untouched.content = "before"
        /\ RolledBack \in File /\ RolledBack.content = "before"
    BY DEF Untouched, RolledBack, File
  <2>3. CASE \/ ApplySkips(k) \/ DeferPendingAction(k) \/ ApplyRaises(k)
             \/ RecordTransactionApplied(k)
    BY <2>1, <2>3 DEF ApplySkips, DeferPendingAction, ApplyRaises, RecordTransactionApplied
  <2>4. CASE WriteManifest(k) \/ Commit(k) \/ ApplyFails(k)
    BY <2>1, <2>4 DEF WriteManifest, Commit, ApplyFails, FileStep
  <2>5. CASE PrepareTransaction(k) \/ ApplyAction(k) \/ AutomaticRollback(k)
    BY <2>1, <2>2, <2>5 DEF PrepareTransaction, ApplyAction, AutomaticRollback
  <2>6. CASE ApplyAborts(k)
    <3>1. files' = [files EXCEPT ![k] = IF files[k].manifest = "prepared"
                                        THEN Manifest(k, "closed") ELSE files[k]]
      BY <2>6 DEF ApplyAborts
    <3> QED BY <2>1, <3>1
  <2> QED BY <2>3, <2>4, <2>5, <2>6 DEF Apply
<1>3. \A t \in Tasks : ~Advances(t)
  BY <1>2, Types DEF Advances
<1> QED BY <1>1, <1>3 DEF Harmless

\* Behind a Pause, an open question, a draining cancellation or the end of a
\* goal no provider call is made and no file replaced, however the step of the
\* executor or of the apply loop began.
THEOREM StopsHold == Spec => NothingBehindAStop
<1>1. ASSUME IInv, goal.status \in Stopped \cup Terminal, [Next]_vars
      PROVE  Harmless
  <2> USE DEF IInv
  <2>1. ASSUME NEW t \in Tasks, Executor(t) PROVE Harmless
    <3>1. ~RecordDispatch(t)
      <4>1. SUFFICES ASSUME RecordDispatch(t) PROVE FALSE
        OBVIOUS
      <4>2. goal.status \notin Stopped
        BY <4>1 DEF RecordDispatch, Admitted
      <4>3. goal.status \notin Terminal
        BY <1>1, <4>1 DEF RecordDispatch, Turn, Place, Busy
      <4> QED BY <1>1, <4>2, <4>3
    <3> QED BY <1>1, <2>1, <3>1, ExecutorHarmless
  <2>2. ASSUME NEW t \in Tasks, Apply(t) PROVE Harmless
    <3>1. ~Replace(t)
      <4>1. SUFFICES ASSUME InHand(t) PROVE FALSE
        BY DEF Replace
      <4>2. runner.item = t /\ t # None
        BY <4>1, EngineAssumption DEF InHand
      <4> QED BY <1>1, <4>2 DEF Written, Stopped, Terminal
    <3> QED BY <1>1, <2>2, <3>1, ApplyHarmless
  <2>3. CASE Scheduler \/ User \/ Recover
    BY <1>1, <2>3, SchedulerHarmless, UserHarmless, RecoverHarmless
  <2>4. CASE RecoverCancelled
    BY <1>1, <2>4, FinishCancellationHarmless DEF RecoverCancelled
  <2>5. CASE Crash
    BY <1>1, <2>5, CallsUncounted, FilesKeptHarmless DEF Crash
  <2>6. CASE UNCHANGED vars
    BY <2>6, FilesKeptHarmless DEF vars
  <2> QED BY <1>1, <2>1, <2>2, <2>3, <2>4, <2>5, <2>6 DEF Next, Engine
<1>2. IInv /\ [Next]_vars =>
        [goal.status \in Stopped \cup Terminal =>
            goal'.calls = goal.calls /\ \A t \in Tasks : ~Advances(t)]_vars
  BY <1>1 DEF Harmless
<1> QED BY <1>2, EngineInvariant, PTL DEF NothingBehindAStop, Spec

-----------------------------------------------------------------------------
\* Agreement.  Only an action with changes has a transaction, and only a task
\* that had a call can have agreed.
Honest(r) ==
    /\ r.txn # "none" => Changes(r.action)
    /\ r.agreed = TRUE => r.effectId # 0

\* Tasks are cancelled with their goal, and a complete goal is finished.
Ended ==
    /\ goal.status # "cancelled" => \A t \in Tasks : tasks[t].state # "cancelled"
    /\ goal.status = "complete" =>
          \A t \in Tasks : /\ tasks[t].state \in Finished
                           /\ Required(t) => tasks[t].agreed = TRUE

Team == Ended /\ \A t \in Tasks : Honest(tasks[t])

\* A step of a goal that goes on.
LEMMA TeamGoesOn ==
  ASSUME Team, goal.status \notin Terminal, goal'.status \notin Terminal,
         \A t \in Tasks : /\ Honest(tasks'[t])
                          /\ tasks'[t].state = "cancelled" => tasks[t].state = "cancelled"
  PROVE  Team'
<1>1. Ended'
  BY DEF Team, Ended, Terminal
<1> QED BY <1>1 DEF Team, Honest

\* A step that changes neither the ledger nor the status.
LEMMA TeamRests ==
  ASSUME Team, tasks' = tasks, goal'.status = goal.status
  PROVE  Team'
<1>1. Ended'
  BY DEF Team, Ended, Required
<1> QED BY <1>1 DEF Team, Honest

\* The ledger stays as it is, the goal goes on.
LEMMA TeamWaits ==
  ASSUME Team, tasks' = tasks, goal.status \notin Terminal, goal'.status \notin Terminal
  PROVE  Team'
<1> QED BY TeamGoesOn DEF Team

\* One task gets the entry r.
LEMMA TeamTurn ==
  ASSUME IInv, Team, NEW k \in Tasks, NEW r, tasks' = [tasks EXCEPT ![k] = r],
         Honest(r), r.state # "cancelled",
         goal.status \notin Terminal, goal'.status \notin Terminal
  PROVE  Team'
<1>1. tasks'[k] = r /\ \A t \in Tasks : t # k => tasks'[t] = tasks[t]
  BY Types DEF IInv
<1> QED BY <1>1, TeamGoesOn DEF Team

\* An entry changed only in what agreement does not look at.
LEMMA HonestStill ==
  ASSUME NEW r, NEW s, Honest(r), s.txn \in {"none", r.txn},
         s.txn # "none" => s.action = r.action,
         s.agreed \in {FALSE, r.agreed}, s.effectId = r.effectId
  PROVE  Honest(s)
<1> QED BY DEF Honest

\* The executors.
LEMMA ExecutorTeam ==
  ASSUME IInv, Team, NEW k \in Tasks, Executor(k)
  PROVE  Team'
<1>1. /\ tasks[k] \in Task /\ goal \in Goal /\ goal.status \notin Terminal /\ Honest(tasks[k])
      /\ tasks[k].state # "cancelled" /\ goal.calls \in Nat
  <2>1. \E pcs : Turn(k, pcs)
    BY DEF Executor, ContinuationRoute, RecordDispatch, DispatchRefused, RecordProviderReply,
           AcknowledgeContextStep, TurnFails, RecordAction
  <2>2. goal.status \notin Terminal
    BY <2>1 DEF Turn, IInv, Place, Busy
  <2> QED BY <2>2, Types, Counters DEF IInv, Team, Ended, Terminal
<1> DEFINE w == WithoutLease(tasks[k])
<1>2. /\ w \in Task /\ w.txn = tasks[k].txn /\ w.action = tasks[k].action
      /\ w.agreed = tasks[k].agreed /\ w.effectId = tasks[k].effectId
  BY <1>1 DEF WithoutLease, Task
<1> HIDE DEF w
<1>3. ASSUME NEW r, tasks' = [tasks EXCEPT ![k] = r], goal'.status \notin Terminal,
             r.txn = w.txn, r.action = w.action, r.agreed = w.agreed,
             r.effectId = w.effectId, r.state # "cancelled"
      PROVE  Team'
  <2>1. Honest(r)
    BY <1>1, <1>2, <1>3, HonestStill
  <2> QED BY <1>1, <1>3, <2>1, TeamTurn
<1>4. ASSUME UNCHANGED <<goal, tasks>> PROVE Team'
  BY <1>4, TeamRests
<1>5. ASSUME DeferContinuation(k) PROVE Team'
  <2> DEFINE r == [w EXCEPT !.state = "ready"]
  <2>1. /\ r.txn = w.txn /\ r.action = w.action /\ r.agreed = w.agreed
        /\ r.effectId = w.effectId /\ r.state = "ready"
    BY <1>2 DEF Task
  <2>2. goal' = goal /\ \E q \in {r, tasks[k]} : tasks' = [tasks EXCEPT ![k] = q]
    BY <1>1, <1>5 DEF DeferContinuation, w, Task
  <2> HIDE DEF r
  <2> QED BY <1>1, <1>2, <1>3, <2>1, <2>2
<1>6. ASSUME BlockReceivedReply(k) PROVE Team'
  <2> DEFINE r == [w EXCEPT !.state = "blocked", !.unknown = FALSE, !.reconcile = TRUE,
                            !.effect = "reconciliation_required"]
  <2>1. /\ r.txn = w.txn /\ r.action = w.action /\ r.agreed = w.agreed
        /\ r.effectId = w.effectId /\ r.state = "blocked"
    BY <1>2 DEF Task
  <2>2. tasks' = [tasks EXCEPT ![k] = r]
    BY <1>6 DEF BlockReceivedReply, w
  <2>3. goal'.status \notin Terminal
    <3>1. \/ goal' = [goal EXCEPT !.status = TeamStatus(tasks')]
          \/ goal' = [goal EXCEPT !.status = Unless(Stopped \cup {"cancelled"}, "paused")]
      BY <1>6 DEF BlockReceivedReply
    <3> QED BY <1>1, <3>1 DEF Unless, TeamStatus, Goal, Terminal
  <2> HIDE DEF r
  <2> QED BY <1>3, <2>1, <2>2, <2>3
<1>7. ASSUME NEW uncertain \in BOOLEAN, NEW failover \in BOOLEAN, NEW settle \in BOOLEAN,
             FailTask(k, uncertain, failover, settle)
      PROVE  Team'
  <2> DEFINE received == tasks[k].effect \in {"reply_received", "reconciliation_required"}
             r == [w EXCEPT
                !.state = "blocked", !.unknown = uncertain, !.reconcile = @ \/ received,
                !.effect = IF uncertain THEN "outcome_unknown"
                           ELSE IF received THEN "known_reply_failed" ELSE "settled"]
             q == [r EXCEPT !.state = "ready", !.effect = "settled"]
  <2>1. /\ r.txn = w.txn /\ r.action = w.action /\ r.agreed = w.agreed
        /\ r.effectId = w.effectId /\ r.state = "blocked"
    BY <1>2 DEF Task
  <2>2. /\ q.txn = w.txn /\ q.action = w.action /\ q.agreed = w.agreed
        /\ q.effectId = w.effectId /\ q.state = "ready"
    BY <1>2 DEF Task
  <2>3. \/ UNCHANGED <<goal, tasks>>
        \/ /\ tasks' = [tasks EXCEPT ![k] = q]
           /\ goal' = [goal EXCEPT !.status = Unless(Stopped, "queued")]
        \/ /\ tasks' = [tasks EXCEPT ![k] = r]
           /\ \/ goal' = [goal EXCEPT !.status = TeamStatus(tasks')]
              \/ goal' = [goal EXCEPT !.status = Unless(Stopped, "paused")]
    BY <1>7 DEF FailTask, w
  <2> HIDE DEF r, q
  <2>4. UNCHANGED <<goal, tasks>> \/ goal'.status \notin Terminal
    BY <1>1, <2>3 DEF Unless, TeamStatus, Goal, Terminal
  <2> QED BY <1>3, <1>4, <2>1, <2>2, <2>3, <2>4
<1>8. ASSUME RecordDispatch(k) PROVE Team'
  <2> DEFINE r == [tasks[k] EXCEPT !.effect = "dispatched", !.effectId = goal.calls + 1]
  <2>1. /\ r.txn = tasks[k].txn /\ r.action = tasks[k].action
        /\ r.effectId = goal.calls + 1 /\ r.state = tasks[k].state
    BY <1>1 DEF Task
  <2>2. tasks' = [tasks EXCEPT ![k] = r] /\ goal'.status = goal.status
    BY <1>1, <1>8, Types DEF RecordDispatch, Goal, IInv
  <2> HIDE DEF r
  <2>3. Honest(r)
    BY <1>1, <2>1 DEF Honest
  <2> QED BY <1>1, <2>1, <2>2, <2>3, TeamTurn
<1>9. ASSUME NEW e, tasks' = [tasks EXCEPT ![k].effect = e], UNCHANGED goal PROVE Team'
  <2> DEFINE r == [tasks[k] EXCEPT !.effect = e]
  <2>1. /\ r.txn = tasks[k].txn /\ r.action = tasks[k].action /\ r.agreed = tasks[k].agreed
        /\ r.effectId = tasks[k].effectId /\ r.state = tasks[k].state
    BY <1>1 DEF Task
  <2>2. tasks' = [tasks EXCEPT ![k] = r]
    BY <1>9, Types DEF IInv
  <2> HIDE DEF r
  <2> QED BY <1>1, <1>2, <1>3, <1>9, <2>1, <2>2
<1>10. ASSUME NEW kind \in Actions \ {"context"}, RecordAction(k, kind) PROVE Team'
  <2>1. CASE /\ tasks' = [tasks EXCEPT ![k] = [Emptied(WithoutLease(@)) EXCEPT
                            !.state = "ready", !.unknown = FALSE, !.effect = "settled"]]
             /\ goal' = [goal EXCEPT !.status = Unless({"cancelling"}, "queued")]
    <3> DEFINE m == Emptied(w)
               r == [m EXCEPT !.state = "ready", !.unknown = FALSE, !.effect = "settled"]
    <3>1. /\ r.txn = "none" /\ r.agreed = w.agreed /\ r.effectId = w.effectId
          /\ r.state = "ready"
      BY <1>2 DEF Task, Emptied
    <3>2. tasks' = [tasks EXCEPT ![k] = r]
      BY <2>1, Types DEF IInv, w
    <3>3. goal'.status \notin Terminal
      BY <1>1, <2>1 DEF Unless, Goal, Terminal
    <3> HIDE DEF r
    <3>4. Honest(r)
      BY <1>1, <1>2, <3>1 DEF Honest
    <3> QED BY <1>1, <3>1, <3>2, <3>3, <3>4, TeamTurn
  <2>2. CASE /\ tasks' = [tasks EXCEPT ![k].action = kind, ![k].reconcile = FALSE,
                                       ![k].effect = "acknowledged"]
             /\ UNCHANGED goal
    <3> DEFINE r == [tasks[k] EXCEPT !.action = kind, !.reconcile = FALSE,
                                     !.effect = "acknowledged"]
    <3>1. /\ r.txn = tasks[k].txn /\ r.agreed = tasks[k].agreed
          /\ r.effectId = tasks[k].effectId /\ r.state = tasks[k].state
      BY <1>1 DEF Task
    <3>2. tasks' = [tasks EXCEPT ![k] = r]
      BY <2>2, Types DEF IInv
    <3>3. tasks[k].txn = "none"
      BY <1>10 DEF RecordAction, Turn, IInv, Rows, Row, Executing, Ledger, Coherent
    <3> HIDE DEF r
    <3>4. Honest(r)
      BY <1>1, <3>1, <3>3 DEF Honest
    <3> QED BY <1>1, <2>2, <3>1, <3>2, <3>4, TeamTurn
  <2> QED BY <1>10, <2>1, <2>2 DEF RecordAction
<1>11. CASE ContinuationRoute(k) \/ DispatchRefused(k)
  BY <1>4, <1>5, <1>6, <1>7, <1>11 DEF ContinuationRoute, DispatchRefused
<1>12. CASE \/ RecordDispatch(k) \/ RecordProviderReply(k) \/ AcknowledgeContextStep(k)
            \/ \E uncertain, failover \in BOOLEAN : TurnFails(k, uncertain, failover)
  BY <1>7, <1>8, <1>9, <1>12 DEF RecordProviderReply, AcknowledgeContextStep, TurnFails
<1> QED BY <1>10, <1>11, <1>12 DEF Executor

-----------------------------------------------------------------------------
\* What applying a reply rests on.

\* The task whose files are being written is one of the batch.
Held == runner.item # None => Has(runner.item)

\* A reply that is applied is the recorded action of a task of a goal that
\* goes on, and its kind is the one of that action.
LEMMA Applies ==
  ASSUME IInv, Held, NEW k \in Tasks, ApplyAction(k)
  PROVE  /\ Current(k) /\ tasks[k].action # "none" /\ tasks[k] \in Task /\ Row(k)
         /\ goal.status \notin Terminal /\ goal'.status \notin Terminal
         /\ Doing(k) = tasks[k].action
<1> USE DEF IInv
<1>1. Current(k) /\ Has(k) /\ goal.status \notin Terminal
  <2>1. CASE Applicable(k)
    BY <2>1, Batched DEF Applicable
  <2>2. CASE InHand(k)
    <3>1. runner.item = k /\ k # None
      BY <2>2, EngineAssumption DEF InHand
    <3> QED BY <3>1 DEF Written, Held, Terminal
  <2> QED BY <2>1, <2>2 DEF ApplyAction
<1>2. Doing(k) \in Kinds /\ <<k, Doing(k)>> \in runner.todo
  BY <1>1 DEF Has, Doing
<1>3. Row(k) /\ tasks[k] \in Task
  BY Types DEF Rows
<1>4. Doing(k) = tasks[k].action /\ tasks[k].action # "none"
  BY <1>1, <1>2, <1>3 DEF Row, Executing, Kinds
<1>5. goal'.status \notin Terminal
  <2>1. PICK s \in Statuses \ Terminal : goal' = [goal EXCEPT !.status = s]
    <3>1. "waiting_for_user" \in Statuses \ Terminal
      BY DEF Statuses, Terminal
    <3> QED BY <1>1, <3>1, StatusAfter DEF ApplyAction
  <2> QED BY <2>1, StatusOnly
<1> QED BY <1>1, <1>3, <1>4, <1>5

\* The apply loop.
LEMMA ApplyTeam ==
  ASSUME IInv, Team, Held, NEW k \in Tasks, Apply(k)
  PROVE  Team'
<1> USE DEF IInv
<1>1. CASE \/ ApplySkips(k) \/ ApplyRaises(k) \/ WriteManifest(k) \/ Replace(k) \/ Commit(k)
           \/ ApplyAborts(k) \/ ApplyFails(k) \/ AutomaticRollback(k)
  <2>1. UNCHANGED <<goal, tasks>>
    BY <1>1 DEF ApplySkips, ApplyRaises, WriteManifest, Replace, Commit, ApplyAborts,
                ApplyFails, AutomaticRollback, FileStep
  <2> QED BY <2>1, TeamRests
<1>2. tasks[k] \in Task /\ Honest(tasks[k]) /\ goal.status \notin Terminal
  <2>1. runner.pc = "apply"
    BY DEF Apply, ApplySkips, DeferPendingAction, ApplyRaises, PrepareTransaction,
           WriteManifest, Replace, Commit, ApplyAborts, ApplyFails, AutomaticRollback,
           RecordTransactionApplied, ApplyAction, Applicable, Choosing, InHand, Applying
  <2> QED BY <2>1, Types DEF Team, Place, Busy
<1>3. CASE DeferPendingAction(k)
  <2> DEFINE r == [tasks[k] EXCEPT !.state = "pending_apply"]
  <2>1. /\ r.txn = tasks[k].txn /\ r.action = tasks[k].action /\ r.agreed = tasks[k].agreed
        /\ r.effectId = tasks[k].effectId /\ r.state = "pending_apply"
    BY <1>2 DEF Task
  <2>2. tasks' = [tasks EXCEPT ![k] = r] /\ goal' = goal
    BY <1>3 DEF DeferPendingAction
  <2> HIDE DEF r
  <2>3. Honest(r)
    BY <1>2, <2>1, HonestStill
  <2> QED BY <1>2, <2>1, <2>2, <2>3, TeamTurn
<1>4. CASE PrepareTransaction(k)
  <2> DEFINE r == [tasks[k] EXCEPT !.txn = "prepared", !.txnEffect = tasks[k].effectId]
  <2>1. /\ r.action = tasks[k].action /\ r.agreed = tasks[k].agreed
        /\ r.effectId = tasks[k].effectId /\ r.state = tasks[k].state
    BY <1>2 DEF Task
  <2>2. tasks' = [tasks EXCEPT ![k] = r] /\ goal' = goal
    BY <1>4, Types DEF PrepareTransaction
  <2>3. Current(k) /\ Has(k) /\ Changes(Doing(k)) /\ Row(k)
    BY <1>4 DEF PrepareTransaction, Applicable, NeedsFiles, Rows
  <2>4. tasks[k].action = Doing(k)
    <3>1. Doing(k) \in Kinds /\ <<k, Doing(k)>> \in runner.todo
      BY <2>3 DEF Has, Doing
    <3> QED BY <2>3, <3>1 DEF Row, Executing
  <2> HIDE DEF r
  <2>5. Honest(r)
    BY <1>2, <2>1, <2>3, <2>4 DEF Honest
  <2>6. r.state # "cancelled"
    BY <2>1, <2>3 DEF Current
  <2> QED BY <1>2, <2>2, <2>5, <2>6, TeamTurn
<1>5. CASE RecordTransactionApplied(k)
  <2> DEFINE r == [tasks[k] EXCEPT !.txn = "applied"]
  <2>1. /\ r.action = tasks[k].action /\ r.agreed = tasks[k].agreed
        /\ r.effectId = tasks[k].effectId /\ r.state = tasks[k].state
    BY <1>2 DEF Task
  <2>2. tasks' = [tasks EXCEPT ![k] = r] /\ goal' = goal /\ tasks[k].txn = "prepared"
    BY <1>5, Types DEF RecordTransactionApplied
  <2> HIDE DEF r
  <2>3. Honest(r)
    BY <1>2, <2>1, <2>2 DEF Honest
  <2>4. r.state # "cancelled"
    BY <1>2, <2>1 DEF Team, Ended, Terminal
  <2> QED BY <1>2, <2>2, <2>3, <2>4, TeamTurn
<1>6. CASE ApplyAction(k)
  <2>1. Current(k) /\ tasks[k].action # "none" /\ goal'.status \notin Terminal /\ Row(k)
    BY <1>6, Applies
  <2>2. tasks' = Taking(k) /\ tasks[k].effectId # 0
    BY <1>6, <2>1 DEF ApplyAction, Row, Unlanded
  <2>3. ASSUME NEW t \in Tasks
        PROVE  /\ Honest(tasks'[t])
               /\ tasks'[t].state = "cancelled" => tasks[t].state = "cancelled"
    <3>1. CASE t = k
      BY <2>1, <2>2, <3>1, Took DEF Honest
    <3>2. CASE t # k
      <4>1. \/ tasks'[t] = tasks[t]
            \/ tasks'[t] = [tasks[t] EXCEPT !.agreed = FALSE,
                                !.state = IF @ = "complete" THEN "ready" ELSE @]
        BY <2>1, <2>2, <3>2, Took
      <4>2. tasks[t] \in Task /\ Honest(tasks[t])
        BY Types DEF Team
      <4>3. CASE tasks'[t] # tasks[t]
        <5> DEFINE q == IF tasks[t].state = "complete" THEN "ready" ELSE tasks[t].state
        <5>1. tasks'[t] = [tasks[t] EXCEPT !.agreed = FALSE, !.state = q]
          BY <4>1, <4>3
        <5>2. q = "cancelled" => tasks[t].state = "cancelled"
          OBVIOUS
        <5> HIDE DEF q
        <5>3. /\ tasks'[t].agreed = FALSE /\ tasks'[t].txn = tasks[t].txn
              /\ tasks'[t].action = tasks[t].action /\ tasks'[t].state = q
          BY <4>2, <5>1 DEF Task
        <5> QED BY <4>2, <5>2, <5>3 DEF Honest
      <4> QED BY <4>2, <4>3
    <3> QED BY <3>1, <3>2
  <2> QED BY <1>2, <2>1, <2>3, TeamGoesOn
<1> QED BY <1>1, <1>3, <1>4, <1>5, <1>6 DEF Apply

\* The end of a cancellation.
LEMMA FinishCancellationTeam ==
  ASSUME IInv, Team, goal.status \notin Terminal, NEW w, FinishCancellation(w)
  PROVE  Team'
<1>1. ASSUME NEW t \in Tasks, NEW s
      PROVE  /\ tasks[t] \in Task /\ Coherent(tasks[t]) /\ Honest(tasks[t])
             /\ tasks[t].state # "cancelled"
             /\ SettledTask(t).state = tasks[t].state /\ Honest(SettledTask(t))
             /\ Honest([SettledTask(t) EXCEPT !.state = s])
             /\ LET q == [WithoutLease(tasks[t]) EXCEPT !.state = "blocked"] IN
                Honest(q) /\ q.state = "blocked"
  <2>1. /\ tasks[t] \in Task /\ Coherent(tasks[t]) /\ Honest(tasks[t])
        /\ tasks[t].state # "cancelled"
    BY Types DEF IInv, Rows, Row, Ledger, Team, Ended, Terminal
  <2> DEFINE r == SettledTask(t)
             z == [r EXCEPT !.state = s]
             v == WithoutLease(tasks[t])
             q == [v EXCEPT !.state = "blocked"]
  <2>2. /\ r.txn = "none" /\ r.agreed = tasks[t].agreed /\ r.effectId = tasks[t].effectId
        /\ r.state = tasks[t].state
        /\ z.txn = "none" /\ z.agreed = tasks[t].agreed /\ z.effectId = tasks[t].effectId
    BY <2>1 DEF SettledTask, Emptied, Task
  <2>3. /\ q.txn = tasks[t].txn /\ q.action = tasks[t].action /\ q.agreed = tasks[t].agreed
        /\ q.effectId = tasks[t].effectId /\ q.state = "blocked"
    BY <2>1 DEF WithoutLease, Task
  <2> HIDE DEF r, z, q
  <2>4. Honest(r) /\ Honest(z) /\ Honest(q)
    BY <2>1, <2>2, <2>3 DEF Honest
  <2> QED BY <2>1, <2>2, <2>3, <2>4 DEF r, z, q, v
<1>2. CASE SettlesForCancellation
  <2>1. goal'.status = "cancelled"
    BY <1>2, Types DEF SettlesForCancellation, IInv, Goal
  <2>2. ASSUME NEW t \in Tasks PROVE Honest(tasks'[t])
    <3> DEFINE s == IF SettledTask(t).state \in Finished
                    THEN SettledTask(t).state ELSE "cancelled"
    <3>1. tasks'[t] = [SettledTask(t) EXCEPT !.state = s]
      BY <1>2 DEF SettlesForCancellation
    <3> HIDE DEF s
    <3>2. Honest([SettledTask(t) EXCEPT !.state = s])
      BY <1>1
    <3> QED BY <3>1, <3>2
  <2> QED BY <2>1, <2>2 DEF Team, Ended
<1>3. CASE CancellationBlocked(w)
  <2>1. goal'.status = "paused"
    BY <1>3, Types DEF CancellationBlocked, IInv, Goal
  <2>2. PICK S \in SUBSET Tasks :
           tasks' = [t \in Tasks |->
              IF t \in S THEN SettledTask(t)
              ELSE IF tasks[t].txn # "none" /\ tasks[t].state \in {"running", "pending_apply"}
              THEN [WithoutLease(tasks[t]) EXCEPT !.state = "blocked"]
              ELSE tasks[t]]
    BY <1>3 DEF CancellationBlocked
  <2>3. ASSUME NEW t \in Tasks
        PROVE  Honest(tasks'[t]) /\ tasks'[t].state # "cancelled"
    <3>1. tasks'[t] \in {SettledTask(t), tasks[t],
                         [WithoutLease(tasks[t]) EXCEPT !.state = "blocked"]}
      BY <2>2
    <3> QED BY <1>1, <3>1
  <2> QED BY <2>1, <2>3, TeamGoesOn DEF Terminal
<1> QED BY <1>2, <1>3 DEF FinishCancellation

\* The scheduler.
LEMMA SchedulerTeam ==
  ASSUME IInv, Team, Scheduler
  PROVE  Team'
<1> USE DEF IInv
<1>1. CASE ScheduleEnd \/ ScheduleApply \/ ScheduleVerify \/ JoinTurns \/ ApplyDone \/ ThreadEnds
  <2>1. UNCHANGED <<goal, tasks>>
    BY <1>1 DEF ScheduleEnd, ScheduleApply, ScheduleVerify, JoinTurns, ApplyDone, ThreadEnds
  <2> QED BY <2>1, TeamRests
<1>2. CASE NothingToClaim
  <2>1. /\ tasks' = tasks /\ goal.status \notin Terminal
        /\ \E s \in {"paused", goal.status} : goal' = [goal EXCEPT !.status = s]
    BY <1>2 DEF NothingToClaim, Runnable
  <2>2. goal'.status \notin Terminal
    BY <2>1, Types DEF Goal, Terminal
  <2> QED BY <2>1, <2>2, TeamWaits
<1>3. CASE \E S \in SUBSET Tasks : ClaimReady(S)
  <2>1. PICK S \in SUBSET Tasks : ClaimReady(S)
    BY <1>3
  <2>2. /\ goal.status \notin Terminal /\ goal' = [goal EXCEPT !.status = "running"]
        /\ tasks' = [t \in Tasks |->
              IF t \in S
              THEN [tasks[t] EXCEPT !.state = "running", !.leased = TRUE,
                                    !.unknown = FALSE, !.claimEpoch = goal.epoch]
              ELSE tasks[t]]
    BY <2>1 DEF ClaimReady, Runnable
  <2>3. goal'.status \notin Terminal
    BY <2>2, Types DEF Goal, Terminal
  <2>4. ASSUME NEW t \in Tasks
        PROVE  /\ Honest(tasks'[t])
               /\ tasks'[t].state = "cancelled" => tasks[t].state = "cancelled"
    <3> DEFINE r == [tasks[t] EXCEPT !.state = "running", !.leased = TRUE,
                                     !.unknown = FALSE, !.claimEpoch = goal.epoch]
    <3>1. tasks[t] \in Task /\ Honest(tasks[t])
      BY Types DEF Team
    <3>2. /\ r.txn = tasks[t].txn /\ r.action = tasks[t].action /\ r.agreed = tasks[t].agreed
          /\ r.effectId = tasks[t].effectId /\ r.state = "running"
      BY <3>1 DEF Task
    <3>3. tasks'[t] \in {r, tasks[t]}
      BY <2>2
    <3> HIDE DEF r
    <3> QED BY <3>1, <3>2, <3>3, HonestStill
  <2> QED BY <2>2, <2>3, <2>4, TeamGoesOn
<1>4. CASE VerificationStopped
  <2>1. tasks' = tasks /\ goal' = [goal EXCEPT !.status = goal.status]
    BY <1>4 DEF VerificationStopped, EndVerify
  <2> QED BY <2>1, SameGoal, TeamRests
<1>5. CASE VerificationSuperseded \/ VerificationPauses
  <2>1. PICK s \in {"running", "queued", "paused"} :
            tasks' = tasks /\ goal' = [goal EXCEPT !.status = s] /\ goal.status \notin Terminal
    BY <1>5 DEF VerificationSuperseded, VerificationPauses, EndVerify, Checked, Runnable
  <2>2. goal'.status \notin Terminal
    BY <2>1, Types DEF Goal, Terminal
  <2> QED BY <2>1, <2>2, TeamWaits
<1>6. CASE VerificationPasses
  <2>1. /\ goal' = [goal EXCEPT !.status = "complete"] /\ tasks' = tasks
        /\ AllFinished /\ goal.status \notin Terminal
        /\ \A t \in Tasks : Required(t) /\ tasks[t].state # "cancelled" => tasks[t].agreed
    BY <1>6 DEF VerificationPasses, EndVerify, Checked, Accepted, Runnable
  <2>2. goal'.status = "complete"
    BY <2>1, Types DEF Goal
  <2>3. ASSUME NEW t \in Tasks
        PROVE  /\ tasks[t].state # "cancelled" /\ tasks[t].state \in Finished
               /\ Required(t) => tasks[t].agreed = TRUE
    <3>1. tasks[t].state # "cancelled" /\ tasks[t] \in Task
      BY <2>1, Types DEF Team, Ended, Terminal
    <3>2. tasks[t].state \in Finished
      BY <2>1 DEF AllFinished, InState
    <3>3. tasks[t].agreed \in BOOLEAN
      BY <3>1 DEF Task
    <3> QED BY <2>1, <3>1, <3>2, <3>3
  <2>4. Ended'
    BY <2>1, <2>2, <2>3 DEF Ended, Required
  <2> QED BY <2>1, <2>4 DEF Team
<1>7. CASE \E t \in Tasks : VerificationFails(t)
  <2>1. PICK k \in Tasks : VerificationFails(k)
    BY <1>7
  <2> DEFINE r == NewTask("ready")
  <2>2. /\ tasks' = [tasks EXCEPT ![k] = r] /\ goal.status \notin Terminal
        /\ goal' = [goal EXCEPT !.status = "queued"]
    BY <2>1 DEF VerificationFails, EndVerify, Checked, Runnable
  <2>3. goal'.status \notin Terminal
    BY <2>2, Types DEF Goal, Terminal
  <2>4. r.state = "ready" /\ r.txn = "none" /\ r.agreed = FALSE
    BY DEF NewTask
  <2> HIDE DEF r
  <2>5. Honest(r)
    BY <2>4 DEF Honest
  <2> QED BY <2>2, <2>3, <2>4, <2>5, TeamTurn
<1>8. CASE StopRun
  <2>1. CASE goal.status = "cancelling"
    BY <1>8, <2>1, FinishCancellationTeam DEF StopRun, Terminal
  <2>2. CASE goal.status # "cancelling"
    <3>1. tasks' = tasks /\ goal'.status = goal.status
      BY <1>8, <2>2, Types DEF StopRun, Goal
    <3> QED BY <3>1, TeamRests
  <2> QED BY <2>1, <2>2
<1>9. CASE HandleFailure
  <2>1. CASE UNCHANGED <<goal, tasks>>
    BY <2>1, TeamRests
  <2>2. CASE /\ Runnable /\ goal' = [goal EXCEPT !.status = "paused"]
             /\ tasks' = [t \in Tasks |->
                  IF tasks[t].state \in {"running", "pending_apply"} /\ tasks[t].action # "none"
                  THEN [WithoutLease(tasks[t]) EXCEPT !.state = "blocked"] ELSE tasks[t]]
    <3>1. goal.status \notin Terminal /\ goal'.status \notin Terminal
      BY <2>2, Types DEF Runnable, Goal, Terminal
    <3>2. ASSUME NEW t \in Tasks
          PROVE  /\ Honest(tasks'[t])
                 /\ tasks'[t].state = "cancelled" => tasks[t].state = "cancelled"
      <4> DEFINE v == WithoutLease(tasks[t])
                 r == [v EXCEPT !.state = "blocked"]
      <4>1. tasks[t] \in Task /\ Honest(tasks[t])
        BY Types DEF Team
      <4>2. /\ r.txn = tasks[t].txn /\ r.action = tasks[t].action /\ r.agreed = tasks[t].agreed
            /\ r.effectId = tasks[t].effectId /\ r.state = "blocked"
        BY <4>1 DEF Task, WithoutLease
      <4>3. tasks'[t] \in {r, tasks[t]}
        BY <2>2
      <4> HIDE DEF r
      <4> QED BY <4>1, <4>2, <4>3, HonestStill
    <3> QED BY <3>1, <3>2, TeamGoesOn
  <2> QED BY <1>9, <2>1, <2>2 DEF HandleFailure
<1> QED BY <1>1, <1>2, <1>3, <1>4, <1>5, <1>6, <1>7, <1>8, <1>9 DEF Scheduler

\* The controls that leave the goal queued or running.
LEMMA StartGoesOn ==
  ASSUME NEW g \in Goal, Start(g)
  PROVE  goal'.status = g.status
<1> QED BY DEF Start, Goal

\* The user's controls.
LEMMA UserTeam ==
  ASSUME IInv, Team, User
  PROVE  Team'
<1> USE DEF IInv
<1>1. CASE Pause
  <2>1. /\ tasks' = tasks /\ goal.status \notin Terminal
        /\ goal' = [goal EXCEPT !.status = "paused"]
    BY <1>1 DEF Pause, WithStatus
  <2>2. goal'.status \notin Terminal
    BY <2>1, Types DEF Goal, Terminal
  <2> QED BY <2>1, <2>2, TeamWaits
<1>2. CASE Cancel
  <2>1. CASE goal.worker = "live"
    <3>1. /\ tasks' = tasks /\ goal.status \notin Terminal
          /\ goal' = [goal EXCEPT !.status = "cancelling"]
      BY <1>2, <2>1 DEF Cancel, WithStatus
    <3>2. goal'.status \notin Terminal
      BY <3>1, Types DEF Goal, Terminal
    <3> QED BY <3>1, <3>2, TeamWaits
  <2>2. CASE goal.worker # "live"
    BY <1>2, <2>2, FinishCancellationTeam DEF Cancel
  <2> QED BY <2>1, <2>2
<1> DEFINE g == WithStatus("queued")
<1>3. g \in Goal /\ g.status \notin Terminal
  BY QueuedAgain
<1> HIDE DEF g
<1>4. ASSUME Start(g), goal.status \notin Terminal,
             \A t \in Tasks : /\ Honest(tasks'[t])
                              /\ tasks'[t].state = "cancelled" => tasks[t].state = "cancelled"
      PROVE  Team'
  BY <1>3, <1>4, StartGoesOn, TeamGoesOn
<1>5. ASSUME NEW t \in Tasks
      PROVE  /\ tasks[t] \in Task /\ Coherent(tasks[t]) /\ Honest(tasks[t])
             /\ LET q == [tasks[t] EXCEPT !.state = "ready"] IN
                Honest(q) /\ q.state = "ready"
             /\ LET q == [WithoutLease(tasks[t]) EXCEPT !.state = "ready", !.unknown = FALSE,
                              !.reconcile = FALSE, !.effect = "settled"] IN
                /\ Honest(q) /\ q.state = "ready"
                /\ Honest(Emptied(q)) /\ Emptied(q).state = "ready"
  <2>1. tasks[t] \in Task /\ Coherent(tasks[t]) /\ Honest(tasks[t])
    BY Types DEF Rows, Row, Ledger, Team
  <2> DEFINE w == WithoutLease(tasks[t])
             r == [tasks[t] EXCEPT !.state = "ready"]
             q == [w EXCEPT !.state = "ready", !.unknown = FALSE,
                            !.reconcile = FALSE, !.effect = "settled"]
             m == Emptied(q)
  <2>2. /\ r.txn = tasks[t].txn /\ r.action = tasks[t].action /\ r.agreed = tasks[t].agreed
        /\ r.effectId = tasks[t].effectId /\ r.state = "ready"
    BY <2>1 DEF Task
  <2>3. /\ w \in Task /\ w.txn = tasks[t].txn /\ w.action = tasks[t].action
        /\ w.agreed = tasks[t].agreed /\ w.effectId = tasks[t].effectId
    BY <2>1 DEF WithoutLease, Task
  <2> HIDE DEF w, r
  <2>4. /\ q \in Task /\ q.txn = tasks[t].txn /\ q.action = tasks[t].action
        /\ q.agreed = tasks[t].agreed /\ q.effectId = tasks[t].effectId /\ q.state = "ready"
    BY <2>3 DEF Task, TaskStates, EffectStates
  <2> HIDE DEF q
  <2>5. /\ m.txn = "none" /\ m.agreed = tasks[t].agreed /\ m.effectId = tasks[t].effectId
        /\ m.state = "ready"
    BY <2>4 DEF Emptied, Task
  <2> HIDE DEF m
  <2>6. Honest(r) /\ Honest(q) /\ Honest(m)
    BY <2>1, <2>2, <2>4, <2>5 DEF Honest
  <2> QED BY <2>1, <2>2, <2>4, <2>5, <2>6 DEF r, q, m, w
<1>6. CASE Answer
  <2>1. Start(g) /\ goal.status \notin Terminal
    BY <1>6 DEF Answer, g
  <2>2. ASSUME NEW t \in Tasks
        PROVE  tasks'[t] \in {tasks[t], [tasks[t] EXCEPT !.state = "ready"]}
    BY <1>6 DEF Answer
  <2> QED BY <1>4, <1>5, <2>1, <2>2
<1>7. CASE \E choice \in BOOLEAN : Resume(choice)
  <2>1. PICK choice \in BOOLEAN : Resume(choice)
    BY <1>7
  <2>2. Start(g) /\ goal.status \notin Terminal
    BY <2>1 DEF Resume, g, Terminal
  <2>3. ASSUME NEW t \in Tasks
        PROVE  tasks'[t] \in {tasks[t], [tasks[t] EXCEPT !.state = "ready"],
                   [WithoutLease(tasks[t]) EXCEPT !.state = "ready", !.unknown = FALSE,
                         !.reconcile = FALSE, !.effect = "settled"]}
    BY <2>1 DEF Resume
  <2> QED BY <1>4, <1>5, <2>2, <2>3
<1>8. CASE \E t \in Tasks : Retry(t)
  <2>1. PICK k \in Tasks : Retry(k)
    BY <1>8
  <2> DEFINE q == [WithoutLease(tasks[k]) EXCEPT !.state = "ready", !.unknown = FALSE,
                       !.reconcile = FALSE, !.effect = "settled"]
  <2>2. /\ Start(g) /\ goal.status \notin Terminal
        /\ \E r \in {q, Emptied(q)} : tasks' = [tasks EXCEPT ![k] = r]
    BY <2>1 DEF Retry, g
  <2>3. /\ Honest(q) /\ q.state = "ready"
        /\ Honest(Emptied(q)) /\ Emptied(q).state = "ready"
    BY <1>5
  <2> HIDE DEF q
  <2>4. goal'.status \notin Terminal
    BY <1>3, <2>2, StartGoesOn
  <2> QED BY <2>2, <2>3, <2>4, TeamTurn DEF Terminal
<1>9. CASE \E t \in Tasks : Steer(t)
  <2>1. PICK spare \in Tasks : Steer(spare)
    BY <1>9
  <2> DEFINE d == [t \in Tasks |-> Steered(t)]
             n == NewTask("ready")
             next == tasks'
             s == IF \E t \in Tasks : next[t].state = "running" THEN "running" ELSE "queued"
             h == [goal EXCEPT !.epoch = @ + 1, !.status = s]
  <2>2. /\ Start(h) /\ goal.status \notin Terminal /\ goal.epoch < MaxEpoch
        /\ tasks' = d \/ tasks' = [d EXCEPT ![spare] = n]
    BY <2>1 DEF Steer
  <2>3. h \in Goal /\ h.status \notin Terminal
    <3>1. goal.epoch + 1 \in 1..MaxEpoch
      BY <2>2, Types, EngineAssumption DEF Goal
    <3>2. s \in {"running", "queued"}
      OBVIOUS
    <3> HIDE DEF s
    <3> QED BY <3>1, <3>2, Types DEF Goal, Statuses, Terminal
  <2>4. goal'.status \notin Terminal
    <3> HIDE DEF h
    <3> QED BY <2>2, <2>3, StartGoesOn
  <2>5. n.state = "ready" /\ Honest(n)
    BY DEF NewTask, Honest
  <2>6. ASSUME NEW t \in Tasks
        PROVE  /\ Honest(Steered(t))
               /\ Steered(t).state = "cancelled" => tasks[t].state = "cancelled"
    <3>1. /\ Steered(t).txn = "none" /\ Steered(t).agreed = FALSE
          /\ Steered(t).state = "cancelled" => tasks[t].state = "cancelled"
      BY <1>5, SteeredFacts
    <3> QED BY <3>1 DEF Honest
  <2> HIDE DEF n
  <2>7. ASSUME NEW t \in Tasks PROVE tasks'[t] \in {Steered(t), n}
    BY <2>2
  <2> QED BY <2>2, <2>4, <2>5, <2>6, <2>7, TeamGoesOn
<1> QED BY <1>1, <1>2, <1>6, <1>7, <1>8, <1>9 DEF User

\* Crash and recovery.
LEMMA RecoverTeam ==
  ASSUME IInv, Team, Recover
  PROVE  Team'
<1> USE DEF IInv
<1>1. CASE InState({"running"}) # {}
  <2>1. /\ goal' = [goal EXCEPT !.worker = "none", !.status = Unless({"cancelling"}, "paused")]
        /\ tasks' = [t \in Tasks |->
              IF tasks[t].state = "running" THEN RecoveredTask(t) ELSE tasks[t]]
    BY <1>1 DEF Recover, RecoverDead
  <2>2. goal.status \notin Terminal
    <3>1. PICK t \in Tasks : tasks[t].state = "running"
      BY <1>1 DEF InState
    <3> QED BY <3>1 DEF Quiet, Team, Ended, Terminal, Finished
  <2>3. goal'.status \notin Terminal
    BY <2>1, <2>2, Types DEF Unless, Goal, Terminal
  <2>4. ASSUME NEW t \in Tasks
        PROVE  /\ Honest(tasks'[t])
               /\ tasks'[t].state = "cancelled" => tasks[t].state = "cancelled"
    <3>1. tasks[t] \in Task /\ Coherent(tasks[t]) /\ Honest(tasks[t])
      BY Types DEF Rows, Row, Ledger, Team
    <3>2. CASE tasks[t].state = "running"
      <4> DEFINE r == RecoveredTask(t)
      <4>1. /\ r.state \in {"ready", "pending_apply", "blocked"}
            /\ r.effectId = tasks[t].effectId /\ r.action = tasks[t].action
            /\ r.agreed = tasks[t].agreed
            /\ r.txn \in {"none", tasks[t].txn} \/ tasks[t].txn # "none"
        BY <3>1, <3>2, RecoveredTaskFacts
      <4>2. tasks'[t] = r
        BY <2>1, <3>2
      <4> HIDE DEF r
      <4> QED BY <3>1, <4>1, <4>2 DEF Honest
    <3>3. CASE tasks[t].state # "running"
      BY <2>1, <3>1, <3>3
    <3> QED BY <3>2, <3>3
  <2> QED BY <2>2, <2>3, <2>4, TeamGoesOn
<1>2. CASE InState({"running"}) = {}
  <2>1. /\ tasks' = tasks
        /\ \/ goal' = goal
           \/ /\ goal.status = "queued"
              /\ goal' = [goal EXCEPT !.status = "paused", !.worker = "none"]
    BY <1>2 DEF Recover
  <2>2. CASE goal' = goal
    BY <2>1, <2>2, TeamRests
  <2>3. CASE goal.status = "queued"
             /\ goal' = [goal EXCEPT !.status = "paused", !.worker = "none"]
    <3>1. goal.status \notin Terminal /\ goal'.status \notin Terminal
      BY <2>3, Types DEF Goal, Terminal
    <3> QED BY <2>1, <3>1, TeamWaits
  <2> QED BY <2>1, <2>2, <2>3
<1> QED BY <1>1, <1>2

LEMMA RecoverCancelledTeam ==
  ASSUME IInv, Team, RecoverCancelled
  PROVE  Team'
<1>1. goal.status \notin Terminal
  BY DEF RecoverCancelled, IInv, Place, Terminal
<1> QED BY <1>1, FinishCancellationTeam DEF RecoverCancelled

LEMMA StepTeam == IInv /\ Team /\ Held /\ [Next]_vars => Team'
<1> SUFFICES ASSUME IInv, Team, Held, [Next]_vars PROVE Team'
  OBVIOUS
<1>1. CASE Crash
  <2>1. tasks' = tasks /\ goal'.status = goal.status
    BY <1>1, Types DEF Crash, IInv, Goal
  <2> QED BY <2>1, TeamRests
<1>2. CASE UNCHANGED vars
  BY <1>2, TeamRests DEF vars
<1>3. CASE Engine
  BY <1>3, SchedulerTeam, RecoverTeam, RecoverCancelledTeam, ApplyTeam, ExecutorTeam DEF Engine
<1> QED BY <1>1, <1>2, <1>3, UserTeam DEF Next

\* The task in hand stays in the batch until its reply is applied.
LEMMA StepHeld == IInv /\ Held /\ [Next]_vars => Held'
<1> SUFFICES ASSUME IInv, Held, [Next]_vars PROVE Held'
  OBVIOUS
<1>1. CASE runner' = runner
  BY <1>1 DEF Held, Has
<1>2. CASE runner'.item = None
  BY <1>2 DEF Held
<1>3. CASE runner'.pc # "apply"
  <2>1. Place'
    BY StepInv DEF IInv
  <2> QED BY <1>3, <2>1 DEF Place, Held
<1>4. IInv'
  BY StepInv
<1>5. CASE \E S \in SUBSET Tasks : ClaimReady(S)
  <2>1. runner' = At("act")
    BY <1>5 DEF ClaimReady
  <2>2. runner'.pc = "act"
    BY <2>1, Begins DEF Phases, Busy
  <2> QED BY <1>3, <2>2
<1>6. CASE ScheduleApply \/ JoinTurns
  <2>1. /\ At("apply").item = None /\ At("apply") \in Thread
    BY Begins DEF Phases, Busy
  <2>2. \E S : runner' = [At("apply") EXCEPT !.todo = S]
    BY <1>6 DEF ScheduleApply, JoinTurns
  <2> QED BY <1>2, <2>1, <2>2 DEF Thread
<1>7. CASE \/ ScheduleEnd \/ ScheduleVerify \/ NothingToClaim \/ ApplyDone
           \/ VerificationStopped \/ VerificationSuperseded
           \/ VerificationPasses \/ VerificationPauses
           \/ (\E t \in Tasks : VerificationFails(t))
           \/ StopRun \/ HandleFailure \/ ThreadEnds \/ Recover \/ RecoverCancelled \/ Crash
  <2>1. \E pc \in Phases : runner' \in {At(pc), Idle}
    BY <1>7 DEF ScheduleEnd, ScheduleVerify, NothingToClaim, ApplyDone, VerificationStopped,
                VerificationSuperseded, VerificationPasses, VerificationPauses,
                VerificationFails, EndVerify, StopRun, HandleFailure, ThreadEnds, Recover,
                RecoverCancelled, Crash, Phases, Busy
  <2> QED BY <1>2, <2>1, Begins, IdleThread
<1>8. ASSUME NEW t \in Tasks, Executor(t) PROVE Held'
  <2>1. runner' = runner
    BY <1>8 DEF Executor, ContinuationRoute, RecordDispatch, DispatchRefused,
                RecordProviderReply, AcknowledgeContextStep, TurnFails, RecordAction, EndsTurn
  <2> QED BY <1>1, <2>1
<1>9. ASSUME NEW t \in Tasks, Apply(t) PROVE Held'
  <2>1. CASE PrepareTransaction(t)
    <3>1. runner' = [runner EXCEPT !.item = t] /\ Has(t)
      BY <2>1 DEF PrepareTransaction, Applicable
    <3>2. runner'.item = t /\ runner'.todo = runner.todo
      BY <3>1, Types DEF IInv, Thread
    <3> QED BY <3>1, <3>2 DEF Held, Has
  <2>2. CASE ApplySkips(t) \/ DeferPendingAction(t)
    <3>1. runner' = Taken(t) /\ runner.item = None
      BY <2>2 DEF ApplySkips, DeferPendingAction, Choosing
    <3> QED BY <1>2, <3>1, TakenRest DEF IInv
  <2>3. CASE ApplyAction(t)
    <3>1. runner' = [Taken(t) EXCEPT !.item = None] /\ Taken(t) \in Thread
      BY <2>3, TakenRest DEF ApplyAction, IInv
    <3> QED BY <1>2, <3>1 DEF Thread
  <2>4. CASE ApplyRaises(t) \/ ApplyAborts(t) \/ AutomaticRollback(t)
    BY <1>2, <2>4, Begins DEF ApplyRaises, ApplyAborts, AutomaticRollback, Phases, Busy
  <2>5. CASE \/ WriteManifest(t) \/ Replace(t) \/ Commit(t) \/ ApplyFails(t)
             \/ RecordTransactionApplied(t)
    BY <1>1, <2>5 DEF WriteManifest, Replace, Commit, ApplyFails, FileStep,
                      RecordTransactionApplied
  <2> QED BY <1>9, <2>1, <2>2, <2>3, <2>4, <2>5 DEF Apply
<1>10. CASE User
  <2>1. runner.pc # "apply"
    BY <1>10 DEF User, Pause, Cancel, Answer, Resume, Retry, Steer, Control
  <2>2. runner' \in {At("schedule"), Touched}
    BY <1>10 DEF User, Pause, Cancel, Answer, Resume, Retry, Steer, Start
  <2>3. runner'.item = None
    BY <2>1, <2>2, Begins, TouchedFacts DEF IInv, Place, Phases, Busy
  <2> QED BY <1>2, <2>3
<1>11. CASE UNCHANGED vars
  BY <1>1, <1>11 DEF vars
<1> QED BY <1>5, <1>6, <1>7, <1>8, <1>9, <1>10, <1>11 DEF Next, Engine, Scheduler

LEMMA TeamInvariant == Spec => [](IInv /\ Team /\ Held)
<1>1. Init => Team /\ Held
  <2>1. SUFFICES ASSUME Init PROVE Team /\ Held
    OBVIOUS
  <2>2. goal.status = "queued" /\ runner.item = None
    BY <2>1, Begins DEF Init, Phases, Busy
  <2>3. ASSUME NEW t \in Tasks PROVE Honest(tasks[t]) /\ tasks[t].state # "cancelled"
    <3>1. \E s \in {"ready", "absent"} : tasks[t] = NewTask(s)
      BY <2>1 DEF Init
    <3> QED BY <3>1 DEF NewTask, Honest
  <2> QED BY <2>2, <2>3 DEF Team, Ended, Held
<1>2. IInv /\ Team /\ Held /\ [Next]_vars => (IInv /\ Team /\ Held)'
  BY StepInv, StepTeam, StepHeld
<1> QED BY <1>1, <1>2, InitInv, PTL DEF Spec

\* A goal is checked only when its work is settled, and a shared one that is not
\* in facilitator mode completes only when every named member had a turn of its
\* own, finished, and stands by the result (apply_action, complete_verification).
THEOREM TeamsAgree == Spec => []AgreedOnTheResult
<1>1. IInv /\ Team /\ Held => AgreedOnTheResult
  <2>1. SUFFICES ASSUME IInv, Team, goal.status = "complete", RequireAll, NEW t \in Founders
                 PROVE  tasks[t].state = "complete" /\ tasks[t].agreed /\ tasks[t].effectId # 0
    BY DEF IInv, Settled, AgreedOnTheResult
  <2>2. t \in Tasks /\ Required(t)
    BY <2>1, EngineAssumption DEF Required
  <2>3. /\ tasks[t].state \in Finished /\ tasks[t].agreed = TRUE
        /\ tasks[t].state # "cancelled" /\ Honest(tasks[t])
    BY <2>1, <2>2 DEF Team, Ended
  <2>4. tasks[t].state # "absent"
    BY <2>1, <2>2 DEF IInv, Rows, Row, Ledger
  <2> QED BY <2>3, <2>4 DEF Finished, Honest
<1> QED BY <1>1, TeamInvariant, PTL

LEMMA Entries ==
  ASSUME IInv
  PROVE  \A t \in Tasks : tasks[t] \in Task /\ Coherent(tasks[t])
<1> QED BY Types DEF IInv, Rows, Row, Ledger

\* Changes take back the agreement of the other named members.
LEMMA TakingReopens ==
  ASSUME IInv, NEW k \in Tasks, NEW t \in Tasks, t # k, Required(t), Changes(Doing(k))
  PROVE  Taking(k)[t].agreed = FALSE
<1> DEFINE kind == Doing(k)
           next == [Emptied(WithoutLease(tasks[k])) EXCEPT
                      !.state = IF kind = "ask" THEN "waiting"
                                ELSE IF Completes(kind) THEN "complete" ELSE "ready",
                      !.effect = "settled"]
           d == [tasks EXCEPT ![k] = next]
           shared == Reopened(d, k)
<1>1. Taking(k) = [shared EXCEPT ![k].agreed = (Completes(kind) /\ Required(k)) \/ @]
  BY DEF Taking
<1>2. d[t] = tasks[t] /\ tasks[t] \in Task
  BY Types DEF IInv
<1> HIDE DEF d
<1>3. shared[t] = [d[t] EXCEPT !.agreed = FALSE,
                      !.state = IF t # k /\ @ = "complete" THEN "ready" ELSE @]
  BY DEF Reopened
<1>4. shared[t].agreed = FALSE
  <2> DEFINE q == IF t # k /\ d[t].state = "complete" THEN "ready" ELSE d[t].state
  <2>1. shared[t] = [tasks[t] EXCEPT !.agreed = FALSE, !.state = q]
    BY <1>2, <1>3
  <2> HIDE DEF q, shared
  <2> QED BY <1>2, <2>1 DEF Task
<1> HIDE DEF shared, kind
<1> QED BY <1>1, <1>4

\* A change that lands while a shared goal outside facilitator mode goes on takes
\* back every agreement but that of the member whose reply it is (apply_action,
\* Steer).
THEOREM ChangesReopenAgreement == Spec => ChangesReopen
<1>1. ASSUME IInv, Team, Held, [Next]_vars, RequireAll, goal'.status \in {"queued", "running"},
             NEW t \in Founders, NEW e \in DOMAIN artifacts,
             artifacts'[e] > artifacts[e], tasks'[t].agreed
      PROVE  tasks[t].effectId = e
  <2> USE DEF IInv
  <2>1. artifacts' # artifacts /\ artifacts[e] \in Nat /\ e \in 1..Budget /\ t \in Tasks
        /\ Required(t)
    BY <1>1, Types, EngineAssumption DEF Required
  <2>2. CASE \E k \in Tasks : ApplyAction(k)
    <3>1. PICK k \in Tasks : ApplyAction(k)
      BY <2>2
    <3>2. /\ Doing(k) = tasks[k].action /\ Row(k) /\ Honest(tasks[k])
      BY <1>1, <3>1, Applies DEF Team
    <3>3. /\ tasks' = Taking(k) /\ tasks[k].txn = "applied"
          /\ artifacts' = [artifacts EXCEPT ![tasks[k].txnEffect] = @ + 1]
      BY <2>1, <3>1 DEF ApplyAction
    <3>4. e = tasks[k].txnEffect
      BY <1>1, <2>1, <3>3
    <3>5. tasks[k].txnEffect = tasks[k].effectId /\ Changes(Doing(k))
      BY <3>2, <3>3 DEF Row, Ledger, Coherent, Honest
    <3>6. t = k
      BY <1>1, <2>1, <3>3, <3>5, TakingReopens
    <3> QED BY <3>4, <3>5, <3>6
  <2>3. ASSUME NEW w, FinishCancellation(w) PROVE FALSE
    <3>1. goal'.status \in {"cancelled", "paused"}
      BY <1>1, <2>3, Types DEF FinishCancellation, SettlesForCancellation,
                               CancellationBlocked, Goal
    <3> QED BY <1>1, <3>1
  <2>4. CASE \E k \in Tasks : Retry(k)
    <3>1. PICK k \in Tasks : Retry(k)
      BY <2>4
    <3>2. tasks[k].txn = "applied" /\ (UnsettledEffect(tasks[k]) =>
                                            tasks[k].unknown \/ tasks[k].reconcile)
      BY <2>1, <3>1 DEF Retry
    <3>3. Coherent(tasks[k]) /\ tasks[k] \in Task
      BY <1>1, Entries
    <3> QED BY <3>2, <3>3 DEF Coherent, UnsettledEffect, Task
  <2>5. CASE \E spare \in Tasks : Steer(spare)
    <3>1. PICK spare \in Tasks : Steer(spare)
      BY <2>5
    <3>2. tasks'[t] \in {Steered(t), NewTask("ready")}
      <4> DEFINE d == [u \in Tasks |-> Steered(u)]
      <4>1. tasks' = d \/ tasks' = [d EXCEPT ![spare] = NewTask("ready")]
        BY <3>1 DEF Steer
      <4> QED BY <2>1, <4>1
    <3>3. Steered(t).agreed = FALSE
      BY <1>1, <2>1, Entries, SteeredFacts
    <3>4. NewTask("ready").agreed = FALSE
      BY DEF NewTask
    <3> QED BY <1>1, <3>2, <3>3, <3>4
  <2>6. CASE Scheduler \/ Recover \/ RecoverCancelled \/ Crash \/ UNCHANGED vars
    BY <2>1, <2>3, <2>6 DEF Scheduler, ScheduleEnd, ScheduleApply, ScheduleVerify,
       NothingToClaim, ClaimReady, JoinTurns, ApplyDone, VerificationStopped,
       VerificationSuperseded, VerificationPasses, VerificationPauses, VerificationFails,
       EndVerify, StopRun, HandleFailure, ThreadEnds, Recover, RecoverCancelled, Crash, vars
  <2>7. ASSUME NEW k \in Tasks, Executor(k) PROVE FALSE
    BY <2>1, <2>7 DEF Executor, ContinuationRoute, RecordDispatch, DispatchRefused,
       RecordProviderReply, AcknowledgeContextStep, TurnFails, RecordAction, EndsTurn
  <2>8. ASSUME NEW k \in Tasks, Apply(k) PROVE ApplyAction(k)
    BY <2>1, <2>8 DEF Apply, ApplySkips, DeferPendingAction, ApplyRaises, PrepareTransaction,
       WriteManifest, Replace, Commit, ApplyAborts, ApplyFails, AutomaticRollback, FileStep,
       RecordTransactionApplied
  <2>9. CASE Pause \/ Cancel \/ Answer \/ \E choice \in BOOLEAN : Resume(choice)
    BY <2>1, <2>3, <2>9 DEF Pause, Cancel, Answer, Resume
  <2> QED BY <1>1, <2>2, <2>4, <2>5, <2>6, <2>7, <2>8, <2>9 DEF Next, Engine, User
<1>2. IInv /\ Team /\ Held /\ [Next]_vars =>
        [RequireAll /\ goal'.status \in {"queued", "running"} =>
            \A t \in Founders, e \in DOMAIN artifacts :
                artifacts'[e] > artifacts[e] /\ tasks'[t].agreed => tasks[t].effectId = e]_vars
  BY <1>1
<1> QED BY <1>2, TeamInvariant, PTL DEF ChangesReopen, Spec
-----------------------------------------------------------------------------
\* What is in the files is accounted for.  A transaction that counts as applied
\* belongs to a call that has landed nothing, and its manifest says it landed.
LEMMA AppliedEntry ==
  ASSUME IInv, NEW t \in Tasks, tasks[t].txn = "applied"
  PROVE  /\ tasks[t] \in Task /\ Coherent(tasks[t]) /\ Landed(t)
         /\ tasks[t].action # "none" /\ tasks[t].txnEffect = tasks[t].effectId
         /\ tasks[t].txnEffect \in 1..Budget /\ artifacts[tasks[t].txnEffect] = 0
         /\ tasks[t].state \in {"running", "pending_apply", "blocked"}
         /\ files[t].content = "after"
<1>1. Ledger(t) /\ Unlanded(t) /\ OnDisk(t) /\ tasks[t] \in Task
  BY Types DEF IInv, Rows, Row
<1>2. /\ Coherent(tasks[t]) /\ tasks[t].action # "none"
      /\ tasks[t].txnEffect = tasks[t].effectId
      /\ tasks[t].state \in {"running", "pending_apply", "blocked"}
  BY <1>1 DEF Ledger, Coherent
<1>3. tasks[t].effectId \in 1..Budget
  <2>1. tasks[t].effectId \in 0..Budget /\ tasks[t].effectId # 0
    BY <1>1, <1>2 DEF Task, Unlanded
  <2> QED BY <2>1, EngineAssumption
<1> QED BY <1>1, <1>2, <1>3 DEF Unlanded, OnDisk, Landed

\* Publishing a set of tasks records each applied one among them.
LEMMA PublishesApplied ==
  ASSUME IInv, NEW S \in SUBSET Tasks, NEW t \in S, tasks[t].txn = "applied"
  PROVE  Publishing(S)[tasks[t].txnEffect] = artifacts[tasks[t].txnEffect] + 1
<1> DEFINE e == tasks[t].txnEffect
           of == {u \in S : Landed(u) /\ tasks[u].txnEffect = e}
<1>1. /\ t \in Tasks /\ Landed(t) /\ e \in 1..Budget /\ e = tasks[t].effectId /\ e # 0
      /\ DOMAIN artifacts = 1..Budget
  BY AppliedEntry, Types DEF IInv
<1>2. of = {t}
  <2>1. SUFFICES ASSUME NEW u \in of PROVE u = t
    BY <1>1
  <2>2. tasks[u].effectId = e
    BY <2>1 DEF Landed, IInv, Rows, Row, Ledger, Coherent
  <2> QED BY <1>1, <2>1, <2>2 DEF IInv, Numbered
<1>3. Cardinality({t}) = 1
  BY FS_Singleton
<1>4. Publishing(S)[e] = artifacts[e] + Cardinality(of)
  BY <1>1 DEF Publishing
<1> QED BY <1>2, <1>3, <1>4

\* A task that loses its lease, or is parked, keeps its transaction.
LEMMA TransactionStays ==
  ASSUME NEW r \in Task
  PROVE  /\ WithoutLease(r) \in Task /\ WithoutLease(r).txn = r.txn
         /\ [WithoutLease(r) EXCEPT !.state = "blocked"].txn = r.txn
<1> QED BY Freed DEF Task

LEMMA CancellationRecords ==
  ASSUME IInv, NEW t \in Tasks, tasks[t].txn = "applied", NEW w, FinishCancellation(w),
         tasks'[t].txn # "applied"
  PROVE  artifacts'[tasks[t].txnEffect] = artifacts[tasks[t].txnEffect] + 1
<1>1. PICK S \in SUBSET Tasks : artifacts' = Publishing(S) /\ t \in S
  <2>1. CASE SettlesForCancellation
    BY <2>1 DEF SettlesForCancellation, SettleTasks
  <2>2. CASE CancellationBlocked(w)
    <3>1. PICK S \in SUBSET {u \in Tasks : CanSettle(u)} :
            /\ SettleTasks(S)
            /\ tasks' = [u \in Tasks |->
                 IF u \in S THEN SettledTask(u)
                 ELSE IF tasks[u].txn # "none" /\ tasks[u].state \in {"running", "pending_apply"}
                 THEN [WithoutLease(tasks[u]) EXCEPT !.state = "blocked"]
                 ELSE tasks[u]]
      BY <2>2 DEF CancellationBlocked
    <3>2. t \in S
      BY <3>1, AppliedEntry, TransactionStays
    <3> QED BY <3>1, <3>2 DEF SettleTasks
  <2> QED BY <2>1, <2>2 DEF FinishCancellation
<1> QED BY <1>1, PublishesApplied

LEMMA ExecutorsLeaveApplied ==
  ASSUME IInv, NEW t \in Tasks, tasks[t].txn = "applied", NEW k \in Tasks, Executor(k)
  PROVE  tasks'[t] = tasks[t]
<1>1. Turn(k, {"boot", "sent", "replied"})
  BY DEF Executor, ContinuationRoute, RecordDispatch, DispatchRefused, RecordProviderReply,
         AcknowledgeContextStep, TurnFails, RecordAction, Turn
<1>2. t # k
  BY <1>1, AtWork
<1>3. \A u, f, s : FailTask(k, u, f, s) => tasks'[t] = tasks[t]
  BY <1>2, Types DEF FailTask, IInv
<1>4. BlockReceivedReply(k) \/ DeferContinuation(k) => tasks'[t] = tasks[t]
  BY <1>2, Types DEF BlockReceivedReply, DeferContinuation, IInv
<1>5. CASE ContinuationRoute(k) \/ DispatchRefused(k)
  BY <1>3, <1>4, <1>5 DEF ContinuationRoute, DispatchRefused
<1>6. CASE \E u, f \in BOOLEAN : TurnFails(k, u, f)
  BY <1>3, <1>6 DEF TurnFails
<1>7. CASE \/ RecordDispatch(k) \/ RecordProviderReply(k) \/ AcknowledgeContextStep(k)
           \/ \E kind \in Actions \ {"context"} : RecordAction(k, kind)
  BY <1>2, <1>7, Types DEF RecordDispatch, RecordProviderReply, AcknowledgeContextStep,
                           RecordAction, IInv
<1> QED BY <1>5, <1>6, <1>7 DEF Executor

LEMMA ApplyRecords ==
  ASSUME IInv, Held, NEW t \in Tasks, tasks[t].txn = "applied", NEW k \in Tasks, Apply(k),
         tasks'[t].txn # "applied"
  PROVE  artifacts'[tasks[t].txnEffect] = artifacts[tasks[t].txnEffect] + 1
<1>1. tasks[t] \in Task /\ tasks[t].txnEffect \in 1..Budget /\ artifacts \in [1..Budget -> Nat]
  BY AppliedEntry, Types DEF IInv
<1>2. ApplyAction(k)
  <2>1. ~\/ ApplySkips(k) \/ ApplyRaises(k) \/ WriteManifest(k) \/ Replace(k) \/ Commit(k)
         \/ ApplyAborts(k) \/ ApplyFails(k) \/ AutomaticRollback(k)
    BY DEF ApplySkips, ApplyRaises, WriteManifest, Replace, Commit, ApplyAborts,
           ApplyFails, AutomaticRollback, FileStep
  <2>2. ~DeferPendingAction(k)
    <3>1. SUFFICES ASSUME DeferPendingAction(k) PROVE tasks'[t].txn = "applied"
      OBVIOUS
    <3>2. tasks'[t] \in {tasks[t], [tasks[t] EXCEPT !.state = "pending_apply"]}
      BY <3>1, Types DEF DeferPendingAction, IInv
    <3>3. [tasks[t] EXCEPT !.state = "pending_apply"].txn = "applied"
      BY <1>1 DEF Task
    <3> QED BY <3>2, <3>3
  <2>3. ~PrepareTransaction(k)
    BY Types DEF PrepareTransaction, NeedsFiles, IInv
  <2>4. ~RecordTransactionApplied(k)
    BY <1>1, Types DEF RecordTransactionApplied, IInv, Task
  <2> QED BY <2>1, <2>2, <2>3, <2>4 DEF Apply
<1>3. /\ Current(k) /\ tasks[k].action # "none"
  BY <1>2, Applies
<1>4. t = k
  <2>1. SUFFICES ASSUME t # k PROVE FALSE
    OBVIOUS
  <2> DEFINE s == IF tasks[t].state = "complete" THEN "ready" ELSE tasks[t].state
  <2>2. tasks'[t] = tasks[t] \/ tasks'[t] = [tasks[t] EXCEPT !.agreed = FALSE, !.state = s]
    BY <1>2, <1>3, <2>1, Took DEF ApplyAction
  <2> HIDE DEF s
  <2>3. [tasks[t] EXCEPT !.agreed = FALSE, !.state = s].txn = "applied"
    BY <1>1 DEF Task
  <2> QED BY <2>2, <2>3
<1>5. artifacts' = [artifacts EXCEPT ![tasks[t].txnEffect] = @ + 1]
  BY <1>2, <1>4 DEF ApplyAction
<1> QED BY <1>1, <1>5

LEMMA SchedulerRecords ==
  ASSUME IInv, NEW t \in Tasks, tasks[t].txn = "applied", Scheduler,
         tasks'[t].txn # "applied"
  PROVE  artifacts'[tasks[t].txnEffect] = artifacts[tasks[t].txnEffect] + 1
<1>1. tasks[t] \in Task /\ tasks[t].state \in {"running", "pending_apply", "blocked"}
  BY AppliedEntry
<1>2. ~\/ ScheduleEnd \/ ScheduleApply \/ ScheduleVerify \/ NothingToClaim \/ JoinTurns
       \/ ApplyDone \/ VerificationStopped \/ VerificationSuperseded
       \/ VerificationPasses \/ VerificationPauses \/ ThreadEnds
  BY DEF ScheduleEnd, ScheduleApply, ScheduleVerify, NothingToClaim, JoinTurns, ApplyDone,
         VerificationStopped, VerificationSuperseded, VerificationPasses,
         VerificationPauses, ThreadEnds
<1>3. \A S \in SUBSET Tasks : ~ClaimReady(S)
  BY <1>1 DEF ClaimReady, InState
<1>4. \A spare \in Tasks : ~VerificationFails(spare)
  BY <1>1, Types DEF VerificationFails, IInv
<1>5. ~HandleFailure
  <2>1. SUFFICES ASSUME HandleFailure PROVE tasks'[t].txn = "applied"
    OBVIOUS
  <2>2. tasks'[t] \in {tasks[t], [WithoutLease(tasks[t]) EXCEPT !.state = "blocked"]}
    BY <2>1 DEF HandleFailure
  <2>3. [WithoutLease(tasks[t]) EXCEPT !.state = "blocked"].txn = "applied"
    BY <1>1, TransactionStays
  <2> QED BY <2>2, <2>3
<1>6. StopRun
  BY <1>2, <1>3, <1>4, <1>5 DEF Scheduler
<1> QED BY <1>6, CancellationRecords DEF StopRun

LEMMA UserRecords ==
  ASSUME IInv, NEW t \in Tasks, tasks[t].txn = "applied", User, tasks'[t].txn # "applied"
  PROVE  artifacts'[tasks[t].txnEffect] = artifacts[tasks[t].txnEffect] + 1
<1>1. tasks[t] \in Task /\ Landed(t)
  BY AppliedEntry
<1> DEFINE ready == [tasks[t] EXCEPT !.state = "ready"]
           fresh == [WithoutLease(tasks[t]) EXCEPT !.state = "ready", !.unknown = FALSE,
                        !.reconcile = FALSE, !.effect = "settled"]
<1>2. ready.txn = "applied" /\ fresh.txn = "applied"
  <2>1. /\ WithoutLease(tasks[t]) \in Task /\ WithoutLease(tasks[t]).txn = "applied"
    BY <1>1, TransactionStays
  <2> QED BY <1>1, <2>1 DEF Task
<1>3. /\ Pause => tasks'[t] = tasks[t]
      /\ Answer => tasks'[t] \in {tasks[t], ready}
      /\ \A choice \in BOOLEAN : Resume(choice) => tasks'[t] \in {tasks[t], ready, fresh}
  BY DEF Pause, Answer, Resume
<1>4. CASE Cancel
  BY <1>4, CancellationRecords DEF Cancel
<1>5. ASSUME NEW k \in Tasks, Retry(k)
      PROVE  artifacts'[tasks[t].txnEffect] = artifacts[tasks[t].txnEffect] + 1
  <2>1. t = k
    BY <1>5, Types DEF Retry, IInv
  <2>2. artifacts' = Publishing({t})
    BY <1>5, <2>1 DEF Retry
  <2> QED BY <2>2, PublishesApplied
<1>6. ASSUME NEW k \in Tasks, Steer(k)
      PROVE  artifacts'[tasks[t].txnEffect] = artifacts[tasks[t].txnEffect] + 1
  <2>1. artifacts' = Publishing({u \in Tasks : tasks[u].txn = "applied"})
    BY <1>6 DEF Steer
  <2> QED BY <2>1, PublishesApplied
<1> QED BY <1>2, <1>3, <1>4, <1>5, <1>6 DEF User

LEMMA RecoveryKeepsApplied ==
  ASSUME IInv, NEW t \in Tasks, tasks[t].txn = "applied", Recover
  PROVE  tasks'[t].txn = "applied"
<1>1. tasks[t] \in Task /\ Coherent(tasks[t])
  BY AppliedEntry
<1>2. tasks[t].state = "running" => RecoveredTask(t).txn = "applied"
  BY <1>1, RecoveredTaskFacts
<1> QED BY <1>2 DEF Recover, RecoverDead

\* What counts as applied leaves its task only by entering the goal's
\* artifacts, once, at that very step; with RepliesLandOnce: exactly once
\* (apply_action, publish_recovered_applied, recover_dead).
THEOREM AppliedWorkIsRecorded == Spec => AppliedIsRecorded
<1>1. ASSUME IInv, Held, [Next]_vars, NEW t \in Tasks,
             tasks[t].txn = "applied", tasks'[t].txn # "applied"
      PROVE  artifacts'[tasks[t].txnEffect] = artifacts[tasks[t].txnEffect] + 1
  <2>1. CASE RecoverCancelled
    BY <1>1, <2>1, CancellationRecords DEF RecoverCancelled
  <2>2. CASE Crash \/ UNCHANGED vars
    BY <1>1, <2>2 DEF Crash, vars
  <2> QED BY <1>1, <2>1, <2>2, ExecutorsLeaveApplied, ApplyRecords, SchedulerRecords,
             UserRecords, RecoveryKeepsApplied DEF Next, Engine
<1>2. IInv /\ Team /\ Held /\ [Next]_vars =>
        [\A t \in Tasks :
            tasks[t].txn = "applied" /\ tasks'[t].txn # "applied" =>
                artifacts'[tasks[t].txnEffect] = artifacts[tasks[t].txnEffect] + 1]_vars
  BY <1>1
<1> QED BY <1>2, TeamInvariant, PTL DEF AppliedIsRecorded, Spec

-----------------------------------------------------------------------------
\* Half-made changes.  Their transaction is open, and a rollback of it works
\* only when it had begun and tore no file.
LEMMA HalfMadeEntry ==
  ASSUME ~CrashInRollback, IInv, NEW t \in Tasks, HalfMade(files[t])
  PROVE  /\ files[t] \in File /\ tasks[t] \in Task /\ tasks[t].txn = "prepared"
         /\ files[t].manifest \in {"prepared", "rolling_back"}
         /\ RollbackWorks(files[t]) =>
               files[t].manifest = "rolling_back" /\ files[t].content = "partial"
         /\ files[t] # Untouched /\ tasks[t].reconcile = FALSE
<1>1. /\ files[t] \in File /\ tasks[t] \in Task /\ OnDisk(t) /\ Coherent(tasks[t])
      /\ files[t].content \in {"partial", "torn"}
  BY Types DEF IInv, Rows, Row, Ledger, HalfMade
<1>2. files[t].manifest \in {"prepared", "rolling_back"}
  BY <1>1 DEF File, OnDisk
<1>3. tasks[t].txn = "prepared"
  BY <1>1 DEF OnDisk, Task
<1>4. tasks[t].reconcile = FALSE
  BY <1>1, <1>3 DEF Coherent
<1>5. files[t] # Untouched
  BY <1>1 DEF Untouched
<1> QED BY <1>1, <1>2, <1>3, <1>4, <1>5 DEF RollbackWorks

\* A settled cancellation or a new objective clears the files of tasks whose
\* transaction a rollback can take back.
LEMMA ClearedByRollback ==
  ASSUME ~CrashInRollback, IInv, NEW t \in Tasks, HalfMade(files[t]),
         CanSettle(t) \/ CanRollBack(t)
  PROVE  TakingBack(t)
<1>1. RollbackWorks(files[t])
  BY HalfMadeEntry DEF CanSettle, CanRollBack
<1> QED BY <1>1, HalfMadeEntry DEF TakingBack

LEMMA CancellationTakesBack ==
  ASSUME ~CrashInRollback, IInv, NEW t \in Tasks, HalfMade(files[t]),
         NEW w, FinishCancellation(w), ~HalfMade(files'[t])
  PROVE  TakingBack(t)
<1>1. PICK S : SettleTasks(S) /\ \A u \in S : CanSettle(u)
  <2>1. CASE SettlesForCancellation
    BY <2>1 DEF SettlesForCancellation
  <2>2. CASE CancellationBlocked(w)
    BY <2>2 DEF CancellationBlocked
  <2> QED BY <2>1, <2>2 DEF FinishCancellation
<1>2. t \in S
  BY <1>1 DEF SettleTasks
<1> QED BY <1>1, <1>2, ClearedByRollback

\* The apply loop: replacements go on only in the task in hand, and a reply is
\* applied only with no change half made.
LEMMA ApplyFinishes ==
  ASSUME ~CrashInRollback, IInv, Team, Held, NEW t \in Tasks, HalfMade(files[t]),
         NEW k \in Tasks, Apply(k), ~HalfMade(files'[t])
  PROVE  Finishing(t) \/ TakingBack(t)
<1> DEFINE f == files[t]
<1>1. /\ f \in File /\ f.manifest \in {"prepared", "rolling_back"}
      /\ f.content \in {"partial", "torn"} /\ tasks[t].txn = "prepared"
  BY HalfMadeEntry DEF HalfMade
<1>2. ~\/ ApplySkips(k) \/ DeferPendingAction(k) \/ ApplyRaises(k)
       \/ RecordTransactionApplied(k)
  BY DEF ApplySkips, DeferPendingAction, ApplyRaises, RecordTransactionApplied
<1>3. t = k
  <2>1. \/ \E g : files' = [files EXCEPT ![k] = g]
        \/ files' = files
    BY <1>2 DEF Apply, PrepareTransaction, WriteManifest, Replace, Commit, ApplyAborts,
                ApplyFails, AutomaticRollback, FileStep, ApplyAction
  <2> QED BY <2>1, Types DEF IInv
<1>4. ~WriteManifest(k) /\ ~Commit(k) /\ ~ApplyAborts(k) /\ ~PrepareTransaction(k)
  BY <1>1, <1>3 DEF WriteManifest, Commit, ApplyAborts, PrepareTransaction
<1>5. ~ApplyFails(k)
  <2>1. SUFFICES ASSUME ApplyFails(k) PROVE files'[t].content = f.content
    BY DEF HalfMade
  <2>2. files'[t] = Manifest(t, "rolling_back")
    BY <1>3, <2>1, Types DEF ApplyFails, FileStep, IInv
  <2> QED BY <1>1, <2>2 DEF Manifest, File
<1>6. ~ApplyAction(k)
  <2>1. SUFFICES ASSUME ApplyAction(k) PROVE FALSE
    OBVIOUS
  <2>2. Doing(k) = tasks[k].action
    BY <2>1, Applies
  <2>3. Changes(tasks[k].action)
    BY <1>1, <1>3 DEF Team, Honest
  <2> QED BY <1>1, <1>3, <2>1, <2>2, <2>3 DEF ApplyAction, NeedsFiles
<1>7. CASE Replace(k)
  <2>1. PICK part \in {"torn", "partial", "after"} :
          files' = [files EXCEPT ![t] = Content(t, part)]
    BY <1>3, <1>7 DEF Replace, FileStep
  <2>2. files'[t] = Content(t, part) /\ Content(t, part).content = part
    BY <1>1, <2>1, Types DEF Content, File, IInv
  <2>3. files'[t].content = "after"
    BY <2>2 DEF HalfMade
  <2> QED BY <1>3, <1>7, <2>3 DEF Replace, InHand, Finishing
<1>8. CASE AutomaticRollback(k)
  <2>1. RollbackWorks(f)
    BY <1>3, <1>8 DEF AutomaticRollback
  <2> QED BY <2>1, HalfMadeEntry DEF TakingBack
<1> QED BY <1>2, <1>4, <1>5, <1>6, <1>7, <1>8 DEF Apply

LEMMA UserInspects ==
  ASSUME ~CrashInRollback, IInv, NEW t \in Tasks, HalfMade(files[t]), User,
         ~HalfMade(files'[t])
  PROVE  TakingBack(t) \/ (tasks[t].unknown /\ Retry(t))
<1>1. ~Pause /\ ~Answer /\ \A choice \in BOOLEAN : ~Resume(choice)
  BY DEF Pause, Answer, Resume
<1>2. CASE Cancel
  BY <1>2, CancellationTakesBack DEF Cancel
<1>3. ASSUME NEW k \in Tasks, Retry(k) PROVE tasks[t].unknown /\ Retry(t)
  <2>1. k = t /\ (tasks[t].unknown \/ tasks[t].reconcile)
    BY <1>3, Types DEF Retry, IInv
  <2> QED BY <1>3, <2>1, HalfMadeEntry
<1>4. ASSUME NEW k \in Tasks, Steer(k) PROVE TakingBack(t)
  BY <1>4, ClearedByRollback DEF Steer
<1> QED BY <1>1, <1>2, <1>3, <1>4 DEF User

\* Unless a crash caught a rollback (see BoundariesAreKept), a half-made change
\* is finished by the apply loop that holds it, or taken back by a rollback, or
\* given up by the user after inspection; nothing else touches it.
THEOREM HalfMadeChangesStay ==
  ASSUME ~CrashInRollback
  PROVE  Spec => HalfMadeIsKept
<1>1. ASSUME IInv, Team, Held, [Next]_vars, NEW t \in Tasks,
             HalfMade(files[t]), ~HalfMade(files'[t])
      PROVE  Finishing(t) \/ TakingBack(t) \/ (tasks[t].unknown /\ Retry(t))
  <2>1. ASSUME NEW k \in Tasks, Executor(k) PROVE FALSE
    BY <1>1, <2>1 DEF Executor, EndsTurn, ContinuationRoute, DispatchRefused, RecordDispatch,
       RecordProviderReply, TurnFails, AcknowledgeContextStep, RecordAction
  <2>2. CASE Scheduler
    <3>1. StopRun
      BY <1>1, <2>2 DEF Scheduler, ScheduleEnd, ScheduleApply, ScheduleVerify, NothingToClaim,
         ClaimReady, JoinTurns, ApplyDone, VerificationStopped, VerificationSuperseded,
         VerificationPasses, VerificationPauses, VerificationFails, EndVerify,
         HandleFailure, ThreadEnds
    <3> QED BY <1>1, <3>1, CancellationTakesBack DEF StopRun
  <2>3. CASE RecoverCancelled
    BY <1>1, <2>3, CancellationTakesBack DEF RecoverCancelled
  <2>4. CASE Recover
    <3>1. PutBack(t)
      BY <1>1, <2>4 DEF Recover, RecoverDead
    <3> QED BY <1>1, <3>1, HalfMadeEntry DEF PutBack
  <2>5. CASE Crash \/ UNCHANGED vars
    BY <1>1, <2>5 DEF Crash, vars
  <2> QED BY <1>1, <2>1, <2>2, <2>3, <2>4, <2>5, ApplyFinishes, UserInspects DEF Next, Engine
<1>2. IInv /\ Team /\ Held /\ [Next]_vars =>
        [\A t \in Tasks :
            HalfMade(files[t]) /\ ~HalfMade(files'[t]) =>
                Finishing(t) \/ TakingBack(t) \/ (tasks[t].unknown /\ Retry(t))]_vars
  BY <1>1
<1> QED BY <1>2, TeamInvariant, PTL DEF HalfMadeIsKept, Spec
=============================================================================
