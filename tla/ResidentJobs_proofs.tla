------------------------- MODULE ResidentJobs_proofs --------------------------
(* Proofs about ResidentJobs, for any number of jobs, requests, workers and   *)
(* processes that die.                                                        *)
EXTENDS ResidentJobs, TLAPS

--------------------------------------------------------------------------------
(* The inductive invariant, in parts.                                         *)

\* The places of a worker that lives, and one that started.
Placed == Inside \cup {"entering", "reporting", "raising"}
Starting == Inside \cup {"entering"}

\* A worker that lives has a job, and one that started knows how to run it.
WorkerOK(w) ==
    /\ w.pc \notin {"none", "gone"} => w.job \in Jobs
    /\ w.pc \in {"none", "gone", "polling"} <=> w.mode = "none"
    /\ w.pc \in {"none", "gone"} => w.job = None
WorkersOK == \A l \in Leases : WorkerOK(workers[l])

\* What the main loop keeps in hand at each of its steps.
DaemonOK ==
    /\ daemon.pc \in {"down", "recover", "poll", "lease"} => daemon.worker = None
    /\ daemon.pc \in {"lease", "watch", "settle", "cancelling"} => daemon.job \in Jobs
    /\ daemon.pc = "lease" =>
          daemon.child \in Leases /\ workers[daemon.child].job \in {None, daemon.job}
    /\ daemon.pc \in {"watch", "settle", "cancelling"} => daemon.worker \in Leases
    /\ daemon.pc = "settle" => daemon.verdict # "none"
    /\ daemon.pc = "cancelling" => daemon.verdict = "cancelled"

\* A command that is not in the journal has done nothing, and one that is about
\* to act has not yet.
CallOK(call) ==
    /\ call.journal = "none" => call.pc = "idle"
    /\ call.journal = "none" \/ call.pc = "write" => call.done = 0
    /\ call.done <= 1
    /\ call.pc \in {"check", "kill"} => call.job \in Jobs
    /\ call.pc = "write" /\ call.kind \in {"cancel", "resume"} => call.job \in Jobs
CallsOK == \A c \in Commands : CallOK(calls[c])

Typed == TypeOK /\ WorkersOK /\ DaemonOK /\ CallsOK

\* Between two daemons a running job is one of those that the next will audit.
AuditComplete ==
    daemon.pc = "recover" => \A j \in Jobs : jobs[j].state = "running" =>
        \E p \in daemon.pending : p.job = j

\* A job whose task a worker may still be told to begin.
Owed(j) ==
    /\ jobs[j].mode = "run"
    /\ \/ jobs[j].state \in {"absent", "queued"}
       \/ /\ jobs[j].state = "running" /\ jobs[j].lease \in Leases
          /\ workers[jobs[j].lease].pc = "polling" /\ workers[jobs[j].lease].job = j
BeginOnce ==
    /\ \A j \in Jobs : jobs[j].state = "absent" => jobs[j].mode = "run"
    /\ \A j \in Jobs : Owed(j) => runs[j].starts = 0
    /\ \A l \in Leases : workers[l].mode = "run" => ~Owed(workers[l].job)
    /\ \A l \in Leases : workers[l].mode = "run" /\ workers[l].pc = "entering" =>
          runs[workers[l].job].starts = 0
    /\ \A k, l \in Leases : workers[k].mode = "run" /\ workers[l].mode = "run"
          /\ workers[k].job = workers[l].job => k = l
    /\ \A j \in Jobs : runs[j].starts <= 1

\* One at a time holds the project lock.
LockHeldOnce ==
    /\ \A k, l \in Leases : workers[k].pc \in Inside /\ workers[l].pc \in Inside => k = l
    /\ daemon.pc = "cancelling" => \A l \in Leases : workers[l].pc \notin Inside

\* A run and its job, as they are found: a run that was not begun did nothing,
\* one that changed the project and is not closed can be resumed, one that is
\* closed left what its verdict says, and a job is only to be resumed if there
\* is something to resume or to report.
RunOK(run, job) ==
    /\ run.starts = 0 => run.state = "none" /\ run.files = "before" /\ run.checkpoint = FALSE
    /\ run.state \notin Reported /\ run.files # "before" => run.checkpoint = TRUE /\ job.bound = TRUE
    /\ run.state = "complete" => run.files \in {"before", "applied"}
    /\ run.state = "failed" => run.files \in {"before", "undone", "half"}
    /\ run.state = "cancelled" => run.files \in {"before", "undone"}
    /\ job.state = "complete" => run.state = "complete"
    /\ job.mode = "resume" => job.bound = TRUE /\ (run.checkpoint = TRUE \/ run.state \in Reported)
    /\ job.bound = TRUE => job.state # "absent"
RunsOK == \A j \in Jobs : RunOK(runs[j], jobs[j])

\* What a worker knows of its run by where it is.
Knows(w, run, job) ==
    /\ w.pc \in Inside => run.starts # 0
    /\ w.pc \in {"emitting", "node"} => run.state \notin Reported /\ run.files \in {"before", "applied"}
    /\ w.pc = "node" => job.bound = TRUE
    /\ w.pc = "applying" => run.state \notin Reported /\ run.files \in {"prepared", "half"}
    /\ w.pc = "undoing" => run.state \notin Reported
    /\ w.pc = "clearing" => run.state = "complete"
    /\ w.pc = "undone" => run.state = "failed"
    /\ w.pc = "reporting" /\ w.result \in Reported => run.state = w.result
    /\ w.mode = "resume" => job.mode = "resume"
WorkersKnow == \A l \in Leases, j \in Jobs : workers[l].job = j => Knows(workers[l], runs[j], jobs[j])

\* What the main loop knows when it settles a job, and cancels its run.
DaemonKnows ==
    /\ daemon.pc \in {"settle", "cancelling"} =>
          workers[daemon.worker].pc \in {"none", "gone"} /\ jobs[daemon.job].state # "failed"
    /\ daemon.pc = "cancelling" =>
          /\ runs[daemon.job].state \notin {"complete", "failed"}
          /\ runs[daemon.job].files \notin {"prepared", "half"}
          /\ runs[daemon.job].starts # 0

\* Nobody else holds the lock while a transaction is open.
OpenAlone ==
    \A j \in Jobs : runs[j].files \in Open =>
        \A l \in Leases : workers[l].pc \in Inside => workers[l].job = j

\* A request that will queue a job to be resumed has something to resume.
CallsKnow ==
    \A c \in Commands : calls[c].kind = "resume" /\ calls[c].pc = "write" =>
        LET j == calls[c].job IN
        jobs[j].bound = TRUE /\ (runs[j].checkpoint = TRUE \/ runs[j].state \in Reported)

\* A job that failed, and not by its run, has no worker under way.
FailedIsOver ==
    \A j \in Jobs : jobs[j].state = "failed" /\ runs[j].state \notin Reported =>
        /\ runs[j].files = "before"
        /\ \A l \in Leases : workers[l].pc \in Starting => workers[l].job # j

\* Together: the sorts, the watch, the count, and what goes on under the lock.
Watched == AuditComplete /\ RunningIsWatched
Locked ==
    LockHeldOnce /\ RunsOK /\ WorkersKnow /\ DaemonKnows /\ OpenAlone /\ CallsKnow /\ FailedIsOver
IInv == Typed /\ Watched /\ BeginOnce /\ Locked

--------------------------------------------------------------------------------
(* Which steps change which variable.                                         *)
\* For each variable: it stays as it is but in these steps.
LEMMA JobsChange ==
  ASSUME [Next]_vars
  PROVE  \/ UNCHANGED jobs
         \/ Grant \/ Settle
         \/ \E p \in Pending : RecoverJob(p)
         \/ \E l \in Leases : Emit(l) \/ Leave(l) \/ Report(l) \/ Raise(l)
         \/ \E c \in Commands : Submit(c) \/ Cancel(c) \/ Resume(c)
<1>1. CASE UNCHANGED vars \/ Launch \/ DaemonDies
  BY <1>1 DEF vars, Launch, DaemonDies
<1>2. CASE Loops
  BY <1>2 DEF Loops, Recovered, Stop, Spawn, GrantFails, KillCancelled, Reap,
       BeginCancelRun, CancelRollsBack, CancelRun
<1>3. ASSUME NEW l \in Leases, Work(l) \/ WorkerDies(l)
      PROVE  UNCHANGED jobs \/ Emit(l) \/ Leave(l) \/ Report(l) \/ Raise(l)
  BY <1>3 DEF Work, WorkerDies, Start, BeginRun, ResumeRun, Save, Prepare, Write, Apply,
       Pause, Complete, Clear, Fail, RollBack, Close
<1>4. ASSUME NEW c \in Commands, Ask(c) \/ Serve(c)
      PROVE  UNCHANGED jobs \/ Submit(c) \/ Cancel(c) \/ Resume(c)
  BY <1>4 DEF Ask, Serve, Admit, AskSubmit, AskStop, AskCancel, AskResume,
       CancelChecks, CancelKills, PrepareStop, Reply
<1> QED BY <1>1, <1>2, <1>3, <1>4 DEF Next

LEMMA RunsChange ==
  ASSUME [Next]_vars
  PROVE  \/ UNCHANGED runs
         \/ CancelRollsBack \/ CancelRun
         \/ \E l \in Leases : BeginRun(l) \/ Save(l) \/ Prepare(l)
                              \/ Write(l) \/ Apply(l) \/ Pause(l)
                              \/ Complete(l) \/ Clear(l) \/ Fail(l)
                              \/ RollBack(l) \/ Close(l) \/ Leave(l)
<1>1. CASE UNCHANGED vars \/ Launch \/ DaemonDies
  BY <1>1 DEF vars, Launch, DaemonDies
<1>2. CASE Loops
  BY <1>2 DEF Loops, RecoverJob, Recovered, Stop, Spawn, Grant, GrantFails, KillCancelled,
       Reap, BeginCancelRun, Settle
<1>3. ASSUME NEW l \in Leases, Work(l) \/ WorkerDies(l)
      PROVE  \/ UNCHANGED runs
             \/ BeginRun(l) \/ Save(l) \/ Prepare(l) \/ Write(l) \/ Apply(l) \/ Pause(l)
             \/ Complete(l) \/ Clear(l) \/ Fail(l) \/ RollBack(l) \/ Close(l) \/ Leave(l)
  BY <1>3 DEF Work, WorkerDies, Start, ResumeRun, Emit, Report, Raise
<1>4. ASSUME NEW c \in Commands, Ask(c) \/ Serve(c)
      PROVE  UNCHANGED runs
  BY <1>4 DEF Ask, Serve, Admit, AskSubmit, AskStop, AskCancel, AskResume, Submit, Cancel,
       CancelChecks, CancelKills, Resume, PrepareStop, Reply
<1> QED BY <1>1, <1>2, <1>3, <1>4 DEF Next

LEMMA WorkersChange ==
  ASSUME [Next]_vars
  PROVE  \/ UNCHANGED workers
         \/ Stop \/ DaemonDies \/ GrantFails \/ KillCancelled
         \/ \E j \in Jobs, l \in Leases : Spawn(j, l)
         \/ \E l \in Leases : Start(l) \/ BeginRun(l) \/ ResumeRun(l)
                              \/ Emit(l) \/ Save(l) \/ Prepare(l)
                              \/ Apply(l) \/ Pause(l) \/ Complete(l)
                              \/ Clear(l) \/ Fail(l) \/ Close(l)
                              \/ Leave(l) \/ Report(l) \/ Raise(l)
                              \/ WorkerDies(l)
         \/ \E c \in Commands : CancelKills(c) \/ PrepareStop(c)
<1>1. CASE UNCHANGED vars \/ Launch \/ DaemonDies
  BY <1>1 DEF vars, Launch
<1>2. CASE Loops
  BY <1>2 DEF Loops, RecoverJob, Recovered, Grant, Reap, BeginCancelRun,
       CancelRollsBack, CancelRun, Settle
<1>3. ASSUME NEW l \in Leases, Work(l) \/ WorkerDies(l)
      PROVE  \/ UNCHANGED workers
             \/ Start(l) \/ BeginRun(l) \/ ResumeRun(l) \/ Emit(l) \/ Save(l)
             \/ Prepare(l) \/ Apply(l) \/ Pause(l) \/ Complete(l) \/ Clear(l)
             \/ Fail(l) \/ Close(l) \/ Leave(l) \/ Report(l) \/ Raise(l)
             \/ WorkerDies(l)
  BY <1>3 DEF Work, Write, RollBack
<1>4. ASSUME NEW c \in Commands, Ask(c) \/ Serve(c)
      PROVE  \/ UNCHANGED workers
             \/ CancelKills(c) \/ PrepareStop(c)
  BY <1>4 DEF Ask, Serve, Admit, AskSubmit, AskStop, AskCancel, AskResume, Submit,
       Cancel, CancelChecks, Resume, Reply
<1> QED BY <1>1, <1>2, <1>3, <1>4 DEF Next

LEMMA DaemonChange ==
  ASSUME [Next]_vars
  PROVE  \/ UNCHANGED daemon
         \/ Launch \/ Recovered \/ Stop \/ DaemonDies \/ Grant
            \/ GrantFails \/ Reap \/ BeginCancelRun \/ CancelRun \/ Settle
         \/ \E p \in Pending : RecoverJob(p)
         \/ \E j \in Jobs, l \in Leases : Spawn(j, l)
         \/ \E c \in Commands : Reply(c)
<1>1. CASE UNCHANGED vars \/ Launch \/ DaemonDies
  BY <1>1 DEF vars
<1>2. CASE Loops
  BY <1>2 DEF Loops, KillCancelled, CancelRollsBack
<1>3. ASSUME NEW l \in Leases, Work(l) \/ WorkerDies(l)
      PROVE  UNCHANGED daemon
  BY <1>3 DEF Work, Start, BeginRun, ResumeRun, Emit, Save, Prepare, Write, Apply,
       Pause, Complete, Clear, Fail, RollBack, Close, Leave, Report, Raise, WorkerDies
<1>4. ASSUME NEW c \in Commands, Ask(c) \/ Serve(c)
      PROVE  \/ UNCHANGED daemon
             \/ Reply(c)
  BY <1>4 DEF Ask, Serve, Admit, AskSubmit, AskStop, AskCancel, AskResume, Submit,
       Cancel, CancelChecks, CancelKills, Resume, PrepareStop
<1> QED BY <1>1, <1>2, <1>3, <1>4 DEF Next

LEMMA CallsChange ==
  ASSUME [Next]_vars
  PROVE  \/ UNCHANGED calls
         \/ Stop \/ DaemonDies \/ GrantFails
         \/ \E c \in Commands : AskSubmit(c) \/ AskStop(c) \/ Submit(c)
                                \/ Cancel(c) \/ CancelChecks(c)
                                \/ CancelKills(c) \/ Resume(c)
                                \/ PrepareStop(c) \/ Reply(c)
         \/ \E c \in Commands, j \in Jobs : AskCancel(c, j)
                                            \/ AskResume(c, j)
<1>1. CASE UNCHANGED vars \/ Launch \/ DaemonDies
  BY <1>1 DEF vars, Launch
<1>2. CASE Loops
  BY <1>2 DEF Loops, RecoverJob, Recovered, Spawn, Grant, KillCancelled, Reap,
       BeginCancelRun, CancelRollsBack, CancelRun, Settle
<1>3. ASSUME NEW l \in Leases, Work(l) \/ WorkerDies(l)
      PROVE  UNCHANGED calls
  BY <1>3 DEF Work, Start, BeginRun, ResumeRun, Emit, Save, Prepare, Write, Apply,
       Pause, Complete, Clear, Fail, RollBack, Close, Leave, Report, Raise, WorkerDies
<1>4. ASSUME NEW c \in Commands, Ask(c) \/ Serve(c)
      PROVE  \/ UNCHANGED calls
             \/ AskSubmit(c) \/ AskStop(c) \/ Submit(c) \/ Cancel(c)
             \/ CancelChecks(c) \/ CancelKills(c) \/ Resume(c) \/ PrepareStop(c)
             \/ Reply(c)
             \/ \E j \in Jobs : AskCancel(c, j) \/ AskResume(c, j)
  BY <1>4 DEF Ask, Serve, Admit
<1> QED BY <1>1, <1>2, <1>3, <1>4 DEF Next

--------------------------------------------------------------------------------
(* Types.                                                                     *)

\* What the sorts say of one worker.
LEMMA WorkerRow ==
  ASSUME Typed, NEW l \in Leases
  PROVE  /\ workers[l] \in Worker /\ WorkerOK(workers[l])
         /\ workers[l].pc \notin {"none", "gone"} => workers[l].job \in Jobs
         /\ None \notin Leases /\ None \notin Jobs
BY ResidentAssumption DEF Typed, TypeOK, WorkersOK, WorkerOK, None

\* A worker that is replaced, goes on, ends with a result, or is gone.
LEMMA WorkerPut ==
  ASSUME Typed, NEW l \in Leases, NEW w \in Worker, WorkerOK(w),
         workers' = [workers EXCEPT ![l] = w]
  PROVE  workers' \in [Leases -> Worker] /\ WorkersOK'
BY DEF Typed, TypeOK, WorkersOK, WorkerOK

LEMMA WorkerMoves ==
  ASSUME Typed, NEW l \in Leases, workers[l].pc \in Placed, NEW pc \in Placed, Move(l, pc)
  PROVE  workers' \in [Leases -> Worker] /\ WorkersOK'
<1> DEFINE w == [workers[l] EXCEPT !.pc = pc]
<1>1. w \in Worker /\ WorkerOK(w)
  BY WorkerRow DEF Worker, WorkerOK, Placed, Inside
<1>2. workers' = [workers EXCEPT ![l] = w]
  BY DEF Move, Typed, TypeOK
<1> QED BY <1>1, <1>2, WorkerPut

LEMMA WorkerReports ==
  ASSUME Typed, NEW l \in Leases, workers[l].pc \in Placed, NEW result \in {"paused"} \cup Reported,
         workers' = [workers EXCEPT ![l].pc = "reporting", ![l].result = result]
  PROVE  workers' \in [Leases -> Worker] /\ WorkersOK'
<1> DEFINE w == [workers[l] EXCEPT !.pc = "reporting", !.result = result]
<1>1. w \in Worker /\ WorkerOK(w)
  BY WorkerRow DEF Worker, WorkerOK, Placed, Inside
<1>2. workers' = [workers EXCEPT ![l] = w]
  BY DEF Typed, TypeOK
<1> QED BY <1>1, <1>2, WorkerPut

LEMMA WorkerGoes ==
  ASSUME Typed, NEW l \in Leases, workers' = Killed(l)
  PROVE  workers' \in [Leases -> Worker] /\ WorkersOK'
<1>1. Gone \in Worker /\ WorkerOK(Gone)
  BY DEF Worker, WorkerOK, Gone, NoWorker, None, Inside
<1> QED BY <1>1, WorkerPut DEF Killed

\* A run is bound to its job; a job is asked to stop.
LEMMA BoundPut ==
  ASSUME Typed, NEW j \in Jobs, jobs' = [jobs EXCEPT ![j].bound = TRUE]
  PROVE  jobs' \in [Jobs -> Job]
<1>1. [jobs[j] EXCEPT !.bound = TRUE] \in Job
  BY DEF Typed, TypeOK, Job
<1> QED BY <1>1 DEF Typed, TypeOK

LEMMA CancelPut ==
  ASSUME Typed, NEW j \in Jobs, NEW s \in States,
         jobs' = [jobs EXCEPT ![j].cancel = TRUE, ![j].state = s]
  PROVE  jobs' \in [Jobs -> Job]
<1>1. [jobs[j] EXCEPT !.cancel = TRUE, !.state = s] \in Job
  BY DEF Typed, TypeOK, Job
<1> QED BY <1>1 DEF Typed, TypeOK

LEMMA ResumePut ==
  ASSUME Typed, NEW j \in Jobs,
         jobs' = [jobs EXCEPT ![j] = [@ EXCEPT !.state = "queued", !.mode = "resume",
                                               !.cancel = FALSE, !.lease = None]]
  PROVE  jobs' \in [Jobs -> Job]
<1>1. ASSUME NEW job \in Job
      PROVE  [job EXCEPT !.state = "queued", !.mode = "resume",
                         !.cancel = FALSE, !.lease = None] \in Job
  <2>1. [job EXCEPT !.state = "queued", !.mode = "resume"] \in Job
    BY DEF Job, States
  <2> QED BY <2>1 DEF Job
<1>2. jobs[j] \in Job
  BY DEF Typed, TypeOK
<1> DEFINE row == [jobs[j] EXCEPT !.state = "queued", !.mode = "resume",
                                  !.cancel = FALSE, !.lease = None]
<1>3. row \in Job
  BY <1>1, <1>2
<1>4. jobs' = [jobs EXCEPT ![j] = row]
  OBVIOUS
<1> HIDE DEF row
<1> QED BY <1>3, <1>4 DEF Typed, TypeOK

\* A checkpoint of a run is saved or deleted.
LEMMA CheckpointPut ==
  ASSUME Typed, NEW j \in Jobs,
         \/ runs' = [runs EXCEPT ![j].checkpoint = TRUE]
         \/ runs' = [runs EXCEPT ![j].checkpoint = FALSE]
  PROVE  runs' \in [Jobs -> Run]
<1>1. /\ [runs[j] EXCEPT !.checkpoint = TRUE] \in Run
      /\ [runs[j] EXCEPT !.checkpoint = FALSE] \in Run
  BY DEF Typed, TypeOK, Run
<1>2. CASE runs' = [runs EXCEPT ![j].checkpoint = TRUE]
  BY <1>1, <1>2 DEF Typed, TypeOK
<1>3. CASE runs' = [runs EXCEPT ![j].checkpoint = FALSE]
  BY <1>1, <1>3 DEF Typed, TypeOK
<1> QED BY <1>2, <1>3

\* Every step keeps the sorts of the rows.
LEMMA JobsTyped ==
  ASSUME Typed, [Next]_vars
  PROVE  jobs' \in [Jobs -> Job]
<1> USE ResidentAssumption
<1>1. CASE UNCHANGED jobs
  BY <1>1 DEF Typed, TypeOK
<1>2. ASSUME NEW p \in Pending, RecoverJob(p)
      PROVE  jobs' \in [Jobs -> Job]
  BY <1>2 DEF RecoverJob, Finished, Confirmed, Pending, Job, States, Settled, Reported,
       None, Typed, TypeOK
<1>3. CASE Grant
  BY <1>3 DEF Grant, DaemonOK, Daemon, Job, States, None, Typed, TypeOK
<1>4. CASE Settle
  BY <1>4 DEF Settle, Finished, SettledAs, DaemonOK, Daemon, Job, States, Settled,
       Reported, None, Typed, TypeOK
<1>5. ASSUME NEW l \in Leases, Emit(l)
      PROVE  jobs' \in [Jobs -> Job]
  <2>1. workers[l].job \in Jobs
    BY <1>5, WorkerRow DEF Emit, Inside
  <2>2. jobs' = jobs \/ jobs' = [jobs EXCEPT ![workers[l].job].bound = TRUE]
    BY <1>5 DEF Emit
  <2> QED BY <2>1, <2>2, BoundPut DEF Typed, TypeOK
<1>6. ASSUME NEW l \in Leases, Leave(l)
      PROVE  jobs' \in [Jobs -> Job]
  <2>1. workers[l].job \in Jobs
    BY <1>6, WorkerRow DEF Leave, Inside
  <2>2. jobs' = jobs \/ jobs' = [jobs EXCEPT ![workers[l].job].bound = TRUE]
    BY <1>6 DEF Leave
  <2> QED BY <2>1, <2>2, BoundPut DEF Typed, TypeOK
<1>7. ASSUME NEW l \in Leases, Report(l)
      PROVE  jobs' \in [Jobs -> Job]
  BY <1>7 DEF Report, Finished, Known, WorkersOK, WorkerOK, Worker, Reported, Settled,
       States, Job, None, Typed, TypeOK
<1>8. ASSUME NEW l \in Leases, Raise(l)
      PROVE  jobs' \in [Jobs -> Job]
  BY <1>8 DEF Raise, Finished, WorkersOK, WorkerOK, Reported, Settled, States, Job, None,
       Typed, TypeOK
<1>9. ASSUME NEW c \in Commands, Submit(c)
      PROVE  jobs' \in [Jobs -> Job]
  <2>1. Queued \in Job
    BY DEF Queued, NoJob, Job, States, None
  <2> QED BY <1>9, <2>1 DEF Submit, Typed, TypeOK
<1>10. ASSUME NEW c \in Commands, Cancel(c)
      PROVE  jobs' \in [Jobs -> Job]
  <2>1. calls[c].job \in Jobs
    BY <1>10 DEF Cancel, Typed, CallsOK, CallOK
  <2> DEFINE s == IF calls[c].saw = "queued" THEN "cancelled" ELSE jobs[calls[c].job].state
  <2>2. s \in States
    BY <2>1 DEF States, Settled, Reported, Typed, TypeOK, Job
  <2>3. jobs' = [jobs EXCEPT ![calls[c].job].cancel = TRUE, ![calls[c].job].state = s]
    BY <1>10 DEF Cancel, Typed, TypeOK
  <2> HIDE DEF s
  <2> QED BY <2>1, <2>2, <2>3, CancelPut
<1>11. ASSUME NEW c \in Commands, Resume(c)
      PROVE  jobs' \in [Jobs -> Job]
  <2>1. calls[c].job \in Jobs
    BY <1>11 DEF Resume, Typed, CallsOK, CallOK
  <2> QED BY <1>11, <2>1, ResumePut DEF Resume
<1> QED BY <1>1, <1>2, <1>3, <1>4, <1>5, <1>6, <1>7, <1>8, <1>9, <1>10, <1>11, JobsChange

\* A run.
LEMMA RunsTyped ==
  ASSUME Typed, [Next]_vars
  PROVE  runs' \in [Jobs -> Run]
<1> USE ResidentAssumption
<1>1. CASE UNCHANGED runs
  BY <1>1 DEF Typed, TypeOK, WorkersOK, WorkerOK, DaemonOK, Run, Reported, Open,
       RolledBack, Inside
<1>2. CASE CancelRollsBack
  BY <1>2 DEF CancelRollsBack, Typed, TypeOK, WorkersOK, WorkerOK, DaemonOK, Run, Reported,
       Open, RolledBack, Inside
<1>3. CASE CancelRun
  BY <1>3 DEF CancelRun, Typed, TypeOK, WorkersOK, WorkerOK, DaemonOK, Run, Reported, Open,
       RolledBack, Inside
<1>4. ASSUME NEW l \in Leases, BeginRun(l)
      PROVE  runs' \in [Jobs -> Run]
  <2>1. workers[l].job \in Jobs
    BY <1>4, WorkerRow DEF BeginRun, Inside
  <2> QED BY <1>4, <2>1 DEF BeginRun, RolledBack, Run, Reported, Open, Typed, TypeOK
<1>5. ASSUME NEW l \in Leases, Save(l)
      PROVE  runs' \in [Jobs -> Run]
  <2>1. workers[l].job \in Jobs
    BY <1>5, WorkerRow DEF Save, Inside
  <2> QED BY <1>5, <2>1, CheckpointPut DEF Save
<1>6. ASSUME NEW l \in Leases, Prepare(l)
      PROVE  runs' \in [Jobs -> Run]
  <2>1. workers[l].job \in Jobs
    BY <1>6, WorkerRow DEF Prepare, Inside
  <2> QED BY <1>6, <2>1 DEF Prepare, RolledBack, Run, Reported, Open, Typed, TypeOK
<1>7. ASSUME NEW l \in Leases, Write(l)
      PROVE  runs' \in [Jobs -> Run]
  <2>1. workers[l].job \in Jobs
    BY <1>7, WorkerRow DEF Write, Inside
  <2> QED BY <1>7, <2>1 DEF Write, RolledBack, Run, Reported, Open, Typed, TypeOK
<1>8. ASSUME NEW l \in Leases, Apply(l)
      PROVE  runs' \in [Jobs -> Run]
  <2>1. workers[l].job \in Jobs
    BY <1>8, WorkerRow DEF Apply, Inside
  <2> QED BY <1>8, <2>1 DEF Apply, RolledBack, Run, Reported, Open, Typed, TypeOK
<1>9. ASSUME NEW l \in Leases, Pause(l)
      PROVE  runs' \in [Jobs -> Run]
  <2>1. workers[l].job \in Jobs
    BY <1>9, WorkerRow DEF Pause, Inside
  <2> QED BY <1>9, <2>1 DEF Pause, RolledBack, Run, Reported, Open, Typed, TypeOK
<1>10. ASSUME NEW l \in Leases, Complete(l)
      PROVE  runs' \in [Jobs -> Run]
  <2>1. workers[l].job \in Jobs
    BY <1>10, WorkerRow DEF Complete, Inside
  <2> QED BY <1>10, <2>1 DEF Complete, RolledBack, Run, Reported, Open, Typed, TypeOK
<1>11. ASSUME NEW l \in Leases, Clear(l)
      PROVE  runs' \in [Jobs -> Run]
  <2>1. workers[l].job \in Jobs
    BY <1>11, WorkerRow DEF Clear, Inside
  <2> QED BY <1>11, <2>1, CheckpointPut DEF Clear
<1>12. ASSUME NEW l \in Leases, Fail(l)
      PROVE  runs' \in [Jobs -> Run]
  <2>1. workers[l].job \in Jobs
    BY <1>12, WorkerRow DEF Fail, Inside
  <2> QED BY <1>12, <2>1 DEF Fail, RolledBack, Run, Reported, Open, Typed, TypeOK
<1>13. ASSUME NEW l \in Leases, RollBack(l)
      PROVE  runs' \in [Jobs -> Run]
  <2>1. workers[l].job \in Jobs
    BY <1>13, WorkerRow DEF RollBack, Inside
  <2> QED BY <1>13, <2>1 DEF RollBack, RolledBack, Run, Reported, Open, Typed, TypeOK
<1>14. ASSUME NEW l \in Leases, Close(l)
      PROVE  runs' \in [Jobs -> Run]
  <2>1. workers[l].job \in Jobs
    BY <1>14, WorkerRow DEF Close, Inside
  <2> QED BY <1>14, <2>1 DEF Close, RolledBack, Run, Reported, Open, Typed, TypeOK
<1>15. ASSUME NEW l \in Leases, Leave(l)
      PROVE  runs' \in [Jobs -> Run]
  <2>1. workers[l].job \in Jobs
    BY <1>15, WorkerRow DEF Leave, Inside
  <2>2. runs' = runs \/ runs' = [runs EXCEPT ![workers[l].job].checkpoint = FALSE]
    BY <1>15 DEF Leave
  <2> QED BY <2>1, <2>2, CheckpointPut DEF Typed, TypeOK
<1> QED BY <1>1, <1>2, <1>3, <1>4, <1>5, <1>6, <1>7, <1>8, <1>9, <1>10, <1>11, <1>12,
     <1>13, <1>14, <1>15, RunsChange

\* A worker.
LEMMA WorkersTyped ==
  ASSUME Typed, [Next]_vars
  PROVE  workers' \in [Leases -> Worker] /\ WorkersOK'
<1>1. CASE UNCHANGED workers
  BY <1>1 DEF Typed, TypeOK, WorkersOK
<1>2. CASE Stop
  <2>1. CASE UNCHANGED workers
    BY <2>1 DEF Typed, TypeOK, WorkersOK
  <2> QED BY <1>2, <2>1, WorkerGoes DEF Stop, Typed, TypeOK, DaemonOK, Daemon
<1>3. CASE DaemonDies
  <2>1. CASE UNCHANGED workers
    BY <2>1 DEF Typed, TypeOK, WorkersOK
  <2> QED BY <1>3, <2>1, WorkerGoes DEF DaemonDies, Typed, TypeOK, DaemonOK, Daemon
<1>4. ASSUME NEW j \in Jobs, NEW l \in Leases, Spawn(j, l)
      PROVE  workers' \in [Leases -> Worker] /\ WorkersOK'
  <2> DEFINE w == [workers[l] EXCEPT !.pc = "polling", !.job = j]
  <2>1. w \in Worker /\ WorkerOK(w)
    BY <1>4, WorkerRow DEF Spawn, NextLease, Worker, WorkerOK
  <2>2. workers' = [workers EXCEPT ![l] = w]
    BY <1>4 DEF Spawn, Typed, TypeOK
  <2> QED BY <2>1, <2>2, WorkerPut
<1>5. CASE GrantFails
  <2>1. CASE UNCHANGED workers
    BY <2>1 DEF Typed, TypeOK, WorkersOK
  <2> QED BY <1>5, <2>1, WorkerGoes DEF GrantFails, Typed, TypeOK, DaemonOK, Daemon
<1>6. CASE KillCancelled
  <2>1. CASE UNCHANGED workers
    BY <2>1 DEF Typed, TypeOK, WorkersOK
  <2> QED BY <1>6, <2>1, WorkerGoes DEF KillCancelled, Typed, TypeOK, DaemonOK, Daemon
<1>7. ASSUME NEW l \in Leases, Start(l)
      PROVE  workers' \in [Leases -> Worker] /\ WorkersOK'
  <2>1. CASE Exit(l)
    BY <2>1, WorkerGoes DEF Exit
  <2>2. CASE workers' = [workers EXCEPT ![l].pc = "entering", ![l].mode = jobs[workers[l].job].mode]
    <3> DEFINE w == [workers[l] EXCEPT !.pc = "entering", !.mode = jobs[workers[l].job].mode]
    <3>1. jobs[workers[l].job] \in Job
      BY <1>7, WorkerRow DEF Start, Typed, TypeOK
    <3>2. w \in Worker /\ WorkerOK(w)
      <4>1. jobs[workers[l].job].mode \in {"run", "resume"}
        BY <3>1 DEF Job
      <4>2. workers[l] \in Worker /\ workers[l].job \in Jobs
        BY <1>7, WorkerRow DEF Start
      <4>3. w \in Worker
        BY <4>1, <4>2 DEF Worker
      <4>4. WorkerOK(w)
        BY <4>1, <4>2 DEF Worker, WorkerOK
      <4> QED BY <4>3, <4>4
    <3>3. workers' = [workers EXCEPT ![l] = w]
      BY <2>2 DEF Typed, TypeOK
    <3> QED BY <3>2, <3>3, WorkerPut
  <2> QED BY <1>7, <2>1, <2>2 DEF Start
<1>8. ASSUME NEW l \in Leases, BeginRun(l)
      PROVE  workers' \in [Leases -> Worker] /\ WorkersOK'
  BY <1>8, WorkerMoves DEF BeginRun, Placed, Inside
<1>9. ASSUME NEW l \in Leases, ResumeRun(l)
      PROVE  workers' \in [Leases -> Worker] /\ WorkersOK'
  <2>1. runs[workers[l].job] \in Run
    BY <1>9, WorkerRow DEF ResumeRun, Typed, TypeOK
  <2> QED BY <1>9, WorkerMoves, WorkerReports DEF ResumeRun, Placed, Inside
<1>10. ASSUME NEW l \in Leases, Emit(l)
      PROVE  workers' \in [Leases -> Worker] /\ WorkersOK'
  BY <1>10, WorkerMoves DEF Emit, Placed, Inside
<1>11. ASSUME NEW l \in Leases, Save(l)
      PROVE  workers' \in [Leases -> Worker] /\ WorkersOK'
  BY <1>11, WorkerMoves DEF Save, Placed, Inside
<1>12. ASSUME NEW l \in Leases, Prepare(l)
      PROVE  workers' \in [Leases -> Worker] /\ WorkersOK'
  BY <1>12, WorkerMoves DEF Prepare, Placed, Inside
<1>13. ASSUME NEW l \in Leases, Apply(l)
      PROVE  workers' \in [Leases -> Worker] /\ WorkersOK'
  BY <1>13, WorkerMoves DEF Apply, Placed, Inside
<1>14. ASSUME NEW l \in Leases, Pause(l)
      PROVE  workers' \in [Leases -> Worker] /\ WorkersOK'
  BY <1>14, WorkerReports DEF Pause, Placed, Inside, Reported
<1>15. ASSUME NEW l \in Leases, Complete(l)
      PROVE  workers' \in [Leases -> Worker] /\ WorkersOK'
  BY <1>15, WorkerMoves DEF Complete, Placed, Inside
<1>16. ASSUME NEW l \in Leases, Clear(l)
      PROVE  workers' \in [Leases -> Worker] /\ WorkersOK'
  BY <1>16, WorkerReports DEF Clear, Placed, Inside, Reported
<1>17. ASSUME NEW l \in Leases, Fail(l)
      PROVE  workers' \in [Leases -> Worker] /\ WorkersOK'
  BY <1>17, WorkerMoves DEF Fail, Placed, Inside
<1>18. ASSUME NEW l \in Leases, Close(l)
      PROVE  workers' \in [Leases -> Worker] /\ WorkersOK'
  BY <1>18, WorkerMoves DEF Close, Placed, Inside
<1>19. ASSUME NEW l \in Leases, Leave(l)
      PROVE  workers' \in [Leases -> Worker] /\ WorkersOK'
  BY <1>19, WorkerMoves DEF Leave, Placed, Inside
<1>20. ASSUME NEW l \in Leases, Report(l)
      PROVE  workers' \in [Leases -> Worker] /\ WorkersOK'
  BY <1>20, WorkerMoves, WorkerGoes DEF Report, Exit, Placed
<1>21. ASSUME NEW l \in Leases, Raise(l)
      PROVE  workers' \in [Leases -> Worker] /\ WorkersOK'
  BY <1>21, WorkerGoes DEF Raise, Exit
<1>22. ASSUME NEW l \in Leases, WorkerDies(l)
      PROVE  workers' \in [Leases -> Worker] /\ WorkersOK'
  BY <1>22, WorkerGoes DEF WorkerDies, Exit
<1>23. ASSUME NEW c \in Commands, CancelKills(c)
      PROVE  workers' \in [Leases -> Worker] /\ WorkersOK'
  <2>1. CASE UNCHANGED workers
    BY <2>1 DEF Typed, TypeOK, WorkersOK
  <2> QED BY <1>23, <2>1, WorkerGoes DEF CancelKills, Typed, TypeOK, DaemonOK, Daemon
<1>24. ASSUME NEW c \in Commands, PrepareStop(c)
      PROVE  workers' \in [Leases -> Worker] /\ WorkersOK'
  <2>1. CASE UNCHANGED workers
    BY <2>1 DEF Typed, TypeOK, WorkersOK
  <2> QED BY <1>24, <2>1, WorkerGoes DEF PrepareStop, Typed, TypeOK, DaemonOK, Daemon
<1> QED BY <1>1, <1>2, <1>3, <1>4, <1>5, <1>6, <1>7, <1>8, <1>9, <1>10, <1>11, <1>12,
     <1>13, <1>14, <1>15, <1>16, <1>17, <1>18, <1>19, <1>20, <1>21, <1>22, <1>23, <1>24,
     WorkersChange

\* The main loop.
LEMMA DaemonTyped ==
  ASSUME Typed, [Next]_vars
  PROVE  daemon' \in Daemon
<1> USE ResidentAssumption
<1>1. CASE UNCHANGED daemon
  BY <1>1 DEF Typed, TypeOK, DaemonOK, Daemon, Off, Ends, Loop, None
<1>2. CASE Launch
  <2>1. Audited \subseteq Pending
    <3>1. ASSUME NEW j \in Jobs
          PROVE  [job |-> j, bound |-> jobs[j].bound] \in Pending
      BY DEF Pending, Typed, TypeOK, Job
    <3> QED BY <3>1 DEF Audited
  <2> QED BY <1>2, <2>1 DEF Launch, Daemon, Off, None
<1>3. ASSUME NEW p \in Pending, RecoverJob(p)
      PROVE  daemon' \in Daemon
  BY <1>3 DEF RecoverJob, Pending, Typed, TypeOK, DaemonOK, Daemon, Off, Ends, Loop, None
<1>4. CASE Recovered
  BY <1>4 DEF Recovered, Typed, TypeOK, DaemonOK, Daemon, Off, Ends, Loop, None
<1>5. CASE Stop
  BY <1>5 DEF Stop, Typed, TypeOK, DaemonOK, Daemon, Off, Ends, Loop, None
<1>6. CASE DaemonDies
  BY <1>6 DEF DaemonDies, Typed, TypeOK, DaemonOK, Daemon, Off, Ends, Loop, None
<1>7. ASSUME NEW j \in Jobs, NEW l \in Leases, Spawn(j, l)
      PROVE  daemon' \in Daemon
  BY <1>7 DEF Spawn, Typed, TypeOK, DaemonOK, Daemon, Off, Ends, Loop, None
<1>8. CASE Grant
  BY <1>8 DEF Grant, Typed, TypeOK, DaemonOK, Daemon, Off, Ends, Loop, None
<1>9. CASE GrantFails
  BY <1>9 DEF GrantFails, Typed, TypeOK, DaemonOK, Daemon, Off, Ends, Loop, None
<1>10. CASE Reap
  BY <1>10 DEF Reap, Typed, TypeOK, DaemonOK, Daemon, Off, Ends, Loop, None
<1>11. CASE BeginCancelRun
  BY <1>11 DEF BeginCancelRun, Typed, TypeOK, DaemonOK, Daemon, Off, Ends, Loop, None
<1>12. CASE CancelRun
  BY <1>12 DEF CancelRun, Typed, TypeOK, DaemonOK, Daemon, Off, Ends, Loop, None
<1>13. CASE Settle
  BY <1>13 DEF Settle, Typed, TypeOK, DaemonOK, Daemon, Off, Ends, Loop, None
<1>14. ASSUME NEW c \in Commands, Reply(c)
      PROVE  daemon' \in Daemon
  BY <1>14 DEF Reply, Typed, TypeOK, DaemonOK, Daemon, Off, Ends, Loop, None
<1> QED BY <1>1, <1>2, <1>3, <1>4, <1>5, <1>6, <1>7, <1>8, <1>9, <1>10, <1>11, <1>12,
     <1>13, <1>14, DaemonChange

\* A command that is replaced, asked, answered.
LEMMA CallPut ==
  ASSUME Typed, NEW c \in Commands, NEW call \in Call, CallOK(call),
         calls' = [calls EXCEPT ![c] = call]
  PROVE  calls' \in [Commands -> Call] /\ CallsOK'
BY DEF Typed, TypeOK, CallsOK, CallOK

LEMMA CallAsked ==
  ASSUME Typed, NEW c \in Commands, NEW j \in Jobs \cup {None}, NEW kind, NEW pc, NEW saw \in States,
         \/ kind \in {"submit", "stop"} /\ pc = "write"
         \/ kind \in {"cancel", "resume"} /\ j \in Jobs /\ pc \in {"reply", "write"},
         Admit(c, kind, j, saw, pc)
  PROVE  calls' \in [Commands -> Call] /\ CallsOK'
<1> DEFINE call == [calls[c] EXCEPT !.journal = "received", !.kind = kind, !.job = j, !.saw = saw, !.pc = pc]
<1>1. calls[c] \in Call /\ calls[c].done = 0
  BY DEF Admit, New, Typed, TypeOK, CallsOK, CallOK
<1>2. call \in Call
  BY <1>1 DEF Call
<1>3. CallOK(call)
  BY <1>1 DEF Call, CallOK
<1>4. calls' = [calls EXCEPT ![c] = call]
  BY DEF Admit
<1> HIDE DEF call
<1> QED BY <1>2, <1>3, <1>4, CallPut

LEMMA NobodyWaits ==
  ASSUME NEW call
  PROVE  /\ Unanswered(call).pc = "idle" /\ Unanswered(call).kind = "none"
         /\ [Unanswered(call) EXCEPT !.journal = "complete"].pc = "idle"
<1>1. [NoCall EXCEPT !.journal = call.journal, !.done = call.done].pc = "idle"
  BY DEF NoCall
<1>2. [NoCall EXCEPT !.journal = call.journal, !.done = call.done].kind = "none"
  BY DEF NoCall
<1>3. [[NoCall EXCEPT !.journal = call.journal, !.done = call.done] EXCEPT !.journal = "complete"].pc = "idle"
  BY DEF NoCall
<1> QED BY <1>1, <1>2, <1>3 DEF Unanswered

LEMMA CallAnswered ==
  ASSUME NEW call \in Call, CallOK(call)
  PROVE  /\ Unanswered(call) \in Call /\ CallOK(Unanswered(call))
         /\ call.journal # "none" =>
               /\ [Unanswered(call) EXCEPT !.journal = "complete"] \in Call
               /\ CallOK([Unanswered(call) EXCEPT !.journal = "complete"])
<1> DEFINE over == Unanswered(call)
<1>1. /\ over.journal = call.journal /\ over.done = call.done
      /\ over.kind = "none" /\ over.pc = "idle"
  <2>1. over.journal = call.journal
    BY DEF Unanswered, NoCall
  <2>2. over.done = call.done
    BY DEF Unanswered, NoCall
  <2> QED BY <2>1, <2>2, NobodyWaits
<1>2. over \in Call
  <2>1. NoCall \in Call
    BY DEF NoCall, Call, States
  <2>2. call.journal \in {"none", "received", "complete"} /\ call.done \in Nat
    BY DEF Call
  <2> QED BY <2>1, <2>2 DEF Unanswered, Call
<1>3. CallOK(over)
  BY <1>1 DEF CallOK
<1> HIDE DEF over
<1>4. [over EXCEPT !.journal = "complete"] \in Call
  BY <1>2 DEF Call
<1>5. call.journal # "none" => CallOK([over EXCEPT !.journal = "complete"])
  BY <1>1, <1>2 DEF CallOK, Call
<1> QED BY <1>2, <1>3, <1>4, <1>5 DEF over

LEMMA CallsTyped ==
  ASSUME Typed, [Next]_vars
  PROVE  calls' \in [Commands -> Call] /\ CallsOK'
<1> USE ResidentAssumption
<1>1. CASE UNCHANGED calls
  BY <1>1 DEF Typed, TypeOK, CallsOK, CallOK, Call, Effect, To, None, States, Settled,
       Reported
<1>2. CASE Stop
  BY <1>2, CallAnswered DEF Stop, Ends, Typed, TypeOK, CallsOK
<1>3. CASE DaemonDies
  BY <1>3, CallAnswered DEF DaemonDies, Ends, Typed, TypeOK, CallsOK
<1>4. CASE GrantFails
  BY <1>4, CallAnswered DEF GrantFails, Ends, Typed, TypeOK, CallsOK
<1>5. ASSUME NEW c \in Commands, AskSubmit(c)
      PROVE  calls' \in [Commands -> Call] /\ CallsOK'
  BY <1>5, CallAsked DEF AskSubmit, States
<1>6. ASSUME NEW c \in Commands, AskStop(c)
      PROVE  calls' \in [Commands -> Call] /\ CallsOK'
  BY <1>6, CallAsked DEF AskStop, States
<1>7. ASSUME NEW c \in Commands, NEW j \in Jobs, AskCancel(c, j)
      PROVE  calls' \in [Commands -> Call] /\ CallsOK'
  <2>1. jobs[j].state \in States
    BY DEF Typed, TypeOK, Job
  <2> QED BY <1>7, <2>1, CallAsked DEF AskCancel
<1>8. ASSUME NEW c \in Commands, NEW j \in Jobs, AskResume(c, j)
      PROVE  calls' \in [Commands -> Call] /\ CallsOK'
  <2>1. jobs[j].state \in States
    BY DEF Typed, TypeOK, Job
  <2> QED BY <1>8, <2>1, CallAsked DEF AskResume
<1>9. ASSUME NEW c \in Commands, Submit(c)
      PROVE  calls' \in [Commands -> Call] /\ CallsOK'
  BY <1>9 DEF Submit, Typed, TypeOK, CallsOK, CallOK, Call, Effect, To, None, States,
       Settled, Reported
<1>10. ASSUME NEW c \in Commands, Cancel(c)
      PROVE  calls' \in [Commands -> Call] /\ CallsOK'
  BY <1>10 DEF Cancel, Typed, TypeOK, CallsOK, CallOK, Call, Effect, To, None, States,
       Settled, Reported
<1>11. ASSUME NEW c \in Commands, CancelChecks(c)
      PROVE  calls' \in [Commands -> Call] /\ CallsOK'
  BY <1>11 DEF CancelChecks, Typed, TypeOK, CallsOK, CallOK, Call, Effect, To, None,
       States, Settled, Reported
<1>12. ASSUME NEW c \in Commands, CancelKills(c)
      PROVE  calls' \in [Commands -> Call] /\ CallsOK'
  <2>1. calls[c] \in Call /\ CallOK(calls[c]) /\ calls[c].pc = "kill"
    BY <1>12 DEF CancelKills, Typed, TypeOK, CallsOK
  <2>2. CASE calls' = [calls EXCEPT ![c] = Unanswered(calls[c])]
    BY <2>1, <2>2, CallAnswered, CallPut
  <2>3. CASE calls' = [calls EXCEPT ![c].pc = "reply"]
    BY <2>1, <2>3 DEF Typed, TypeOK, CallsOK, CallOK, Call
  <2>4. calls' = [calls EXCEPT ![c] = Unanswered(calls[c])] \/ calls' = [calls EXCEPT ![c].pc = "reply"]
    BY <1>12 DEF CancelKills, To, Typed, TypeOK
  <2> QED BY <2>2, <2>3, <2>4
<1>13. ASSUME NEW c \in Commands, Resume(c)
      PROVE  calls' \in [Commands -> Call] /\ CallsOK'
  BY <1>13 DEF Resume, Typed, TypeOK, CallsOK, CallOK, Call, Effect, To, None, States,
       Settled, Reported
<1>14. ASSUME NEW c \in Commands, PrepareStop(c)
      PROVE  calls' \in [Commands -> Call] /\ CallsOK'
  BY <1>14 DEF PrepareStop, Typed, TypeOK, CallsOK, CallOK, Call, Effect, To, None, States,
       Settled, Reported
<1>15. ASSUME NEW c \in Commands, Reply(c)
      PROVE  calls' \in [Commands -> Call] /\ CallsOK'
  <2> DEFINE call == [Unanswered(calls[c]) EXCEPT !.journal = "complete"]
  <2>1. calls[c] \in Call /\ CallOK(calls[c]) /\ calls[c].journal # "none"
    BY <1>15 DEF Reply, Typed, TypeOK, CallsOK, CallOK
  <2>2. call \in Call /\ CallOK(call)
    BY <2>1, CallAnswered
  <2> QED BY <1>15, <2>2, CallPut DEF Reply
<1> QED BY <1>1, <1>2, <1>3, <1>4, <1>5, <1>6, <1>7, <1>8, <1>9, <1>10, <1>11, <1>12,
     <1>13, <1>14, <1>15, CallsChange

--------------------------------------------------------------------------------
(* What any step may do to a worker, a job and a run.                         *)

\* A worker stays as it is, goes, starts, is spawned, or moves on: then it keeps
\* its job and its mode, and never comes back to where it entered.
Moves(l) ==
    /\ workers[l].pc \in Placed /\ workers'[l].pc \in Placed /\ workers'[l].pc # "entering"
    /\ workers'[l].job = workers[l].job /\ workers'[l].mode = workers[l].mode
Starts(l) ==
    /\ Start(l) /\ Holds(l)
    /\ workers'[l].pc = "entering" /\ workers'[l].job = workers[l].job
    /\ workers'[l].mode = jobs[workers[l].job].mode
Spawned(l) ==
    /\ workers[l].pc = "none" /\ \E j \in Jobs : Spawn(j, l)
    /\ workers'[l].pc = "polling" /\ workers'[l].mode = "none"
WorkerStep(l) ==
    workers'[l] = workers[l] \/ workers'[l] = Gone \/ Moves(l) \/ Starts(l) \/ Spawned(l)

LEMMA WorkerSteps ==
  ASSUME Typed, [Next]_vars
  PROVE  \A k \in Leases : WorkerStep(k)
<1>1. CASE UNCHANGED workers
  BY <1>1 DEF WorkerStep
<1>2. CASE Stop
  BY <1>2 DEF Stop, Killed, Typed, TypeOK, DaemonOK, Daemon, WorkerStep
<1>3. CASE DaemonDies
  BY <1>3 DEF DaemonDies, Killed, Typed, TypeOK, DaemonOK, Daemon, WorkerStep
<1>4. ASSUME NEW j \in Jobs, NEW l \in Leases, Spawn(j, l)
      PROVE  \A k \in Leases : WorkerStep(k)
  <2>1. workers[l].pc = "none" /\ workers[l].mode = "none"
    BY <1>4, WorkerRow DEF Spawn, NextLease, WorkerOK
  <2> QED BY <1>4, <2>1 DEF Spawn, Spawned, Typed, TypeOK, Worker, WorkerStep
<1>5. CASE GrantFails
  BY <1>5 DEF GrantFails, Killed, Typed, TypeOK, DaemonOK, Daemon, WorkerStep
<1>6. CASE KillCancelled
  BY <1>6 DEF KillCancelled, Killed, Typed, TypeOK, DaemonOK, Daemon, WorkerStep
<1>7. ASSUME NEW l \in Leases, Start(l)
      PROVE  \A k \in Leases : WorkerStep(k)
  BY <1>7, WorkerRow DEF Start, Exit, Killed, Starts, Typed, TypeOK, Worker, WorkerStep
<1>8. ASSUME NEW l \in Leases, BeginRun(l)
      PROVE  \A k \in Leases : WorkerStep(k)
  BY <1>8 DEF BeginRun, Move, Moves, Placed, Inside, Typed, TypeOK, Worker, WorkerStep
<1>9. ASSUME NEW l \in Leases, ResumeRun(l)
      PROVE  \A k \in Leases : WorkerStep(k)
  BY <1>9 DEF ResumeRun, Move, Moves, Placed, Inside, Typed, TypeOK, Worker, WorkerStep
<1>10. ASSUME NEW l \in Leases, Emit(l)
      PROVE  \A k \in Leases : WorkerStep(k)
  BY <1>10 DEF Emit, Move, Moves, Placed, Inside, Typed, TypeOK, Worker, WorkerStep
<1>11. ASSUME NEW l \in Leases, Save(l)
      PROVE  \A k \in Leases : WorkerStep(k)
  BY <1>11 DEF Save, Move, Moves, Placed, Inside, Typed, TypeOK, Worker, WorkerStep
<1>12. ASSUME NEW l \in Leases, Prepare(l)
      PROVE  \A k \in Leases : WorkerStep(k)
  BY <1>12 DEF Prepare, Move, Moves, Placed, Inside, Typed, TypeOK, Worker, WorkerStep
<1>13. ASSUME NEW l \in Leases, Apply(l)
      PROVE  \A k \in Leases : WorkerStep(k)
  BY <1>13 DEF Apply, Move, Moves, Placed, Inside, Typed, TypeOK, Worker, WorkerStep
<1>14. ASSUME NEW l \in Leases, Pause(l)
      PROVE  \A k \in Leases : WorkerStep(k)
  BY <1>14 DEF Pause, Moves, Placed, Inside, Typed, TypeOK, Worker, WorkerStep
<1>15. ASSUME NEW l \in Leases, Complete(l)
      PROVE  \A k \in Leases : WorkerStep(k)
  BY <1>15 DEF Complete, Move, Moves, Placed, Inside, Typed, TypeOK, Worker, WorkerStep
<1>16. ASSUME NEW l \in Leases, Clear(l)
      PROVE  \A k \in Leases : WorkerStep(k)
  BY <1>16 DEF Clear, Moves, Placed, Inside, Typed, TypeOK, Worker, WorkerStep
<1>17. ASSUME NEW l \in Leases, Fail(l)
      PROVE  \A k \in Leases : WorkerStep(k)
  BY <1>17 DEF Fail, Move, Moves, Placed, Inside, Typed, TypeOK, Worker, WorkerStep
<1>18. ASSUME NEW l \in Leases, Close(l)
      PROVE  \A k \in Leases : WorkerStep(k)
  BY <1>18 DEF Close, Move, Moves, Placed, Inside, Typed, TypeOK, Worker, WorkerStep
<1>19. ASSUME NEW l \in Leases, Leave(l)
      PROVE  \A k \in Leases : WorkerStep(k)
  BY <1>19 DEF Leave, Move, Moves, Placed, Inside, Typed, TypeOK, Worker, WorkerStep
<1>20. ASSUME NEW l \in Leases, Report(l)
      PROVE  \A k \in Leases : WorkerStep(k)
  BY <1>20 DEF Report, Exit, Killed, Move, Moves, Placed, Typed, TypeOK, Worker, WorkerStep
<1>21. ASSUME NEW l \in Leases, Raise(l)
      PROVE  \A k \in Leases : WorkerStep(k)
  BY <1>21 DEF Raise, Exit, Killed, Typed, TypeOK, WorkerStep
<1>22. ASSUME NEW l \in Leases, WorkerDies(l)
      PROVE  \A k \in Leases : WorkerStep(k)
  BY <1>22 DEF WorkerDies, Exit, Killed, Typed, TypeOK, WorkerStep
<1>23. ASSUME NEW c \in Commands, CancelKills(c)
      PROVE  \A k \in Leases : WorkerStep(k)
  BY <1>23 DEF CancelKills, Killed, Typed, TypeOK, DaemonOK, Daemon, WorkerStep
<1>24. ASSUME NEW c \in Commands, PrepareStop(c)
      PROVE  \A k \in Leases : WorkerStep(k)
  BY <1>24 DEF PrepareStop, Killed, Typed, TypeOK, DaemonOK, Daemon, WorkerStep
<1> QED BY <1>1, <1>2, <1>3, <1>4, <1>5, <1>6, <1>7, <1>8, <1>9, <1>10, <1>11, <1>12,
     <1>13, <1>14, <1>15, <1>16, <1>17, <1>18, <1>19, <1>20, <1>21, <1>22, <1>23, <1>24,
     WorkersChange

\* A worker reports that its job is complete, or failed.
Told(l, j, state) ==
    /\ workers[l].job = j /\ Holds(l)
    /\ \/ Report(l) /\ workers[l].result = state /\ state \in Reported
       \/ Raise(l) /\ state = "failed" /\ ~Resumable(j)

\* A job begins to run only by a grant, from the queue; it comes into the queue
\* new or to be resumed, and who resumes never runs again.
Granted(j) ==
    /\ Grant /\ j = daemon.job /\ jobs[j].state = "queued"
    /\ jobs'[j].lease = daemon.child /\ jobs'[j].mode = jobs[j].mode
JobStep(j) ==
    /\ jobs'[j].state = "running" =>
          \/ Granted(j)
          \/ jobs[j].state = "running" /\ jobs'[j].lease = jobs[j].lease /\ jobs'[j].mode = jobs[j].mode
    /\ jobs'[j].state = "queued" /\ jobs'[j].mode = "run" => jobs[j].state \in {"absent", "queued"}
    /\ jobs'[j].state = "absent" => jobs[j].state = "absent" /\ jobs'[j].mode = jobs[j].mode
    /\ jobs'[j].mode # jobs[j].mode => jobs'[j].mode = "resume" \/ jobs[j].state = "absent"
    /\ jobs'[j].mode = "resume" => jobs[j].mode = "resume" \/ \E c \in Commands : Resume(c) /\ calls[c].job = j
    /\ jobs'[j].state \in {"complete", "failed"} =>
          jobs'[j].state = jobs[j].state \/ \E l \in Leases : Told(l, j, jobs'[j].state)

LEMMA JobSteps ==
  ASSUME Typed, [Next]_vars
  PROVE  \A i \in Jobs : JobStep(i)
<1> USE DEF Typed, TypeOK, JobStep
<1>1. CASE UNCHANGED jobs
  BY <1>1 DEF Job
<1>2. ASSUME NEW p \in Pending, RecoverJob(p)
      PROVE  \A i \in Jobs : JobStep(i)
  BY <1>2 DEF RecoverJob, Job, Finished, Confirmed, Pending
<1>3. CASE Grant
  BY <1>3 DEF Grant, Job, Grantable, Granted
<1>4. CASE Settle
  BY <1>4 DEF Settle, Job, Finished, SettledAs, DaemonOK, Daemon
<1>5. ASSUME NEW l \in Leases, Emit(l)
      PROVE  \A i \in Jobs : JobStep(i)
  <2>1. \A i \in Jobs : /\ jobs'[i].state = jobs[i].state /\ jobs'[i].lease = jobs[i].lease
                         /\ jobs'[i].mode = jobs[i].mode
    <3>1. jobs' = jobs \/ jobs' = [jobs EXCEPT ![workers[l].job].bound = TRUE]
      BY <1>5 DEF Emit
    <3> QED BY <3>1 DEF Job
  <2> QED BY <2>1
<1>6. ASSUME NEW l \in Leases, Leave(l)
      PROVE  \A i \in Jobs : JobStep(i)
  <2>1. \A i \in Jobs : /\ jobs'[i].state = jobs[i].state /\ jobs'[i].lease = jobs[i].lease
                         /\ jobs'[i].mode = jobs[i].mode
    <3>1. jobs' = jobs \/ jobs' = [jobs EXCEPT ![workers[l].job].bound = TRUE]
      BY <1>6 DEF Leave
    <3> QED BY <3>1 DEF Job
  <2> QED BY <2>1
<1>7. ASSUME NEW l \in Leases, Report(l)
      PROVE  \A i \in Jobs : JobStep(i)
  <2>1. CASE jobs' = jobs
    BY <2>1
  <2>2. CASE Holds(l) /\ workers[l].result \in Reported
             /\ jobs' = [Finished(workers[l].job, workers[l].result) EXCEPT ![workers[l].job].bound = TRUE]
    <3>1. \A i \in Jobs :
            /\ i # workers[l].job => jobs'[i] = jobs[i]
            /\ i = workers[l].job => /\ jobs'[i].state = workers[l].result /\ jobs'[i].mode = jobs[i].mode
                                     /\ jobs[i].state = "running"
      BY <2>2 DEF Finished, Holds, Job
    <3> QED BY <1>7, <2>2, <3>1 DEF Told, Reported
  <2> QED BY <1>7, <2>1, <2>2 DEF Report, Known
<1>8. ASSUME NEW l \in Leases, Raise(l)
      PROVE  \A i \in Jobs : JobStep(i)
  <2>1. CASE jobs' = jobs
    BY <2>1
  <2>2. CASE Holds(l) /\ jobs' = Finished(workers[l].job, IF Resumable(workers[l].job) THEN "resume_ready" ELSE "failed")
    <3>1. \A i \in Jobs :
            /\ i # workers[l].job => jobs'[i] = jobs[i]
            /\ i = workers[l].job => /\ jobs'[i].state = (IF Resumable(i) THEN "resume_ready" ELSE "failed")
                                     /\ jobs'[i].mode = jobs[i].mode /\ jobs[i].state = "running"
      BY <2>2 DEF Finished, Holds, Job
    <3> QED BY <1>8, <2>2, <3>1 DEF Told
  <2> QED BY <1>8, <2>1, <2>2 DEF Raise
<1>9. ASSUME NEW c \in Commands, Submit(c)
      PROVE  \A i \in Jobs : JobStep(i)
  BY <1>9 DEF Submit, Job, Queued, NoJob, Job
<1>10. ASSUME NEW c \in Commands, Cancel(c)
      PROVE  \A i \in Jobs : JobStep(i)
  <2>1. \A i \in Jobs : /\ jobs'[i].state \in {jobs[i].state, "cancelled"} /\ jobs'[i].lease = jobs[i].lease
                         /\ jobs'[i].mode = jobs[i].mode
    <3> DEFINE s == IF calls[c].saw = "queued" THEN "cancelled" ELSE jobs[calls[c].job].state
    <3>1. jobs' = [jobs EXCEPT ![calls[c].job].cancel = TRUE, ![calls[c].job].state = s]
      BY <1>10 DEF Cancel
    <3>2. s \in {jobs[calls[c].job].state, "cancelled"}
      OBVIOUS
    <3> HIDE DEF s
    <3> QED BY <3>1, <3>2 DEF Job
  <2> QED BY <2>1
<1>11. ASSUME NEW c \in Commands, Resume(c)
      PROVE  \A i \in Jobs : JobStep(i)
  <2>1. ASSUME NEW i \in Jobs, i # calls[c].job
        PROVE  jobs'[i] = jobs[i]
    BY <1>11, <2>1 DEF Resume
  <2>2. ASSUME NEW i \in Jobs, i = calls[c].job
        PROVE  /\ jobs'[i].state = "queued" /\ jobs'[i].mode = "resume"
               /\ jobs'[i].bound = jobs[i].bound
    BY <1>11, <2>2 DEF Resume, Job
  <2> QED BY <1>11, <2>1, <2>2 DEF Job
<1> QED BY <1>1, <1>2, <1>3, <1>4, <1>5, <1>6, <1>7, <1>8, <1>9, <1>10, <1>11, JobsChange

\* A task is begun only by a worker that enters with it.
LEMMA StartsCounted ==
  ASSUME Typed, [Next]_vars, NEW i \in Jobs
  PROVE  \/ runs'[i].starts = runs[i].starts
         \/ /\ runs'[i].starts = runs[i].starts + 1
            /\ \E l \in Leases : BeginRun(l) /\ workers[l].job = i
<1> USE DEF Typed, TypeOK, Run
<1>1. CASE UNCHANGED runs
  BY <1>1 DEF vars
<1>2. CASE CancelRollsBack
  BY <1>2 DEF CancelRollsBack, RolledBack
<1>3. CASE CancelRun
  BY <1>3 DEF CancelRun, RolledBack
<1>4. ASSUME NEW l \in Leases, BeginRun(l)
      PROVE  \/ runs'[i].starts = runs[i].starts
             \/ /\ runs'[i].starts = runs[i].starts + 1
                /\ \E k \in Leases : BeginRun(k) /\ workers[k].job = i
  BY <1>4 DEF BeginRun, RolledBack
<1>5. ASSUME NEW l \in Leases, Save(l)
      PROVE  \/ runs'[i].starts = runs[i].starts
             \/ /\ runs'[i].starts = runs[i].starts + 1
                /\ \E k \in Leases : BeginRun(k) /\ workers[k].job = i
  BY <1>5 DEF Save, RolledBack
<1>6. ASSUME NEW l \in Leases, Prepare(l)
      PROVE  \/ runs'[i].starts = runs[i].starts
             \/ /\ runs'[i].starts = runs[i].starts + 1
                /\ \E k \in Leases : BeginRun(k) /\ workers[k].job = i
  BY <1>6 DEF Prepare, RolledBack
<1>7. ASSUME NEW l \in Leases, Write(l)
      PROVE  \/ runs'[i].starts = runs[i].starts
             \/ /\ runs'[i].starts = runs[i].starts + 1
                /\ \E k \in Leases : BeginRun(k) /\ workers[k].job = i
  BY <1>7 DEF Write, RolledBack
<1>8. ASSUME NEW l \in Leases, Apply(l)
      PROVE  \/ runs'[i].starts = runs[i].starts
             \/ /\ runs'[i].starts = runs[i].starts + 1
                /\ \E k \in Leases : BeginRun(k) /\ workers[k].job = i
  BY <1>8 DEF Apply, RolledBack
<1>9. ASSUME NEW l \in Leases, Pause(l)
      PROVE  \/ runs'[i].starts = runs[i].starts
             \/ /\ runs'[i].starts = runs[i].starts + 1
                /\ \E k \in Leases : BeginRun(k) /\ workers[k].job = i
  BY <1>9 DEF Pause, RolledBack
<1>10. ASSUME NEW l \in Leases, Complete(l)
      PROVE  \/ runs'[i].starts = runs[i].starts
             \/ /\ runs'[i].starts = runs[i].starts + 1
                /\ \E k \in Leases : BeginRun(k) /\ workers[k].job = i
  BY <1>10 DEF Complete, RolledBack
<1>11. ASSUME NEW l \in Leases, Clear(l)
      PROVE  \/ runs'[i].starts = runs[i].starts
             \/ /\ runs'[i].starts = runs[i].starts + 1
                /\ \E k \in Leases : BeginRun(k) /\ workers[k].job = i
  BY <1>11 DEF Clear, RolledBack
<1>12. ASSUME NEW l \in Leases, Fail(l)
      PROVE  \/ runs'[i].starts = runs[i].starts
             \/ /\ runs'[i].starts = runs[i].starts + 1
                /\ \E k \in Leases : BeginRun(k) /\ workers[k].job = i
  BY <1>12 DEF Fail, RolledBack
<1>13. ASSUME NEW l \in Leases, RollBack(l)
      PROVE  \/ runs'[i].starts = runs[i].starts
             \/ /\ runs'[i].starts = runs[i].starts + 1
                /\ \E k \in Leases : BeginRun(k) /\ workers[k].job = i
  BY <1>13 DEF RollBack, RolledBack
<1>14. ASSUME NEW l \in Leases, Close(l)
      PROVE  \/ runs'[i].starts = runs[i].starts
             \/ /\ runs'[i].starts = runs[i].starts + 1
                /\ \E k \in Leases : BeginRun(k) /\ workers[k].job = i
  BY <1>14 DEF Close, RolledBack
<1>15. ASSUME NEW l \in Leases, Leave(l)
      PROVE  \/ runs'[i].starts = runs[i].starts
             \/ /\ runs'[i].starts = runs[i].starts + 1
                /\ \E k \in Leases : BeginRun(k) /\ workers[k].job = i
  BY <1>15 DEF Leave, RolledBack
<1> QED BY <1>1, <1>2, <1>3, <1>4, <1>5, <1>6, <1>7, <1>8, <1>9, <1>10, <1>11, <1>12,
     <1>13, <1>14, <1>15, RunsChange

\* What the main loop has in hand is kept.
LEMMA DaemonKept ==
  ASSUME Typed, [Next]_vars
  PROVE  DaemonOK'
<1> USE ResidentAssumption
<1>0. \A l \in Leases : workers'[l].job \in {workers[l].job, None} \/ \E j \in Jobs : Spawn(j, l)
  BY WorkerSteps DEF WorkerStep, Moves, Starts, Spawned, Gone, NoWorker
<1>1. CASE UNCHANGED daemon
  <2>1. \A j \in Jobs, l \in Leases : Spawn(j, l) => daemon'.pc = "lease" /\ daemon.pc = "poll"
    BY DEF Spawn, Typed, TypeOK, Daemon
  <2> QED BY <1>0, <1>1, <2>1 DEF DaemonOK, Typed
<1>2. CASE Launch
  BY <1>2 DEF Launch, Off, DaemonOK, Typed, TypeOK, Daemon
<1>3. ASSUME NEW p \in Pending, RecoverJob(p)
      PROVE  DaemonOK'
  BY <1>3 DEF RecoverJob, DaemonOK, Typed, TypeOK, Daemon
<1>4. CASE Recovered
  BY <1>4 DEF Recovered, DaemonOK, Typed, TypeOK, Daemon
<1>5. CASE Stop
  BY <1>5 DEF Stop, Ends, Off, DaemonOK, Typed, TypeOK, Daemon
<1>6. CASE DaemonDies
  BY <1>6 DEF DaemonDies, Ends, Off, DaemonOK, Typed, TypeOK, Daemon
<1>7. ASSUME NEW j \in Jobs, NEW l \in Leases, Spawn(j, l)
      PROVE  DaemonOK'
  <2>1. workers'[l].job = j
    BY <1>7 DEF Spawn, NextLease, Typed, TypeOK, Worker
  <2> QED BY <1>7, <2>1 DEF Spawn, DaemonOK, Typed, TypeOK, Daemon
<1>8. CASE Grant
  BY <1>8 DEF Grant, DaemonOK, Typed, TypeOK, Daemon
<1>9. CASE GrantFails
  BY <1>9 DEF GrantFails, Ends, Off, DaemonOK, Typed, TypeOK, Daemon
<1>10. CASE Reap
  BY <1>10 DEF Reap, Off, DaemonOK, Typed, TypeOK, Daemon
<1>11. CASE BeginCancelRun
  BY <1>11 DEF BeginCancelRun, CancelsRun, DaemonOK, Typed, TypeOK, Daemon
<1>12. CASE CancelRun
  BY <1>12 DEF CancelRun, DaemonOK, Typed, TypeOK, Daemon
<1>13. CASE Settle
  BY <1>13 DEF Settle, Off, DaemonOK, Typed, TypeOK, Daemon
<1>14. ASSUME NEW c \in Commands, Reply(c)
      PROVE  DaemonOK'
  BY <1>14 DEF Reply, DaemonOK, Typed, TypeOK, Daemon
<1> QED BY <1>1, <1>2, <1>3, <1>4, <1>5, <1>6, <1>7, <1>8, <1>9, <1>10, <1>11, <1>12,
     <1>13, <1>14, DaemonChange

\* The sorts together.
LEMMA TypedStep ==
  ASSUME Typed, [Next]_vars
  PROVE  Typed'
<1>1. faults' \in 0..MaxFaults
  <2>1. faults' = faults \/ (faults < MaxFaults /\ faults' = faults + 1)
    <3>1. CASE UNCHANGED vars \/ Launch \/ Loops
      BY <3>1 DEF vars, Loops, Launch, RecoverJob, Recovered, Stop, Spawn, Grant, GrantFails,
           KillCancelled, Reap, BeginCancelRun, CancelRollsBack, CancelRun, Settle
    <3>2. CASE DaemonDies \/ \E l \in Leases : WorkerDies(l)
      BY <3>2 DEF DaemonDies, WorkerDies
    <3>3. ASSUME NEW l \in Leases, Work(l)
          PROVE  UNCHANGED faults
      BY <3>3 DEF Work, Start, BeginRun, ResumeRun, Emit, Save, Prepare, Write, Apply, Pause,
           Complete, Clear, Fail, RollBack, Close, Leave, Report, Raise
    <3>4. ASSUME NEW c \in Commands, Ask(c) \/ Serve(c)
          PROVE  UNCHANGED faults
      BY <3>4 DEF Ask, Serve, Admit, AskSubmit, AskStop, AskCancel, AskResume, Submit, Cancel,
           CancelChecks, CancelKills, Resume, PrepareStop, Reply
    <3> QED BY <3>1, <3>2, <3>3, <3>4 DEF Next
  <2> QED BY <2>1, ResidentAssumption DEF Typed, TypeOK
<1> QED BY <1>1, JobsTyped, RunsTyped, WorkersTyped, DaemonTyped, CallsTyped, DaemonKept DEF
     Typed, TypeOK

LEMMA TypedInit == Init => Typed
<1> SUFFICES ASSUME Init PROVE Typed
  OBVIOUS
<1> USE ResidentAssumption DEF Init, None
<1>1. jobs \in [Jobs -> Job]
  <2>1. NoJob \in Job /\ Queued \in Job
    BY DEF NoJob, Queued, Job, States
  <2> QED BY <2>1
<1>2. runs \in [Jobs -> Run]
  <2>1. NoRun \in Run
    BY DEF NoRun, Run
  <2> QED BY <2>1
<1>3. workers \in [Leases -> Worker] /\ WorkersOK
  <2>1. NoWorker \in Worker /\ WorkerOK(NoWorker)
    BY DEF NoWorker, Worker, WorkerOK
  <2> QED BY <2>1 DEF WorkersOK
<1>4. daemon \in Daemon /\ DaemonOK
  BY DEF Off, Daemon, DaemonOK
<1>5. calls \in [Commands -> Call] /\ CallsOK
  <2>1. NoCall \in Call /\ CallOK(NoCall)
    BY DEF NoCall, Call, CallOK, States
  <2> QED BY <2>1 DEF CallsOK
<1> QED BY <1>1, <1>2, <1>3, <1>4, <1>5 DEF Typed, TypeOK

--------------------------------------------------------------------------------
(* Who watches a running job.                                                 *)
LEMMA WatchedStep ==
  ASSUME Typed, Watched, [Next]_vars
  PROVE  Watched'
<1> USE DEF Watched, AuditComplete, RunningIsWatched, Serving, Loop
<1>0. \A j \in Jobs : jobs'[j].state = "running" =>
        \/ Granted(j)
        \/ jobs[j].state = "running" /\ jobs'[j].lease = jobs[j].lease
  BY JobSteps DEF JobStep
<1>1. CASE UNCHANGED daemon
  <2>1. ~Grant
    BY <1>1 DEF Grant, Typed, TypeOK, Daemon
  <2> QED BY <1>0, <1>1, <2>1 DEF Granted
<1>2. CASE Launch
  <2>1. ~Grant /\ UNCHANGED jobs /\ daemon'.pc = "recover" /\ daemon'.pending = Audited
    BY <1>2 DEF Launch, Grant, Off
  <2>2. \A j \in Jobs : jobs[j].state = "running" => \E p \in Audited : p.job = j
    <3>1. ASSUME NEW j \in Jobs, jobs[j].state = "running"
          PROVE  [job |-> j, bound |-> jobs[j].bound] \in Audited
      BY <3>1 DEF Audited
    <3>2. \A j \in Jobs : [job |-> j, bound |-> jobs[j].bound].job = j
      OBVIOUS
    <3> QED BY <3>1, <3>2
  <2> QED BY <2>1, <2>2
<1>3. ASSUME NEW p \in Pending, RecoverJob(p)
      PROVE  Watched'
  <2>1. p \in Pending /\ jobs'[p.job].state # "running" /\ ~Grant
    BY <1>3 DEF RecoverJob, Finished, Confirmed, Grant, Pending, Typed, TypeOK, Job
  <2> QED BY <1>0, <1>3, <2>1 DEF RecoverJob, Granted, Typed, TypeOK, Daemon
<1>4. CASE Recovered
  <2>1. ~Grant
    BY <1>4 DEF Grant, Recovered, Typed, TypeOK, Daemon
  <2> QED BY <1>0, <1>4, <2>1 DEF Granted, Recovered, DaemonOK, Typed, TypeOK, Daemon
<1>5. CASE Stop
  BY <1>5 DEF Stop, Ends, Off
<1>6. CASE DaemonDies
  BY <1>6 DEF DaemonDies, Ends, Off
<1>7. ASSUME NEW j \in Jobs, NEW l \in Leases, Spawn(j, l)
      PROVE  Watched'
  <2>1. ~Grant /\ daemon.worker = None
    BY <1>7 DEF Spawn, Grant, DaemonOK, Typed
  <2> QED BY <1>0, <1>7, <2>1 DEF Spawn, Granted
<1>8. CASE Grant
  <2>1. daemon.worker = None /\ daemon.child \in Leases /\ daemon.child # None
    BY <1>8, ResidentAssumption DEF Grant, DaemonOK, Typed, None
  <2>2. \A j \in Jobs : jobs'[j].state = "running" =>
          j = daemon.job /\ jobs'[j].lease = daemon.child
    BY <1>0, <1>8, <2>1 DEF Grant, Granted
  <2>3. daemon'.pc = "watch" /\ daemon'.job = daemon.job /\ daemon'.worker = daemon.child
    BY <1>8 DEF Grant, Typed, TypeOK, Daemon
  <2> QED BY <2>1, <2>2, <2>3
<1>9. CASE GrantFails
  BY <1>9 DEF GrantFails, Ends, Off
<1>10. CASE Reap
  <2>1. ~Grant
    BY <1>10 DEF Grant, Reap, Typed, TypeOK, Daemon
  <2> QED BY <1>0, <1>10, <2>1 DEF Granted, Reap, Off, DaemonOK, Typed, TypeOK, Daemon
<1>11. CASE BeginCancelRun
  <2>1. ~Grant
    BY <1>11 DEF Grant, BeginCancelRun, Typed, TypeOK, Daemon
  <2> QED BY <1>0, <1>11, <2>1 DEF Granted, BeginCancelRun, DaemonOK, Typed, TypeOK, Daemon
<1>12. CASE CancelRun
  <2>1. ~Grant
    BY <1>12 DEF Grant, CancelRun, Typed, TypeOK, Daemon
  <2> QED BY <1>0, <1>12, <2>1 DEF Granted, CancelRun, DaemonOK, Typed, TypeOK, Daemon
<1>13. CASE Settle
  <2>1. ~Grant /\ daemon.job \in Jobs /\ daemon.verdict \in {"cancelled", "resume_ready", "uncertain"}
    BY <1>13 DEF Settle, Grant, DaemonOK, Typed, TypeOK, Daemon
  <2>2. jobs'[daemon.job].state # "running"
    BY <1>13, <2>1 DEF Settle, Finished, SettledAs, Typed, TypeOK, Job
  <2> QED BY <1>0, <1>13, <2>1, <2>2 DEF Settle, Granted, Off, Typed, TypeOK
<1>14. ASSUME NEW c \in Commands, Reply(c)
      PROVE  Watched'
  <2>1. ~Grant
    BY <1>14 DEF Grant, Reply, Typed, TypeOK, Daemon
  <2> QED BY <1>0, <1>14, <2>1 DEF Granted, Reply, DaemonOK, Typed, TypeOK, Daemon
<1> QED BY <1>1, <1>2, <1>3, <1>4, <1>5, <1>6, <1>7, <1>8, <1>9, <1>10, <1>11, <1>12,
     <1>13, <1>14, DaemonChange

--------------------------------------------------------------------------------
(* How often a task is begun.                                                 *)
LEMMA OwedIsLost ==
  ASSUME Typed, BeginOnce, [Next]_vars, NEW j \in Jobs, Owed(j)'
  PROVE  Owed(j)
<1> USE DEF Owed
<1>1. jobs'[j].mode = "run" /\ JobStep(j)
  BY JobSteps
<1>2. CASE jobs'[j].state \in {"absent", "queued"}
  BY <1>1, <1>2 DEF JobStep, BeginOnce
<1>3. CASE jobs'[j].state = "running"
  <2>1. CASE Granted(j)
    BY <1>1, <2>1 DEF Granted
  <2>2. CASE jobs[j].state = "running" /\ jobs'[j].lease = jobs[j].lease /\ jobs'[j].mode = jobs[j].mode
    <3> DEFINE l == jobs[j].lease
    <3>1. l \in Leases /\ workers'[l].pc = "polling" /\ workers'[l].job = j
      BY <1>3, <2>2
    <3>2. ASSUME Spawned(l) PROVE FALSE
      <4>1. PICK i \in Jobs : Spawn(i, l)
        BY <3>2 DEF Spawned
      <4>2. workers'[l].job = i
        BY <3>1, <4>1 DEF Spawn, Typed, TypeOK, Worker
      <4> QED BY <2>2, <3>1, <4>1, <4>2 DEF Spawn, Oldest
    <3>3. workers'[l] = workers[l]
      BY <3>1, <3>2, WorkerSteps DEF WorkerStep, Gone, NoWorker, Moves, Starts, Placed,
           Inside
    <3> QED BY <1>1, <2>2, <3>1, <3>3
  <2> QED BY <1>1, <1>3, <2>1, <2>2 DEF JobStep
<1> QED BY <1>2, <1>3

\* A worker that starts was owed its task, and it alone.
LEMMA StartsOwed ==
  ASSUME Typed, NEW l \in Leases, Starts(l), workers'[l].mode = "run",
         NEW j \in Jobs, workers[l].job = j
  PROVE  Owed(j) /\ ~Owed(j)' /\ UNCHANGED <<jobs, runs>>
<1>2. UNCHANGED <<jobs, runs>>
  BY DEF Starts, Start
<1> QED BY <1>2 DEF Starts, Start, Holds, Owed

\* Nobody is owed a task, or starts with it, once it was begun.
LEMMA BeginOnceStep ==
  ASSUME Typed, BeginOnce, [Next]_vars
  PROVE  BeginOnce'
<1>0. /\ \A j \in Jobs : Owed(j)' => Owed(j)
      /\ \A l \in Leases : WorkerStep(l)
      /\ \A j \in Jobs : JobStep(j)
  BY OwedIsLost, WorkerSteps, JobSteps
<1>1. ASSUME NEW l \in Leases, workers'[l].mode = "run"
      PROVE  /\ workers[l].job \in Jobs /\ workers'[l].job = workers[l].job
             /\ \/ workers[l].mode = "run" /\ (workers'[l] = workers[l] \/ workers'[l].pc # "entering")
                \/ Starts(l)
  <2>1. Starts(l) \/ Moves(l) \/ workers'[l] = workers[l]
    BY <1>0, <1>1 DEF WorkerStep, Gone, NoWorker, Spawned
  <2>2. workers[l].pc \notin {"none", "gone"}
    BY <2>1, <1>1, WorkerRow DEF Starts, Start, Moves, Placed, Inside, WorkerOK
  <2> QED BY <1>1, <2>1, <2>2, WorkerRow DEF Starts, Moves
<1>2. \A j \in Jobs : jobs'[j].state = "absent" => jobs'[j].mode = "run"
  BY <1>0 DEF JobStep, BeginOnce
<1>3. ASSUME NEW j \in Jobs, Owed(j)'
      PROVE  runs'[j].starts = 0
  <2>1. Owed(j) /\ runs[j].starts = 0
    BY <1>0, <1>3 DEF BeginOnce
  <2>2. \A l \in Leases : BeginRun(l) => workers[l].job # j
    BY <2>1 DEF BeginRun, BeginOnce
  <2> QED BY <2>1, <2>2, StartsCounted
<1>4. ASSUME NEW l \in Leases, NEW j \in Jobs, workers'[l].mode = "run", workers'[l].job = j
      PROVE  ~Owed(j)'
  BY <1>0, <1>1, <1>4, StartsOwed DEF BeginOnce
<1>5. ASSUME NEW l \in Leases, workers'[l].mode = "run", workers'[l].pc = "entering"
      PROVE  runs'[workers'[l].job].starts = 0
  <2>1. CASE Starts(l)
    BY <1>1, <1>5, <2>1, StartsOwed DEF BeginOnce
  <2>2. CASE workers[l].mode = "run" /\ workers'[l] = workers[l]
    <3>1. runs[workers[l].job].starts = 0
      BY <1>5, <2>2 DEF BeginOnce
    <3>2. ASSUME NEW k \in Leases, BeginRun(k), workers[k].job = workers[l].job
          PROVE  FALSE
      <4>1. k = l
        BY <2>2, <3>2 DEF BeginRun, BeginOnce
      <4> QED BY <1>5, <3>2, <4>1 DEF BeginRun, Move, Typed, TypeOK, Worker
    <3> QED BY <1>1, <1>5, <2>2, <3>1, <3>2, StartsCounted
  <2> QED BY <1>1, <1>5, <2>1, <2>2
<1>6. ASSUME NEW k \in Leases, NEW l \in Leases, workers'[k].mode = "run",
             workers'[l].mode = "run", workers'[k].job = workers'[l].job
      PROVE  k = l
  <2>1. CASE workers[k].mode = "run" /\ workers[l].mode = "run"
    BY <1>1, <1>6, <2>1 DEF BeginOnce
  <2>2. CASE Starts(k) /\ workers[l].mode = "run"
    BY <1>1, <1>6, <2>2, StartsOwed DEF BeginOnce
  <2>3. CASE workers[k].mode = "run" /\ Starts(l)
    BY <1>1, <1>6, <2>3, StartsOwed DEF BeginOnce
  <2>4. CASE Starts(k) /\ Starts(l)
    <3>1. jobs[workers[k].job].lease = k /\ jobs[workers[l].job].lease = l
      BY <2>4 DEF Starts, Holds
    <3>2. workers[k].job = workers[l].job
      BY <1>6, <2>4 DEF Starts
    <3> QED BY <3>1, <3>2
  <2> QED BY <1>1, <1>6, <2>1, <2>2, <2>3, <2>4
<1>7. ASSUME NEW j \in Jobs
      PROVE  runs'[j].starts <= 1
  <2>1. runs[j].starts \in Nat /\ runs[j].starts <= 1
    BY DEF BeginOnce, Typed, TypeOK, Run
  <2>2. \A l \in Leases : BeginRun(l) /\ workers[l].job = j => runs[j].starts = 0
    BY DEF BeginRun, BeginOnce
  <2>3. runs'[j].starts = runs[j].starts \/ (runs[j].starts = 0 /\ runs'[j].starts = runs[j].starts + 1)
    BY <2>2, StartsCounted
  <2> QED BY <2>1, <2>3
<1>8. \A l \in Leases : workers'[l].mode = "run" => ~Owed(workers[l].job)'
  BY <1>1, <1>4 DEF Owed
<1> QED BY <1>2, <1>3, <1>5, <1>6, <1>7, <1>8 DEF BeginOnce
--------------------------------------------------------------------------------
(* Who holds the lock acts alone.                                             *)
HolderStep(l) ==
    \/ Emit(l) \/ Save(l) \/ Prepare(l) \/ Write(l) \/ Apply(l) \/ Pause(l)
    \/ Complete(l) \/ Clear(l) \/ Fail(l) \/ RollBack(l) \/ Close(l) \/ Leave(l)

LEMMA HolderActs ==
  ASSUME Typed, LockHeldOnce, [Next]_vars, NEW l \in Leases, workers[l].pc \in Inside
  PROVE  HolderStep(l) \/ (UNCHANGED runs /\ workers'[l] \in {workers[l], Gone})
<1>1. /\ ~CancelRollsBack /\ ~CancelRun
      /\ \A k \in Leases : ~BeginRun(k)
  BY DEF LockHeldOnce, CancelRollsBack, CancelRun, BeginRun, LockFree, Typed, TypeOK, Daemon
<1>2. \A k \in Leases : k # l => workers[k].pc \notin Inside
  BY DEF LockHeldOnce
<1>3. \A k \in Leases : HolderStep(k) => k = l
  BY <1>2 DEF HolderStep, Inside, Emit, Save, Prepare, Write, Apply, Pause, Complete,
       Clear, Fail, RollBack, Close, Leave
<1>4. CASE UNCHANGED runs
  <2>1. ASSUME NEW k \in Leases,
               Start(k) \/ BeginRun(k) \/ ResumeRun(k) \/ Report(k) \/ Raise(k)
        PROVE  workers'[l] = workers[l]
    <3>1. k # l
      BY <2>1 DEF Inside, Start, BeginRun, ResumeRun, Report, Raise
    <3> QED BY <2>1, <3>1 DEF Start, BeginRun, ResumeRun, Report, Raise, Exit, Killed,
         Move, Typed, TypeOK
  <2>2. ASSUME NEW k \in Leases, NEW j \in Jobs, Spawn(j, k)
        PROVE  workers'[l] = workers[l]
    BY <2>2 DEF Spawn, NextLease, Inside, Typed, TypeOK
  <2>3. ASSUME \/ Stop \/ DaemonDies \/ GrantFails \/ KillCancelled \/ (\E k \in Leases : WorkerDies(k))
               \/ (\E c \in Commands : CancelKills(c) \/ PrepareStop(c))
        PROVE  workers'[l] \in {workers[l], Gone}
    BY <2>3 DEF Stop, DaemonDies, GrantFails, KillCancelled, WorkerDies, CancelKills,
         PrepareStop, Exit, Killed, Typed, TypeOK
  <2> QED BY <1>3, <1>4, <2>1, <2>2, <2>3, WorkersChange DEF HolderStep
<1> QED BY <1>1, <1>3, <1>4, RunsChange DEF HolderStep

\* Who does not hold it comes to hold it, or to have a result, only by entering.
LEMMA OutsiderActs ==
  ASSUME Typed, [Next]_vars, NEW l \in Leases, workers[l].pc \notin Inside
  PROVE  \/ BeginRun(l) \/ ResumeRun(l) \/ workers'[l] = workers[l]
         \/ workers'[l].pc \notin Inside \cup {"reporting"}

<1>1. CASE UNCHANGED workers
  BY <1>1
<1>2. CASE Stop
  BY <1>2 DEF Stop, Killed, Gone, NoWorker, Inside, Typed, TypeOK, DaemonOK, Daemon
<1>3. CASE DaemonDies
  BY <1>3 DEF DaemonDies, Killed, Gone, NoWorker, Inside, Typed, TypeOK, DaemonOK, Daemon
<1>4. ASSUME NEW j \in Jobs, NEW k \in Leases, Spawn(j, k)
      PROVE  \/ BeginRun(l) \/ ResumeRun(l) \/ workers'[l] = workers[l]
             \/ workers'[l].pc \notin Inside \cup {"reporting"}
  BY <1>4 DEF Spawn, Inside, Typed, TypeOK, Worker
<1>5. CASE GrantFails
  BY <1>5 DEF GrantFails, Killed, Gone, NoWorker, Inside, Typed, TypeOK, DaemonOK, Daemon
<1>6. CASE KillCancelled
  BY <1>6 DEF KillCancelled, Killed, Gone, NoWorker, Inside, Typed, TypeOK, DaemonOK, Daemon
<1>7. ASSUME NEW k \in Leases, Start(k)
      PROVE  \/ BeginRun(l) \/ ResumeRun(l) \/ workers'[l] = workers[l]
             \/ workers'[l].pc \notin Inside \cup {"reporting"}
  BY <1>7 DEF Start, Exit, Killed, Gone, NoWorker, Inside, Typed, TypeOK, Worker
<1>8. ASSUME NEW k \in Leases, BeginRun(k)
      PROVE  \/ BeginRun(l) \/ ResumeRun(l) \/ workers'[l] = workers[l]
             \/ workers'[l].pc \notin Inside \cup {"reporting"}
  BY <1>8 DEF BeginRun, Move, Typed, TypeOK
<1>9. ASSUME NEW k \in Leases, ResumeRun(k)
      PROVE  \/ BeginRun(l) \/ ResumeRun(l) \/ workers'[l] = workers[l]
             \/ workers'[l].pc \notin Inside \cup {"reporting"}
  BY <1>9 DEF ResumeRun, Move, Typed, TypeOK
<1>10. ASSUME NEW k \in Leases, Emit(k)
      PROVE  \/ BeginRun(l) \/ ResumeRun(l) \/ workers'[l] = workers[l]
             \/ workers'[l].pc \notin Inside \cup {"reporting"}
  BY <1>10 DEF Emit, Move, Inside, Typed, TypeOK
<1>11. ASSUME NEW k \in Leases, Save(k)
      PROVE  \/ BeginRun(l) \/ ResumeRun(l) \/ workers'[l] = workers[l]
             \/ workers'[l].pc \notin Inside \cup {"reporting"}
  BY <1>11 DEF Save, Move, Inside, Typed, TypeOK
<1>12. ASSUME NEW k \in Leases, Prepare(k)
      PROVE  \/ BeginRun(l) \/ ResumeRun(l) \/ workers'[l] = workers[l]
             \/ workers'[l].pc \notin Inside \cup {"reporting"}
  BY <1>12 DEF Prepare, Move, Inside, Typed, TypeOK
<1>13. ASSUME NEW k \in Leases, Apply(k)
      PROVE  \/ BeginRun(l) \/ ResumeRun(l) \/ workers'[l] = workers[l]
             \/ workers'[l].pc \notin Inside \cup {"reporting"}
  BY <1>13 DEF Apply, Move, Inside, Typed, TypeOK
<1>14. ASSUME NEW k \in Leases, Pause(k)
      PROVE  \/ BeginRun(l) \/ ResumeRun(l) \/ workers'[l] = workers[l]
             \/ workers'[l].pc \notin Inside \cup {"reporting"}
  BY <1>14 DEF Pause, Move, Inside, Typed, TypeOK
<1>15. ASSUME NEW k \in Leases, Complete(k)
      PROVE  \/ BeginRun(l) \/ ResumeRun(l) \/ workers'[l] = workers[l]
             \/ workers'[l].pc \notin Inside \cup {"reporting"}
  BY <1>15 DEF Complete, Move, Inside, Typed, TypeOK
<1>16. ASSUME NEW k \in Leases, Clear(k)
      PROVE  \/ BeginRun(l) \/ ResumeRun(l) \/ workers'[l] = workers[l]
             \/ workers'[l].pc \notin Inside \cup {"reporting"}
  BY <1>16 DEF Clear, Move, Inside, Typed, TypeOK
<1>17. ASSUME NEW k \in Leases, Fail(k)
      PROVE  \/ BeginRun(l) \/ ResumeRun(l) \/ workers'[l] = workers[l]
             \/ workers'[l].pc \notin Inside \cup {"reporting"}
  BY <1>17 DEF Fail, Move, Inside, Typed, TypeOK
<1>18. ASSUME NEW k \in Leases, Close(k)
      PROVE  \/ BeginRun(l) \/ ResumeRun(l) \/ workers'[l] = workers[l]
             \/ workers'[l].pc \notin Inside \cup {"reporting"}
  BY <1>18 DEF Close, Move, Inside, Typed, TypeOK
<1>19. ASSUME NEW k \in Leases, Leave(k)
      PROVE  \/ BeginRun(l) \/ ResumeRun(l) \/ workers'[l] = workers[l]
             \/ workers'[l].pc \notin Inside \cup {"reporting"}
  BY <1>19 DEF Leave, Move, Inside, Typed, TypeOK
<1>20. ASSUME NEW k \in Leases, Report(k)
      PROVE  \/ BeginRun(l) \/ ResumeRun(l) \/ workers'[l] = workers[l]
             \/ workers'[l].pc \notin Inside \cup {"reporting"}
  BY <1>20 DEF Report, Exit, Killed, Gone, NoWorker, Move, Inside, Typed, TypeOK, Worker
<1>21. ASSUME NEW k \in Leases, Raise(k)
      PROVE  \/ BeginRun(l) \/ ResumeRun(l) \/ workers'[l] = workers[l]
             \/ workers'[l].pc \notin Inside \cup {"reporting"}
  BY <1>21 DEF Raise, Exit, Killed, Gone, NoWorker, Inside, Typed, TypeOK
<1>22. ASSUME NEW k \in Leases, WorkerDies(k)
      PROVE  \/ BeginRun(l) \/ ResumeRun(l) \/ workers'[l] = workers[l]
             \/ workers'[l].pc \notin Inside \cup {"reporting"}
  BY <1>22 DEF WorkerDies, Exit, Killed, Gone, NoWorker, Inside, Typed, TypeOK
<1>23. ASSUME NEW c \in Commands, CancelKills(c)
      PROVE  \/ BeginRun(l) \/ ResumeRun(l) \/ workers'[l] = workers[l]
             \/ workers'[l].pc \notin Inside \cup {"reporting"}
  BY <1>23 DEF CancelKills, Killed, Gone, NoWorker, Inside, Typed, TypeOK, DaemonOK, Daemon
<1>24. ASSUME NEW c \in Commands, PrepareStop(c)
      PROVE  \/ BeginRun(l) \/ ResumeRun(l) \/ workers'[l] = workers[l]
             \/ workers'[l].pc \notin Inside \cup {"reporting"}
  BY <1>24 DEF PrepareStop, Killed, Gone, NoWorker, Inside, Typed, TypeOK, DaemonOK, Daemon
<1> QED BY <1>1, <1>2, <1>3, <1>4, <1>5, <1>6, <1>7, <1>8, <1>9, <1>10, <1>11, <1>12,
     <1>13, <1>14, <1>15, <1>16, <1>17, <1>18, <1>19, <1>20, <1>21, <1>22, <1>23, <1>24,
     WorkersChange

--------------------------------------------------------------------------------
(* What a step may do to a run.                                               *)
Begins(run, new) ==
    /\ run.starts = 0 /\ new.starts = 1 /\ new.state = "begun"
    /\ new.files = run.files /\ new.checkpoint = run.checkpoint
Works(run, new, job) ==
    /\ run.state \notin Reported /\ new.state \in {run.state, "paused"}
    /\ run.checkpoint = TRUE => new.checkpoint = TRUE
    /\ \/ new.files = run.files
       \/ run.files # "before"
       \/ run.checkpoint = TRUE /\ job.bound = TRUE
Closes(run, new) ==
    /\ run.state \notin Reported /\ new.files = run.files
    /\ \/ new.state = "complete" /\ run.files \in {"before", "applied"}
       \/ new.state = "failed" /\ run.files \in {"before", "undone", "half"}
       \/ new.state = "cancelled" /\ run.files \in {"before", "undone"}
Clears(run, new) == run.state \in Reported /\ new.state = run.state /\ new.files = run.files
RunStep(run, new, job) ==
    \/ new = run
    \/ Begins(run, new)
    \/ /\ run.starts # 0 /\ new.starts = run.starts
       /\ Works(run, new, job) \/ Closes(run, new) \/ Clears(run, new)

LEMMA RunSteps ==
  ASSUME Typed, BeginOnce, Locked, [Next]_vars, NEW j \in Jobs
  PROVE  RunStep(runs[j], runs'[j], jobs[j])
<1>0. /\ runs[j] \in Run /\ RunOK(runs[j], jobs[j])
      /\ \A l \in Leases : workers[l].job = j => Knows(workers[l], runs[j], jobs[j])
  BY DEF Typed, TypeOK, Locked, RunsOK, WorkersKnow
<1>1. CASE UNCHANGED runs
  BY <1>1 DEF RunStep
<1>2. CASE CancelRollsBack
  <2>1. CASE daemon.job # j
    BY <1>2, <2>1 DEF CancelRollsBack, RolledBack, RunStep, Typed, TypeOK
  <2>2. CASE daemon.job = j
    BY <1>0, <1>2, <2>2 DEF CancelRollsBack, RolledBack, ToUndo, Locked, DaemonKnows,
         RunOK, RunStep, Works, Reported, Typed, TypeOK, Run
  <2> QED BY <2>1, <2>2
<1>3. CASE CancelRun
  <2>1. CASE daemon.job # j
    BY <1>3, <2>1 DEF CancelRun, RunStep, Typed, TypeOK
  <2>2. CASE daemon.job = j
    BY <1>0, <1>3, <2>2 DEF CancelRun, ToUndo, Locked, DaemonKnows, RunOK, RunStep, Closes,
         Clears, Reported, Open, Typed, TypeOK, Run
  <2> QED BY <2>1, <2>2
<1>4. ASSUME NEW l \in Leases, BeginRun(l)
      PROVE  RunStep(runs[j], runs'[j], jobs[j])
  <2>1. CASE workers[l].job # j
    BY <1>4, <2>1 DEF BeginRun, RunStep, Typed, TypeOK
  <2>2. CASE workers[l].job = j
    <3>1. runs[j].starts = 0
      BY <1>4, <2>2 DEF BeginRun, BeginOnce
    <3> QED BY <1>0, <1>4, <2>2, <3>1 DEF BeginRun, RunStep, Begins, Typed, TypeOK, Run
  <2> QED BY <2>1, <2>2
<1>5. ASSUME NEW l \in Leases, Save(l)
      PROVE  RunStep(runs[j], runs'[j], jobs[j])
  <2>1. CASE workers[l].job # j
    BY <1>5, <2>1 DEF Save, RunStep, Typed, TypeOK
  <2>2. CASE workers[l].job = j
    BY <1>0, <1>5, <2>2 DEF Save, Knows, Inside, Reported, RunStep, Works, Closes, Clears,
         Typed, TypeOK
  <2> QED BY <2>1, <2>2
<1>6. ASSUME NEW l \in Leases, Prepare(l)
      PROVE  RunStep(runs[j], runs'[j], jobs[j])
  <2>1. CASE workers[l].job # j
    BY <1>6, <2>1 DEF Prepare, RunStep, Typed, TypeOK
  <2>2. CASE workers[l].job = j
    BY <1>0, <1>6, <2>2 DEF Prepare, Knows, Inside, Reported, RunStep, Works, Closes,
         Clears, Typed, TypeOK
  <2> QED BY <2>1, <2>2
<1>7. ASSUME NEW l \in Leases, Write(l)
      PROVE  RunStep(runs[j], runs'[j], jobs[j])
  <2>1. CASE workers[l].job # j
    BY <1>7, <2>1 DEF Write, RunStep, Typed, TypeOK
  <2>2. CASE workers[l].job = j
    BY <1>0, <1>7, <2>2 DEF Write, Knows, Inside, Reported, RunStep, Works, Closes, Clears,
         Typed, TypeOK
  <2> QED BY <2>1, <2>2
<1>8. ASSUME NEW l \in Leases, Apply(l)
      PROVE  RunStep(runs[j], runs'[j], jobs[j])
  <2>1. CASE workers[l].job # j
    BY <1>8, <2>1 DEF Apply, RunStep, Typed, TypeOK
  <2>2. CASE workers[l].job = j
    BY <1>0, <1>8, <2>2 DEF Apply, Knows, Inside, Reported, RunStep, Works, Closes, Clears,
         Typed, TypeOK
  <2> QED BY <2>1, <2>2
<1>9. ASSUME NEW l \in Leases, Pause(l)
      PROVE  RunStep(runs[j], runs'[j], jobs[j])
  <2>1. CASE workers[l].job # j
    BY <1>9, <2>1 DEF Pause, RunStep, Typed, TypeOK
  <2>2. CASE workers[l].job = j
    BY <1>0, <1>9, <2>2 DEF Pause, Knows, Inside, Reported, RunStep, Works, Closes, Clears,
         Typed, TypeOK
  <2> QED BY <2>1, <2>2
<1>10. ASSUME NEW l \in Leases, Complete(l)
      PROVE  RunStep(runs[j], runs'[j], jobs[j])
  <2>1. CASE workers[l].job # j
    BY <1>10, <2>1 DEF Complete, RunStep, Typed, TypeOK
  <2>2. CASE workers[l].job = j
    BY <1>0, <1>10, <2>2 DEF Complete, Knows, Inside, Reported, RunStep, Works, Closes,
         Clears, Typed, TypeOK
  <2> QED BY <2>1, <2>2
<1>11. ASSUME NEW l \in Leases, Clear(l)
      PROVE  RunStep(runs[j], runs'[j], jobs[j])
  <2>1. CASE workers[l].job # j
    BY <1>11, <2>1 DEF Clear, RunStep, Typed, TypeOK
  <2>2. CASE workers[l].job = j
    BY <1>0, <1>11, <2>2 DEF Clear, Knows, Inside, Reported, RunStep, Works, Closes,
         Clears, Typed, TypeOK
  <2> QED BY <2>1, <2>2
<1>12. ASSUME NEW l \in Leases, Fail(l)
      PROVE  RunStep(runs[j], runs'[j], jobs[j])
  <2>1. CASE workers[l].job # j
    BY <1>12, <2>1 DEF Fail, RunStep, Typed, TypeOK
  <2>2. CASE workers[l].job = j
    BY <1>0, <1>12, <2>2 DEF Fail, Knows, Inside, Reported, RunStep, Works, Closes, Clears,
         Typed, TypeOK
  <2> QED BY <2>1, <2>2
<1>13. ASSUME NEW l \in Leases, RollBack(l)
      PROVE  RunStep(runs[j], runs'[j], jobs[j])
  <2>1. CASE workers[l].job # j
    BY <1>13, <2>1 DEF RollBack, RolledBack, RunStep, Typed, TypeOK
  <2>2. CASE workers[l].job = j
    BY <1>0, <1>13, <2>2 DEF RollBack, Knows, Inside, Reported, RunStep, Works, Closes,
         Clears, Typed, TypeOK, RolledBack, ToUndo, Open
  <2> QED BY <2>1, <2>2
<1>14. ASSUME NEW l \in Leases, Close(l)
      PROVE  RunStep(runs[j], runs'[j], jobs[j])
  <2>1. CASE workers[l].job # j
    BY <1>14, <2>1 DEF Close, RunStep, Typed, TypeOK
  <2>2. CASE workers[l].job = j
    BY <1>0, <1>14, <2>2 DEF Close, Knows, Inside, Reported, RunStep, Works, Closes,
         Clears, Typed, TypeOK, ToUndo, Open, Run
  <2> QED BY <2>1, <2>2
<1>15. ASSUME NEW l \in Leases, Leave(l)
      PROVE  RunStep(runs[j], runs'[j], jobs[j])
  <2>1. CASE runs' = runs
    BY <2>1 DEF RunStep
  <2>2. CASE workers[l].job # j /\ runs' = [runs EXCEPT ![workers[l].job].checkpoint = FALSE]
    BY <2>2 DEF RunStep, Typed, TypeOK
  <2>3. CASE workers[l].job = j /\ runs' = [runs EXCEPT ![workers[l].job].checkpoint = FALSE]
    <3>1. runs[j].state = "failed" /\ runs[j].starts # 0
      BY <1>0, <1>15, <2>3 DEF Leave, Knows, Inside
    <3>2. /\ runs'[j].state = runs[j].state /\ runs'[j].files = runs[j].files
          /\ runs'[j].starts = runs[j].starts
      BY <2>3 DEF Typed, TypeOK, Run
    <3> QED BY <3>1, <3>2 DEF RunStep, Clears, Reported
  <2> QED BY <1>15, <2>1, <2>2, <2>3 DEF Leave
<1> QED BY <1>1, <1>2, <1>3, <1>4, <1>5, <1>6, <1>7, <1>8, <1>9, <1>10, <1>11, <1>12,
     <1>13, <1>14, <1>15, RunsChange

\* What stays: a run that was begun stays begun, one that is closed stays closed,
\* and what can be resumed can be until it has something to report.
LEMMA RunStays ==
  ASSUME Typed, BeginOnce, Locked, [Next]_vars, NEW j \in Jobs
  PROVE  /\ runs[j].starts # 0 => runs'[j].starts # 0
         /\ runs[j].state \in Reported => runs'[j].state = runs[j].state /\ runs'[j].files = runs[j].files
         /\ runs[j].checkpoint = TRUE \/ runs[j].state \in Reported =>
               runs'[j].checkpoint = TRUE \/ runs'[j].state \in Reported
<1>1. /\ RunStep(runs[j], runs'[j], jobs[j]) /\ runs[j] \in Run
      /\ runs[j].starts = 0 => runs[j].state = "none" /\ runs[j].checkpoint = FALSE
  BY RunSteps DEF Typed, TypeOK, Locked, RunsOK, RunOK
<1> QED BY <1>1 DEF RunStep, Begins, Works, Closes, Clears, Reported

\* A run stays bound, and is bound while its job runs.
LEMMA BoundStays ==
  ASSUME Typed, RunsOK, [Next]_vars, NEW j \in Jobs
  PROVE  /\ jobs[j].bound = TRUE => jobs'[j].bound = TRUE
         /\ jobs[j].bound = FALSE /\ jobs'[j].bound = TRUE => jobs[j].state = "running"
<1> USE DEF Typed, TypeOK
<1>1. CASE UNCHANGED jobs
  BY <1>1
<1>2. ASSUME NEW p \in Pending, RecoverJob(p)
      PROVE  /\ jobs[j].bound = TRUE => jobs'[j].bound = TRUE
             /\ jobs[j].bound = FALSE /\ jobs'[j].bound = TRUE => jobs[j].state = "running"
  BY <1>2 DEF RecoverJob, Job, Finished
<1>3. CASE Grant
  BY <1>3 DEF Grant, Job
<1>4. CASE Settle
  BY <1>4 DEF Settle, Job, Finished
<1>5. ASSUME NEW l \in Leases, Emit(l)
      PROVE  /\ jobs[j].bound = TRUE => jobs'[j].bound = TRUE
             /\ jobs[j].bound = FALSE /\ jobs'[j].bound = TRUE => jobs[j].state = "running"
  <2>1. CASE jobs' = jobs
    BY <2>1
  <2>2. CASE Holds(l) /\ jobs' = [jobs EXCEPT ![workers[l].job].bound = TRUE]
    BY <2>2 DEF Holds
  <2> QED BY <1>5, <2>1, <2>2 DEF Emit
<1>6. ASSUME NEW l \in Leases, Leave(l)
      PROVE  /\ jobs[j].bound = TRUE => jobs'[j].bound = TRUE
             /\ jobs[j].bound = FALSE /\ jobs'[j].bound = TRUE => jobs[j].state = "running"
  <2>1. CASE jobs' = jobs
    BY <2>1
  <2>2. CASE Holds(l) /\ jobs' = [jobs EXCEPT ![workers[l].job].bound = TRUE]
    BY <2>2 DEF Holds
  <2> QED BY <1>6, <2>1, <2>2 DEF Leave
<1>7. ASSUME NEW l \in Leases, Report(l)
      PROVE  /\ jobs[j].bound = TRUE => jobs'[j].bound = TRUE
             /\ jobs[j].bound = FALSE /\ jobs'[j].bound = TRUE => jobs[j].state = "running"
  <2>1. CASE jobs' = jobs
    BY <2>1
  <2>2. CASE Holds(l) /\ jobs' = [Finished(workers[l].job, workers[l].result) EXCEPT ![workers[l].job].bound = TRUE]
    BY <2>2 DEF Holds, Finished
  <2> QED BY <1>7, <2>1, <2>2 DEF Report
<1>8. ASSUME NEW l \in Leases, Raise(l)
      PROVE  /\ jobs[j].bound = TRUE => jobs'[j].bound = TRUE
             /\ jobs[j].bound = FALSE /\ jobs'[j].bound = TRUE => jobs[j].state = "running"
  BY <1>8 DEF Raise, Job, Finished
<1>9. ASSUME NEW c \in Commands, Submit(c)
      PROVE  /\ jobs[j].bound = TRUE => jobs'[j].bound = TRUE
             /\ jobs[j].bound = FALSE /\ jobs'[j].bound = TRUE => jobs[j].state = "running"
  <2>1. PICK i \in Jobs : jobs[i].state = "absent" /\ jobs' = [jobs EXCEPT ![i] = Queued]
    BY <1>9 DEF Submit
  <2>2. jobs[i].bound # TRUE /\ Queued.bound = FALSE
    BY <2>1 DEF RunsOK, RunOK, Queued, NoJob
  <2> QED BY <2>1, <2>2 DEF Job
<1>10. ASSUME NEW c \in Commands, Cancel(c)
      PROVE  /\ jobs[j].bound = TRUE => jobs'[j].bound = TRUE
             /\ jobs[j].bound = FALSE /\ jobs'[j].bound = TRUE => jobs[j].state = "running"
  BY <1>10 DEF Cancel, Job
<1>11. ASSUME NEW c \in Commands, Resume(c)
      PROVE  /\ jobs[j].bound = TRUE => jobs'[j].bound = TRUE
             /\ jobs[j].bound = FALSE /\ jobs'[j].bound = TRUE => jobs[j].state = "running"
  BY <1>11 DEF Resume, Job
<1> QED BY <1>1, <1>2, <1>3, <1>4, <1>5, <1>6, <1>7, <1>8, <1>9, <1>10, <1>11, JobsChange

--------------------------------------------------------------------------------
(* The parts are kept.                                                        *)
\* The lock is only taken while it is free.
LEMMA LockHeldOnceStep ==
  ASSUME Typed, LockHeldOnce, [Next]_vars
  PROVE  LockHeldOnce'
<1>1. ASSUME NEW l \in Leases, workers[l].pc \notin Inside, workers'[l].pc \in Inside
      PROVE  BeginRun(l) \/ ResumeRun(l)
  BY <1>1, OutsiderActs
<1>2. \A k \in Leases : BeginRun(k) \/ ResumeRun(k) =>
        \A l \in Leases : l # k => workers'[l] = workers[l]
  BY DEF BeginRun, ResumeRun, Move, Typed, TypeOK
<1>3. \A l \in Leases : (BeginRun(l) \/ ResumeRun(l)) /\ workers'[l].pc \in Inside => LockFree /\ UNCHANGED daemon
  BY DEF BeginRun, ResumeRun, Move, Typed, TypeOK, Worker, Inside
<1>4. daemon'.pc = "cancelling" => daemon.pc = "cancelling" \/ BeginCancelRun
  <2>1. ASSUME Launch \/ Stop \/ DaemonDies \/ GrantFails
        PROVE  daemon'.pc # "cancelling"
    <3>1. CASE Launch
      BY <3>1 DEF Launch, Off
    <3>2. CASE daemon' = Off
      BY <3>2 DEF Off
    <3> QED BY <2>1, <3>1, <3>2 DEF Stop, DaemonDies, GrantFails, Ends
  <2> USE DEF Typed, TypeOK, Daemon
  <2>2. ASSUME Recovered \/ Grant \/ Reap \/ CancelRun \/ Settle
        PROVE  daemon'.pc # "cancelling"
    BY <2>2 DEF Recovered, Grant, Reap, CancelRun, Settle, Off
  <2>3. ASSUME NEW p \in Pending, RecoverJob(p)
        PROVE  daemon'.pc = daemon.pc
    BY <2>3 DEF RecoverJob
  <2>4. ASSUME NEW c \in Commands, Reply(c)
        PROVE  daemon'.pc = daemon.pc
    BY <2>4 DEF Reply
  <2>5. ASSUME NEW j \in Jobs, NEW l \in Leases, Spawn(j, l)
        PROVE  daemon'.pc = "lease"
    BY <2>5 DEF Spawn
  <2> QED BY <2>1, <2>2, <2>3, <2>4, <2>5, DaemonChange
<1>5. BeginCancelRun => LockFree /\ UNCHANGED workers
  BY DEF BeginCancelRun, MayCancel
<1>6. ASSUME NEW k \in Leases, NEW l \in Leases, workers'[k].pc \in Inside, workers'[l].pc \in Inside
      PROVE  k = l
  <2>1. CASE workers[k].pc \in Inside /\ workers[l].pc \in Inside
    BY <2>1 DEF LockHeldOnce
  <2>2. CASE workers[k].pc \notin Inside
    BY <1>1, <1>2, <1>3, <1>6, <2>2 DEF LockFree
  <2>3. CASE workers[l].pc \notin Inside
    BY <1>1, <1>2, <1>3, <1>6, <2>3 DEF LockFree
  <2> QED BY <2>1, <2>2, <2>3
<1>7. ASSUME NEW l \in Leases, daemon'.pc = "cancelling"
      PROVE  workers'[l].pc \notin Inside
  <2>1. CASE BeginCancelRun
    BY <1>5, <2>1 DEF LockFree
  <2>2. CASE daemon.pc = "cancelling"
    BY <1>1, <1>3, <1>7, <2>2 DEF LockFree, LockHeldOnce
  <2> QED BY <1>4, <1>7, <2>1, <2>2
<1> QED BY <1>6, <1>7 DEF LockHeldOnce

\* A run fits its job.
LEMMA RunsOKStep ==
  ASSUME Typed, BeginOnce, Locked, [Next]_vars, NEW j \in Jobs
  PROVE  RunOK(runs'[j], jobs'[j])
<1>0. /\ runs[j] \in Run /\ jobs[j] \in Job /\ RunOK(runs[j], jobs[j])
      /\ RunStep(runs[j], runs'[j], jobs[j])
      /\ JobStep(j)
      /\ jobs[j].bound = TRUE => jobs'[j].bound = TRUE
      /\ jobs[j].bound = FALSE /\ jobs'[j].bound = TRUE => jobs[j].state = "running"
  BY RunSteps, JobSteps, BoundStays DEF Typed, TypeOK, Locked, RunsOK
<1>1. runs'[j].starts = 0 => runs'[j].state = "none" /\ runs'[j].files = "before" /\ runs'[j].checkpoint = FALSE
  BY <1>0 DEF RunOK, RunStep, Begins
<1>2. runs'[j].state \notin Reported /\ runs'[j].files # "before" =>
        runs'[j].checkpoint = TRUE /\ jobs'[j].bound = TRUE
  BY <1>0 DEF RunOK, RunStep, Begins, Works, Closes, Clears, Reported
<1>3. /\ runs'[j].state = "complete" => runs'[j].files \in {"before", "applied"}
      /\ runs'[j].state = "failed" => runs'[j].files \in {"before", "undone", "half"}
      /\ runs'[j].state = "cancelled" => runs'[j].files \in {"before", "undone"}
  BY <1>0 DEF RunOK, RunStep, Begins, Works, Closes, Clears, Reported
<1>4. jobs'[j].state = "complete" => runs'[j].state = "complete"
  <2>1. ASSUME NEW l \in Leases, Told(l, j, "complete")
        PROVE  runs[j].state = "complete"
    BY <2>1 DEF Told, Report, Locked, WorkersKnow, Knows, Reported
  <2>2. jobs'[j].state = "complete" => runs[j].state = "complete"
    BY <1>0, <2>1 DEF JobStep, RunOK
  <2> QED BY <2>2, RunStays DEF Reported
<1>5. jobs'[j].mode = "resume" =>
        jobs'[j].bound = TRUE /\ (runs'[j].checkpoint = TRUE \/ runs'[j].state \in Reported)
  <2>1. CASE jobs[j].mode = "resume"
    BY <1>0, <2>1, RunStays DEF RunOK
  <2>2. ASSUME NEW c \in Commands, Resume(c), calls[c].job = j
        PROVE  jobs[j].bound = TRUE /\ (runs[j].checkpoint = TRUE \/ runs[j].state \in Reported)
    BY <2>2 DEF Resume, Locked, CallsKnow
  <2> QED BY <1>0, <2>1, <2>2, RunStays DEF JobStep
<1>6. jobs'[j].bound = TRUE => jobs'[j].state # "absent"
  BY <1>0 DEF RunOK, JobStep, Job
<1> QED BY <1>1, <1>2, <1>3, <1>4, <1>5, <1>6 DEF RunOK

\* A request to resume is admitted with something to resume.
LEMMA CallsKnowStep ==
  ASSUME Typed, BeginOnce, Locked, [Next]_vars
  PROVE  CallsKnow'
<1>1. ASSUME NEW c \in Commands, calls'[c].kind = "resume", calls'[c].pc = "write",
             NEW j \in Jobs, calls'[c].job = j
      PROVE  jobs'[j].bound = TRUE /\ (runs'[j].checkpoint = TRUE \/ runs'[j].state \in Reported)
  <2>1. calls'[c] = calls[c] \/ AskResume(c, j)
    <3> USE DEF Typed, TypeOK, Call
    <3>1. ASSUME NEW b \in Commands, NEW i \in Jobs, AskCancel(b, i) \/ AskResume(b, i)
          PROVE  calls'[c] = calls[c] \/ AskResume(c, j)
      <4>1. CASE b # c
        BY <3>1, <4>1 DEF AskCancel, AskResume, Admit
      <4>2. CASE b = c
        <5>1. ~AskCancel(c, i)
          <6>1. AskCancel(c, i) => calls'[c].kind = "cancel"
            BY DEF AskCancel, Admit
          <6> QED BY <1>1, <6>1
        <5>2. AskResume(c, i) => i = j
          BY <1>1 DEF AskResume, Admit
        <5> QED BY <3>1, <4>2, <5>1, <5>2
      <4> QED BY <4>1, <4>2
    <3>2. ASSUME NEW b \in Commands, AskSubmit(b) \/ AskStop(b) \/ Submit(b) \/ Cancel(b) \/ CancelChecks(b)
                    \/ CancelKills(b) \/ Resume(b) \/ PrepareStop(b) \/ Reply(b)
          PROVE  calls'[c] = calls[c]
      <4>1. CASE b # c
        <5>1. CASE AskSubmit(b) \/ AskStop(b) \/ Submit(b) \/ Resume(b) \/ PrepareStop(b)
          BY <4>1, <5>1 DEF AskSubmit, AskStop, Admit, Submit, Resume, PrepareStop, Effect
        <5>2. CASE Cancel(b) \/ CancelChecks(b)
          BY <4>1, <5>2 DEF Cancel, CancelChecks, To
        <5>3. CASE CancelKills(b) \/ Reply(b)
          BY <4>1, <5>3 DEF CancelKills, Reply, To
        <5> QED BY <3>2, <5>1, <5>2, <5>3
      <4>2. CASE b = c
        <5>1. ~AskSubmit(c) /\ ~AskStop(c)
          BY <1>1 DEF AskSubmit, AskStop, Admit
        <5>2. ~Submit(c) /\ ~Cancel(c) /\ ~CancelChecks(c) /\ ~Resume(c) /\ ~PrepareStop(c)
          <6>1. ~Submit(c) /\ ~Resume(c) /\ ~PrepareStop(c)
            BY <1>1 DEF Submit, Resume, PrepareStop, Effect
          <6>2. ~Cancel(c)
            BY <1>1 DEF Cancel
          <6>3. ~CancelChecks(c)
            BY <1>1 DEF CancelChecks, To
          <6> QED BY <6>1, <6>2, <6>3
        <5>3. ~CancelKills(c) /\ ~Reply(c)
          <6>1. ~CancelKills(c)
            BY <1>1, NobodyWaits DEF CancelKills, To
          <6>2. ~Reply(c)
            BY <1>1, NobodyWaits DEF Reply
          <6> QED BY <6>1, <6>2
        <5> QED BY <3>2, <4>2, <5>1, <5>2, <5>3
      <4> QED BY <4>1, <4>2
    <3>3. ASSUME Stop \/ DaemonDies \/ GrantFails
          PROVE  FALSE
      <4>1. calls'[c] = Unanswered(calls[c])
        BY <3>3 DEF Stop, DaemonDies, GrantFails, Ends
      <4> QED BY <1>1, <4>1, NobodyWaits
    <3> QED BY <3>1, <3>2, <3>3, CallsChange
  <2>2. CASE AskResume(c, j)
    BY <2>2, RunStays, BoundStays DEF AskResume, Resumable, Locked, Typed, TypeOK, Job, Run
  <2>3. CASE calls'[c] = calls[c]
    BY <1>1, <2>3, RunStays, BoundStays DEF Locked, CallsKnow
  <2> QED BY <2>1, <2>2, <2>3
<1>2. \A c \in Commands : calls'[c].kind = "resume" /\ calls'[c].pc = "write" => calls'[c].job \in Jobs
  BY CallsTyped DEF CallsOK, CallOK
<1> QED BY <1>1, <1>2 DEF CallsKnow

\* A worker that goes on keeps what the job is to be resumed for.
LEMMA ModeStays ==
  ASSUME Typed, BeginOnce, Locked, [Next]_vars, NEW j \in Jobs, jobs[j].mode = "resume"
  PROVE  jobs'[j].mode = "resume"
BY JobSteps DEF JobStep, BeginOnce, Typed, TypeOK, Job

\* What the holder of the lock knows after a step of its own.
LEMMA HolderKnows ==
  ASSUME Typed, BeginOnce, Locked, [Next]_vars, NEW l \in Leases, workers[l].pc \in Inside,
         NEW j \in Jobs, workers[l].job = j, workers'[l].job = j, HolderStep(l)
  PROVE  Knows(workers'[l], runs'[j], jobs'[j])
<1>1. /\ Knows(workers[l], runs[j], jobs[j]) /\ runs[j] \in Run /\ jobs[j] \in Job
      /\ RunOK(runs[j], jobs[j]) /\ workers[l] \in Worker
  BY DEF Locked, WorkersKnow, RunsOK, Typed, TypeOK
<1>2. /\ runs'[j].starts # 0
      /\ jobs[j].bound = TRUE => jobs'[j].bound = TRUE
      /\ jobs[j].mode = "resume" => jobs'[j].mode = "resume"
  BY <1>1, RunStays, BoundStays, ModeStays DEF Locked, Knows
<1>3. workers'[l].mode = workers[l].mode
  BY WorkerSteps, WorkerRow DEF WorkerStep, Moves, Starts, Start, Spawned, Gone, NoWorker,
       Inside
<1> USE DEF Typed, TypeOK
<1>4. CASE Save(l)
  BY <1>1, <1>2, <1>3, <1>4 DEF Save, Move, Knows, Inside, Reported, Run, Worker
<1>5. CASE Prepare(l)
  BY <1>1, <1>2, <1>3, <1>5 DEF Prepare, Move, Knows, Inside, Reported, Run, Worker
<1>6. CASE Write(l)
  BY <1>1, <1>2, <1>3, <1>6 DEF Write, Move, Knows, Inside, Reported, Run, Worker
<1>7. CASE Apply(l)
  BY <1>1, <1>2, <1>3, <1>7 DEF Apply, Move, Knows, Inside, Reported, Run, Worker
<1>8. CASE Pause(l)
  BY <1>1, <1>2, <1>3, <1>8 DEF Pause, Move, Knows, Inside, Reported, Run, Worker
<1>9. CASE Complete(l)
  BY <1>1, <1>2, <1>3, <1>9 DEF Complete, Move, Knows, Inside, Reported, Run, Worker
<1>10. CASE Clear(l)
  BY <1>1, <1>2, <1>3, <1>10 DEF Clear, Move, Knows, Inside, Reported, Run, Worker
<1>11. CASE Fail(l)
  BY <1>1, <1>2, <1>3, <1>11 DEF Fail, Move, Knows, Inside, Reported, Run, Worker
<1>12. CASE RollBack(l)
  BY <1>1, <1>2, <1>3, <1>12 DEF RollBack, Move, Knows, Inside, Reported, Run, Worker,
       RolledBack, ToUndo
<1>13. CASE Close(l)
  BY <1>1, <1>2, <1>3, <1>13 DEF Close, Move, Knows, Inside, Reported, Run, Worker, ToUndo,
       Open
<1>14. CASE Emit(l)
  <2>1. CASE Holds(l) /\ jobs' = [jobs EXCEPT ![j].bound = TRUE] /\ Move(l, "node")
    <3>1. jobs'[j].bound = TRUE /\ UNCHANGED runs /\ workers'[l].pc = "node"
      BY <1>14, <2>1 DEF Emit, Move, Job
    <3> QED BY <1>1, <1>2, <1>3, <1>14, <3>1 DEF Emit, Knows, Inside, Reported
  <2>2. CASE Move(l, "undoing")
    BY <1>1, <1>2, <1>3, <1>14, <2>2 DEF Emit, Move, Knows, Inside, Reported
  <2> QED BY <1>14, <2>1, <2>2 DEF Emit
<1>15. CASE Leave(l)
  <2>1. workers'[l].pc = "raising"
    BY <1>15 DEF Leave, Move
  <2> QED BY <1>1, <1>2, <1>3, <2>1 DEF Knows, Inside
<1> QED BY <1>4, <1>5, <1>6, <1>7, <1>8, <1>9, <1>10, <1>11, <1>12, <1>13, <1>14, <1>15 DEF
     HolderStep

\* What any worker knows after any step.
LEMMA WorkersKnowStep ==
  ASSUME Typed, BeginOnce, Locked, [Next]_vars, NEW l \in Leases, NEW j \in Jobs, workers'[l].job = j
  PROVE  Knows(workers'[l], runs'[j], jobs'[j])
<1>1. runs[j] \in Run /\ jobs[j] \in Job /\ RunOK(runs[j], jobs[j]) /\ workers[l] \in Worker
  BY DEF Locked, RunsOK, Typed, TypeOK
<1>2. CASE workers'[l] = workers[l] /\ (UNCHANGED runs \/ workers[l].pc \notin Inside)
  <2>1. Knows(workers[l], runs[j], jobs[j])
    BY <1>2 DEF Locked, WorkersKnow
  <2> QED BY <1>1, <1>2, <2>1, RunStays, BoundStays, ModeStays DEF Locked, Knows, Inside
<1>3. CASE workers[l].pc \in Inside
  <2>1. workers'[l].job = workers[l].job
    BY <1>3, WorkerSteps, WorkerRow DEF WorkerStep, Moves, Starts, Spawned, Gone, NoWorker,
         Inside
  <2> QED BY <1>2, <1>3, <2>1, HolderActs, HolderKnows, WorkerRow DEF Locked, Gone, NoWorker
<1>4. CASE workers[l].pc \notin Inside /\ BeginRun(l)
  <2>1. workers[l].job = j /\ workers'[l].mode = "run" /\ workers'[l].pc \in {"raising", "emitting"}
    BY <1>4 DEF BeginRun, Move, Typed, TypeOK, Worker
  <2>2. runs[j].starts = 0
    BY <1>4, <2>1 DEF BeginRun, BeginOnce
  <2>3. runs'[j].starts # 0 /\ runs'[j].state = "begun" /\ runs'[j].files = "before"
    BY <1>1, <1>4, <2>1, <2>2 DEF BeginRun, RunOK, Typed, TypeOK, Run
  <2> QED BY <2>1, <2>3 DEF Knows, Inside, Reported
<1>5. CASE workers[l].pc \notin Inside /\ ResumeRun(l)
  <2>1. workers[l].job = j /\ workers[l].mode = "resume" /\ UNCHANGED <<jobs, runs>>
    BY <1>5 DEF ResumeRun, Move, Typed, TypeOK, Worker
  <2>2. jobs[j].mode = "resume"
    BY <2>1 DEF Locked, WorkersKnow, Knows
  <2>3. runs[j].starts # 0
    BY <1>1, <2>2 DEF RunOK, Reported
  <2>4. CASE runs[j].state \in Reported /\ workers' = [workers EXCEPT ![l].pc = "reporting", ![l].result = runs[j].state]
    <3>1. workers'[l].pc = "reporting" /\ workers'[l].result = runs[j].state
      BY <2>4 DEF Typed, TypeOK, Worker
    <3> QED BY <2>1, <2>2, <3>1 DEF Knows, Inside
  <2>5. CASE Move(l, "raising")
    <3>1. workers'[l].pc = "raising"
      BY <2>5 DEF Move, Typed, TypeOK, Worker
    <3> QED BY <2>1, <2>2, <3>1 DEF Knows, Inside
  <2>6. ASSUME runs[j].state \notin Reported,
               \/ runs[j].files \in {"before", "applied"} /\ Move(l, "emitting")
               \/ runs[j].files = "prepared" /\ Move(l, "applying")
               \/ Move(l, "undoing")
        PROVE  Knows(workers'[l], runs'[j], jobs'[j])
    <3>1. /\ workers'[l].pc = "emitting" => runs[j].files \in {"before", "applied"}
          /\ workers'[l].pc = "applying" => runs[j].files = "prepared"
          /\ workers'[l].pc \in {"emitting", "applying", "undoing"}
      BY <2>6 DEF Move, Typed, TypeOK, Worker
    <3> QED BY <2>1, <2>2, <2>3, <2>6, <3>1 DEF Knows
  <2>7. \/ runs[j].state \in Reported /\ workers' = [workers EXCEPT ![l].pc = "reporting", ![l].result = runs[j].state]
        \/ Move(l, "raising")
        \/ /\ runs[j].state \notin Reported
           /\ \/ runs[j].files \in {"before", "applied"} /\ Move(l, "emitting")
              \/ runs[j].files = "prepared" /\ Move(l, "applying")
              \/ Move(l, "undoing")
    BY <1>5, <2>1 DEF ResumeRun
  <2> QED BY <2>4, <2>5, <2>6, <2>7
<1>6. CASE workers[l].pc \notin Inside /\ workers'[l].pc \notin Inside \cup {"reporting"}
  <2>1. ASSUME workers'[l].mode = "resume"
        PROVE  jobs'[j].mode = "resume"
    <3>1. CASE workers[l].mode = "resume" /\ workers[l].job = j
      BY <3>1, ModeStays DEF Locked, WorkersKnow, Knows
    <3>2. CASE Starts(l)
      BY <2>1, <3>2 DEF Starts, Start
    <3> QED BY <2>1, <3>1, <3>2, WorkerSteps DEF WorkerStep, Moves, Spawned, Gone, NoWorker
  <2> QED BY <1>6, <2>1 DEF Knows, Inside
<1> QED BY <1>2, <1>3, <1>4, <1>5, <1>6, OutsiderActs

\* Who touches a run: its worker, entering or under the lock, or the main loop.
LEMMA RunTouched ==
  ASSUME Typed, LockHeldOnce, [Next]_vars, NEW j \in Jobs, runs'[j] # runs[j]
  PROVE  \/ \E l \in Leases : workers[l].job = j /\ workers[l].pc \in Starting
         \/ daemon.pc = "cancelling" /\ daemon.job = j
<1> USE DEF Typed, TypeOK
<1>1. ASSUME NEW l \in Leases, BeginRun(l) \/ HolderStep(l)
      PROVE  workers[l].job = j /\ workers[l].pc \in Starting
  BY <1>1 DEF HolderStep, Starting, Inside, BeginRun, Emit, Save, Prepare, Write, Apply,
       Pause, Complete, Clear, Fail, RollBack, RolledBack, Close, Leave
<1>2. ASSUME CancelRollsBack \/ CancelRun
      PROVE  daemon.pc = "cancelling" /\ daemon.job = j
  BY <1>2 DEF CancelRollsBack, CancelRun, RolledBack
<1> QED BY <1>1, <1>2, RunsChange DEF HolderStep

\* The lock is not given away over an open transaction.
LEMMA OpenAloneStep ==
  ASSUME Typed, BeginOnce, Locked, [Next]_vars,
         NEW j \in Jobs, runs'[j].files \in Open, NEW l \in Leases, workers'[l].pc \in Inside
  PROVE  workers'[l].job = j
<1>1. CASE workers[l].pc \in Inside
  <2>1. workers'[l].job = workers[l].job
    BY <1>1, WorkerSteps, WorkerRow DEF WorkerStep, Moves, Starts, Spawned, Gone, NoWorker,
         Inside
  <2>2. ASSUME HolderStep(l), workers[l].job # j
        PROVE  runs'[j] = runs[j]
    BY <2>2 DEF HolderStep, Emit, Save, Prepare, Write, Apply, Pause, Complete, Clear,
         Fail, RollBack, RolledBack, Close, Leave, Typed, TypeOK
  <2> QED BY <1>1, <2>1, <2>2, HolderActs, OutsiderActs DEF Locked, OpenAlone, Gone,
       NoWorker
<1>2. CASE workers[l].pc \notin Inside /\ BeginRun(l)
  <2>1. ~Unreconciled(Jobs) /\ runs'[j].files = runs[j].files
    BY <1>2 DEF BeginRun, Move, Inside, Typed, TypeOK, Worker, Run
  <2> QED BY <2>1 DEF Unreconciled
<1>3. CASE workers[l].pc \notin Inside /\ ResumeRun(l)
  <2>1. UNCHANGED runs /\ workers'[l].job = workers[l].job /\ ~Unreconciled(Jobs \ {workers[l].job})
    BY <1>3 DEF ResumeRun, Move, Inside, Typed, TypeOK, Worker
  <2> QED BY <2>1 DEF Unreconciled
<1>4. CASE workers[l].pc \notin Inside /\ workers'[l] = workers[l]
  BY <1>4
<1> QED BY <1>1, <1>2, <1>3, <1>4, OutsiderActs

\* A job fails without a verdict of its run only when nothing was begun.
LEMMA FailedIsOverStep ==
  ASSUME Typed, BeginOnce, Locked, [Next]_vars,
         NEW j \in Jobs, jobs'[j].state = "failed", runs'[j].state \notin Reported
  PROVE  /\ runs'[j].files = "before"
         /\ \A l \in Leases : workers'[l].pc \in Starting => workers'[l].job # j
<1>1. runs[j].state \notin Reported /\ jobs[j] \in Job /\ runs[j] \in Run /\ RunOK(runs[j], jobs[j])
  BY RunStays DEF Locked, RunsOK, Typed, TypeOK
<1>2. CASE jobs[j].state = "failed"
  <2>1. /\ runs[j].files = "before"
        /\ \A l \in Leases : workers[l].pc \in Starting => workers[l].job # j
    BY <1>1, <1>2 DEF Locked, FailedIsOver
  <2>2. runs'[j] = runs[j]
    BY <1>2, <2>1, RunTouched DEF Locked, DaemonKnows
  <2>3. ASSUME NEW l \in Leases, workers'[l].pc \in Starting, workers'[l].job = j
        PROVE  FALSE
    <3>1. ~Starts(l)
      BY <1>2, <2>3 DEF Starts, Start, Holds
    <3>2. workers'[l] = workers[l] \/ Moves(l)
      BY <2>3, <3>1, WorkerSteps DEF WorkerStep, Spawned, Gone, NoWorker, Starting, Inside
    <3>3. workers[l].pc \notin Starting
      BY <2>1, <2>3, <3>2 DEF Moves
    <3>4. ~BeginRun(l) /\ ~ResumeRun(l)
      BY <3>3 DEF BeginRun, ResumeRun, Starting
    <3> QED BY <2>3, <3>2, <3>3, <3>4, OutsiderActs DEF Starting, Moves
  <2> QED BY <2>1, <2>2, <2>3
<1>3. ASSUME NEW l \in Leases, Told(l, j, "failed")
      PROVE  /\ runs'[j].files = "before"
             /\ \A k \in Leases : workers'[k].pc \in Starting => workers'[k].job # j
  <2>1. Raise(l) /\ ~Resumable(j) /\ workers[l].job = j
    BY <1>1, <1>3 DEF Told, Report, Locked, WorkersKnow, Knows, Reported
  <2>2. UNCHANGED runs /\ \A k \in Leases : workers'[k] = IF k = l THEN Gone ELSE workers[k]
    BY <2>1 DEF Raise, Exit, Killed, Typed, TypeOK
  <2>3. runs[j].files = "before" /\ jobs[j].mode # "resume"
    BY <1>1, <2>1 DEF Resumable, RunOK
  <2>4. ASSUME NEW k \in Leases, k # l, workers[k].pc \in Starting, workers[k].job = j
        PROVE  FALSE
    <3>1. /\ workers[k].mode \in {"run", "resume"} /\ workers[l].mode \in {"run", "resume"}
      BY <2>1, <2>4, WorkerRow DEF Raise, Worker, WorkerOK, Starting, Inside
    <3>2. workers[k].mode = "run" /\ workers[l].mode = "run"
      BY <2>1, <2>3, <2>4, <3>1 DEF Locked, WorkersKnow, Knows
    <3> QED BY <2>1, <2>4, <3>2 DEF BeginOnce
  <2> QED BY <2>2, <2>3, <2>4 DEF Gone, NoWorker, Starting, Inside
<1> QED BY <1>2, <1>3, JobSteps DEF JobStep

\* The job that is settled has nobody left to report on it.
LEMMA DaemonKnowsStep ==
  ASSUME Typed, Watched, BeginOnce, Locked, [Next]_vars
  PROVE  DaemonKnows'
<1>1. ASSUME daemon.pc \in {"settle", "cancelling"}
      PROVE  /\ workers'[daemon.worker].pc \in {"none", "gone"}
             /\ jobs'[daemon.job].state # "failed"
  <2>1. /\ daemon.worker \in Leases /\ daemon.job \in Jobs
        /\ workers[daemon.worker].pc \in {"none", "gone"} /\ jobs[daemon.job].state # "failed"
    BY <1>1 DEF Locked, DaemonKnows, Typed, DaemonOK
  <2>2. ~Spawned(daemon.worker) /\ ~Starts(daemon.worker)
    BY <1>1, <2>1 DEF Spawned, Spawn, Starts, Start
  <2>3. workers'[daemon.worker].pc \in {"none", "gone"}
    BY <2>1, <2>2, WorkerSteps DEF WorkerStep, Moves, Placed, Inside, Gone, NoWorker
  <2>4. ASSUME NEW l \in Leases, Told(l, daemon.job, "failed")
        PROVE  FALSE
    <3>1. daemon.worker = l
      BY <1>1, <2>1, <2>4 DEF Told, Holds, Watched, RunningIsWatched, Serving, Loop
    <3> QED BY <2>1, <2>4, <3>1 DEF Told, Report, Raise
  <2> QED BY <2>1, <2>3, <2>4, JobSteps DEF JobStep
<1>2. ASSUME daemon.pc = "cancelling"
      PROVE  UNCHANGED runs \/ CancelRollsBack \/ CancelRun
  <2>1. \A l \in Leases : ~HolderStep(l)
    BY <1>2 DEF Locked, LockHeldOnce, HolderStep, Inside, Emit, Save, Prepare, Write,
         Apply, Pause, Complete, Clear, Fail, RollBack, Close, Leave
  <2>2. \A l \in Leases : ~BeginRun(l)
    BY <1>2 DEF BeginRun, LockFree
  <2> QED BY <2>1, <2>2, RunsChange DEF HolderStep
<1>3. ASSUME daemon.pc = "cancelling", daemon'.pc = "cancelling", daemon'.job = daemon.job
      PROVE  /\ runs'[daemon.job].state \notin {"complete", "failed"}
             /\ runs'[daemon.job].files \notin {"prepared", "half"}
             /\ runs'[daemon.job].starts # 0
  <2>1. /\ daemon.job \in Jobs /\ runs[daemon.job] \in Run
        /\ runs[daemon.job].state \notin {"complete", "failed"}
        /\ runs[daemon.job].files \notin {"prepared", "half"}
        /\ runs[daemon.job].starts # 0
    BY <1>3 DEF Locked, DaemonKnows, Typed, TypeOK, DaemonOK
  <2>2. ~CancelRun
    BY <1>3 DEF CancelRun, Typed, TypeOK, Daemon
  <2> QED BY <1>2, <1>3, <2>1, <2>2 DEF CancelRollsBack, RolledBack, Typed, TypeOK, Run
<1>4. ASSUME daemon'.pc \in {"settle", "cancelling"}
      PROVE  \/ daemon.pc \in {"settle", "cancelling"} /\ daemon'.worker = daemon.worker
                /\ daemon'.job = daemon.job /\ (daemon'.pc = "cancelling" => daemon.pc = "cancelling" \/ BeginCancelRun)
             \/ Reap /\ daemon'.pc = "settle"
  <2>1. ASSUME Launch \/ Stop \/ DaemonDies \/ GrantFails
        PROVE  FALSE
    <3>1. CASE Launch
      BY <1>4, <3>1 DEF Launch, Off
    <3>2. CASE daemon' = Off
      BY <1>4, <3>2 DEF Off
    <3> QED BY <2>1, <3>1, <3>2 DEF Stop, DaemonDies, GrantFails, Ends
  <2> USE DEF Typed, TypeOK, Daemon
  <2>2. ASSUME Recovered \/ Grant \/ Settle \/ (\E j \in Jobs, l \in Leases : Spawn(j, l))
        PROVE  FALSE
    BY <1>4, <2>2 DEF Recovered, Grant, Settle, Spawn, Off
  <2>3. CASE BeginCancelRun \/ CancelRun
    BY <2>3 DEF BeginCancelRun, CancelRun
  <2>4. CASE Reap
    BY <1>4, <2>4 DEF Reap, Off
  <2>5. ASSUME NEW p \in Pending, RecoverJob(p)
        PROVE  FALSE
    BY <1>4, <2>5 DEF RecoverJob
  <2>6. ASSUME NEW c \in Commands, Reply(c)
        PROVE  daemon'.pc = daemon.pc /\ daemon'.worker = daemon.worker /\ daemon'.job = daemon.job
    BY <2>6 DEF Reply
  <2> QED BY <1>4, <2>1, <2>2, <2>3, <2>4, <2>5, <2>6, DaemonChange
<1>5. ASSUME Reap, daemon'.pc = "settle"
      PROVE  workers'[daemon'.worker].pc \in {"none", "gone"} /\ jobs'[daemon'.job].state # "failed"
  BY <1>5 DEF Reap, Off, Alive, Typed, TypeOK, Daemon
<1>6. ASSUME BeginCancelRun
      PROVE  /\ runs'[daemon.job].state \notin {"complete", "failed"}
             /\ runs'[daemon.job].files \notin {"prepared", "half"}
             /\ runs'[daemon.job].starts # 0
  <2>1. daemon.job \in Jobs /\ RunOK(runs[daemon.job], jobs[daemon.job]) /\ UNCHANGED runs
    BY <1>6 DEF BeginCancelRun, Typed, DaemonOK, Locked, RunsOK
  <2> QED BY <1>6, <2>1 DEF BeginCancelRun, CancelsRun, Resumable, MayCancel, Unreconciled,
       Open, RunOK
<1> QED BY <1>1, <1>3, <1>4, <1>5, <1>6 DEF DaemonKnows

--------------------------------------------------------------------------------
(* The invariant, and the theorems.                                           *)

LEMMA IInvInit == Init => IInv
<1> SUFFICES ASSUME Init PROVE IInv
  OBVIOUS
<1>1. /\ \A j \in Jobs : jobs[j] \in {NoJob, Queued} /\ runs[j] = NoRun
      /\ \A l \in Leases : workers[l] = NoWorker
      /\ daemon = Off
      /\ \A c \in Commands : calls[c] = NoCall
  BY DEF Init
<1>2. Watched
  BY <1>1 DEF Off, Watched, AuditComplete, RunningIsWatched, Serving, Loop
<1>3. \A j \in Jobs : /\ jobs[j].mode = "run" /\ jobs[j].state \in {"absent", "queued"} /\ jobs[j].bound = FALSE
                      /\ runs[j].starts = 0 /\ runs[j].state = "none" /\ runs[j].files = "before" /\ runs[j].checkpoint = FALSE
  <2>1. /\ NoJob.mode = "run" /\ NoJob.state = "absent" /\ NoJob.bound = FALSE
        /\ Queued.mode = "run" /\ Queued.state = "queued" /\ Queued.bound = FALSE
    BY DEF NoJob, Queued
  <2>2. NoRun.starts = 0 /\ NoRun.state = "none" /\ NoRun.files = "before" /\ NoRun.checkpoint = FALSE
    BY DEF NoRun
  <2> QED BY <1>1, <2>1, <2>2
<1>4. \A l \in Leases : workers[l].pc = "none" /\ workers[l].mode = "none" /\ workers[l].job \notin Jobs
  BY <1>1, ResidentAssumption DEF NoWorker, None
<1>5. BeginOnce
  BY <1>3, <1>4 DEF BeginOnce
<1>6. /\ LockHeldOnce /\ OpenAlone /\ DaemonKnows
  BY <1>1, <1>3, <1>4 DEF LockHeldOnce, OpenAlone, DaemonKnows, Inside, Off, Open
<1>7. RunsOK
  BY <1>3 DEF RunsOK, RunOK, Reported
<1>8. WorkersKnow
  BY <1>4 DEF WorkersKnow
<1>9. CallsKnow /\ FailedIsOver
  BY <1>1, <1>3 DEF CallsKnow, FailedIsOver, NoCall
<1> QED BY <1>2, <1>5, <1>6, <1>7, <1>8, <1>9, TypedInit DEF IInv, Locked

LEMMA IInvStep == IInv /\ [Next]_vars => IInv'
<1> SUFFICES ASSUME IInv, [Next]_vars PROVE IInv'
  OBVIOUS
<1>1. Typed' /\ Watched' /\ BeginOnce'
  BY TypedStep, WatchedStep, BeginOnceStep DEF IInv
<1>2. LockHeldOnce' /\ CallsKnow' /\ DaemonKnows'
  BY LockHeldOnceStep, CallsKnowStep, DaemonKnowsStep DEF IInv, Locked
<1>3. RunsOK'
  BY RunsOKStep DEF IInv, RunsOK
<1>4. WorkersKnow'
  BY WorkersKnowStep DEF IInv, WorkersKnow
<1>5. OpenAlone'
  BY OpenAloneStep DEF IInv, OpenAlone
<1>6. FailedIsOver'
  BY FailedIsOverStep DEF IInv, FailedIsOver
<1> QED BY <1>1, <1>2, <1>3, <1>4, <1>5, <1>6 DEF IInv, Locked

LEMMA IInvAlways == Spec => []IInv
BY IInvInit, IInvStep, PTL DEF Spec

\* It implies the properties.
LEMMA IInvTells == IInv => TypeOK /\ NothingTwice /\ RunningIsWatched /\ OutcomeIsTrue /\ HalfDoneIsKept
<1> SUFFICES ASSUME IInv PROVE TypeOK /\ NothingTwice /\ RunningIsWatched /\ OutcomeIsTrue /\ HalfDoneIsKept
  OBVIOUS
<1>1. NothingTwice
  BY DEF IInv, Typed, CallsOK, CallOK, BeginOnce, NothingTwice
<1>2. OutcomeIsTrue
  BY DEF IInv, Locked, RunsOK, RunOK, OutcomeIsTrue
<1>3. ASSUME NEW j \in Jobs, runs[j].files \in Open
      PROVE  \/ runs[j].checkpoint /\ jobs[j].bound /\ jobs[j].state \notin {"complete", "failed"}
             \/ runs[j].state = "failed" /\ runs[j].files = "half"
  <2>1. RunOK(runs[j], jobs[j])
    BY DEF IInv, Locked, RunsOK
  <2>2. CASE runs[j].state \in Reported
    BY <1>3, <2>1, <2>2 DEF RunOK, Reported, Open
  <2>3. CASE runs[j].state \notin Reported
    <3>1. runs[j].checkpoint /\ jobs[j].bound
      BY <1>3, <2>1, <2>3 DEF RunOK, Open
    <3>2. jobs[j].state \notin {"complete", "failed"}
      BY <1>3, <2>1, <2>3 DEF RunOK, Open, Reported, IInv, Locked, FailedIsOver
    <3> QED BY <3>1, <3>2
  <2> QED BY <2>2, <2>3
<1>4. HalfDoneIsKept
  BY <1>3 DEF HalfDoneIsKept, IInv, Locked, OpenAlone
<1> QED BY <1>1, <1>2, <1>4 DEF IInv, Typed, Watched

\* Every variable keeps its sort.
THEOREM ResidentTypes == Spec => []TypeOK
BY IInvAlways, IInvTells, PTL

\* A task is begun at most once and a command carried out at most once, whatever
\* dies and whatever arrives again.
THEOREM DoneAtMostOnce == Spec => []NothingTwice
BY IInvAlways, IInvTells, PTL

\* While a daemon serves, the only job that counts as running is the one whose
\* worker it watches.
THEOREM RunningHasAWatcher == Spec => []RunningIsWatched
BY IInvAlways, IInvTells, PTL

\* What a job's row says of its outcome is what its run came to, and what is left
\* in the project fits it.
THEOREM OutcomesAreTrue == Spec => []OutcomeIsTrue
BY IInvAlways, IInvTells, PTL

\* A transaction that is open belongs to a run that can be resumed or is known to
\* be in doubt, and nobody else works in the project meanwhile.
THEOREM HalfDoneWorkIsKept == Spec => []HalfDoneIsKept
BY IInvAlways, IInvTells, PTL
===============================================================================
