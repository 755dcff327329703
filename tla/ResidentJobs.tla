----------------------------- MODULE ResidentJobs -----------------------------
(* The resident runtime (resident.py): a queue of jobs in SQLite, a daemon    *)
(* whose main loop starts one worker process at a time, request threads that  *)
(* change the same rows meanwhile, and workers that carry out the harness run *)
(* of a job under the project lock (workflow.py) and report under a lease.    *)
(* The daemon may die and leave its worker behind.                            *)
EXTENDS Naturals

CONSTANTS
    Jobs,      \* numbered in the order of their submission (created_at_ms)
    Waiting,   \* jobs that an earlier daemon left in the queue
    Commands,  \* the X-Harness-Command-Ids, numbered as they first arrive
    Leases,    \* bound: the lease ids that are ever handed out
    MaxFaults  \* bound: processes that die by themselves

ASSUME ResidentAssumption ==
    /\ Jobs \subseteq Nat \ {0} /\ Waiting \subseteq Jobs /\ Leases \subseteq Nat \ {0}
    /\ Commands \subseteq Nat /\ MaxFaults \in Nat

VARIABLES
    jobs,     \* the rows of resident_jobs
    runs,     \* job |-> its harness run: row, checkpoint, files in the project
    workers,  \* lease |-> the worker process it was made for
    daemon,   \* the main loop of the daemon process
    calls,    \* command |-> its row in resident_commands and its thread
    faults
vars == <<jobs, runs, workers, daemon, calls, faults>>

None == 0
Reported == {"complete", "failed", "cancelled"}
Settled == Reported \cup {"uncertain"}
States == {"absent", "queued", "running", "resume_ready"} \cup Settled
Job == [state : States, mode : {"run", "resume"}, bound : BOOLEAN,
        cancel : BOOLEAN, lease : Leases \cup {None}]
\* What the transaction of a run did to the project. "prepared": it is open, and
\* its files all as they were or all replaced; "half": some of them are replaced;
\* "rolling": its rollback has begun.
Open == {"prepared", "half", "rolling"}
Run == [state : {"none", "begun", "paused"} \cup Reported, checkpoint : BOOLEAN,
        files : {"before", "applied", "undone"} \cup Open, starts : Nat]
Inside == {"emitting", "node", "applying", "clearing", "undoing", "undone"}
Worker == [pc : {"none", "polling", "entering", "reporting", "raising", "gone"} \cup Inside,
           job : Jobs \cup {None}, mode : {"none", "run", "resume"},
           result : {"none", "paused"} \cup Reported]
Loop == {"poll", "lease", "watch", "settle", "cancelling"}
Pending == [job : Jobs, bound : BOOLEAN]
Daemon == [pc : {"down", "recover"} \cup Loop, job : Jobs \cup {None},
           child : Leases \cup {None}, worker : Leases \cup {None},
           verdict : {"none", "cancelled", "resume_ready", "uncertain"},
           pending : SUBSET Pending, stopping : BOOLEAN]
Call == [journal : {"none", "received", "complete"}, job : Jobs \cup {None},
         kind : {"none", "submit", "cancel", "resume", "stop"}, saw : States,
         pc : {"idle", "write", "check", "kill", "reply"}, done : Nat]

TypeOK ==
    /\ jobs \in [Jobs -> Job] /\ runs \in [Jobs -> Run] /\ workers \in [Leases -> Worker]
    /\ daemon \in Daemon /\ calls \in [Commands -> Call] /\ faults \in 0..MaxFaults

NoJob == [state |-> "absent", mode |-> "run", bound |-> FALSE, cancel |-> FALSE, lease |-> None]
NoRun == [state |-> "none", checkpoint |-> FALSE, files |-> "before", starts |-> 0]
NoWorker == [pc |-> "none", job |-> None, mode |-> "none", result |-> "none"]
Off == [pc |-> "down", job |-> None, child |-> None, worker |-> None,
        verdict |-> "none", pending |-> {}, stopping |-> FALSE]
NoCall == [journal |-> "none", job |-> None, kind |-> "none", saw |-> "absent",
           pc |-> "idle", done |-> 0]
Queued == [NoJob EXCEPT !.state = "queued"]
Init ==
    /\ jobs = [j \in Jobs |-> IF j \in Waiting THEN Queued ELSE NoJob]
    /\ runs = [j \in Jobs |-> NoRun]
    /\ workers = [l \in Leases |-> NoWorker] /\ daemon = Off
    /\ calls = [c \in Commands |-> NoCall] /\ faults = 0

Serving == daemon.pc \in Loop
Alive(l) == workers[l].pc \notin {"none", "gone"}
Gone == [NoWorker EXCEPT !.pc = "gone"]
Killed(l) == [workers EXCEPT ![l] = Gone]
\* The condition of every report: state='running' AND lease_id=?.
Holds(l) == LET j == workers[l].job IN jobs[j].state = "running" /\ jobs[j].lease = l
Resumable(j) == jobs[j].bound /\ runs[j].checkpoint
Finished(j, state) == [jobs EXCEPT ![j].state = state, ![j].lease = None]
\* The project lock, and the transactions that recovery would have to settle.
LockIgnored == TRUE
LockFree == daemon.pc # "cancelling" /\ \A l \in Leases : workers[l].pc \notin Inside
OpenIgnored(S) == FALSE
Unreconciled(S) == \E j \in S : runs[j].files \in Open
\* A rollback puts back what was applied, and a transaction whose files are all
\* at one boundary; interrupted, it can be continued. (Nobody else edits the
\* files here; FileTransaction has that.)
ToUndo == {"prepared", "applied", "rolling"}
RolledBack(j) == [runs EXCEPT ![j].files = IF @ = "rolling" THEN "undone" ELSE "rolling"]

--------------------------------------------------------------------------------
(* The daemon's life: start, the audit of the queue, the end of its process.  *)

\* The rows found running are read once, together with their run ids.
AuditedNone == {}
Audited == {[job |-> j, bound |-> jobs[j].bound] : j \in {i \in Jobs : jobs[i].state = "running"}}
Launch ==
    /\ daemon.pc = "down"
    /\ daemon' = [Off EXCEPT !.pc = "recover", !.pending = Audited]
    /\ UNCHANGED <<jobs, runs, workers, calls, faults>>

ConfirmedOrAgain(p) == IF p.bound /\ runs[p.job].checkpoint THEN "resume_ready" ELSE "queued"
Confirmed(p) == IF p.bound /\ runs[p.job].checkpoint THEN "resume_ready" ELSE "uncertain"
RecoverJob(p) ==
    /\ daemon.pc = "recover" /\ p \in daemon.pending
    /\ jobs' = Finished(p.job, Confirmed(p))
    /\ daemon' = [daemon EXCEPT !.pending = @ \ {p}]
    /\ UNCHANGED <<runs, workers, calls, faults>>

Recovered ==
    /\ daemon.pc = "recover" /\ daemon.pending = {}
    /\ daemon' = [daemon EXCEPT !.pc = "poll"]
    /\ UNCHANGED <<jobs, runs, workers, calls, faults>>

\* With the process its request threads end, wherever they are.
Unanswered(call) == [NoCall EXCEPT !.journal = call.journal, !.done = call.done]
Ends ==
    /\ daemon' = Off
    /\ calls' = [c \in Commands |-> Unanswered(calls[c])]

\* serve() leaves its loop between two rounds and kills the worker. A round that
\* had begun when the request to stop came may still take up a job.
Stop ==
    /\ daemon.stopping /\ daemon.pc \in {"poll", "watch"}
    /\ workers' = IF daemon.worker = None THEN workers ELSE Killed(daemon.worker)
    /\ Ends /\ UNCHANGED <<jobs, runs, faults>>

\* A worker has a session of its own on POSIX and survives its daemon; the job
\* object on Windows takes it along.
DaemonDies ==
    /\ daemon.pc # "down" /\ faults < MaxFaults
    /\ faults' = faults + 1
    /\ \/ UNCHANGED workers
       \/ daemon.worker # None /\ workers' = Killed(daemon.worker)
    /\ Ends /\ UNCHANGED <<jobs, runs>>

--------------------------------------------------------------------------------
(* monitor(): with no worker the oldest queued job is taken up, else the      *)
(* worker is watched and, once it has ended, its job settled.                 *)
Oldest(j) == jobs[j].state = "queued" /\ \A i \in Jobs : jobs[i].state = "queued" => j <= i
NextLease(l) == workers[l].pc = "none" /\ \A k \in Leases : workers[k].pc = "none" => l <= k
Spawn(j, l) ==
    /\ daemon.pc = "poll" /\ Oldest(j) /\ NextLease(l)
    /\ workers' = [workers EXCEPT ![l].pc = "polling", ![l].job = j]
    /\ daemon' = [daemon EXCEPT !.pc = "lease", !.job = j, !.child = l]
    /\ UNCHANGED <<jobs, runs, calls, faults>>

\* set_running gives the lease by an UPDATE ... WHERE state='queued'.
Grantable == jobs[daemon.job].state = "queued"
Grant ==
    /\ daemon.pc = "lease" /\ Grantable
    /\ jobs' = [jobs EXCEPT ![daemon.job].state = "running", ![daemon.job].lease = daemon.child]
    /\ daemon' = [daemon EXCEPT !.pc = "watch", !.worker = daemon.child]
    /\ UNCHANGED <<runs, workers, calls, faults>>

\* The job was cancelled since it was picked: spawn kills the child and raises,
\* nothing in serve() catches the error, and the daemon ends.
GrantFails ==
    /\ daemon.pc = "lease" /\ ~Grantable
    /\ workers' = Killed(daemon.child)
    /\ Ends /\ UNCHANGED <<jobs, runs, faults>>

KillCancelled ==
    /\ daemon.pc = "watch" /\ Alive(daemon.worker) /\ jobs[daemon.job].cancel
    /\ workers' = Killed(daemon.worker)
    /\ UNCHANGED <<jobs, runs, daemon, calls, faults>>

\* The worker has ended: its job's row is read and the verdict reached ...
Reap ==
    /\ daemon.pc = "watch" /\ ~Alive(daemon.worker)
    /\ daemon' =
         IF jobs[daemon.job].state # "running"
         THEN [Off EXCEPT !.pc = "poll", !.stopping = daemon.stopping]
         ELSE [daemon EXCEPT !.pc = "settle",
                             !.verdict = IF jobs[daemon.job].cancel THEN "cancelled"
                                         ELSE IF Resumable(daemon.job) THEN "resume_ready"
                                         ELSE "uncertain"]
    /\ UNCHANGED <<jobs, runs, workers, calls, faults>>

\* ... and written, whatever the row has become. A cancelled job's run is
\* cancelled first if it left a checkpoint (_settle_cancel): under the lock, its
\* changes put back. Refused while the project is locked or a transaction in it
\* open, for a run that had ended, and when the checkpoint speaks of changes that
\* are not there; then the job is left to be resumed.
CancelsRun(j) == daemon.verdict = "cancelled" /\ Resumable(j)
MayCancel(j) ==
    LockFree /\ ~Unreconciled(Jobs) /\ runs[j].state \notin {"complete", "failed"}
BeginCancelRun ==
    /\ daemon.pc = "settle" /\ CancelsRun(daemon.job) /\ MayCancel(daemon.job)
    /\ daemon' = [daemon EXCEPT !.pc = "cancelling"]
    /\ UNCHANGED <<jobs, runs, workers, calls, faults>>
CancelRollsBack ==
    /\ daemon.pc = "cancelling" /\ runs[daemon.job].files \in ToUndo
    /\ runs' = RolledBack(daemon.job)
    /\ UNCHANGED <<jobs, workers, daemon, calls, faults>>
CancelRun ==
    /\ daemon.pc = "cancelling" /\ runs[daemon.job].files \notin ToUndo
    /\ runs' = [runs EXCEPT ![daemon.job].state = "cancelled", ![daemon.job].checkpoint = FALSE]
    /\ daemon' = [daemon EXCEPT !.pc = "settle"]
    /\ UNCHANGED <<jobs, workers, calls, faults>>

SettledOrStill(j) == IF CancelsRun(j) THEN "running" ELSE daemon.verdict
SettledAs(j) == IF CancelsRun(j) THEN "resume_ready" ELSE daemon.verdict
Settle ==
    LET j == daemon.job IN
    /\ daemon.pc = "settle"
    /\ CancelsRun(j) /\ MayCancel(j) => runs[j].files # "applied"
    /\ jobs' = Finished(j, SettledAs(j))
    /\ daemon' = [Off EXCEPT !.pc = "poll", !.stopping = daemon.stopping]
    /\ UNCHANGED <<runs, workers, calls, faults>>

--------------------------------------------------------------------------------
(* The worker process (_worker) and, under the project lock, its harness run  *)
(* (run_task, resume_task, _run_task_locked).                                 *)
Move(l, pc) == workers' = [workers EXCEPT ![l].pc = pc]
Exit(l) == workers' = Killed(l)

\* For a second the child waits to see its lease; the row it then reads says
\* whether it runs the task or resumes the job's run.
Start(l) ==
    /\ workers[l].pc = "polling"
    /\ \/ /\ Holds(l)
          /\ workers' = [workers EXCEPT ![l].pc = "entering", ![l].mode = jobs[workers[l].job].mode]
       \/ ~Holds(l) /\ Exit(l)
    /\ UNCHANGED <<jobs, runs, daemon, calls, faults>>

\* A new run waits for the lock. It gets a row, and ends at once, with no
\* verdict on itself, if a transaction of the project waits for recovery.
BeginRun(l) ==
    LET j == workers[l].job IN
    /\ workers[l].pc = "entering" /\ workers[l].mode = "run" /\ LockFree
    /\ runs' = [runs EXCEPT ![j].state = "begun", ![j].starts = @ + 1]
    /\ Move(l, IF Unreconciled(Jobs) THEN "raising" ELSE "emitting")
    /\ UNCHANGED <<jobs, daemon, calls, faults>>

\* resume_task gives up at once on a busy lock. A run that had ended is only
\* reported; without a checkpoint, or over another run's open transaction,
\* nothing is resumed. A prepared transaction is carried on. One that is half
\* applied fails the run; one that was rolled back fails it, or is refused
\* before the run is under way, by how far the checkpoint had come.
ResumeRun(l) ==
    LET j == workers[l].job
        files == runs[j].files IN
    /\ workers[l].pc = "entering" /\ workers[l].mode = "resume"
    /\ \/ /\ LockFree /\ runs[j].state \in Reported
          /\ workers' = [workers EXCEPT ![l].pc = "reporting", ![l].result = runs[j].state]
       \/ /\ LockFree /\ runs[j].state \notin Reported
          /\ runs[j].checkpoint /\ ~Unreconciled(Jobs \ {j})
          /\ Move(l, CASE files \in {"before", "applied"} -> "emitting"
                       [] files = "prepared" -> "applying"
                       [] OTHER -> "undoing")
       \/ /\ \/ ~LockFree
             \/ runs[j].state \notin Reported
          /\ Move(l, "raising")
    /\ UNCHANGED <<jobs, runs, daemon, calls, faults>>

\* Each event of the run binds the run to its job, under the lease: a worker
\* that lost it fails its run here.
Emit(l) ==
    LET j == workers[l].job IN
    /\ workers[l].pc = "emitting"
    /\ IF Holds(l) THEN jobs' = [jobs EXCEPT ![j].bound = TRUE] /\ Move(l, "node")
                   ELSE jobs' = jobs /\ Move(l, "undoing")
    /\ UNCHANGED <<runs, daemon, calls, faults>>

Save(l) ==
    /\ workers[l].pc = "node" /\ ~runs[workers[l].job].checkpoint
    /\ runs' = [runs EXCEPT ![workers[l].job].checkpoint = TRUE]
    /\ Move(l, "emitting") /\ UNCHANGED <<jobs, daemon, calls, faults>>

\* A coder's transaction is announced in the checkpoint, prepared, applied file
\* by file.
Prepare(l) ==
    LET j == workers[l].job IN
    /\ workers[l].pc = "node" /\ runs[j].checkpoint /\ runs[j].files = "before"
    /\ runs' = [runs EXCEPT ![j].files = "prepared"]
    /\ Move(l, "applying") /\ UNCHANGED <<jobs, daemon, calls, faults>>
Write(l) ==
    LET j == workers[l].job IN
    /\ workers[l].pc = "applying" /\ runs[j].files = "prepared"
    /\ runs' = [runs EXCEPT ![j].files = "half"]
    /\ UNCHANGED <<jobs, workers, daemon, calls, faults>>
Apply(l) ==
    LET j == workers[l].job IN
    /\ workers[l].pc = "applying" /\ runs[j].files = "half"
    /\ runs' = [runs EXCEPT ![j].files = "applied"]
    /\ Move(l, "emitting") /\ UNCHANGED <<jobs, daemon, calls, faults>>

\* The run waits for an approval. (It may be given at once, and the run resumed.)
Pause(l) ==
    LET j == workers[l].job IN
    /\ workers[l].pc = "node" /\ runs[j].checkpoint
    /\ runs' = [runs EXCEPT ![j].state = "paused"]
    /\ workers' = [workers EXCEPT ![l].pc = "reporting", ![l].result = "paused"]
    /\ UNCHANGED <<jobs, daemon, calls, faults>>

\* The end node: the run's row first, then the checkpoint.
Complete(l) ==
    LET j == workers[l].job IN
    /\ workers[l].pc = "node" /\ runs[j].checkpoint
    /\ runs' = [runs EXCEPT ![j].state = "complete"]
    /\ Move(l, "clearing") /\ UNCHANGED <<jobs, daemon, calls, faults>>
Clear(l) ==
    /\ workers[l].pc = "clearing"
    /\ runs' = [runs EXCEPT ![workers[l].job].checkpoint = FALSE]
    /\ workers' = [workers EXCEPT ![l].pc = "reporting", ![l].result = "complete"]
    /\ UNCHANGED <<jobs, daemon, calls, faults>>

\* A node, the deadline or a fenced event fails the run; files in the middle of
\* being written are unwound. What was applied is rolled back and the run
\* closed; the event that says so is fenced too, and if it fails the checkpoint
\* stays. A transaction that is half applied cannot be rolled back: an event says
\* it (fenced again), and the run is closed all the same.
Fail(l) ==
    LET j == workers[l].job IN
    /\ workers[l].pc \in {"node", "applying"}
    /\ runs' = [runs EXCEPT ![j].files = IF @ = "half" THEN "undone" ELSE @]
    /\ Move(l, "undoing") /\ UNCHANGED <<jobs, daemon, calls, faults>>
RollBack(l) ==
    LET j == workers[l].job IN
    /\ workers[l].pc = "undoing" /\ runs[j].files \in ToUndo
    /\ runs' = RolledBack(j)
    /\ UNCHANGED <<jobs, workers, daemon, calls, faults>>
Close(l) ==
    LET j == workers[l].job IN
    /\ workers[l].pc = "undoing" /\ runs[j].files \notin ToUndo
    /\ IF runs[j].files = "half" /\ ~Holds(l)
       THEN runs' = runs /\ Move(l, "raising")
       ELSE runs' = [runs EXCEPT ![j].state = "failed"] /\ Move(l, "undone")
    /\ UNCHANGED <<jobs, daemon, calls, faults>>
Leave(l) ==
    LET j == workers[l].job IN
    /\ workers[l].pc = "undone"
    /\ IF Holds(l) THEN /\ jobs' = [jobs EXCEPT ![j].bound = TRUE]
                        /\ runs' = [runs EXCEPT ![j].checkpoint = FALSE]
                   ELSE UNCHANGED <<jobs, runs>>
    /\ Move(l, "raising") /\ UNCHANGED <<daemon, calls, faults>>

\* A result is reported under the lease. A pause is no terminal state finish()
\* knows: it ends in the except branch like any error, which leaves the job to
\* be resumed if there is a checkpoint, and else failed.
Known(result) == result \in Reported
Report(l) ==
    LET j == workers[l].job IN
    /\ workers[l].pc = "reporting"
    /\ IF Holds(l) /\ Known(workers[l].result)
       THEN jobs' = [Finished(j, workers[l].result) EXCEPT ![j].bound = TRUE] /\ Exit(l)
       ELSE jobs' = jobs /\ Move(l, "raising")
    /\ UNCHANGED <<runs, daemon, calls, faults>>
Raise(l) ==
    LET j == workers[l].job IN
    /\ workers[l].pc = "raising"
    /\ jobs' = IF Holds(l) THEN Finished(j, IF Resumable(j) THEN "resume_ready" ELSE "failed") ELSE jobs
    /\ Exit(l) /\ UNCHANGED <<runs, daemon, calls, faults>>

WorkerDies(l) ==
    /\ Alive(l) /\ faults < MaxFaults
    /\ faults' = faults + 1 /\ Exit(l)
    /\ UNCHANGED <<jobs, runs, daemon, calls>>

Work(l) ==
    \/ Start(l) \/ BeginRun(l) \/ ResumeRun(l) \/ Emit(l) \/ Save(l) \/ Prepare(l) \/ Write(l)
    \/ Apply(l) \/ Pause(l) \/ Complete(l) \/ Clear(l) \/ Fail(l) \/ RollBack(l) \/ Close(l) \/ Leave(l)
    \/ Report(l) \/ Raise(l)
--------------------------------------------------------------------------------
(* Requests (_mutation): the command is entered in the journal, its operation *)
(* carried out, the answer saved. Each step is a transaction of its own, and  *)
(* the rows that one read may have changed when the next one writes. A command*)
(* may arrive any number of times; one that is known is not carried out: it is*)
(* answered with what was saved, or as uncertain.                             *)
New(c) == calls[c].journal = "none"
To(c, pc) == calls' = [calls EXCEPT ![c].pc = pc]
Effect(c) == calls' = [calls EXCEPT ![c].pc = "reply", ![c].done = @ + 1]
Arrives(c) == calls[c].pc = "idle" /\ \A b \in Commands : b < c => calls[b].journal # "none"
Admit(c, kind, j, saw, pc) ==
    /\ Serving /\ New(c) /\ Arrives(c)
    /\ calls' = [calls EXCEPT ![c] = [@ EXCEPT !.journal = "received", !.kind = kind,
                                               !.job = j, !.saw = saw, !.pc = pc]]
    /\ UNCHANGED <<jobs, runs, workers, daemon, faults>>

AskSubmit(c) == Admit(c, "submit", None, "absent", "write")
Submit(c) ==
    /\ calls[c].kind = "submit" /\ calls[c].pc = "write"
    /\ \E j \in Jobs :
          /\ jobs[j].state = "absent" /\ \A i \in Jobs : i < j => jobs[i].state # "absent"
          /\ jobs' = [jobs EXCEPT ![j] = Queued]
    /\ Effect(c) /\ UNCHANGED <<runs, workers, daemon, faults>>

\* request_cancel reads the state, and writes by what it read.
AskCancel(c, j) ==
    /\ jobs[j].state # "absent"
    /\ Admit(c, "cancel", j, jobs[j].state, IF jobs[j].state \in Settled THEN "reply" ELSE "write")
Cancel(c) ==
    LET j == calls[c].job IN
    /\ calls[c].kind = "cancel" /\ calls[c].pc = "write"
    /\ jobs' = [jobs EXCEPT ![j].cancel = TRUE,
                            ![j].state = IF calls[c].saw = "queued" THEN "cancelled" ELSE @]
    /\ calls' = [calls EXCEPT ![c].pc = "check", ![c].done = @ + 1]
    /\ UNCHANGED <<runs, workers, daemon, faults>>
\* Is the job's worker the daemon's, its worker is killed; but the two
\* attributes of the main loop are read one after the other, and by then the
\* worker may be another job's or none (an error nobody answers).
CancelChecks(c) ==
    LET j == calls[c].job IN
    /\ calls[c].pc = "check"
    /\ To(c, IF jobs[j].state # "cancelled" /\ daemon.worker # None /\ daemon.job = j
             THEN "kill" ELSE "reply")
    /\ UNCHANGED <<jobs, runs, workers, daemon, faults>>
CancelKills(c) ==
    /\ calls[c].pc = "kill"
    /\ IF daemon.worker = None THEN workers' = workers /\ calls' = [calls EXCEPT ![c] = Unanswered(@)]
                               ELSE workers' = Killed(daemon.worker) /\ To(c, "reply")
    /\ UNCHANGED <<jobs, runs, daemon, faults>>

\* resume and queue_resume check the job and its checkpoint; the UPDATE that
\* queues it looks at neither. (A request that is refused leaves its row in the
\* journal and nothing else.)
AskResume(c, j) ==
    /\ jobs[j].state = "resume_ready" /\ Resumable(j)
    /\ Admit(c, "resume", j, "resume_ready", "write")
Resume(c) ==
    /\ calls[c].kind = "resume" /\ calls[c].pc = "write"
    /\ jobs' = [jobs EXCEPT ![calls[c].job] = [@ EXCEPT !.state = "queued", !.mode = "resume",
                                                        !.cancel = FALSE, !.lease = None]]
    /\ Effect(c) /\ UNCHANGED <<runs, workers, daemon, faults>>

\* prepare_stop kills the worker; the loop is told to end after the answer.
AskStop(c) == Admit(c, "stop", None, "absent", "write")
PrepareStop(c) ==
    /\ calls[c].kind = "stop" /\ calls[c].pc = "write"
    /\ workers' = IF daemon.worker = None THEN workers ELSE Killed(daemon.worker)
    /\ Effect(c) /\ UNCHANGED <<jobs, runs, daemon, faults>>

Reply(c) ==
    /\ calls[c].pc = "reply"
    /\ calls' = [calls EXCEPT ![c] = [Unanswered(@) EXCEPT !.journal = "complete"]]
    /\ daemon' = [daemon EXCEPT !.stopping = @ \/ calls[c].kind = "stop"]
    /\ UNCHANGED <<jobs, runs, workers, faults>>

Ask(c) ==
    \/ AskSubmit(c) \/ AskStop(c)
    \/ \E j \in Jobs : AskCancel(c, j) \/ AskResume(c, j)
Serve(c) ==
    \/ Submit(c) \/ Cancel(c) \/ CancelChecks(c) \/ CancelKills(c)
    \/ Resume(c) \/ PrepareStop(c) \/ Reply(c)
Loops ==
    \/ (\E p \in Pending : RecoverJob(p)) \/ Recovered \/ Stop
    \/ (\E j \in Jobs : \E l \in Leases : Spawn(j, l)) \/ Grant \/ GrantFails
    \/ KillCancelled \/ Reap \/ BeginCancelRun \/ CancelRollsBack \/ CancelRun \/ Settle

Next ==
    \/ Launch \/ Loops \/ DaemonDies
    \/ \E l \in Leases : Work(l) \/ WorkerDies(l)
    \/ \E c \in Commands : Ask(c) \/ Serve(c)

Spec == Init /\ [][Next]_vars

\* The daemon's loop goes on, its children and threads are scheduled, a run ends
\* (workflow.max_elapsed_seconds), and somebody starts a daemon that is down.
FairSpec ==
    /\ Spec /\ WF_vars(Launch \/ Loops)
    /\ WF_vars(\E l \in Leases : Work(l)) /\ WF_vars(\E c \in Commands : Serve(c))

--------------------------------------------------------------------------------
\* Nothing is done twice: a job's task is begun as a new run at most once
\* (recover_interrupted, queue_resume, _worker), and a request that arrives again
\* is not carried out again (begin_command), whatever died in between.
NothingTwice ==
    /\ \A j \in Jobs : runs[j].starts <= 1
    /\ \A c \in Commands : calls[c].done <= 1

\* A daemon that serves has an eye on every job that counts as running: none is
\* left running with nobody to settle it, and there is never a second one.
RunningIsWatched ==
    Serving => \A j \in Jobs : jobs[j].state = "running" =>
        daemon.job = j /\ daemon.worker = jobs[j].lease /\ daemon.worker # None

\* A job that is complete has a complete run behind it, with all its changes, and
\* one whose run was given up has left none of them or is known to be in doubt,
\* whichever of several workers reported it.
OutcomeIsTrue ==
    \A j \in Jobs :
        /\ jobs[j].state = "complete" => runs[j].state = "complete"
        /\ runs[j].state = "complete" => runs[j].files \in {"before", "applied"}
        /\ runs[j].state = "failed" => runs[j].files \in {"before", "undone", "half"}
        /\ runs[j].state = "cancelled" => runs[j].files \in {"before", "undone"}

\* Work that is half done is neither forgotten nor built upon: its run can be
\* resumed, unless it failed over a transaction in doubt, and no other run is
\* under way in the project (persist_checkpoint, reconcile).
HalfDoneIsKept ==
    \A j \in Jobs : runs[j].files \in Open =>
        /\ \/ runs[j].checkpoint /\ jobs[j].bound /\ jobs[j].state \notin {"complete", "failed"}
           \/ runs[j].state = "failed" /\ runs[j].files = "half"
        /\ \A l \in Leases : workers[l].pc \in Inside => workers[l].job = j

\* A job that was queued or is running is settled or ready to be resumed in the
\* end, whatever dies on the way.
JobsSettle ==
    \A j \in Jobs : jobs[j].state \in {"queued", "running"} ~>
                        jobs[j].state \notin {"queued", "running"}
===============================================================================
