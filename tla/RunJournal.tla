------------------------------ MODULE RunJournal ------------------------------
(* The durable command journal of the board chats (swarm_runs.py): one run of *)
(* each request, the provider turns the run dispatched, and what is known of  *)
(* them after a failure, a Stop or a crash. Every operator is one transaction *)
(* of SwarmRunStore; BoardQueue composes them into the request handler.       *)
CONSTANTS
    Requests,  \* request ids, made by the client
    Slots,     \* bound: the provider turns of one run
    ThreadOf,  \* slot |-> the remote conversation it goes to (_provider_effect_key)
    Procs,     \* Nexus processes
    None, Gone \* no value; the owner of a process that died

ASSUME JournalAssumption == None \notin Procs /\ Gone \notin Procs /\ None # Gone

VARIABLES
    runs,   \* request |-> its row of the table "runs"
    turns   \* request |-> slot |-> its row of the table "provider_effects"

journal == <<runs, turns>>

ActiveRun == {"accepted", "running", "stopping"}
TerminalRun == {"complete", "failed", "stopped", "interrupted", "delivery_unknown", "outcome_unknown"}

Owners == Procs \cup {None, Gone}
Results == {"verified", "unverified"}
\* summary is effect_status; changed: the run's file change landed.
Run == [status : {"none"} \cup ActiveRun \cup TerminalRun, owner : Owners, stop : BOOLEAN,
        summary : {"", "dispatched", "acknowledged", "delivery_unknown"},
        result : Results \cup {None}, changed : BOOLEAN]
\* saved: a checkpoint covers the turn, its ordinal is at most checkpoint_ordinal.
Turn == [status : {"unsent", "dispatched", "acknowledged", "delivery_unknown"},
         saved : BOOLEAN]

JournalTypeOK == runs \in [Requests -> Run] /\ turns \in [Requests -> [Slots -> Turn]]

NoRun == [status |-> "none", owner |-> None, stop |-> FALSE, summary |-> "",
          result |-> None, changed |-> FALSE]
Unsent == [status |-> "unsent", saved |-> FALSE]
JournalInit ==
    /\ runs = [r \in Requests |-> NoRun]
    /\ turns = [r \in Requests |-> [s \in Slots |-> Unsent]]

With(r, status) == {s \in Slots : turns[r][s].status = status}
\* effect_ordinal > checkpoint_ordinal
Unsaved(r) == \E s \in Slots : turns[r][s].status # "unsent" /\ ~turns[r][s].saved
SavedTurns(r) == [s \in Slots |-> [turns[r][s] EXCEPT !.saved = @ \/ turns[r][s].status # "unsent"]]

--------------------------------------------------------------------------------
\* accept: a request id that is already there gets no second run.
Accept(r, p) ==
    /\ runs[r].status = "none"
    /\ runs' = [runs EXCEPT ![r].status = "accepted", ![r].owner = p]
    /\ UNCHANGED turns

StartRun(r, p) ==
    /\ runs[r].status = "accepted"
    /\ runs' = [runs EXCEPT ![r].status = "running", ![r].owner = p]
    /\ UNCHANGED turns

\* An earlier turn whose delivery is unknown fences its conversation.
SlotsTo(k) == {s \in Slots : ThreadOf[s] = k}
Fenced(k) == \E r \in Requests, s \in SlotsTo(k) : turns[r][s].status = "delivery_unknown"
\* The lease of the conversation, held from before the dispatch until the
\* acknowledgement is recorded; a dead owner's is reclaimed.
Leased(k) == \E r \in Requests, s \in SlotsTo(k) :
                turns[r][s].status = "dispatched" /\ runs[r].owner # Gone

BeginEffect(r, s) ==
    /\ runs[r].status = "running"
    /\ turns[r][s].status = "unsent"
    /\ ~Fenced(ThreadOf[s]) /\ ~Leased(ThreadOf[s])
    /\ turns' = [turns EXCEPT ![r][s] = [status |-> "dispatched", saved |-> FALSE]]
    /\ runs' = [runs EXCEPT ![r].summary = "dispatched"]

\* What is known of the run's turns once s has ended with the given status.
SummaryOfLast(r, s, status) == status
Summary(r, s, status) ==
    IF status = "delivery_unknown" \/ With(r, "delivery_unknown") # {} THEN "delivery_unknown"
    ELSE IF With(r, "dispatched") \ {s} # {} THEN "dispatched"
    ELSE "acknowledged"

FinishEffect(r, s, status) ==
    /\ turns[r][s].status = "dispatched"
    /\ turns' = [turns EXCEPT ![r][s].status = status]
    /\ runs' = [runs EXCEPT ![r].summary = Summary(r, s, status)]

\* A result that names the providers that failed may be saved in spite of an
\* unknown delivery (_records_degraded_provider_result).
Answered(r) == runs[r].summary \in {"", "acknowledged", "delivery_unknown"}

CanCheckpoint(r) == runs[r].status \in ActiveRun /\ Answered(r)
Checkpoint(r) ==
    /\ CanCheckpoint(r)
    /\ turns' = [turns EXCEPT ![r] = SavedTurns(r)]
    /\ UNCHANGED runs

CanFinishStopping(r) == runs[r].status \in {"running", "stopping"} /\ Answered(r) /\ ~Unsaved(r)
CanFinish(r) == runs[r].status = "running" /\ Answered(r) /\ ~Unsaved(r)
Finish(r, result) ==
    /\ CanFinish(r)
    /\ runs' = [runs EXCEPT ![r].status = "complete", ![r].result = result]
    /\ UNCHANGED turns

\* The status of a run that failed: an acknowledged reply is saved with the
\* failure when the exception says that the outcome is known.
Receipt(r, known) == known /\ runs[r].summary = "acknowledged"
FailStatus(r, known) ==
    IF runs[r].summary \in {"dispatched", "delivery_unknown"} THEN "delivery_unknown"
    ELSE IF Unsaved(r) /\ ~Receipt(r, known) THEN "outcome_unknown"
    ELSE IF runs[r].stop THEN "stopped" ELSE "failed"
Fail(r, known) ==
    IF runs[r].status \notin ActiveRun THEN UNCHANGED journal
    ELSE /\ runs' = [runs EXCEPT ![r].status = FailStatus(r, known)]
         /\ turns' = IF Receipt(r, known) THEN [turns EXCEPT ![r] = SavedTurns(r)] ELSE turns

RequestStop(r) ==
    /\ runs[r].status \in {"accepted", "running"}
    /\ runs' = [runs EXCEPT ![r].status = "stopping", ![r].stop = TRUE]
    /\ UNCHANGED turns

\* One file change, made while the journal's write reservation is held.
PostProviderMutation(r) ==
    /\ runs[r].status = "running" /\ ~runs[r].stop /\ ~runs[r].changed
    /\ runs' = [runs EXCEPT ![r].changed = TRUE]
    /\ UNCHANGED turns

--------------------------------------------------------------------------------
\* A process dies: the identity its runs are owned by is nobody's any more.
Orphaned(p) == [r \in Requests |-> [runs[r] EXCEPT !.owner = IF @ = p THEN Gone ELSE @]]

\* Opening the store closes the runs of dead processes.
DeadStatus(r) ==
    IF runs[r].summary = "dispatched" THEN "delivery_unknown"
    ELSE IF Unsaved(r) THEN "outcome_unknown" ELSE "interrupted"
RecoverInterrupted ==
    /\ runs' = [r \in Requests |->
                  IF runs[r].status \in ActiveRun /\ runs[r].owner = Gone
                  THEN [runs[r] EXCEPT !.status = DeadStatus(r)] ELSE runs[r]]
    /\ UNCHANGED turns

--------------------------------------------------------------------------------
\* A run that is said to have failed or to have been stopped knows the outcome
\* of every turn it sent; one that completed, or that may be started over after
\* a crash, has at most unknown deliveries that its saved answer owns up to.
NothingLeftInDoubt == \A r \in Requests, s \in Slots :
    LET turn == turns[r][s]
    IN  /\ runs[r].status \in {"failed", "stopped"} => turn.status \in {"unsent", "acknowledged"}
        /\ runs[r].status \in {"complete", "interrupted"} =>
              \/ turn.status \in {"unsent", "acknowledged"}
              \/ turn.status = "delivery_unknown" /\ turn.saved
================================================================================
