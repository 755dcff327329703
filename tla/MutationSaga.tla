----------------------------- MODULE MutationSaga -----------------------------
(***************************************************************************)
(* The coordinator journal of a project-work run (_MutationSaga of         *)
(* swarm_work.py): the file transactions a run applies one after another,  *)
(* how a Stop by the user takes all of them back, newest first, how a      *)
(* pause keeps them, and how the next run settles what a run that died     *)
(* left behind.  A journal or manifest write is atomic; the process may    *)
(* die between any two of them, and somebody else edits files at any time. *)
(*                                                                         *)
(* A file holds a version: 0 before everything, t as transaction t wrote   *)
(* it, Other when it is torn or somebody else's.  FileTransaction has the  *)
(* steps inside the replacement of one file, here one step (or torn), and  *)
(* creations and deletions; here files are modified.  The journal is the   *)
(* project's latest: a run settles it before its own begins.               *)
(***************************************************************************)
EXTENDS Naturals

CONSTANTS
    Files,
    MaxTx,      \* bound on the transactions of all runs
    MaxEdits,   \* bound on edits by somebody else
    MaxCrashes, \* bound on crashes
    Faults      \* whether a file, a backup or a manifest may be unreadable

ASSUME SagaAssumption == {MaxTx, MaxEdits, MaxCrashes} \subseteq Nat /\ Faults \in BOOLEAN

VARIABLES
    content,  \* file |-> the version it holds
    start,    \* content when the journal was begun
    touched,  \* the files torn, or touched by somebody else, since then
    state,    \* transaction |-> what its manifest says
    files,    \* transaction |-> the files of its plan
    base,     \* transaction |-> content when its manifest was written
    phase,    \* of the journal
    entry,    \* transaction |-> its phase in the journal
    count,    \* the transactions that were ever begun
    call,     \* where the run is, in memory
    edits, crashes

onDisk == <<state, files, base>>
journal == <<start, phase, entry, count>>
vars == <<content, touched, onDisk, journal, call, edits, crashes>>

Tx == 1..MaxTx
Other == MaxTx + 1
Version == 0..Other
Tree == [Files -> Version]
Phases == {"none", "active", "kept", "committed", "compensating", "compensated",
           "rollback_conflict", "conflict_acknowledged", "recovered_after_crash"}
Entries == {"none", "prepared", "applied", "restored", "conflict", "compensated", "kept"}
Settled == {"restored", "conflict", "compensated", "kept"}

\* The step, the transaction it is about, its files still to do, for whom a
\* rollback runs, the transactions still to go through, what recovery found so
\* far, and whether a Stop was accepted.
Blank == [t \in Tx |-> "none"]
Down == [pc |-> "down", at |-> 0, todo |-> {}, for |-> "nobody", left |-> {}, found |-> Blank,
         stop |-> FALSE]
Go(pc) == call' = [call EXCEPT !.pc = pc]
Working == call' = [Down EXCEPT !.pc = "working"]
Enter(t, what) == entry' = [entry EXCEPT ![t] = what]
Manifest(t, what) == state' = [state EXCEPT ![t] = what] /\ UNCHANGED <<files, base>>

Init ==
    /\ content = [f \in Files |-> 0] /\ start = content /\ touched = {}
    /\ state = Blank /\ files = [t \in Tx |-> {}] /\ base = [t \in Tx |-> content]
    /\ phase = "none" /\ entry = Blank /\ count = 0
    /\ call = Down /\ edits = 0 /\ crashes = 0

-----------------------------------------------------------------------------
\* The run: apply_changes.  From prepare to the ledger entry it is inside
\* post_provider_mutation, which no Stop enters.

NewSaga ==
    /\ call.pc = "ready" /\ Working
    /\ start' = content /\ touched' = {}
    /\ phase' = "active" /\ entry' = Blank
    /\ UNCHANGED <<content, onDisk, count, edits, crashes>>

Begin ==
    /\ call.pc = "working" /\ ~call.stop /\ count < MaxTx
    /\ count' = count + 1 /\ Enter(count', "prepared")
    /\ call' = [call EXCEPT !.pc = "prepare", !.at = count']
    /\ UNCHANGED <<content, start, touched, onDisk, phase, edits, crashes>>

\* A baseline that does not hold, too many bytes, a lock that is not free.
Refuse ==
    /\ call.pc = "prepare" /\ Working
    /\ Enter(call.at, "restored")
    /\ UNCHANGED <<content, start, touched, onDisk, phase, count, edits, crashes>>

Prepare(plan) ==
    /\ call.pc = "prepare" /\ plan # {}
    /\ state' = [state EXCEPT ![call.at] = "prepared"]
    /\ files' = [files EXCEPT ![call.at] = plan]
    /\ base' = [base EXCEPT ![call.at] = content]
    /\ call' = [call EXCEPT !.pc = "apply", !.todo = plan]
    /\ UNCHANGED <<content, touched, journal, edits, crashes>>

\* An edit since then is noticed (Abort, Fail) or, between the opening and the
\* writing of the file, overwritten.
Replace(f) ==
    /\ call.pc = "apply" /\ f \in call.todo
    /\ content' = [content EXCEPT ![f] = call.at]
    /\ call' = [call EXCEPT !.todo = @ \ {f}]
    /\ UNCHANGED <<touched, onDisk, journal, edits, crashes>>

Commit ==
    LET t == call.at IN
    /\ call.pc = "apply" /\ call.todo = {} /\ \A f \in files[t] : content[f] = t
    /\ Manifest(t, "applied") /\ Go("record")
    /\ UNCHANGED <<content, touched, journal, edits, crashes>>

\* _record_applied_transaction: the journal, then the ledger.  Whatever is
\* raised here is taken for a failure to apply.
Record ==
    /\ call.pc = "record" /\ Go("ledger")
    /\ Enter(call.at, "applied")
    /\ UNCHANGED <<content, start, touched, onDisk, phase, count, edits, crashes>>

Recorded ==
    /\ call.pc = "ledger" /\ Working
    /\ entry' \in {entry, [entry EXCEPT ![call.at] = "restored"]}
    /\ UNCHANGED <<content, start, touched, onDisk, phase, count, edits, crashes>>

\* A failure before the first write aborts; a later one, which may leave the
\* file in hand torn, rolls back, unless not even the manifest can be written.
Abort ==
    /\ call.pc = "apply" /\ call.todo = files[call.at]
    /\ Manifest(call.at, "aborted")
    /\ call' = [call EXCEPT !.pc = "undone", !.for = "apply"]
    /\ UNCHANGED <<content, touched, journal, edits, crashes>>

Torn(T) ==
    /\ content' = [f \in Files |-> IF f \in T THEN Other ELSE content[f]]
    /\ touched' = touched \cup T

Fail(T) ==
    /\ call.pc = "apply" /\ T \subseteq call.todo
    /\ T # {} \/ call.todo # files[call.at]
    /\ Torn(T)
    /\ \/ /\ Manifest(call.at, "rolling_back")
          /\ call' = [call EXCEPT !.pc = "check", !.for = "apply"]
       \/ /\ UNCHANGED onDisk
          /\ call' = [call EXCEPT !.pc = "refused", !.for = "apply"]
    /\ UNCHANGED <<journal, edits, crashes>>

\* Mutant of Outcome: a rollback that was refused is passed over.
OutcomeIgnored == "restored"
Outcome == IF call.pc = "undone" THEN "restored" ELSE "conflict"

Abandon ==
    /\ call.for = "apply" /\ call.pc \in {"undone", "refused"}
    /\ Enter(call.at, Outcome)
    /\ Working
    /\ UNCHANGED <<content, start, touched, onDisk, phase, count, edits, crashes>>

-----------------------------------------------------------------------------
\* FileTransaction.rollback of the transaction call.at.
Position(t, f) ==
    CASE content[f] = base[t][f] -> "before" [] content[f] = t -> "after" [] OTHER -> "other"
All(t, where) == \A f \in files[t] : Position(t, f) = where
Undone(t) == state[t] \in {"none", "aborted", "rolled_back"}
Refuses(t) ==
    \/ state[t] = "none"
    \/ state[t] = "prepared" /\ ~All(t, "before") /\ ~All(t, "after")
    \/ state[t] \in {"applied", "rolling_back"} /\ \E f \in files[t] : Position(t, f) = "other"

AlreadyUndone ==
    /\ call.pc = "check" /\ state[call.at] \in {"aborted", "rolled_back"} /\ Go("undone")
    /\ UNCHANGED <<content, touched, onDisk, journal, edits, crashes>>

NothingApplied ==
    /\ call.pc = "check" /\ state[call.at] = "prepared" /\ All(call.at, "before")
    /\ Manifest(call.at, "aborted") /\ Go("undone")
    /\ UNCHANGED <<content, touched, journal, edits, crashes>>

\* Refused, too, when a manifest or a file of the plan cannot be read, or a
\* backup is gone or was changed (_verified_backup).
RollbackRefused ==
    /\ call.pc = "check" /\ (Faults \/ Refuses(call.at))
    /\ Go("refused")
    /\ UNCHANGED <<content, touched, onDisk, journal, edits, crashes>>

BeginRollback ==
    LET t == call.at IN
    /\ call.pc = "check" /\ ~Refuses(t) /\ ~Undone(t)
    /\ ~(state[t] = "prepared" /\ All(t, "before"))
    /\ Manifest(t, "rolling_back")
    /\ call' = [call EXCEPT !.pc = "restore", !.todo = files[t]]
    /\ UNCHANGED <<content, touched, journal, edits, crashes>>

Restore(f) ==
    LET t == call.at IN
    /\ call.pc = "restore" /\ f \in call.todo /\ Position(t, f) # "other"
    /\ content' = [content EXCEPT ![f] = base[t][f]]
    /\ call' = [call EXCEPT !.todo = @ \ {f}]
    /\ UNCHANGED <<touched, onDisk, journal, edits, crashes>>

\* A file changed since the check, is not as restored or cannot be read; or the
\* automatic rollback of an apply fails.
RestoreStops ==
    /\ call.pc = "restore"
    /\ \/ Faults \/ call.for = "apply"
       \/ \E f \in call.todo : Position(call.at, f) = "other"
    /\ Go("refused")
    /\ UNCHANGED <<content, touched, onDisk, journal, edits, crashes>>

RolledBack ==
    /\ call.pc = "restore" /\ call.todo = {}
    /\ Manifest(call.at, "rolled_back") /\ Go("undone")
    /\ UNCHANGED <<content, touched, journal, edits, crashes>>

-----------------------------------------------------------------------------
\* The end of a run: keep, complete, or a Stop and compensate.
Stop ==
    /\ call.pc = "working" /\ ~call.stop
    /\ call' = [call EXCEPT !.stop = TRUE]
    /\ UNCHANGED <<content, touched, onDisk, journal, edits, crashes>>

Close(how) ==
    /\ call.pc = "working" /\ phase' = how /\ call' = Down
    /\ UNCHANGED <<content, start, touched, onDisk, entry, count, edits, crashes>>
Keep == Close("kept")
Complete == Close("committed")

InJournal == {t \in Tx : entry[t] # "none"}
Through(pc, whom) == [Down EXCEPT !.pc = pc, !.for = whom, !.left = InJournal]

Cancel ==
    /\ call.pc = "working" /\ call.stop
    /\ phase' = "compensating" /\ call' = Through("compensating", "cancel")
    /\ UNCHANGED <<content, start, touched, onDisk, entry, count, edits, crashes>>

\* A transaction whose manifest was never made is taken for undone, but only
\* if its entry still says "prepared".
NeverMade(t) == state[t] = "none" /\ entry[t] = "prepared"
\* Mutant of Newest: the oldest change is taken back first.
Oldest(t) == \A u \in call.left : t <= u
Newest(t) == \A u \in call.left : u <= t

UndoNext(t) ==
    /\ call.pc = "compensating" /\ t \in call.left /\ Newest(t)
    /\ call' = [call EXCEPT !.pc = IF NeverMade(t) THEN "undone" ELSE "check",
                            !.at = t, !.left = @ \ {t}]
    /\ UNCHANGED <<content, touched, onDisk, journal, edits, crashes>>

Compensate ==
    /\ call.for \in {"cancel", "finish"} /\ call.pc = "undone"
    /\ Enter(call.at, "compensated")
    /\ call' = [call EXCEPT !.pc = "compensating", !.at = 0]
    /\ UNCHANGED <<content, start, touched, onDisk, phase, count, edits, crashes>>

\* The undo ends when nothing is left, or at the first transaction that cannot
\* be undone; a run that finished the undo of another one goes on.
Leave == call' = IF call.for = "cancel" THEN Down ELSE [Down EXCEPT !.pc = "reported"]

Compensated ==
    /\ call.pc = "compensating" /\ call.left = {}
    /\ phase' = "compensated" /\ Leave
    /\ UNCHANGED <<content, start, touched, onDisk, entry, count, edits, crashes>>

Conflicted ==
    /\ call.for \in {"cancel", "finish"} /\ call.pc = "refused"
    /\ Enter(call.at, "conflict") /\ phase' = "rollback_conflict" /\ Leave
    /\ UNCHANGED <<content, start, touched, onDisk, count, edits, crashes>>

-----------------------------------------------------------------------------
\* The next run: recover_orphans.  It finishes the undo of a Stop, keeps what
\* a run that died had applied, and restores what was caught half-way.
NextRun ==
    /\ call.pc = "down"
    /\ call' = CASE phase = "active" -> [Through("recovering", "recover") EXCEPT !.found = entry]
                 [] phase = "compensating" -> Through("compensating", "finish")
                 [] OTHER -> [Down EXCEPT !.pc = "reported"]
    /\ UNCHANGED <<content, touched, onDisk, journal, edits, crashes>>

\* Mutant of HalfDone: recovery takes back what was applied, too.
NotUndone(t) == ~Undone(t)
HalfDone(t) == state[t] \in {"prepared", "rolling_back"}
Verdict(t) ==
    CASE entry[t] \in Settled -> entry[t] [] state[t] = "applied" -> "kept" [] OTHER -> "restored"

Find(what) ==
    call' = [call EXCEPT !.pc = "recovering", !.at = 0, !.todo = {}, !.found[call.at] = what]

RecoverNext(t) ==
    /\ call.pc = "recovering" /\ t \in call.left /\ Oldest(t)
    /\ call' = IF HalfDone(t) /\ entry[t] \notin Settled
               THEN [call EXCEPT !.pc = "check", !.at = t, !.left = @ \ {t}]
               ELSE [call EXCEPT !.found[t] = Verdict(t), !.left = @ \ {t}]
    /\ UNCHANGED <<content, touched, onDisk, journal, edits, crashes>>

Recover ==
    /\ call.for = "recover" /\ call.pc \in {"undone", "refused"}
    /\ Find(Outcome)
    /\ UNCHANGED <<content, touched, onDisk, journal, edits, crashes>>

Recovered ==
    /\ call.pc = "recovering" /\ call.left = {}
    /\ entry' = call.found /\ phase' = "recovered_after_crash"
    /\ call' = [Down EXCEPT !.pc = "reported"]
    /\ UNCHANGED <<content, start, touched, onDisk, count, edits, crashes>>

\* work_together goes on from here; before the notice is in a ledger, and
\* before its own journal is begun, it may stop for many reasons.
StopEarly ==
    /\ call.pc \in {"reported", "noted", "ready"} /\ call' = Down
    /\ UNCHANGED <<content, touched, onDisk, journal, edits, crashes>>

SaveNotice ==
    /\ call.pc = "reported" /\ Go("noted")
    /\ UNCHANGED <<content, touched, onDisk, journal, edits, crashes>>

\* acknowledge_conflicts; a write that fails is passed over.
Acknowledge ==
    /\ call.pc = "noted" /\ Go("ready")
    /\ \/ phase' = IF phase = "rollback_conflict" THEN "conflict_acknowledged" ELSE phase
       \/ UNCHANGED phase
    /\ UNCHANGED <<content, start, touched, onDisk, entry, count, edits, crashes>>

-----------------------------------------------------------------------------
\* Somebody else saves a file, or brings back any version of it.
Edit(f, v) ==
    /\ edits < MaxEdits /\ edits' = edits + 1
    /\ v \in 0..count \cup {Other} /\ v # content[f]
    /\ content' = [content EXCEPT ![f] = v] /\ touched' = touched \cup {f}
    /\ UNCHANGED <<onDisk, journal, call, crashes>>

\* The process dies, or something is raised that nobody catches; files that
\* were being replaced may be torn.
Crash(T) ==
    /\ call.pc # "down" /\ crashes < MaxCrashes /\ crashes' = crashes + 1
    /\ T \subseteq (IF call.pc = "apply" THEN call.todo ELSE {}) /\ Torn(T)
    /\ call' = Down
    /\ UNCHANGED <<onDisk, journal, edits>>

Change ==
    \/ Begin \/ Refuse \/ Commit \/ Record \/ Recorded \/ Abort \/ Abandon
    \/ \E plan \in SUBSET Files : Prepare(plan)
    \/ Fail({}) \/ \E f \in Files : Replace(f) \/ Fail({f})
RollBack ==
    \/ AlreadyUndone \/ NothingApplied \/ RollbackRefused \/ BeginRollback
    \/ RestoreStops \/ RolledBack \/ \E f \in Files : Restore(f)
End == Stop \/ Keep \/ Complete \/ Cancel
Undo == Compensate \/ Compensated \/ Conflicted \/ \E t \in Tx : UndoNext(t)
Settle ==
    \/ NextRun \/ Recover \/ Recovered \/ StopEarly \/ SaveNotice \/ Acknowledge \/ NewSaga
    \/ \E t \in Tx : RecoverNext(t)

Next ==
    \/ Change \/ RollBack \/ End \/ Undo \/ Settle
    \/ \E T \in SUBSET Files : Crash(T)
    \/ \E f \in Files, v \in Version : Edit(f, v)

Spec == Init /\ [][Next]_vars

-----------------------------------------------------------------------------
Calls ==
    [pc : {"down", "working", "prepare", "apply", "record", "ledger", "check", "restore", "undone",
           "refused", "compensating", "recovering", "reported", "noted", "ready"},
     at : 0..MaxTx, todo : SUBSET Files, left : SUBSET Tx,
     for : {"nobody", "apply", "cancel", "finish", "recover"},
     found : [Tx -> Entries], stop : BOOLEAN]
States == {"none", "prepared", "applied", "aborted", "rolling_back", "rolled_back"}

\* Every variable keeps its type, and a rollback is about an entry of the journal.
TypeOK ==
    /\ {content, start} \subseteq Tree /\ touched \subseteq Files
    /\ state \in [Tx -> States]
    /\ files \in [Tx -> SUBSET Files] /\ base \in [Tx -> Tree]
    /\ phase \in Phases /\ entry \in [Tx -> Entries] /\ count \in 0..MaxTx
    /\ call \in Calls
    /\ call.pc \in {"check", "restore", "undone", "refused"} => call.at \in InJournal
    /\ edits \in 0..MaxEdits /\ crashes \in 0..MaxCrashes

\* A Stop that was carried out leaves nothing of its run: every file is as when
\* the run began, unless somebody else touched it since. An undo that gave up,
\* for whatever reason, names the change set it could not take back, and nothing
\* newer than that one is left of the run (compensate, recover_orphans).
GaveUpAt(t) ==
    /\ entry[t] = "conflict"
    /\ \A u \in InJournal : u > t => entry[u] = "compensated"
    /\ \A f \in Files \ touched :
          content[f] = start[f] \/ \E u \in InJournal : u <= t /\ f \in files[u] /\ content[f] = u
CancelUndoes ==
    /\ phase = "compensated" => \A f \in Files \ touched : content[f] = start[f]
    /\ phase \in {"rollback_conflict", "conflict_acknowledged"} => \E t \in InJournal : GaveUpAt(t)

\* Applied work is taken back only by the undo of the very run that applied it,
\* after its Stop: no pause, crash, recovery or later run does it.
AppliedWorkStays ==
    [][\A t \in Tx : state[t] = "applied" /\ state'[t] # "applied" =>
          phase = "compensating" /\ t \in InJournal]_vars

\* Between two calls the journal knows what became of every transaction: what it
\* calls applied or kept is, what it calls compensated is undone, and one that is
\* half done is named as a conflict, wherever the process died before. Only an undo
\* that was cut off, and then gave up over a newer change set that cannot be read
\* any more, leaves the entry of one it had begun to take back as it was.
AtRest == call.pc = "working" \/ phase \notin {"active", "compensating"}
BegunAndLeft(t) ==
    /\ state[t] \in {"rolling_back", "rolled_back"}
    /\ phase \in {"rollback_conflict", "conflict_acknowledged"}
    /\ \E u \in InJournal : u > t /\ entry[u] = "conflict"
JournalIsTrue ==
    AtRest => \A t \in InJournal :
        /\ entry[t] \in {"applied", "kept"} => state[t] = "applied" \/ BegunAndLeft(t)
        /\ entry[t] = "compensated" => Undone(t)
        /\ HalfDone(t) => entry[t] = "conflict" \/ BegunAndLeft(t)

\* "A user cancel still undoes the run's transactions" (docs/AGENT_ACCESS.md:358)
\* whose files nobody changed. It need not: a change set that was refused before
\* its manifest was written (Refuse) stops compensate, and all that is older stays.
StopUndoes ==
    phase \in {"compensated", "rollback_conflict"} /\ touched = {} => content = start
===============================================================================
