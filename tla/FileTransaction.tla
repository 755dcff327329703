---------------------------- MODULE FileTransaction ----------------------------
(***************************************************************************)
(* One file transaction of changes.py: prepare, apply, the unwinding of a  *)
(* failed apply, rollback and recovery, with a crash between any two       *)
(* writes and an editor that ignores the locks (flock is advisory).        *)
(*                                                                         *)
(* A manifest write and a restore are atomic (atomic_write); a replacement *)
(* is not: the file is truncated and written in place, and a new file is   *)
(* there, empty, before it is leased.  Every read, write and removal may   *)
(* fail.  Calls hold the transaction lock, so one runs at a time.  Its     *)
(* files are taken in any order; modes, hard links and path grants are     *)
(* left out, and a new file is planned to hold something.                  *)
(***************************************************************************)
EXTENDS Naturals

CONSTANTS
    Files,       \* the files of the change plan
    Created,     \* those that do not exist before it
    Deleted,     \* those that do not exist after it
    MaxEdits,    \* bound on edits by somebody else
    MaxCrashes,  \* bound on crashes
    None

ASSUME TransactionAssumption ==
    /\ Files # {} /\ None \notin Files
    /\ Created \subseteq Files /\ Deleted \subseteq Files \ Created

VARIABLES
    content,   \* file |-> what it holds
    manifest,  \* the state the manifest on disk records
    op,        \* the call that holds the transaction lock
    stuck,     \* the new files a failed call left behind, for good
    foreign,   \* the files somebody else touched
    edits, crashes

vars == <<content, manifest, op, stuck, foreign, edits, crashes>>

\* "empty" and "torn" are ours, new and half written, "edit" is somebody
\* else's: to the code all are "other" (_rollback_record_state).
Contents == {"before", "after", "empty", "torn", "edit"}
Other == {"empty", "torn", "edit"}
Holds(what) == \A f \in Files : content[f] = what

\* Where a call is, the files it has not come to, the exclusive targets it
\* holds, the file it has in hand, and whether a replacement was attempted.
Idle == [pc |-> "idle", todo |-> {}, leased |-> {}, hand |-> None, attempted |-> FALSE]
At(pc) == [Idle EXCEPT !.pc = pc]

-----------------------------------------------------------------------------
\* prepare and the start of apply: the plan's baselines must hold, and the
\* manifest of an earlier attempt may be used again only if it is "prepared".

Reusable == manifest \in {"none", "prepared"}

Prepare ==
    /\ op.pc = "idle" /\ Reusable /\ Holds("before")
    /\ manifest' = "prepared"
    /\ UNCHANGED <<content, op, stuck, foreign, edits, crashes>>

Apply ==
    /\ op.pc = "idle" /\ Reusable /\ Holds("before")
    /\ manifest' = "prepared"
    /\ op' = [At("lease") EXCEPT !.todo = Files]
    /\ UNCHANGED <<content, stuck, foreign, edits, crashes>>

\* _ExclusiveTarget.__enter__: a new file is created first (O_EXCL), then every
\* file is locked, read and compared.
Create(f) ==
    /\ op.pc = "lease" /\ op.hand = None
    /\ f \in op.todo \cap Created /\ content[f] = "before"
    /\ op' = [op EXCEPT !.hand = f]
    /\ content' = [content EXCEPT ![f] = "empty"]
    /\ UNCHANGED <<manifest, stuck, foreign, edits, crashes>>

AsExpected(f) == content[f] = IF f \in Created THEN "empty" ELSE "before"

Lease(f) ==
    /\ op.pc = "lease" /\ f \in op.todo /\ AsExpected(f)
    /\ op.hand = IF f \in Created THEN f ELSE None
    /\ op' = [op EXCEPT !.hand = None, !.todo = @ \ {f}, !.leased = @ \cup {f}]
    /\ UNCHANGED <<content, manifest, stuck, foreign, edits, crashes>>

AllLeased ==
    /\ op.pc = "lease" /\ op.todo = {}
    /\ op' = [op EXCEPT !.pc = "replace", !.todo = Files]
    /\ UNCHANGED <<content, manifest, stuck, foreign, edits, crashes>>

\* _ExclusiveTarget.write truncates the file first; delete is one step.
BeginReplace(f) ==
    /\ op.pc = "replace" /\ op.hand = None /\ f \in op.todo
    /\ op' = [op EXCEPT !.hand = f, !.attempted = TRUE]
    /\ content' = IF f \in Deleted THEN content ELSE [content EXCEPT ![f] = "torn"]
    /\ UNCHANGED <<manifest, stuck, foreign, edits, crashes>>

EndReplace(f) ==
    /\ op.pc = "replace" /\ op.hand = f /\ f \in Files
    /\ op' = [op EXCEPT !.hand = None, !.todo = @ \ {f}]
    /\ content' = [content EXCEPT ![f] = "after"]
    /\ UNCHANGED <<manifest, stuck, foreign, edits, crashes>>

AllReplaced ==
    /\ op.pc = "replace" /\ op.todo = {}
    /\ op' = [op EXCEPT !.pc = "verify", !.leased = {}]
    /\ UNCHANGED <<content, manifest, stuck, foreign, edits, crashes>>

Commit ==
    /\ op.pc = "verify" /\ Holds("after")
    /\ manifest' = "applied" /\ op' = Idle
    /\ UNCHANGED <<content, stuck, foreign, edits, crashes>>

-----------------------------------------------------------------------------
\* A failed apply: the targets are closed, which removes the new files unless
\* all were written, and the manifest is aborted or rolled back.

Unwinding == [op EXCEPT !.pc = "unwind", !.hand = None, !.todo = op.leased \cap Created]

ApplyFails ==
    /\ \/ op.pc = "lease" /\ op.hand = None
       \/ op.pc = "replace" /\ op.attempted
       \/ op.pc = "verify"
    /\ op' = Unwinding
    /\ UNCHANGED <<content, manifest, stuck, foreign, edits, crashes>>

\* A new file that was written to since its creation is removed as it is.
CreateConflict(f) ==
    /\ op.pc = "lease" /\ op.hand = f /\ f \in Files /\ ~AsExpected(f)
    /\ op' = Unwinding
    /\ content' = [content EXCEPT ![f] = "before"]
    /\ UNCHANGED <<manifest, stuck, foreign, edits, crashes>>

\* One that cannot be locked or read is left: its __exit__ is not registered yet.
CreateStrands(f) ==
    /\ op.pc = "lease" /\ op.hand = f /\ f \in Files
    /\ op' = Unwinding /\ stuck' = stuck \cup {f}
    /\ UNCHANGED <<content, manifest, foreign, edits, crashes>>

Unwind(f) ==
    /\ op.pc = "unwind" /\ f \in op.todo
    /\ op' = [op EXCEPT !.todo = @ \ {f}]
    /\ content' = [content EXCEPT ![f] = "before"]
    /\ UNCHANGED <<manifest, stuck, foreign, edits, crashes>>

UnwindFails(f) ==
    /\ op.pc = "unwind" /\ f \in op.todo
    /\ op' = [op EXCEPT !.todo = @ \ {f}] /\ stuck' = stuck \cup {f}
    /\ UNCHANGED <<content, manifest, foreign, edits, crashes>>

\* Mutant of Unwound: the new files are still there.
UnwoundEarly == op.pc = "unwind"
Unwound == op.pc = "unwind" /\ op.todo = {}

Abort ==
    /\ Unwound /\ ~op.attempted
    /\ manifest' = "aborted" /\ op' = Idle
    /\ UNCHANGED <<content, stuck, foreign, edits, crashes>>

AutomaticRollback ==
    /\ Unwound /\ op.attempted
    /\ manifest' = "rolling_back" /\ op' = At("check")
    /\ UNCHANGED <<content, stuck, foreign, edits, crashes>>

\* Not even the manifest can be written: it stays "prepared".
ClosingFails ==
    /\ Unwound /\ op' = Idle
    /\ UNCHANGED <<content, manifest, stuck, foreign, edits, crashes>>

-----------------------------------------------------------------------------
\* rollback, and recover with the action "rollback".

Rollback ==
    /\ op.pc = "idle" /\ manifest \in {"prepared", "applied", "rolling_back"}
    /\ op' = At("check")
    /\ UNCHANGED <<content, manifest, stuck, foreign, edits, crashes>>

\* An interrupted apply is put back only from one of its boundaries, anything
\* else unless a file matches neither; and what it needs may be unreadable: a
\* target, a backup that is gone or was changed (_verified_backup), a manifest.
InDoubt == manifest = "prepared" /\ ~Holds("before") /\ ~Holds("after")
Conflict == \E f \in Files : content[f] \in Other

RollbackRefused ==
    /\ op.pc = "check" /\ op' = Idle
    /\ UNCHANGED <<content, manifest, stuck, foreign, edits, crashes>>

NothingApplied ==
    /\ op.pc = "check" /\ manifest = "prepared" /\ Holds("before")
    /\ manifest' = "aborted" /\ op' = Idle
    /\ UNCHANGED <<content, stuck, foreign, edits, crashes>>

BeginRollback ==
    /\ op.pc = "check" /\ ~InDoubt /\ ~Conflict
    /\ ~(manifest = "prepared" /\ Holds("before"))
    /\ manifest' = "rolling_back"
    /\ op' = [At("restore") EXCEPT !.todo = Files]
    /\ UNCHANGED <<content, stuck, foreign, edits, crashes>>

\* Mutant of Restorable: a file that changed since the check is restored too.
RestorableAnyhow(f) == content[f] # "before"

\* Each file is looked at again; a file that was restored before counts.
Restorable(f) == content[f] = "after"
Restored(f) == content[f] = "before"

BeginRestore(f) ==
    /\ op.pc = "restore" /\ op.hand = None /\ f \in op.todo
    /\ \/ Restored(f) /\ op' = [op EXCEPT !.todo = @ \ {f}]
       \/ Restorable(f) /\ op' = [op EXCEPT !.hand = f]
    /\ UNCHANGED <<content, manifest, stuck, foreign, edits, crashes>>

EndRestore(f) ==
    /\ op.pc = "restore" /\ op.hand = f /\ f \in Files
    /\ op' = [op EXCEPT !.hand = None, !.todo = @ \ {f}]
    /\ content' = [content EXCEPT ![f] = "before"]
    /\ UNCHANGED <<manifest, stuck, foreign, edits, crashes>>

\* A restore or a manifest write fails, or the file changed since the check.
RollbackFails ==
    /\ op.pc = "restore" /\ op' = Idle
    /\ UNCHANGED <<content, manifest, stuck, foreign, edits, crashes>>

RollbackDone ==
    /\ op.pc = "restore" /\ op.todo = {}
    /\ manifest' = "rolled_back" /\ op' = Idle
    /\ UNCHANGED <<content, stuck, foreign, edits, crashes>>

\* recover with the action "finalize".
Finalize ==
    /\ op.pc = "idle" /\ manifest = "prepared" /\ Holds("after")
    /\ manifest' = "applied"
    /\ UNCHANGED <<content, op, stuck, foreign, edits, crashes>>

-----------------------------------------------------------------------------
\* Somebody else saves a file, or puts it back as it was, at any time.
Edit(f) ==
    /\ edits < MaxEdits /\ edits' = edits + 1
    /\ \E what \in {"before", "edit"} : content' = [content EXCEPT ![f] = what]
    /\ foreign' = foreign \cup {f}
    /\ UNCHANGED <<manifest, op, stuck, crashes>>

Crash ==
    /\ op.pc # "idle" /\ crashes < MaxCrashes /\ crashes' = crashes + 1
    /\ op' = Idle
    /\ UNCHANGED <<content, manifest, stuck, foreign, edits>>

Init ==
    /\ content = [f \in Files |-> "before"] /\ manifest = "none" /\ op = Idle
    /\ stuck = {} /\ foreign = {} /\ edits = 0 /\ crashes = 0

Call ==
    \/ Prepare \/ Apply \/ AllLeased \/ AllReplaced \/ Commit
    \/ ApplyFails \/ Abort \/ AutomaticRollback \/ ClosingFails
    \/ Rollback \/ RollbackRefused \/ NothingApplied \/ BeginRollback
    \/ RollbackFails \/ RollbackDone \/ Finalize
    \/ \E f \in Files :
          \/ Create(f) \/ Lease(f) \/ BeginReplace(f) \/ EndReplace(f)
          \/ CreateConflict(f) \/ CreateStrands(f) \/ Unwind(f) \/ UnwindFails(f)
          \/ BeginRestore(f) \/ EndRestore(f)

Next == Call \/ Crash \/ \E f \in Files : Edit(f)

Spec == Init /\ [][Next]_vars

-----------------------------------------------------------------------------
\* Every variable keeps its type, and the file in hand is one still to do.
TypeOK ==
    /\ content \in [Files -> Contents]
    /\ manifest \in {"none", "prepared", "applied", "aborted", "rolling_back", "rolled_back"}
    /\ op \in [pc : {"idle", "lease", "replace", "verify", "unwind", "check", "restore"},
               todo : SUBSET Files, leased : SUBSET Files,
               hand : Files \cup {None}, attempted : BOOLEAN]
    /\ op.hand # None => op.hand \in op.todo
    /\ foreign \subseteq Files /\ stuck \subseteq Created

\* The manifest speaks of the whole change: when it says "applied" every file
\* nobody else touched is as planned, when it says "aborted" or "rolled_back"
\* every one is as before, but for new files, still empty, that could not be
\* taken away again; so across crashes and failures at any write. A closed
\* change is never written again (FileTransaction.apply and rollback).
Phase ==
    CASE manifest = "applied" -> "applied"
      [] manifest \in {"aborted", "rolled_back"} -> "reverted"
      [] OTHER -> "open"
Promise == INSTANCE AtomicChange WITH phase <- Phase, New <- Created
AllOrNothing == Promise!Spec

\* Once a transaction was aborted or its rollback began, nothing is applied
\* under it again, however often the rollback is interrupted and the change is
\* retried (_prepare_locked refuses to reuse it).
GivenUp == manifest \in {"rolling_back", "aborted", "rolled_back"}
Replaced(f) == content[f] # "after" /\ content'[f] = "after"
NeverReapplied == [][GivenUp => GivenUp' /\ ~\E f \in Files : Replaced(f)]_vars

\* Somebody's edit is never overwritten, unless it was made after the call that
\* overwrites it had checked that very file (_ExclusiveTarget, rollback).
CheckedBefore(f) == f \in op.leased \cup {op.hand}
Overwritten(f) == content[f] = "edit" /\ content'[f] # "edit" /\ edits' = edits
EditsKept ==
    [][\A f \in Files :
          /\ Overwritten(f) => CheckedBefore(f)
          /\ CheckedBefore(f)' /\ ~CheckedBefore(f) => content[f] # "edit"]_vars
===============================================================================
