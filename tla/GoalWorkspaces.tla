---------------------------- MODULE GoalWorkspaces ----------------------------
(***************************************************************************)
(* The private working copies of goals that share one project, and how     *)
(* their changes are published into it (goal_workspaces.py, called from    *)
(* LongHorizonRuntime._verify_node and complete_verification).             *)
(*                                                                         *)
(* A file is the set of edits its text holds and those taken out of it     *)
(* again: the first is its content (_content), both are its identity       *)
(* (_identity).  A snapshot is read in one step.  A publication call holds *)
(* the project's publication lock; the user edits the project all the same.*)
(* The targets of a transaction are leased while they are written (share   *)
(* modes); the window the advisory locks of other systems leave, torn      *)
(* files and the steps of a rollback are in FileTransaction.               *)
(***************************************************************************)
EXTENDS Naturals, FiniteSets

CONSTANTS
    Goals, Files, Edits,
    Author,      \* edit |-> the goal whose agents make it, or None: the user
    Undoable,    \* bound: the edits that may be taken back
    MaxCrashes,  \* bound on calls that die or fail half way
    None

ASSUME WorkspaceAssumption ==
    /\ None \notin Goals /\ Author \in [Edits -> Goals \cup {None}]
    /\ Undoable \subseteq Edits /\ MaxCrashes \in Nat

VARIABLES
    source,    \* the selected project: file |-> version
    private,   \* goal |-> its working copy
    made,      \* the edits made so far
    state,     \* goal |-> its authenticated state file
    manifest,  \* goal |-> the manifest of its publication's transaction
    call,      \* the call that holds the publication lock
    status,    \* goal |-> "open" or "complete", in the goal database
    verified,  \* goal |-> the working copy its last passed checks ran on
    crashes

durable == <<source, private, state, manifest, status>>
vars == <<source, private, made, state, manifest, call, status, verified, crashes>>

Version == [text : SUBSET Edits, undone : SUBSET Edits]
Tree == [Files -> Version]
Blank == [f \in Files |-> [text |-> {}, undone |-> {}]]
Content(v) == v.text
Contents(tree) == [f \in Files |-> Content(tree[f])]
Seen(v) == v.text \cup v.undone

NoReceipt == [source |-> Blank, workspace |-> Blank, changed |-> {}]
Unpublished == [state |-> "none", receipt |-> NoReceipt]
NotPending == [on |-> FALSE, before |-> Contents(Blank), target |-> Contents(Blank)]
Idle == [goal |-> None, pc |-> "idle", todo |-> {}, receipt |-> NoReceipt, before |-> Contents(Blank)]

At(g, pc) == call.goal = g /\ call.pc = pc
Goto(pc) == call' = [call EXCEPT !.pc = pc]
Refuse == call' = Idle
Publication(g) == state[g].publication
Receipt(g) == Publication(g).receipt

-----------------------------------------------------------------------------
\* create: the listing of the project becomes the baseline, every file is
\* copied, and the copy is ready if the project is still as listed.  A retry
\* after an interruption lists again.

BeginCreate(g) ==
    /\ call = Idle /\ state[g].phase # "ready"
    /\ state' = [state EXCEPT ![g].phase = "initializing", ![g].baseline = source]
    /\ call' = [Idle EXCEPT !.goal = g, !.pc = "create"]
    /\ UNCHANGED <<source, private, made, manifest, status, verified, crashes>>

FinishCreate(g) ==
    /\ At(g, "create")
    /\ IF source = state[g].baseline
       THEN /\ private' = [private EXCEPT ![g] = source]
            /\ state' = [state EXCEPT ![g].phase = "ready"]
            /\ call' = Idle
       ELSE Refuse /\ UNCHANGED <<private, state>>
    /\ UNCHANGED <<source, made, manifest, status, verified, crashes>>

-----------------------------------------------------------------------------
\* _verify_node enters publication() and prepares.

Begin(g) ==
    /\ call = Idle /\ state[g].phase = "ready" /\ status[g] = "open"
    /\ call' = [Idle EXCEPT !.goal = g, !.pc = "prepare"]
    /\ UNCHANGED <<source, private, made, state, manifest, status, verified, crashes>>

\* _recover_publication, which prepare_publish and publish begin with.
ChangedAre(g, tree) ==
    \A f \in Receipt(g).changed : Content(source[f]) = Content(tree[f])
NotApplied(g) == manifest[g] = "prepared" /\ ChangedAre(g, Receipt(g).source)

NothingToRecover(g) ==
    \/ Publication(g).state = "none"
    \/ Publication(g).state = "prepared" /\ (manifest[g] \in {"none", "folder"} \/ NotApplied(g))

\* Mutant of SnapshotHolds: only the files that were published are compared.
SnapshotOfDelta(r, tree) == \A f \in r.changed : Content(source[f]) = Content(r.workspace[f])

\* _assert_published_snapshot: the project is the receipt's with the delta in
\* it, and the working copy is the very one that was verified.
SnapshotHolds(r, tree) ==
    /\ tree = r.workspace
    /\ \A f \in Files : Content(source[f]) =
           Content(IF f \in r.changed THEN r.workspace[f] ELSE r.source[f])

\* A transaction that was fully written is finalized ...
RecoverFinalize(g) ==
    /\ call.goal = g /\ call.pc \in {"prepare", "publish"}
    /\ Publication(g).state = "prepared" /\ manifest[g] = "prepared"
    /\ ~NotApplied(g) /\ ChangedAre(g, Receipt(g).workspace)
    /\ manifest' = [manifest EXCEPT ![g] = "applied"]
    /\ UNCHANGED <<source, private, made, state, call, status, verified, crashes>>

\* ... one that was cut short, or was put back, is not.
RecoverInterrupted(g) ==
    /\ call.goal = g /\ call.pc \in {"prepare", "publish"}
    /\ Publication(g).state = "prepared"
    /\ \/ manifest[g] \in {"aborted", "rolling_back", "rolled_back"}
       \/ manifest[g] = "prepared" /\ ~NotApplied(g) /\ ~ChangedAre(g, Receipt(g).workspace)
    /\ Refuse
    /\ UNCHANGED <<durable, made, verified, crashes>>

Landed(g) == Publication(g).state = "published" \/ manifest[g] = "applied"

\* What landed before is found again: its own receipt is verified and
\* acknowledged, if the project is still as it was left.
RecoverLanded(g) ==
    /\ call.goal = g /\ call.pc \in {"prepare", "publish"} /\ Landed(g)
    /\ IF SnapshotHolds(Receipt(g), private[g]) /\ (call.pc = "publish" => call.receipt = Receipt(g))
       THEN /\ state' = [state EXCEPT ![g].publication.state = "published"]
            /\ call' = IF call.pc = "prepare"
                       THEN [call EXCEPT !.pc = "verify", !.receipt = Receipt(g)]
                       ELSE [call EXCEPT !.pc = "acknowledge"]
       ELSE Refuse /\ UNCHANGED state
    /\ UNCHANGED <<source, private, made, manifest, status, verified, crashes>>

-----------------------------------------------------------------------------
\* prepare_publish: the receipt of a publication that did not begin is used
\* again if nothing changed, else its transaction is given up.

SameSnapshots(g, r) == source = r.source /\ private[g] = r.workspace

PriorReceipt(g) ==
    /\ At(g, "prepare") /\ NothingToRecover(g)
    /\ Publication(g).state # "none" /\ SameSnapshots(g, Receipt(g))
    /\ call' = [call EXCEPT !.pc = "verify", !.receipt = Receipt(g)]
    /\ UNCHANGED <<durable, made, verified, crashes>>

GiveUpPrior(g) ==
    /\ At(g, "prepare") /\ NothingToRecover(g)
    /\ Publication(g).state = "none" \/ ~SameSnapshots(g, Receipt(g))
    /\ manifest' = [manifest EXCEPT ![g] = IF @ = "prepared" THEN "aborted" ELSE @]
    /\ Goto("rebase")
    /\ UNCHANGED <<source, private, made, state, status, verified, crashes>>

\* What this goal wants to change.  After an interrupted rebase that is what it
\* wanted then: a file that was synchronized meanwhile is not its own.
\* Mutant of Candidate: the files as they are now.
CandidateAsFound(g) == Contents(private[g])

Candidate(g) ==
    IF state[g].pending.on THEN state[g].pending.before ELSE Contents(private[g])

Baseline(g) == Contents(state[g].baseline)
Delta(g) ==
    {f \in Files : Candidate(g)[f] # Baseline(g)[f] /\ Candidate(g)[f] # Content(source[f])}

PrivateChanged(g) ==
    /\ state[g].pending.on
    /\ \E f \in Files : Content(private[g][f]) \notin
           {state[g].pending.before[f], state[g].pending.target[f]}

\* Mutant of Conflicts: another change of the same file does not matter.
ConflictsNever(g) == FALSE

Conflicts(g) == \E f \in Delta(g) : Content(source[f]) # Baseline(g)[f]

\* Mutant of ToSync: every file that differs is taken from the project.
ToSyncAll(g) == {f \in Files : Content(private[g][f]) # Content(source[f])}

ToSync(g) == {f \in Files \ Delta(g) : Content(private[g][f]) # Content(source[f])}

BeginRebase(g) ==
    /\ At(g, "rebase") /\ ~PrivateChanged(g) /\ ~Conflicts(g)
    /\ state' = [state EXCEPT ![g].pending =
           [on |-> TRUE, before |-> Candidate(g),
            target |-> [f \in Files |-> IF f \in Delta(g) THEN Candidate(g)[f] ELSE Content(source[f])]]]
    /\ call' = [call EXCEPT !.pc = "sync", !.todo = ToSync(g), !.before = Candidate(g),
           !.receipt = [source |-> source, workspace |-> Blank, changed |-> Delta(g)]]
    /\ UNCHANGED <<source, private, made, manifest, status, verified, crashes>>

RefusePrivateChanged(g) ==
    /\ At(g, "rebase") /\ PrivateChanged(g)
    /\ Refuse
    /\ UNCHANGED <<durable, made, verified, crashes>>

RefuseConflict(g) ==
    /\ At(g, "rebase") /\ ~PrivateChanged(g) /\ Conflicts(g)
    /\ Refuse
    /\ UNCHANGED <<durable, made, verified, crashes>>

\* _copy_file refuses a file that changed since the listing.
SyncFile(g, f) ==
    /\ At(g, "sync") /\ f \in call.todo
    /\ IF Content(source[f]) = Content(call.receipt.source[f])
       THEN /\ private' = [private EXCEPT ![g][f] = source[f]]
            /\ call' = [call EXCEPT !.todo = @ \ {f}]
       ELSE Refuse /\ UNCHANGED private
    /\ UNCHANGED <<source, made, state, manifest, status, verified, crashes>>

\* The project is listed once more; the new baseline keeps the old one where
\* the goal has changes of its own.  A team may be asked to agree again on
\* files that were synchronized (reopen_rebased_workspace).
Rebased(g) == call.before # Contents(private[g])

EndRebase(g) ==
    /\ At(g, "sync") /\ call.todo = {}
    /\ IF source = call.receipt.source
       THEN /\ state' = [state EXCEPT ![g].publication = Unpublished, ![g].pending = NotPending,
                   ![g].baseline = [f \in Files |->
                       IF f \in call.receipt.changed THEN @[f] ELSE source[f]]]
            /\ manifest' = [manifest EXCEPT ![g] = "none"]
            /\ \/ call' = [call EXCEPT !.pc = "verify", !.receipt.workspace = private[g]]
               \/ Rebased(g) /\ call' = Idle
       ELSE Refuse /\ UNCHANGED <<state, manifest>>
    /\ UNCHANGED <<source, private, made, status, verified, crashes>>

-----------------------------------------------------------------------------
\* The checks run on the working copy; complete_verification drops a result
\* when they fail or when the goal changed meanwhile.

Verify(g) ==
    /\ At(g, "verify")
    /\ verified' = [verified EXCEPT ![g] = private[g]]
    /\ Goto("publish")
    /\ UNCHANGED <<durable, made, crashes>>

VerifyFails(g) ==
    /\ At(g, "verify") /\ call' = Idle
    /\ UNCHANGED <<durable, made, verified, crashes>>

\* publish: the snapshots still are the receipt's; the intent is written down
\* before the transaction begins.
BeginPublish(g) ==
    /\ At(g, "publish") /\ NothingToRecover(g)
    /\ IF SameSnapshots(g, call.receipt)
       THEN /\ state' = [state EXCEPT ![g].publication = [state |-> "prepared", receipt |-> call.receipt]]
            /\ Goto("apply")
       ELSE Refuse /\ UNCHANGED state
    /\ UNCHANGED <<source, private, made, manifest, status, verified, crashes>>

\* FileTransaction.apply.  Its folder is made before its manifest is written,
\* and a folder without a manifest cannot be used again.
AsPlanned == \A f \in call.receipt.changed : Content(source[f]) = Content(call.receipt.source[f])

PrepareTransaction(g) ==
    /\ At(g, "apply") /\ call.receipt.changed # {}
    /\ IF AsPlanned /\ manifest[g] \in {"none", "prepared"}
       THEN /\ manifest' = [manifest EXCEPT ![g] = IF @ = "none" THEN "folder" ELSE @]
            /\ Goto(IF manifest[g] = "none" THEN "manifest" ELSE "lease")
       ELSE Refuse /\ UNCHANGED manifest
    /\ UNCHANGED <<source, private, made, state, status, verified, crashes>>

WriteManifest(g) ==
    /\ At(g, "manifest")
    /\ IF AsPlanned
       THEN manifest' = [manifest EXCEPT ![g] = "prepared"] /\ Goto("lease")
       ELSE Refuse /\ UNCHANGED manifest
    /\ UNCHANGED <<source, private, made, state, status, verified, crashes>>

Lease(g) ==
    /\ At(g, "lease")
    /\ IF AsPlanned
       THEN /\ call' = [call EXCEPT !.pc = "write", !.todo = call.receipt.changed]
            /\ UNCHANGED manifest
       ELSE Refuse /\ manifest' = [manifest EXCEPT ![g] = "aborted"]
    /\ UNCHANGED <<source, private, made, state, status, verified, crashes>>

Write(g, f) ==
    /\ At(g, "write") /\ f \in call.todo
    /\ source' = [source EXCEPT ![f] = call.receipt.workspace[f]]
    /\ call' = [call EXCEPT !.todo = @ \ {f}]
    /\ UNCHANGED <<private, made, state, manifest, status, verified, crashes>>

CloseLeases(g) ==
    /\ At(g, "write") /\ call.todo = {} /\ Goto("commit")
    /\ UNCHANGED <<durable, made, verified, crashes>>

Commit(g) ==
    /\ At(g, "commit") /\ ChangedAre(g, call.receipt.workspace)
    /\ manifest' = [manifest EXCEPT ![g] = "applied"] /\ Goto("assert")
    /\ UNCHANGED <<source, private, made, state, status, verified, crashes>>

\* A write failed, or a file is not what was written: the transaction is rolled
\* back, unless somebody changed one of its files.
Restorable == \A f \in call.receipt.changed :
    Content(source[f]) \in {Content(call.receipt.source[f]), Content(call.receipt.workspace[f])}

Restored == [f \in Files |->
    IF f \in call.receipt.changed /\ Content(source[f]) = Content(call.receipt.workspace[f])
    THEN call.receipt.source[f] ELSE source[f]]

ApplyFails(g) ==
    /\ \/ At(g, "write") /\ call.todo # call.receipt.changed
       \/ At(g, "commit") /\ ~ChangedAre(g, call.receipt.workspace)
    /\ manifest' = [manifest EXCEPT ![g] = IF Restorable THEN "rolled_back" ELSE "rolling_back"]
    /\ source' = IF Restorable THEN Restored ELSE source
    /\ Refuse
    /\ UNCHANGED <<private, made, state, status, verified, crashes>>

NothingToApply(g) ==
    /\ At(g, "apply") /\ call.receipt.changed = {} /\ Goto("assert")
    /\ UNCHANGED <<durable, made, verified, crashes>>

AssertPublished(g) ==
    /\ At(g, "assert")
    /\ IF SnapshotHolds(call.receipt, private[g])
       THEN /\ state' = [state EXCEPT ![g].publication.state = "published"]
            /\ Goto("acknowledge")
       ELSE Refuse /\ UNCHANGED state
    /\ UNCHANGED <<source, private, made, manifest, status, verified, crashes>>

\* The goal's database transaction commits, and the lock is released.
Acknowledge(g) ==
    /\ At(g, "acknowledge")
    /\ status' = [status EXCEPT ![g] = "complete"] /\ call' = Idle
    /\ UNCHANGED <<source, private, made, state, manifest, verified, crashes>>

-----------------------------------------------------------------------------
\* The user edits the project, undoes an edit, or saves a goal's version of a
\* file by hand.  Files under a lease cannot be written.
Leased(f) == call.pc = "write" /\ f \in call.receipt.changed

UserEdit(f) ==
    /\ ~Leased(f)
    /\ \/ \E e \in Edits \ made :
            /\ Author[e] = None
            /\ source' = [source EXCEPT ![f].text = @ \cup {e}] /\ made' = made \cup {e}
       \/ \E e \in source[f].text \cap Undoable :
            /\ Author[e] = None
            /\ source' = [source EXCEPT ![f].text = @ \ {e}, ![f].undone = @ \cup {e}]
            /\ UNCHANGED made
       \/ \E g \in Goals :
            /\ Seen(source[f]) \subseteq Seen(private[g][f]) /\ source[f] # private[g][f]
            /\ source' = [source EXCEPT ![f] = private[g][f]] /\ UNCHANGED made
    /\ UNCHANGED <<private, state, manifest, call, status, verified, crashes>>

\* The goal's agents work while none of its calls runs.
AgentEdit(g, f) ==
    /\ state[g].phase = "ready" /\ status[g] = "open" /\ call.goal # g
    /\ \/ \E e \in Edits \ made :
            /\ Author[e] = g
            /\ private' = [private EXCEPT ![g][f].text = @ \cup {e}] /\ made' = made \cup {e}
       \/ \E e \in private[g][f].text \cap Undoable :
            /\ Author[e] = g
            /\ private' = [private EXCEPT ![g][f].text = @ \ {e}, ![g][f].undone = @ \cup {e}]
            /\ UNCHANGED made
    /\ UNCHANGED <<source, state, manifest, call, status, verified, crashes>>

\* The process dies, or the call fails on an error: what is on disk stays.
Crash ==
    /\ call # Idle /\ crashes < MaxCrashes /\ crashes' = crashes + 1
    /\ call' = Idle
    /\ UNCHANGED <<durable, made, verified>>

Init ==
    /\ source = Blank /\ private = [g \in Goals |-> Blank] /\ made = {}
    /\ state = [g \in Goals |-> [phase |-> "none", baseline |-> Blank,
                                 publication |-> Unpublished, pending |-> NotPending]]
    /\ manifest = [g \in Goals |-> "none"] /\ call = Idle
    /\ status = [g \in Goals |-> "open"] 
    /\ verified = [g \in Goals |-> Blank] /\ crashes = 0

Step(g) ==
    \/ FinishCreate(g) \/ RecoverFinalize(g) \/ RecoverInterrupted(g) \/ RecoverLanded(g)
    \/ PriorReceipt(g) \/ GiveUpPrior(g)
    \/ BeginRebase(g) \/ RefusePrivateChanged(g) \/ RefuseConflict(g) \/ EndRebase(g)
    \/ Verify(g) \/ VerifyFails(g) \/ BeginPublish(g)
    \/ PrepareTransaction(g) \/ WriteManifest(g) \/ Lease(g) \/ CloseLeases(g) \/ Commit(g)
    \/ ApplyFails(g) \/ NothingToApply(g) \/ AssertPublished(g) \/ Acknowledge(g)
    \/ \E f \in Files : SyncFile(g, f) \/ Write(g, f)

Next ==
    \/ \E g \in Goals : BeginCreate(g) \/ Begin(g) \/ Step(g)
    \/ \E f \in Files : UserEdit(f) \/ \E g \in Goals : AgentEdit(g, f)
    \/ Crash

Spec == Init /\ [][Next]_vars

-----------------------------------------------------------------------------
\* Every variable keeps its type, and a call belongs to a goal with a copy.
TypeOK ==
    /\ source \in Tree /\ private \in [Goals -> Tree] /\ made \subseteq Edits
    /\ \A g \in Goals :
          /\ state[g].phase \in {"none", "initializing", "ready"}
          /\ state[g].baseline \in Tree
          /\ Publication(g).state \in {"none", "prepared", "published"}
          /\ Receipt(g).changed \subseteq Files
          /\ state[g].pending.before \in [Files -> SUBSET Edits]
    /\ manifest \in [Goals -> {"none", "folder", "prepared", "applied", "aborted", "rolling_back", "rolled_back"}]
    /\ call.goal = None <=> call = Idle
    /\ call # Idle /\ call.pc # "create" => state[call.goal].phase = "ready"
    /\ status \in [Goals -> {"open", "complete"}]
    /\ verified \in [Goals -> Tree] /\ crashes \in 0..MaxCrashes

Own(g, text) == {e \in text : Author[e] = g}

\* What stands in the project is never overwritten by a version that was not
\* made from it, whoever wrote it and wherever a publication was interrupted
\* (prepare_publish and publish compare with the baseline, FileTransaction with
\* the receipt); only a transaction's own rollback takes back what it wrote.
PutBack(f) ==
    \E g \in Goals : /\ manifest'[g] = "rolled_back" /\ manifest[g] # "rolled_back"
                     /\ Content(source[f]) = Content(Receipt(g).workspace[f])
NoLostUpdate ==
    [][\A f \in Files : source[f].text \subseteq Seen(source'[f]) \/ PutBack(f)]_vars

\* A goal publishes only files its own agents worked on: a file synchronized
\* from the project, by a rebase that was interrupted too, is never mistaken
\* for a change of the goal (pending_rebase).
OnlyOwnDelta ==
    \A g \in Goals : \A f \in Receipt(g).changed : Own(g, Seen(Receipt(g).workspace[f])) # {}

\* Synchronizing the working copy never takes an edit of the goal's agents out
\* of it (the rebase of prepare_publish leaves the goal's delta alone).
AgentWorkKept ==
    [][\A g \in Goals : \A f \in Files :
          Own(g, private[g][f].text) \subseteq Seen(private'[g][f])]_vars

\* A publication counts as done only when the whole project is what the checks
\* of that goal passed on, after recovery from a crash too
\* (_assert_published_snapshot).
PublishedIsVerified ==
    [][\A g \in Goals :
          Publication(g).state # "published" /\ Publication(g)'.state = "published" =>
             private[g] = verified[g] /\ Contents(source) = Contents(verified[g])]_vars
===============================================================================
