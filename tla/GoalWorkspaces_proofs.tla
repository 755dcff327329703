------------------------- MODULE GoalWorkspaces_proofs -------------------------
(* What the publication of isolated workspaces promises for every number of   *)
(* goals, files and edits, and of calls that die: a goal publishes only its   *)
(* own verified changes and overwrites nobody's.                              *)
EXTENDS GoalWorkspaces, TLAPS

Receipts == [source : Tree, workspace : Tree, changed : SUBSET Files]
Texts == [Files -> SUBSET Edits]
Pending == [on : BOOLEAN, before : Texts, target : Texts]
Publications == [state : {"none", "prepared", "published"}, receipt : Receipts]
GoalState == [phase : {"none", "initializing", "ready"}, baseline : Tree,
              publication : Publications, pending : Pending]
\* From "apply" to "assert" the intent to publish is on record.
Publishing == {"apply", "manifest", "lease", "write", "commit", "assert"}
Steps == {"idle", "create", "prepare", "rebase", "sync", "verify", "publish", "acknowledge"}
         \cup Publishing
Call == [goal : Goals \cup {None}, pc : Steps, todo : SUBSET Files,
         receipt : Receipts, before : Texts]
Manifests == {"none", "folder", "prepared", "applied", "aborted", "rolling_back", "rolled_back"}

TreesTyped ==
    /\ source \in Tree /\ private \in [Goals -> Tree] /\ made \subseteq Edits
    /\ verified \in [Goals -> Tree]
StateTyped ==
    /\ state \in [Goals -> GoalState] /\ manifest \in [Goals -> Manifests]
    /\ status \in [Goals -> {"open", "complete"}] /\ crashes \in 0..MaxCrashes
CallTyped ==
    /\ call \in Call
    /\ call.goal = None => call = Idle
    /\ call.pc = "idle" => call.goal = None
    /\ call.goal # None /\ call.pc # "create" => state[call.goal].phase = "ready"
Typed == TreesTyped /\ StateTyped /\ CallTyped

\* How a file of a copy, p, came from its baseline, b: it contains it, and what
\* is different is work of the goal's agents; only a file that was not the
\* goal's own when a rebase began may have been replaced since.
Descends(g, b, p) ==
    /\ b.text \subseteq Seen(p)
    /\ Own(g, Seen(p)) = {} => p.text = b.text
CopyOK(g, st, p) ==
    /\ st.phase # "ready" => st.pending.on = FALSE
    /\ st.phase = "ready" => \A f \in Files :
          \/ Descends(g, st.baseline[f], p[f])
          \/ st.pending.on = TRUE /\ st.pending.before[f] = st.baseline[f].text
    /\ st.pending.on = TRUE => \A f \in Files :
          st.pending.before[f] # st.baseline[f].text => st.pending.target[f] = st.pending.before[f]
Copies == \A g \in Goals : CopyOK(g, state[g], private[g])

\* A receipt: its changed files were made from the project's and by the goal,
\* the others are the project's.
ReceiptOK(g, r) ==
    /\ \A f \in r.changed :
          r.source[f].text \subseteq Seen(r.workspace[f]) /\ Own(g, Seen(r.workspace[f])) # {}
    /\ \A f \in Files \ r.changed : r.source[f].text = r.workspace[f].text
RecordOK(g, publication, man, ver) ==
    /\ ReceiptOK(g, publication.receipt)
    /\ publication.state = "none" => man = "none"
    /\ publication.state = "prepared" => ver = publication.receipt.workspace
Records == \A g \in Goals : RecordOK(g, Publication(g), manifest[g], verified[g])

\* What the call knows by where it is: in a rebase, which files are the goal's
\* own and which are synchronized already ...
SyncKnows(c, st, p) ==
    /\ st.pending.on = TRUE
    /\ \A f \in c.receipt.changed :
          /\ st.pending.before[f] # st.baseline[f].text
          /\ p[f].text = st.pending.before[f]
          /\ c.receipt.source[f].text = st.baseline[f].text
    /\ \A f \in Files \ c.receipt.changed : f \in c.todo \/ p[f].text = c.receipt.source[f].text
    /\ \A f \in c.todo : f \notin c.receipt.changed /\ st.pending.before[f] = st.baseline[f].text
\* ... and afterwards, that its receipt is of the copy as it is, what was
\* verified, and what is on record.
ReceiptKnows(g, c, st, man, p, ver) ==
    /\ c.pc \in {"verify", "publish"} \cup Publishing =>
          ReceiptOK(g, c.receipt) /\ p = c.receipt.workspace
    /\ c.pc = "verify" /\ st.publication.state = "prepared" => c.receipt = st.publication.receipt
    /\ c.pc \in {"publish"} \cup Publishing => ver = c.receipt.workspace
    /\ c.pc \in Publishing => st.publication = [state |-> "prepared", receipt |-> c.receipt]
    /\ c.pc \in {"lease", "write", "commit"} => man = "prepared"
WriteKnows(c, src) ==
    c.pc = "write" =>
        /\ c.todo \subseteq c.receipt.changed
        /\ \A f \in c.todo : src[f].text = c.receipt.source[f].text
CallKnows ==
    /\ \A g \in Goals : call.goal = g =>
          /\ call.pc = "sync" => SyncKnows(call, state[g], private[g])
          /\ ReceiptKnows(g, call, state[g], manifest[g], private[g], verified[g])
    /\ WriteKnows(call, source)

IInv == Typed /\ Copies /\ Records /\ CallKnows

--------------------------------------------------------------------------------
(* Which steps change which variable.                                         *)

\* For each variable: it stays as it is but in these steps.
LEMMA SourceChange ==
  ASSUME [Next]_vars
  PROVE  \/ UNCHANGED source
         \/ \E g \in Goals : ApplyFails(g) \/ \E f \in Files : Write(g, f)
         \/ \E f \in Files : UserEdit(f)
<1>1. CASE UNCHANGED vars \/ Crash
  BY <1>1 DEF vars, Crash, durable
<1>2. ASSUME NEW g \in Goals, Step(g)
      PROVE  UNCHANGED source \/ ApplyFails(g) \/ \E f \in Files : Write(g, f)
  BY <1>2 DEF Step, durable, FinishCreate, RecoverFinalize, RecoverInterrupted, RecoverLanded,
       PriorReceipt, GiveUpPrior, BeginRebase, RefusePrivateChanged, RefuseConflict,
       SyncFile, EndRebase, Verify, VerifyFails, BeginPublish, PrepareTransaction,
       WriteManifest, Lease, CloseLeases, Commit, NothingToApply, AssertPublished,
       Acknowledge
<1>3. ASSUME NEW g \in Goals, BeginCreate(g) \/ Begin(g)
      PROVE  UNCHANGED source
  BY <1>3 DEF BeginCreate, Begin
<1>4. ASSUME NEW f \in Files, NEW g \in Goals, AgentEdit(g, f)
      PROVE  UNCHANGED source
  BY <1>4 DEF AgentEdit
<1> QED BY <1>1, <1>2, <1>3, <1>4 DEF Next

LEMMA PrivateChange ==
  ASSUME [Next]_vars
  PROVE  \/ UNCHANGED private
         \/ \E g \in Goals : FinishCreate(g)
         \/ \E g \in Goals, f \in Files : SyncFile(g, f) \/ AgentEdit(g, f)
<1>1. CASE UNCHANGED vars \/ Crash
  BY <1>1 DEF vars, Crash, durable
<1>2. ASSUME NEW g \in Goals, Step(g)
      PROVE  UNCHANGED private \/ FinishCreate(g) \/ \E f \in Files : SyncFile(g, f)
  BY <1>2 DEF Step, durable, RecoverFinalize, RecoverInterrupted, RecoverLanded,
       PriorReceipt, GiveUpPrior, BeginRebase, RefusePrivateChanged, RefuseConflict,
       EndRebase, Verify, VerifyFails, BeginPublish, PrepareTransaction,
       WriteManifest, Lease, CloseLeases, Commit, NothingToApply, AssertPublished,
       Acknowledge, ApplyFails, Write
<1>3. ASSUME NEW g \in Goals, BeginCreate(g) \/ Begin(g)
      PROVE  UNCHANGED private
  BY <1>3 DEF BeginCreate, Begin
<1>4. ASSUME NEW f \in Files, UserEdit(f)
      PROVE  UNCHANGED private
  BY <1>4 DEF UserEdit
<1> QED BY <1>1, <1>2, <1>3, <1>4 DEF Next

LEMMA StateChange ==
  ASSUME [Next]_vars
  PROVE  \/ UNCHANGED state
         \/ \E g \in Goals : \/ BeginCreate(g) \/ FinishCreate(g) \/ RecoverLanded(g)
                             \/ BeginRebase(g) \/ EndRebase(g) \/ BeginPublish(g)
                             \/ AssertPublished(g)
<1>1. CASE UNCHANGED vars \/ Crash
  BY <1>1 DEF vars, Crash, durable
<1>2. ASSUME NEW g \in Goals, Step(g)
      PROVE  \/ UNCHANGED state
             \/ FinishCreate(g) \/ RecoverLanded(g) \/ BeginRebase(g) \/ EndRebase(g)
             \/ BeginPublish(g) \/ AssertPublished(g)
  BY <1>2 DEF Step, durable, RecoverFinalize, RecoverInterrupted, PriorReceipt, GiveUpPrior,
       RefusePrivateChanged, RefuseConflict, SyncFile, Verify, VerifyFails,
       PrepareTransaction, WriteManifest, Lease, CloseLeases, Commit, NothingToApply,
       Acknowledge, ApplyFails, Write
<1>3. ASSUME NEW g \in Goals, Begin(g)
      PROVE  UNCHANGED state
  BY <1>3 DEF Begin
<1>4. ASSUME NEW f \in Files, UserEdit(f) \/ \E g \in Goals : AgentEdit(g, f)
      PROVE  UNCHANGED state
  BY <1>4 DEF UserEdit, AgentEdit
<1> QED BY <1>1, <1>2, <1>3, <1>4 DEF Next

LEMMA ManifestChange ==
  ASSUME [Next]_vars
  PROVE  \/ UNCHANGED manifest
         \/ \E g \in Goals : \/ RecoverFinalize(g) \/ GiveUpPrior(g) \/ EndRebase(g)
                             \/ PrepareTransaction(g) \/ WriteManifest(g) \/ Lease(g)
                             \/ Commit(g) \/ ApplyFails(g)
<1>1. CASE UNCHANGED vars \/ Crash
  BY <1>1 DEF vars, Crash, durable
<1>2. ASSUME NEW g \in Goals, Step(g)
      PROVE  \/ UNCHANGED manifest
             \/ RecoverFinalize(g) \/ GiveUpPrior(g) \/ EndRebase(g) \/ PrepareTransaction(g)
             \/ WriteManifest(g) \/ Lease(g) \/ Commit(g) \/ ApplyFails(g)
  BY <1>2 DEF Step, durable, FinishCreate, RecoverInterrupted, RecoverLanded, PriorReceipt,
       BeginRebase, RefusePrivateChanged, RefuseConflict, SyncFile, Verify, VerifyFails,
       BeginPublish, CloseLeases, NothingToApply, AssertPublished, Acknowledge, Write
<1>3. ASSUME NEW g \in Goals, BeginCreate(g) \/ Begin(g)
      PROVE  UNCHANGED manifest
  BY <1>3 DEF BeginCreate, Begin
<1>4. ASSUME NEW f \in Files, UserEdit(f) \/ \E g \in Goals : AgentEdit(g, f)
      PROVE  UNCHANGED manifest
  BY <1>4 DEF UserEdit, AgentEdit
<1> QED BY <1>1, <1>2, <1>3, <1>4 DEF Next

LEMMA VerifiedChange ==
  ASSUME [Next]_vars
  PROVE  UNCHANGED verified \/ \E g \in Goals : Verify(g)
<1>1. CASE UNCHANGED vars \/ Crash
  BY <1>1 DEF vars, Crash
<1>2. ASSUME NEW g \in Goals, Step(g)
      PROVE  UNCHANGED verified \/ Verify(g)
  BY <1>2 DEF Step, FinishCreate, RecoverFinalize, RecoverInterrupted, RecoverLanded,
       PriorReceipt, GiveUpPrior, BeginRebase, RefusePrivateChanged, RefuseConflict,
       SyncFile, EndRebase, VerifyFails, BeginPublish, PrepareTransaction,
       WriteManifest, Lease, CloseLeases, Commit, NothingToApply, AssertPublished,
       Acknowledge, ApplyFails, Write
<1>3. ASSUME NEW g \in Goals, BeginCreate(g) \/ Begin(g)
      PROVE  UNCHANGED verified
  BY <1>3 DEF BeginCreate, Begin
<1>4. ASSUME NEW f \in Files, UserEdit(f) \/ \E g \in Goals : AgentEdit(g, f)
      PROVE  UNCHANGED verified
  BY <1>4 DEF UserEdit, AgentEdit
<1> QED BY <1>1, <1>2, <1>3, <1>4 DEF Next

\* While a call runs, the steps are its own, the user's, and those of the
\* agents of other goals; none but its own move it.
LEMMA CallChange ==
  ASSUME [Next]_vars
  PROVE  \/ UNCHANGED call
         \/ Crash
         \/ \E g \in Goals : BeginCreate(g) \/ Begin(g) \/ Step(g)
  BY DEF Next, vars, UserEdit, AgentEdit

--------------------------------------------------------------------------------
(* Types.                                                                     *)

LEMMA BlankTyped ==
  Blank \in Tree /\ NoReceipt \in Receipts /\ Contents(Blank) \in Texts
  BY DEF Blank, Tree, Version, NoReceipt, Receipts, Contents, Content, Texts

LEMMA ContentsTyped ==
  ASSUME NEW t \in Tree
  PROVE  Contents(t) \in Texts /\ \A f \in Files : Contents(t)[f] = t[f].text
  BY DEF Tree, Version, Contents, Content, Texts

\* The parts of a goal's state, and the texts that a rebase starts from.
LEMMA StateRow ==
  ASSUME Typed, NEW g \in Goals
  PROVE  /\ state[g] \in GoalState /\ state[g].baseline \in Tree
         /\ Publication(g) \in Publications /\ Receipt(g) \in Receipts
         /\ state[g].pending \in Pending /\ Candidate(g) \in Texts
         /\ Delta(g) \subseteq Files /\ private[g] \in Tree
<1>1. /\ state[g] \in GoalState /\ state[g].baseline \in Tree
      /\ Publication(g) \in Publications /\ state[g].pending \in Pending
  BY DEF Typed, StateTyped, GoalState, Publication
<1>2. Receipt(g) \in Receipts
  BY <1>1 DEF Publications, Receipt
<1>3. private[g] \in Tree
  BY DEF Typed, TreesTyped
<1>4. Candidate(g) \in Texts
  BY <1>1, <1>3, ContentsTyped DEF Candidate, Pending
<1>5. Delta(g) \subseteq Files
  BY DEF Delta
<1> QED BY <1>1, <1>2, <1>3, <1>4, <1>5

LEMMA CallRow ==
  ASSUME Typed
  PROVE  /\ call.todo \subseteq Files /\ call.receipt \in Receipts /\ call.before \in Texts
         /\ call.receipt.source \in Tree /\ call.receipt.workspace \in Tree
         /\ call.receipt.changed \subseteq Files
<1>1. call.todo \subseteq Files /\ call.receipt \in Receipts /\ call.before \in Texts
  BY DEF Typed, CallTyped, Call
<1> QED BY <1>1 DEF Receipts

\* A version with one edit more, and with one taken back.
LEMMA VersionGrows ==
  ASSUME NEW v \in Version, NEW e \in Edits
  PROVE  LET w == [v EXCEPT !.text = @ \cup {e}]
         IN  w \in Version /\ w.text = v.text \cup {e} /\ w.undone = v.undone
  BY DEF Version

LEMMA VersionUndone ==
  ASSUME NEW v \in Version, NEW e \in v.text
  PROVE  LET w == [v EXCEPT !.text = @ \ {e}, !.undone = @ \cup {e}]
         IN  w \in Version /\ w.text = v.text \ {e} /\ w.undone = v.undone \cup {e}
  BY DEF Version

LEMMA SourceTyped ==
  ASSUME Typed, [Next]_vars
  PROVE  source' \in Tree
<1>0. source \in Tree
  BY DEF Typed, TreesTyped
<1>1. ASSUME NEW g \in Goals, NEW f \in Files, Write(g, f)
      PROVE  source' \in Tree
  BY <1>0, <1>1, CallRow DEF Write, Tree
<1>2. ASSUME NEW g \in Goals, ApplyFails(g)
      PROVE  source' \in Tree
  BY <1>0, <1>2, CallRow DEF ApplyFails, Restored, Tree
<1>3. ASSUME NEW f \in Files, UserEdit(f)
      PROVE  source' \in Tree
  <2>1. ASSUME NEW e \in Edits, source' = [source EXCEPT ![f].text = @ \cup {e}]
        PROVE  source' \in Tree
    BY <1>0, <2>1 DEF Tree, Version
  <2>2. ASSUME NEW e \in source[f].text,
               source' = [source EXCEPT ![f].text = @ \ {e}, ![f].undone = @ \cup {e}]
        PROVE  source' \in Tree
    <3> DEFINE v == [source[f] EXCEPT !.text = @ \ {e}, !.undone = @ \cup {e}]
    <3>1. v \in Version
      BY <1>0, VersionUndone DEF Tree
    <3>2. source' = [source EXCEPT ![f] = v]
      BY <2>2
    <3> HIDE DEF v
    <3> QED BY <1>0, <3>1, <3>2 DEF Tree
  <2>3. ASSUME NEW g \in Goals, source' = [source EXCEPT ![f] = private[g][f]]
        PROVE  source' \in Tree
    BY <1>0, <2>3, StateRow DEF Tree
  <2> QED BY <1>3, <2>1, <2>2, <2>3 DEF UserEdit
<1> QED BY <1>0, <1>1, <1>2, <1>3, SourceChange

LEMMA PrivateTyped ==
  ASSUME Typed, [Next]_vars
  PROVE  private' \in [Goals -> Tree]
<1>0. private \in [Goals -> Tree] /\ source \in Tree
  BY DEF Typed, TreesTyped
<1>1. ASSUME NEW g \in Goals, FinishCreate(g)
      PROVE  private' \in [Goals -> Tree]
  BY <1>0, <1>1 DEF FinishCreate
<1>2. ASSUME NEW g \in Goals, NEW f \in Files, SyncFile(g, f)
      PROVE  private' \in [Goals -> Tree]
  <2>1. [private[g] EXCEPT ![f] = source[f]] \in Tree
    BY <1>0 DEF Tree
  <2> QED BY <1>0, <1>2, <2>1 DEF SyncFile
<1>3. ASSUME NEW g \in Goals, NEW f \in Files, AgentEdit(g, f)
      PROVE  private' \in [Goals -> Tree]
  <2>1. ASSUME NEW e \in Edits, private' = [private EXCEPT ![g][f].text = @ \cup {e}]
        PROVE  private' \in [Goals -> Tree]
    <3> DEFINE v == [private[g][f] EXCEPT !.text = @ \cup {e}]
               t == [private[g] EXCEPT ![f] = v]
    <3>1. v \in Version
      BY <1>0, VersionGrows DEF Tree
    <3>2. private' = [private EXCEPT ![g] = t]
      BY <2>1
    <3>3. t \in Tree
      <4> HIDE DEF v
      <4> QED BY <1>0, <3>1 DEF Tree
    <3> HIDE DEF v, t
    <3> QED BY <1>0, <3>2, <3>3
  <2>2. ASSUME NEW e \in private[g][f].text,
               private' = [private EXCEPT ![g][f].text = @ \ {e}, ![g][f].undone = @ \cup {e}]
        PROVE  private' \in [Goals -> Tree]
    <3> DEFINE v == [private[g][f] EXCEPT !.text = @ \ {e}, !.undone = @ \cup {e}]
               t == [private[g] EXCEPT ![f] = v]
    <3>1. v \in Version
      <4>1. private[g][f] \in Version
        BY <1>0 DEF Tree
      <4> QED BY <4>1, VersionUndone
    <3>2. private' = [private EXCEPT ![g] = t]
      BY <2>2
    <3>3. t \in Tree
      <4> HIDE DEF v
      <4> QED BY <1>0, <3>1 DEF Tree
    <3> HIDE DEF v, t
    <3> QED BY <1>0, <3>2, <3>3
  <2> QED BY <1>3, <2>1, <2>2 DEF AgentEdit
<1> QED BY <1>0, <1>1, <1>2, <1>3, PrivateChange

LEMMA StatePut ==
  ASSUME Typed, NEW g \in Goals, NEW st \in GoalState, state' = [state EXCEPT ![g] = st]
  PROVE  state' \in [Goals -> GoalState]
  BY DEF Typed, StateTyped

LEMMA PublishedPut ==
  ASSUME Typed, NEW g \in Goals,
         state' = [state EXCEPT ![g].publication.state = "published"]
  PROVE  /\ state'[g].publication.state = "published"
         /\ state'[g].publication.receipt = Receipt(g)
         /\ state'[g].phase = state[g].phase /\ state'[g].baseline = state[g].baseline
         /\ state'[g].pending = state[g].pending
         /\ \A h \in Goals \ {g} : state'[h] = state[h]
         /\ state' \in [Goals -> GoalState]
<1> DEFINE new == [Publication(g) EXCEPT !.state = "published"]
           st == [state[g] EXCEPT !.publication = new]
<1>1. new \in Publications /\ new.state = "published" /\ new.receipt = Receipt(g)
  BY StateRow DEF Publications, Receipt
<1>2. state' = [state EXCEPT ![g] = st]
  BY DEF Publication
<1> HIDE DEF new
<1>3. st \in GoalState /\ st.publication = new /\ st.phase = state[g].phase
      /\ st.baseline = state[g].baseline /\ st.pending = state[g].pending
  BY <1>1, StateRow DEF GoalState
<1> HIDE DEF st
<1>4. state'[g] = st /\ \A h \in Goals \ {g} : state'[h] = state[h]
  BY <1>2 DEF Typed, StateTyped
<1> QED BY <1>1, <1>2, <1>3, <1>4, StatePut

\* What each step that writes it makes of a goal's state.
LEMMA RebasePut ==
  ASSUME Typed, NEW g \in Goals, BeginRebase(g)
  PROVE  LET target == [f \in Files |-> IF f \in Delta(g) THEN Candidate(g)[f] ELSE Content(source[f])]
         IN  /\ state'[g] = [state[g] EXCEPT !.pending =
                               [on |-> TRUE, before |-> Candidate(g), target |-> target]]
             /\ state'[g].pending.on = TRUE /\ state'[g].pending.before = Candidate(g)
             /\ state'[g].pending.target = target /\ target \in Texts
             /\ \A h \in Goals \ {g} : state'[h] = state[h]
             /\ state' \in [Goals -> GoalState]
<1> DEFINE target == [f \in Files |-> IF f \in Delta(g) THEN Candidate(g)[f] ELSE Content(source[f])]
           pending == [on |-> TRUE, before |-> Candidate(g), target |-> target]
           st == [state[g] EXCEPT !.pending = pending]
<1>1. target \in Texts
  BY StateRow DEF Typed, TreesTyped, Tree, Version, Content, Texts
<1>2. state' = [state EXCEPT ![g] = st]
  BY DEF BeginRebase
<1> HIDE DEF target
<1>3. /\ pending \in Pending /\ pending.on = TRUE /\ pending.before = Candidate(g)
      /\ pending.target = target
  BY <1>1, StateRow DEF Pending
<1> HIDE DEF pending
<1>4. st \in GoalState /\ st.pending = pending
  BY <1>3, StateRow DEF GoalState
<1> HIDE DEF st
<1>5. state'[g] = st /\ \A h \in Goals \ {g} : state'[h] = state[h]
  BY <1>2 DEF Typed, StateTyped
<1>6. /\ state'[g].pending.on = TRUE /\ state'[g].pending.before = Candidate(g)
      /\ state'[g].pending.target = target
  BY <1>3, <1>4, <1>5
<1> QED BY <1>1, <1>2, <1>4, <1>5, <1>6, StatePut DEF st, pending, target

LEMMA EndRebasePut ==
  ASSUME Typed, NEW g \in Goals, EndRebase(g), source = call.receipt.source
  PROVE  /\ state'[g].phase = state[g].phase
         /\ state'[g].publication = Unpublished /\ state'[g].pending = NotPending
         /\ state'[g].baseline \in Tree
         /\ \A f \in Files : state'[g].baseline[f] =
                IF f \in call.receipt.changed THEN state[g].baseline[f] ELSE source[f]
         /\ \A h \in Goals \ {g} : state'[h] = state[h]
         /\ state' \in [Goals -> GoalState]
<1> DEFINE base == [f \in Files |->
                      IF f \in call.receipt.changed THEN state[g].baseline[f] ELSE source[f]]
           st == [state[g] EXCEPT !.publication = Unpublished, !.pending = NotPending,
                                  !.baseline = base]
<1>1. base \in Tree
  BY StateRow DEF Typed, TreesTyped, Tree
<1>2. state' = [state EXCEPT ![g] = st]
  BY DEF EndRebase
<1>3. Unpublished \in Publications /\ NotPending \in Pending
  BY BlankTyped DEF Unpublished, NotPending, Publications, Pending
<1>4. \A f \in Files : base[f] =
          IF f \in call.receipt.changed THEN state[g].baseline[f] ELSE source[f]
  OBVIOUS
<1> HIDE DEF base
<1>5. st \in GoalState /\ st.phase = state[g].phase /\ st.publication = Unpublished
      /\ st.pending = NotPending /\ st.baseline = base
  BY <1>1, <1>3, StateRow DEF GoalState
<1> HIDE DEF st
<1>6. state'[g] = st /\ \A h \in Goals \ {g} : state'[h] = state[h]
  BY <1>2 DEF Typed, StateTyped
<1> QED BY <1>1, <1>2, <1>4, <1>5, <1>6, StatePut

LEMMA IntentPut ==
  ASSUME Typed, NEW g \in Goals, BeginPublish(g), SameSnapshots(g, call.receipt)
  PROVE  /\ state'[g] = [state[g] EXCEPT !.publication =
                           [state |-> "prepared", receipt |-> call.receipt]]
         /\ \A h \in Goals \ {g} : state'[h] = state[h]
         /\ state' \in [Goals -> GoalState]
<1> DEFINE new == [state |-> "prepared", receipt |-> call.receipt]
           st == [state[g] EXCEPT !.publication = new]
<1>1. new \in Publications
  BY CallRow DEF Publications
<1>2. state' = [state EXCEPT ![g] = st]
  BY DEF BeginPublish
<1> HIDE DEF new
<1>3. st \in GoalState
  BY <1>1, StateRow DEF GoalState
<1> HIDE DEF st
<1>4. state'[g] = st /\ \A h \in Goals \ {g} : state'[h] = state[h]
  BY <1>2 DEF Typed, StateTyped
<1> QED BY <1>2, <1>3, <1>4, StatePut DEF st, new

LEMMA CreatePut ==
  ASSUME Typed, NEW g \in Goals, BeginCreate(g)
  PROVE  /\ state'[g].phase = "initializing" /\ state'[g].baseline = source
         /\ state'[g].publication = Publication(g) /\ state'[g].pending = state[g].pending
         /\ \A h \in Goals \ {g} : state'[h] = state[h]
         /\ state' \in [Goals -> GoalState]
<1> DEFINE st == [state[g] EXCEPT !.phase = "initializing", !.baseline = source]
<1>1. state' = [state EXCEPT ![g] = st]
  BY DEF BeginCreate
<1>2. st \in GoalState /\ st.phase = "initializing" /\ st.baseline = source
      /\ st.publication = Publication(g) /\ st.pending = state[g].pending
  BY StateRow DEF GoalState, Publication, Typed, TreesTyped
<1> HIDE DEF st
<1>3. state'[g] = st /\ \A h \in Goals \ {g} : state'[h] = state[h]
  BY <1>1 DEF Typed, StateTyped
<1> QED BY <1>1, <1>2, <1>3, StatePut

LEMMA ReadyPut ==
  ASSUME Typed, NEW g \in Goals, state' = [state EXCEPT ![g].phase = "ready"]
  PROVE  /\ state'[g].phase = "ready" /\ state'[g].baseline = state[g].baseline
         /\ state'[g].publication = Publication(g) /\ state'[g].pending = state[g].pending
         /\ \A h \in Goals \ {g} : state'[h] = state[h]
         /\ state' \in [Goals -> GoalState]
<1> DEFINE st == [state[g] EXCEPT !.phase = "ready"]
<1>1. state' = [state EXCEPT ![g] = st]
  OBVIOUS
<1>2. st \in GoalState /\ st.phase = "ready" /\ st.baseline = state[g].baseline
      /\ st.publication = Publication(g) /\ st.pending = state[g].pending
  BY StateRow DEF GoalState, Publication
<1> HIDE DEF st
<1>3. state'[g] = st /\ \A h \in Goals \ {g} : state'[h] = state[h]
  BY <1>1 DEF Typed, StateTyped
<1> QED BY <1>1, <1>2, <1>3, StatePut

\* Every step keeps the sorts of the states, and changes at most its goal's.
LEMMA StateSteps ==
  ASSUME Typed, [Next]_vars
  PROVE  /\ state' \in [Goals -> GoalState]
         /\ \A h \in Goals : \/ state'[h] = state[h]
                             \/ BeginCreate(h) \/ FinishCreate(h) \/ RecoverLanded(h)
                             \/ BeginRebase(h) \/ EndRebase(h) \/ BeginPublish(h)
                             \/ AssertPublished(h)
<1>1. CASE UNCHANGED state
  BY <1>1 DEF Typed, StateTyped
<1>2. ASSUME NEW g \in Goals, BeginCreate(g)
      PROVE  state' \in [Goals -> GoalState] /\ \A h \in Goals \ {g} : state'[h] = state[h]
  BY <1>2, CreatePut
<1>3. ASSUME NEW g \in Goals, FinishCreate(g)
      PROVE  state' \in [Goals -> GoalState] /\ \A h \in Goals \ {g} : state'[h] = state[h]
  <2>1. UNCHANGED state \/ state' = [state EXCEPT ![g].phase = "ready"]
    BY <1>3 DEF FinishCreate
  <2> QED BY <1>1, <2>1, ReadyPut
<1>4. ASSUME NEW g \in Goals, RecoverLanded(g) \/ AssertPublished(g)
      PROVE  state' \in [Goals -> GoalState] /\ \A h \in Goals \ {g} : state'[h] = state[h]
  <2>1. UNCHANGED state \/ state' = [state EXCEPT ![g].publication.state = "published"]
    BY <1>4 DEF RecoverLanded, AssertPublished
  <2> QED BY <1>1, <2>1, PublishedPut
<1>5. ASSUME NEW g \in Goals, BeginRebase(g)
      PROVE  state' \in [Goals -> GoalState] /\ \A h \in Goals \ {g} : state'[h] = state[h]
  BY <1>5, RebasePut
<1>6. ASSUME NEW g \in Goals, EndRebase(g)
      PROVE  state' \in [Goals -> GoalState] /\ \A h \in Goals \ {g} : state'[h] = state[h]
  <2>1. CASE source = call.receipt.source
    BY <1>6, <2>1, EndRebasePut
  <2>2. CASE source # call.receipt.source
    BY <1>1, <1>6, <2>2 DEF EndRebase
  <2> QED BY <2>1, <2>2
<1>7. ASSUME NEW g \in Goals, BeginPublish(g)
      PROVE  state' \in [Goals -> GoalState] /\ \A h \in Goals \ {g} : state'[h] = state[h]
  <2>1. CASE SameSnapshots(g, call.receipt)
    BY <1>7, <2>1, IntentPut
  <2>2. CASE ~SameSnapshots(g, call.receipt)
    BY <1>1, <1>7, <2>2 DEF BeginPublish
  <2> QED BY <2>1, <2>2
<1> QED BY <1>1, <1>2, <1>3, <1>4, <1>5, <1>6, <1>7, StateChange

LEMMA PhaseKept ==
  ASSUME Typed, [Next]_vars, NEW g \in Goals
  PROVE  state'[g].phase = state[g].phase \/ BeginCreate(g) \/ FinishCreate(g)
<1>1. CASE state'[g] = state[g]
  BY <1>1
<1>2. CASE RecoverLanded(g) \/ AssertPublished(g)
  <2>1. UNCHANGED state \/ state' = [state EXCEPT ![g].publication.state = "published"]
    BY <1>2 DEF RecoverLanded, AssertPublished
  <2> QED BY <2>1, PublishedPut
<1>3. CASE BeginRebase(g)
  <2>1. PICK pending : state'[g] = [state[g] EXCEPT !.pending = pending]
    BY <1>3, RebasePut
  <2> QED BY <2>1, StateRow DEF GoalState
<1>4. CASE EndRebase(g)
  BY <1>4, EndRebasePut DEF EndRebase
<1>5. CASE BeginPublish(g)
  <2>1. CASE SameSnapshots(g, call.receipt)
    BY <1>5, <2>1, IntentPut, StateRow DEF GoalState
  <2>2. CASE ~SameSnapshots(g, call.receipt)
    BY <1>5, <2>2 DEF BeginPublish
  <2> QED BY <2>1, <2>2
<1> QED BY <1>1, <1>2, <1>3, <1>4, <1>5, StateSteps

LEMMA ManifestTyped ==
  ASSUME Typed, [Next]_vars
  PROVE  /\ manifest' \in [Goals -> Manifests]
         /\ \A h \in Goals : \/ manifest'[h] = manifest[h]
                             \/ RecoverFinalize(h) \/ GiveUpPrior(h) \/ EndRebase(h)
                             \/ PrepareTransaction(h) \/ WriteManifest(h) \/ Lease(h)
                             \/ Commit(h) \/ ApplyFails(h)
<1>0. manifest \in [Goals -> Manifests]
  BY DEF Typed, StateTyped
<1>1. CASE UNCHANGED manifest
  BY <1>0, <1>1
<1>2. ASSUME NEW g \in Goals, \/ RecoverFinalize(g) \/ GiveUpPrior(g) \/ EndRebase(g)
                              \/ PrepareTransaction(g) \/ WriteManifest(g) \/ Lease(g)
                              \/ Commit(g) \/ ApplyFails(g)
      PROVE  \E m \in Manifests : manifest' = [manifest EXCEPT ![g] = m]
  <2>1. CASE GiveUpPrior(g)
    BY <1>0, <2>1 DEF GiveUpPrior, Manifests
  <2>2. CASE PrepareTransaction(g)
    BY <1>0, <2>2 DEF PrepareTransaction, Manifests
  <2>3. CASE EndRebase(g) \/ WriteManifest(g) \/ Lease(g)
    <3>1. \/ UNCHANGED manifest \/ manifest' = [manifest EXCEPT ![g] = "none"]
          \/ manifest' = [manifest EXCEPT ![g] = "prepared"]
          \/ manifest' = [manifest EXCEPT ![g] = "aborted"]
      BY <2>3 DEF EndRebase, WriteManifest, Lease
    <3> QED BY <1>0, <3>1 DEF Manifests
  <2>4. CASE RecoverFinalize(g) \/ Commit(g) \/ ApplyFails(g)
    BY <2>4 DEF RecoverFinalize, Commit, ApplyFails, Manifests
  <2> QED BY <1>2, <2>1, <2>2, <2>3, <2>4
<1> QED BY <1>0, <1>1, <1>2, ManifestChange

LEMMA VerifiedTyped ==
  ASSUME Typed, [Next]_vars
  PROVE  /\ verified' \in [Goals -> Tree]
         /\ \A h \in Goals : verified'[h] = verified[h] \/ Verify(h)
  BY VerifiedChange DEF Typed, TreesTyped, Verify

LEMMA OthersTyped ==
  ASSUME Typed, [Next]_vars
  PROVE  made' \subseteq Edits /\ status' \in [Goals -> {"open", "complete"}]
         /\ crashes' \in 0..MaxCrashes
<1>1. made' \subseteq Edits
  <2>1. UNCHANGED made \/ \E e \in Edits : made' = made \cup {e}
    <3>1. CASE UNCHANGED vars \/ Crash
      BY <3>1 DEF vars, Crash
    <3>2. ASSUME NEW g \in Goals, BeginCreate(g) \/ Begin(g) \/ Step(g)
          PROVE  UNCHANGED made
      BY <3>2 DEF BeginCreate, Begin, Step, FinishCreate, RecoverFinalize, RecoverInterrupted,
           RecoverLanded, PriorReceipt, GiveUpPrior, BeginRebase, RefusePrivateChanged,
           RefuseConflict, SyncFile, EndRebase, Verify, VerifyFails, BeginPublish,
           PrepareTransaction, WriteManifest, Lease, Write, CloseLeases, Commit, ApplyFails,
           NothingToApply, AssertPublished, Acknowledge
    <3>3. ASSUME NEW f \in Files, UserEdit(f) \/ \E g \in Goals : AgentEdit(g, f)
          PROVE  UNCHANGED made \/ \E e \in Edits : made' = made \cup {e}
      BY <3>3 DEF UserEdit, AgentEdit
    <3> QED BY <3>1, <3>2, <3>3 DEF Next
  <2> QED BY <2>1 DEF Typed, TreesTyped
<1>2. /\ UNCHANGED status \/ \E g \in Goals : status' = [status EXCEPT ![g] = "complete"]
      /\ UNCHANGED crashes \/ (crashes < MaxCrashes /\ crashes' = crashes + 1)
  <2>1. CASE UNCHANGED vars \/ Crash
    BY <2>1 DEF vars, Crash, durable
  <2>2. ASSUME NEW g \in Goals, BeginCreate(g) \/ Begin(g) \/ Step(g)
        PROVE  (UNCHANGED status \/ status' = [status EXCEPT ![g] = "complete"]) /\ UNCHANGED crashes
    BY <2>2 DEF BeginCreate, Begin, Step, FinishCreate, RecoverFinalize, RecoverInterrupted,
         RecoverLanded, PriorReceipt, GiveUpPrior, BeginRebase, RefusePrivateChanged,
         RefuseConflict, SyncFile, EndRebase, Verify, VerifyFails, BeginPublish,
         PrepareTransaction, WriteManifest, Lease, Write, CloseLeases, Commit, ApplyFails,
         NothingToApply, AssertPublished, Acknowledge, durable
  <2>3. ASSUME NEW f \in Files, UserEdit(f) \/ \E g \in Goals : AgentEdit(g, f)
        PROVE  UNCHANGED <<status, crashes>>
    BY <2>3 DEF UserEdit, AgentEdit
  <2> QED BY <2>1, <2>2, <2>3 DEF Next
<1>3. status' \in [Goals -> {"open", "complete"}]
  BY <1>2 DEF Typed, StateTyped
<1>4. crashes' \in 0..MaxCrashes
  BY <1>2, WorkspaceAssumption DEF Typed, StateTyped
<1> QED BY <1>1, <1>3, <1>4

LEMMA IdleTyped == Idle \in Call /\ Idle.goal = None /\ Idle.pc = "idle"
  BY BlankTyped DEF Idle, Call, Steps, Texts

\* A call goes on: it moves to a step, or gets what that step needs.
LEMMA CallMoves ==
  ASSUME Typed, NEW pc \in Steps
  PROVE  LET c == [call EXCEPT !.pc = pc] IN
         /\ c \in Call /\ c.goal = call.goal /\ c.pc = pc /\ c.todo = call.todo
         /\ c.receipt = call.receipt /\ c.before = call.before
  BY DEF Typed, CallTyped, Call

LEMMA CallReceives ==
  ASSUME Typed, NEW pc \in Steps, NEW r \in Receipts
  PROVE  LET c == [call EXCEPT !.pc = pc, !.receipt = r] IN
         /\ c \in Call /\ c.goal = call.goal /\ c.pc = pc /\ c.todo = call.todo
         /\ c.receipt = r /\ c.before = call.before
  BY DEF Typed, CallTyped, Call

LEMMA CallWrites ==
  ASSUME Typed, NEW pc \in Steps, NEW todo \in SUBSET Files
  PROVE  LET c == [call EXCEPT !.pc = pc, !.todo = todo] IN
         /\ c \in Call /\ c.goal = call.goal /\ c.pc = pc /\ c.todo = todo
         /\ c.receipt = call.receipt /\ c.before = call.before
  BY DEF Typed, CallTyped, Call

\* One file is done.
LEMMA CallTicks ==
  ASSUME Typed, NEW f, call' = [call EXCEPT !.todo = @ \ {f}]
  PROVE  /\ call' \in Call /\ call'.goal = call.goal /\ call'.pc = call.pc
         /\ call'.todo = call.todo \ {f} /\ call'.receipt = call.receipt
         /\ call'.before = call.before
<1> DEFINE c == [call EXCEPT !.todo = call.todo \ {f}]
<1>1. call.todo \ {f} \subseteq Files
  BY CallRow
<1>2. /\ c \in Call /\ c.goal = call.goal /\ c.pc = call.pc /\ c.todo = call.todo \ {f}
      /\ c.receipt = call.receipt /\ c.before = call.before
  BY <1>1 DEF Typed, CallTyped, Call
<1> QED BY <1>2

\* The rebase begins with a receipt of the project as it was listed, and ends
\* with the working copy in it.
LEMMA CallRebases ==
  ASSUME Typed, NEW g \in Goals, BeginRebase(g)
  PROVE  /\ call' \in Call /\ call'.goal = call.goal /\ call'.pc = "sync"
         /\ call'.todo = ToSync(g) /\ call'.before = Candidate(g)
         /\ call'.receipt.source = source /\ call'.receipt.changed = Delta(g)
<1> DEFINE r == [source |-> source, workspace |-> Blank, changed |-> Delta(g)]
           c == [call EXCEPT !.pc = "sync", !.todo = ToSync(g), !.before = Candidate(g), !.receipt = r]
<1>1. r \in Receipts /\ r.source = source /\ r.changed = Delta(g)
  BY BlankTyped, StateRow DEF Receipts, Typed, TreesTyped
<1>2. ToSync(g) \subseteq Files
  BY DEF ToSync
<1>3. call' = c
  BY DEF BeginRebase
<1> HIDE DEF r
<1>4. /\ c \in Call /\ c.goal = call.goal /\ c.pc = "sync" /\ c.todo = ToSync(g)
      /\ c.before = Candidate(g) /\ c.receipt = r
  BY <1>1, <1>2, StateRow DEF Typed, CallTyped, Call, Steps
<1> HIDE DEF c
<1> QED BY <1>1, <1>3, <1>4

LEMMA CallRebased ==
  ASSUME Typed, NEW g \in Goals, call' = [call EXCEPT !.pc = "verify", !.receipt.workspace = private[g]]
  PROVE  /\ call' \in Call /\ call'.goal = call.goal /\ call'.pc = "verify"
         /\ call'.receipt.source = call.receipt.source /\ call'.receipt.workspace = private[g]
         /\ call'.receipt.changed = call.receipt.changed
<1> DEFINE r == [call.receipt EXCEPT !.workspace = private[g]]
           c == [call EXCEPT !.pc = "verify", !.receipt = r]
<1>1. /\ r \in Receipts /\ r.source = call.receipt.source /\ r.workspace = private[g]
      /\ r.changed = call.receipt.changed
  BY CallRow, StateRow DEF Receipts
<1>2. call' = c
  OBVIOUS
<1> HIDE DEF r
<1>3. c \in Call /\ c.goal = call.goal /\ c.pc = "verify" /\ c.receipt = r
  BY <1>1, CallReceives DEF Steps
<1> HIDE DEF c
<1> QED BY <1>1, <1>2, <1>3

Moved(g) == /\ call.goal = g /\ call.pc \notin {"idle", "create"}
            /\ call'.goal = g /\ call'.pc \notin {"idle", "create"}

LEMMA CallSteps ==
  ASSUME Typed, NEW g \in Goals, Step(g)
  PROVE  call.goal = g /\ (call' = Idle \/ (call' \in Call /\ Moved(g)))
<1> USE DEF At, Goto, Refuse, Moved
<1>0. /\ "verify" \in Steps /\ "write" \in Steps /\ "acknowledge" \in Steps
      /\ Receipt(g) \in Receipts
  BY StateRow DEF Steps, Publishing
<1>1. CASE FinishCreate(g) \/ RecoverInterrupted(g) \/ RefusePrivateChanged(g)
           \/ RefuseConflict(g) \/ VerifyFails(g) \/ ApplyFails(g) \/ Acknowledge(g)
  BY <1>1 DEF FinishCreate, RecoverInterrupted, RefusePrivateChanged, RefuseConflict,
       VerifyFails, ApplyFails, Acknowledge
<1>2. CASE RecoverFinalize(g)
  BY <1>2 DEF RecoverFinalize, Typed, CallTyped
<1>3. CASE RecoverLanded(g)
  <2>1. call.goal = g /\ call.pc \in {"prepare", "publish"}
    BY <1>3 DEF RecoverLanded
  <2>2. \/ call' = Idle
        \/ call' = [call EXCEPT !.pc = "verify", !.receipt = Receipt(g)]
        \/ call' = [call EXCEPT !.pc = "acknowledge"]
    BY <1>3 DEF RecoverLanded
  <2>3. CASE call' = [call EXCEPT !.pc = "verify", !.receipt = Receipt(g)]
    BY <1>0, <2>1, <2>3, CallReceives
  <2>4. CASE call' = [call EXCEPT !.pc = "acknowledge"]
    BY <1>0, <2>1, <2>4, CallMoves
  <2> QED BY <2>1, <2>2, <2>3, <2>4
<1>4. CASE PriorReceipt(g)
  <2>1. /\ call.goal = g /\ call.pc = "prepare"
        /\ call' = [call EXCEPT !.pc = "verify", !.receipt = Receipt(g)]
    BY <1>4 DEF PriorReceipt
  <2> QED BY <1>0, <2>1, CallReceives
<1>5. CASE BeginRebase(g)
  BY <1>5, CallRebases DEF BeginRebase
<1>6. ASSUME NEW f \in Files, SyncFile(g, f) \/ Write(g, f)
      PROVE  call.goal = g /\ (call' = Idle \/ (call' \in Call /\ Moved(g)))
  <2>1. call.goal = g /\ call.pc \in {"sync", "write"}
    BY <1>6 DEF SyncFile, Write
  <2>2. call' = Idle \/ call' = [call EXCEPT !.todo = @ \ {f}]
    BY <1>6 DEF SyncFile, Write
  <2> QED BY <2>1, <2>2, CallTicks
<1>7. CASE EndRebase(g)
  <2>1. call.goal = g /\ call.pc = "sync"
    BY <1>7 DEF EndRebase
  <2>2. call' = Idle \/ call' = [call EXCEPT !.pc = "verify", !.receipt.workspace = private[g]]
    BY <1>7 DEF EndRebase
  <2> QED BY <2>1, <2>2, CallRebased
<1>8. CASE Lease(g)
  <2>1. call' = Idle \/ call' = [call EXCEPT !.pc = "write", !.todo = call.receipt.changed]
    BY <1>8 DEF Lease
  <2>2. call.goal = g /\ call.pc = "lease" /\ call.receipt.changed \in SUBSET Files
    BY <1>8, CallRow DEF Lease
  <2>3. CASE call' = [call EXCEPT !.pc = "write", !.todo = call.receipt.changed]
    <3> DEFINE c == [call EXCEPT !.pc = "write", !.todo = call.receipt.changed]
    <3>1. c \in Call /\ c.goal = call.goal /\ c.pc = "write"
      <4>1. "write" \in Steps /\ call.receipt.changed \in SUBSET Files
        BY <1>0, <2>2
      <4> QED BY <4>1, CallWrites
    <3>2. call' = c
      BY <2>3
    <3> HIDE DEF c
    <3> QED BY <2>2, <3>1, <3>2
  <2> QED BY <2>1, <2>2, <2>3
<1>9. CASE GiveUpPrior(g) \/ Verify(g) \/ BeginPublish(g) \/ PrepareTransaction(g)
           \/ WriteManifest(g) \/ CloseLeases(g) \/ Commit(g) \/ NothingToApply(g)
           \/ AssertPublished(g)
  <2>1. /\ call.goal = g
        /\ call.pc \in {"prepare", "verify", "publish", "apply", "manifest", "write", "commit", "assert"}
    BY <1>9 DEF GiveUpPrior, Verify, BeginPublish, PrepareTransaction, WriteManifest,
         CloseLeases, Commit, NothingToApply, AssertPublished
  <2>2. \/ call' = Idle
        \/ \E pc \in {"rebase", "publish", "apply", "manifest", "lease", "commit", "assert", "acknowledge"} :
              call' = [call EXCEPT !.pc = pc]
    BY <1>9 DEF GiveUpPrior, Verify, BeginPublish, PrepareTransaction, WriteManifest,
         CloseLeases, Commit, NothingToApply, AssertPublished
  <2> QED BY <2>1, <2>2, CallMoves DEF Steps, Publishing
<1> QED BY <1>1, <1>2, <1>3, <1>4, <1>5, <1>6, <1>7, <1>8, <1>9 DEF Step

LEMMA CallTypedStep ==
  ASSUME Typed, [Next]_vars
  PROVE  CallTyped'
<1>1. CASE call' = Idle
  BY <1>1, IdleTyped DEF CallTyped
<1>2. CASE UNCHANGED call
  <2>1. ASSUME call.goal # None, call.pc # "create"
        PROVE  state'[call.goal].phase = "ready"
    <3>1. call.goal \in Goals /\ state[call.goal].phase = "ready"
      BY <2>1 DEF Typed, CallTyped, Call
    <3>2. ~FinishCreate(call.goal) /\ ~BeginCreate(call.goal)
      BY <2>1, <3>1 DEF FinishCreate, BeginCreate, At
    <3> QED BY <3>1, <3>2, PhaseKept
  <2> QED BY <1>2, <2>1 DEF Typed, CallTyped
<1>3. ASSUME NEW g \in Goals, BeginCreate(g)
      PROVE  CallTyped'
  <2> DEFINE c == [Idle EXCEPT !.goal = g, !.pc = "create"]
  <2>1. c \in Call /\ c.goal = g /\ c.pc = "create"
    BY IdleTyped DEF Call, Steps
  <2>2. call' = c
    BY <1>3 DEF BeginCreate
  <2> HIDE DEF c
  <2> QED BY <2>1, <2>2, WorkspaceAssumption DEF CallTyped
<1>4. ASSUME NEW g \in Goals, Begin(g)
      PROVE  CallTyped'
  <2> DEFINE c == [Idle EXCEPT !.goal = g, !.pc = "prepare"]
  <2>1. c \in Call /\ c.goal = g /\ c.pc = "prepare"
    BY IdleTyped DEF Call, Steps
  <2>2. call' = c /\ state' = state /\ state[g].phase = "ready"
    BY <1>4 DEF Begin
  <2> HIDE DEF c
  <2> QED BY <2>1, <2>2, WorkspaceAssumption DEF CallTyped
<1>5. ASSUME NEW g \in Goals, Step(g), call' \in Call, Moved(g)
      PROVE  CallTyped'
  <2>1. state[g].phase = "ready" /\ g # None
    BY <1>5, WorkspaceAssumption DEF Moved, Typed, CallTyped
  <2>2. ~FinishCreate(g) /\ ~BeginCreate(g)
    BY <1>5, <2>1 DEF FinishCreate, BeginCreate, At, Moved
  <2> QED BY <1>5, <2>1, <2>2, PhaseKept DEF Moved, CallTyped
<1>6. CASE Crash
  BY <1>1, <1>6 DEF Crash
<1> QED BY <1>1, <1>2, <1>3, <1>4, <1>5, <1>6, CallChange, CallSteps

LEMMA TypedStep ==
  ASSUME Typed, [Next]_vars
  PROVE  Typed'
  BY SourceTyped, PrivateTyped, StateSteps, ManifestTyped, VerifiedTyped, OthersTyped,
     CallTypedStep DEF Typed, TreesTyped, StateTyped

--------------------------------------------------------------------------------
(* The working copies.                                                        *)

\* A copy changes by its own creation, synchronization and agents; the last two
\* leave the goal's state alone.
LEMMA PrivateSteps ==
  ASSUME Typed, [Next]_vars, NEW h \in Goals
  PROVE  \/ private'[h] = private[h]
         \/ FinishCreate(h)
         \/ /\ state' = state
            /\ \E f \in Files :
                  /\ SyncFile(h, f) \/ AgentEdit(h, f)
                  /\ \A x \in Files \ {f} : private'[h][x] = private[h][x]
<1>0. private \in [Goals -> Tree]
  BY DEF Typed, TreesTyped
<1>1. ASSUME NEW g \in Goals, FinishCreate(g), g # h
      PROVE  private'[h] = private[h]
  BY <1>0, <1>1 DEF FinishCreate
<1>2. ASSUME NEW g \in Goals, NEW f \in Files, SyncFile(g, f) \/ AgentEdit(g, f)
      PROVE  /\ state' = state
             /\ g # h => private'[h] = private[h]
             /\ \A x \in Files \ {f} : private'[g][x] = private[g][x]
  <2>1. private[g] \in Tree
    BY <1>0
  <2>2. UNCHANGED private \/ \E v : private' = [private EXCEPT ![g][f] = v]
    <3>1. ASSUME NEW e, private' = [private EXCEPT ![g][f].text = @ \cup {e}]
          PROVE  \E v : private' = [private EXCEPT ![g][f] = v]
      <4>1. private' = [private EXCEPT ![g][f] = [private[g][f] EXCEPT !.text = @ \cup {e}]]
        BY <3>1
      <4> QED BY <4>1
    <3>2. ASSUME NEW e, private' = [private EXCEPT ![g][f].text = @ \ {e}, ![g][f].undone = @ \cup {e}]
          PROVE  \E v : private' = [private EXCEPT ![g][f] = v]
      <4>1. private' = [private EXCEPT ![g][f] = [private[g][f] EXCEPT !.text = @ \ {e}, !.undone = @ \cup {e}]]
        BY <3>2
      <4> QED BY <4>1
    <3> QED BY <1>2, <3>1, <3>2 DEF SyncFile, AgentEdit
  <2>3. state' = state
    BY <1>2 DEF SyncFile, AgentEdit
  <2> QED BY <1>0, <2>1, <2>2, <2>3 DEF Tree
<1> QED BY <1>1, <1>2, PrivateChange

\* What the goal's agents do to a file: an own edit has been in it.
LEMMA AgentsOwn ==
  ASSUME Typed, NEW g \in Goals, NEW f \in Files, AgentEdit(g, f)
  PROVE  Own(g, Seen(private'[g][f])) # {} /\ Seen(private[g][f]) \subseteq Seen(private'[g][f])
<1> DEFINE v == private[g][f]
<1>0. private \in [Goals -> Tree] /\ private[g] \in Tree /\ v \in Version
  BY DEF Typed, TreesTyped, Tree
<1>1. ASSUME NEW e \in Edits, Author[e] = g, private' = [private EXCEPT ![g][f].text = @ \cup {e}]
      PROVE  e \in Seen(private'[g][f]) /\ Seen(v) \subseteq Seen(private'[g][f])
  <2> DEFINE w == [v EXCEPT !.text = @ \cup {e}]
  <2>1. w.text = v.text \cup {e} /\ w.undone = v.undone
    BY <1>0, VersionGrows
  <2>2. private' = [private EXCEPT ![g] = [private[g] EXCEPT ![f] = w]]
    BY <1>1
  <2> HIDE DEF w
  <2>3. private'[g][f] = w
    BY <1>0, <2>2 DEF Tree
  <2> QED BY <2>1, <2>3 DEF Seen
<1>2. ASSUME NEW e \in v.text, Author[e] = g,
             private' = [private EXCEPT ![g][f].text = @ \ {e}, ![g][f].undone = @ \cup {e}]
      PROVE  e \in Seen(private'[g][f]) /\ Seen(v) \subseteq Seen(private'[g][f])
  <2> DEFINE w == [v EXCEPT !.text = @ \ {e}, !.undone = @ \cup {e}]
  <2>1. w.text = v.text \ {e} /\ w.undone = v.undone \cup {e}
    BY <1>0, VersionUndone
  <2>2. private' = [private EXCEPT ![g] = [private[g] EXCEPT ![f] = w]]
    BY <1>2
  <2> HIDE DEF w
  <2>3. private'[g][f] = w
    BY <1>0, <2>2 DEF Tree
  <2> QED BY <2>1, <2>3 DEF Seen
<1>3. \E e : /\ Author[e] = g /\ e \in Seen(private'[g][f])
             /\ Seen(v) \subseteq Seen(private'[g][f])
  BY <1>1, <1>2 DEF AgentEdit
<1> QED BY <1>3 DEF Own

\* What a rebase sets out from, by the state of the copy.
LEMMA RebaseFrom ==
  ASSUME Typed, Copies, NEW g \in Goals, BeginRebase(g), NEW f \in Files
  PROVE  /\ state'[g].pending.on = TRUE /\ state'[g].pending.before[f] = Candidate(g)[f]
         /\ Candidate(g)[f] # state[g].baseline[f].text =>
                /\ private[g][f].text = Candidate(g)[f]
                /\ state'[g].pending.target[f] = Candidate(g)[f]
         /\ f \in Delta(g) => /\ Candidate(g)[f] # state[g].baseline[f].text
                              /\ source[f].text = state[g].baseline[f].text
         /\ f \in ToSync(g) => Candidate(g)[f] = state[g].baseline[f].text /\ f \notin Delta(g)
         /\ f \notin Delta(g) /\ f \notin ToSync(g) => private[g][f].text = source[f].text
<1>1. state[g].pending \in Pending /\ ~PrivateChanged(g) /\ ~Conflicts(g)
  BY StateRow DEF BeginRebase
<1>2. /\ Baseline(g)[f] = state[g].baseline[f].text
      /\ Contents(private[g])[f] = private[g][f].text
  BY StateRow, ContentsTyped DEF Baseline
<1>3. Candidate(g)[f] # state[g].baseline[f].text => private[g][f].text = Candidate(g)[f]
  <2>1. CASE state[g].pending.on = TRUE
    <3>1. private[g][f].text \in {state[g].pending.before[f], state[g].pending.target[f]}
      BY <1>1, <2>1 DEF PrivateChanged, Content
    <3>2. state[g].pending.before[f] # state[g].baseline[f].text =>
             state[g].pending.target[f] = state[g].pending.before[f]
      BY <2>1 DEF Copies, CopyOK
    <3> QED BY <2>1, <3>1, <3>2 DEF Candidate
  <2>2. CASE state[g].pending.on = FALSE
    BY <1>2, <2>2 DEF Candidate
  <2> QED BY <1>1, <2>1, <2>2 DEF Pending
<1>4. f \in Delta(g) <=>
         Candidate(g)[f] # state[g].baseline[f].text /\ Candidate(g)[f] # source[f].text
  BY <1>2 DEF Delta, Content
<1>5. f \in Delta(g) => source[f].text = state[g].baseline[f].text
  BY <1>1, <1>2 DEF Conflicts, Content
<1>6. f \in ToSync(g) <=> f \notin Delta(g) /\ private[g][f].text # source[f].text
  BY DEF ToSync, Content
<1>7. /\ state'[g].pending.on = TRUE /\ state'[g].pending.before = Candidate(g)
      /\ state'[g].pending.target[f] =
            IF f \in Delta(g) THEN Candidate(g)[f] ELSE source[f].text
  <2> DEFINE target == [x \in Files |-> IF x \in Delta(g) THEN Candidate(g)[x] ELSE Content(source[x])]
  <2>1. /\ state'[g].pending.on = TRUE /\ state'[g].pending.before = Candidate(g)
        /\ state'[g].pending.target = target
    BY RebasePut
  <2>2. target[f] = IF f \in Delta(g) THEN Candidate(g)[f] ELSE source[f].text
    BY DEF Content
  <2> HIDE DEF target
  <2> QED BY <2>1, <2>2
<1> QED BY <1>3, <1>4, <1>5, <1>6, <1>7

\* What a rebase ends with.
LEMMA RebaseTo ==
  ASSUME Typed, Copies, CallKnows, NEW g \in Goals, EndRebase(g), source = call.receipt.source,
         NEW f \in Files
  PROVE  /\ f \in call.receipt.changed =>
              /\ state'[g].baseline[f] = state[g].baseline[f]
              /\ Descends(g, state[g].baseline[f], private[g][f])
              /\ source[f].text = state[g].baseline[f].text
              /\ private[g][f].text # state[g].baseline[f].text
         /\ f \notin call.receipt.changed =>
              state'[g].baseline[f] = source[f] /\ private[g][f].text = source[f].text
<1>1. SyncKnows(call, state[g], private[g]) /\ call.todo = {}
  BY DEF CallKnows, EndRebase, At
<1>2. state[g].phase = "ready"
  BY WorkspaceAssumption DEF EndRebase, At, Typed, CallTyped
<1>3. state'[g].baseline[f] = IF f \in call.receipt.changed THEN state[g].baseline[f] ELSE source[f]
  BY EndRebasePut
<1>4. ASSUME f \in call.receipt.changed
      PROVE  /\ Descends(g, state[g].baseline[f], private[g][f])
             /\ source[f].text = state[g].baseline[f].text
             /\ private[g][f].text # state[g].baseline[f].text
  BY <1>1, <1>2, <1>4 DEF SyncKnows, Copies, CopyOK
<1>5. f \notin call.receipt.changed => private[g][f].text = source[f].text
  BY <1>1 DEF SyncKnows
<1> QED BY <1>3, <1>4, <1>5

LEMMA CopiesStep ==
  ASSUME Typed, Copies, CallKnows, [Next]_vars
  PROVE  Copies'
<1> SUFFICES ASSUME NEW h \in Goals
             PROVE  CopyOK(h, state'[h], private'[h])
  BY DEF Copies
<1>0. CopyOK(h, state[h], private[h]) /\ private[h] \in Tree
  BY DEF Copies, Typed, TreesTyped
<1>1. CASE FinishCreate(h)
  <2>1. CASE source = state[h].baseline
    <3>1. private'[h] = source /\ state' = [state EXCEPT ![h].phase = "ready"]
      BY <1>1, <2>1 DEF FinishCreate, Typed, TreesTyped
    <3>2. /\ state'[h].phase = "ready" /\ state'[h].baseline = source
          /\ state'[h].pending = state[h].pending
      BY <2>1, <3>1, ReadyPut
    <3>3. \A f \in Files : Descends(h, source[f], source[f])
      BY DEF Descends, Seen
    <3> QED BY <1>0, <2>1, <3>1, <3>2, <3>3 DEF CopyOK
  <2>2. CASE source # state[h].baseline
    BY <1>0, <1>1, <2>2 DEF FinishCreate
  <2> QED BY <2>1, <2>2
<1>2. ASSUME NEW f \in Files, SyncFile(h, f) \/ AgentEdit(h, f), state' = state,
             \A x \in Files \ {f} : private'[h][x] = private[h][x]
      PROVE  CopyOK(h, state'[h], private'[h])
  <2>1. state[h].phase = "ready" =>
           \/ Descends(h, state[h].baseline[f], private'[h][f])
           \/ state[h].pending.on = TRUE /\ state[h].pending.before[f] = state[h].baseline[f].text
    <3>1. CASE SyncFile(h, f)
      BY <3>1 DEF SyncFile, At, CallKnows, SyncKnows
    <3>2. CASE AgentEdit(h, f)
      BY <1>0, <3>2, AgentsOwn DEF CopyOK, Descends
    <3> QED BY <1>2, <3>1, <3>2
  <2> QED BY <1>0, <1>2, <2>1 DEF CopyOK
<1>3. CASE private'[h] = private[h]
  <2>1. CASE state'[h] = state[h]
    BY <1>0, <1>3, <2>1
  <2>2. CASE BeginCreate(h)
    BY <1>0, <1>3, <2>2, CreatePut DEF CopyOK, BeginCreate
  <2>3. CASE RecoverLanded(h) \/ AssertPublished(h) \/ BeginPublish(h)
    <3>1. \/ state'[h] = state[h]
          \/ /\ state'[h].phase = state[h].phase /\ state'[h].baseline = state[h].baseline
             /\ state'[h].pending = state[h].pending
      <4>1. CASE BeginPublish(h)
        <5>1. CASE SameSnapshots(h, call.receipt)
          BY <4>1, <5>1, IntentPut, StateRow DEF GoalState
        <5>2. CASE ~SameSnapshots(h, call.receipt)
          BY <4>1, <5>2 DEF BeginPublish
        <5> QED BY <5>1, <5>2
      <4>2. CASE RecoverLanded(h) \/ AssertPublished(h)
        <5>1. UNCHANGED state \/ state' = [state EXCEPT ![h].publication.state = "published"]
          BY <4>2 DEF RecoverLanded, AssertPublished
        <5> QED BY <5>1, PublishedPut
      <4> QED BY <2>3, <4>1, <4>2
    <3> QED BY <1>0, <1>3, <3>1 DEF CopyOK
  <2>4. CASE BeginRebase(h)
    <3>1. state'[h].phase = "ready" /\ state'[h].baseline = state[h].baseline
      <4>1. state[h].phase = "ready"
        BY <2>4, WorkspaceAssumption DEF BeginRebase, At, Typed, CallTyped
      <4>2. \E pending : state'[h] = [state[h] EXCEPT !.pending = pending]
        BY <2>4, RebasePut
      <4> QED BY <4>1, <4>2, StateRow DEF GoalState
    <3>2. ASSUME NEW f \in Files
          PROVE  /\ \/ Descends(h, state[h].baseline[f], private[h][f])
                    \/ state'[h].pending.before[f] = state[h].baseline[f].text
                 /\ state'[h].pending.on = TRUE
                 /\ state'[h].pending.before[f] # state[h].baseline[f].text =>
                       state'[h].pending.target[f] = state'[h].pending.before[f]
      <4>1. state[h].pending.on = TRUE => Candidate(h)[f] = state[h].pending.before[f]
        BY DEF Candidate
      <4>2. state[h].phase = "ready"
        BY <2>4, WorkspaceAssumption DEF BeginRebase, At, Typed, CallTyped
      <4>3. \/ Descends(h, state[h].baseline[f], private[h][f])
            \/ Candidate(h)[f] = state[h].baseline[f].text
        BY <1>0, <4>1, <4>2 DEF CopyOK
      <4>4. /\ state'[h].pending.on = TRUE /\ state'[h].pending.before[f] = Candidate(h)[f]
            /\ Candidate(h)[f] # state[h].baseline[f].text =>
                  state'[h].pending.target[f] = Candidate(h)[f]
        BY <2>4, RebaseFrom
      <4> QED BY <4>3, <4>4
    <3>3. state'[h].pending.on = TRUE
      BY <2>4, RebasePut
    <3> QED BY <1>3, <3>1, <3>2, <3>3 DEF CopyOK
  <2>5. CASE EndRebase(h)
    <3>1. CASE source = call.receipt.source
      <4>1. state'[h].phase = state[h].phase /\ state'[h].pending.on = FALSE
        BY <2>5, <3>1, EndRebasePut DEF NotPending
      <4>2. ASSUME NEW f \in Files
            PROVE  Descends(h, state'[h].baseline[f], private[h][f])
        <5>1. CASE f \in call.receipt.changed
          BY <2>5, <3>1, <5>1, RebaseTo
        <5>2. CASE f \notin call.receipt.changed
          <6>1. state'[h].baseline[f] = source[f] /\ private[h][f].text = source[f].text
            BY <2>5, <3>1, <5>2, RebaseTo
          <6> QED BY <6>1 DEF Descends, Seen
        <5> QED BY <5>1, <5>2
      <4> QED BY <1>3, <4>1, <4>2 DEF CopyOK
    <3>2. CASE source # call.receipt.source
      BY <1>0, <1>3, <2>5, <3>2 DEF EndRebase
    <3> QED BY <3>1, <3>2
  <2> QED BY <1>1, <2>1, <2>2, <2>3, <2>4, <2>5, StateSteps
<1> QED BY <1>1, <1>2, <1>3, PrivateSteps

--------------------------------------------------------------------------------
(* The receipts on record.                                                    *)

LEMMA NothingReceived ==
  ASSUME NEW g
  PROVE  ReceiptOK(g, NoReceipt) /\ Unpublished.receipt = NoReceipt /\ Unpublished.state = "none"
  BY DEF ReceiptOK, NoReceipt, Unpublished, Blank

\* The record of a publication is as it was, or written by one of these steps.
LEMMA PublicationSteps ==
  ASSUME Typed, [Next]_vars, NEW h \in Goals
  PROVE  \/ Publication(h)' = Publication(h)
         \/ /\ RecoverLanded(h) \/ AssertPublished(h)
            /\ Publication(h)'.state = "published" /\ Receipt(h)' = Receipt(h)
         \/ /\ EndRebase(h) /\ source = call.receipt.source
            /\ Publication(h)' = Unpublished /\ manifest'[h] = "none"
         \/ /\ BeginPublish(h) /\ SameSnapshots(h, call.receipt)
            /\ Publication(h)' = [state |-> "prepared", receipt |-> call.receipt]
<1> USE DEF Publication, Receipt
<1>1. CASE state'[h] = state[h]
  BY <1>1
<1>2. CASE RecoverLanded(h) \/ AssertPublished(h)
  <2>1. UNCHANGED state \/ state' = [state EXCEPT ![h].publication.state = "published"]
    BY <1>2 DEF RecoverLanded, AssertPublished
  <2> QED BY <1>2, <2>1, PublishedPut
<1>3. CASE BeginCreate(h)
  BY <1>3, CreatePut
<1>4. CASE FinishCreate(h)
  <2>1. UNCHANGED state \/ state' = [state EXCEPT ![h].phase = "ready"]
    BY <1>4 DEF FinishCreate
  <2> QED BY <2>1, ReadyPut
<1>5. CASE BeginRebase(h)
  <2>1. \E pending : state'[h] = [state[h] EXCEPT !.pending = pending]
    BY <1>5, RebasePut
  <2> QED BY <2>1, StateRow DEF GoalState
<1>6. CASE EndRebase(h)
  <2>1. CASE source = call.receipt.source
    <3>1. manifest'[h] = "none"
      BY <1>6, <2>1 DEF EndRebase, Typed, StateTyped
    <3> QED BY <1>6, <2>1, <3>1, EndRebasePut
  <2>2. CASE source # call.receipt.source
    BY <1>6, <2>2 DEF EndRebase
  <2> QED BY <2>1, <2>2
<1>7. CASE BeginPublish(h)
  <2> DEFINE new == [state |-> "prepared", receipt |-> call.receipt]
  <2>1. CASE SameSnapshots(h, call.receipt)
    <3>1. state'[h] = [state[h] EXCEPT !.publication = new]
      BY <1>7, <2>1, IntentPut
    <3> HIDE DEF new
    <3>2. state'[h].publication = new
      BY <3>1, StateRow DEF GoalState
    <3> QED BY <1>7, <2>1, <3>2 DEF new
  <2>2. CASE ~SameSnapshots(h, call.receipt)
    BY <1>7, <2>2 DEF BeginPublish
  <2> QED BY <2>1, <2>2
<1> QED BY <1>1, <1>2, <1>3, <1>4, <1>5, <1>6, <1>7, StateSteps

\* A transaction's manifest is written only with the intent to publish on record.
LEMMA ManifestRecorded ==
  ASSUME Typed, Records, CallKnows, [Next]_vars, NEW h \in Goals,
         manifest'[h] # manifest[h], ~EndRebase(h)
  PROVE  Publication(h).state # "none"
<1>1. CASE RecoverFinalize(h)
  BY <1>1 DEF RecoverFinalize
<1>2. CASE GiveUpPrior(h)
  <2>1. manifest[h] = "prepared"
    BY <1>2 DEF GiveUpPrior, Typed, StateTyped
  <2> QED BY <2>1 DEF Records, RecordOK
<1>3. CASE PrepareTransaction(h) \/ WriteManifest(h) \/ Lease(h) \/ Commit(h) \/ ApplyFails(h)
  <2>1. call.goal = h /\ call.pc \in Publishing
    BY <1>3 DEF PrepareTransaction, WriteManifest, Lease, Commit, ApplyFails, At, Publishing
  <2>2. Publication(h) = [state |-> "prepared", receipt |-> call.receipt]
    BY <2>1 DEF CallKnows, ReceiptKnows, Publication
  <2> QED BY <2>2
<1> QED BY <1>1, <1>2, <1>3, ManifestTyped

LEMMA RecordsStep ==
  ASSUME Typed, Records, CallKnows, [Next]_vars
  PROVE  Records'
<1> SUFFICES ASSUME NEW h \in Goals
             PROVE  RecordOK(h, Publication(h)', manifest'[h], verified'[h])
  BY DEF Records
<1>0. RecordOK(h, Publication(h), manifest[h], verified[h]) /\ Receipt(h) = Publication(h).receipt
  BY DEF Records, Receipt
<1>1. CASE /\ RecoverLanded(h) \/ AssertPublished(h)
           /\ Publication(h)'.state = "published" /\ Receipt(h)' = Receipt(h)
  BY <1>0, <1>1 DEF RecordOK, Receipt
<1>2. CASE Publication(h)' = Unpublished /\ manifest'[h] = "none"
  BY <1>2, NothingReceived DEF RecordOK
<1>3. CASE /\ BeginPublish(h) /\ SameSnapshots(h, call.receipt)
           /\ Publication(h)' = [state |-> "prepared", receipt |-> call.receipt]
  <2>1. call.goal = h /\ call.pc = "publish" /\ verified' = verified
    BY <1>3 DEF BeginPublish, At
  <2>2. ReceiptOK(h, call.receipt) /\ verified[h] = call.receipt.workspace
    BY <2>1 DEF CallKnows, ReceiptKnows
  <2>3. Publication(h)'.state = "prepared" /\ Publication(h)'.receipt = call.receipt
    BY <1>3
  <2> QED BY <2>1, <2>2, <2>3 DEF RecordOK
<1>4. CASE Publication(h)' = Publication(h)
  <2>1. Publication(h).state = "none" => manifest'[h] = "none"
    <3>1. CASE EndRebase(h)
      BY <1>0, <3>1 DEF EndRebase, RecordOK, Typed, StateTyped
    <3> QED BY <1>0, <3>1, ManifestRecorded DEF RecordOK
  <2>2. Publication(h).state = "prepared" => verified'[h] = Receipt(h).workspace
    <3>1. CASE Verify(h)
      <4>1. call.goal = h /\ call.pc = "verify" /\ verified'[h] = private[h]
        BY <3>1 DEF Verify, At, Typed, TreesTyped
      <4>2. private[h] = call.receipt.workspace
            /\ (Publication(h).state = "prepared" => call.receipt = Receipt(h))
        BY <4>1 DEF CallKnows, ReceiptKnows, Publication, Receipt
      <4> QED BY <4>1, <4>2
    <3> QED BY <1>0, <3>1, VerifiedTyped DEF RecordOK
  <2> QED BY <1>0, <1>4, <2>1, <2>2 DEF RecordOK
<1> QED BY <1>1, <1>2, <1>3, <1>4, PublicationSteps

--------------------------------------------------------------------------------
(* What the call knows.                                                       *)

\* A step of the call that only moves it on.
LEMMA MovesOn ==
  ASSUME Typed, NEW g \in Goals, NEW pc \in Steps,
         call.goal = g, call' = [call EXCEPT !.pc = pc]
  PROVE  call'.goal = g /\ call'.pc = pc /\ call'.receipt = call.receipt /\ call'.todo = call.todo
  BY CallMoves

LEMMA RebaseKnows ==
  ASSUME Typed, Copies, NEW g \in Goals, BeginRebase(g)
  PROVE  SyncKnows(call', state'[g], private'[g])
<1>1. /\ call'.todo = ToSync(g) /\ call'.receipt.source = source
      /\ call'.receipt.changed = Delta(g) /\ private' = private
  BY CallRebases DEF BeginRebase
<1>2. state'[g].baseline = state[g].baseline /\ state'[g].pending.on = TRUE
  <2>1. \E pending : state'[g] = [state[g] EXCEPT !.pending = pending]
    BY RebasePut
  <2> QED BY <2>1, StateRow, RebasePut DEF GoalState
<1>3. ASSUME NEW f \in Delta(g)
      PROVE  /\ f \in Files
             /\ state'[g].pending.before[f] # state[g].baseline[f].text
             /\ private[g][f].text = state'[g].pending.before[f]
             /\ source[f].text = state[g].baseline[f].text
  <2>1. f \in Files
    BY StateRow
  <2>2. /\ state'[g].pending.before[f] = Candidate(g)[f]
        /\ Candidate(g)[f] # state[g].baseline[f].text
        /\ source[f].text = state[g].baseline[f].text
    BY <2>1, RebaseFrom
  <2>3. private[g][f].text = Candidate(g)[f]
    BY <2>1, <2>2, RebaseFrom
  <2> QED BY <2>1, <2>2, <2>3
<1>4. ASSUME NEW f \in Files, f \notin Delta(g), f \notin ToSync(g)
      PROVE  private[g][f].text = source[f].text
  BY <1>4, RebaseFrom
<1>5. ASSUME NEW f \in ToSync(g)
      PROVE  f \notin Delta(g) /\ state'[g].pending.before[f] = state[g].baseline[f].text
  <2>1. f \in Files
    BY DEF ToSync
  <2> QED BY <2>1, RebaseFrom
<1> QED BY <1>1, <1>2, <1>3, <1>4, <1>5 DEF SyncKnows

LEMMA SyncKeeps ==
  ASSUME Typed, CallKnows, NEW g \in Goals, NEW f \in Files, SyncFile(g, f), call'.goal = g
  PROVE  call'.pc = "sync" /\ SyncKnows(call', state'[g], private'[g])
<1>1. /\ call.goal = g /\ call.pc = "sync" /\ f \in call.todo /\ state' = state
      /\ SyncKnows(call, state[g], private[g])
  BY DEF SyncFile, At, CallKnows
<1>2. /\ source[f].text = call.receipt.source[f].text
      /\ private' = [private EXCEPT ![g][f] = source[f]]
      /\ call' = [call EXCEPT !.todo = @ \ {f}]
  BY WorkspaceAssumption DEF SyncFile, Content, Refuse, Idle
<1>3. call'.pc = "sync" /\ call'.receipt = call.receipt /\ call'.todo = call.todo \ {f}
  BY <1>1, <1>2, CallTicks
<1>4. private'[g] = [private[g] EXCEPT ![f] = source[f]] /\ private[g] \in Tree
  BY <1>2 DEF Typed, TreesTyped
<1>5. private'[g][f] = source[f] /\ \A x \in Files \ {f} : private'[g][x] = private[g][x]
  BY <1>4 DEF Tree
<1>6. f \notin call.receipt.changed /\ call.receipt.changed \subseteq Files
  BY <1>1, CallRow DEF SyncKnows
<1> QED BY <1>1, <1>2, <1>3, <1>5, <1>6 DEF SyncKnows

LEMMA RebasedReceipt ==
  ASSUME Typed, Copies, CallKnows, NEW g \in Goals, EndRebase(g), call'.goal = g
  PROVE  /\ call'.pc = "verify" /\ ReceiptOK(g, call'.receipt) /\ call'.receipt.workspace = private'[g]
         /\ Publication(g)'.state = "none"
<1>1. /\ source = call.receipt.source /\ private' = private
      /\ call' = [call EXCEPT !.pc = "verify", !.receipt.workspace = private[g]]
  BY WorkspaceAssumption DEF EndRebase, Refuse, Idle
<1>2. /\ call'.pc = "verify" /\ call'.receipt.source = source /\ call'.receipt.workspace = private[g]
      /\ call'.receipt.changed = call.receipt.changed
  BY <1>1, CallRebased
<1>3. Publication(g)'.state = "none"
  BY <1>1, EndRebasePut DEF Publication, Unpublished
<1>4. ASSUME NEW f \in call.receipt.changed
      PROVE  source[f].text \subseteq Seen(private[g][f]) /\ Own(g, Seen(private[g][f])) # {}
  <2>1. f \in Files
    BY CallRow
  <2>2. /\ Descends(g, state[g].baseline[f], private[g][f])
        /\ source[f].text = state[g].baseline[f].text
        /\ private[g][f].text # state[g].baseline[f].text
    BY <1>1, <1>4, <2>1, RebaseTo
  <2> QED BY <2>2 DEF Descends
<1>5. \A f \in Files \ call.receipt.changed : source[f].text = private[g][f].text
  BY <1>1, RebaseTo
<1> QED BY <1>1, <1>2, <1>3, <1>4, <1>5 DEF ReceiptOK

\* A receipt that is found again is the one on record.
LEMMA FoundReceipt ==
  ASSUME Typed, Records, NEW g \in Goals, RecoverLanded(g) \/ PriorReceipt(g),
         call'.goal = g
  PROVE  ReceiptKnows(g, call', state'[g], manifest'[g], private'[g], verified'[g])
         /\ call'.pc \in {"verify", "acknowledge"}
<1>0. /\ Receipt(g) \in Receipts /\ ReceiptOK(g, Receipt(g))
      /\ "verify" \in Steps /\ "acknowledge" \in Steps
  BY StateRow DEF Records, RecordOK, Receipt, Steps
<1> DEFINE found == [call EXCEPT !.pc = "verify", !.receipt = Receipt(g)]
<1>f. found.pc = "verify" /\ found.receipt = Receipt(g)
  BY <1>0, CallReceives
<1>1. CASE PriorReceipt(g)
  <2>1. /\ call' = [call EXCEPT !.pc = "verify", !.receipt = Receipt(g)]
        /\ state' = state /\ private' = private /\ private[g] = Receipt(g).workspace
    BY <1>1 DEF PriorReceipt, SameSnapshots, durable
  <2>2. call' = found
    BY <2>1
  <2> HIDE DEF found
  <2>3. call'.pc = "verify" /\ call'.receipt = Receipt(g)
    BY <1>f, <2>2
  <2> QED BY <1>0, <2>1, <2>3 DEF ReceiptKnows, Publishing, Publication, Receipt
<1>2. CASE RecoverLanded(g)
  <2>1. /\ private' = private /\ private[g] = Receipt(g).workspace
        /\ state' = [state EXCEPT ![g].publication.state = "published"]
        /\ \/ call' = [call EXCEPT !.pc = "verify", !.receipt = Receipt(g)]
           \/ call' = [call EXCEPT !.pc = "acknowledge"]
    BY <1>2, WorkspaceAssumption DEF RecoverLanded, SnapshotHolds, Refuse, Idle
  <2>2. \/ call'.pc = "verify" /\ call'.receipt = Receipt(g)
        \/ call'.pc = "acknowledge"
    <3>1. CASE call' = found
      <4> HIDE DEF found
      <4> QED BY <1>f, <3>1
    <3>2. CASE call' = [call EXCEPT !.pc = "acknowledge"]
      BY <1>0, <3>2, CallMoves
    <3> QED BY <2>1, <3>1, <3>2
  <2>3. state'[g].publication.state = "published"
    BY <2>1, PublishedPut
  <2> QED BY <1>0, <2>1, <2>2, <2>3 DEF ReceiptKnows, Publishing
<1> QED BY <1>1, <1>2

\* The checks pass on the copy of the receipt.
LEMMA VerifyKnows ==
  ASSUME Typed, CallKnows, NEW g \in Goals, Verify(g)
  PROVE  /\ ReceiptKnows(g, call', state'[g], manifest'[g], private'[g], verified'[g])
         /\ call'.pc = "publish"
<1>1. /\ call.goal = g /\ call.pc = "verify" /\ call' = [call EXCEPT !.pc = "publish"]
      /\ private' = private /\ verified'[g] = private[g]
  BY DEF Verify, At, Goto, durable, Typed, TreesTyped
<1>2. call'.pc = "publish" /\ call'.receipt = call.receipt
  BY <1>1, CallMoves DEF Steps
<1>3. ReceiptOK(g, call.receipt) /\ private[g] = call.receipt.workspace
  BY <1>1 DEF CallKnows, ReceiptKnows
<1> QED BY <1>1, <1>2, <1>3 DEF ReceiptKnows, Publishing

LEMMA IntentKnows ==
  ASSUME Typed, CallKnows, NEW g \in Goals, BeginPublish(g), call'.goal = g
  PROVE  /\ ReceiptKnows(g, call', state'[g], manifest'[g], private'[g], verified'[g])
         /\ call'.pc = "apply"
<1>1. /\ call.goal = g /\ call.pc = "publish" /\ SameSnapshots(g, call.receipt)
      /\ call' = [call EXCEPT !.pc = "apply"] /\ private' = private /\ verified' = verified
  BY WorkspaceAssumption DEF BeginPublish, At, Goto, Refuse, Idle
<1>2. call'.pc = "apply" /\ call'.receipt = call.receipt
  BY <1>1, CallMoves DEF Steps, Publishing
<1>3. /\ ReceiptOK(g, call.receipt) /\ private[g] = call.receipt.workspace
      /\ verified[g] = call.receipt.workspace
  BY <1>1 DEF CallKnows, ReceiptKnows
<1> DEFINE new == [state |-> "prepared", receipt |-> call.receipt]
<1>4. state'[g] = [state[g] EXCEPT !.publication = new]
  BY <1>1, IntentPut
<1>5. state'[g].publication = new
  <2> HIDE DEF new
  <2> QED BY <1>4, StateRow DEF GoalState
<1> QED BY <1>1, <1>2, <1>3, <1>5 DEF ReceiptKnows

\* From the intent on, the call only goes through its transaction.
LEMMA ApplyKnows ==
  ASSUME Typed, CallKnows, NEW g \in Goals, call'.goal = g,
         \/ PrepareTransaction(g) \/ WriteManifest(g) \/ Lease(g) \/ CloseLeases(g)
         \/ Commit(g) \/ NothingToApply(g) \/ \E f \in Files : Write(g, f)
  PROVE  /\ ReceiptKnows(g, call', state'[g], manifest'[g], private'[g], verified'[g])
         /\ call'.pc \in Publishing
<1>0. /\ call.goal = g /\ call.pc \in Publishing /\ state' = state /\ private' = private
      /\ verified' = verified
  BY DEF PrepareTransaction, WriteManifest, Lease, CloseLeases, Commit, NothingToApply, Write,
     At, Publishing, durable
<1>1. /\ ReceiptOK(g, call.receipt) /\ private[g] = call.receipt.workspace
      /\ verified[g] = call.receipt.workspace
      /\ state[g].publication = [state |-> "prepared", receipt |-> call.receipt]
      /\ call.pc \in {"lease", "write", "commit"} => manifest[g] = "prepared"
  BY <1>0 DEF CallKnows, ReceiptKnows
<1>2. /\ call'.receipt = call.receipt /\ call'.pc \in Publishing
      /\ call'.pc \in {"lease", "write", "commit"} => manifest'[g] = "prepared"
  <2>0. manifest \in [Goals -> Manifests] /\ g # None
    BY WorkspaceAssumption DEF Typed, StateTyped
  <2>1. CASE PrepareTransaction(g)
    <3>1. \/ call' = [call EXCEPT !.pc = "manifest"]
          \/ call' = [call EXCEPT !.pc = "lease"] /\ manifest' = manifest /\ manifest[g] = "prepared"
      BY <2>0, <2>1 DEF PrepareTransaction, Goto, Refuse, Idle
    <3>2. CASE call' = [call EXCEPT !.pc = "manifest"]
      BY <3>2, CallMoves DEF Steps, Publishing
    <3>3. CASE call' = [call EXCEPT !.pc = "lease"] /\ manifest' = manifest /\ manifest[g] = "prepared"
      BY <3>3, CallMoves DEF Steps, Publishing
    <3> QED BY <3>1, <3>2, <3>3
  <2>2. CASE WriteManifest(g)
    <3>1. call' = [call EXCEPT !.pc = "lease"] /\ manifest'[g] = "prepared"
      BY <2>0, <2>2 DEF WriteManifest, Goto, Refuse, Idle
    <3> QED BY <3>1, CallMoves DEF Steps, Publishing
  <2>3. CASE Lease(g)
    <3> DEFINE c == [call EXCEPT !.pc = "write", !.todo = call.receipt.changed]
    <3>1. call' = c /\ manifest' = manifest /\ call.pc = "lease"
      BY <2>0, <2>3 DEF Lease, Refuse, Idle, At
    <3>2. c.pc = "write" /\ c.receipt = call.receipt
      <4>1. call.receipt.changed \in SUBSET Files /\ "write" \in Steps
        BY CallRow DEF Steps, Publishing
      <4> QED BY <4>1, CallWrites
    <3> HIDE DEF c
    <3> QED BY <1>1, <3>1, <3>2 DEF Publishing
  <2>4. CASE CloseLeases(g)
    <3>1. /\ call' = [call EXCEPT !.pc = "commit"] /\ manifest' = manifest /\ call.pc = "write"
      BY <2>4 DEF CloseLeases, Goto, durable, At
    <3> QED BY <1>1, <3>1, CallMoves DEF Steps, Publishing
  <2>5. CASE Commit(g) \/ NothingToApply(g)
    <3>1. call' = [call EXCEPT !.pc = "assert"]
      BY <2>5 DEF Commit, NothingToApply, Goto
    <3> QED BY <3>1, CallMoves DEF Steps, Publishing
  <2>6. ASSUME NEW f \in Files, Write(g, f)
        PROVE  call'.receipt = call.receipt /\ call'.pc = "write" /\ manifest'[g] = "prepared"
    <3>1. /\ call' = [call EXCEPT !.todo = @ \ {f}] /\ manifest' = manifest /\ call.pc = "write"
      BY <2>6 DEF Write, At
    <3> QED BY <1>1, <3>1, CallTicks
  <2> QED BY <2>1, <2>2, <2>3, <2>4, <2>5, <2>6 DEF Publishing
<1> QED BY <1>0, <1>1, <1>2 DEF ReceiptKnows

\* What the call knows after a step of its own.
LEMMA StepKnows ==
  ASSUME Typed, Copies, Records, CallKnows, NEW g \in Goals, Step(g), call'.goal = g
  PROVE  /\ call'.pc = "sync" => SyncKnows(call', state'[g], private'[g])
         /\ ReceiptKnows(g, call', state'[g], manifest'[g], private'[g], verified'[g])
<1>0. call' # Idle /\ call.goal = g
  BY CallSteps, WorkspaceAssumption DEF Idle
<1>1. CASE \/ FinishCreate(g) \/ RecoverInterrupted(g) \/ RefusePrivateChanged(g)
           \/ RefuseConflict(g) \/ VerifyFails(g) \/ ApplyFails(g) \/ Acknowledge(g)
  BY <1>0, <1>1 DEF FinishCreate, RecoverInterrupted, RefusePrivateChanged,
     RefuseConflict, VerifyFails, ApplyFails, Acknowledge, Refuse
<1>2. CASE RecoverFinalize(g)
  <2>1. /\ call' = call /\ call.pc \in {"prepare", "publish"} /\ private' = private
        /\ verified' = verified
    BY <1>2 DEF RecoverFinalize
  <2>2. ReceiptKnows(g, call, state[g], manifest[g], private[g], verified[g])
    BY <1>0 DEF CallKnows
  <2> QED BY <2>1, <2>2 DEF ReceiptKnows, Publishing
<1>3. CASE RecoverLanded(g) \/ PriorReceipt(g)
  BY <1>3, FoundReceipt
<1>4. CASE GiveUpPrior(g)
  <2>1. call' = [call EXCEPT !.pc = "rebase"]
    BY <1>4 DEF GiveUpPrior, Goto
  <2>2. call'.pc = "rebase"
    BY <2>1, CallMoves DEF Steps
  <2> QED BY <2>2 DEF ReceiptKnows, Publishing
<1>5. CASE BeginRebase(g)
  <2>1. call'.pc = "sync"
    BY <1>5, CallRebases
  <2> QED BY <1>5, <2>1, RebaseKnows DEF ReceiptKnows, Publishing
<1>6. ASSUME NEW f \in Files, SyncFile(g, f)
      PROVE  /\ call'.pc = "sync" /\ SyncKnows(call', state'[g], private'[g])
             /\ ReceiptKnows(g, call', state'[g], manifest'[g], private'[g], verified'[g])
  <2>1. call'.pc = "sync" /\ SyncKnows(call', state'[g], private'[g])
    BY <1>6, SyncKeeps
  <2> QED BY <2>1 DEF ReceiptKnows, Publishing
<1>7. CASE EndRebase(g)
  <2>1. /\ call'.pc = "verify" /\ ReceiptOK(g, call'.receipt) /\ private'[g] = call'.receipt.workspace
        /\ state'[g].publication.state = "none"
    BY <1>7, RebasedReceipt DEF Publication
  <2> QED BY <2>1 DEF ReceiptKnows, Publishing
<1>8. CASE Verify(g)
  BY <1>8, VerifyKnows
<1>9. CASE BeginPublish(g)
  BY <1>9, IntentKnows
<1>10. CASE \/ PrepareTransaction(g) \/ WriteManifest(g) \/ Lease(g) \/ CloseLeases(g)
            \/ Commit(g) \/ NothingToApply(g) \/ \E f \in Files : Write(g, f)
  BY <1>10, ApplyKnows DEF Publishing
<1>11. CASE AssertPublished(g)
  <2>1. call' = [call EXCEPT !.pc = "acknowledge"]
    BY <1>0, <1>11 DEF AssertPublished, Goto, Refuse
  <2>2. call'.pc = "acknowledge"
    BY <2>1, CallMoves DEF Steps
  <2> QED BY <2>2 DEF ReceiptKnows, Publishing
<1> QED BY <1>1, <1>2, <1>3, <1>4, <1>5, <1>6, <1>7, <1>8, <1>9, <1>10, <1>11 DEF Step

\* A file that the call still has to write is as it was when it was planned:
\* Lease compared it, and the user cannot write a leased file.
LEMMA WriteStep ==
  ASSUME Typed, CallKnows, [Next]_vars
  PROVE  WriteKnows(call', source')
<1>0. WriteKnows(call, source) /\ call \in Call /\ source \in Tree
  BY DEF CallKnows, Typed, CallTyped, TreesTyped
<1>1. CASE call' = Idle
  BY <1>1 DEF WriteKnows, Idle
<1>2. ASSUME NEW g \in Goals, Lease(g), call' # Idle
      PROVE  WriteKnows(call', source')
  <2> DEFINE c == [call EXCEPT !.pc = "write", !.todo = call.receipt.changed]
  <2>1. call' = c /\ source' = source /\ AsPlanned
    BY <1>2 DEF Lease, Refuse
  <2>2. c.receipt = call.receipt /\ c.todo = call.receipt.changed
    <3>1. call.receipt.changed \in SUBSET Files /\ "write" \in Steps
      BY CallRow DEF Steps, Publishing
    <3> QED BY <3>1, CallWrites
  <2> HIDE DEF c
  <2> QED BY <2>1, <2>2 DEF WriteKnows, AsPlanned, Content
<1>3. ASSUME NEW g \in Goals, NEW f \in Files, Write(g, f)
      PROVE  WriteKnows(call', source')
  <2>1. /\ call' = [call EXCEPT !.todo = @ \ {f}] /\ call.pc = "write"
        /\ source' = [source EXCEPT ![f] = call.receipt.workspace[f]]
    BY <1>3 DEF Write, At
  <2>2. call'.receipt = call.receipt /\ call'.todo = call.todo \ {f}
    BY <2>1, CallTicks
  <2>3. \A x \in Files \ {f} : source'[x] = source[x]
    BY <1>0, <2>1 DEF Tree
  <2> QED BY <1>0, <2>1, <2>2, <2>3, CallRow DEF WriteKnows
<1>4. CASE UNCHANGED <<call, source>>
  BY <1>0, <1>4
<1>5. ASSUME NEW f \in Files, UserEdit(f)
      PROVE  WriteKnows(call', source')
  <2>1. call' = call /\ ~Leased(f)
    BY <1>5 DEF UserEdit
  <2>2. \A x \in Files \ {f} : source'[x] = source[x]
    <3>1. \E v : source' = [source EXCEPT ![f] = v]
      <4>1. ASSUME NEW e, source' = [source EXCEPT ![f].text = @ \cup {e}]
            PROVE  \E v : source' = [source EXCEPT ![f] = v]
        <5>1. source' = [source EXCEPT ![f] = [source[f] EXCEPT !.text = @ \cup {e}]]
          BY <4>1
        <5> QED BY <5>1
      <4>2. ASSUME NEW e, source' = [source EXCEPT ![f].text = @ \ {e}, ![f].undone = @ \cup {e}]
            PROVE  \E v : source' = [source EXCEPT ![f] = v]
        <5>1. source' = [source EXCEPT ![f] = [source[f] EXCEPT !.text = @ \ {e}, !.undone = @ \cup {e}]]
          BY <4>2
        <5> QED BY <5>1
      <4> QED BY <1>5, <4>1, <4>2 DEF UserEdit
    <3> QED BY <1>0, <3>1 DEF Tree
  <2> QED BY <1>0, <2>1, <2>2, CallRow DEF WriteKnows, Leased
<1>6. ASSUME NEW g \in Goals, Step(g) \/ BeginCreate(g) \/ Begin(g)
      PROVE  WriteKnows(call', source')
  <2>1. CASE BeginCreate(g) \/ Begin(g)
    <3>1. call' = [Idle EXCEPT !.goal = g, !.pc = "create"]
          \/ call' = [Idle EXCEPT !.goal = g, !.pc = "prepare"]
      BY <2>1 DEF BeginCreate, Begin
    <3>2. call'.pc # "write"
      BY <3>1 DEF Idle
    <3> QED BY <3>2 DEF WriteKnows
  <2>2. CASE UNCHANGED source /\ call' # Idle /\ Step(g) /\ ~Lease(g)
             /\ ~(\E f \in Files : Write(g, f))
    <3>1. call'.pc # "write"
      <4>1. CASE \/ FinishCreate(g) \/ RecoverInterrupted(g) \/ RefusePrivateChanged(g)
                 \/ RefuseConflict(g) \/ VerifyFails(g) \/ ApplyFails(g) \/ Acknowledge(g)
        BY <2>2, <4>1 DEF FinishCreate, RecoverInterrupted, RefusePrivateChanged,
           RefuseConflict, VerifyFails, ApplyFails, Acknowledge, Refuse
      <4>2. CASE RecoverFinalize(g)
        BY <4>2 DEF RecoverFinalize
      <4>3. CASE RecoverLanded(g) \/ PriorReceipt(g)
        <5>1. call' = [call EXCEPT !.pc = "verify", !.receipt = Receipt(g)]
              \/ call' = [call EXCEPT !.pc = "acknowledge"]
          BY <2>2, <4>3 DEF RecoverLanded, PriorReceipt, Refuse
        <5> QED BY <1>0, <5>1 DEF Call
      <4>4. CASE BeginRebase(g)
        BY <4>4, CallRebases
      <4>5. CASE EndRebase(g)
        <5>1. call' = [call EXCEPT !.pc = "verify", !.receipt.workspace = private[g]]
          BY <2>2, <4>5 DEF EndRebase, Refuse
        <5> QED BY <5>1, CallRebased
      <4>6. ASSUME NEW f \in Files, SyncFile(g, f)
            PROVE  call'.pc # "write"
        <5>1. call' = [call EXCEPT !.todo = @ \ {f}] /\ call.pc = "sync"
          BY <2>2, <4>6 DEF SyncFile, Refuse, At
        <5> QED BY <5>1, CallTicks
      <4>7. CASE \/ GiveUpPrior(g) \/ Verify(g) \/ BeginPublish(g) \/ PrepareTransaction(g)
                 \/ WriteManifest(g) \/ CloseLeases(g) \/ Commit(g) \/ NothingToApply(g)
                 \/ AssertPublished(g)
        <5>1. \E pc \in {"rebase", "publish", "apply", "manifest", "lease", "commit", "assert", "acknowledge"} :
                 call' = [call EXCEPT !.pc = pc]
          BY <2>2, <4>7 DEF GiveUpPrior, Verify, BeginPublish, PrepareTransaction, WriteManifest,
             CloseLeases, Commit, NothingToApply, AssertPublished, Goto, Refuse
        <5> QED BY <5>1, CallMoves DEF Steps, Publishing
      <4> QED BY <2>2, <4>1, <4>2, <4>3, <4>4, <4>5, <4>6, <4>7 DEF Step
    <3> QED BY <3>1 DEF WriteKnows
  <2>3. call' # Idle /\ Step(g) /\ ~(\E f \in Files : Write(g, f)) => UNCHANGED source
    BY DEF Step, durable, FinishCreate, RecoverFinalize, RecoverInterrupted, RecoverLanded,
       PriorReceipt, GiveUpPrior, BeginRebase, RefusePrivateChanged, RefuseConflict,
       SyncFile, EndRebase, Verify, VerifyFails, BeginPublish, PrepareTransaction,
       WriteManifest, Lease, CloseLeases, Commit, NothingToApply, AssertPublished,
       Acknowledge, ApplyFails, Refuse
  <2> QED BY <1>1, <1>2, <1>3, <1>6, <2>1, <2>2, <2>3
<1>7. ASSUME NEW f \in Files, NEW g \in Goals, AgentEdit(g, f)
      PROVE  UNCHANGED <<call, source>>
  BY <1>7 DEF AgentEdit
<1>8. CASE Crash
  BY <1>1, <1>8 DEF Crash
<1> QED BY <1>4, <1>5, <1>6, <1>7, <1>8 DEF Next, vars

LEMMA CallKnowsStep ==
  ASSUME Typed, Copies, Records, CallKnows, [Next]_vars
  PROVE  CallKnows'
<1> SUFFICES ASSUME NEW h \in Goals, call'.goal = h
             PROVE  /\ call'.pc = "sync" => SyncKnows(call', state'[h], private'[h])
                    /\ ReceiptKnows(h, call', state'[h], manifest'[h], private'[h], verified'[h])
  BY WriteStep DEF CallKnows
<1>0. private \in [Goals -> Tree] /\ h # None
  BY WorkspaceAssumption DEF Typed, TreesTyped
<1>1. CASE UNCHANGED <<call, state, manifest, verified>> /\ private'[h] = private[h]
  BY <1>1 DEF CallKnows
<1>2. ASSUME NEW g \in Goals, Step(g)
      PROVE  /\ call'.pc = "sync" => SyncKnows(call', state'[h], private'[h])
             /\ ReceiptKnows(h, call', state'[h], manifest'[h], private'[h], verified'[h])
  <2>1. g = h
    BY <1>0, <1>2, CallSteps DEF Idle, Moved
  <2> QED BY <1>2, <2>1, StepKnows
<1>3. ASSUME NEW g \in Goals, BeginCreate(g) \/ Begin(g)
      PROVE  /\ call'.pc = "sync" => SyncKnows(call', state'[h], private'[h])
             /\ ReceiptKnows(h, call', state'[h], manifest'[h], private'[h], verified'[h])
  <2>1. call'.pc \in {"create", "prepare"}
    <3>1. call' = [Idle EXCEPT !.goal = g, !.pc = "create"]
          \/ call' = [Idle EXCEPT !.goal = g, !.pc = "prepare"]
      BY <1>3 DEF BeginCreate, Begin
    <3> QED BY <3>1 DEF Idle
  <2> QED BY <2>1 DEF ReceiptKnows, Publishing
<1>4. ASSUME NEW f \in Files, NEW g \in Goals, AgentEdit(g, f)
      PROVE  UNCHANGED <<call, state, manifest, verified>> /\ private'[h] = private[h]
  <2>1. UNCHANGED <<call, state, manifest, verified>> /\ g # h
    BY <1>4 DEF AgentEdit
  <2>2. private'[h] = private[h]
    <3>1. ASSUME NEW e, private' = [private EXCEPT ![g][f].text = @ \ {e}, ![g][f].undone = @ \cup {e}]
          PROVE  private'[h] = private[h]
      <4>1. private' = [private EXCEPT ![g] =
                [private[g] EXCEPT ![f] = [private[g][f] EXCEPT !.text = @ \ {e}, !.undone = @ \cup {e}]]]
        BY <3>1
      <4> QED BY <1>0, <2>1, <4>1
    <3>2. ASSUME NEW e, private' = [private EXCEPT ![g][f].text = @ \cup {e}]
          PROVE  private'[h] = private[h]
      BY <1>0, <2>1, <3>2
    <3> QED BY <1>4, <3>1, <3>2 DEF AgentEdit
  <2> QED BY <2>1, <2>2
<1>5. ASSUME NEW f \in Files, UserEdit(f)
      PROVE  UNCHANGED <<call, state, manifest, verified, private>>
  BY <1>5 DEF UserEdit
<1>6. CASE Crash
  BY <1>0, <1>6 DEF Crash, Idle
<1> QED BY <1>1, <1>2, <1>3, <1>4, <1>5, <1>6 DEF Next, vars

--------------------------------------------------------------------------------
(* The theorems.                                                              *)

LEMMA IInvInit == Init => IInv
<1> SUFFICES ASSUME Init PROVE IInv
  OBVIOUS
<1> DEFINE st == [phase |-> "none", baseline |-> Blank,
                  publication |-> Unpublished, pending |-> NotPending]
<1>0. st \in GoalState /\ st.phase = "none" /\ st.publication = Unpublished
      /\ st.pending = NotPending
  BY BlankTyped DEF GoalState, Publications, Pending, Unpublished, NotPending
<1>1. \A g \in Goals : state[g] = st /\ private[g] = Blank /\ manifest[g] = "none"
  BY DEF Init
<1>2. call = Idle /\ source = Blank /\ made = {} /\ crashes = 0
      /\ status = [g \in Goals |-> "open"] /\ verified = [g \in Goals |-> Blank]
      /\ private = [g \in Goals |-> Blank] /\ manifest = [g \in Goals |-> "none"]
      /\ state = [g \in Goals |-> st]
  BY DEF Init
<1> HIDE DEF st
<1>3. TreesTyped
  BY <1>2, BlankTyped DEF TreesTyped
<1>4. StateTyped
  BY <1>0, <1>2, WorkspaceAssumption DEF StateTyped, Manifests
<1>5. CallTyped
  BY <1>2, IdleTyped DEF CallTyped
<1>6. Copies
  BY <1>0, <1>1 DEF Copies, CopyOK, NotPending
<1>7. Records
  BY <1>0, <1>1, NothingReceived DEF Records, RecordOK, Publication
<1>8. CallKnows
  BY <1>2, WorkspaceAssumption DEF CallKnows, WriteKnows, Idle
<1> QED BY <1>3, <1>4, <1>5, <1>6, <1>7, <1>8 DEF IInv, Typed

LEMMA IInvStep == IInv /\ [Next]_vars => IInv'
  BY TypedStep, CopiesStep, RecordsStep, CallKnowsStep DEF IInv

\* The state of every copy, record and call is as IInv says.
THEOREM WorkspaceInvariant == Spec => []IInv
<1> QED BY IInvInit, IInvStep, PTL DEF Spec

LEMMA TypedTypeOK == ASSUME IInv PROVE TypeOK
<1>1. ASSUME NEW g \in Goals
      PROVE  /\ state[g].phase \in {"none", "initializing", "ready"} /\ state[g].baseline \in Tree
             /\ Publication(g).state \in {"none", "prepared", "published"}
             /\ Receipt(g).changed \subseteq Files
             /\ state[g].pending.before \in [Files -> SUBSET Edits]
  BY StateRow DEF IInv, GoalState, Publications, Receipts, Pending, Texts
<1>2. call.goal = None <=> call = Idle
  BY DEF IInv, Typed, CallTyped, Idle
<1> QED BY <1>1, <1>2 DEF TypeOK, IInv, Typed, TreesTyped, StateTyped, CallTyped, Manifests

\* Every variable of the workspaces keeps its type, and a call is only made for
\* a goal that has its copy.
THEOREM WorkspaceTypes == Spec => []TypeOK
<1> QED BY WorkspaceInvariant, TypedTypeOK, PTL

\* A goal's publication changes only files its own agents worked on
\* (prepare_publish's delta), however often a rebase was interrupted.
THEOREM OnlyOwnChanges == Spec => []OnlyOwnDelta
<1>1. IInv => OnlyOwnDelta
  BY DEF IInv, Records, RecordOK, ReceiptOK, OnlyOwnDelta, Receipt
<1> QED BY <1>1, WorkspaceInvariant, PTL

\* Who edits the project: a version is only replaced by one made from it.
LEMMA UserKeeps ==
  ASSUME Typed, NEW f \in Files, UserEdit(f), NEW x \in Files
  PROVE  Seen(source[x]) \subseteq Seen(source'[x])
<1>0. source \in Tree /\ source[f] \in Version
  BY DEF Typed, TreesTyped, Tree
<1>1. ASSUME NEW w, source' = [source EXCEPT ![f] = w], Seen(source[f]) \subseteq Seen(w)
      PROVE  Seen(source[x]) \subseteq Seen(source'[x])
  BY <1>0, <1>1 DEF Tree, Seen
<1>2. ASSUME NEW e \in Edits, source' = [source EXCEPT ![f].text = @ \cup {e}]
      PROVE  Seen(source[x]) \subseteq Seen(source'[x])
  <2> DEFINE w == [source[f] EXCEPT !.text = @ \cup {e}]
  <2>1. /\ w.text = source[f].text \cup {e} /\ w.undone = source[f].undone
        /\ source' = [source EXCEPT ![f] = w]
    BY <1>0, <1>2, VersionGrows
  <2> HIDE DEF w
  <2>2. Seen(source[f]) \subseteq Seen(w)
    BY <2>1 DEF Seen
  <2> QED BY <1>1, <2>1, <2>2
<1>3. ASSUME NEW e \in source[f].text,
             source' = [source EXCEPT ![f].text = @ \ {e}, ![f].undone = @ \cup {e}]
      PROVE  Seen(source[x]) \subseteq Seen(source'[x])
  <2> DEFINE w == [source[f] EXCEPT !.text = @ \ {e}, !.undone = @ \cup {e}]
  <2>1. /\ w.text = source[f].text \ {e} /\ w.undone = source[f].undone \cup {e}
        /\ source' = [source EXCEPT ![f] = w]
    BY <1>0, <1>3, VersionUndone
  <2> HIDE DEF w
  <2>2. Seen(source[f]) \subseteq Seen(w)
    BY <2>1 DEF Seen
  <2> QED BY <1>1, <2>1, <2>2
<1>4. ASSUME NEW g \in Goals, Seen(source[f]) \subseteq Seen(private[g][f]),
             source' = [source EXCEPT ![f] = private[g][f]]
      PROVE  Seen(source[x]) \subseteq Seen(source'[x])
  BY <1>1, <1>4 DEF Seen
<1> QED BY <1>2, <1>3, <1>4 DEF UserEdit

\* A transaction only takes back what it wrote.
LEMMA RollbackKeeps ==
  ASSUME Typed, CallKnows, NEW g \in Goals, ApplyFails(g), NEW x \in Files
  PROVE  source[x].text \subseteq Seen(source'[x]) \/ PutBack(x)
<1>1. /\ call.goal = g /\ call.pc \in {"write", "commit"}
      /\ manifest' = [manifest EXCEPT ![g] = IF Restorable THEN "rolled_back" ELSE "rolling_back"]
      /\ source' = IF Restorable THEN Restored ELSE source
  BY DEF ApplyFails, At
<1>2. manifest[g] = "prepared" /\ Receipt(g) = call.receipt
  BY <1>1 DEF CallKnows, ReceiptKnows, Receipt, Publication, Publishing
<1>3. CASE Restorable /\ Content(source[x]) = Content(call.receipt.workspace[x])
  <2>1. manifest'[g] = "rolled_back"
    BY <1>1, <1>3 DEF Typed, StateTyped
  <2> QED BY <1>2, <1>3, <2>1 DEF PutBack
<1>4. CASE ~(Restorable /\ Content(source[x]) = Content(call.receipt.workspace[x]))
  <2>1. source'[x] = source[x]
    BY <1>1, <1>4 DEF Restored
  <2> QED BY <2>1 DEF Seen
<1> QED BY <1>3, <1>4

\* No text of the project is lost to a publication: what a step puts in the
\* place of a file was made from it, or puts back what a failed transaction
\* found there (publish, FileTransaction.apply and rollback).
THEOREM NothingOverwritten == Spec => NoLostUpdate
<1>1. ASSUME IInv, [Next]_vars, NEW x \in Files
      PROVE  source[x].text \subseteq Seen(source'[x]) \/ PutBack(x)
  <2>0. Typed /\ CallKnows /\ source \in Tree
    BY <1>1 DEF IInv, Typed, TreesTyped
  <2>1. CASE UNCHANGED source
    BY <2>1 DEF Seen
  <2>2. ASSUME NEW g \in Goals, NEW f \in Files, Write(g, f)
        PROVE  source[x].text \subseteq Seen(source'[x])
    <3>1. /\ call.goal = g /\ call.pc = "write" /\ f \in call.todo
          /\ source' = [source EXCEPT ![f] = call.receipt.workspace[f]]
      BY <2>2 DEF Write, At
    <3>2. f \in call.receipt.changed /\ source[f].text = call.receipt.source[f].text
      BY <2>0, <3>1 DEF CallKnows, WriteKnows
    <3>3. ReceiptOK(g, call.receipt)
      BY <2>0, <3>1 DEF CallKnows, ReceiptKnows, Publishing
    <3>4. source[f].text \subseteq Seen(call.receipt.workspace[f])
      BY <3>2, <3>3 DEF ReceiptOK
    <3>5. source'[f] = call.receipt.workspace[f] /\ \A y \in Files \ {f} : source'[y] = source[y]
      BY <2>0, <3>1 DEF Tree
    <3>6. x # f => source[x].text \subseteq Seen(source'[x])
      BY <3>5 DEF Seen
    <3> QED BY <3>4, <3>5, <3>6
  <2>3. ASSUME NEW f \in Files, UserEdit(f)
        PROVE  source[x].text \subseteq Seen(source'[x])
    BY <2>0, <2>3, UserKeeps DEF Seen
  <2> QED BY <1>1, <2>0, <2>1, <2>2, <2>3, RollbackKeeps, SourceChange
<1>2. IInv /\ [Next]_vars => [\A f \in Files : source[f].text \subseteq Seen(source'[f]) \/ PutBack(f)]_vars
  BY <1>1
<1> QED BY <1>2, WorkspaceInvariant, PTL DEF Spec, NoLostUpdate

\* The project holds what a receipt says, and the receipt is of the copy: then
\* the project is the copy.
LEMMA SnapshotIsCopy ==
  ASSUME NEW g, NEW r, ReceiptOK(g, r), NEW tree, SnapshotHolds(r, tree)
  PROVE  tree = r.workspace /\ Contents(source) = Contents(tree)
<1>1. \A f \in Files : source[f].text = tree[f].text
  BY DEF ReceiptOK, SnapshotHolds, Content
<1> QED BY <1>1 DEF Contents, Content, SnapshotHolds

\* A publication is only acknowledged when the project is the copy that the
\* goal's last checks passed on, directly or found again after a crash
\* (_assert_published_snapshot).
THEOREM PublishedWasVerified == Spec => PublishedIsVerified
<1>1. ASSUME IInv, [Next]_vars, NEW g \in Goals,
             Publication(g).state # "published", Publication(g)'.state = "published"
      PROVE  private[g] = verified[g] /\ Contents(source) = Contents(verified[g])
  <2>0. Typed /\ Records /\ CallKnows
    BY <1>1 DEF IInv
  <2>1. RecoverLanded(g) \/ AssertPublished(g)
    BY <1>1, <2>0, PublicationSteps DEF Unpublished
  <2>2. CASE AssertPublished(g)
    <3>1. call.goal = g /\ call.pc = "assert" /\ SnapshotHolds(call.receipt, private[g])
      BY <1>1, <2>2 DEF AssertPublished, At, Publication
    <3>2. ReceiptOK(g, call.receipt) /\ verified[g] = call.receipt.workspace
      BY <2>0, <3>1 DEF CallKnows, ReceiptKnows, Publishing
    <3> QED BY <3>1, <3>2, SnapshotIsCopy
  <2>3. CASE RecoverLanded(g)
    <3>1. Landed(g) /\ SnapshotHolds(Receipt(g), private[g])
      BY <1>1, <2>3 DEF RecoverLanded, Publication
    <3>2. Publication(g) \in Publications
      BY <2>0, StateRow
    <3>3. ReceiptOK(g, Receipt(g)) /\ verified[g] = Receipt(g).workspace
      BY <1>1, <2>0, <3>1, <3>2 DEF Records, RecordOK, Landed, Receipt, Publications
    <3> QED BY <3>1, <3>3, SnapshotIsCopy
  <2> QED BY <2>1, <2>2, <2>3
<1>2. IInv /\ [Next]_vars =>
        [\A g \in Goals : Publication(g).state # "published" /\ Publication(g)'.state = "published" =>
             private[g] = verified[g] /\ Contents(source) = Contents(verified[g])]_vars
  BY <1>1
<1> QED BY <1>2, WorkspaceInvariant, PTL DEF Spec, PublishedIsVerified

--------------------------------------------------------------------------------
(* One goal in the project: its own edits.                                    *)

SoleGoal == \A g, h \in Goals : g = h

\* Version v of file f has seen those edits of the goal that its baseline or an
\* interrupted rebase holds, and has no edit of the goal that the copy, p, never had.
OwnSeen(g, st, p, v, f) ==
    /\ Own(g, st.baseline[f].text) \subseteq Seen(v)
    /\ st.pending.on = TRUE /\ st.pending.target[f] # st.pending.before[f] =>
          Own(g, st.pending.target[f]) \subseteq Seen(v)
    /\ Own(g, Seen(v)) \subseteq Seen(p[f])

\* The project's version is such a one, and the one a rollback brings back; what
\* a synchronization is about to replace is seen by what replaces it.
SoleKnows(g) ==
    /\ state[g].phase # "ready" => private[g] = Blank
    /\ At(g, "create") => state[g].phase # "ready"
    /\ \A f \in Files :
          /\ OwnSeen(g, state[g], private[g], source[f], f)
          /\ call.goal = g /\ call.pc \in Publishing =>
                OwnSeen(g, state[g], private[g], Receipt(g).source[f], f)
          /\ At(g, "sync") /\ f \in call.todo =>
                Own(g, private[g][f].text) \subseteq Seen(source[f])
SoleInv == \A g \in Goals : SoleKnows(g)

\* The user never makes an edit of the goal: one appears in the project only
\* with a version of the goal's.
LEMMA UserBrings ==
  ASSUME Typed, NEW g \in Goals, NEW f \in Files, UserEdit(f), NEW x \in Files
  PROVE  \/ Own(g, Seen(source'[x])) \subseteq Own(g, Seen(source[x]))
         \/ \E h \in Goals : source'[x] = private[h][x]
<1>0. source \in Tree /\ source[f] \in Version /\ None # g
  BY WorkspaceAssumption DEF Typed, TreesTyped, Tree
<1>1. ASSUME NEW w, source' = [source EXCEPT ![f] = w], Own(g, Seen(w)) \subseteq Own(g, Seen(source[f]))
      PROVE  Own(g, Seen(source'[x])) \subseteq Own(g, Seen(source[x]))
  BY <1>0, <1>1 DEF Tree
<1>2. ASSUME NEW e \in Edits, Author[e] = None, source' = [source EXCEPT ![f].text = @ \cup {e}]
      PROVE  Own(g, Seen(source'[x])) \subseteq Own(g, Seen(source[x]))
  <2> DEFINE w == [source[f] EXCEPT !.text = @ \cup {e}]
  <2>1. /\ w.text = source[f].text \cup {e} /\ w.undone = source[f].undone
        /\ source' = [source EXCEPT ![f] = w]
    BY <1>0, <1>2, VersionGrows
  <2> HIDE DEF w
  <2>2. Own(g, Seen(w)) \subseteq Own(g, Seen(source[f]))
    BY <1>0, <1>2, <2>1 DEF Seen, Own
  <2> QED BY <1>1, <2>1, <2>2
<1>3. ASSUME NEW e \in source[f].text, Author[e] = None,
             source' = [source EXCEPT ![f].text = @ \ {e}, ![f].undone = @ \cup {e}]
      PROVE  Own(g, Seen(source'[x])) \subseteq Own(g, Seen(source[x]))
  <2> DEFINE w == [source[f] EXCEPT !.text = @ \ {e}, !.undone = @ \cup {e}]
  <2>1. /\ w.text = source[f].text \ {e} /\ w.undone = source[f].undone \cup {e}
        /\ source' = [source EXCEPT ![f] = w]
    BY <1>0, <1>3, VersionUndone
  <2> HIDE DEF w
  <2>2. Own(g, Seen(w)) \subseteq Own(g, Seen(source[f]))
    BY <1>0, <1>3, <2>1 DEF Seen, Own
  <2> QED BY <1>1, <2>1, <2>2
<1>4. ASSUME NEW h \in Goals, source' = [source EXCEPT ![f] = private[h][f]]
      PROVE  \/ Own(g, Seen(source'[x])) \subseteq Own(g, Seen(source[x]))
             \/ source'[x] = private[h][x]
  BY <1>0, <1>4 DEF Tree
<1> QED BY <1>2, <1>3, <1>4 DEF UserEdit

\* A version made from one that has seen the goal's edits, or the copy itself.
LEMMA OwnSeenOn ==
  ASSUME NEW g, NEW st, NEW p, NEW v, NEW w, NEW f, OwnSeen(g, st, p, v, f),
         Own(g, Seen(v)) \subseteq Seen(w), Own(g, Seen(w)) \subseteq Seen(p[f])
  PROVE  OwnSeen(g, st, p, w, f)
<1>1. \A t : Own(g, t) \subseteq Seen(v) => Own(g, t) \subseteq Seen(w)
  BY DEF Own
<1> QED BY <1>1 DEF OwnSeen

\* What a step leaves of the project, before the goal's records change.
LEMMA SourceOwn ==
  ASSUME SoleGoal, Typed, CallKnows, SoleInv, [Next]_vars, NEW g \in Goals, NEW f \in Files
  PROVE  /\ OwnSeen(g, state[g], private[g], source'[f], f)
         /\ ~ApplyFails(g) => Own(g, Seen(source[f])) \subseteq Seen(source'[f])
<1>0. OwnSeen(g, state[g], private[g], source[f], f) /\ source \in Tree
  BY DEF SoleInv, SoleKnows, Typed, TreesTyped
<1>1. CASE source'[f] = source[f]
  BY <1>0, <1>1 DEF Own
<1>2. ASSUME NEW h \in Goals, NEW x \in Files, Write(h, x)
      PROVE  source'[f] = source[f] \/ source'[f] = private[g][f]
  <2>1. /\ h = g /\ call.goal = g /\ call.pc = "write"
        /\ source' = [source EXCEPT ![x] = call.receipt.workspace[x]]
    BY <1>2 DEF Write, At, SoleGoal
  <2>2. private[g] = call.receipt.workspace
    BY <2>1 DEF CallKnows, ReceiptKnows, Publishing
  <2> QED BY <1>0, <2>1, <2>2 DEF Tree
<1>3. CASE source'[f] = private[g][f]
  <2>1. Own(g, Seen(source[f])) \subseteq Seen(private[g][f])
    BY <1>0 DEF OwnSeen
  <2> QED BY <1>0, <1>3, <2>1, OwnSeenOn DEF Own
<1>4. ASSUME NEW h \in Goals, ApplyFails(h)
      PROVE  ApplyFails(g) /\ OwnSeen(g, state[g], private[g], source'[f], f)
  <2>1. /\ h = g /\ call.goal = g /\ call.pc \in Publishing
        /\ source' = IF Restorable THEN Restored ELSE source
    BY <1>4 DEF ApplyFails, At, SoleGoal, Publishing
  <2>2. Receipt(g) = call.receipt
    BY <2>1 DEF CallKnows, ReceiptKnows, Receipt, Publication
  <2>3. source'[f] = source[f] \/ source'[f] = call.receipt.source[f]
    BY <2>1 DEF Restored
  <2>4. OwnSeen(g, state[g], private[g], call.receipt.source[f], f)
    BY <2>1, <2>2 DEF SoleInv, SoleKnows
  <2> QED BY <1>0, <1>4, <2>1, <2>3, <2>4
<1>5. ASSUME NEW x \in Files, UserEdit(x)
      PROVE  /\ OwnSeen(g, state[g], private[g], source'[f], f)
             /\ Own(g, Seen(source[f])) \subseteq Seen(source'[f])
  <2>1. Seen(source[f]) \subseteq Seen(source'[f])
    BY <1>5, UserKeeps
  <2>2. \/ Own(g, Seen(source'[f])) \subseteq Own(g, Seen(source[f]))
        \/ source'[f] = private[g][f]
    BY <1>5, UserBrings DEF SoleGoal
  <2>3. Own(g, Seen(source'[f])) \subseteq Seen(private[g][f])
    BY <1>0, <2>2 DEF OwnSeen, Own
  <2>4. Own(g, Seen(source[f])) \subseteq Seen(source'[f])
    BY <2>1 DEF Own
  <2> QED BY <1>0, <2>3, <2>4, OwnSeenOn
<1> QED BY <1>1, <1>2, <1>3, <1>4, <1>5, SourceChange

\* The steps of a goal's call that lead into its transaction or go through it.
LEMMA PublishingFrom ==
  ASSUME Typed, Records, NEW g \in Goals, Step(g), call'.goal = g, call'.pc \in Publishing
  PROVE  \/ BeginPublish(g) /\ SameSnapshots(g, call.receipt)
         \/ call.pc \in Publishing /\ UNCHANGED <<private, state>>
<1>0. call' # Idle /\ call.goal = g
  BY CallSteps, WorkspaceAssumption DEF Idle
<1>1. CASE \/ FinishCreate(g) \/ RecoverInterrupted(g) \/ RefusePrivateChanged(g)
           \/ RefuseConflict(g) \/ VerifyFails(g) \/ ApplyFails(g) \/ Acknowledge(g)
  BY <1>0, <1>1 DEF FinishCreate, RecoverInterrupted, RefusePrivateChanged,
     RefuseConflict, VerifyFails, ApplyFails, Acknowledge, Refuse
<1>2. CASE RecoverFinalize(g)
  BY <1>2 DEF RecoverFinalize, Publishing
<1>3. CASE RecoverLanded(g) \/ PriorReceipt(g)
  BY <1>3, FoundReceipt DEF Publishing
<1>4. CASE GiveUpPrior(g) \/ Verify(g) \/ AssertPublished(g)
  <2>1. \E pc \in {"rebase", "publish", "acknowledge"} : call' = [call EXCEPT !.pc = pc]
    BY <1>0, <1>4 DEF GiveUpPrior, Verify, AssertPublished, Goto, Refuse
  <2> QED BY <2>1, CallMoves DEF Steps, Publishing
<1>5. CASE BeginRebase(g)
  BY <1>5, CallRebases DEF Publishing
<1>6. ASSUME NEW f \in Files, SyncFile(g, f)
      PROVE  FALSE
  <2>1. call' = [call EXCEPT !.todo = @ \ {f}] /\ call.pc = "sync"
    BY <1>0, <1>6 DEF SyncFile, Refuse, At
  <2> QED BY <2>1, CallTicks DEF Publishing
<1>7. CASE EndRebase(g)
  <2>1. call' = [call EXCEPT !.pc = "verify", !.receipt.workspace = private[g]]
    BY <1>0, <1>7 DEF EndRebase, Refuse
  <2> QED BY <2>1, CallRebased DEF Publishing
<1>8. CASE BeginPublish(g)
  BY <1>0, <1>8 DEF BeginPublish, Refuse
<1>9. CASE \/ PrepareTransaction(g) \/ WriteManifest(g) \/ Lease(g) \/ CloseLeases(g)
           \/ Commit(g) \/ NothingToApply(g) \/ \E f \in Files : Write(g, f)
  BY <1>9 DEF PrepareTransaction, WriteManifest, Lease, CloseLeases, Commit, NothingToApply, Write,
     At, Publishing, durable
<1> QED BY <1>1, <1>2, <1>3, <1>4, <1>5, <1>6, <1>7, <1>8, <1>9 DEF Step

\* The steps that go on synchronizing.
LEMMA SyncFrom ==
  ASSUME Typed, Records, NEW g \in Goals, Step(g), call'.goal = g, call'.pc = "sync"
  PROVE  BeginRebase(g) \/ \E f \in Files : SyncFile(g, f)
<1>0. call' # Idle /\ call.goal = g
  BY CallSteps, WorkspaceAssumption DEF Idle
<1>1. CASE \/ FinishCreate(g) \/ RecoverInterrupted(g) \/ RefusePrivateChanged(g)
           \/ RefuseConflict(g) \/ VerifyFails(g) \/ ApplyFails(g) \/ Acknowledge(g)
  BY <1>0, <1>1 DEF FinishCreate, RecoverInterrupted, RefusePrivateChanged,
     RefuseConflict, VerifyFails, ApplyFails, Acknowledge, Refuse
<1>2. CASE RecoverFinalize(g)
  BY <1>2 DEF RecoverFinalize
<1>3. CASE RecoverLanded(g) \/ PriorReceipt(g)
  BY <1>3, FoundReceipt
<1>4. CASE \/ GiveUpPrior(g) \/ Verify(g) \/ AssertPublished(g) \/ BeginPublish(g)
           \/ PrepareTransaction(g) \/ WriteManifest(g) \/ CloseLeases(g) \/ Commit(g)
           \/ NothingToApply(g)
  <2>1. \E pc \in {"rebase", "publish", "acknowledge", "apply", "manifest", "lease", "commit", "assert"} :
           call' = [call EXCEPT !.pc = pc]
    BY <1>0, <1>4 DEF GiveUpPrior, Verify, AssertPublished, BeginPublish, PrepareTransaction,
       WriteManifest, CloseLeases, Commit, NothingToApply, Goto, Refuse
  <2> QED BY <2>1, CallMoves DEF Steps, Publishing
<1>5. CASE EndRebase(g)
  <2>1. call' = [call EXCEPT !.pc = "verify", !.receipt.workspace = private[g]]
    BY <1>0, <1>5 DEF EndRebase, Refuse
  <2> QED BY <2>1, CallRebased
<1>6. ASSUME NEW f \in Files, Write(g, f)
      PROVE  FALSE
  <2>1. call' = [call EXCEPT !.todo = @ \ {f}] /\ call.pc = "write"
    BY <1>6 DEF Write, At
  <2> QED BY <2>1, CallTicks
<1>7. CASE Lease(g)
  <2> DEFINE c == [call EXCEPT !.pc = "write", !.todo = call.receipt.changed]
  <2>1. call' = c
    BY <1>0, <1>7 DEF Lease, Refuse
  <2>2. c.pc = "write"
    <3>1. call.receipt.changed \in SUBSET Files /\ "write" \in Steps
      BY CallRow DEF Steps, Publishing
    <3> QED BY <3>1, CallWrites
  <2> HIDE DEF c
  <2> QED BY <2>1, <2>2
<1> QED BY <1>1, <1>2, <1>3, <1>4, <1>5, <1>6, <1>7 DEF Step

\* What a step of the goal's records makes of what they hold of a file.
LEMMA RecordsOwn ==
  ASSUME SoleGoal, IInv, SoleInv, [Next]_vars, NEW g \in Goals, NEW f \in Files,
         private'[g] = private[g]
  PROVE  OwnSeen(g, state'[g], private'[g], source'[f], f)
<1>0. /\ Typed /\ Copies /\ Records /\ CallKnows /\ source \in Tree
      /\ OwnSeen(g, state[g], private[g], source[f], f)
      /\ OwnSeen(g, state[g], private[g], source'[f], f)
  BY SourceOwn DEF IInv, SoleInv, SoleKnows, Typed, TreesTyped
<1>1. Own(g, source[f].text) \subseteq Seen(source[f])
  BY DEF Own, Seen
<1>2. CASE state'[g].baseline = state[g].baseline /\ state'[g].pending = state[g].pending
  BY <1>0, <1>2 DEF OwnSeen
<1>3. CASE BeginCreate(g)
  <2>1. state[g].pending.on = FALSE /\ source' = source
    BY <1>0, <1>3 DEF BeginCreate, Copies, CopyOK
  <2>2. state'[g].baseline = source /\ state'[g].pending = state[g].pending
    BY <1>0, <1>3, CreatePut
  <2> QED BY <1>0, <1>1, <2>1, <2>2 DEF OwnSeen
<1>4. CASE FinishCreate(g)
  <2>1. UNCHANGED state \/ state' = [state EXCEPT ![g].phase = "ready"]
    BY <1>4 DEF FinishCreate
  <2> QED BY <1>0, <1>2, <2>1, ReadyPut
<1>5. CASE RecoverLanded(g) \/ AssertPublished(g)
  <2>1. UNCHANGED state \/ state' = [state EXCEPT ![g].publication.state = "published"]
    BY <1>5 DEF RecoverLanded, AssertPublished
  <2> QED BY <1>0, <1>2, <2>1, PublishedPut
<1>6. CASE BeginPublish(g)
  <2>1. CASE SameSnapshots(g, call.receipt)
    <3>1. state'[g].baseline = state[g].baseline /\ state'[g].pending = state[g].pending
      BY <1>0, <1>6, <2>1, IntentPut, StateRow DEF GoalState
    <3> QED BY <1>2, <3>1
  <2>2. CASE ~SameSnapshots(g, call.receipt)
    BY <1>2, <1>6, <2>2 DEF BeginPublish
  <2> QED BY <2>1, <2>2
<1>7. CASE BeginRebase(g)
  <2>1. source' = source
    BY <1>7 DEF BeginRebase
  <2>2. state'[g].baseline = state[g].baseline
    <3>1. \E pending : state'[g] = [state[g] EXCEPT !.pending = pending]
      BY <1>0, <1>7, RebasePut
    <3> QED BY <1>0, <3>1, StateRow DEF GoalState
  <2>3. \/ state'[g].pending.target[f] = state'[g].pending.before[f]
        \/ state'[g].pending.target[f] = source[f].text
    <3> DEFINE target == [x \in Files |-> IF x \in Delta(g) THEN Candidate(g)[x] ELSE Content(source[x])]
    <3>1. state'[g].pending.before = Candidate(g) /\ state'[g].pending.target = target
      BY <1>0, <1>7, RebasePut
    <3>2. target[f] = Candidate(g)[f] \/ target[f] = source[f].text
      BY DEF Content
    <3> HIDE DEF target
    <3> QED BY <3>1, <3>2
  <2> QED BY <1>0, <1>1, <2>1, <2>2, <2>3 DEF OwnSeen
<1>8. CASE EndRebase(g)
  <2>1. CASE source = call.receipt.source
    <3>1. state'[g].pending = NotPending /\ source' = source
      BY <1>0, <1>8, <2>1, EndRebasePut DEF EndRebase
    <3>2. state'[g].baseline[f] = IF f \in call.receipt.changed THEN state[g].baseline[f] ELSE source[f]
      BY <1>0, <1>8, <2>1, EndRebasePut
    <3>3. state'[g].pending.on = FALSE
      BY <3>1 DEF NotPending
    <3> QED BY <1>0, <1>1, <3>1, <3>2, <3>3 DEF OwnSeen
  <2>2. CASE source # call.receipt.source
    BY <1>2, <1>8, <2>2 DEF EndRebase
  <2> QED BY <2>1, <2>2
<1> QED BY <1>0, <1>2, <1>3, <1>4, <1>5, <1>6, <1>7, <1>8, StateSteps

\* A copy and the project keep what they know of each other in every step.
LEMMA FileOwn ==
  ASSUME SoleGoal, IInv, SoleInv, [Next]_vars, NEW g \in Goals, NEW f \in Files
  PROVE  OwnSeen(g, state'[g], private'[g], source'[f], f)
<1>0. /\ Typed /\ CallKnows /\ OwnSeen(g, state[g], private[g], source'[f], f)
      /\ OwnSeen(g, state[g], private[g], source[f], f) /\ private \in [Goals -> Tree]
  BY SourceOwn DEF IInv, SoleInv, SoleKnows, Typed, TreesTyped
<1>1. CASE private'[g] = private[g]
  BY <1>1, RecordsOwn
<1>2. CASE FinishCreate(g) /\ private'[g] # private[g]
  <2>1. /\ source' = source /\ private'[g] = source
        /\ state' = [state EXCEPT ![g].phase = "ready"]
    BY <1>0, <1>2 DEF FinishCreate
  <2>2. state'[g].baseline = state[g].baseline /\ state'[g].pending = state[g].pending
    BY <1>0, <2>1, ReadyPut
  <2>3. Own(g, Seen(source[f])) \subseteq Seen(source[f])
    BY DEF Own
  <2> QED BY <1>0, <2>1, <2>2, <2>3 DEF OwnSeen
<1>3. ASSUME NEW x \in Files, SyncFile(g, x) \/ AgentEdit(g, x), state' = state,
             \A y \in Files \ {x} : private'[g][y] = private[g][y]
      PROVE  OwnSeen(g, state'[g], private'[g], source'[f], f)
  <2>1. source' = source
    BY <1>3 DEF SyncFile, AgentEdit
  <2>2. CASE f # x
    BY <1>0, <1>3, <2>2 DEF OwnSeen
  <2>3. CASE f = x /\ AgentEdit(g, x)
    <3>1. Seen(private[g][f]) \subseteq Seen(private'[g][f])
      BY <1>0, <2>3, AgentsOwn
    <3> QED BY <1>0, <1>3, <2>1, <3>1 DEF OwnSeen
  <2>4. CASE f = x /\ SyncFile(g, x)
    <3>1. private' = private \/ private' = [private EXCEPT ![g][f] = source[f]]
      BY <2>4 DEF SyncFile
    <3>2. private' = [private EXCEPT ![g][f] = source[f]] => private'[g][f] = source[f]
      <4>1. private[g] \in Tree
        BY <1>0
      <4> QED BY <1>0, <4>1 DEF Tree
    <3>3. private'[g][f] = private[g][f] \/ private'[g][f] = source[f]
      BY <3>1, <3>2
    <3>4. Own(g, Seen(source[f])) \subseteq Seen(source[f])
      BY DEF Own
    <3> QED BY <1>0, <1>3, <2>1, <3>3, <3>4 DEF OwnSeen
  <2> QED BY <1>3, <2>2, <2>3, <2>4
<1> QED BY <1>0, <1>1, <1>2, <1>3, PrivateSteps

\* A rebase only replaces a file whose own edits the project has seen.
LEMMA RebaseSees ==
  ASSUME IInv, SoleInv, NEW g \in Goals, BeginRebase(g), NEW f \in ToSync(g)
  PROVE  Own(g, private[g][f].text) \subseteq Seen(source[f])
<1>0. /\ Typed /\ Copies /\ f \in Files /\ state[g].pending \in Pending
      /\ OwnSeen(g, state[g], private[g], source[f], f)
  BY StateRow DEF IInv, SoleInv, SoleKnows, ToSync
<1>1. Candidate(g)[f] = state[g].baseline[f].text
  BY <1>0, RebaseFrom
<1>2. CASE state[g].pending.on = FALSE
  <2>1. Contents(private[g])[f] = private[g][f].text
    BY <1>0, StateRow, ContentsTyped
  <2>2. private[g][f].text = state[g].baseline[f].text
    BY <1>1, <1>2, <2>1 DEF Candidate
  <2> QED BY <1>0, <2>2 DEF OwnSeen
<1>3. CASE state[g].pending.on = TRUE
  <2>1. private[g][f].text \in {state[g].pending.before[f], state[g].pending.target[f]}
    BY <1>0, <1>3 DEF BeginRebase, PrivateChanged, Content
  <2>2. state[g].pending.before[f] = state[g].baseline[f].text
    BY <1>1, <1>3 DEF Candidate
  <2> QED BY <1>0, <1>3, <2>1, <2>2 DEF OwnSeen
<1> QED BY <1>0, <1>2, <1>3 DEF Pending

LEMMA SyncSees ==
  ASSUME SoleGoal, IInv, SoleInv, [Next]_vars, NEW g \in Goals, NEW f \in Files,
         call'.goal = g, call'.pc = "sync", f \in call'.todo
  PROVE  Own(g, private'[g][f].text) \subseteq Seen(source'[f])
<1>0. Typed /\ Records /\ CallKnows /\ g # None /\ private \in [Goals -> Tree]
  BY WorkspaceAssumption DEF IInv, Typed, TreesTyped
<1>1. ASSUME call.goal = g, call.pc = "sync", f \in call.todo, private'[g][f] = private[g][f],
             ~ApplyFails(g)
      PROVE  Own(g, private'[g][f].text) \subseteq Seen(source'[f])
  <2>1. Own(g, Seen(source[f])) \subseteq Seen(source'[f])
    BY <1>0, <1>1, SourceOwn
  <2>2. Own(g, private[g][f].text) \subseteq Seen(source[f])
    BY <1>1 DEF SoleInv, SoleKnows, At
  <2> QED BY <1>1, <2>1, <2>2 DEF Own
<1>2. CASE Step(g)
  <2>1. BeginRebase(g) \/ \E x \in Files : SyncFile(g, x)
    BY <1>0, <1>2, SyncFrom
  <2>2. CASE BeginRebase(g)
    <3>1. private' = private /\ source' = source /\ f \in ToSync(g)
      BY <1>0, <2>2, CallRebases DEF BeginRebase
    <3> QED BY <2>2, <3>1, RebaseSees
  <2>3. ASSUME NEW x \in Files, SyncFile(g, x)
        PROVE  Own(g, private'[g][f].text) \subseteq Seen(source'[f])
    <3>1. /\ call.goal = g /\ call.pc = "sync" /\ source' = source
          /\ call' = [call EXCEPT !.todo = @ \ {x}]
          /\ private' = [private EXCEPT ![g][x] = source[x]]
      BY <1>0, <2>3 DEF SyncFile, At, Refuse, Idle
    <3>2. call'.todo = call.todo \ {x}
      BY <1>0, <3>1, CallTicks
    <3>3. private'[g][f] = private[g][f]
      BY <1>0, <3>1, <3>2 DEF Tree
    <3>4. ~ApplyFails(g)
      BY <3>1 DEF ApplyFails, At
    <3> QED BY <1>1, <3>1, <3>2, <3>3, <3>4
  <2> QED BY <2>1, <2>2, <2>3
<1>3. ASSUME NEW h \in Goals, BeginCreate(h) \/ Begin(h)
      PROVE  FALSE
  <2>1. \/ call' = [Idle EXCEPT !.goal = h, !.pc = "create"]
        \/ call' = [Idle EXCEPT !.goal = h, !.pc = "prepare"]
    BY <1>3 DEF BeginCreate, Begin
  <2> QED BY <2>1 DEF Idle
<1>4. CASE UNCHANGED call /\ UNCHANGED private
  <2>1. ~ApplyFails(g)
    BY <1>4 DEF ApplyFails, At
  <2> QED BY <1>1, <1>4, <2>1
<1>5. ASSUME NEW x \in Files, NEW h \in Goals, AgentEdit(h, x)
      PROVE  FALSE
  BY <1>5 DEF AgentEdit, SoleGoal
<1>6. ASSUME NEW x \in Files, UserEdit(x)
      PROVE  UNCHANGED call /\ UNCHANGED private
  BY <1>6 DEF UserEdit
<1>7. ~Crash
  BY <1>0 DEF Crash, Idle
<1>8. ASSUME NEW h \in Goals, Step(h)
      PROVE  Step(g)
  BY <1>8 DEF SoleGoal
<1> QED BY <1>2, <1>3, <1>4, <1>5, <1>6, <1>7, <1>8 DEF Next, vars

\* What a rollback would bring back.
LEMMA BackupOwn ==
  ASSUME SoleGoal, IInv, SoleInv, [Next]_vars, NEW g \in Goals, NEW f \in Files,
         call'.goal = g, call'.pc \in Publishing
  PROVE  OwnSeen(g, state'[g], private'[g], Receipt(g)'.source[f], f)
<1>0. /\ Typed /\ Records /\ CallKnows /\ g # None
      /\ OwnSeen(g, state[g], private[g], source[f], f)
  BY WorkspaceAssumption DEF IInv, SoleInv, SoleKnows
<1>1. CASE call.goal = g /\ call.pc \in Publishing /\ UNCHANGED <<private, state>>
  BY <1>1 DEF SoleInv, SoleKnows, Receipt, Publication
<1>2. CASE Step(g)
  <2>1. \/ BeginPublish(g) /\ SameSnapshots(g, call.receipt)
        \/ call.pc \in Publishing /\ UNCHANGED <<private, state>>
    BY <1>0, <1>2, PublishingFrom
  <2>2. CASE BeginPublish(g) /\ SameSnapshots(g, call.receipt)
    <3> DEFINE new == [state |-> "prepared", receipt |-> call.receipt]
    <3>1. state'[g] = [state[g] EXCEPT !.publication = new]
      BY <1>0, <2>2, IntentPut
    <3>2. new.receipt = call.receipt
      OBVIOUS
    <3> HIDE DEF new
    <3>3. /\ state'[g].publication = new /\ state'[g].baseline = state[g].baseline
          /\ state'[g].pending = state[g].pending
      BY <1>0, <3>1, StateRow DEF GoalState
    <3>4. private' = private /\ call.receipt.source = source
      BY <2>2 DEF BeginPublish, SameSnapshots
    <3>5. Receipt(g)'.source = source
      BY <3>2, <3>3, <3>4 DEF Receipt, Publication
    <3> QED BY <1>0, <3>3, <3>4, <3>5 DEF OwnSeen
  <2>3. call.goal = g
    BY <1>0, <1>2, CallSteps
  <2> QED BY <1>1, <2>1, <2>2, <2>3
<1>3. ASSUME NEW h \in Goals, BeginCreate(h) \/ Begin(h)
      PROVE  FALSE
  <2>1. \/ call' = [Idle EXCEPT !.goal = h, !.pc = "create"]
        \/ call' = [Idle EXCEPT !.goal = h, !.pc = "prepare"]
    BY <1>3 DEF BeginCreate, Begin
  <2> QED BY <2>1 DEF Idle, Publishing
<1>4. ASSUME NEW x \in Files, NEW h \in Goals, AgentEdit(h, x)
      PROVE  FALSE
  BY <1>4 DEF AgentEdit, SoleGoal
<1>5. ASSUME NEW x \in Files, UserEdit(x)
      PROVE  UNCHANGED <<call, private, state>>
  BY <1>5 DEF UserEdit
<1>6. ~Crash
  BY <1>0 DEF Crash, Idle
<1>7. ASSUME NEW h \in Goals, Step(h)
      PROVE  Step(g)
  BY <1>7 DEF SoleGoal
<1> QED BY <1>1, <1>2, <1>3, <1>4, <1>5, <1>6, <1>7 DEF Next, vars

\* A copy that was not made yet is empty, and only such a one is created.
LEMMA NotReadyYet ==
  ASSUME SoleGoal, IInv, SoleInv, [Next]_vars, NEW g \in Goals
  PROVE  /\ state'[g].phase # "ready" => private'[g] = Blank
         /\ At(g, "create")' => state'[g].phase # "ready"
<1>0. /\ Typed /\ g # None
      /\ state[g].phase # "ready" => private[g] = Blank
      /\ At(g, "create") => state[g].phase # "ready"
  BY WorkspaceAssumption DEF IInv, SoleInv, SoleKnows
<1>1. ASSUME state'[g].phase # "ready" PROVE private'[g] = Blank
  <2>1. CASE FinishCreate(g)
    <3>1. UNCHANGED <<private, state>> \/ state' = [state EXCEPT ![g].phase = "ready"]
      BY <2>1 DEF FinishCreate
    <3>2. state' = state /\ private' = private
      BY <1>0, <1>1, <3>1, ReadyPut
    <3> QED BY <1>0, <1>1, <3>2
  <2>2. ASSUME NEW f \in Files, SyncFile(g, f) \/ AgentEdit(g, f), state' = state PROVE FALSE
    <3>1. state[g].phase = "ready"
      BY <1>0, <2>2 DEF SyncFile, AgentEdit, At, Typed, CallTyped
    <3> QED BY <1>1, <2>2, <3>1
  <2>3. CASE private'[g] = private[g] /\ ~FinishCreate(g)
    <3>1. state'[g].phase = state[g].phase \/ BeginCreate(g)
      BY <1>0, <2>3, PhaseKept
    <3>2. state[g].phase # "ready"
      BY <1>1, <3>1 DEF BeginCreate
    <3> QED BY <1>0, <2>3, <3>2
  <2> QED BY <1>0, <2>1, <2>2, <2>3, PrivateSteps
<1>2. ASSUME At(g, "create")' PROVE state'[g].phase # "ready"
  <2>0. call'.goal = g /\ call'.pc = "create"
    BY <1>2 DEF At
  <2>1. CASE UNCHANGED <<call, state>>
    BY <1>0, <2>0, <2>1 DEF At
  <2>2. ASSUME NEW h \in Goals, Step(h) PROVE FALSE
    BY <1>0, <2>0, <2>2, CallSteps DEF Moved, Idle
  <2>3. ASSUME NEW h \in Goals, BeginCreate(h) \/ Begin(h) PROVE state'[g].phase # "ready"
    <3>1. CASE BeginCreate(h)
      BY <1>0, <3>1, CreatePut DEF SoleGoal
    <3>2. CASE Begin(h)
      <4>1. call' = [Idle EXCEPT !.goal = h, !.pc = "prepare"]
        BY <3>2 DEF Begin
      <4> QED BY <2>0, <4>1 DEF Idle
    <3> QED BY <2>3, <3>1, <3>2
  <2>4. ASSUME NEW f \in Files, UserEdit(f) \/ \E h \in Goals : AgentEdit(h, f)
        PROVE  UNCHANGED <<call, state>>
    BY <2>4 DEF UserEdit, AgentEdit
  <2>5. ~Crash
    BY <1>0, <2>0 DEF Crash, Idle
  <2> QED BY <2>1, <2>2, <2>3, <2>4, <2>5 DEF Next, vars
<1> QED BY <1>1, <1>2

LEMMA SoleStep == ASSUME SoleGoal, IInv, SoleInv, [Next]_vars PROVE SoleInv'
<1> SUFFICES ASSUME NEW g \in Goals PROVE SoleKnows(g)'
  BY DEF SoleInv
<1>1. ASSUME NEW f \in Files
      PROVE  /\ OwnSeen(g, state'[g], private'[g], source'[f], f)
             /\ call'.goal = g /\ call'.pc \in Publishing =>
                   OwnSeen(g, state'[g], private'[g], Receipt(g)'.source[f], f)
             /\ At(g, "sync")' /\ f \in call'.todo =>
                   Own(g, private'[g][f].text) \subseteq Seen(source'[f])
  <2>1. At(g, "sync")' => call'.goal = g /\ call'.pc = "sync"
    BY DEF At
  <2> QED BY <2>1, FileOwn, BackupOwn, SyncSees
<1> QED BY <1>1, NotReadyYet DEF SoleKnows

LEMMA SoleInit == ASSUME Init PROVE SoleInv
<1> SUFFICES ASSUME NEW g \in Goals PROVE SoleKnows(g)
  BY DEF SoleInv
<1>1. /\ source = Blank /\ private[g] = Blank /\ call.goal = None /\ g # None
      /\ state[g].baseline = Blank /\ state[g].pending = NotPending
  BY WorkspaceAssumption DEF Init, Idle
<1>2. NotPending.on = FALSE
  BY DEF NotPending
<1>3. \A f \in Files : OwnSeen(g, state[g], private[g], source[f], f)
  BY <1>1, <1>2 DEF OwnSeen, Own, Seen, Blank
<1> QED BY <1>1, <1>3 DEF SoleKnows, At

\* Where one goal works in the project, synchronizing its copy, which an
\* interrupted rebase may have begun, never takes an edit of its agents out of
\* it: what replaces a file has seen all of them (prepare_publish).
THEOREM OwnWorkIsKept == ASSUME SoleGoal PROVE Spec => AgentWorkKept
<1> DEFINE Kept == \A g \in Goals : \A f \in Files :
                      Own(g, private[g][f].text) \subseteq Seen(private'[g][f])
<1>1. ASSUME IInv, SoleInv, [Next]_vars PROVE Kept
  <2> SUFFICES ASSUME NEW g \in Goals, NEW f \in Files
               PROVE  Own(g, private[g][f].text) \subseteq Seen(private'[g][f])
    OBVIOUS
  <2>0. Typed /\ private \in [Goals -> Tree] /\ private[g] \in Tree
    BY <1>1 DEF IInv, Typed, TreesTyped
  <2>1. CASE private'[g][f] = private[g][f]
    BY <2>1 DEF Own, Seen
  <2>2. CASE FinishCreate(g) /\ private'[g] # private[g]
    <3>1. private[g] = Blank
      BY <1>1, <2>2 DEF FinishCreate, SoleInv, SoleKnows
    <3> QED BY <3>1 DEF Own, Blank
  <2>3. ASSUME NEW x \in Files, AgentEdit(g, x), f = x
        PROVE  Own(g, private[g][f].text) \subseteq Seen(private'[g][f])
    <3>1. Seen(private[g][f]) \subseteq Seen(private'[g][f])
      BY <2>0, <2>3, AgentsOwn
    <3> QED BY <3>1 DEF Own, Seen
  <2>4. ASSUME NEW x \in Files, SyncFile(g, x), f = x, private'[g][f] # private[g][f]
        PROVE  Own(g, private[g][f].text) \subseteq Seen(private'[g][f])
    <3>1. At(g, "sync") /\ f \in call.todo /\ private' = [private EXCEPT ![g][f] = source[f]]
      BY <2>4 DEF SyncFile
    <3>2. private'[g][f] = source[f]
      BY <2>0, <3>1 DEF Tree
    <3> QED BY <1>1, <3>1, <3>2 DEF SoleInv, SoleKnows
  <2> QED BY <1>1, <2>0, <2>1, <2>2, <2>3, <2>4, PrivateSteps
<1>2. IInv /\ SoleInv /\ [Next]_vars => [Kept]_vars
  BY <1>1
<1>3. IInv /\ SoleInv /\ [Next]_vars => SoleInv'
  BY SoleStep
<1>4. Init => SoleInv
  BY SoleInit
<1> QED BY <1>2, <1>3, <1>4, WorkspaceInvariant, PTL DEF Spec, AgentWorkKept
=============================================================================
