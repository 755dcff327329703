------------------------- MODULE MutationSaga_proofs -------------------------
(* Proofs about MutationSaga, for any number of files, transactions, edits   *)
(* and crashes.  What keeps CancelUndoes true is a chain: the backup of each *)
(* transaction that stands is the start or the work of an older one.         *)
EXTENDS MutationSaga, TLAPS

-----------------------------------------------------------------------------
(* The inductive invariant.                                                  *)

Begun == {"prepared", "applied", "rolling_back"}
Standing == {t \in InJournal : state[t] \in Begun}

\* The journal as far as it is settled: its row t says what became of t.
Row(t) ==
    /\ entry[t] \in {"applied", "kept"} => state[t] = "applied"
    /\ entry[t] = "compensated" => state[t] \in {"aborted", "rolled_back"}
    /\ HalfDone(t) => entry[t] = "conflict"
\* What recovery is about to write.
Finding(t) ==
    /\ call.found[t] \in {"applied", "kept"} => state[t] = "applied"
    /\ call.found[t] = "compensated" => state[t] \in {"aborted", "rolled_back"}
    /\ HalfDone(t) => call.found[t] = "conflict"

\* Transactions not begun yet have left no trace.
Fresh == \A t \in Tx : t > count => state[t] = "none" /\ entry[t] = "none"

\* Where the process can be, by the phase of the journal.
Applying == {"prepare", "apply", "record", "ledger"}
Rolling == {"check", "restore", "undone", "refused"}
Undoing == {"cancel", "finish"}
Place ==
    /\ call.pc \in {"down", "working", "reported", "noted", "ready"} \cup Applying
          => call.for = "nobody"
    /\ call.pc \in Rolling => call.for \in {"apply", "recover"} \cup Undoing
    /\ call.pc = "compensating" => call.for \in Undoing
    /\ call.pc = "recovering" => call.for = "recover"
    /\ call.pc \in {"working"} \cup Applying => phase = "active"
    /\ call.for \in {"apply", "recover"} => phase = "active"
    /\ call.for \in Undoing => phase = "compensating"
    /\ call.pc \in {"reported", "noted", "ready"} => phase \notin {"active", "compensating"}
    /\ call.pc \in Applying \cup Rolling => call.at \in InJournal
    /\ call.pc \in Applying => call.at = count
    /\ call.pc \in Rolling /\ call.for \notin Undoing => call.at = count
    /\ call.pc \in {"compensating", "recovering"} => call.at = 0

\* What is known of the transaction in hand.
InHand ==
    LET t == call.at IN
    /\ call.pc = "prepare" => state[t] = "none"
    /\ call.pc = "apply" => state[t] = "prepared"
    /\ call.pc \in {"record", "ledger"} => state[t] = "applied"
    /\ call.pc = "ledger" => entry[t] = "applied"
    /\ call.pc \in {"prepare", "apply", "record"} => entry[t] = "prepared"
    /\ call.pc \in Rolling /\ call.for \notin Undoing => entry[t] = "prepared"
    /\ call.pc = "check" /\ call.for \notin Undoing => HalfDone(t)
    /\ call.pc = "restore" => state[t] = "rolling_back"
    /\ call.pc = "undone" => state[t] \in {"aborted", "rolled_back"}

\* Files still to be written, and files already restored, are as in the backup.
Writing ==
    /\ call.pc \in {"apply", "restore"} => call.todo \subseteq files[call.at]
    /\ call.pc = "apply" =>
          \A f \in call.todo \ touched : content[f] = base[call.at][f]
    /\ call.pc = "restore" =>
          \A f \in files[call.at] \ (call.todo \cup touched) : content[f] = base[call.at][f]

\* An undo has gone through all that is newer than the transaction in hand.
UndoKnows ==
    call.for \in Undoing =>
        /\ \A t \in InJournal : t \notin call.left /\ t # call.at => entry[t] = "compensated"
        /\ call.left \subseteq InJournal
        /\ call.pc \in Rolling => \A t \in call.left : t < call.at

\* A recovery has found the truth about all it has gone through.
RecoveryKnows ==
    call.for = "recover" =>
        /\ \A t \in Tx : call.found[t] = "none" <=> entry[t] = "none"
        /\ call.left \subseteq InJournal
        /\ \A t \in InJournal : t \notin call.left /\ t # call.at => Finding(t)

\* The journal on disk, by its phase.
Journal ==
    /\ phase = "active" => \A t \in InJournal :
          IF entry[t] = "prepared" THEN t = count ELSE Row(t)
    /\ call.pc = "working" => \A t \in InJournal : entry[t] # "prepared"
    /\ phase = "compensating" => \A t \in InJournal :
          /\ entry[t] # "prepared"
          /\ entry[t] = "compensated" => state[t] \in {"aborted", "rolled_back"}
          /\ \/ Row(t)
             \/ /\ state[t] \in {"rolling_back", "rolled_back"}
                /\ \A u \in InJournal : u > t => entry[u] = "compensated"
    /\ phase \notin {"active", "compensating"} => \A t \in InJournal :
          /\ entry[t] = "compensated" => state[t] \in {"aborted", "rolled_back"}
          /\ Row(t) \/ BegunAndLeft(t)
    /\ phase = "compensated" => \A t \in InJournal : Undone(t)

\* The changes that stand lie on one another: each file nobody else touched, and
\* each backup of one, is as at the start or as a change below it wrote it.
Linked(f) ==
    /\ content[f] = start[f] \/ \E u \in Standing : f \in files[u] /\ content[f] = u
    /\ \A t \in Standing : f \in files[t] =>
          \/ base[t][f] = start[f]
          \/ \E u \in Standing : u < t /\ f \in files[u] /\ base[t][f] = u
Chain == \A f \in Files \ touched : Linked(f)

\* An undo that gave up names where.
GaveUp ==
    phase \in {"rollback_conflict", "conflict_acknowledged"} => \E t \in InJournal : GaveUpAt(t)

IInv ==
    /\ TypeOK /\ Fresh /\ Place /\ InHand /\ Writing
    /\ UndoKnows /\ RecoveryKnows /\ Journal /\ Chain /\ GaveUp

-----------------------------------------------------------------------------
(* Types.                                                                    *)

LEMMA Basics ==
  /\ Down \in Calls /\ Down.pc = "down" /\ Blank \in [Tx -> Entries]
  /\ MaxTx \in Nat /\ MaxEdits \in Nat /\ MaxCrashes \in Nat /\ 0 \in 0..MaxTx
<1>1. MaxTx \in Nat /\ MaxEdits \in Nat /\ MaxCrashes \in Nat
  BY SagaAssumption
<1> QED BY <1>1 DEF Down, Blank, Calls, Entries

-----------------------------------------------------------------------------
(* The chain.                                                                *)

\* It does not change with what the journal says, as long as the same changes
\* stand and files are only changed by somebody else.
LEMMA ChainFrame ==
  ASSUME Chain, UNCHANGED <<start, files, base>>, Standing' = Standing,
         touched \subseteq touched', \A f \in Files \ touched' : content'[f] = content[f]
  PROVE  Chain'
<1> SUFFICES ASSUME NEW f \in Files \ touched'
             PROVE  Linked(f)'
  BY DEF Chain
<1>1. Linked(f) /\ content'[f] = content[f]
  BY DEF Chain
<1> QED BY <1>1 DEF Linked

\* A change that stands may write its files, and restore them.
LEMMA ChainWrite ==
  ASSUME Chain, NEW t \in Standing, NEW f \in files[t], NEW v \in {t, base[t][f]},
         content \in [Files -> Version], content' = [content EXCEPT ![f] = v],
         UNCHANGED <<start, files, base, touched>>, Standing' = Standing
  PROVE  Chain'
<1> SUFFICES ASSUME NEW g \in Files \ touched
             PROVE  Linked(g)'
  BY DEF Chain
<1>1. Linked(g)
  BY DEF Chain
<1>2. content'[g] = IF g = f THEN v ELSE content[g]
  OBVIOUS
<1> QED BY <1>1, <1>2 DEF Linked

\* The newest change is gone when its files are as before it.
LEMMA ChainDrop ==
  ASSUME Chain, NEW t \in Standing, \A u \in Standing : u <= t, Standing \subseteq Nat,
         \A f \in files[t] \ touched : content[f] = base[t][f],
         UNCHANGED <<content, start, files, base, touched>>, Standing' = Standing \ {t}
  PROVE  Chain'
<1> SUFFICES ASSUME NEW f \in Files \ touched
             PROVE  Linked(f)'
  BY DEF Chain
<1>1. Linked(f)
  BY DEF Chain
<1>2. \A w \in Standing', u \in Standing : u < w => u \in Standing'
  OBVIOUS
<1>3. content[f] = start[f] \/ \E u \in Standing' : f \in files[u] /\ content[f] = u
  BY <1>1, <1>2 DEF Linked
<1>4. \A w \in Standing' : f \in files[w] =>
         base[w][f] = start[f] \/ \E u \in Standing' : u < w /\ f \in files[u] /\ base[w][f] = u
  BY <1>1, <1>2 DEF Linked
<1> QED BY <1>3, <1>4 DEF Linked

\* A new change lies on all others.
LEMMA ChainAdd ==
  ASSUME Chain, NEW t \in Nat \ Standing, \A u \in Standing : u < t, Standing \subseteq Nat,
         Standing' = Standing \cup {t}, base'[t] = content,
         \A u \in Standing : base'[u] = base[u] /\ files'[u] = files[u],
         UNCHANGED <<content, start, touched>>
  PROVE  Chain'
<1> SUFFICES ASSUME NEW f \in Files \ touched
             PROVE  Linked(f)'
  BY DEF Chain
<1>1. Linked(f)
  BY DEF Chain
<1> QED BY <1>1 DEF Linked

\* Whatever is undone, restored or written is the newest change that stands.
LEMMA HandNewest ==
  ASSUME IInv, call.pc \in {"prepare", "apply"} \cup Rolling
  PROVE  Standing \subseteq Nat /\ \A u \in Standing : u <= call.at
<1> USE SagaAssumption DEF IInv, TypeOK, Calls, InJournal, Tx, Standing, Begun
<1>1. call.for \notin Undoing => \A u \in Standing : u <= call.at
  BY DEF Fresh, Place, Applying
<1>2. call.for \in Undoing => \A u \in Standing : u <= call.at
  <2> SUFFICES ASSUME call.for \in Undoing, NEW u \in Standing, u > call.at
               PROVE  FALSE
    OBVIOUS
  <2>1. call.pc \in Rolling /\ phase = "compensating"
    BY DEF Place, Applying
  <2>2. entry[u] = "compensated"
    BY <2>1 DEF UndoKnows
  <2> QED BY <2>1, <2>2 DEF Journal
<1> QED BY <1>1, <1>2

LEMMA NewSagaKeeps ==
  ASSUME IInv, NewSaga
  PROVE  IInv'
<1> USE SagaAssumption DEF IInv, TypeOK, Calls, Tx, InJournal, onDisk, journal, NewSaga, Working
<1>1. TypeOK'
  BY Basics DEF Phases
<1>2. Fresh' /\ Place' /\ InHand' /\ Writing'
  BY DEF Fresh, Place, InHand, Writing, Applying, Rolling, Down, Blank
<1>3. UndoKnows' /\ RecoveryKnows' /\ Journal' /\ GaveUp'
  BY DEF UndoKnows, RecoveryKnows, Journal, BegunAndLeft, GaveUp, GaveUpAt, Down, Blank
<1>4. Chain'
  BY DEF Chain, Linked, Standing, Blank
<1> QED BY <1>1, <1>2, <1>3, <1>4

LEMMA BeginKeeps ==
  ASSUME IInv, Begin
  PROVE  IInv'
<1> USE SagaAssumption DEF IInv, TypeOK, Calls, Tx, InJournal, onDisk, journal, Begin, Enter
<1>1. TypeOK'
  <2>0. count' \in Tx /\ count' \in 0..MaxTx
    BY Basics
  <2>1. call' \in Calls
    BY <2>0
  <2> QED BY Basics, <2>0, <2>1 DEF Entries
<1>2. Fresh' /\ Place' /\ InHand' /\ Writing'
  BY DEF Fresh, Place, InHand, Writing, Rolling
<1>3. UndoKnows' /\ RecoveryKnows' /\ Journal' /\ GaveUp'
  BY DEF Place, UndoKnows, RecoveryKnows, Journal, BegunAndLeft, GaveUp, GaveUpAt, Row, HalfDone
<1>4. Chain'
  <2>1. Standing' = Standing
    <3>1. count' \in Tx /\ count' > count
      BY Basics
    <3>2. state[count'] = "none" /\ entry[count'] = "none"
      BY <3>1 DEF Fresh
    <3> QED BY <3>1, <3>2 DEF Standing, Begun
  <2> QED BY <2>1, ChainFrame
<1> QED BY <1>1, <1>2, <1>3, <1>4

LEMMA RefuseKeeps ==
  ASSUME IInv, Refuse
  PROVE  IInv'
<1> USE SagaAssumption DEF IInv, TypeOK, Calls, Tx, InJournal, onDisk, journal, Refuse, Enter,
        Working
<1>1. TypeOK'
  BY Basics DEF Entries
<1>2. Fresh' /\ Place' /\ InHand' /\ Writing'
  BY DEF Fresh, Place, InHand, Writing, Applying, Rolling, Down
<1>3. UndoKnows' /\ RecoveryKnows' /\ Journal' /\ GaveUp'
  BY DEF Place, InHand, UndoKnows, RecoveryKnows, Journal, BegunAndLeft, GaveUp, GaveUpAt, Row, HalfDone, Applying, Down
<1>4. Chain'
  <2>1. Standing' = Standing
    BY DEF Standing, InHand
  <2> QED BY <2>1, ChainFrame
<1> QED BY <1>1, <1>2, <1>3, <1>4

LEMMA PrepareKeeps ==
  ASSUME IInv, NEW plan \in SUBSET Files, Prepare(plan)
  PROVE  IInv'
<1> USE SagaAssumption DEF IInv, TypeOK, Calls, Tx, InJournal, onDisk, journal, Prepare
<1>1. TypeOK'
  BY Basics DEF States
<1>2. Fresh' /\ Place' /\ InHand' /\ Writing'
  BY DEF Fresh, Place, InHand, Writing, Applying, Rolling
<1>3. UndoKnows' /\ RecoveryKnows' /\ Journal' /\ GaveUp'
  BY DEF Place, InHand, UndoKnows, RecoveryKnows, Journal, BegunAndLeft, GaveUp, GaveUpAt, Row, HalfDone, Applying
<1>4. Chain'
  <2>1. /\ Standing' = Standing \cup {call.at} /\ call.at \notin Standing
        /\ base'[call.at] = content
        /\ \A u \in Standing : base'[u] = base[u] /\ files'[u] = files[u]
    BY DEF Standing, Begun, InHand, Place, Applying
  <2> QED BY <2>1, HandNewest, ChainAdd
<1> QED BY <1>1, <1>2, <1>3, <1>4

LEMMA ReplaceKeeps ==
  ASSUME IInv, NEW f \in Files, Replace(f)
  PROVE  IInv'
<1> USE SagaAssumption DEF IInv, TypeOK, Calls, Tx, InJournal, onDisk, journal, Replace
<1>1. TypeOK'
  <2>1. call' \in Calls
    BY Basics
  <2>2. content' \in Tree
    BY Basics DEF Tree, Version, Other
  <2> QED BY Basics, <2>1, <2>2
<1>2. Fresh' /\ Place' /\ InHand' /\ Writing'
  BY DEF Fresh, Place, InHand, Writing
<1>3. UndoKnows' /\ RecoveryKnows' /\ Journal' /\ GaveUp'
  BY DEF Place, Applying, UndoKnows, RecoveryKnows, Journal, BegunAndLeft, GaveUp, GaveUpAt, Row, Finding, HalfDone, Undone
<1>4. Chain'
  <2>1. Standing' = Standing /\ call.at \in Standing /\ f \in files[call.at]
    BY DEF Standing, Begun, InHand, Place, Writing, Applying
  <2> QED BY <2>1, HandNewest, ChainWrite DEF Tree
<1> QED BY <1>1, <1>2, <1>3, <1>4

LEMMA CommitKeeps ==
  ASSUME IInv, Commit
  PROVE  IInv'
<1> USE SagaAssumption DEF IInv, TypeOK, Calls, Tx, InJournal, onDisk, journal, Commit, Manifest, Go
<1>1. TypeOK'
  BY Basics DEF States
<1>2. Fresh' /\ Place' /\ InHand' /\ Writing'
  BY DEF Fresh, Place, InHand, Writing, Applying, Rolling
<1>3. UndoKnows' /\ RecoveryKnows' /\ Journal' /\ GaveUp'
  BY DEF Place, InHand, UndoKnows, RecoveryKnows, Journal, BegunAndLeft, GaveUp, GaveUpAt, Row, HalfDone, Applying
<1>4. Chain'
  <2>1. Standing' = Standing
    BY DEF Standing, Begun, InHand
  <2> QED BY <2>1, ChainFrame
<1> QED BY <1>1, <1>2, <1>3, <1>4

LEMMA RecordKeeps ==
  ASSUME IInv, Record
  PROVE  IInv'
<1> USE SagaAssumption DEF IInv, TypeOK, Calls, Tx, InJournal, onDisk, journal, Record, Enter, Go
<1>1. TypeOK'
  BY Basics DEF Entries
<1>2. Fresh' /\ Place' /\ InHand' /\ Writing'
  BY DEF Fresh, Place, InHand, Writing, Applying, Rolling
<1>3. UndoKnows' /\ RecoveryKnows' /\ Journal' /\ GaveUp'
  BY DEF Place, InHand, UndoKnows, RecoveryKnows, Journal, BegunAndLeft, GaveUp, GaveUpAt, Row, HalfDone, Applying
<1>4. Chain'
  <2>1. Standing' = Standing
    BY DEF Standing, InHand
  <2> QED BY <2>1, ChainFrame
<1> QED BY <1>1, <1>2, <1>3, <1>4

LEMMA RecordedKeeps ==
  ASSUME IInv, Recorded
  PROVE  IInv'
<1> USE SagaAssumption DEF IInv, TypeOK, Calls, Tx, InJournal, onDisk, journal, Recorded, Working
<1>1. TypeOK'
  BY Basics DEF Entries
<1>2. Fresh' /\ Place' /\ InHand' /\ Writing'
  BY DEF Fresh, Place, InHand, Writing, Applying, Rolling, Down
<1>3. UndoKnows' /\ RecoveryKnows' /\ Journal' /\ GaveUp'
  <2>1. \A t \in InJournal : t # count => entry[t] # "prepared" /\ Row(t)
    BY DEF Place, Applying, Journal
  <2>2. \A t \in Tx : entry'[t] # entry[t] =>
            t = count /\ entry[t] = "applied" /\ state[t] = "applied" /\ entry'[t] = "restored"
    BY DEF InHand, Place, Applying
  <2>3. Journal'
    BY <2>1, <2>2 DEF Journal, Place, InHand, Applying, Row, HalfDone
  <2> QED BY <2>3 DEF Place, UndoKnows, RecoveryKnows, GaveUp, Applying, Down
<1>4. Chain'
  <2>1. Standing' = Standing
    BY DEF Standing, InHand
  <2> QED BY <2>1, ChainFrame
<1> QED BY <1>1, <1>2, <1>3, <1>4

LEMMA AbortKeeps ==
  ASSUME IInv, Abort
  PROVE  IInv'
<1> USE SagaAssumption DEF IInv, TypeOK, Calls, Tx, InJournal, onDisk, journal, Abort, Manifest
<1>1. TypeOK'
  BY Basics DEF Place, Applying, States
<1>2. Fresh' /\ Place' /\ InHand' /\ Writing'
  BY DEF Fresh, Place, InHand, Writing, Applying, Undoing
<1>3. UndoKnows' /\ RecoveryKnows' /\ Journal' /\ GaveUp'
  BY DEF InHand, UndoKnows, RecoveryKnows, Journal, BegunAndLeft, GaveUp, GaveUpAt, Row, HalfDone, Undone, Undoing
<1>4. Chain'
  <2>1. Standing' = Standing \ {call.at} /\ call.at \in Standing
    BY DEF Standing, Begun, InHand, Place, Applying
  <2>2. \A f \in files[call.at] \ touched : content[f] = base[call.at][f]
    BY DEF Writing
  <2> QED BY <2>1, <2>2, HandNewest, ChainDrop DEF Rolling
<1> QED BY <1>1, <1>2, <1>3, <1>4

LEMMA FailKeeps ==
  ASSUME IInv, NEW T \in SUBSET Files, Fail(T)
  PROVE  IInv'
<1> USE SagaAssumption DEF IInv, TypeOK, Calls, Tx, InJournal, onDisk, journal, Fail, Manifest, Torn
<1>1. TypeOK'
  <2>1. content' \in Tree /\ touched' \subseteq Files
    BY Basics DEF Tree, Version, Other
  <2>2. call' \in Calls /\ call'.at \in InJournal'
    BY DEF Place, Applying
  <2>3. state' \in [Tx -> States]
    BY DEF States
  <2> QED BY <2>1, <2>2, <2>3
<1>2. /\ phase = "active" /\ call.at = count /\ entry[count] = "prepared" /\ count \in Tx
      /\ call'.for = "apply" /\ call'.at = count /\ call'.pc \in {"check", "refused"}
      /\ state'[count] = (IF call'.pc = "check" THEN "rolling_back" ELSE "prepared")
      /\ \A t \in Tx : t # count => state'[t] = state[t]
  BY DEF Place, InHand, Applying
<1>3. /\ Fresh' /\ Place' /\ InHand' /\ Writing'
      /\ UndoKnows' /\ RecoveryKnows' /\ Journal' /\ GaveUp'
  <2>1. UNCHANGED journal
    OBVIOUS
  <2> HIDE DEF Fail
  <2>2. Fresh' /\ Place'
    BY <1>2, <2>1 DEF Fresh, Place, Applying, Undoing
  <2>3. InHand'
    BY <1>2, <2>1 DEF InHand, HalfDone, Undoing
  <2>4. Writing'
    BY <1>2, <2>1 DEF Writing
  <2>5. UndoKnows' /\ RecoveryKnows' /\ Journal' /\ GaveUp'
    BY <1>2, <2>1 DEF UndoKnows, RecoveryKnows, Journal, BegunAndLeft, GaveUp, GaveUpAt, Row, HalfDone, Undoing
  <2> QED BY <2>2, <2>3, <2>4, <2>5
<1>4. Chain'
  <2>1. Standing' = Standing
    BY DEF Standing, Begun, InHand
  <2> QED BY <2>1, ChainFrame
<1> QED BY <1>1, <1>2, <1>3, <1>4

LEMMA AbandonKeeps ==
  ASSUME IInv, Abandon
  PROVE  IInv'
<1> USE SagaAssumption DEF IInv, TypeOK, Calls, Tx, InJournal, onDisk, journal, Abandon, Enter,
        Outcome, Working
<1>1. TypeOK'
  BY Basics DEF Entries
<1>2. Fresh' /\ Place' /\ InHand' /\ Writing'
  BY DEF Fresh, Place, InHand, Writing, Applying, Rolling, Undoing, Down
<1>3. UndoKnows' /\ RecoveryKnows' /\ Journal' /\ GaveUp'
  BY DEF Place, InHand, UndoKnows, RecoveryKnows, Journal, BegunAndLeft, GaveUp, GaveUpAt, Row, HalfDone, Rolling, Undoing,
     Down
<1>4. Chain'
  <2>1. Standing' = Standing
    BY DEF Standing
  <2> QED BY <2>1, ChainFrame
<1> QED BY <1>1, <1>2, <1>3, <1>4

LEMMA AlreadyUndoneKeeps ==
  ASSUME IInv, AlreadyUndone
  PROVE  IInv'
<1> USE SagaAssumption DEF IInv, TypeOK, Calls, Tx, InJournal, onDisk, journal, AlreadyUndone, Go
<1>1. TypeOK'
  BY Basics
<1>2. Fresh' /\ Place' /\ InHand' /\ Writing'
  BY DEF Fresh, Place, InHand, Writing, HalfDone, Applying
<1>3. UndoKnows' /\ RecoveryKnows' /\ Journal' /\ GaveUp'
  BY DEF Place, InHand, UndoKnows, RecoveryKnows, Journal, BegunAndLeft, GaveUp, GaveUpAt, Row, HalfDone, Rolling
<1>4. Chain'
  <2>1. Standing' = Standing
    BY DEF Standing
  <2> QED BY <2>1, ChainFrame
<1> QED BY <1>1, <1>2, <1>3, <1>4

LEMMA NothingAppliedKeeps ==
  ASSUME IInv, NothingApplied
  PROVE  IInv'
<1> USE SagaAssumption DEF IInv, TypeOK, Calls, Tx, InJournal, onDisk, journal, NothingApplied,
        Manifest, Go, All, Position
<1>1. TypeOK'
  BY Basics DEF States
<1>2. Fresh' /\ Place' /\ InHand' /\ Writing'
  BY DEF Fresh, Place, InHand, Writing, Applying, Rolling
<1>3. UndoKnows' /\ RecoveryKnows' /\ Journal' /\ GaveUp'
  BY DEF Place, UndoKnows, RecoveryKnows, Journal, BegunAndLeft, GaveUp, GaveUpAt, Row, Finding, HalfDone, Rolling
<1>4. Chain'
  <2>1. Standing' = Standing \ {call.at} /\ call.at \in Standing
    BY DEF Standing, Begun
  <2>2. \A f \in files[call.at] \ touched : content[f] = base[call.at][f]
    OBVIOUS
  <2> QED BY <2>1, <2>2, HandNewest, ChainDrop DEF Rolling
<1> QED BY <1>1, <1>2, <1>3, <1>4

LEMMA RollbackRefusedKeeps ==
  ASSUME IInv, RollbackRefused
  PROVE  IInv'
<1> USE SagaAssumption DEF IInv, TypeOK, Calls, Tx, InJournal, onDisk, journal, RollbackRefused, Go,
        Refuses
<1>1. TypeOK'
  BY Basics
<1>2. Fresh' /\ Place' /\ InHand' /\ Writing'
  BY DEF Fresh, Place, InHand, Writing, Applying, Rolling
<1>3. UndoKnows' /\ RecoveryKnows' /\ Journal' /\ GaveUp'
  BY DEF Place, UndoKnows, RecoveryKnows, Journal, BegunAndLeft, GaveUp, GaveUpAt, Row, Finding, HalfDone, Rolling
<1>4. Chain'
  <2>1. Standing' = Standing
    BY DEF Standing
  <2> QED BY <2>1, ChainFrame
<1> QED BY <1>1, <1>2, <1>3, <1>4

LEMMA BeginRollbackKeeps ==
  ASSUME IInv, BeginRollback
  PROVE  IInv'
<1> USE SagaAssumption DEF IInv, TypeOK, Calls, Tx, InJournal, onDisk, journal, BeginRollback,
        Manifest, Refuses, Undone
<1>1. TypeOK'
  BY Basics DEF States
<1>2. Fresh' /\ Place' /\ InHand' /\ Writing'
  BY DEF Fresh, Place, InHand, Writing, Applying, Rolling
<1>3. UndoKnows' /\ RecoveryKnows' /\ Journal' /\ GaveUp'
  BY DEF Place, InHand, UndoKnows, RecoveryKnows, Journal, BegunAndLeft, GaveUp, GaveUpAt, Row, Finding, HalfDone,
     Rolling
<1>4. Chain'
  <2>1. Standing' = Standing
    BY DEF Standing, Begun, States
  <2> QED BY <2>1, ChainFrame
<1> QED BY <1>1, <1>2, <1>3, <1>4

LEMMA RestoreKeeps ==
  ASSUME IInv, NEW f \in Files, Restore(f)
  PROVE  IInv'
<1> USE SagaAssumption DEF IInv, TypeOK, Calls, Tx, InJournal, onDisk, journal, Restore, Position
<1>1. TypeOK'
  <2>1. call' \in Calls
    BY Basics
  <2>2. content' \in Tree
    BY Basics DEF Tree
  <2> QED BY Basics, <2>1, <2>2
<1>2. Fresh' /\ Place' /\ InHand' /\ Writing'
  <2>1. Fresh' /\ Place' /\ InHand'
    BY DEF Fresh, Place, InHand
  <2>2. \A g \in files[call.at] \ (call'.todo \cup touched) : content'[g] = base[call.at][g]
    BY DEF Writing, Tree
  <2> QED BY <2>1, <2>2 DEF Writing
<1>3. UndoKnows' /\ RecoveryKnows' /\ Journal' /\ GaveUp'
  BY DEF Place, Rolling, UndoKnows, RecoveryKnows, Journal, BegunAndLeft, GaveUp, GaveUpAt, Row, Finding, HalfDone, Undone
<1>4. Chain'
  <2>1. Standing' = Standing /\ call.at \in Standing /\ f \in files[call.at]
    BY DEF Standing, Begun, InHand, Writing
  <2> QED BY <2>1, HandNewest, ChainWrite DEF Rolling, Tree
<1> QED BY <1>1, <1>2, <1>3, <1>4

LEMMA RestoreStopsKeeps ==
  ASSUME IInv, RestoreStops
  PROVE  IInv'
<1> USE SagaAssumption DEF IInv, TypeOK, Calls, Tx, InJournal, onDisk, journal, RestoreStops, Go,
        Position
<1>1. TypeOK'
  BY Basics
<1>2. Fresh' /\ Place' /\ InHand' /\ Writing'
  BY DEF Fresh, Place, InHand, Writing, Applying, Rolling
<1>3. UndoKnows' /\ RecoveryKnows' /\ Journal' /\ GaveUp'
  BY DEF Place, UndoKnows, RecoveryKnows, Journal, BegunAndLeft, GaveUp, GaveUpAt, Row, Finding, HalfDone, Rolling
<1>4. Chain'
  <2>1. Standing' = Standing
    BY DEF Standing
  <2> QED BY <2>1, ChainFrame
<1> QED BY <1>1, <1>2, <1>3, <1>4

LEMMA RolledBackKeeps ==
  ASSUME IInv, RolledBack
  PROVE  IInv'
<1> USE SagaAssumption DEF IInv, TypeOK, Calls, Tx, InJournal, onDisk, journal, RolledBack,
        Manifest, Go
<1>1. TypeOK'
  BY Basics DEF States
<1>2. Fresh' /\ Place' /\ InHand' /\ Writing'
  BY DEF Fresh, Place, InHand, Writing, Applying, Rolling
<1>3. UndoKnows' /\ RecoveryKnows' /\ Journal' /\ GaveUp'
  BY DEF Place, InHand, UndoKnows, RecoveryKnows, Journal, BegunAndLeft, GaveUp, GaveUpAt, Row, Finding, HalfDone, Rolling
<1>4. Chain'
  <2>1. Standing' = Standing \ {call.at} /\ call.at \in Standing
    BY DEF Standing, Begun, InHand
  <2>2. \A f \in files[call.at] \ touched : content[f] = base[call.at][f]
    BY DEF Writing
  <2> QED BY <2>1, <2>2, HandNewest, ChainDrop DEF Rolling
<1> QED BY <1>1, <1>2, <1>3, <1>4

LEMMA StopKeeps ==
  ASSUME IInv, Stop
  PROVE  IInv'
<1> USE SagaAssumption DEF IInv, TypeOK, Calls, Tx, InJournal, onDisk, journal, Stop
<1>1. TypeOK'
  BY Basics
<1>2. Fresh' /\ Place' /\ InHand' /\ Writing'
  BY DEF Fresh, Place, InHand, Writing
<1>3. UndoKnows' /\ RecoveryKnows' /\ Journal' /\ GaveUp'
  BY DEF Place, UndoKnows, RecoveryKnows, Journal, BegunAndLeft, GaveUp, GaveUpAt, Row, HalfDone
<1>4. Chain'
  <2>1. Standing' = Standing
    BY DEF Standing
  <2> QED BY <2>1, ChainFrame
<1> QED BY <1>1, <1>2, <1>3, <1>4

LEMMA KeepKeeps ==
  ASSUME IInv, Keep
  PROVE  IInv'
<1> USE SagaAssumption DEF IInv, TypeOK, Calls, Tx, InJournal, onDisk, journal, Keep, Close
<1>1. TypeOK'
  BY Basics DEF Phases
<1>2. Fresh' /\ Place' /\ InHand' /\ Writing'
  BY DEF Fresh, Place, InHand, Writing, Applying, Rolling, Down
<1>3. UndoKnows' /\ RecoveryKnows' /\ Journal' /\ GaveUp'
  BY DEF Place, UndoKnows, RecoveryKnows, Journal, BegunAndLeft, GaveUp, GaveUpAt, Row, HalfDone, Down
<1>4. Chain'
  <2>1. Standing' = Standing
    BY DEF Standing
  <2> QED BY <2>1, ChainFrame
<1> QED BY <1>1, <1>2, <1>3, <1>4

LEMMA CompleteKeeps ==
  ASSUME IInv, Complete
  PROVE  IInv'
<1> USE SagaAssumption DEF IInv, TypeOK, Calls, Tx, InJournal, onDisk, journal, Complete, Close
<1>1. TypeOK'
  BY Basics DEF Phases
<1>2. Fresh' /\ Place' /\ InHand' /\ Writing'
  BY DEF Fresh, Place, InHand, Writing, Applying, Rolling, Down
<1>3. UndoKnows' /\ RecoveryKnows' /\ Journal' /\ GaveUp'
  BY DEF Place, UndoKnows, RecoveryKnows, Journal, BegunAndLeft, GaveUp, GaveUpAt, Row, HalfDone, Down
<1>4. Chain'
  <2>1. Standing' = Standing
    BY DEF Standing
  <2> QED BY <2>1, ChainFrame
<1> QED BY <1>1, <1>2, <1>3, <1>4

LEMMA CancelKeeps ==
  ASSUME IInv, Cancel
  PROVE  IInv'
<1> USE SagaAssumption DEF IInv, TypeOK, Calls, Tx, InJournal, onDisk, journal, Cancel, Through
<1>1. TypeOK'
  BY Basics DEF Phases
<1>2. Fresh' /\ Place' /\ InHand' /\ Writing'
  BY DEF Fresh, Place, InHand, Writing, Applying, Rolling, Undoing, Down
<1>3. UndoKnows' /\ RecoveryKnows' /\ Journal' /\ GaveUp'
  BY DEF Place, UndoKnows, RecoveryKnows, Journal, BegunAndLeft, GaveUp, GaveUpAt, Row, HalfDone, Rolling
<1>4. Chain'
  <2>1. Standing' = Standing
    BY DEF Standing
  <2> QED BY <2>1, ChainFrame
<1> QED BY <1>1, <1>2, <1>3, <1>4

LEMMA UndoNextKeeps ==
  ASSUME IInv, NEW t \in Tx, UndoNext(t)
  PROVE  IInv'
<1> USE SagaAssumption DEF IInv, TypeOK, Calls, Tx, InJournal, onDisk, journal, UndoNext, NeverMade,
        Newest
<1>1. TypeOK'
  <2>1. call' \in Calls
    <3>1. t \in 0..MaxTx
      BY Basics
    <3> QED BY <3>1
  <2> QED BY Basics, <2>1 DEF Place, UndoKnows
<1>2. Fresh' /\ Place' /\ InHand' /\ Writing'
  BY DEF Fresh, Place, InHand, Writing, UndoKnows, Journal, Applying
<1>3. UndoKnows' /\ RecoveryKnows' /\ Journal' /\ GaveUp'
  BY DEF Place, UndoKnows, RecoveryKnows, Journal, BegunAndLeft, GaveUp, GaveUpAt, Row, HalfDone
<1>4. Chain'
  <2>1. Standing' = Standing
    BY DEF Standing
  <2> QED BY <2>1, ChainFrame
<1> QED BY <1>1, <1>2, <1>3, <1>4

LEMMA CompensateKeeps ==
  ASSUME IInv, Compensate
  PROVE  IInv'
<1> USE SagaAssumption DEF IInv, TypeOK, Calls, Tx, InJournal, onDisk, journal, Compensate, Enter
<1>1. TypeOK'
  <2>1. call' \in Calls
    BY Basics
  <2> QED BY Basics, <2>1 DEF Entries
<1>2. Fresh' /\ Place' /\ InHand' /\ Writing'
  BY DEF Fresh, Place, InHand, Writing, Applying, Rolling
<1>3. UndoKnows' /\ RecoveryKnows' /\ Journal' /\ GaveUp'
  BY DEF Place, InHand, UndoKnows, RecoveryKnows, Journal, BegunAndLeft, GaveUp, GaveUpAt, Row, HalfDone, Rolling
<1>4. Chain'
  <2>1. Standing' = Standing
    BY DEF Standing
  <2> QED BY <2>1, ChainFrame
<1> QED BY <1>1, <1>2, <1>3, <1>4

LEMMA CompensatedKeeps ==
  ASSUME IInv, Compensated
  PROVE  IInv'
<1> USE SagaAssumption DEF IInv, TypeOK, Calls, Tx, InJournal, onDisk, journal, Compensated, Leave
<1>1. TypeOK'
  BY Basics DEF Phases
<1>2. Fresh' /\ Place' /\ InHand' /\ Writing'
  BY DEF Fresh, Place, InHand, Writing, Applying, Rolling, Undoing, Down
<1>3. UndoKnows' /\ RecoveryKnows' /\ Journal' /\ GaveUp'
  BY DEF Place, UndoKnows, RecoveryKnows, Journal, BegunAndLeft, GaveUp, GaveUpAt, Row, HalfDone, Undone, Down
<1>4. Chain'
  <2>1. Standing' = Standing
    BY DEF Standing
  <2> QED BY <2>1, ChainFrame
<1> QED BY <1>1, <1>2, <1>3, <1>4

LEMMA ConflictedKeeps ==
  ASSUME IInv, Conflicted
  PROVE  IInv'
<1> USE SagaAssumption DEF IInv, TypeOK, Calls, Tx, InJournal, onDisk, journal, Conflicted, Enter,
        Leave
<1>1. TypeOK'
  BY Basics DEF Phases, Entries
<1>2. Fresh' /\ Place' /\ InHand' /\ Writing'
  BY DEF Fresh, Place, InHand, Writing, Applying, Rolling, Undoing, Down
<1>3. UndoKnows' /\ RecoveryKnows'
  BY DEF UndoKnows, RecoveryKnows, Undoing, Down
<1>4. /\ call.at \in InJournal /\ phase = "compensating" /\ call.for \in Undoing
      /\ \A u \in InJournal : u > call.at => entry[u] = "compensated"
      /\ entry' = [entry EXCEPT ![call.at] = "conflict"]
  <2>1. call.at \in InJournal /\ phase = "compensating" /\ call.for \in Undoing
    BY DEF Place, Rolling, Undoing
  <2>2. \A u \in call.left : u < call.at
    BY <2>1 DEF UndoKnows, Rolling
  <2>3. ASSUME NEW u \in InJournal, u > call.at PROVE entry[u] = "compensated"
    BY <2>1, <2>2, <2>3, Basics DEF UndoKnows
  <2> QED BY <2>1, <2>3
<1>7. UNCHANGED <<content, start, touched, files>>
  OBVIOUS
<1>5. Journal'
  <2> SUFFICES ASSUME NEW t \in InJournal
               PROVE  /\ entry'[t] = "compensated" => state[t] \in {"aborted", "rolled_back"}
                      /\ Row(t)' \/ BegunAndLeft(t)'
    BY <1>4 DEF Journal, Down, Undoing
  <2>1. CASE t = call.at
    BY <1>4, <2>1 DEF Row
  <2>2. CASE t > call.at
    BY <1>4, <2>2 DEF Row, Journal, HalfDone
  <2>3. CASE t < call.at
    <3>1. entry'[t] = entry[t] /\ entry'[call.at] = "conflict" /\ call.at \in InJournal'
      BY <1>4, <2>3
    <3>2. Row(t) \/ state[t] \in {"rolling_back", "rolled_back"}
      BY <1>4 DEF Journal
    <3> QED BY <1>4, <2>3, <3>1, <3>2 DEF Row, Journal, HalfDone, BegunAndLeft
  <2> QED BY <2>1, <2>2, <2>3
<1>6. GaveUp'
  <2>1. \A u \in Standing : u <= call.at
    BY HandNewest DEF Rolling
  <2>2. \A f \in Files \ touched :
           content[f] = start[f] \/ \E u \in InJournal : u <= call.at /\ f \in files[u] /\ content[f] = u
    BY <2>1 DEF Chain, Linked, Standing
  <2>3. ASSUME NEW t \in InJournal, t = call.at PROVE GaveUpAt(t)'
    <3>1. entry'[t] = "conflict" /\ InJournal' = InJournal
      BY <1>4, <2>3
    <3>2. \A u \in InJournal : u > t => entry'[u] = "compensated"
      BY <1>4, <2>3
    <3> HIDE DEF Conflicted, InJournal
    <3> QED BY <3>1, <3>2, <2>2, <2>3, <1>7 DEF GaveUpAt
  <2>4. InJournal' = InJournal
    BY <1>4
  <2> HIDE DEF Conflicted, InJournal
  <2> QED BY <1>4, <2>3, <2>4 DEF GaveUp
<1>8. Chain'
  <2>1. Standing' = Standing
    BY DEF Standing
  <2> QED BY <2>1, ChainFrame
<1> QED BY <1>1, <1>2, <1>3, <1>5, <1>6, <1>8

LEMMA NextRunKeeps ==
  ASSUME IInv, NextRun
  PROVE  IInv'
<1> USE SagaAssumption DEF IInv, TypeOK, Calls, Tx, InJournal, onDisk, journal, NextRun, Through
<1>1. TypeOK'
  BY Basics DEF States
<1>2. Fresh' /\ Place' /\ InHand' /\ Writing'
  BY DEF Fresh, Place, InHand, Writing, Applying, Rolling, Undoing, Down
<1>3. UndoKnows' /\ RecoveryKnows' /\ Journal' /\ GaveUp'
  BY DEF Place, UndoKnows, RecoveryKnows, Journal, BegunAndLeft, GaveUp, GaveUpAt, Row, HalfDone, Undone, Rolling,
     Down
<1>4. Chain'
  <2>1. Standing' = Standing
    BY DEF Standing
  <2> QED BY <2>1, ChainFrame
<1> QED BY <1>1, <1>2, <1>3, <1>4

LEMMA RecoverNextKeeps ==
  ASSUME IInv, NEW t \in Tx, RecoverNext(t)
  PROVE  IInv'
<1> USE SagaAssumption DEF IInv, TypeOK, Calls, Tx, InJournal, onDisk, journal
<1>0. /\ call.for = "recover" /\ phase = "active" /\ call.at = 0 /\ t \in 0..MaxTx /\ t # 0
      /\ \A u \in InJournal : IF entry[u] = "prepared" THEN u = count ELSE Row(u)
      /\ \A u \in Tx : call.found[u] = "none" <=> entry[u] = "none"
      /\ \A u \in InJournal : u \notin call.left => Finding(u)
      /\ t \in call.left /\ t \in InJournal /\ call.left \subseteq InJournal /\ call.pc = "recovering"
      /\ UNCHANGED <<content, touched, onDisk, journal, edits, crashes>>
  BY Basics DEF Place, RecoveryKnows, Journal, RecoverNext
<1>1. CASE call' = [call EXCEPT !.pc = "check", !.at = t, !.left = @ \ {t}] /\ HalfDone(t)
                   /\ entry[t] \notin Settled
  <2>1. entry[t] = "prepared" /\ t = count
    BY <1>0, <1>1 DEF Row, Settled
  <2>2. TypeOK'
    BY <1>0, <1>1
  <2>3. Fresh' /\ Place' /\ InHand' /\ Writing'
    BY <1>0, <1>1, <2>1 DEF Fresh, Place, InHand, Writing, HalfDone, Applying
  <2>4. RecoveryKnows'
    BY <1>0, <1>1 DEF RecoveryKnows, Finding, HalfDone
  <2>5. UndoKnows' /\ Journal' /\ GaveUp'
    BY <1>0, <1>1 DEF UndoKnows, Journal, BegunAndLeft, GaveUp, GaveUpAt, Row, HalfDone, Undoing
  <2>6. Chain'
    BY <1>0, ChainFrame DEF Standing
  <2> QED BY <2>2, <2>3, <2>4, <2>5, <2>6
<1>2. CASE call' = [call EXCEPT !.found[t] = Verdict(t), !.left = @ \ {t}]
                   /\ (~HalfDone(t) \/ entry[t] \in Settled)
  <2>1. Verdict(t) \in Entries \ {"none"}
    BY DEF Verdict, Settled, Entries
  <2>2. TypeOK'
    BY <1>0, <1>2, <2>1 DEF Entries
  <2>3. Fresh' /\ Place' /\ InHand' /\ Writing'
    BY <1>0, <1>2 DEF Fresh, Place, InHand, Writing
  <2>4. t \in InJournal => Finding(t)'
    BY <1>0, <1>2 DEF Finding, Verdict, Row, Settled, HalfDone
  <2>5. RecoveryKnows'
    BY <1>0, <1>2, <2>1, <2>4 DEF RecoveryKnows, Finding, HalfDone
  <2>6. UndoKnows' /\ Journal' /\ GaveUp'
    BY <1>0, <1>2 DEF UndoKnows, Journal, BegunAndLeft, GaveUp, GaveUpAt, Row, HalfDone, Undoing
  <2>7. Chain'
    BY <1>0, ChainFrame DEF Standing
  <2> QED BY <2>2, <2>3, <2>5, <2>6, <2>7
<1> QED BY <1>1, <1>2 DEF RecoverNext

LEMMA RecoverKeeps ==
  ASSUME IInv, Recover
  PROVE  IInv'
<1> USE SagaAssumption DEF IInv, TypeOK, Calls, Tx, InJournal, onDisk, journal, Recover, Find,
        Outcome
<1>1. TypeOK'
  <2>1. call' \in Calls
    BY Basics DEF Entries
  <2> QED BY Basics, <2>1
<1>2. Fresh' /\ Place' /\ InHand' /\ Writing'
  BY DEF Fresh, Place, InHand, Writing, Applying, Rolling
<1>3. UndoKnows' /\ RecoveryKnows' /\ Journal' /\ GaveUp'
  BY DEF Place, InHand, UndoKnows, RecoveryKnows, Journal, BegunAndLeft, GaveUp, GaveUpAt, Row, Finding, HalfDone
<1>4. Chain'
  <2>1. Standing' = Standing
    BY DEF Standing
  <2> QED BY <2>1, ChainFrame
<1> QED BY <1>1, <1>2, <1>3, <1>4

LEMMA RecoveredKeeps ==
  ASSUME IInv, Recovered
  PROVE  IInv'
<1> USE SagaAssumption DEF IInv, TypeOK, Calls, Tx, InJournal, onDisk, journal, Recovered
<1>1. TypeOK'
  BY Basics DEF Phases
<1>2. Fresh' /\ Place' /\ InHand' /\ Writing'
  BY DEF Fresh, Place, InHand, Writing, RecoveryKnows, Applying, Rolling, Undoing, Down
<1>3. UndoKnows' /\ RecoveryKnows' /\ Journal' /\ GaveUp'
  BY DEF Place, UndoKnows, RecoveryKnows, Journal, BegunAndLeft, GaveUp, GaveUpAt, Row, Finding, HalfDone, Undoing, Down
<1>4. Chain'
  <2>1. Standing' = Standing
    BY DEF Standing, Place, RecoveryKnows
  <2> QED BY <2>1, ChainFrame
<1> QED BY <1>1, <1>2, <1>3, <1>4

LEMMA StopEarlyKeeps ==
  ASSUME IInv, StopEarly
  PROVE  IInv'
<1> USE SagaAssumption DEF IInv, TypeOK, Calls, Tx, InJournal, onDisk, journal, StopEarly
<1>1. TypeOK'
  BY Basics
<1>2. Fresh' /\ Place' /\ InHand' /\ Writing'
  BY DEF Fresh, Place, InHand, Writing, Applying, Rolling, Down
<1>3. UndoKnows' /\ RecoveryKnows' /\ Journal' /\ GaveUp'
  BY DEF Place, UndoKnows, RecoveryKnows, Journal, BegunAndLeft, GaveUp, GaveUpAt, Row, HalfDone, Undone, Down
<1>4. Chain'
  <2>1. Standing' = Standing
    BY DEF Standing
  <2> QED BY <2>1, ChainFrame
<1> QED BY <1>1, <1>2, <1>3, <1>4

LEMMA SaveNoticeKeeps ==
  ASSUME IInv, SaveNotice
  PROVE  IInv'
<1> USE SagaAssumption DEF IInv, TypeOK, Calls, Tx, InJournal, onDisk, journal, SaveNotice, Go
<1>1. TypeOK'
  BY Basics
<1>2. Fresh' /\ Place' /\ InHand' /\ Writing'
  BY DEF Fresh, Place, InHand, Writing, Applying, Rolling
<1>3. UndoKnows' /\ RecoveryKnows' /\ Journal' /\ GaveUp'
  BY DEF Place, UndoKnows, RecoveryKnows, Journal, BegunAndLeft, GaveUp, GaveUpAt, Row, HalfDone, Undone
<1>4. Chain'
  <2>1. Standing' = Standing
    BY DEF Standing
  <2> QED BY <2>1, ChainFrame
<1> QED BY <1>1, <1>2, <1>3, <1>4

LEMMA AcknowledgeKeeps ==
  ASSUME IInv, Acknowledge
  PROVE  IInv'
<1> USE SagaAssumption DEF IInv, TypeOK, Calls, Tx, InJournal, onDisk, journal, Acknowledge, Go
<1>1. TypeOK'
  BY Basics DEF Phases
<1>2. Fresh' /\ Place' /\ InHand' /\ Writing'
  BY DEF Fresh, Place, InHand, Writing, Applying, Rolling
<1>3. UndoKnows' /\ RecoveryKnows' /\ Journal'
  BY DEF Place, UndoKnows, RecoveryKnows, Journal, BegunAndLeft, Row, HalfDone, Undone
<1>5. GaveUp'
  <2>1. UNCHANGED <<content, start, touched, entry, files>>
    OBVIOUS
  <2>2. \A t \in InJournal : GaveUpAt(t) => GaveUpAt(t)'
    BY <2>1 DEF GaveUpAt
  <2>3. phase' # phase => phase = "rollback_conflict"
    OBVIOUS
  <2> QED BY <2>1, <2>2, <2>3 DEF GaveUp
<1>4. Chain'
  <2>1. Standing' = Standing
    BY DEF Standing
  <2> QED BY <2>1, ChainFrame
<1> QED BY <1>1, <1>2, <1>3, <1>4, <1>5

LEMMA EditKeeps ==
  ASSUME IInv, NEW f \in Files, NEW v \in Version, Edit(f, v)
  PROVE  IInv'
<1> USE SagaAssumption DEF IInv, TypeOK, Calls, Tx, InJournal, onDisk, journal, Edit
<1>1. TypeOK'
  BY Basics DEF Other, Tree, Phases, Entries, States
<1>2. Fresh' /\ Place' /\ InHand' /\ Writing'
  BY DEF Fresh, Place, InHand, Writing, HalfDone
<1>3. UndoKnows' /\ RecoveryKnows' /\ Journal'
  BY DEF UndoKnows, RecoveryKnows, Journal, BegunAndLeft, Row, Finding, HalfDone, Undone
<1>5. GaveUp'
  <2>1. /\ touched \subseteq touched' /\ \A g \in Files \ touched' : content'[g] = content[g]
        /\ UNCHANGED <<entry, start, files, phase>>
    OBVIOUS
  <2>2. ASSUME NEW t \in InJournal, GaveUpAt(t) PROVE GaveUpAt(t)'
    <3> HIDE DEF Edit, IInv
    <3> QED BY <2>1, <2>2 DEF GaveUpAt
  <2> QED BY <2>1, <2>2 DEF GaveUp
<1>4. Chain'
  <2>1. Standing' = Standing
    BY DEF Standing
  <2> QED BY <2>1, ChainFrame
<1> QED BY <1>1, <1>2, <1>3, <1>4, <1>5

LEMMA CrashKeeps ==
  ASSUME IInv, NEW T \in SUBSET Files, Crash(T)
  PROVE  IInv'
<1> USE SagaAssumption DEF IInv, TypeOK, Calls, Tx, InJournal, onDisk, journal, Crash, Torn
<1>1. TypeOK'
  <2>1. call' \in Calls
    BY Basics
  <2> QED BY Basics, <2>1 DEF Version, Other, Tree
<1>2. Fresh' /\ Place' /\ InHand' /\ Writing'
  BY DEF Fresh, Place, InHand, Writing, Applying, Rolling, Undoing, Down
<1>3. UndoKnows' /\ RecoveryKnows' /\ Journal' /\ GaveUp'
  BY DEF UndoKnows, RecoveryKnows, Journal, BegunAndLeft, GaveUp, GaveUpAt, Row, HalfDone, Undone, Undoing, Down
<1>4. Chain'
  <2>1. Standing' = Standing
    BY DEF Standing
  <2> QED BY <2>1, ChainFrame
<1> QED BY <1>1, <1>2, <1>3, <1>4

-----------------------------------------------------------------------------
(* The invariant, and the properties.                                        *)

\* It holds at first: there is no journal and no transaction.
LEMMA InitInvariant == Init => IInv
<1> SUFFICES ASSUME Init
             PROVE  IInv
  OBVIOUS
<1> USE DEF Init, InJournal
<1>1. TypeOK
  <2>1. content \in Tree /\ start \in Tree /\ base \in [Tx -> Tree]
    BY Basics DEF Tree, Version, Other
  <2>2. state \in [Tx -> States] /\ entry \in [Tx -> Entries] /\ phase \in Phases
    BY DEF Blank, States, Entries, Phases
  <2>3. files \in [Tx -> SUBSET Files] /\ touched \subseteq Files /\ count \in 0..MaxTx
    BY Basics
  <2>4. call \in Calls /\ call.pc = "down" /\ edits \in 0..MaxEdits /\ crashes \in 0..MaxCrashes
    BY Basics
  <2> QED BY <2>1, <2>2, <2>3, <2>4 DEF TypeOK
<1>2. InJournal = {} /\ Standing = {}
  BY DEF Standing, Blank
<1>3. Fresh /\ Place /\ InHand /\ Writing /\ UndoKnows /\ RecoveryKnows
  BY DEF Fresh, Place, InHand, Writing, UndoKnows, RecoveryKnows, Applying, Rolling, Undoing,
         Down, Blank
<1>4. Journal /\ GaveUp
  BY <1>2 DEF Journal, BegunAndLeft, GaveUp, GaveUpAt, Down
<1>5. Chain
  BY <1>2 DEF Chain, Linked
<1> QED BY <1>1, <1>3, <1>4, <1>5 DEF IInv

\* Every step keeps it.
LEMMA StepInvariant == IInv /\ [Next]_vars => IInv'
<1> SUFFICES ASSUME IInv, [Next]_vars
             PROVE  IInv'
  OBVIOUS
<1>1. CASE Change
  BY <1>1, BeginKeeps, RefuseKeeps, CommitKeeps, RecordKeeps, RecordedKeeps, AbortKeeps,
     AbandonKeeps, PrepareKeeps, FailKeeps, ReplaceKeeps DEF Change
<1>2. CASE RollBack
  BY <1>2, AlreadyUndoneKeeps, NothingAppliedKeeps, RollbackRefusedKeeps, BeginRollbackKeeps,
     RestoreStopsKeeps, RolledBackKeeps, RestoreKeeps DEF RollBack
<1>3. CASE End
  BY <1>3, StopKeeps, KeepKeeps, CompleteKeeps, CancelKeeps DEF End
<1>4. CASE Undo
  BY <1>4, CompensateKeeps, CompensatedKeeps, ConflictedKeeps, UndoNextKeeps DEF Undo
<1>5. CASE Settle
  BY <1>5, NextRunKeeps, RecoverKeeps, RecoveredKeeps, StopEarlyKeeps, SaveNoticeKeeps,
     AcknowledgeKeeps, NewSagaKeeps, RecoverNextKeeps DEF Settle
<1>6. CASE \E T \in SUBSET Files : Crash(T)
  BY <1>6, CrashKeeps
<1>7. CASE \E f \in Files, v \in Version : Edit(f, v)
  BY <1>7, EditKeeps
<1>8. CASE UNCHANGED vars
  <2> USE <1>8 DEF vars, onDisk, journal, IInv
  <2>1. TypeOK' /\ Fresh' /\ Place' /\ InHand' /\ Writing'
    BY DEF TypeOK, Fresh, Place, InHand, Writing, InJournal, HalfDone
  <2>2. UndoKnows' /\ RecoveryKnows' /\ Journal' /\ GaveUp'
    BY DEF UndoKnows, RecoveryKnows, Journal, BegunAndLeft, GaveUp, GaveUpAt, InJournal, Row, Finding, HalfDone,
           Undone
  <2>3. Chain'
    BY ChainFrame DEF Standing, InJournal
  <2> QED BY <2>1, <2>2, <2>3
<1> QED BY <1>1, <1>2, <1>3, <1>4, <1>5, <1>6, <1>7, <1>8 DEF Next

THEOREM SagaInvariant == Spec => []IInv
  BY InitInvariant, StepInvariant, PTL DEF Spec

\* The variables keep their types.
THEOREM SagaTypes == Spec => []TypeOK
<1>1. IInv => TypeOK
  BY DEF IInv
<1> QED BY <1>1, SagaInvariant, PTL

\* A Stop that was carried out leaves the files as its run found them, except
\* where somebody else was; and an undo that gave up, for whatever reason, names
\* the change set it could not take back and has left nothing newer than that one.
THEOREM StopTakesBack == Spec => []CancelUndoes
<1>1. IInv => CancelUndoes
  <2> SUFFICES ASSUME IInv
               PROVE  CancelUndoes
    OBVIOUS
  <2>1. ASSUME phase = "compensated", NEW f \in Files \ touched
        PROVE  content[f] = start[f]
    <3>1. Standing = {}
      BY <2>1 DEF IInv, Journal, Undone, Standing, Begun
    <3> QED BY <3>1 DEF IInv, Chain, Linked
  <2> QED BY <2>1 DEF IInv, GaveUp, CancelUndoes
<1> QED BY <1>1, SagaInvariant, PTL

\* Between two calls the journal tells the truth about every transaction.
THEOREM TheJournalIsTrue == Spec => []JournalIsTrue
<1>1. IInv => JournalIsTrue
  BY DEF IInv, Place, Journal, Row, Undone, BegunAndLeft, JournalIsTrue, AtRest
<1> QED BY <1>1, SagaInvariant, PTL

\* Applied work is taken back only by the undo of its own run.
THEOREM AppliedWorkIsKept == Spec => AppliedWorkStays
<1> DEFINE OwnUndo(t) == phase = "compensating" /\ t \in InJournal
           Stays == \A t \in Tx : state[t] = "applied" /\ state'[t] # "applied" => OwnUndo(t)
<1>1. ASSUME IInv, [Next]_vars
      PROVE  Stays
  <2> SUFFICES ASSUME NEW t \in Tx, state[t] = "applied", state'[t] # "applied"
               PROVE  OwnUndo(t)
    OBVIOUS
  <2>1. state' # state => call.pc \in {"prepare", "apply", "check", "restore"}
    BY <1>1 DEF Next, Change, RollBack, End, Undo, Settle, vars, onDisk, journal, Manifest,
                Begin, Refuse, Prepare, Replace, Commit, Record, Recorded, Abort, Fail, Abandon,
                AlreadyUndone, NothingApplied, RollbackRefused, BeginRollback, Restore,
                RestoreStops, RolledBack, Stop, Keep, Complete, Close, Cancel, UndoNext, Compensate,
                Compensated, Conflicted, NextRun, RecoverNext, Recover, Recovered, StopEarly,
                SaveNotice, Acknowledge, NewSaga, Crash, Edit
  <2>2. state'[t] = state[t] \/ t = call.at
    BY <1>1 DEF IInv, TypeOK, Next, Change, RollBack, End, Undo, Settle, vars, onDisk, journal,
       Manifest,
                Begin, Refuse, Prepare, Replace, Commit, Record, Recorded, Abort, Fail, Abandon,
                AlreadyUndone, NothingApplied, RollbackRefused, BeginRollback, Restore,
                RestoreStops, RolledBack, Stop, Keep, Complete, Close, Cancel, UndoNext, Compensate,
                Compensated, Conflicted, NextRun, RecoverNext, Recover, Recovered, StopEarly,
                SaveNotice, Acknowledge, NewSaga, Crash, Edit
  <2>3. call.pc = "check" /\ call.for \in Undoing /\ t = call.at
    BY <1>1, <2>1, <2>2 DEF IInv, InHand, HalfDone
  <2> QED BY <1>1, <2>3 DEF IInv, Place, Rolling
<1>2. IInv /\ [Next]_vars => [Stays]_vars
  BY <1>1
<1> QED BY <1>2, SagaInvariant, PTL DEF Spec, AppliedWorkStays
===============================================================================
