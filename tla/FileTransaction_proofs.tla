------------------------- MODULE FileTransaction_proofs -------------------------
(***************************************************************************)
(* Proofs about FileTransaction, for every set of files and every number   *)
(* of edits and crashes.  The inductive invariant says what each call has  *)
(* established so far: which state of the manifest it runs under, and      *)
(* which of the files nobody else touched are known to be as before.       *)
(***************************************************************************)
EXTENDS FileTransaction, TLAPS

Own == Files \ foreign

\* A call runs under the manifest state it wrote, or may start from.
UnderManifest ==
    /\ op.pc \in {"lease", "replace", "verify", "unwind"} => manifest = "prepared"
    /\ op.pc = "check" => manifest \in {"prepared", "applied", "rolling_back"}
    /\ op.pc = "restore" => manifest = "rolling_back"

\* No file is replaced before all of them are leased, and only leased new
\* files are unwound.
Leases ==
    /\ op.pc = "lease" => op.todo \cup op.leased = Files /\ ~op.attempted
    /\ op.pc = "replace" => op.leased = Files /\ (op.attempted \/ (op.todo = Files /\ op.hand = None))
    /\ op.pc = "verify" => op.attempted
    /\ op.pc = "unwind" => op.todo \subseteq op.leased \cap Created
    /\ op.hand # None => op.pc \in {"lease", "replace", "restore"}
    /\ op.pc = "lease" /\ op.hand # None => op.hand \in Created

\* What is known to be as before, or empty because this call created it.
Unwanted == op.todo \cup stuck
KnownBefore ==
    /\ op.pc = "lease" =>
          \A f \in Own : \/ content[f] = "before"
                         \/ content[f] = "empty" /\ f \in {op.hand} \cup (op.leased \cap Created)
    /\ op.pc = "unwind" /\ ~op.attempted =>
          \A f \in Own : content[f] = "before" \/ (content[f] = "empty" /\ f \in Unwanted)
    /\ op.pc = "restore" => \A f \in Own : f \in op.todo \/ content[f] = "before"

IInv == TypeOK /\ UnderManifest /\ Leases /\ KnownBefore

\* The initial state has the invariant.
LEMMA InitInvariant == Init => IInv
  BY TransactionAssumption
  DEF Init, IInv, TypeOK, UnderManifest, Leases, KnownBefore, Own, Idle, Contents

\* Every step keeps it.
LEMMA StepInvariant == IInv /\ [Next]_vars => IInv'
<1> SUFFICES ASSUME IInv, [Next]_vars PROVE IInv'
  OBVIOUS
<1> USE TransactionAssumption
    DEF IInv, TypeOK, UnderManifest, Leases, KnownBefore, Unwanted, Own, Idle, At, Contents,
        Holds, Reusable, Unwinding, AsExpected
<1>1. CASE Prepare BY <1>1 DEF Prepare
<1>2. CASE Apply BY <1>2 DEF Apply
<1>3. CASE AllLeased BY <1>3 DEF AllLeased
<1>4. CASE AllReplaced BY <1>4 DEF AllReplaced
<1>5. CASE Commit BY <1>5 DEF Commit
<1>6. CASE ApplyFails BY <1>6 DEF ApplyFails
<1>7. CASE Abort BY <1>7 DEF Abort, Unwound
<1>8. CASE AutomaticRollback BY <1>8 DEF AutomaticRollback, Unwound
<1>9. CASE Rollback BY <1>9 DEF Rollback
<1>10. CASE RollbackRefused BY <1>10 DEF RollbackRefused
<1>11. CASE NothingApplied BY <1>11 DEF NothingApplied
<1>12. CASE BeginRollback BY <1>12 DEF BeginRollback
<1>13. CASE RollbackFails BY <1>13 DEF RollbackFails
<1>14. CASE RollbackDone BY <1>14 DEF RollbackDone
<1>15. CASE Finalize BY <1>15 DEF Finalize
<1>16. ASSUME NEW f \in Files, Lease(f) PROVE IInv'
  <2>1. TypeOK' BY <1>16 DEF Lease
  <2>2. UnderManifest' /\ Leases' BY <1>16 DEF Lease
  <2>3. KnownBefore' BY <1>16 DEF Lease
  <2> QED BY <2>1, <2>2, <2>3
<1>17. ASSUME NEW f \in Files, BeginReplace(f) PROVE IInv' BY <1>17 DEF BeginReplace
<1>18. ASSUME NEW f \in Files, EndReplace(f) PROVE IInv' BY <1>18 DEF EndReplace
<1>19. ASSUME NEW f \in Files, Unwind(f) PROVE IInv' BY <1>19 DEF Unwind
<1>20. ASSUME NEW f \in Files, BeginRestore(f) PROVE IInv'
  BY <1>20 DEF BeginRestore, Restored, Restorable
<1>21. ASSUME NEW f \in Files, EndRestore(f) PROVE IInv' BY <1>21 DEF EndRestore
<1>22. ASSUME NEW f \in Files, Edit(f) PROVE IInv' BY <1>22 DEF Edit
<1>23. CASE Crash BY <1>23 DEF Crash
<1>24. ASSUME NEW f \in Files, Create(f) PROVE IInv' BY <1>24 DEF Create
<1>25. ASSUME NEW f \in Files, CreateConflict(f) PROVE IInv' BY <1>25 DEF CreateConflict
<1>26. ASSUME NEW f \in Files, CreateStrands(f) PROVE IInv' BY <1>26 DEF CreateStrands
<1>27. ASSUME NEW f \in Files, UnwindFails(f) PROVE IInv' BY <1>27 DEF UnwindFails
<1>28. CASE ClosingFails BY <1>28 DEF ClosingFails, Unwound
<1>29. CASE UNCHANGED vars BY <1>29 DEF vars
<1> QED
  BY <1>1, <1>2, <1>3, <1>4, <1>5, <1>6, <1>7, <1>8, <1>9, <1>10, <1>11, <1>12, <1>13,
     <1>14, <1>15, <1>16, <1>17, <1>18, <1>19, <1>20, <1>21, <1>22, <1>23, <1>24, <1>25,
     <1>26, <1>27, <1>28, <1>29
  DEF Next, Call

\* Every reachable state has the invariant.
THEOREM TransactionInvariant == Spec => []IInv
  BY InitInvariant, StepInvariant, PTL DEF Spec

\* Every variable keeps its type, and a file in hand is one still to do.
THEOREM TransactionTypes == Spec => []TypeOK
<1>1. IInv => TypeOK
  BY DEF IInv
<1> QED
  BY <1>1, TransactionInvariant, PTL

\* A transaction that was given up is never applied again.
THEOREM GivenUpForGood == Spec => NeverReapplied
<1>1. IInv /\ [Next]_vars => [GivenUp => GivenUp' /\ ~\E f \in Files : Replaced(f)]_vars
  <2> SUFFICES ASSUME IInv, Next, GivenUp
               PROVE GivenUp' /\ \A f \in Files : content'[f] = "after" => content[f] = "after"
    BY DEF Replaced
  <2> USE DEF IInv, TypeOK, UnderManifest, Leases, GivenUp, Idle, At, Contents, Reusable,
          Unwinding
  <2>1. CASE Call
    <3>1. GivenUp'
      BY <2>1 DEF Call, Prepare, Apply, AllLeased, AllReplaced, Commit, ApplyFails, Abort,
        AutomaticRollback, ClosingFails, Rollback, RollbackRefused, NothingApplied, BeginRollback,
        RollbackFails, RollbackDone, Finalize, Create, Lease, BeginReplace, EndReplace,
        CreateConflict, CreateStrands, Unwind, UnwindFails, BeginRestore, EndRestore, Unwound
    <3>2. ~\E f \in Files : EndReplace(f)
      BY DEF EndReplace
    <3>3. \/ UNCHANGED content
          \/ \E f \in Files, what \in {"before", "empty", "torn"} :
                content' = [content EXCEPT ![f] = what]
      BY <2>1, <3>2 DEF Call, Prepare, Apply, AllLeased, AllReplaced, Commit, ApplyFails, Abort,
        AutomaticRollback, ClosingFails, Rollback, RollbackRefused, NothingApplied, BeginRollback,
        RollbackFails, RollbackDone, Finalize, Create, Lease, BeginReplace, CreateConflict,
        CreateStrands, Unwind, UnwindFails, BeginRestore, EndRestore
    <3> QED
      BY <3>1, <3>3
  <2>2. ASSUME NEW f \in Files, Edit(f)
        PROVE GivenUp' /\ \A g \in Files : content'[g] = "after" => content[g] = "after"
    BY <2>2 DEF Edit
  <2>3. CASE Crash
    BY <2>3 DEF Crash
  <2> QED
    BY <2>1, <2>2, <2>3 DEF Next
<1> QED
  BY <1>1, TransactionInvariant, PTL DEF Spec, NeverReapplied

\* Somebody's edit is only overwritten by a call that checked the file before.
THEOREM EditsSurvive == Spec => EditsKept
<1> DEFINE Kept(f) ==
      /\ Overwritten(f) => CheckedBefore(f)
      /\ CheckedBefore(f)' /\ ~CheckedBefore(f) => content[f] # "edit"
<1>1. IInv /\ [Next]_vars => [\A f \in Files : Kept(f)]_vars
  <2> SUFFICES ASSUME IInv, Next, NEW f \in Files PROVE Kept(f)
    OBVIOUS
  <2> USE TransactionAssumption
      DEF IInv, TypeOK, UnderManifest, Leases, Overwritten, CheckedBefore, Idle, At, Contents,
          Holds, Unwinding, AsExpected
  <2>1. CASE \/ Prepare \/ Apply \/ AllLeased \/ AllReplaced \/ Commit \/ ApplyFails \/ Abort
             \/ AutomaticRollback \/ Rollback \/ RollbackRefused \/ NothingApplied
             \/ BeginRollback \/ RollbackFails \/ RollbackDone \/ Finalize \/ Crash
             \/ ClosingFails
    <3>1. UNCHANGED content
      BY <2>1 DEF Prepare, Apply, AllLeased, AllReplaced, Commit, ApplyFails, Abort,
        AutomaticRollback, Rollback, RollbackRefused, NothingApplied, BeginRollback,
        RollbackFails, RollbackDone, Finalize, Crash, ClosingFails
    <3>2. op'.leased \subseteq op.leased /\ op'.hand \in {None, op.hand}
      <4>1. CASE Prepare \/ Apply \/ AllLeased \/ AllReplaced \/ ApplyFails
        BY <4>1 DEF Prepare, Apply, AllLeased, AllReplaced, ApplyFails
      <4>2. CASE Commit \/ Abort \/ AutomaticRollback \/ Rollback \/ RollbackRefused
        BY <4>2 DEF Commit, Abort, AutomaticRollback, Rollback, RollbackRefused
      <4>3. CASE NothingApplied \/ RollbackFails \/ RollbackDone \/ Finalize
        BY <4>3 DEF NothingApplied, RollbackFails, RollbackDone, Finalize
      <4>4. CASE BeginRollback
        <5>1. op' = [pc |-> "restore", todo |-> Files, leased |-> {}, hand |-> None,
                     attempted |-> FALSE]
          BY <4>4 DEF BeginRollback
        <5> QED BY <5>1
      <4>5. CASE Crash \/ ClosingFails
        BY <4>5 DEF Crash, ClosingFails
      <4> QED BY <2>1, <4>1, <4>2, <4>3, <4>4, <4>5
    <3> QED BY <3>1, <3>2
  <2>2. ASSUME NEW g \in Files, Lease(g) PROVE Kept(f) BY <2>2 DEF Lease
  <2>3. ASSUME NEW g \in Files, BeginReplace(g) PROVE Kept(f) BY <2>3 DEF BeginReplace
  <2>4. ASSUME NEW g \in Files, EndReplace(g) PROVE Kept(f) BY <2>4 DEF EndReplace
  <2>5. ASSUME NEW g \in Files, Unwind(g) PROVE Kept(f) BY <2>5 DEF Unwind
  <2>6. ASSUME NEW g \in Files, BeginRestore(g) PROVE Kept(f)
    BY <2>6 DEF BeginRestore, Restored, Restorable
  <2>7. ASSUME NEW g \in Files, EndRestore(g) PROVE Kept(f) BY <2>7 DEF EndRestore
  <2>8. ASSUME NEW g \in Files, Edit(g) PROVE Kept(f) BY <2>8 DEF Edit
  <2>9. ASSUME NEW g \in Files, Create(g) PROVE Kept(f) BY <2>9 DEF Create
  <2>10. ASSUME NEW g \in Files, CreateConflict(g) PROVE Kept(f) BY <2>10 DEF CreateConflict
  <2>11. ASSUME NEW g \in Files, CreateStrands(g) PROVE Kept(f) BY <2>11 DEF CreateStrands
  <2>12. ASSUME NEW g \in Files, UnwindFails(g) PROVE Kept(f) BY <2>12 DEF UnwindFails
  <2> QED
    BY <2>1, <2>2, <2>3, <2>4, <2>5, <2>6, <2>7, <2>8, <2>9, <2>10, <2>11, <2>12
    DEF Next, Call
<1> QED
  BY <1>1, TransactionInvariant, PTL DEF Spec, EditsKept

\* The manifest speaks of the whole change (AtomicChange).
THEOREM AllOrNothingHolds == Spec => AllOrNothing
<1>1. Init => Promise!Init
  BY DEF Init, Promise!Init, Phase
<1>2. IInv /\ [Next]_vars => [Promise!Next]_<<content, Phase, stuck, foreign>>
  <2> SUFFICES ASSUME IInv, [Next]_vars
               PROVE Promise!Next \/ UNCHANGED <<content, Phase, stuck, foreign>>
    OBVIOUS
  <2> USE TransactionAssumption
      DEF IInv, TypeOK, UnderManifest, KnownBefore, Unwanted, Own, Holds, Reusable, Phase
  <2>1. CASE Commit \/ Finalize
    <3>1. Promise!Commit
      BY <2>1 DEF Commit, Finalize, Promise!Commit, Promise!Own
    <3> QED
      BY <3>1 DEF Promise!Next
  <2>2. CASE Abort \/ NothingApplied \/ RollbackDone
    <3>1. Promise!Revert
      BY <2>2 DEF Abort, Unwound, NothingApplied, RollbackDone, Promise!Revert, Promise!Own
    <3> QED
      BY <3>1 DEF Promise!Next
  <2>3. CASE BeginRollback
    <3>1. Promise!Reopen \/ UNCHANGED <<content, Phase, stuck, foreign>>
      BY <2>3 DEF BeginRollback, Promise!Reopen
    <3> QED
      BY <3>1 DEF Promise!Next
  <2>4. CASE \/ Prepare \/ Apply \/ AllLeased \/ AllReplaced \/ ApplyFails \/ AutomaticRollback
             \/ Rollback \/ RollbackRefused \/ RollbackFails \/ Crash \/ UNCHANGED vars
             \/ ClosingFails
             \/ \E f \in Files : BeginRestore(f)
    <3>1. UNCHANGED <<content, stuck, foreign>>
      BY <2>4 DEF Prepare, Apply, AllLeased, AllReplaced, ApplyFails, AutomaticRollback,
        Rollback, RollbackRefused, RollbackFails, Crash, ClosingFails, vars, BeginRestore
    <3>2. \/ manifest' = manifest
          \/ manifest \in {"none", "prepared"} /\ manifest' \in {"prepared", "rolling_back"}
      BY <2>4 DEF Prepare, Apply, AllLeased, AllReplaced, ApplyFails, AutomaticRollback,
        Rollback, RollbackRefused, RollbackFails, Crash, ClosingFails, vars, BeginRestore,
        Unwound
    <3> QED
      BY <3>1, <3>2
  <2>5. CASE \E f \in Files : \/ Create(f) \/ Lease(f) \/ BeginReplace(f) \/ EndReplace(f)
                              \/ CreateConflict(f) \/ CreateStrands(f) \/ Unwind(f)
                              \/ UnwindFails(f) \/ EndRestore(f)
    <3>1. PICK f \in Files : \/ Create(f) \/ Lease(f) \/ BeginReplace(f) \/ EndReplace(f)
                             \/ CreateConflict(f) \/ CreateStrands(f) \/ Unwind(f)
                             \/ UnwindFails(f) \/ EndRestore(f)
      BY <2>5
    <3>2. Phase = "open" /\ UNCHANGED <<manifest, foreign>>
      BY <3>1 DEF Create, Lease, BeginReplace, EndReplace, CreateConflict, CreateStrands,
        Unwind, UnwindFails, EndRestore
    <3>3. content' \in [Files -> Contents]
      BY <3>1 DEF Create, Lease, BeginReplace, EndReplace, CreateConflict, CreateStrands,
        Unwind, UnwindFails, EndRestore, Contents
    <3>4. stuck \subseteq stuck' /\ stuck' \subseteq Created
      BY <3>1 DEF Create, Lease, BeginReplace, EndReplace, CreateConflict, CreateStrands,
        Unwind, UnwindFails, EndRestore, Leases
    <3>5. Promise!Work
      BY <3>2, <3>3, <3>4 DEF Promise!Work
    <3> QED
      BY <3>5 DEF Promise!Next
  <2>6. CASE \E f \in Files : Edit(f)
    <3>1. \E f \in Files : Promise!Interfere(f)
      BY <2>6 DEF Edit, Promise!Interfere, Contents
    <3> QED
      BY <3>1 DEF Promise!Next
  <2> QED
    BY <2>1, <2>2, <2>3, <2>4, <2>5, <2>6 DEF Next, Call
<1> QED
  BY <1>1, <1>2, TransactionInvariant, PTL DEF Spec, AllOrNothing, Promise!Spec
=================================================================================
