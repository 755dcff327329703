---------------------------- MODULE ProjectQueue ----------------------------
(***************************************************************************)
(* Which goal owns a project directory.                                    *)
(*                                                                         *)
(* GoalStore keeps every goal of every Nexus process in one SQLite         *)
(* database.  A goal whose project overlaps (same authority, same or       *)
(* nested path) an owner's project waits; when the owner is released, the  *)
(* same write transaction promotes the waiters that became eligible, in    *)
(* creation order.  Each action below is one committed transaction of      *)
(* src/our_harness/long_horizon.py, at the granularity of the queue: what  *)
(* happens inside a turn is GoalEngine's subject.                          *)
(***************************************************************************)
EXTENDS Naturals

CONSTANTS
    Goals,       \* identities of the goals that may ever be created
    Chats,       \* the goals that belong to a saved chat (conversation_id)
    Shared,      \* pairs of goals whose project authority or path overlaps
    ModesOf,     \* goal |-> the execution modes it may be admitted or saved with
    MaxCrashes,  \* bound on process crashes
    None         \* "no blocking goal"

ASSUME QueueAssumption ==
    /\ Chats \subseteq Goals
    /\ Shared \subseteq Goals \X Goals
    /\ \A g, h \in Goals : <<g, h>> \in Shared => <<h, g>> \in Shared
    /\ ModesOf \in [Goals -> SUBSET {"plain", "isolated", "facilitator"}]
    /\ MaxCrashes \in Nat
    /\ None \notin Goals

VARIABLES
    goals,       \* goal |-> its saved document, the fields the queue reads
    admissions,  \* goals created so far: their creation order
    phase,       \* "down", "opened" (GoalStore built), "recovering", "up"
    crashes

vars == <<goals, admissions, phase, crashes>>

TERMINAL_GOALS == {"complete", "cancelled", "failed"}
RELEASED_GOALS == {"complete", "cancelled"}
\* Mutant: a goal that waits for the user does not hold its project.
OwnersNotWaitingForUser == {"queued", "running", "paused", "failed", "cancelling"}

PROJECT_OWNER_GOALS ==
    {"queued", "running", "paused", "waiting_for_user", "failed", "cancelling"}
Statuses ==
    PROJECT_OWNER_GOALS \cup RELEASED_GOALS \cup {"waiting_for_project", "absent"}

\* "plain": works in the selected directory itself; "isolated": in its own
\* copy; "facilitator": coordinates each write with operation leases.
Modes == {"plain", "isolated", "facilitator"}
Claims == {"owner", "waiting", "released"}

\* What the tasks of a goal have done so far, seen from the queue: nothing;
\* a task is running and not yet dispatched; a provider or file effect is in
\* flight; every effect is settled; an effect needs reconciliation.
Effects == {"pristine", "claimed", "inflight", "settled", "unsettled"}
Leases == {"none", "live", "dead"}

Document == [status : Statuses, claim : Claims, mode : Modes, worker : Leases,
             effects : Effects, armed : BOOLEAN, blockedBy : Goals \cup {None},
             born : Nat]

Absent == [status |-> "absent", claim |-> "released", mode |-> "plain",
           worker |-> "none", effects |-> "pristine", armed |-> FALSE,
           blockedBy |-> None, born |-> 0]

-----------------------------------------------------------------------------
\* The predicates of the queue, on any candidate collection d of documents.

Owner(d, g) == d[g].status \in PROJECT_OWNER_GOALS /\ d[g].claim = "owner"
Waiter(d, g) == d[g].status = "waiting_for_project" /\ d[g].claim = "waiting"

ConcurrentCopy(d, g) == d[g].mode = "isolated" /\ g \in Chats

Overlap(d, g, h) ==
    /\ d[g].mode # "facilitator"
    /\ d[h].mode # "facilitator"
    /\ ~(ConcurrentCopy(d, g) /\ ConcurrentCopy(d, h))
    /\ <<g, h>> \in Shared

SharedOwners(d, g) == {o \in Goals \ {g} : Owner(d, o) /\ Overlap(d, g, o)}

Oldest(d, S) == CHOOSE o \in S : \A x \in S : d[o].born <= d[x].born

\* Mutant: the pass visits the waiters in no particular order.
UnorderedRivals(d, P, w) ==
    {o \in Goals \ {w} : (Owner(d, o) \/ o \in P) /\ Overlap(d, w, o)}

\* The owners a waiter competes with in a pass that promotes P: the pass
\* visits waiters in creation order, and each one it promotes is an owner for
\* those after it.
Rivals(d, P, w) ==
    {o \in Goals \ {w} : /\ Owner(d, o) \/ (o \in P /\ d[o].born < d[w].born)
                         /\ Overlap(d, w, o)}

Waiters(d) == {w \in Goals : Waiter(d, w)}

Eligible(d, P) == \A w \in Waiters(d) : w \in P <=> Rivals(d, P, w) = {}

\* Mutant: those who go on waiting keep the blocker they had.
PromotedOnly(d, P, auto) ==
    [w \in Goals |->
        IF w \in P
        THEN [d[w] EXCEPT !.status = "queued", !.claim = "owner",
                          !.armed = auto, !.blockedBy = None]
        ELSE d[w]]

Promoted(d, P, auto) ==
    [w \in Goals |->
        IF w \in P
        THEN [d[w] EXCEPT !.status = "queued", !.claim = "owner",
                          !.armed = auto, !.blockedBy = None]
        ELSE IF Waiter(d, w)
        THEN [d[w] EXCEPT !.blockedBy = Oldest(d, Rivals(d, P, w))]
        ELSE d[w]]

PromoteEligibleWaiters(d, auto) ==
    \E P \in SUBSET Waiters(d) : Eligible(d, P) /\ goals' = Promoted(d, P, auto)

\* Mutants: a finished goal keeps its claim; a release promotes nobody.
KeptClaim(r) == r

MutateWithoutPromotion(g, r) ==
    goals' = [goals EXCEPT
        ![g] = IF r.status \in RELEASED_GOALS
               THEN [r EXCEPT !.claim = "released", !.armed = FALSE] ELSE r]

\* The tail of every _mutate: a goal that finished gives its claim up, and a
\* goal that stopped owning lets the waiters in, in the same transaction.
Released(r) ==
    IF r.status \in RELEASED_GOALS
    THEN [r EXCEPT !.claim = "released", !.armed = FALSE, !.blockedBy = None]
    ELSE r

Mutate(g, r) ==
    LET d == [goals EXCEPT ![g] = Released(r)]
    IN  IF Owner(goals, g) /\ ~Owner(d, g)
        THEN PromoteEligibleWaiters(d, TRUE)
        ELSE goals' = d

-----------------------------------------------------------------------------
\* Admission.

\* LongHorizonRuntime.start admits copies and facilitator conversations; a
\* plain document was saved by an older build, as a board goal or a chat.
LegacyChats == {g \in Chats : "plain" \in ModesOf[g]}

Newcomer(d, g, m) ==
    LET fresh == [Absent EXCEPT !.status = "queued", !.claim = "owner",
                                !.mode = m, !.armed = TRUE, !.born = admissions + 1]
        blockers == SharedOwners([d EXCEPT ![g] = fresh], g)
    IN  IF blockers = {} THEN fresh
        ELSE [fresh EXCEPT !.status = "waiting_for_project", !.claim = "waiting",
                           !.armed = FALSE, !.blockedBy = Oldest(d, blockers)]

Create(g, m) ==
    /\ phase = "up"
    /\ goals[g].status = "absent"
    /\ \E P \in SUBSET Waiters(goals) :
          /\ Eligible(goals, P)
          /\ LET d == Promoted(goals, P, TRUE)
             IN  goals' = [d EXCEPT ![g] = Newcomer(d, g, m)]
    /\ admissions' = admissions + 1
    /\ UNCHANGED <<phase, crashes>>

\* A replayed request identity, and reconcile_project_queue: promote only.
ReconcileProjectQueue ==
    /\ phase = "up"
    /\ PromoteEligibleWaiters(goals, TRUE)
    /\ UNCHANGED <<admissions, phase, crashes>>

-----------------------------------------------------------------------------
\* The scheduler lease and the turns it covers.

\* Mutant: only a goal that is running already counts as competing.
CompetingRunning(g) ==
    \E o \in SharedOwners(goals, g) : goals[o].status = "running"

Competing(g) == SharedOwners(goals, g) # {}

\* start_background followed by claim_scheduler; the automatic form is the
\* watcher's, which needs the arm and an untouched goal.
StartBackground(g, automatic) ==
    /\ phase = "up"
    /\ goals[g].status = "queued"
    /\ Owner(goals, g)
    /\ ~Competing(g)
    /\ automatic => (goals[g].armed /\ goals[g].effects = "pristine")
    /\ goals[g].worker = "none"
    /\ goals' = [goals EXCEPT ![g].worker = "live"]
    /\ UNCHANGED <<admissions, phase, crashes>>

ClaimReady(g) ==
    /\ phase = "up"
    /\ goals[g].worker = "live"
    /\ goals[g].status \in {"queued", "running"}
    /\ goals[g].effects \in {"pristine", "settled"}
    /\ goals' = [goals EXCEPT ![g].status = "running", ![g].effects = "claimed"]
    /\ UNCHANGED <<admissions, phase, crashes>>

RecordDispatch(g) ==
    /\ phase = "up"
    /\ goals[g].worker = "live"
    /\ goals[g].effects = "claimed"
    /\ goals[g].status \in {"queued", "running"}
    /\ goals' = [goals EXCEPT ![g].effects = "inflight", ![g].armed = FALSE]
    /\ UNCHANGED <<admissions, phase, crashes>>

\* The end of a turn: applied, a question for the user, or a failure that
\* leaves the effect settled or not.  Pause, a question and a cancellation
\* are never overridden by it.
EndTurn(g, effect, next) ==
    /\ phase = "up"
    /\ goals[g].worker = "live"
    /\ goals[g].effects \in {"claimed", "inflight"}
    /\ effect = "unsettled" => (goals[g].effects = "inflight" /\ next = "paused")
    /\ goals' = [goals EXCEPT
          ![g].effects = effect,
          ![g].status = IF @ \in {"queued", "running"} THEN next ELSE @]
    /\ UNCHANGED <<admissions, phase, crashes>>

AnswerUser(g) ==
    /\ phase = "up"
    /\ goals[g].status = "waiting_for_user"
    /\ goals' = [goals EXCEPT ![g].status = "queued"]
    /\ UNCHANGED <<admissions, phase, crashes>>

CompleteVerification(g) ==
    /\ phase = "up"
    /\ goals[g].worker = "live"
    /\ goals[g].status \in {"queued", "running"}
    /\ goals[g].effects = "settled"
    /\ Mutate(g, [goals[g] EXCEPT !.status = "complete"])
    /\ UNCHANGED <<admissions, phase, crashes>>

-----------------------------------------------------------------------------
\* Cancellation: deferred while a scheduler lives, otherwise settled at once.

\* Mutant: cancelled although an effect could not be reconciled.
CancelledAnyway(r) ==
    {[r EXCEPT !.status = "cancelled", !.worker = "none"]}

\* settle_for_cancellation may fail only on a file effect it cannot reconcile.
SettledForCancellation(r) ==
    {[r EXCEPT !.status = "cancelled", !.worker = "none", !.effects = "settled"]}
    \cup (IF r.effects \in {"inflight", "unsettled"}
          THEN {[r EXCEPT !.status = "paused", !.effects = "unsettled"]}
          ELSE {})

Cancel(g) ==
    /\ phase = "up"
    /\ goals[g].status \notin RELEASED_GOALS \cup {"absent"}
    /\ IF goals[g].worker = "live"
       THEN goals' = [goals EXCEPT ![g].status = "cancelling"]
       ELSE \E r \in SettledForCancellation(goals[g]) : Mutate(g, r)
    /\ UNCHANGED <<admissions, phase, crashes>>

\* The finally block of LongHorizonRuntime.run, once every turn has ended.
StopRun(g) ==
    /\ phase = "up"
    /\ goals[g].worker = "live"
    /\ goals[g].effects \notin {"claimed", "inflight"}
    /\ IF goals[g].status = "cancelling"
       THEN \E r \in SettledForCancellation(goals[g]) :
               Mutate(g, [r EXCEPT !.worker = "none"])
       ELSE goals' = [goals EXCEPT ![g].worker = "none"]
    /\ UNCHANGED <<admissions, phase, crashes>>

-----------------------------------------------------------------------------
\* User controls that change the claim or who runs.

Pause(g) ==
    /\ phase = "up"
    /\ goals[g].status \in {"queued", "running", "paused", "waiting_for_user"}
    /\ goals' = [goals EXCEPT ![g].status = "paused", ![g].armed = FALSE]
    /\ UNCHANGED <<admissions, phase, crashes>>

\* A failed goal that gave its claim up must take it again or wait for it.
Resume(g) ==
    /\ phase = "up"
    /\ goals[g].status \in {"paused", "failed"}
    /\ goals[g].effects # "unsettled"
    /\ goals[g].claim = "owner" => ~Competing(g)
    /\ LET blockers == SharedOwners(goals, g)
           r == goals[g]
       IN  goals' = [goals EXCEPT ![g] =
              IF r.claim = "owner" THEN [r EXCEPT !.status = "queued"]
              ELSE IF blockers = {}
              THEN [r EXCEPT !.status = "queued", !.claim = "owner", !.armed = TRUE]
              ELSE [r EXCEPT !.status = "waiting_for_project", !.claim = "waiting",
                             !.armed = FALSE, !.blockedBy = Oldest(goals, blockers)]]
    /\ UNCHANGED <<admissions, phase, crashes>>

\* Resume with facilitator_mode: a goal's private copy is merged back and it
\* continues in the selected directory, coordinating write by write.
ResumeAsFacilitator(g) ==
    /\ phase = "up"
    /\ goals[g].status = "paused"
    /\ Owner(goals, g)
    /\ goals[g].mode = "isolated"
    /\ goals[g].worker # "live"
    /\ goals[g].effects \in {"pristine", "settled"}
    /\ SharedOwners(goals, g) = {}
    /\ goals' = [goals EXCEPT ![g].mode = "facilitator", ![g].status = "queued"]
    /\ UNCHANGED <<admissions, phase, crashes>>

\* Retry with reconciled = true.
RetryReconciled(g) ==
    /\ phase = "up"
    /\ goals[g].status \in {"queued", "running", "paused", "failed"}
    /\ Owner(goals, g)
    /\ ~Competing(g)
    /\ goals[g].effects = "unsettled"
    /\ goals' = [goals EXCEPT ![g].status = "queued", ![g].effects = "settled"]
    /\ UNCHANGED <<admissions, phase, crashes>>

\* record_automatic_start_failure: an untouched goal whose saved setup is
\* obsolete gives the project up; anything with effects keeps it and pauses.
\* (A transient failure of an untouched goal changes nothing but its note.)
AutomaticStartFailure(g) ==
    /\ phase = "up"
    /\ Owner(goals, g)
    /\ goals[g].armed
    /\ goals[g].worker = "none"
    /\ Mutate(g, IF goals[g].effects = "pristine"
                 THEN [goals[g] EXCEPT !.status = "failed", !.claim = "released",
                                       !.armed = FALSE]
                 ELSE [goals[g] EXCEPT !.status = "paused", !.armed = FALSE])
    /\ UNCHANGED <<admissions, phase, crashes>>

-----------------------------------------------------------------------------
\* Crash and restart.

Crash ==
    /\ phase # "down"
    /\ crashes < MaxCrashes
    /\ crashes' = crashes + 1
    /\ phase' = "down"
    /\ UNCHANGED admissions
    /\ goals' = [g \in Goals |-> [goals[g] EXCEPT
                    !.worker = IF @ = "live" THEN "dead" ELSE @]]

OwnersConflict(d) ==
    \E g, h \in Goals : g # h /\ Owner(d, g) /\ Owner(d, h) /\ Overlap(d, g, h)

\* GoalStore(): refuses to open on conflicting owners, otherwise reconciles.
OpenStore ==
    /\ phase = "down"
    /\ ~OwnersConflict(goals)
    /\ PromoteEligibleWaiters(goals, FALSE)
    /\ phase' = "opened"
    /\ UNCHANGED <<admissions, crashes>>

\* recover_dead: a lease whose process died while a task was running.
DeadNormalised(r, uncertain) ==
    IF r.worker = "dead" /\ r.effects \in {"claimed", "inflight"}
    THEN [r EXCEPT !.worker = "none",
                   !.effects = IF @ = "inflight" /\ uncertain
                               THEN "unsettled" ELSE "settled",
                   !.status = IF @ = "cancelling" THEN @ ELSE "paused"]
    ELSE r

\* adopt_isolated_workspace: a settled saved chat moves to its own copy, and a
\* waiting one becomes an owner; only live schedulers of others hold it back.
Adoptable(d, g) ==
    /\ d[g].mode = "plain"
    /\ g \in Chats
    /\ Owner(d, g) \/ Waiter(d, g)
    /\ d[g].status \notin TERMINAL_GOALS \cup {"cancelling"}
    /\ d[g].worker # "live"
    /\ d[g].effects \in {"pristine", "settled"}
    /\ \A o \in SharedOwners(d, g) : d[o].mode = "isolated" \/ d[o].worker # "live"

Adopted(r) ==
    IF r.status = "waiting_for_project"
    THEN [r EXCEPT !.mode = "isolated", !.status = "queued", !.claim = "owner",
                   !.armed = (r.effects = "pristine"), !.blockedBy = None]
    ELSE [r EXCEPT !.mode = "isolated"]

\* record_workspace_migration_failure
MigrationFailed(r) ==
    [r EXCEPT !.armed = FALSE,
              !.status = IF @ \in {"waiting_for_project", "waiting_for_user"}
                         THEN @ ELSE "paused"]

\* recover_orphaned_queue
OrphanNormalised(r) ==
    IF r.status # "queued" \/ r.worker = "live" THEN r
    ELSE IF r.armed /\ r.effects = "pristine" THEN [r EXCEPT !.worker = "none"]
    ELSE [r EXCEPT !.worker = "none", !.status = "paused"]

\* recover_all: normalise dead leases, adopt saved chats (each adoption may
\* fail on its own), promote, and make interrupted queues resumable.
RecoverAll ==
    /\ phase = "opened"
    /\ \E uncertain \in SUBSET {g \in Goals : goals[g].effects = "inflight"},
          failed \in SUBSET LegacyChats :
          LET d1 == [g \in Goals |-> DeadNormalised(goals[g], g \in uncertain)]
              d2 == [g \in Goals |-> IF ~Adoptable(d1, g) THEN d1[g]
                                     ELSE IF g \in failed
                                     THEN MigrationFailed(d1[g])
                                     ELSE Adopted(d1[g])]
          IN  \E P \in SUBSET Waiters(d2) :
                 /\ Eligible(d2, P)
                 /\ goals' = [g \in Goals |-> OrphanNormalised(Promoted(d2, P, TRUE)[g])]
    /\ phase' = "recovering"
    /\ UNCHANGED <<admissions, crashes>>

\* recover_all, continued: a cancellation whose scheduler is gone is settled.
Undrained(g) == goals[g].status = "cancelling" /\ goals[g].worker # "live"

RecoverCancelled(g) ==
    /\ phase = "recovering"
    /\ Undrained(g)
    /\ \E r \in SettledForCancellation(goals[g]) : Mutate(g, r)
    /\ UNCHANGED <<admissions, phase, crashes>>

RecoveryDone ==
    /\ phase = "recovering"
    /\ \A g \in Goals : ~Undrained(g)
    /\ phase' = "up"
    /\ UNCHANGED <<goals, admissions, crashes>>

-----------------------------------------------------------------------------
Init ==
    /\ goals = [g \in Goals |-> Absent]
    /\ admissions = 0
    /\ phase = "up"
    /\ crashes = 0

GoalNext(g) ==
    \/ \E m \in ModesOf[g] : Create(g, m)
    \/ \E automatic \in BOOLEAN : StartBackground(g, automatic)
    \/ ClaimReady(g)
    \/ RecordDispatch(g)
    \/ \E effect \in {"settled", "unsettled"},
          next \in {"queued", "paused", "waiting_for_user"} : EndTurn(g, effect, next)
    \/ AnswerUser(g)
    \/ CompleteVerification(g)
    \/ Cancel(g)
    \/ StopRun(g)
    \/ Pause(g)
    \/ Resume(g)
    \/ ResumeAsFacilitator(g)
    \/ RetryReconciled(g)
    \/ AutomaticStartFailure(g)
    \/ RecoverCancelled(g)

Next ==
    \/ \E g \in Goals : GoalNext(g)
    \/ ReconcileProjectQueue
    \/ Crash
    \/ OpenStore
    \/ RecoverAll
    \/ RecoveryDone

Spec == Init /\ [][Next]_vars

-----------------------------------------------------------------------------
\* Every document has its fields, and its status agrees with its claim the way
\* _validate_execution_metadata demands when the store is next opened.
StatusMatchesClaim(r) ==
    /\ r.status = "waiting_for_project" <=> r.claim = "waiting"
    /\ r.status \in RELEASED_GOALS \cup {"absent"} => r.claim = "released"
    /\ r.status \in PROJECT_OWNER_GOALS \ {"failed"} => r.claim = "owner"

TypeOK ==
    /\ goals \in [Goals -> Document]
    /\ \A g \in Goals : StatusMatchesClaim(goals[g])
    /\ phase \in {"down", "opened", "recovering", "up"}
    /\ admissions \in Nat
    /\ crashes \in Nat

\* At most one goal owns a project: two goals whose projects overlap are never
\* both owners, which is what lets GoalStore open at all.
OwnerExclusion == ~OwnersConflict(goals)

\* Two unfinished goals on overlapping projects never both have a live
\* scheduler, even when a move to private copies made two claims disagree.
Running(g) == goals[g].worker = "live" /\ goals[g].status \notin RELEASED_GOALS

RunnersExclusive ==
    \A g, h \in Goals : g # h /\ Overlap(goals, g, h) => ~(Running(g) /\ Running(h))

\* A goal whose provider or file effect is unresolved holds its project: no
\* other goal is let in to build on a half-applied change.
UnsettledKeepsOwnership ==
    \A g \in Goals : goals[g].effects \in {"claimed", "inflight", "unsettled"}
        => Owner(goals, g)

\* The goal a waiter is told it waits for owns an overlapping project now, or did
\* so until it resumed as a facilitator; either way its end promotes the waiter.
BlockerIsOwner ==
    \A w \in Goals : Waiter(goals, w) =>
        LET b == goals[w].blockedBy
        IN  /\ b \in Goals /\ Owner(goals, b)
            /\ Overlap(goals, w, b) \/ goals[b].mode = "facilitator"

\* The step that gives a project up lets every waiter in that nobody blocks.
ReleasePromotes ==
    [][(\E g \in Goals : Owner(goals, g) /\ ~Owner(goals', g))
        => \A w \in Goals : Waiter(goals', w) => SharedOwners(goals', w) # {}]_vars

\* Two goals on one project are let in in creation order: a goal that is new,
\* or that waits, never becomes the owner past an older goal still waiting.
SameScope(d, g, w) ==
    /\ Overlap(d, g, w)
    /\ \A x \in Goals \ {g, w} : Overlap(d, x, g) <=> Overlap(d, x, w)

NoOvertaking ==
    [][\A g, w \in Goals :
          /\ goals[g].status \in {"absent", "waiting_for_project"}
          /\ Owner(goals', g)
          /\ Waiter(goals, w) /\ Waiter(goals', w)
          /\ SameScope(goals', g, w)
          => goals'[g].born < goals'[w].born]_vars
=============================================================================
