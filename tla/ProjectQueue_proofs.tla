------------------------ MODULE ProjectQueue_proofs ------------------------
(***************************************************************************)
(* For any set of goals, any overlap of their projects and any number of   *)
(* crashes: the documents stay well formed, an unresolved effect keeps its *)
(* project, a waiter always names a current owner, a release leaves no     *)
(* eligible waiter behind, and two overlapping goals never both run.  When *)
(* no saved chat works in the project directory itself, they never both    *)
(* own it either, and its queue is first come, first served.               *)
(***************************************************************************)
EXTENDS ProjectQueue, FiniteSetTheorems, WellFoundedInduction, TLAPS

\* The parts of the inductive invariant, on a collection d of documents of
\* which n goals have been admitted.
WellFormed(d) ==
    /\ d \in [Goals -> Document]
    /\ \A g \in Goals : StatusMatchesClaim(d[g])

BirthOrder(d, n) ==
    /\ \A g \in Goals : d[g].status # "absent" => d[g].born <= n
    /\ \A g, h \in Goals :
          d[g].status # "absent" /\ d[h].status # "absent" /\ g # h
              => d[g].born # d[h].born

WorkOwned(d) ==
    \A g \in Goals :
       /\ d[g].effects \in {"claimed", "inflight", "unsettled"} => Owner(d, g)
       /\ d[g].worker = "live" => Owner(d, g) \/ d[g].status \in RELEASED_GOALS

CopiesOnly(d) == \A g \in Chats : d[g].status # "absent" => d[g].mode # "plain"

Exclusive(d) == LegacyChats = {} => CopiesOnly(d) /\ ~OwnersConflict(d)

Blocks(d, b, w) ==
    b \in Goals /\ Owner(d, b) /\ (Overlap(d, w, b) \/ d[b].mode = "facilitator")
BlockersOwn(d) == \A w \in Goals : Waiter(d, w) => Blocks(d, d[w].blockedBy, w)

AllBlocked(d) == \A w \in Goals : Waiter(d, w) => SharedOwners(d, w) # {}

\* A step from d to e in which a project is given up lets the eligible waiters in.
Handover(d, e) == (\E g \in Goals : Owner(d, g) /\ ~Owner(e, g)) => AllBlocked(e)

Core(d, n) == WellFormed(d) /\ BirthOrder(d, n) /\ WorkOwned(d) /\ Exclusive(d)

IInv ==
    /\ Core(goals, admissions)
    /\ BlockersOwn(goals)
    /\ admissions \in Nat
    /\ phase \in {"down", "opened", "recovering", "up"}
    /\ crashes \in Nat

-----------------------------------------------------------------------------
\* A nonempty set of naturals has a least element: the initial segments below
\* its members are well founded under strict inclusion.
LEMMA LeastNatural ==
    ASSUME NEW S \in SUBSET Nat, S # {}
    PROVE  \E m \in S : \A x \in S : m <= x
<1> DEFINE Below(n) == 0 .. n
           T == {Below(n) : n \in S}
<1>1. T \subseteq FiniteSubsetsOf(Nat)
  <2> SUFFICES ASSUME NEW n \in S PROVE Below(n) \in FiniteSubsetsOf(Nat)
    OBVIOUS
  <2>1. IsFiniteSet(Below(n))
    BY FS_Interval
  <2> QED BY <2>1 DEF FiniteSubsetsOf
<1>2. \E a \in T : \A b \in T : ~(<<b, a>> \in StrictSubsetOrdering(Nat))
  <2>1. T # {} OBVIOUS
  <2> QED BY <1>1, <2>1, FS_StrictSubsetOrderingWellFounded, WFMin
<1>3. PICK m \in S : \A b \in T : ~(<<b, Below(m)>> \in StrictSubsetOrdering(Nat))
  BY <1>2
<1>4. ASSUME NEW x \in S, ~(m <= x) PROVE FALSE
  <2>1. /\ Below(x) \subseteq Below(m)
        /\ m \in Below(m)
        /\ m \notin Below(x)
    BY <1>4
  <2>2. Below(x) \in T /\ Below(x) \in SUBSET Nat /\ Below(m) \in SUBSET Nat
    OBVIOUS
  <2>3. <<Below(x), Below(m)>> \in StrictSubsetOrdering(Nat)
    BY <2>1, <2>2 DEF StrictSubsetOrdering
  <2> QED BY <1>3, <2>2, <2>3
<1> QED BY <1>4

\* Oldest picks a member of any nonempty set of goals.
LEMMA OldestMember ==
    ASSUME NEW d \in [Goals -> Document], NEW S \in SUBSET Goals, S # {}
    PROVE  Oldest(d, S) \in S
<1> DEFINE Births == {d[o].born : o \in S}
<1>1. Births \in SUBSET Nat /\ Births # {}
  BY DEF Document
<1>2. PICK b \in Births : \A x \in Births : b <= x
  BY <1>1, LeastNatural
<1>3. PICK o \in S : b = d[o].born
  BY <1>2
<1>4. \A x \in S : d[o].born <= d[x].born
  BY <1>2, <1>3
<1> QED BY <1>3, <1>4 DEF Oldest

-----------------------------------------------------------------------------
\* One promotion pass.

LEMMA RivalsAreGoals == ASSUME NEW d, NEW P, NEW w PROVE Rivals(d, P, w) \subseteq Goals
  BY DEF Rivals

LEMMA PromotedTyped ==
    ASSUME NEW d, NEW n, Core(d, n), NEW P \in SUBSET Waiters(d), Eligible(d, P),
           NEW auto \in BOOLEAN
    PROVE  /\ WellFormed(Promoted(d, P, auto))
           /\ \A w \in Waiters(d) \ P :
                 /\ Oldest(d, Rivals(d, P, w)) \in Rivals(d, P, w)
                 /\ Promoted(d, P, auto)[w] =
                      [d[w] EXCEPT !.blockedBy = Oldest(d, Rivals(d, P, w))]
           /\ \A g \in Goals \ Waiters(d) : Promoted(d, P, auto)[g] = d[g]
           /\ \A g \in Goals : /\ Promoted(d, P, auto)[g].mode = d[g].mode
                               /\ Promoted(d, P, auto)[g].born = d[g].born
                               /\ Promoted(d, P, auto)[g].effects = d[g].effects
                               /\ Promoted(d, P, auto)[g].worker = d[g].worker
           /\ \A g \in P : /\ Promoted(d, P, auto)[g].status = "queued"
                           /\ Promoted(d, P, auto)[g].claim = "owner"
<1> DEFINE e == Promoted(d, P, auto)
<1>1. d \in [Goals -> Document] BY DEF Core, WellFormed
<1>2. \A w \in Waiters(d) \ P :
         Oldest(d, Rivals(d, P, w)) \in Rivals(d, P, w)
  <2> TAKE w \in Waiters(d) \ P
  <2>1. Rivals(d, P, w) # {} BY DEF Eligible
  <2> QED BY <1>1, <2>1, RivalsAreGoals, OldestMember
<1>3. \A g \in Goals : d[g] \in Document BY <1>1
<1>4. \A w \in Waiters(d) \ P :
         e[w] = [d[w] EXCEPT !.blockedBy = Oldest(d, Rivals(d, P, w))]
  BY DEF Promoted, Waiters
<1>5. \A g \in Goals \ Waiters(d) : e[g] = d[g]
  BY DEF Promoted, Waiters
<1>6. \A g \in P : e[g] = [d[g] EXCEPT !.status = "queued", !.claim = "owner",
                                       !.armed = auto, !.blockedBy = None]
  BY DEF Promoted, Waiters
<1>7. \A g \in Goals : e[g] \in Document /\ StatusMatchesClaim(e[g])
  <2> TAKE g \in Goals
  <2>1. CASE g \in P
    <3>1. g \in Goals /\ d[g] \in Document BY <1>3
    <3>2. "queued" \in Statuses /\ "owner" \in Claims
      BY DEF Statuses, Claims, PROJECT_OWNER_GOALS
    <3>3. e[g] \in Document BY <1>6, <2>1, <3>1, <3>2 DEF Document
    <3>4. e[g].status = "queued" /\ e[g].claim = "owner"
      BY <1>6, <2>1, <3>1 DEF Document
    <3> QED BY <3>3, <3>4 DEF StatusMatchesClaim, RELEASED_GOALS
  <2>2. CASE g \in Waiters(d) \ P
    <3>1. Oldest(d, Rivals(d, P, g)) \in Goals BY <1>2, <2>2, RivalsAreGoals
    <3>2. StatusMatchesClaim(d[g]) BY DEF Core, WellFormed
    <3> QED BY <1>3, <1>4, <2>2, <3>1, <3>2, ZenonT(30)
               DEF Document, StatusMatchesClaim
  <2>3. CASE g \notin Waiters(d)
    BY <1>3, <1>5, <2>3 DEF Core, WellFormed
  <2> QED BY <2>1, <2>2, <2>3
<1>8. WellFormed(e)
  <2>1. e = [w \in Goals |-> e[w]] BY DEF Promoted
  <2> QED BY <1>7, <2>1 DEF WellFormed
<1>9. \A g \in Goals : /\ e[g].mode = d[g].mode
                       /\ e[g].born = d[g].born
                       /\ e[g].effects = d[g].effects
                       /\ e[g].worker = d[g].worker
  <2> TAKE g \in Goals
  <2>1. CASE g \in P BY <1>3, <1>6, <2>1 DEF Document
  <2>2. CASE g \in Waiters(d) \ P BY <1>3, <1>4, <2>2 DEF Document
  <2>3. CASE g \notin Waiters(d) BY <1>5, <2>3
  <2> QED BY <2>1, <2>2, <2>3
<1>10. \A g \in P : e[g].status = "queued" /\ e[g].claim = "owner"
  <2> TAKE g \in P
  <2>1. g \in Goals BY DEF Waiters
  <2> QED BY <1>3, <1>6, <2>1 DEF Document
<1> QED BY <1>2, <1>4, <1>5, <1>8, <1>9, <1>10

\* After a pass, the owners are those before it and the promoted ones, and the
\* waiters are those it left.
LEMMA PromotedOwners ==
    ASSUME NEW d, NEW n, Core(d, n), NEW P \in SUBSET Waiters(d), Eligible(d, P),
           NEW auto \in BOOLEAN
    PROVE  /\ \A g \in Goals : Owner(Promoted(d, P, auto), g) <=> (Owner(d, g) \/ g \in P)
           /\ \A g \in Goals : Waiter(Promoted(d, P, auto), g) <=> g \in Waiters(d) \ P
           /\ \A g, h \in Goals :
                 Overlap(Promoted(d, P, auto), g, h) <=> Overlap(d, g, h)
           /\ \A g \in Goals : Promoted(d, P, auto)[g].status = "absent"
                                  <=> d[g].status = "absent"
<1> DEFINE e == Promoted(d, P, auto)
<1>1. /\ \A w \in Waiters(d) \ P :
            e[w] = [d[w] EXCEPT !.blockedBy = Oldest(d, Rivals(d, P, w))]
      /\ \A g \in Goals \ Waiters(d) : e[g] = d[g]
      /\ \A g \in Goals : e[g].mode = d[g].mode
      /\ \A g \in P : e[g].status = "queued" /\ e[g].claim = "owner"
  BY PromotedTyped
<1>2. \A g \in Goals : d[g] \in Document BY DEF Core, WellFormed
<1>3. ASSUME NEW g \in Goals
      PROVE  /\ Owner(e, g) <=> (Owner(d, g) \/ g \in P)
             /\ Waiter(e, g) <=> g \in Waiters(d) \ P
             /\ e[g].status = "absent" <=> d[g].status = "absent"
  <2>1. CASE g \in P
    <3>1. e[g].status = "queued" /\ e[g].claim = "owner" BY <1>1, <2>1
    <3>2. d[g].status = "waiting_for_project" BY <2>1 DEF Waiters, Waiter
    <3> QED BY <2>1, <3>1, <3>2 DEF Owner, Waiter, PROJECT_OWNER_GOALS
  <2>2. CASE g \in Waiters(d) \ P
    <3>1. e[g].status = d[g].status /\ e[g].claim = d[g].claim
      BY <1>1, <1>2, <2>2 DEF Document
    <3> QED BY <2>2, <3>1 DEF Owner, Waiter, Waiters
  <2>3. CASE g \notin Waiters(d)
    <3>1. e[g] = d[g] BY <1>1, <2>3
    <3> QED BY <2>3, <3>1 DEF Owner, Waiter, Waiters
  <2> QED BY <2>1, <2>2, <2>3
<1>4. \A g, h \in Goals : Overlap(e, g, h) <=> Overlap(d, g, h)
  BY <1>1 DEF Overlap, ConcurrentCopy
<1> QED BY <1>3, <1>4

\* A pass keeps exclusion: a promoted goal has no rival among the owners, and
\* of two promoted goals the younger has none in the older.
LEMMA PromotedCore ==
    ASSUME NEW d, NEW n \in Nat, Core(d, n), NEW P \in SUBSET Waiters(d),
           Eligible(d, P), NEW auto \in BOOLEAN
    PROVE  /\ Core(Promoted(d, P, auto), n)
           /\ BlockersOwn(Promoted(d, P, auto))
           /\ AllBlocked(Promoted(d, P, auto))
<1> DEFINE e == Promoted(d, P, auto)
<1>1. /\ WellFormed(e)
      /\ \A w \in Waiters(d) \ P :
            /\ Oldest(d, Rivals(d, P, w)) \in Rivals(d, P, w)
            /\ e[w] = [d[w] EXCEPT !.blockedBy = Oldest(d, Rivals(d, P, w))]
      /\ \A g \in Goals \ Waiters(d) : e[g] = d[g]
      /\ \A g \in Goals : /\ e[g].mode = d[g].mode /\ e[g].born = d[g].born
                          /\ e[g].effects = d[g].effects
                          /\ e[g].worker = d[g].worker
  BY PromotedTyped
<1>2. /\ \A g \in Goals : Owner(e, g) <=> (Owner(d, g) \/ g \in P)
      /\ \A g \in Goals : Waiter(e, g) <=> g \in Waiters(d) \ P
      /\ \A g, h \in Goals : Overlap(e, g, h) <=> Overlap(d, g, h)
      /\ \A g \in Goals : e[g].status = "absent" <=> d[g].status = "absent"
  BY PromotedOwners
<1>3. BirthOrder(e, n)
  BY <1>1, <1>2 DEF Core, BirthOrder
<1>4. WorkOwned(e)
  <2> SUFFICES ASSUME NEW g \in Goals, ~Owner(e, g)
               PROVE  /\ d[g].effects \notin {"claimed", "inflight", "unsettled"}
                      /\ d[g].worker = "live" => e[g].status \in RELEASED_GOALS
    BY <1>1 DEF WorkOwned
  <2>1. ~Owner(d, g) BY <1>2
  <2>2. d[g].worker = "live" => d[g].status \in RELEASED_GOALS
    BY <2>1 DEF Core, WorkOwned
  <2>3. d[g].status \in RELEASED_GOALS => g \notin Waiters(d)
    BY DEF Waiters, Waiter, RELEASED_GOALS
  <2> QED BY <1>1, <2>1, <2>2, <2>3 DEF Core, WorkOwned
<1>5. ASSUME LegacyChats = {} PROVE CopiesOnly(e)
  <2>1. CopiesOnly(d) BY <1>5 DEF Core, Exclusive
  <2>2. Chats \subseteq Goals BY QueueAssumption
  <2> QED BY <1>1, <1>2, <2>1, <2>2 DEF CopiesOnly
<1>6. ASSUME LegacyChats = {}, OwnersConflict(e) PROVE FALSE
  <2>1. PICK g, h \in Goals : g # h /\ Owner(e, g) /\ Owner(e, h) /\ Overlap(d, g, h)
    BY <1>2, <1>6 DEF OwnersConflict
  <2>2. Overlap(d, h, g)
    BY <2>1, QueueAssumption DEF Overlap
  <2>3. ASSUME NEW x \in P, NEW y \in Goals, x # y, Overlap(d, x, y),
               Owner(d, y) \/ (y \in P /\ d[y].born < d[x].born)
        PROVE  FALSE
    <3>1. y \in Rivals(d, P, x) BY <2>3 DEF Rivals
    <3>2. x \in Waiters(d) BY <2>3
    <3>3. Rivals(d, P, x) = {} BY <2>3, <3>2 DEF Eligible
    <3> QED BY <3>1, <3>3
  <2>4. (Owner(d, g) \/ g \in P) /\ (Owner(d, h) \/ h \in P)
    BY <1>2, <2>1
  <2>5. ~(Owner(d, g) /\ Owner(d, h))
    BY <1>6, <2>1 DEF Core, Exclusive, OwnersConflict
  <2>6. CASE g \in P /\ h \in P
    <3>1. d[g].born # d[h].born
      BY <2>1, <2>6 DEF Core, BirthOrder, Waiters, Waiter
    <3>2. d[g].born \in Nat /\ d[h].born \in Nat
      BY DEF Core, WellFormed, Document
    <3>3. d[g].born < d[h].born \/ d[h].born < d[g].born
      BY <3>1, <3>2
    <3> QED BY <2>1, <2>2, <2>3, <2>6, <3>3
  <2>7. CASE Owner(d, g) /\ h \in P
    BY <2>1, <2>2, <2>3, <2>7
  <2>8. CASE g \in P /\ Owner(d, h)
    BY <2>1, <2>3, <2>8
  <2> QED BY <2>4, <2>5, <2>6, <2>7, <2>8
<1>7. BlockersOwn(e)
  <2> SUFFICES ASSUME NEW w \in Goals, Waiter(e, w)
               PROVE  Blocks(e, e[w].blockedBy, w)
    BY DEF BlockersOwn
  <2>1. w \in Waiters(d) \ P BY <1>2
  <2>2. d[w] \in Document BY DEF Core, WellFormed
  <2>3. e[w].blockedBy \in Rivals(d, P, w) BY <1>1, <2>1, <2>2 DEF Document
  <2> QED BY <1>2, <2>3 DEF Rivals, Blocks
<1>8. AllBlocked(e)
  <2> SUFFICES ASSUME NEW w \in Goals, Waiter(e, w) PROVE SharedOwners(e, w) # {}
    BY DEF AllBlocked
  <2>1. w \in Waiters(d) \ P BY <1>2
  <2>2. PICK o \in Rivals(d, P, w) : TRUE BY <1>1, <2>1
  <2>3. o \in Goals \ {w} /\ Owner(e, o) /\ Overlap(e, w, o) BY <1>2, <2>2 DEF Rivals
  <2> QED BY <2>3 DEF SharedOwners
<1> QED BY <1>1, <1>3, <1>4, <1>5, <1>6, <1>7, <1>8 DEF Core, Exclusive

-----------------------------------------------------------------------------
\* Goal g's document becomes r, which claims no project it did not own.
Continues(d, g, r) ==
    /\ r \in Document
    /\ StatusMatchesClaim(r)
    /\ d[g].status # "absent" /\ r.status # "absent"
    /\ r.born = d[g].born
    /\ r.mode \in {d[g].mode, "facilitator"}
    /\ r.effects \in {"claimed", "inflight", "unsettled"}
          => r.status \in PROJECT_OWNER_GOALS /\ r.claim = "owner"
    /\ r.worker = "live"
          => (r.status \in PROJECT_OWNER_GOALS /\ r.claim = "owner")
             \/ r.status \in RELEASED_GOALS
    /\ r.status \in PROJECT_OWNER_GOALS /\ r.claim = "owner" => Owner(d, g)

LEMMA ContinuesCore ==
    ASSUME NEW d, NEW n \in Nat, Core(d, n), NEW e, e = [g \in Goals |-> e[g]],
           \A g \in Goals : e[g] = d[g] \/ Continues(d, g, e[g])
    PROVE  Core(e, n)
<1>1. WellFormed(e)
  BY DEF Core, WellFormed, Continues
<1>2. \A h \in Goals : e[h].born = d[h].born /\ (e[h].status = "absent" <=> d[h].status = "absent")
  BY DEF Continues
<1>3. BirthOrder(e, n)
  BY <1>2 DEF Core, BirthOrder
<1>4. WorkOwned(e)
  BY DEF Core, WorkOwned, Continues, Owner
<1>5. \A h \in Goals : Owner(e, h) => Owner(d, h)
  BY DEF Continues, Owner
<1>6. \A h, k \in Goals : Overlap(e, h, k) => Overlap(d, h, k)
  <2>1. \A h \in Goals : e[h].mode = d[h].mode \/ e[h].mode = "facilitator"
    BY DEF Continues
  <2> QED BY <2>1 DEF Overlap, ConcurrentCopy
<1>7. Exclusive(e)
  <2> SUFFICES ASSUME LegacyChats = {} PROVE CopiesOnly(e) /\ ~OwnersConflict(e)
    BY DEF Exclusive
  <2>1. CopiesOnly(d) /\ ~OwnersConflict(d) BY DEF Core, Exclusive
  <2>2. Chats \subseteq Goals BY QueueAssumption
  <2>3. CopiesOnly(e)
    BY <1>2, <2>1, <2>2 DEF CopiesOnly, Continues
  <2> QED BY <1>5, <1>6, <2>1, <2>3 DEF OwnersConflict
<1> QED BY <1>1, <1>3, <1>4, <1>7 DEF Core

\* ... and, when every owner stays one and nobody begins to wait, every
\* waiter's blocker still blocks it, or became a facilitator.
LEMMA ContinuesBlockers ==
    ASSUME NEW d, BlockersOwn(d), NEW e,
           \A g \in Goals : Owner(d, g) => Owner(e, g),
           \A g \in Goals : e[g].mode \in {d[g].mode, "facilitator"},
           \A g \in Goals : Waiter(e, g)
              => Waiter(d, g) /\ e[g].blockedBy = d[g].blockedBy /\ e[g].mode = d[g].mode
    PROVE  BlockersOwn(e)
<1> SUFFICES ASSUME NEW w \in Goals, Waiter(e, w)
             PROVE  Blocks(e, e[w].blockedBy, w)
  BY DEF BlockersOwn
<1>1. Blocks(d, e[w].blockedBy, w) /\ e[w].mode = d[w].mode
  BY DEF BlockersOwn
<1> QED BY <1>1 DEF Blocks, Overlap, ConcurrentCopy

\* An owner's document is replaced by one that still owns.
LEMMA OwnerContinues ==
    ASSUME IInv, NEW g \in Goals, NEW r \in Document, Owner(goals, g),
           r.status \in PROJECT_OWNER_GOALS, r.claim = "owner",
           r.born = goals[g].born, r.mode \in {goals[g].mode, "facilitator"}
    PROVE  /\ Core([goals EXCEPT ![g] = r], admissions)
           /\ BlockersOwn([goals EXCEPT ![g] = r])
           /\ Handover(goals, [goals EXCEPT ![g] = r])
<1> DEFINE e == [goals EXCEPT ![g] = r]
<1>1. /\ goals \in [Goals -> Document]
      /\ e = [h \in Goals |-> e[h]] /\ e[g] = r
      /\ \A h \in Goals \ {g} : e[h] = goals[h]
  BY DEF IInv, Core, WellFormed
<1>2. Continues(goals, g, r)
  BY DEF Continues, Owner, PROJECT_OWNER_GOALS, StatusMatchesClaim, RELEASED_GOALS
<1>3. Core(e, admissions)
  <2>1. \A h \in Goals : e[h] = goals[h] \/ Continues(goals, h, e[h])
    BY <1>1, <1>2
  <2> HIDE DEF e
  <2> QED BY <1>1, <2>1, ContinuesCore DEF IInv
<1>4. \A h \in Goals : Owner(goals, h) => Owner(e, h)
  BY <1>1 DEF Owner
<1>5. /\ \A h \in Goals : e[h].mode \in {goals[h].mode, "facilitator"}
      /\ \A h \in Goals : Waiter(e, h)
            => Waiter(goals, h) /\ e[h].blockedBy = goals[h].blockedBy /\ e[h].mode = goals[h].mode
  BY <1>1 DEF Waiter, PROJECT_OWNER_GOALS
<1>6. BlockersOwn(e)
  <2> HIDE DEF e
  <2> QED BY <1>4, <1>5, ContinuesBlockers DEF IInv
<1>7. Handover(goals, e)
  BY <1>4 DEF Handover
<1> QED BY <1>3, <1>6, <1>7

\* The whole of a _mutate transaction, with the promotion its release causes.
LEMMA MutateInv ==
    ASSUME IInv, NEW g \in Goals, NEW r, Mutate(g, r), Continues(goals, g, Released(r)),
           Released(r).status # "waiting_for_project"
    PROVE  Core(goals', admissions) /\ BlockersOwn(goals') /\ Handover(goals, goals')
<1> DEFINE d == [goals EXCEPT ![g] = Released(r)]
<1>1. /\ goals \in [Goals -> Document]
      /\ d = [h \in Goals |-> d[h]] /\ d[g] = Released(r)
      /\ \A h \in Goals \ {g} : d[h] = goals[h]
  BY DEF IInv, Core, WellFormed
<1>2. Core(d, admissions)
  <2>1. \A h \in Goals : d[h] = goals[h] \/ Continues(goals, h, d[h])
    BY <1>1
  <2> HIDE DEF d
  <2> QED BY <1>1, <2>1, ContinuesCore DEF IInv
<1>3. CASE Owner(goals, g) /\ ~Owner(d, g)
  <2>1. PICK P \in SUBSET Waiters(d) : Eligible(d, P) /\ goals' = Promoted(d, P, TRUE)
    BY <1>3 DEF Mutate, PromoteEligibleWaiters
  <2> QED BY <1>2, <2>1, PromotedCore DEF IInv, Handover
<1>4. CASE ~(Owner(goals, g) /\ ~Owner(d, g))
  <2>1. goals' = d BY <1>4 DEF Mutate
  <2>2. \A h \in Goals : Owner(goals, h) => Owner(d, h)
    BY <1>1, <1>4 DEF Owner
  <2>3. /\ \A h \in Goals : d[h].mode \in {goals[h].mode, "facilitator"}
        /\ \A h \in Goals : Waiter(d, h)
              => Waiter(goals, h) /\ d[h].blockedBy = goals[h].blockedBy /\ d[h].mode = goals[h].mode
    BY <1>1 DEF Waiter, Continues
  <2>4. BlockersOwn(d)
    <3> HIDE DEF d
    <3> QED BY <2>2, <2>3, ContinuesBlockers DEF IInv
  <2>5. Handover(goals, d)
    BY <2>2 DEF Handover
  <2> QED BY <1>2, <2>1, <2>4, <2>5
<1> QED BY <1>3, <1>4

\* A document that did not own anything takes a claim against the owners of
\* its project, or waits for one of them.
LEMMA EntersInv ==
    ASSUME NEW d, NEW n \in Nat, Core(d, n), BlockersOwn(d),
           NEW g \in Goals, ~Owner(d, g), NEW r \in Document, NEW m \in Nat,
           StatusMatchesClaim(r), r.status # "absent",
           r.effects \notin {"claimed", "inflight", "unsettled"},
           r.worker # "live",
           n <= m, r.born <= m,
           n < r.born \/ (r.born = d[g].born /\ d[g].status # "absent"),
           (LegacyChats = {} /\ g \in Chats) => r.mode # "plain",
           r.status \in PROJECT_OWNER_GOALS /\ r.claim = "owner"
              => SharedOwners([d EXCEPT ![g] = r], g) = {},
           r.status = "waiting_for_project"
              => r.blockedBy \in SharedOwners([d EXCEPT ![g] = r], g)
    PROVE  /\ Core([d EXCEPT ![g] = r], m)
           /\ BlockersOwn([d EXCEPT ![g] = r])
           /\ \A h \in Goals : Owner(d, h) => Owner([d EXCEPT ![g] = r], h)
<1> DEFINE e == [d EXCEPT ![g] = r]
<1>1. /\ e \in [Goals -> Document]
      /\ e[g] = r
      /\ \A h \in Goals \ {g} : e[h] = d[h]
      /\ \A h \in Goals : d[h].born \in Nat
      /\ \A h \in Goals : StatusMatchesClaim(d[h])
  BY DEF Core, WellFormed, Document
<1> HIDE DEF e
<1>2. WellFormed(e)
  BY <1>1 DEF WellFormed
<1>3. BirthOrder(e, m)
  <2>1. BirthOrder(d, n) BY DEF Core
  <2>2. CASE r.born = d[g].born /\ d[g].status # "absent"
    BY <1>1, <2>1, <2>2 DEF BirthOrder
  <2>3. CASE n < r.born
    <3>1. r.born \in Nat BY DEF Document
    <3> QED BY <1>1, <2>1, <2>3, <3>1 DEF BirthOrder
  <2> QED BY <2>2, <2>3
<1>4. WorkOwned(e)
  BY <1>1 DEF Core, WorkOwned, Owner
<1>5. \A h \in Goals : Owner(d, h) => Owner(e, h)
  BY <1>1 DEF Owner
<1>6. Exclusive(e)
  <2> SUFFICES ASSUME LegacyChats = {} PROVE CopiesOnly(e) /\ ~OwnersConflict(e)
    BY DEF Exclusive
  <2>1. CopiesOnly(d) /\ ~OwnersConflict(d) BY DEF Core, Exclusive
  <2>2. CopiesOnly(e)
    BY <1>1, <2>1, QueueAssumption DEF CopiesOnly
  <2>3. ASSUME NEW h \in Goals, h # g, Owner(e, g), Owner(e, h), Overlap(e, g, h) PROVE FALSE
    <3>1. h \in SharedOwners(e, g) BY <2>3 DEF SharedOwners
    <3>2. SharedOwners(e, g) = {} BY <1>1, <2>3 DEF Owner, e
    <3> QED BY <3>1, <3>2
  <2>4. \A h, k \in Goals : Overlap(e, h, k) <=> Overlap(e, k, h)
    BY QueueAssumption DEF Overlap
  <2>5. \A h, k \in Goals \ {g} : /\ Overlap(e, h, k) => Overlap(d, h, k)
                                  /\ Owner(e, h) => Owner(d, h)
    BY <1>1 DEF Overlap, ConcurrentCopy, Owner
  <2>6. ~OwnersConflict(e)
    <3> SUFFICES ASSUME NEW h \in Goals, NEW k \in Goals, h # k, Owner(e, h), Owner(e, k),
                        Overlap(e, h, k)
                 PROVE  FALSE
      BY DEF OwnersConflict
    <3>1. CASE h = g BY <2>3, <3>1
    <3>2. CASE k = g BY <2>3, <2>4, <3>2
    <3>3. CASE h # g /\ k # g BY <2>1, <2>5, <3>3 DEF OwnersConflict
    <3> QED BY <3>1, <3>2, <3>3
  <2> QED BY <2>2, <2>6
<1>7. BlockersOwn(e)
  <2> SUFFICES ASSUME NEW w \in Goals, Waiter(e, w)
               PROVE  Blocks(e, e[w].blockedBy, w)
    BY DEF BlockersOwn
  <2>1. CASE w = g
    BY <1>1, <2>1 DEF Waiter, SharedOwners, Blocks, e
  <2>2. CASE w # g
    <3>1. Waiter(d, w) /\ e[w].blockedBy = d[w].blockedBy
      BY <1>1, <2>2 DEF Waiter
    <3>2. Blocks(d, e[w].blockedBy, w) BY <3>1 DEF BlockersOwn
    <3>3. e[w] = d[w] /\ e[e[w].blockedBy] = d[e[w].blockedBy]
      BY <1>1, <2>2, <3>2 DEF Blocks
    <3> QED BY <1>5, <3>2, <3>3 DEF Blocks, Overlap, ConcurrentCopy
  <2> QED BY <2>1, <2>2
<1> QED BY <1>2, <1>3, <1>4, <1>5, <1>6, <1>7 DEF Core, e

LEMMA WellFormedDocuments ==
    ASSUME IInv
    PROVE  /\ goals \in [Goals -> Document]
           /\ \A g \in Goals : goals[g] \in Document /\ StatusMatchesClaim(goals[g])
BY DEF IInv, Core, WellFormed

-----------------------------------------------------------------------------
\* The steps of a goal that keeps its project.

LEMMA StartBackgroundInv ==
    ASSUME IInv, NEW g \in Goals, NEW automatic \in BOOLEAN, StartBackground(g, automatic)
    PROVE  Core(goals', admissions') /\ BlockersOwn(goals') /\ Handover(goals, goals')
<1> DEFINE r == [goals[g] EXCEPT !.worker = "live"]
<1>1. goals \in [Goals -> Document] /\ goals[g] \in Document /\ StatusMatchesClaim(goals[g])
  BY WellFormedDocuments
<1>2. goals' = [goals EXCEPT ![g] = r] /\ admissions' = admissions
  BY <1>1 DEF StartBackground
<1>3. Owner(goals, g)
  BY <1>1 DEF StartBackground, Owner, StatusMatchesClaim, PROJECT_OWNER_GOALS, IInv, Core, WorkOwned
<1>4. /\ r \in Document
      /\ r.status \in PROJECT_OWNER_GOALS /\ r.claim = "owner"
      /\ r.born = goals[g].born /\ r.mode \in {goals[g].mode, "facilitator"}
  BY <1>1, <1>3 DEF StartBackground, Document, Owner, PROJECT_OWNER_GOALS, Statuses, Leases
<1> QED BY <1>2, <1>3, <1>4, OwnerContinues

LEMMA ClaimReadyInv ==
    ASSUME IInv, NEW g \in Goals, ClaimReady(g)
    PROVE  Core(goals', admissions') /\ BlockersOwn(goals') /\ Handover(goals, goals')
<1> DEFINE r == [goals[g] EXCEPT !.status = "running", !.effects = "claimed"]
<1>1. goals \in [Goals -> Document] /\ goals[g] \in Document /\ StatusMatchesClaim(goals[g])
  BY WellFormedDocuments
<1>2. goals' = [goals EXCEPT ![g] = r] /\ admissions' = admissions
  BY <1>1 DEF ClaimReady
<1>3. Owner(goals, g)
  BY <1>1 DEF ClaimReady, Owner, StatusMatchesClaim, PROJECT_OWNER_GOALS, IInv, Core, WorkOwned
<1>4. /\ r \in Document
      /\ r.status \in PROJECT_OWNER_GOALS /\ r.claim = "owner"
      /\ r.born = goals[g].born /\ r.mode \in {goals[g].mode, "facilitator"}
  BY <1>1, <1>3 DEF ClaimReady, Document, Owner, PROJECT_OWNER_GOALS, Statuses, Effects
<1> QED BY <1>2, <1>3, <1>4, OwnerContinues

LEMMA RecordDispatchInv ==
    ASSUME IInv, NEW g \in Goals, RecordDispatch(g)
    PROVE  Core(goals', admissions') /\ BlockersOwn(goals') /\ Handover(goals, goals')
<1> DEFINE r == [goals[g] EXCEPT !.effects = "inflight", !.armed = FALSE]
<1>1. goals \in [Goals -> Document] /\ goals[g] \in Document /\ StatusMatchesClaim(goals[g])
  BY WellFormedDocuments
<1>2. goals' = [goals EXCEPT ![g] = r] /\ admissions' = admissions
  BY <1>1 DEF RecordDispatch
<1>3. Owner(goals, g)
  BY <1>1 DEF RecordDispatch, Owner, StatusMatchesClaim, PROJECT_OWNER_GOALS, IInv, Core, WorkOwned
<1>4. /\ r \in Document
      /\ r.status \in PROJECT_OWNER_GOALS /\ r.claim = "owner"
      /\ r.born = goals[g].born /\ r.mode \in {goals[g].mode, "facilitator"}
  BY <1>1, <1>3 DEF RecordDispatch, Document, Owner, PROJECT_OWNER_GOALS, Statuses, Effects
<1> QED BY <1>2, <1>3, <1>4, OwnerContinues

LEMMA EndTurnInv ==
    ASSUME IInv, NEW g \in Goals, NEW effect \in {"settled", "unsettled"},
           NEW next \in {"queued", "paused", "waiting_for_user"}, EndTurn(g, effect, next)
    PROVE  Core(goals', admissions') /\ BlockersOwn(goals') /\ Handover(goals, goals')
<1> DEFINE r == [goals[g] EXCEPT !.effects = effect,
             !.status = IF @ \in {"queued", "running"} THEN next ELSE @]
<1>1. goals \in [Goals -> Document] /\ goals[g] \in Document /\ StatusMatchesClaim(goals[g])
  BY WellFormedDocuments
<1>2. goals' = [goals EXCEPT ![g] = r] /\ admissions' = admissions
  BY <1>1 DEF EndTurn
<1>3. Owner(goals, g)
  BY <1>1 DEF EndTurn, Owner, StatusMatchesClaim, PROJECT_OWNER_GOALS, IInv, Core, WorkOwned
<1>4. /\ r \in Document
      /\ r.status \in PROJECT_OWNER_GOALS /\ r.claim = "owner"
      /\ r.born = goals[g].born /\ r.mode \in {goals[g].mode, "facilitator"}
  BY <1>1, <1>3 DEF EndTurn, Document, Owner, PROJECT_OWNER_GOALS, Statuses, Effects
<1> QED BY <1>2, <1>3, <1>4, OwnerContinues

LEMMA AnswerUserInv ==
    ASSUME IInv, NEW g \in Goals, AnswerUser(g)
    PROVE  Core(goals', admissions') /\ BlockersOwn(goals') /\ Handover(goals, goals')
<1> DEFINE r == [goals[g] EXCEPT !.status = "queued"]
<1>1. goals \in [Goals -> Document] /\ goals[g] \in Document /\ StatusMatchesClaim(goals[g])
  BY WellFormedDocuments
<1>2. goals' = [goals EXCEPT ![g] = r] /\ admissions' = admissions
  BY <1>1 DEF AnswerUser
<1>3. Owner(goals, g)
  BY <1>1 DEF AnswerUser, Owner, StatusMatchesClaim, PROJECT_OWNER_GOALS, IInv, Core, WorkOwned
<1>4. /\ r \in Document
      /\ r.status \in PROJECT_OWNER_GOALS /\ r.claim = "owner"
      /\ r.born = goals[g].born /\ r.mode \in {goals[g].mode, "facilitator"}
  BY <1>1, <1>3 DEF AnswerUser, Document, Owner, PROJECT_OWNER_GOALS, Statuses
<1> QED BY <1>2, <1>3, <1>4, OwnerContinues

LEMMA PauseInv ==
    ASSUME IInv, NEW g \in Goals, Pause(g)
    PROVE  Core(goals', admissions') /\ BlockersOwn(goals') /\ Handover(goals, goals')
<1> DEFINE r == [goals[g] EXCEPT !.status = "paused", !.armed = FALSE]
<1>1. goals \in [Goals -> Document] /\ goals[g] \in Document /\ StatusMatchesClaim(goals[g])
  BY WellFormedDocuments
<1>2. goals' = [goals EXCEPT ![g] = r] /\ admissions' = admissions
  BY <1>1 DEF Pause
<1>3. Owner(goals, g)
  BY <1>1 DEF Pause, Owner, StatusMatchesClaim, PROJECT_OWNER_GOALS, IInv, Core, WorkOwned
<1>4. /\ r \in Document
      /\ r.status \in PROJECT_OWNER_GOALS /\ r.claim = "owner"
      /\ r.born = goals[g].born /\ r.mode \in {goals[g].mode, "facilitator"}
  BY <1>1, <1>3 DEF Pause, Document, Owner, PROJECT_OWNER_GOALS, Statuses
<1> QED BY <1>2, <1>3, <1>4, OwnerContinues

LEMMA ResumeAsFacilitatorInv ==
    ASSUME IInv, NEW g \in Goals, ResumeAsFacilitator(g)
    PROVE  Core(goals', admissions') /\ BlockersOwn(goals') /\ Handover(goals, goals')
<1> DEFINE r == [goals[g] EXCEPT !.mode = "facilitator", !.status = "queued"]
<1>1. goals \in [Goals -> Document] /\ goals[g] \in Document /\ StatusMatchesClaim(goals[g])
  BY WellFormedDocuments
<1>2. goals' = [goals EXCEPT ![g] = r] /\ admissions' = admissions
  BY <1>1 DEF ResumeAsFacilitator
<1>3. Owner(goals, g)
  BY <1>1 DEF ResumeAsFacilitator, Owner, StatusMatchesClaim, PROJECT_OWNER_GOALS, IInv, Core, WorkOwned
<1>4. /\ r \in Document
      /\ r.status \in PROJECT_OWNER_GOALS /\ r.claim = "owner"
      /\ r.born = goals[g].born /\ r.mode \in {goals[g].mode, "facilitator"}
  BY <1>1, <1>3 DEF ResumeAsFacilitator, Document, Owner, PROJECT_OWNER_GOALS, Statuses, Modes
<1> QED BY <1>2, <1>3, <1>4, OwnerContinues

LEMMA RetryReconciledInv ==
    ASSUME IInv, NEW g \in Goals, RetryReconciled(g)
    PROVE  Core(goals', admissions') /\ BlockersOwn(goals') /\ Handover(goals, goals')
<1> DEFINE r == [goals[g] EXCEPT !.status = "queued", !.effects = "settled"]
<1>1. goals \in [Goals -> Document] /\ goals[g] \in Document /\ StatusMatchesClaim(goals[g])
  BY WellFormedDocuments
<1>2. goals' = [goals EXCEPT ![g] = r] /\ admissions' = admissions
  BY <1>1 DEF RetryReconciled
<1>3. Owner(goals, g)
  BY <1>1 DEF RetryReconciled, Owner, StatusMatchesClaim, PROJECT_OWNER_GOALS, IInv, Core, WorkOwned
<1>4. /\ r \in Document
      /\ r.status \in PROJECT_OWNER_GOALS /\ r.claim = "owner"
      /\ r.born = goals[g].born /\ r.mode \in {goals[g].mode, "facilitator"}
  BY <1>1, <1>3 DEF RetryReconciled, Document, Owner, PROJECT_OWNER_GOALS, Statuses, Effects
<1> QED BY <1>2, <1>3, <1>4, OwnerContinues

-----------------------------------------------------------------------------
\* The steps that may give a project up.

LEMMA CompletedContinues ==
    ASSUME IInv, NEW g \in Goals, CompleteVerification(g)
    PROVE  LET r == [goals[g] EXCEPT !.status = "complete"]
           IN  /\ Continues(goals, g, Released(r))
               /\ Released(r).status # "waiting_for_project"
               /\ Released(r).mode = goals[g].mode
<1> DEFINE r == [goals[g] EXCEPT !.status = "complete"]
<1>1. goals[g] \in Document
  BY WellFormedDocuments
<1>2. Released(r) = [r EXCEPT !.claim = "released", !.armed = FALSE, !.blockedBy = None]
  BY <1>1 DEF Released, RELEASED_GOALS, Document
<1> QED BY <1>1, <1>2 DEF Continues, CompleteVerification, Document, Statuses, Claims,
           StatusMatchesClaim, RELEASED_GOALS, PROJECT_OWNER_GOALS

LEMMA CompleteVerificationInv ==
    ASSUME IInv, NEW g \in Goals, CompleteVerification(g)
    PROVE  Core(goals', admissions') /\ BlockersOwn(goals') /\ Handover(goals, goals')
BY CompletedContinues, MutateInv DEF CompleteVerification

\* Settling a cancellation ends the goal, or pauses an owner.
LEMMA SettledContinues ==
    ASSUME IInv, NEW g \in Goals, goals[g].status # "absent",
           NEW s \in SettledForCancellation(goals[g]), NEW lease \in {s.worker, "none"},
           s.worker # "live" \/ lease = "none" \/ Owner(goals, g)
    PROVE  LET r == [s EXCEPT !.worker = lease]
           IN  Continues(goals, g, Released(r))
               /\ Released(r).status # "waiting_for_project"
<1> DEFINE r == [s EXCEPT !.worker = lease]
<1>1. goals[g] \in Document
  BY WellFormedDocuments
<1>2. CASE s = [goals[g] EXCEPT !.status = "cancelled", !.worker = "none",
                                !.effects = "settled"]
  <2>1. r = [goals[g] EXCEPT !.status = "cancelled", !.worker = "none",
                             !.effects = "settled"]
    BY <1>1, <1>2 DEF Document
  <2>2. r.status = "cancelled"
    BY <1>1, <2>1 DEF Document
  <2>3. Released(r) = [goals[g] EXCEPT !.status = "cancelled", !.worker = "none",
                          !.effects = "settled", !.claim = "released", !.armed = FALSE,
                          !.blockedBy = None]
    BY <1>1, <2>1, <2>2 DEF Released, RELEASED_GOALS, Document
  <2> QED BY <1>1, <2>3, ZenonT(30) DEF Continues, Document, Statuses, Claims, Effects, Leases,
             StatusMatchesClaim, RELEASED_GOALS, PROJECT_OWNER_GOALS
<1>3. CASE /\ goals[g].effects \in {"inflight", "unsettled"}
           /\ s = [goals[g] EXCEPT !.status = "paused", !.effects = "unsettled"]
  <2>1. Owner(goals, g)
    BY <1>3 DEF IInv, Core, WorkOwned
  <2>2. r = [goals[g] EXCEPT !.status = "paused", !.effects = "unsettled", !.worker = lease]
    BY <1>1, <1>3 DEF Document
  <2>3. Released(r) = r
    BY <1>1, <2>2 DEF Released, RELEASED_GOALS, Document
  <2>4. lease \in Leases
    BY <1>1, <1>3 DEF Leases, Document
  <2>5. /\ r \in Document /\ r.status = "paused" /\ r.claim = "owner"
        /\ r.born = goals[g].born /\ r.mode = goals[g].mode
    BY <1>1, <2>1, <2>2, <2>4 DEF Document, Statuses, Effects, Owner, PROJECT_OWNER_GOALS
  <2>6. Continues(goals, g, r) /\ r.status # "waiting_for_project"
    <3> HIDE DEF r
    <3> QED BY <2>1, <2>5 DEF Continues, StatusMatchesClaim, RELEASED_GOALS,
               PROJECT_OWNER_GOALS
  <2> QED BY <2>3, <2>6
<1> QED BY <1>2, <1>3 DEF SettledForCancellation

LEMMA SettleInv ==
    ASSUME IInv, NEW g \in Goals, goals[g].status # "absent", goals[g].worker # "live",
           \E s \in SettledForCancellation(goals[g]) : Mutate(g, s)
    PROVE  Core(goals', admissions) /\ BlockersOwn(goals') /\ Handover(goals, goals')
<1>1. PICK s \in SettledForCancellation(goals[g]) : Mutate(g, s)
  OBVIOUS
<1>2. goals[g] \in Document
  BY WellFormedDocuments
<1>3. s.worker # "live" /\ s = [s EXCEPT !.worker = s.worker]
  BY <1>1, <1>2 DEF SettledForCancellation, Document
<1>4. /\ Continues(goals, g, Released([s EXCEPT !.worker = s.worker]))
      /\ Released([s EXCEPT !.worker = s.worker]).status # "waiting_for_project"
  BY <1>1, <1>3, SettledContinues
<1>5. Continues(goals, g, Released(s)) /\ Released(s).status # "waiting_for_project"
  BY <1>3, <1>4
<1> QED BY <1>1, <1>5, MutateInv

LEMMA CancelInv ==
    ASSUME IInv, NEW g \in Goals, Cancel(g)
    PROVE  Core(goals', admissions') /\ BlockersOwn(goals') /\ Handover(goals, goals')
<1>1. goals[g].status \notin RELEASED_GOALS /\ goals[g].status # "absent"
      /\ admissions' = admissions
  BY DEF Cancel
<1>2. CASE goals[g].worker = "live"
  <2> DEFINE r == [goals[g] EXCEPT !.status = "cancelling"]
  <2>1. goals \in [Goals -> Document] /\ goals[g] \in Document
    BY WellFormedDocuments
  <2>2. Owner(goals, g)
    BY <1>1, <1>2 DEF IInv, Core, WorkOwned
  <2>3. goals' = [goals EXCEPT ![g] = r]
    BY <1>2, <2>1 DEF Cancel
  <2>4. /\ r \in Document /\ r.status \in PROJECT_OWNER_GOALS /\ r.claim = "owner"
        /\ r.born = goals[g].born /\ r.mode = goals[g].mode
    BY <2>1, <2>2 DEF Document, Owner, PROJECT_OWNER_GOALS, Statuses
  <2> QED BY <1>1, <2>2, <2>3, <2>4, OwnerContinues
<1>3. CASE goals[g].worker # "live"
  BY <1>1, <1>3, SettleInv DEF Cancel
<1> QED BY <1>2, <1>3

LEMMA RecoverCancelledInv ==
    ASSUME IInv, NEW g \in Goals, RecoverCancelled(g)
    PROVE  Core(goals', admissions') /\ BlockersOwn(goals') /\ Handover(goals, goals')
BY SettleInv DEF RecoverCancelled, Undrained

LEMMA StopRunInv ==
    ASSUME IInv, NEW g \in Goals, StopRun(g)
    PROVE  Core(goals', admissions') /\ BlockersOwn(goals') /\ Handover(goals, goals')
<1>1. /\ goals \in [Goals -> Document]
      /\ goals[g] \in Document /\ StatusMatchesClaim(goals[g])
  BY WellFormedDocuments
<1>2. admissions' = admissions /\ goals[g].worker = "live"
  BY DEF StopRun
<1>3. CASE goals[g].status = "cancelling"
  <2>1. PICK s \in SettledForCancellation(goals[g]) : Mutate(g, [s EXCEPT !.worker = "none"])
    BY <1>3 DEF StopRun
  <2>2. LET r == [s EXCEPT !.worker = "none"]
        IN  Continues(goals, g, Released(r)) /\ Released(r).status # "waiting_for_project"
    BY <1>3, <2>1, SettledContinues
  <2> QED BY <1>2, <2>1, <2>2, MutateInv
<1>4. CASE goals[g].status # "cancelling"
  <2> DEFINE r == [goals[g] EXCEPT !.worker = "none"]
             e == [goals EXCEPT ![g] = r]
  <2>1. goals' = e
    BY <1>1, <1>4 DEF StopRun
  <2>2. e = [h \in Goals |-> e[h]] /\ e[g] = r /\ \A h \in Goals \ {g} : e[h] = goals[h]
    BY <1>1
  <2>3. /\ r \in Document /\ StatusMatchesClaim(r)
        /\ r.status = goals[g].status /\ r.claim = goals[g].claim
        /\ r.blockedBy = goals[g].blockedBy /\ r.effects = goals[g].effects
        /\ r.born = goals[g].born /\ r.mode = goals[g].mode /\ r.worker = "none"
    BY <1>1 DEF Document, Leases, StatusMatchesClaim
  <2>4. goals[g].status # "absent"
    BY <1>2 DEF IInv, Core, WorkOwned, Owner, PROJECT_OWNER_GOALS, RELEASED_GOALS
  <2>5. Continues(goals, g, r)
    <3>1. r.effects \in {"claimed", "inflight", "unsettled"} => Owner(goals, g)
      BY <2>3 DEF IInv, Core, WorkOwned
    <3> HIDE DEF r
    <3> QED BY <2>3, <2>4, <3>1 DEF Continues, Owner
  <2>6. \A h \in Goals : e[h] = goals[h] \/ Continues(goals, h, e[h])
    BY <2>2, <2>5
  <2>7. /\ \A h \in Goals : Owner(goals, h) => Owner(e, h)
        /\ \A h \in Goals : e[h].mode \in {goals[h].mode, "facilitator"}
        /\ \A h \in Goals : Waiter(e, h)
              => Waiter(goals, h) /\ e[h].blockedBy = goals[h].blockedBy /\ e[h].mode = goals[h].mode
    <3> HIDE DEF r
    <3> QED BY <2>2, <2>3 DEF Owner, Waiter
  <2>10. Handover(goals, e)
    BY <2>7 DEF Handover
  <2> HIDE DEF e
  <2>8. Core(e, admissions)
    BY <2>2, <2>6, ContinuesCore DEF IInv
  <2>9. BlockersOwn(e)
    BY <2>7, ContinuesBlockers DEF IInv
  <2> QED BY <1>2, <2>1, <2>8, <2>9, <2>10
<1> QED BY <1>3, <1>4

LEMMA StartFailureContinues ==
    ASSUME IInv, NEW g \in Goals, AutomaticStartFailure(g)
    PROVE  \E r : /\ Mutate(g, r)
                  /\ Continues(goals, g, Released(r))
                  /\ Released(r).status # "waiting_for_project"
                  /\ Released(r).worker = "none"
<1>1. /\ goals[g] \in Document /\ StatusMatchesClaim(goals[g])
      /\ Owner(goals, g) /\ goals[g].worker = "none"
  BY WellFormedDocuments DEF AutomaticStartFailure
<1>2. CASE goals[g].effects = "pristine"
  <2> DEFINE r == [goals[g] EXCEPT !.status = "failed", !.claim = "released", !.armed = FALSE]
  <2>1. Mutate(g, r) BY <1>2 DEF AutomaticStartFailure
  <2>2. Released(r) = r BY <1>1 DEF Released, RELEASED_GOALS, Document
  <2>3. Continues(goals, g, r) /\ r.status # "waiting_for_project" /\ r.worker = "none"
    BY <1>1, <1>2 DEF Continues, Document, Owner, Statuses, Claims, StatusMatchesClaim,
       RELEASED_GOALS, PROJECT_OWNER_GOALS
  <2> QED BY <2>1, <2>2, <2>3
<1>3. CASE goals[g].effects # "pristine"
  <2> DEFINE r == [goals[g] EXCEPT !.status = "paused", !.armed = FALSE]
  <2>1. Mutate(g, r) BY <1>3 DEF AutomaticStartFailure
  <2>2. Released(r) = r BY <1>1 DEF Released, RELEASED_GOALS, Document
  <2>3. Continues(goals, g, r) /\ r.status # "waiting_for_project" /\ r.worker = "none"
    BY <1>1, <1>3 DEF Continues, Document, Owner, Statuses, Claims, StatusMatchesClaim,
       RELEASED_GOALS, PROJECT_OWNER_GOALS
  <2> QED BY <2>1, <2>2, <2>3
<1> QED BY <1>2, <1>3

LEMMA AutomaticStartFailureInv ==
    ASSUME IInv, NEW g \in Goals, AutomaticStartFailure(g)
    PROVE  Core(goals', admissions') /\ BlockersOwn(goals') /\ Handover(goals, goals')
<1>1. PICK r : /\ Mutate(g, r) /\ Continues(goals, g, Released(r))
               /\ Released(r).status # "waiting_for_project"
  BY StartFailureContinues
<1> QED BY <1>1, MutateInv DEF AutomaticStartFailure

-----------------------------------------------------------------------------
\* The steps that take a claim.

LEMMA ResumeInv ==
    ASSUME IInv, NEW g \in Goals, Resume(g)
    PROVE  Core(goals', admissions') /\ BlockersOwn(goals') /\ Handover(goals, goals')
<1> DEFINE blockers == SharedOwners(goals, g)
<1>1. /\ goals \in [Goals -> Document] /\ goals[g] \in Document
      /\ StatusMatchesClaim(goals[g])
      /\ goals[g].status \in {"paused", "failed"} /\ goals[g].effects # "unsettled"
      /\ admissions' = admissions
  BY WellFormedDocuments DEF Resume
<1>2. admissions \in Nat /\ admissions <= admissions /\ goals[g].born <= admissions
  BY <1>1 DEF IInv, Core, BirthOrder
<1>3. CASE goals[g].claim = "owner"
  <2> DEFINE r == [goals[g] EXCEPT !.status = "queued"]
  <2>1. goals' = [goals EXCEPT ![g] = r] BY <1>3 DEF Resume
  <2>2. Owner(goals, g) BY <1>1, <1>3 DEF Owner, PROJECT_OWNER_GOALS
  <2>3. /\ r \in Document /\ r.status \in PROJECT_OWNER_GOALS /\ r.claim = "owner"
        /\ r.born = goals[g].born /\ r.mode = goals[g].mode
    BY <1>1, <1>3 DEF Document, PROJECT_OWNER_GOALS, Statuses
  <2> QED BY <1>1, <2>1, <2>2, <2>3, OwnerContinues
<1>4. CASE goals[g].claim # "owner"
  <2>1. ~Owner(goals, g) BY <1>4 DEF Owner
  <2>2. /\ goals[g].effects \notin {"claimed", "inflight", "unsettled"}
        /\ goals[g].worker # "live"
    BY <1>1, <2>1 DEF IInv, Core, WorkOwned, RELEASED_GOALS
  <2>3. LegacyChats = {} /\ g \in Chats => goals[g].mode # "plain"
    BY <1>1 DEF IInv, Core, Exclusive, CopiesOnly
  <2>4. ASSUME NEW r, r.mode = goals[g].mode
        PROVE  SharedOwners([goals EXCEPT ![g] = r], g) = blockers
    BY <1>1, <2>4 DEF SharedOwners, Owner, Overlap, ConcurrentCopy
  <2>5. CASE blockers = {}
    <3> DEFINE r == [goals[g] EXCEPT !.status = "queued", !.claim = "owner", !.armed = TRUE]
    <3>1. goals' = [goals EXCEPT ![g] = r] BY <1>4, <2>5 DEF Resume
    <3>2. /\ r \in Document /\ r.status = "queued" /\ r.claim = "owner"
          /\ r.born = goals[g].born /\ r.mode = goals[g].mode
          /\ r.effects = goals[g].effects /\ r.worker = goals[g].worker
      BY <1>1 DEF Document, PROJECT_OWNER_GOALS, Statuses, Claims
    <3>3. SharedOwners([goals EXCEPT ![g] = r], g) = {} BY <2>4, <2>5, <3>2
    <3>4. StatusMatchesClaim(r) BY <3>2 DEF StatusMatchesClaim, RELEASED_GOALS
    <3> HIDE DEF r
    <3> QED BY <1>1, <1>2, <2>1, <2>2, <2>3, <3>1, <3>2, <3>3, <3>4, EntersInv DEF IInv, Handover
  <2>6. CASE blockers # {}
    <3> DEFINE r == [goals[g] EXCEPT !.status = "waiting_for_project", !.claim = "waiting",
                                     !.armed = FALSE, !.blockedBy = Oldest(goals, blockers)]
    <3>1. goals' = [goals EXCEPT ![g] = r] BY <1>4, <2>6 DEF Resume
    <3>2. Oldest(goals, blockers) \in blockers /\ blockers \subseteq Goals
      <4>1. blockers \subseteq Goals BY DEF SharedOwners
      <4> QED BY <1>1, <2>6, <4>1, OldestMember
    <3>3. /\ r \in Document /\ r.status = "waiting_for_project" /\ r.claim = "waiting"
          /\ r.born = goals[g].born /\ r.mode = goals[g].mode
          /\ r.effects = goals[g].effects /\ r.worker = goals[g].worker
          /\ r.blockedBy = Oldest(goals, blockers)
      BY <1>1, <3>2 DEF Document, Statuses, Claims
    <3>4. SharedOwners([goals EXCEPT ![g] = r], g) = blockers BY <2>4, <3>3
    <3>5. StatusMatchesClaim(r)
      BY <3>3 DEF StatusMatchesClaim, RELEASED_GOALS, PROJECT_OWNER_GOALS
    <3>6. r.status \notin PROJECT_OWNER_GOALS BY <3>3 DEF PROJECT_OWNER_GOALS
    <3> HIDE DEF r
    <3> QED BY <1>1, <1>2, <2>1, <2>2, <2>3, <3>1, <3>2, <3>3, <3>4, <3>5, <3>6, EntersInv DEF IInv, Handover
  <2> QED BY <2>5, <2>6
<1> QED BY <1>3, <1>4

LEMMA CreateInv ==
    ASSUME IInv, NEW g \in Goals, NEW m \in ModesOf[g], Create(g, m)
    PROVE  /\ Core(goals', admissions') /\ BlockersOwn(goals') /\ Handover(goals, goals')
           /\ admissions' \in Nat
<1>1. PICK P \in SUBSET Waiters(goals) :
         /\ Eligible(goals, P)
         /\ LET d == Promoted(goals, P, TRUE)
            IN  goals' = [d EXCEPT ![g] = Newcomer(d, g, m)]
  BY DEF Create
<1> DEFINE d == Promoted(goals, P, TRUE)
           r == Newcomer(d, g, m)
           fresh == [Absent EXCEPT !.status = "queued", !.claim = "owner", !.mode = m,
                                   !.armed = TRUE, !.born = admissions + 1]
           blockers == SharedOwners([d EXCEPT ![g] = fresh], g)
<1>2. Core(d, admissions) /\ BlockersOwn(d)
  BY <1>1, PromotedCore DEF IInv
<1>3. d \in [Goals -> Document] /\ admissions \in Nat /\ admissions' = admissions + 1
  BY <1>2 DEF Core, WellFormed, IInv, Create
<1>4. d[g].status = "absent"
  <2>1. goals[g].status = "absent" BY DEF Create
  <2>2. Core(goals, admissions) BY DEF IInv
  <2> QED BY <1>1, <2>1, <2>2, PromotedOwners
<1>4a. \A h \in Goals : Owner(goals, h) => Owner(d, h)
  BY <1>1, PromotedOwners DEF IInv
<1>5. ~Owner(d, g)
  BY <1>4 DEF Owner, PROJECT_OWNER_GOALS
<1>6. m \in Modes /\ (LegacyChats = {} /\ g \in Chats => m # "plain")
  BY QueueAssumption DEF LegacyChats, Modes
<1>7. /\ fresh \in Document /\ fresh.status = "queued" /\ fresh.claim = "owner"
      /\ fresh.born = admissions + 1 /\ fresh.mode = m
      /\ fresh.effects = "pristine" /\ fresh.worker = "none"
  <2>1. Absent \in Document /\ Absent.effects = "pristine" /\ Absent.worker = "none"
    BY DEF Absent, Document, Statuses, Modes, Claims, Leases, Effects
  <2>2. admissions + 1 \in Nat BY <1>3
  <2>3. "queued" \in Statuses /\ "owner" \in Claims
    BY DEF Statuses, PROJECT_OWNER_GOALS, Claims
  <2> HIDE DEF Absent
  <2> QED BY <1>6, <2>1, <2>2, <2>3 DEF Document
<1>8. r = IF blockers = {} THEN fresh
          ELSE [fresh EXCEPT !.status = "waiting_for_project", !.claim = "waiting",
                             !.armed = FALSE, !.blockedBy = Oldest(d, blockers)]
  BY DEF Newcomer
<1> HIDE DEF d, r
<1>9. ASSUME NEW s, s.mode = m
      PROVE  SharedOwners([d EXCEPT ![g] = s], g) = blockers
  BY <1>3, <1>7, <1>9 DEF SharedOwners, Owner, Overlap, ConcurrentCopy
<1>10. goals' = [d EXCEPT ![g] = r]
  BY <1>1 DEF d, r
<1>11. /\ admissions + 1 \in Nat /\ admissions <= admissions + 1
       /\ admissions < admissions + 1 /\ admissions + 1 <= admissions + 1
  BY <1>3
<1> HIDE DEF fresh
<1>12. CASE blockers = {}
  <2>1. r = fresh BY <1>8, <1>12
  <2>2. SharedOwners([d EXCEPT ![g] = r], g) = {} BY <1>7, <1>9, <1>12, <2>1
  <2>3. StatusMatchesClaim(r) BY <1>7, <2>1 DEF StatusMatchesClaim, RELEASED_GOALS
  <2>4. /\ Core([d EXCEPT ![g] = r], admissions + 1)
        /\ BlockersOwn([d EXCEPT ![g] = r])
        /\ \A h \in Goals : Owner(d, h) => Owner([d EXCEPT ![g] = r], h)
    BY <1>2, <1>3, <1>5, <1>6, <1>7, <1>11, <2>1, <2>2, <2>3, EntersInv
  <2>5. Handover(goals, [d EXCEPT ![g] = r])
    BY <1>4a, <2>4 DEF Handover
  <2> QED BY <1>3, <1>10, <2>4, <2>5
<1>13. CASE blockers # {}
  <2>1. blockers \subseteq Goals BY DEF SharedOwners
  <2>2. Oldest(d, blockers) \in blockers BY <1>3, <1>13, <2>1, OldestMember
  <2>3. /\ r \in Document /\ r.status = "waiting_for_project" /\ r.claim = "waiting"
        /\ r.born = admissions + 1 /\ r.mode = m
        /\ r.effects = "pristine" /\ r.worker = "none"
        /\ r.blockedBy = Oldest(d, blockers)
    BY <1>7, <1>8, <1>13, <2>1, <2>2 DEF Document, Statuses, Claims
  <2>4. SharedOwners([d EXCEPT ![g] = r], g) = blockers
    BY <1>9, <2>3
  <2>5. StatusMatchesClaim(r)
    BY <2>3 DEF StatusMatchesClaim, RELEASED_GOALS, PROJECT_OWNER_GOALS
  <2>6. r.status \notin PROJECT_OWNER_GOALS BY <2>3 DEF PROJECT_OWNER_GOALS
  <2>7. /\ Core([d EXCEPT ![g] = r], admissions + 1)
        /\ BlockersOwn([d EXCEPT ![g] = r])
        /\ \A h \in Goals : Owner(d, h) => Owner([d EXCEPT ![g] = r], h)
    BY <1>2, <1>3, <1>5, <1>6, <1>11, <2>2, <2>3, <2>4, <2>5, <2>6, EntersInv
  <2>8. Handover(goals, [d EXCEPT ![g] = r])
    BY <1>4a, <2>7 DEF Handover
  <2> QED BY <1>3, <1>10, <2>7, <2>8
<1> QED BY <1>3, <1>11, <1>12, <1>13

LEMMA PromoteInv ==
    ASSUME IInv, NEW auto \in BOOLEAN, PromoteEligibleWaiters(goals, auto)
    PROVE  Core(goals', admissions) /\ BlockersOwn(goals') /\ Handover(goals, goals')
<1>1. PICK P \in SUBSET Waiters(goals) : Eligible(goals, P) /\ goals' = Promoted(goals, P, auto)
  BY DEF PromoteEligibleWaiters
<1> QED BY <1>1, PromotedCore DEF IInv, Handover

-----------------------------------------------------------------------------
\* Crash, restart and recovery.

\* A process that dies leaves every claim where it was.
LEMMA CrashInv ==
    ASSUME IInv, Crash
    PROVE  Core(goals', admissions') /\ BlockersOwn(goals') /\ Handover(goals, goals')
<1> DEFINE lease(h) == IF goals[h].worker = "live" THEN "dead" ELSE goals[h].worker
           e == [h \in Goals |-> [goals[h] EXCEPT !.worker = lease(h)]]
<1>1. goals' = e /\ admissions' = admissions
  BY DEF Crash
<1>2. e = [h \in Goals |-> e[h]] OBVIOUS
<1>3. ASSUME NEW h \in Goals
      PROVE  /\ e[h].status = goals[h].status /\ e[h].claim = goals[h].claim
             /\ e[h].blockedBy = goals[h].blockedBy /\ e[h].born = goals[h].born
             /\ e[h].mode = goals[h].mode /\ e[h].effects = goals[h].effects
             /\ e[h].worker # "live" /\ e[h] \in Document
             /\ goals[h].worker # "live" => e[h] = goals[h]
             /\ StatusMatchesClaim(goals[h])
  <2>1. goals[h] \in Document /\ StatusMatchesClaim(goals[h]) BY WellFormedDocuments
  <2>2. lease(h) \in Leases /\ lease(h) # "live" BY <2>1 DEF Leases, Document
  <2>3. e[h] = [goals[h] EXCEPT !.worker = lease(h)] OBVIOUS
  <2>4. goals[h].worker # "live" => lease(h) = goals[h].worker OBVIOUS
  <2> HIDE DEF e, lease
  <2> QED BY <2>1, <2>2, <2>3, <2>4 DEF Document
<1> HIDE DEF e
<1>4. ASSUME NEW h \in Goals PROVE e[h] = goals[h] \/ Continues(goals, h, e[h])
  <2>1. CASE goals[h].worker # "live" BY <1>3, <2>1
  <2>2. CASE goals[h].worker = "live"
    <3>1. goals[h].status # "absent"
      BY <2>2 DEF IInv, Core, WorkOwned, Owner, PROJECT_OWNER_GOALS, RELEASED_GOALS
    <3>2. goals[h].effects \in {"claimed", "inflight", "unsettled"} => Owner(goals, h)
      BY DEF IInv, Core, WorkOwned
    <3>3. StatusMatchesClaim(e[h])
      BY <1>3 DEF StatusMatchesClaim
    <3> QED BY <1>3, <3>1, <3>2, <3>3 DEF Continues, Owner
  <2> QED BY <2>1, <2>2
<1>5. Core(e, admissions)
  BY <1>2, <1>4, ContinuesCore DEF IInv
<1>6. /\ \A h \in Goals : Owner(goals, h) => Owner(e, h)
      /\ \A h \in Goals : e[h].mode \in {goals[h].mode, "facilitator"}
      /\ \A h \in Goals : Waiter(e, h)
            => Waiter(goals, h) /\ e[h].blockedBy = goals[h].blockedBy /\ e[h].mode = goals[h].mode
  BY <1>3 DEF Owner, Waiter
<1>7. BlockersOwn(e) /\ Handover(goals, e)
  BY <1>6, ContinuesBlockers DEF IInv, Handover
<1> QED BY <1>1, <1>5, <1>7

LEMMA DeadNormalisedContinues ==
    ASSUME IInv, NEW h \in Goals, NEW uncertain \in BOOLEAN
    PROVE  \/ DeadNormalised(goals[h], uncertain) = goals[h]
           \/ Continues(goals, h, DeadNormalised(goals[h], uncertain))
<1> DEFINE r == DeadNormalised(goals[h], uncertain)
           effect == IF goals[h].effects = "inflight" /\ uncertain THEN "unsettled" ELSE "settled"
           status == IF goals[h].status = "cancelling" THEN "cancelling" ELSE "paused"
<1>1. goals[h] \in Document /\ StatusMatchesClaim(goals[h]) BY WellFormedDocuments
<1>2. CASE goals[h].worker = "dead" /\ goals[h].effects \in {"claimed", "inflight"}
  <2>1. Owner(goals, h) BY <1>2 DEF IInv, Core, WorkOwned
  <2>2. r = [goals[h] EXCEPT !.worker = "none", !.effects = effect, !.status = status]
    BY <1>1, <1>2 DEF DeadNormalised, Document
  <2>3. effect \in Effects /\ status \in {"cancelling", "paused"} BY DEF Effects
  <2> HIDE DEF effect, status
  <2>4. /\ r \in Document /\ r.status \in {"cancelling", "paused"} /\ r.claim = "owner"
        /\ r.worker = "none" /\ r.mode = goals[h].mode /\ r.born = goals[h].born
    BY <1>1, <2>1, <2>2, <2>3 DEF Document, Leases, Owner, Statuses, PROJECT_OWNER_GOALS
  <2>5. Continues(goals, h, r)
    <3> HIDE DEF r
    <3> QED BY <2>1, <2>4 DEF Continues, Owner, StatusMatchesClaim, RELEASED_GOALS,
               PROJECT_OWNER_GOALS
  <2> QED BY <2>5
<1>3. CASE ~(goals[h].worker = "dead" /\ goals[h].effects \in {"claimed", "inflight"})
  BY <1>3 DEF DeadNormalised
<1> QED BY <1>2, <1>3

\* Adopting saved chats, each with its own success or failure.
Adoptions(d, failed) ==
    [g \in Goals |-> IF ~Adoptable(d, g) THEN d[g]
                     ELSE IF g \in failed THEN MigrationFailed(d[g]) ELSE Adopted(d[g])]

LEMMA AdoptionsCore ==
    ASSUME NEW d, NEW n \in Nat, Core(d, n), NEW failed
    PROVE  Core(Adoptions(d, failed), n)
<1> DEFINE e == Adoptions(d, failed)
<1>1. \A g \in Goals : d[g] \in Document /\ StatusMatchesClaim(d[g])
  BY DEF Core, WellFormed
<1>2. CASE LegacyChats = {}
  <2>1. CopiesOnly(d) BY <1>2 DEF Core, Exclusive
  <2>2. \A g \in Goals : ~Adoptable(d, g)
    BY <2>1 DEF CopiesOnly, Adoptable, Owner, Waiter, PROJECT_OWNER_GOALS
  <2>3. d = [g \in Goals |-> d[g]] BY DEF Core, WellFormed
  <2>4. e = d BY <2>2, <2>3 DEF Adoptions
  <2> QED BY <2>4
<1>3. CASE LegacyChats # {}
  <2>1. ASSUME NEW g \in Goals, Adoptable(d, g)
        PROVE  /\ e[g] \in Document /\ StatusMatchesClaim(e[g]) /\ e[g].status # "absent"
               /\ e[g].born = d[g].born /\ d[g].status # "absent"
               /\ e[g].effects \in {"pristine", "settled"}
               /\ e[g].worker # "live"
    <3>1. /\ d[g].effects \in {"pristine", "settled"} /\ d[g].worker # "live"
          /\ d[g].status \notin TERMINAL_GOALS \cup {"cancelling"}
          /\ Owner(d, g) \/ Waiter(d, g)
          /\ d[g].status # "absent"
      BY <2>1 DEF Adoptable, Owner, Waiter, PROJECT_OWNER_GOALS
    <3>2. CASE g \in failed
      <4> DEFINE status == IF d[g].status \in {"waiting_for_project", "waiting_for_user"}
                           THEN d[g].status ELSE "paused"
      <4>1. e[g] = [d[g] EXCEPT !.armed = FALSE, !.status = status]
        BY <1>1, <2>1, <3>2 DEF Adoptions, MigrationFailed, Document
      <4>2. status \in Statuses BY DEF Statuses, PROJECT_OWNER_GOALS
      <4>3. status = "paused" => d[g].claim = "owner"
        BY <1>1, <3>1 DEF Owner, Waiter, StatusMatchesClaim, PROJECT_OWNER_GOALS
      <4>4. status = "paused" \/ (status = d[g].status /\ status # "absent") BY <3>1
      <4> HIDE DEF status, e
      <4>5. /\ e[g].status = status /\ e[g].claim = d[g].claim /\ e[g] \in Document
            /\ e[g].born = d[g].born /\ e[g].effects = d[g].effects
            /\ e[g].worker = d[g].worker
        BY <1>1, <4>1, <4>2 DEF Document
      <4>6. StatusMatchesClaim(e[g])
        BY <1>1, <4>3, <4>4, <4>5 DEF StatusMatchesClaim, RELEASED_GOALS, PROJECT_OWNER_GOALS
      <4> QED BY <3>1, <4>4, <4>5, <4>6
    <3>3. CASE g \notin failed /\ d[g].status = "waiting_for_project"
      <4> DEFINE armed == (d[g].effects = "pristine")
      <4>1. e[g] = [d[g] EXCEPT !.mode = "isolated", !.status = "queued", !.claim = "owner",
                                !.armed = armed, !.blockedBy = None]
        BY <2>1, <3>3 DEF Adoptions, Adopted
      <4>2. armed \in BOOLEAN OBVIOUS
      <4> HIDE DEF armed, e
      <4>3. /\ e[g].status = "queued" /\ e[g].claim = "owner" /\ e[g] \in Document
            /\ e[g].born = d[g].born /\ e[g].effects = d[g].effects
            /\ e[g].worker = d[g].worker
        BY <1>1, <4>1, <4>2 DEF Document, Statuses, PROJECT_OWNER_GOALS, Claims, Modes
      <4> QED BY <3>1, <4>3 DEF StatusMatchesClaim, RELEASED_GOALS
    <3>4. CASE g \notin failed /\ d[g].status # "waiting_for_project"
      <4>1. e[g] = [d[g] EXCEPT !.mode = "isolated"]
        BY <2>1, <3>4 DEF Adoptions, Adopted
      <4> HIDE DEF e
      <4>2. /\ e[g].status = d[g].status /\ e[g].claim = d[g].claim /\ e[g] \in Document
            /\ e[g].born = d[g].born /\ e[g].effects = d[g].effects
            /\ e[g].worker = d[g].worker
        BY <1>1, <4>1 DEF Document, Modes
      <4> QED BY <1>1, <3>1, <4>2 DEF StatusMatchesClaim
    <3> QED BY <3>2, <3>3, <3>4
  <2>2. \A g \in Goals : ~Adoptable(d, g) => e[g] = d[g]
    BY DEF Adoptions
  <2>3. e = [g \in Goals |-> e[g]] BY DEF Adoptions
  <2> HIDE DEF e
  <2>4. WellFormed(e)
    BY <1>1, <2>1, <2>2, <2>3 DEF WellFormed
  <2>5. BirthOrder(e, n)
    <3>1. \A g \in Goals : e[g].born = d[g].born /\ (e[g].status = "absent" <=> d[g].status = "absent")
      BY <2>1, <2>2
    <3> QED BY <3>1 DEF Core, BirthOrder
  <2>6. WorkOwned(e)
    <3> SUFFICES ASSUME NEW g \in Goals
                 PROVE  /\ e[g].effects \in {"claimed", "inflight", "unsettled"} => Owner(e, g)
                        /\ e[g].worker = "live" => Owner(e, g) \/ e[g].status \in RELEASED_GOALS
      BY DEF WorkOwned
    <3>1. CASE Adoptable(d, g) BY <2>1, <3>1
    <3>2. CASE ~Adoptable(d, g) BY <2>2, <3>2 DEF Core, WorkOwned, Owner
    <3> QED BY <3>1, <3>2
  <2> QED BY <1>3, <2>4, <2>5, <2>6 DEF Core, Exclusive, e
<1> QED BY <1>2, <1>3

\* recover_orphaned_queue changes neither who owns nor who waits.
LEMMA OrphanNormalisedInv ==
    ASSUME NEW d, NEW n \in Nat, Core(d, n), BlockersOwn(d), AllBlocked(d)
    PROVE  LET e == [g \in Goals |-> OrphanNormalised(d[g])]
           IN  Core(e, n) /\ BlockersOwn(e) /\ AllBlocked(e)
<1> DEFINE e == [g \in Goals |-> OrphanNormalised(d[g])]
<1>1. ASSUME NEW g \in Goals
      PROVE  /\ e[g] = d[g] \/ Continues(d, g, e[g])
             /\ Owner(d, g) <=> Owner(e, g)
             /\ Waiter(d, g) <=> Waiter(e, g)
             /\ e[g].mode = d[g].mode /\ e[g].blockedBy = d[g].blockedBy
  <2>1. d[g] \in Document /\ StatusMatchesClaim(d[g]) BY DEF Core, WellFormed
  <2>2. CASE e[g] = d[g] BY <2>2 DEF Owner, Waiter
  <2>3. CASE e[g] # d[g]
    <3>1. d[g].status = "queued" /\ d[g].worker # "live"
      BY <2>3 DEF OrphanNormalised
    <3>2. e[g] = [d[g] EXCEPT !.worker = "none"]
          \/ e[g] = [d[g] EXCEPT !.worker = "none", !.status = "paused"]
      BY <2>3 DEF OrphanNormalised
    <3>3. d[g].claim = "owner"
      BY <2>1, <3>1 DEF StatusMatchesClaim, PROJECT_OWNER_GOALS
    <3> HIDE DEF e
    <3>4. /\ e[g] \in Document /\ e[g].status \in {"queued", "paused"} /\ e[g].claim = "owner"
          /\ e[g].born = d[g].born /\ e[g].mode = d[g].mode /\ e[g].worker = "none"
          /\ e[g].blockedBy = d[g].blockedBy
      BY <2>1, <3>1, <3>2, <3>3 DEF Document, Statuses, PROJECT_OWNER_GOALS, Leases
    <3>5. Owner(d, g) /\ Owner(e, g) /\ ~Waiter(d, g) /\ ~Waiter(e, g)
      BY <3>1, <3>3, <3>4 DEF Owner, Waiter, PROJECT_OWNER_GOALS
    <3>6. Continues(d, g, e[g])
      BY <3>1, <3>4, <3>5 DEF Continues, StatusMatchesClaim, RELEASED_GOALS, PROJECT_OWNER_GOALS
    <3> QED BY <3>4, <3>5, <3>6
  <2> QED BY <2>2, <2>3
<1>2. e = [g \in Goals |-> e[g]] OBVIOUS
<1> HIDE DEF e
<1>3. Core(e, n)
  BY <1>1, <1>2, ContinuesCore
<1>4. BlockersOwn(e)
  BY <1>1, ContinuesBlockers
<1>5. AllBlocked(e)
  <2>1. \A g, h \in Goals : Overlap(e, g, h) <=> Overlap(d, g, h)
    BY <1>1 DEF Overlap, ConcurrentCopy
  <2>2. \A g \in Goals : SharedOwners(e, g) = SharedOwners(d, g)
    BY <1>1, <2>1 DEF SharedOwners
  <2> QED BY <1>1, <2>2 DEF AllBlocked
<1> QED BY <1>3, <1>4, <1>5 DEF e

LEMMA RecoverAllInv ==
    ASSUME IInv, RecoverAll
    PROVE  Core(goals', admissions') /\ BlockersOwn(goals') /\ Handover(goals, goals')
<1>1. PICK uncertain \in SUBSET {g \in Goals : goals[g].effects = "inflight"},
           failed \in SUBSET LegacyChats :
         LET d1 == [g \in Goals |-> DeadNormalised(goals[g], g \in uncertain)]
             d2 == Adoptions(d1, failed)
         IN  \E P \in SUBSET Waiters(d2) :
                /\ Eligible(d2, P)
                /\ goals' = [g \in Goals |-> OrphanNormalised(Promoted(d2, P, TRUE)[g])]
  BY DEF RecoverAll, Adoptions
<1> DEFINE d1 == [g \in Goals |-> DeadNormalised(goals[g], g \in uncertain)]
           d2 == Adoptions(d1, failed)
<1>2. Core(d1, admissions)
  <2>1. d1 = [g \in Goals |-> d1[g]] OBVIOUS
  <2>2. ASSUME NEW g \in Goals PROVE d1[g] = goals[g] \/ Continues(goals, g, d1[g])
    <3>1. (g \in uncertain) \in BOOLEAN OBVIOUS
    <3>2. d1[g] = DeadNormalised(goals[g], g \in uncertain) OBVIOUS
    <3> QED BY <3>1, <3>2, DeadNormalisedContinues
  <2> HIDE DEF d1
  <2> QED BY <2>1, <2>2, ContinuesCore DEF IInv
<1>3. Core(d2, admissions)
  <2> HIDE DEF d1
  <2> QED BY <1>2, AdoptionsCore DEF IInv
<1>4. PICK P \in SUBSET Waiters(d2) :
         /\ Eligible(d2, P)
         /\ goals' = [g \in Goals |-> OrphanNormalised(Promoted(d2, P, TRUE)[g])]
  BY <1>1
<1> HIDE DEF d1, d2
<1>5. /\ Core(Promoted(d2, P, TRUE), admissions)
      /\ BlockersOwn(Promoted(d2, P, TRUE)) /\ AllBlocked(Promoted(d2, P, TRUE))
  BY <1>3, <1>4, PromotedCore DEF IInv
<1>6. Core(goals', admissions) /\ BlockersOwn(goals') /\ AllBlocked(goals')
  BY <1>4, <1>5, OrphanNormalisedInv DEF IInv
<1>7. admissions' = admissions BY DEF RecoverAll
<1> QED BY <1>6, <1>7 DEF Handover

-----------------------------------------------------------------------------
\* The invariant is inductive, and a release hands the project over.

LEMMA InitInv == Init => IInv
<1> SUFFICES ASSUME Init PROVE IInv
  OBVIOUS
<1>1. Absent \in Document /\ Absent.status = "absent" /\ Absent.claim = "released"
      /\ Absent.effects = "pristine" /\ Absent.worker = "none"
  BY DEF Absent, Document, Statuses, Claims, Modes, Effects, Leases
<1>2. goals \in [Goals -> Document] /\ \A g \in Goals : goals[g] = Absent
  BY <1>1 DEF Init
<1> HIDE DEF Absent
<1>3. WellFormed(goals)
  BY <1>1, <1>2 DEF WellFormed, StatusMatchesClaim, PROJECT_OWNER_GOALS
<1>4. \A g \in Goals : ~Owner(goals, g) /\ ~Waiter(goals, g)
  BY <1>1, <1>2 DEF Owner, Waiter, PROJECT_OWNER_GOALS
<1>5. BirthOrder(goals, admissions)
  BY <1>1, <1>2 DEF BirthOrder
<1>6. WorkOwned(goals)
  BY <1>1, <1>2 DEF WorkOwned
<1>7. Exclusive(goals)
  BY <1>1, <1>2, <1>4, QueueAssumption DEF Exclusive, CopiesOnly, OwnersConflict
<1>8. BlockersOwn(goals)
  BY <1>4 DEF BlockersOwn
<1> QED BY <1>3, <1>5, <1>6, <1>7, <1>8 DEF IInv, Core, Init

LEMMA NextInv ==
    ASSUME IInv, [Next]_vars
    PROVE  IInv' /\ Handover(goals, goals')
<1> DEFINE Kept == Core(goals', admissions') /\ BlockersOwn(goals') /\ Handover(goals, goals')
<1> SUFFICES /\ Kept
             /\ admissions' \in Nat /\ crashes' \in Nat
             /\ phase' \in {"down", "opened", "recovering", "up"}
  BY DEF IInv, Core, WellFormed, BirthOrder, WorkOwned, Exclusive, CopiesOnly, OwnersConflict,
     Owner, Waiter, Overlap, ConcurrentCopy, BlockersOwn, StatusMatchesClaim
<1> USE DEF IInv
<1>1. ASSUME NEW g \in Goals, NEW m \in ModesOf[g], Create(g, m)
      PROVE  Kept /\ admissions' \in Nat /\ UNCHANGED <<phase, crashes>>
  BY <1>1, CreateInv DEF Create
<1>2. ASSUME NEW g \in Goals, NEW automatic \in BOOLEAN, StartBackground(g, automatic)
      PROVE  Kept /\ UNCHANGED <<admissions, phase, crashes>>
  BY <1>2, StartBackgroundInv DEF StartBackground
<1>3. ASSUME NEW g \in Goals, ClaimReady(g)
      PROVE  Kept /\ UNCHANGED <<admissions, phase, crashes>>
  BY <1>3, ClaimReadyInv DEF ClaimReady
<1>4. ASSUME NEW g \in Goals, RecordDispatch(g)
      PROVE  Kept /\ UNCHANGED <<admissions, phase, crashes>>
  BY <1>4, RecordDispatchInv DEF RecordDispatch
<1>5. ASSUME NEW g \in Goals, NEW effect \in {"settled", "unsettled"},
             NEW next \in {"queued", "paused", "waiting_for_user"}, EndTurn(g, effect, next)
      PROVE  Kept /\ UNCHANGED <<admissions, phase, crashes>>
  BY <1>5, EndTurnInv DEF EndTurn
<1>6. ASSUME NEW g \in Goals, AnswerUser(g)
      PROVE  Kept /\ UNCHANGED <<admissions, phase, crashes>>
  BY <1>6, AnswerUserInv DEF AnswerUser
<1>7. ASSUME NEW g \in Goals, CompleteVerification(g)
      PROVE  Kept /\ UNCHANGED <<admissions, phase, crashes>>
  BY <1>7, CompleteVerificationInv DEF CompleteVerification
<1>8. ASSUME NEW g \in Goals, Cancel(g)
      PROVE  Kept /\ UNCHANGED <<admissions, phase, crashes>>
  BY <1>8, CancelInv DEF Cancel
<1>9. ASSUME NEW g \in Goals, StopRun(g)
      PROVE  Kept /\ UNCHANGED <<admissions, phase, crashes>>
  BY <1>9, StopRunInv DEF StopRun
<1>10. ASSUME NEW g \in Goals, Pause(g)
       PROVE  Kept /\ UNCHANGED <<admissions, phase, crashes>>
  BY <1>10, PauseInv DEF Pause
<1>11. ASSUME NEW g \in Goals, Resume(g)
       PROVE  Kept /\ UNCHANGED <<admissions, phase, crashes>>
  BY <1>11, ResumeInv DEF Resume
<1>12. ASSUME NEW g \in Goals, ResumeAsFacilitator(g)
       PROVE  Kept /\ UNCHANGED <<admissions, phase, crashes>>
  BY <1>12, ResumeAsFacilitatorInv DEF ResumeAsFacilitator
<1>13. ASSUME NEW g \in Goals, RetryReconciled(g)
       PROVE  Kept /\ UNCHANGED <<admissions, phase, crashes>>
  BY <1>13, RetryReconciledInv DEF RetryReconciled
<1>14. ASSUME NEW g \in Goals, AutomaticStartFailure(g)
       PROVE  Kept /\ UNCHANGED <<admissions, phase, crashes>>
  BY <1>14, AutomaticStartFailureInv DEF AutomaticStartFailure
<1>15. ASSUME NEW g \in Goals, RecoverCancelled(g)
       PROVE  Kept /\ UNCHANGED <<admissions, phase, crashes>>
  BY <1>15, RecoverCancelledInv DEF RecoverCancelled
<1>16. ASSUME ReconcileProjectQueue
       PROVE  Kept /\ UNCHANGED <<admissions, phase, crashes>>
  BY <1>16, PromoteInv DEF ReconcileProjectQueue
<1>17. ASSUME OpenStore
       PROVE  Kept /\ phase' = "opened" /\ UNCHANGED <<admissions, crashes>>
  BY <1>17, PromoteInv DEF OpenStore
<1>18. ASSUME Crash
       PROVE  Kept /\ phase' = "down" /\ crashes' = crashes + 1 /\ UNCHANGED admissions
  BY <1>18, CrashInv DEF Crash
<1>19. ASSUME RecoverAll
       PROVE  Kept /\ phase' = "recovering" /\ UNCHANGED <<admissions, crashes>>
  BY <1>19, RecoverAllInv DEF RecoverAll
<1>20. ASSUME goals' = goals /\ admissions' = admissions PROVE Kept
  BY <1>20 DEF Handover
<1>21. ASSUME RecoveryDone
       PROVE  Kept /\ phase' = "up" /\ UNCHANGED <<admissions, crashes>>
  BY <1>20, <1>21 DEF RecoveryDone
<1>22. ASSUME UNCHANGED vars PROVE Kept /\ UNCHANGED <<admissions, phase, crashes>>
  BY <1>20, <1>22 DEF vars
<1>23. ASSUME NEW g \in Goals, GoalNext(g)
       PROVE  Kept /\ admissions' \in Nat /\ UNCHANGED <<phase, crashes>>
  <2> HIDE DEF Kept
  <2> QED BY <1>1, <1>2, <1>3, <1>4, <1>5, <1>6, <1>7, <1>8, <1>9, <1>10, <1>11, <1>12, <1>13,
             <1>14, <1>15, <1>23 DEF GoalNext
<1> HIDE DEF Kept
<1> QED BY <1>16, <1>17, <1>18, <1>19, <1>21, <1>22, <1>23 DEF Next

THEOREM InductiveInvariant == Spec => []IInv
<1>1. IInv /\ [Next]_vars => IInv' BY NextInv
<1> QED BY InitInv, <1>1, PTL DEF Spec

-----------------------------------------------------------------------------
\* Documents stay well formed, and every status agrees with its claim.
THEOREM TypeCorrect == Spec => []TypeOK
<1>1. IInv => TypeOK BY DEF IInv, Core, WellFormed, TypeOK
<1> QED BY <1>1, InductiveInvariant, PTL

\* No goal with an unresolved provider or file effect gives its project up.
THEOREM UnsettledNeverReleased == Spec => []UnsettledKeepsOwnership
<1>1. IInv => UnsettledKeepsOwnership BY DEF IInv, Core, WorkOwned, UnsettledKeepsOwnership
<1> QED BY <1>1, InductiveInvariant, PTL

\* What a waiter reports as its blocker is always a current owner, and its project
\* overlaps the waiter's, unless it resumed as a facilitator since.
THEOREM WaitersNameOwners == Spec => []BlockerIsOwner
<1>1. IInv => BlockerIsOwner BY DEF IInv, BlockersOwn, Blocks, BlockerIsOwner
<1> QED BY <1>1, InductiveInvariant, PTL

\* Without saved chats that work in the project directory itself, two goals
\* whose projects overlap never both own it, across crashes and restarts.
THEOREM OneOwner == LegacyChats = {} => (Spec => []OwnerExclusion)
<1> SUFFICES ASSUME LegacyChats = {} PROVE Spec => []OwnerExclusion
  OBVIOUS
<1>1. IInv => OwnerExclusion BY DEF IInv, Core, Exclusive, OwnerExclusion
<1> QED BY <1>1, InductiveInvariant, PTL

\* The transaction that gives a project up leaves only blocked waiters behind.
THEOREM ReleaseHandsOver == Spec => ReleasePromotes
<1>1. IInv /\ [Next]_vars =>
         [(\E g \in Goals : Owner(goals, g) /\ ~Owner(goals', g))
             => \A w \in Goals : Waiter(goals', w) => SharedOwners(goals', w) # {}]_vars
  BY NextInv DEF Handover, AllBlocked
<1> QED BY <1>1, InductiveInvariant, PTL DEF Spec, ReleasePromotes

-----------------------------------------------------------------------------
\* Who runs, and who is let in first: what a step from documents d to
\* documents e may do to the schedulers and to the order of the queue.

Runs(d, g) == d[g].worker = "live" /\ d[g].status \notin RELEASED_GOALS

RunnersApart(d) ==
    \A g, h \in Goals : g # h /\ Overlap(d, g, h) => ~(Runs(d, g) /\ Runs(d, h))

RunnersOnlyStop(d, e) ==
    \A g \in Goals : Runs(e, g) => Runs(d, g) /\ e[g].mode = d[g].mode

NobodyLetIn(d, e) ==
    \A g \in Goals : Owner(e, g) => d[g].status \notin {"absent", "waiting_for_project"}

Fair(d, e) ==
    \A g, w \in Goals :
       /\ d[g].status \in {"absent", "waiting_for_project"}
       /\ Owner(e, g)
       /\ Waiter(d, w) /\ Waiter(e, w)
       /\ SameScope(e, g, w)
       => e[g].born < e[w].born

Keeps(d, e) == (RunnersApart(d) => RunnersApart(e)) /\ (LegacyChats = {} => Fair(d, e))

LEMMA StoppingKeepsApart ==
    ASSUME NEW d, NEW e, RunnersOnlyStop(d, e), RunnersApart(d) PROVE RunnersApart(e)
<1> SUFFICES ASSUME NEW g \in Goals, NEW h \in Goals, g # h, Overlap(e, g, h),
                    Runs(e, g), Runs(e, h)
             PROVE  FALSE
  BY DEF RunnersApart
<1>1. /\ Runs(d, g) /\ e[g].mode = d[g].mode
      /\ Runs(d, h) /\ e[h].mode = d[h].mode
  BY DEF RunnersOnlyStop
<1>2. Overlap(d, g, h) BY <1>1 DEF Overlap, ConcurrentCopy
<1> QED BY <1>1, <1>2 DEF RunnersApart

LEMMA QuietKeeps ==
    ASSUME NEW d, NEW e, RunnersOnlyStop(d, e), NobodyLetIn(d, e) PROVE Keeps(d, e)
<1>1. Fair(d, e) BY DEF Fair, NobodyLetIn
<1> QED BY <1>1, StoppingKeepsApart DEF Keeps

\* Of two goals of one scope, a pass that lets only the first in saw an older
\* one: whatever keeps the second out would have kept out a younger first.
LEMMA PassOrder ==
    ASSUME NEW d, NEW n, Core(d, n), NEW P \in SUBSET Waiters(d), Eligible(d, P),
           NEW g \in P, NEW w \in Waiters(d) \ P,
           \A x \in Goals \ {g, w} :
              Owner(d, x) \/ x \in P => (Overlap(d, x, w) => Overlap(d, x, g))
    PROVE  d[g].born < d[w].born
<1>1. g \in Goals /\ w \in Goals /\ ~Owner(d, g) /\ g \in Waiters(d)
  BY DEF Waiters, Waiter, Owner, PROJECT_OWNER_GOALS
<1>2. Rivals(d, P, g) = {} /\ Rivals(d, P, w) # {}
  BY <1>1 DEF Eligible
<1>3. PICK o \in Goals \ {w} : /\ Owner(d, o) \/ (o \in P /\ d[o].born < d[w].born)
                               /\ Overlap(d, w, o)
  BY <1>2 DEF Rivals
<1>4. CASE o = g
  BY <1>1, <1>3, <1>4
<1>5. CASE o # g
  <2>1. Overlap(d, o, w)
    BY <1>1, <1>3, QueueAssumption DEF Overlap
  <2>2. Overlap(d, o, g)
    BY <1>3, <1>5, <2>1
  <2>3. Overlap(d, g, o)
    BY <1>1, <2>2, QueueAssumption DEF Overlap
  <2>4. ~Owner(d, o) /\ ~(o \in P /\ d[o].born < d[g].born)
    BY <1>2, <1>5, <2>3 DEF Rivals
  <2>5. o \in P /\ d[o].born < d[w].born /\ ~(d[o].born < d[g].born)
    BY <1>3, <2>4
  <2>6. d[o].born \in Nat /\ d[g].born \in Nat /\ d[w].born \in Nat
    BY <1>1 DEF Core, WellFormed, Document
  <2>7. d[g].born <= d[o].born
    BY <2>5, <2>6
  <2> QED BY <2>5, <2>6, <2>7
<1> QED BY <1>4, <1>5

\* A pass over b, reached from d without letting anybody in, that ends in e.
LEMMA PassKeeps ==
    ASSUME NEW d, NEW b, NEW e, NEW n, Core(b, n), NEW P \in SUBSET Waiters(b),
           Eligible(b, P), RunnersOnlyStop(d, e), NobodyLetIn(d, b),
           \A h \in Goals : Owner(e, h) => Owner(b, h) \/ h \in P,
           \A h \in Goals : Waiter(e, h) => h \in Waiters(b) \ P,
           \A h, k \in Goals : Overlap(e, h, k) <=> Overlap(b, h, k),
           \A h \in Goals : e[h].born = b[h].born
    PROVE  Keeps(d, e)
<1>1. ASSUME NEW g \in Goals, NEW w \in Goals,
             d[g].status \in {"absent", "waiting_for_project"},
             Owner(e, g), Waiter(e, w), SameScope(e, g, w)
      PROVE  e[g].born < e[w].born
  <2>1. g \in P /\ w \in Waiters(b) \ P
    BY <1>1 DEF NobodyLetIn
  <2>2. \A x \in Goals \ {g, w} : Overlap(b, x, w) => Overlap(b, x, g)
    BY <1>1 DEF SameScope
  <2>3. b[g].born < b[w].born
    BY <2>1, <2>2, PassOrder
  <2> QED BY <2>3
<1>2. Fair(d, e) BY <1>1 DEF Fair
<1> QED BY <1>2, StoppingKeepsApart DEF Keeps

\* A pass starts and stops no scheduler.
LEMMA PromotedRunners ==
    ASSUME NEW d, NEW n, Core(d, n), NEW P \in SUBSET Waiters(d), Eligible(d, P),
           NEW auto \in BOOLEAN
    PROVE  RunnersOnlyStop(d, Promoted(d, P, auto))
<1> DEFINE e == Promoted(d, P, auto)
<1>1. /\ \A w \in Waiters(d) \ P :
            e[w] = [d[w] EXCEPT !.blockedBy = Oldest(d, Rivals(d, P, w))]
      /\ \A g \in Goals \ Waiters(d) : e[g] = d[g]
      /\ \A g \in Goals : e[g].mode = d[g].mode /\ e[g].worker = d[g].worker
  BY PromotedTyped
<1> SUFFICES ASSUME NEW g \in Goals, Runs(e, g) PROVE d[g].status \notin RELEASED_GOALS
  BY <1>1 DEF RunnersOnlyStop, Runs
<1>2. CASE g \in Waiters(d) BY <1>2 DEF Waiters, Waiter, RELEASED_GOALS
<1>3. CASE g \notin Waiters(d) BY <1>1, <1>3 DEF Runs
<1> QED BY <1>2, <1>3

LEMMA PromotedBirths ==
    ASSUME NEW d, NEW n, Core(d, n), NEW P \in SUBSET Waiters(d), Eligible(d, P),
           NEW auto \in BOOLEAN
    PROVE  /\ WellFormed(Promoted(d, P, auto))
           /\ \A g \in Goals : Promoted(d, P, auto)[g].born = d[g].born
BY PromotedTyped

LEMMA StoppingTwice ==
    ASSUME NEW d, NEW b, NEW e, RunnersOnlyStop(d, b), RunnersOnlyStop(b, e)
    PROVE  RunnersOnlyStop(d, e)
BY DEF RunnersOnlyStop

LEMMA PromoteKeeps ==
    ASSUME NEW d, NEW b, NEW n, Core(b, n), RunnersOnlyStop(d, b), NobodyLetIn(d, b),
           NEW P \in SUBSET Waiters(b), Eligible(b, P), NEW auto \in BOOLEAN
    PROVE  Keeps(d, Promoted(b, P, auto))
<1> DEFINE e == Promoted(b, P, auto)
<1>1. RunnersOnlyStop(d, e)
  BY PromotedRunners, StoppingTwice
<1>2. /\ \A g \in Goals : Owner(e, g) <=> (Owner(b, g) \/ g \in P)
      /\ \A g \in Goals : Waiter(e, g) <=> g \in Waiters(b) \ P
      /\ \A g, h \in Goals : Overlap(e, g, h) <=> Overlap(b, g, h)
      /\ \A g \in Goals : e[g].born = b[g].born
  BY PromotedOwners, PromotedTyped
<1> HIDE DEF e
<1>3. Keeps(d, e) BY <1>1, <1>2, PassKeeps
<1> QED BY <1>3 DEF e

\* One document is replaced by one that starts nothing and takes nothing.
LEMMA OneQuiet ==
    ASSUME IInv, NEW g \in Goals, NEW r,
           Runs(goals, g) \/ r.worker # "live" \/ r.status \in RELEASED_GOALS,
           r.mode = goals[g].mode \/ r.worker # "live" \/ r.status \in RELEASED_GOALS,
           goals[g].status \notin {"absent", "waiting_for_project"}
              \/ r.status \notin PROJECT_OWNER_GOALS \/ r.claim # "owner"
    PROVE  /\ RunnersOnlyStop(goals, [goals EXCEPT ![g] = r])
           /\ NobodyLetIn(goals, [goals EXCEPT ![g] = r])
<1> DEFINE e == [goals EXCEPT ![g] = r]
<1>1. e[g] = r /\ \A h \in Goals \ {g} : e[h] = goals[h]
  BY WellFormedDocuments
<1> HIDE DEF e
<1>2. RunnersOnlyStop(goals, e) BY <1>1 DEF RunnersOnlyStop, Runs
<1>3. NobodyLetIn(goals, e)
  BY <1>1 DEF NobodyLetIn, Owner, PROJECT_OWNER_GOALS
<1> QED BY <1>2, <1>3 DEF e

\* A _mutate transaction that starts nothing.
LEMMA MutateKeeps ==
    ASSUME IInv, NEW g \in Goals, NEW r, Mutate(g, r), Continues(goals, g, Released(r)),
           \/ Released(r).worker # "live"
           \/ goals[g].worker = "live" /\ Released(r).mode = goals[g].mode
    PROVE  Keeps(goals, goals')
<1> DEFINE s == Released(r)
           d == [goals EXCEPT ![g] = s]
<1>1. /\ goals \in [Goals -> Document]
      /\ d = [h \in Goals |-> d[h]] /\ d[g] = s
      /\ \A h \in Goals \ {g} : d[h] = goals[h]
  BY DEF IInv, Core, WellFormed
<1> HIDE DEF s
<1>2. Core(d, admissions)
  <2>1. \A h \in Goals : d[h] = goals[h] \/ Continues(goals, h, d[h])
    BY <1>1 DEF s
  <2> HIDE DEF d
  <2> QED BY <1>1, <2>1, ContinuesCore DEF IInv
<1>3. RunnersOnlyStop(goals, d) /\ NobodyLetIn(goals, d)
  <2>1. s.status \in PROJECT_OWNER_GOALS /\ s.claim = "owner" => Owner(goals, g)
    BY DEF Continues, s
  <2>2. Owner(goals, g) => goals[g].status \notin RELEASED_GOALS \cup {"absent", "waiting_for_project"}
    BY DEF Owner, PROJECT_OWNER_GOALS, RELEASED_GOALS
  <2>3. s.worker = "live" => (s.status \in PROJECT_OWNER_GOALS /\ s.claim = "owner")
                             \/ s.status \in RELEASED_GOALS
    BY DEF Continues, s
  <2>4. s.worker # "live" \/ (goals[g].worker = "live" /\ s.mode = goals[g].mode)
    BY DEF s
  <2>5. Runs(goals, g) \/ s.worker # "live" \/ s.status \in RELEASED_GOALS
    BY <2>1, <2>2, <2>3, <2>4 DEF Runs
  <2> QED BY <2>1, <2>2, <2>4, <2>5, OneQuiet
<1>4. CASE Owner(goals, g) /\ ~Owner(d, g)
  <2>1. PICK P \in SUBSET Waiters(d) : Eligible(d, P) /\ goals' = Promoted(d, P, TRUE)
    BY <1>4 DEF Mutate, PromoteEligibleWaiters, s
  <2> QED BY <1>2, <1>3, <2>1, PromoteKeeps
<1>5. CASE ~(Owner(goals, g) /\ ~Owner(d, g))
  <2>1. goals' = d BY <1>5 DEF Mutate, s
  <2> QED BY <1>3, <2>1, QuietKeeps
<1> QED BY <1>4, <1>5

\* A scheduler starts only where no overlapping goal owns, and so runs.
LEMMA StartKeeps ==
    ASSUME IInv, NEW g \in Goals, NEW automatic \in BOOLEAN, StartBackground(g, automatic)
    PROVE  Keeps(goals, goals')
<1> DEFINE r == [goals[g] EXCEPT !.worker = "live"]
           e == [goals EXCEPT ![g] = r]
<1>1. /\ goals \in [Goals -> Document] /\ goals[g] \in Document
      /\ Owner(goals, g) /\ goals[g].status = "queued" /\ SharedOwners(goals, g) = {}
  BY WellFormedDocuments DEF StartBackground, Competing
<1>2. /\ goals' = e
      /\ \A h \in Goals \ {g} : e[h] = goals[h]
      /\ \A h \in Goals : e[h].mode = goals[h].mode /\ e[h].status = goals[h].status
      /\ \A h \in Goals : e[h].claim = goals[h].claim
  <2>1. e[g] = r /\ \A h \in Goals \ {g} : e[h] = goals[h] BY <1>1
  <2>2. r.mode = goals[g].mode /\ r.status = goals[g].status /\ r.claim = goals[g].claim
    BY <1>1 DEF Document
  <2>3. goals' = e BY <1>1 DEF StartBackground
  <2> HIDE DEF r, e
  <2> QED BY <2>1, <2>2, <2>3
<1> HIDE DEF r, e
<1>3. \A h, k \in Goals : Overlap(e, h, k) <=> Overlap(goals, h, k)
  BY <1>2 DEF Overlap, ConcurrentCopy
<1>4. ASSUME RunnersApart(goals), NEW h \in Goals, NEW k \in Goals, h # k, Overlap(e, h, k),
             Runs(e, h), Runs(e, k)
      PROVE  FALSE
  <2>1. Overlap(goals, h, k) /\ Overlap(goals, k, h)
    BY <1>3, <1>4, QueueAssumption DEF Overlap
  <2>2. ASSUME NEW o \in Goals, o # g, Runs(e, o), Overlap(goals, g, o) PROVE FALSE
    <3>1. Runs(goals, o) BY <1>2, <2>2 DEF Runs
    <3>2. Owner(goals, o) BY <3>1 DEF IInv, Core, WorkOwned, Runs
    <3> QED BY <1>1, <2>2, <3>2 DEF SharedOwners
  <2>3. h # g /\ k # g BY <1>4, <2>1, <2>2
  <2>4. Runs(goals, h) /\ Runs(goals, k) BY <1>2, <1>4, <2>3 DEF Runs
  <2> QED BY <1>4, <2>1, <2>4 DEF RunnersApart
<1>5. Fair(goals, e)
  BY <1>2 DEF Fair, Owner, PROJECT_OWNER_GOALS
<1> QED BY <1>2, <1>4, <1>5 DEF Keeps, RunnersApart

\* The steps of a turn, and the user's controls, change one document in place.
LEMMA InPlaceKeeps ==
    ASSUME IInv, NEW g \in Goals,
           \/ ClaimReady(g) \/ RecordDispatch(g)
           \/ \E effect \in {"settled", "unsettled"},
                 next \in {"queued", "paused", "waiting_for_user"} : EndTurn(g, effect, next)
           \/ AnswerUser(g) \/ Pause(g) \/ Resume(g) \/ ResumeAsFacilitator(g)
           \/ RetryReconciled(g)
    PROVE  Keeps(goals, goals')
<1> DEFINE Quiet(r) ==
             /\ goals' = [goals EXCEPT ![g] = r]
             /\ Runs(goals, g) \/ r.worker # "live" \/ r.status \in RELEASED_GOALS
             /\ r.mode = goals[g].mode \/ r.worker # "live" \/ r.status \in RELEASED_GOALS
             /\ goals[g].status \notin {"absent", "waiting_for_project"}
<1>1. ASSUME NEW r, Quiet(r) PROVE Keeps(goals, goals')
  BY <1>1, OneQuiet, QuietKeeps
<1>2. goals \in [Goals -> Document] /\ goals[g] \in Document /\ StatusMatchesClaim(goals[g])
  BY WellFormedDocuments
<1>3. goals[g].effects \in {"claimed", "inflight", "unsettled"}
      => Owner(goals, g) /\ goals[g].status \notin RELEASED_GOALS
  BY DEF IInv, Core, WorkOwned, Owner, PROJECT_OWNER_GOALS, RELEASED_GOALS
<1>4. CASE ClaimReady(g)
  <2> DEFINE r == [goals[g] EXCEPT !.status = "running", !.effects = "claimed"]
  <2>1. goals' = [goals EXCEPT ![g] = r] BY <1>2, <1>4 DEF ClaimReady
  <2>2. Quiet(r) BY <1>2, <1>4, <2>1 DEF ClaimReady, Runs, Document, RELEASED_GOALS
  <2> QED BY <1>1, <2>2
<1>5. CASE RecordDispatch(g)
  <2> DEFINE r == [goals[g] EXCEPT !.effects = "inflight", !.armed = FALSE]
  <2>1. goals' = [goals EXCEPT ![g] = r] BY <1>2, <1>5 DEF RecordDispatch
  <2>2. Quiet(r) BY <1>2, <1>5, <2>1 DEF RecordDispatch, Runs, Document, RELEASED_GOALS
  <2> QED BY <1>1, <2>2
<1>6. ASSUME NEW effect \in {"settled", "unsettled"},
             NEW next \in {"queued", "paused", "waiting_for_user"}, EndTurn(g, effect, next)
      PROVE  Keeps(goals, goals')
  <2> DEFINE status == IF goals[g].status \in {"queued", "running"} THEN next
                       ELSE goals[g].status
             r == [goals[g] EXCEPT !.effects = effect, !.status = status]
  <2>1. goals' = [goals EXCEPT ![g] = r] BY <1>2, <1>6 DEF EndTurn
  <2>2. Owner(goals, g) /\ goals[g].status \notin RELEASED_GOALS /\ goals[g].worker = "live"
    BY <1>3, <1>6 DEF EndTurn
  <2>3. r.mode = goals[g].mode BY <1>2 DEF Document
  <2>4. Quiet(r)
    <3> HIDE DEF r, status
    <3> QED BY <2>1, <2>2, <2>3 DEF Runs, Owner, PROJECT_OWNER_GOALS
  <2> QED BY <1>1, <2>4
<1>7. CASE AnswerUser(g)
  <2> DEFINE r == [goals[g] EXCEPT !.status = "queued"]
  <2>1. goals' = [goals EXCEPT ![g] = r] BY <1>2, <1>7 DEF AnswerUser
  <2>2. Quiet(r) BY <1>2, <1>7, <2>1 DEF AnswerUser, Runs, Document, RELEASED_GOALS
  <2> QED BY <1>1, <2>2
<1>8. CASE Pause(g)
  <2> DEFINE r == [goals[g] EXCEPT !.status = "paused", !.armed = FALSE]
  <2>1. goals' = [goals EXCEPT ![g] = r] BY <1>2, <1>8 DEF Pause
  <2>2. Quiet(r) BY <1>2, <1>8, <2>1 DEF Pause, Runs, Document, RELEASED_GOALS
  <2> QED BY <1>1, <2>2
<1>9. CASE Resume(g)
  <2> DEFINE blockers == SharedOwners(goals, g)
             r == IF goals[g].claim = "owner" THEN [goals[g] EXCEPT !.status = "queued"]
                  ELSE IF blockers = {}
                  THEN [goals[g] EXCEPT !.status = "queued", !.claim = "owner", !.armed = TRUE]
                  ELSE [goals[g] EXCEPT !.status = "waiting_for_project", !.claim = "waiting",
                                        !.armed = FALSE, !.blockedBy = Oldest(goals, blockers)]
  <2>1. goals' = [goals EXCEPT ![g] = r] BY <1>9 DEF Resume
  <2>2. goals[g].status \in {"paused", "failed"} BY <1>9 DEF Resume
  <2>3. r.mode = goals[g].mode /\ r.worker = goals[g].worker BY <1>2 DEF Document
  <2>4. Quiet(r)
    <3> HIDE DEF r
    <3> QED BY <2>1, <2>2, <2>3 DEF Runs, RELEASED_GOALS
  <2> QED BY <1>1, <2>4
<1>10. CASE ResumeAsFacilitator(g)
  <2> DEFINE r == [goals[g] EXCEPT !.mode = "facilitator", !.status = "queued"]
  <2>1. goals' = [goals EXCEPT ![g] = r] BY <1>2, <1>10 DEF ResumeAsFacilitator
  <2>2. r.worker # "live" BY <1>2, <1>10 DEF ResumeAsFacilitator, Document
  <2>3. Quiet(r)
    <3> HIDE DEF r
    <3> QED BY <1>10, <2>1, <2>2 DEF ResumeAsFacilitator
  <2> QED BY <1>1, <2>3
<1>11. CASE RetryReconciled(g)
  <2> DEFINE r == [goals[g] EXCEPT !.status = "queued", !.effects = "settled"]
  <2>1. goals' = [goals EXCEPT ![g] = r] BY <1>2, <1>11 DEF RetryReconciled
  <2>2. Quiet(r) BY <1>2, <1>11, <2>1 DEF RetryReconciled, Runs, Document, RELEASED_GOALS
  <2> QED BY <1>1, <2>2
<1> QED BY <1>4, <1>5, <1>6, <1>7, <1>8, <1>9, <1>10, <1>11

LEMMA SettleKeeps ==
    ASSUME IInv, NEW g \in Goals, goals[g].status # "absent", goals[g].worker # "live",
           \E s \in SettledForCancellation(goals[g]) : Mutate(g, s)
    PROVE  Keeps(goals, goals')
<1>1. PICK s \in SettledForCancellation(goals[g]) : Mutate(g, s)
  OBVIOUS
<1>2. goals[g] \in Document
  BY WellFormedDocuments
<1>3. s.worker # "live" /\ s = [s EXCEPT !.worker = s.worker]
  BY <1>1, <1>2 DEF SettledForCancellation, Document
<1>4. Continues(goals, g, Released([s EXCEPT !.worker = s.worker]))
  BY <1>1, <1>3, SettledContinues
<1>5. Continues(goals, g, Released(s))
  BY <1>3, <1>4
<1>6. Released(s).worker # "live"
  BY <1>1, <1>2, <1>3 DEF SettledForCancellation, Released, Document
<1> QED BY <1>1, <1>5, <1>6, MutateKeeps

\* The steps that may give a project up.
LEMMA EndingKeeps ==
    ASSUME IInv, NEW g \in Goals,
           \/ CompleteVerification(g) \/ Cancel(g) \/ StopRun(g)
           \/ AutomaticStartFailure(g) \/ RecoverCancelled(g)
    PROVE  Keeps(goals, goals')
<1>1. goals \in [Goals -> Document] /\ goals[g] \in Document /\ StatusMatchesClaim(goals[g])
  BY WellFormedDocuments
<1>2. CASE CompleteVerification(g)
  BY <1>2, CompletedContinues, MutateKeeps DEF CompleteVerification
<1>3. CASE Cancel(g)
  <2>1. goals[g].status # "absent" BY <1>3 DEF Cancel
  <2>2. CASE goals[g].worker = "live"
    <3> DEFINE r == [goals[g] EXCEPT !.status = "cancelling"]
    <3>1. goals' = [goals EXCEPT ![g] = r] BY <1>1, <1>3, <2>2 DEF Cancel
    <3>2. Runs(goals, g) BY <1>3, <2>2 DEF Cancel, Runs
    <3>3. r.mode = goals[g].mode BY <1>1 DEF Document
    <3>4. Owner(goals, g) BY <3>2 DEF IInv, Core, WorkOwned, Runs
    <3>5. goals[g].status \notin {"absent", "waiting_for_project"}
      BY <3>4 DEF Owner, PROJECT_OWNER_GOALS
    <3> HIDE DEF r
    <3> QED BY <3>1, <3>2, <3>3, <3>5, OneQuiet, QuietKeeps
  <2>3. CASE goals[g].worker # "live"
    BY <1>3, <2>1, <2>3, SettleKeeps DEF Cancel
  <2> QED BY <2>2, <2>3
<1>4. CASE StopRun(g)
  <2>1. goals[g].worker = "live" BY <1>4 DEF StopRun
  <2>2. CASE goals[g].status = "cancelling"
    <3>1. PICK s \in SettledForCancellation(goals[g]) : Mutate(g, [s EXCEPT !.worker = "none"])
      BY <1>4, <2>2 DEF StopRun
    <3> DEFINE r == [s EXCEPT !.worker = "none"]
    <3>2. Continues(goals, g, Released(r))
      BY <2>2, <3>1, SettledContinues
    <3>3. \/ r = [goals[g] EXCEPT !.status = "cancelled", !.worker = "none",
                                  !.effects = "settled"]
          \/ r = [goals[g] EXCEPT !.status = "paused", !.effects = "unsettled",
                                  !.worker = "none"]
      BY <1>1, <3>1 DEF SettledForCancellation, Document
    <3>4. Released(r).worker = "none"
      <4>1. /\ r.worker = "none"
            /\ [r EXCEPT !.claim = "released", !.armed = FALSE, !.blockedBy = None].worker = "none"
        BY <1>1, <3>3 DEF Document
      <4> HIDE DEF r
      <4> QED BY <4>1 DEF Released
    <3> HIDE DEF r
    <3> QED BY <3>1, <3>2, <3>4, MutateKeeps DEF r
  <2>3. CASE goals[g].status # "cancelling"
    <3> DEFINE r == [goals[g] EXCEPT !.worker = "none"]
    <3>1. goals' = [goals EXCEPT ![g] = r] BY <1>1, <1>4, <2>3 DEF StopRun
    <3>2. r.worker = "none" BY <1>1 DEF Document
    <3>3. goals[g].status \notin {"absent", "waiting_for_project"}
      BY <2>1 DEF IInv, Core, WorkOwned, Owner, PROJECT_OWNER_GOALS, RELEASED_GOALS
    <3> HIDE DEF r
    <3> QED BY <3>1, <3>2, <3>3, OneQuiet, QuietKeeps
  <2> QED BY <2>2, <2>3
<1>5. CASE AutomaticStartFailure(g)
  <2>1. PICK r : /\ Mutate(g, r) /\ Continues(goals, g, Released(r))
                 /\ Released(r).worker = "none"
    BY <1>5, StartFailureContinues
  <2> QED BY <2>1, MutateKeeps
<1>6. CASE RecoverCancelled(g)
  BY <1>6, SettleKeeps DEF RecoverCancelled, Undrained
<1> QED BY <1>2, <1>3, <1>4, <1>5, <1>6


\* Admission: those let in by the pass come before those it leaves, and the
\* newcomer owns only what nobody waits behind.
LEMMA CreateKeeps ==
    ASSUME IInv, NEW g \in Goals, NEW m \in ModesOf[g], Create(g, m)
    PROVE  Keeps(goals, goals')
<1>1. PICK P \in SUBSET Waiters(goals) :
         /\ Eligible(goals, P)
         /\ LET d == Promoted(goals, P, TRUE)
            IN  goals' = [d EXCEPT ![g] = Newcomer(d, g, m)]
  BY DEF Create
<1> DEFINE d == Promoted(goals, P, TRUE)
           r == Newcomer(d, g, m)
           fresh == [Absent EXCEPT !.status = "queued", !.claim = "owner", !.mode = m,
                                   !.armed = TRUE, !.born = admissions + 1]
           blockers == SharedOwners([d EXCEPT ![g] = fresh], g)
           e == [d EXCEPT ![g] = r]
<1>2. Core(goals, admissions) /\ goals[g].status = "absent"
  BY DEF IInv, Create
<1>3. /\ WellFormed(d) /\ RunnersOnlyStop(goals, d)
      /\ \A h \in Goals : Owner(d, h) <=> (Owner(goals, h) \/ h \in P)
      /\ \A h \in Goals : Waiter(d, h) <=> h \in Waiters(goals) \ P
      /\ \A h, k \in Goals : Overlap(d, h, k) <=> Overlap(goals, h, k)
      /\ \A h \in Goals : d[h].born = goals[h].born
  <2>1. WellFormed(d) /\ \A h \in Goals : d[h].born = goals[h].born
    BY <1>1, <1>2, PromotedBirths
  <2>2. RunnersOnlyStop(goals, d)
    BY <1>1, <1>2, PromotedRunners
  <2>3. /\ \A h \in Goals : Owner(d, h) <=> (Owner(goals, h) \/ h \in P)
        /\ \A h \in Goals : Waiter(d, h) <=> h \in Waiters(goals) \ P
        /\ \A h, k \in Goals : Overlap(d, h, k) <=> Overlap(goals, h, k)
    BY <1>1, <1>2, PromotedOwners
  <2> QED BY <2>1, <2>2, <2>3
<1>4. goals' = e /\ e[g] = r /\ \A h \in Goals \ {g} : e[h] = d[h]
  BY <1>1, <1>3 DEF WellFormed
<1>5. fresh.worker = "none" /\ fresh.mode = m /\ fresh.status = "queued"
  BY DEF Absent
<1>6. r = IF blockers = {} THEN fresh
          ELSE [fresh EXCEPT !.status = "waiting_for_project", !.claim = "waiting",
                             !.armed = FALSE, !.blockedBy = Oldest(d, blockers)]
  BY DEF Newcomer
<1>7. r.worker = "none" /\ r.mode = m
  BY <1>6 DEF Absent
<1>8. Owner(e, g) => blockers = {}
  <2>1. r.status \in PROJECT_OWNER_GOALS => blockers = {}
    BY <1>6 DEF Absent, PROJECT_OWNER_GOALS
  <2> QED BY <1>4, <2>1 DEF Owner
<1>9. d \in [Goals -> Document] BY <1>3 DEF WellFormed
<1>10. \A o \in Goals \ {g} : Owner(d, o) /\ Overlap(e, g, o) => o \in blockers
  BY <1>4, <1>5, <1>7, <1>9 DEF SharedOwners, Owner, Overlap, ConcurrentCopy
<1> HIDE DEF d, e, r, fresh, blockers
<1>11. RunnersOnlyStop(goals, e)
  BY <1>3, <1>4, <1>7 DEF RunnersOnlyStop, Runs
<1>12. \A h, k \in Goals \ {g} :
         /\ Owner(e, h) <=> Owner(d, h)
         /\ Waiter(e, h) <=> Waiter(d, h)
         /\ Overlap(e, h, k) <=> Overlap(goals, h, k)
         /\ e[h].born = goals[h].born
  <2>1. \A h, k \in Goals \ {g} : Overlap(e, h, k) <=> Overlap(d, h, k)
    BY <1>4 DEF Overlap, ConcurrentCopy
  <2>2. \A h \in Goals \ {g} : /\ Owner(e, h) <=> Owner(d, h)
                               /\ Waiter(e, h) <=> Waiter(d, h)
    BY <1>4 DEF Owner, Waiter
  <2> QED BY <1>3, <1>4, <2>1, <2>2
<1>13. g \notin Waiters(goals) /\ ~Owner(goals, g)
  BY <1>2 DEF Waiters, Waiter, Owner, PROJECT_OWNER_GOALS
<1>14. ASSUME NEW h \in Goals, NEW w \in Goals,
              goals[h].status \in {"absent", "waiting_for_project"}, Owner(e, h),
              Waiter(goals, w), Waiter(e, w), SameScope(e, h, w)
       PROVE  e[h].born < e[w].born
  <2>1. w # g /\ w \in Waiters(goals) \ P
    BY <1>3, <1>12, <1>13, <1>14 DEF Waiters
  <2>2. CASE h = g
    <3>1. Rivals(goals, P, w) # {} BY <1>1, <2>1 DEF Eligible
    <3>2. PICK o \in Goals \ {w} : (Owner(goals, o) \/ o \in P) /\ Overlap(goals, w, o)
      BY <3>1 DEF Rivals
    <3>3. o # g /\ Owner(d, o) BY <1>3, <1>13, <3>2
    <3>4. Overlap(e, w, o) BY <1>12, <2>1, <3>2, <3>3
    <3>5. Overlap(e, o, w) BY <3>4, QueueAssumption DEF Overlap
    <3>6. Overlap(e, o, g) BY <1>14, <2>2, <3>2, <3>3, <3>5 DEF SameScope
    <3>7. Overlap(e, g, o) BY <3>6, QueueAssumption DEF Overlap
    <3> QED BY <1>8, <1>10, <1>14, <2>2, <3>3, <3>7
  <2>3. CASE h # g
    <3>1. h \in P
      BY <1>3, <1>12, <1>14, <2>3 DEF Owner, PROJECT_OWNER_GOALS
    <3>2. \A x \in Goals \ {h, w} :
             Owner(goals, x) \/ x \in P => (Overlap(goals, x, w) => Overlap(goals, x, h))
      <4> TAKE x \in Goals \ {h, w}
      <4>1. CASE x = g BY <1>13, <4>1
      <4>2. CASE x # g
        BY <1>12, <1>14, <2>1, <2>3, <4>2 DEF SameScope
      <4> QED BY <4>1, <4>2
    <3>3. goals[h].born < goals[w].born
      BY <1>1, <1>2, <2>1, <3>1, <3>2, PassOrder
    <3> QED BY <1>12, <2>1, <2>3, <3>3
  <2> QED BY <2>2, <2>3
<1>15. Fair(goals, e) BY <1>14 DEF Fair
<1> QED BY <1>4, <1>11, <1>15, StoppingKeepsApart DEF Keeps

\* Recovery stops dead schedulers, moves chats to copies and holds one pass.
LEMMA RecoverAllKeeps ==
    ASSUME IInv, RecoverAll
    PROVE  Keeps(goals, goals')
<1>1. PICK uncertain \in SUBSET {g \in Goals : goals[g].effects = "inflight"},
           failed \in SUBSET LegacyChats :
         LET d1 == [g \in Goals |-> DeadNormalised(goals[g], g \in uncertain)]
             d2 == Adoptions(d1, failed)
         IN  \E P \in SUBSET Waiters(d2) :
                /\ Eligible(d2, P)
                /\ goals' = [g \in Goals |-> OrphanNormalised(Promoted(d2, P, TRUE)[g])]
  BY DEF RecoverAll, Adoptions
<1> DEFINE d1 == [g \in Goals |-> DeadNormalised(goals[g], g \in uncertain)]
           d2 == Adoptions(d1, failed)
<1>2. d1 = [g \in Goals |-> d1[g]] /\ \A g \in Goals : d1[g] = goals[g] \/ Continues(goals, g, d1[g])
  <2>1. ASSUME NEW g \in Goals PROVE d1[g] = goals[g] \/ Continues(goals, g, d1[g])
    <3>1. (g \in uncertain) \in BOOLEAN OBVIOUS
    <3>2. d1[g] = DeadNormalised(goals[g], g \in uncertain) OBVIOUS
    <3> QED BY <3>1, <3>2, DeadNormalisedContinues
  <2> QED BY <2>1
<1>3. \A g \in Goals : d1[g].worker = "live" => d1[g] = goals[g]
  <2> TAKE g \in Goals
  <2>1. goals[g] \in Document BY WellFormedDocuments
  <2>2. d1[g] = goals[g] \/ d1[g].worker = "none"
    BY <2>1 DEF DeadNormalised, Document
  <2> QED BY <2>2
<1> HIDE DEF d1
<1>4. Core(d1, admissions)
  BY <1>2, ContinuesCore DEF IInv
<1>5. RunnersOnlyStop(goals, d1)
  BY <1>3 DEF RunnersOnlyStop, Runs
<1>6. NobodyLetIn(goals, d1)
  BY <1>2 DEF NobodyLetIn, Continues, Owner, PROJECT_OWNER_GOALS
<1>7. Core(d2, admissions)
  BY <1>4, AdoptionsCore DEF IInv
<1>8. \A g \in Goals : d2[g].worker = "live" => d2[g] = d1[g]
  <2> TAKE g \in Goals
  <2>1. d1[g] \in Document BY <1>4 DEF Core, WellFormed
  <2>2. CASE ~Adoptable(d1, g) BY <2>2 DEF Adoptions
  <2>3. CASE Adoptable(d1, g)
    <3>1. d1[g].worker # "live" BY <2>3 DEF Adoptable
    <3>2. Adopted(d1[g]).worker = d1[g].worker
      BY <2>1 DEF Adopted, Document
    <3>3. MigrationFailed(d1[g]).worker = d1[g].worker
      BY <2>1 DEF MigrationFailed, Document
    <3> QED BY <2>3, <3>1, <3>2, <3>3 DEF Adoptions
  <2> QED BY <2>2, <2>3
<1>9. LegacyChats = {} => d2 = d1
  <2> SUFFICES ASSUME LegacyChats = {} PROVE d2 = d1 OBVIOUS
  <2>1. CopiesOnly(d1) BY <1>4 DEF Core, Exclusive
  <2>2. \A g \in Goals : ~Adoptable(d1, g)
    BY <2>1 DEF CopiesOnly, Adoptable, Owner, Waiter, PROJECT_OWNER_GOALS
  <2> QED BY <1>2, <2>2 DEF Adoptions
<1>10. PICK P \in SUBSET Waiters(d2) :
         /\ Eligible(d2, P)
         /\ goals' = [g \in Goals |-> OrphanNormalised(Promoted(d2, P, TRUE)[g])]
  BY <1>1 DEF d1
<1> HIDE DEF d2
<1> DEFINE b == Promoted(d2, P, TRUE)
<1>11. RunnersOnlyStop(goals, d2)
  BY <1>5, <1>8, StoppingTwice DEF RunnersOnlyStop, Runs
<1>12. Core(b, admissions) /\ RunnersOnlyStop(goals, b)
  BY <1>7, <1>10, <1>11, PromotedCore, PromotedRunners, StoppingTwice DEF IInv
<1>13. /\ \A g \in Goals : Owner(b, g) <=> (Owner(d2, g) \/ g \in P)
       /\ \A g \in Goals : Waiter(b, g) <=> g \in Waiters(d2) \ P
       /\ \A g, h \in Goals : Overlap(b, g, h) <=> Overlap(d2, g, h)
       /\ \A g \in Goals : b[g].born = d2[g].born
  <2>1. /\ \A g \in Goals : Owner(b, g) <=> (Owner(d2, g) \/ g \in P)
        /\ \A g \in Goals : Waiter(b, g) <=> g \in Waiters(d2) \ P
        /\ \A g, h \in Goals : Overlap(b, g, h) <=> Overlap(d2, g, h)
    BY <1>7, <1>10, PromotedOwners
  <2>2. \A g \in Goals : b[g].born = d2[g].born
    BY <1>7, <1>10, PromotedBirths
  <2> QED BY <2>1, <2>2
<1> HIDE DEF b
<1>14. \A g \in Goals : goals'[g] = OrphanNormalised(b[g])
  BY <1>10 DEF b
<1>15. ASSUME NEW g \in Goals
       PROVE  /\ Owner(goals', g) => Owner(b, g)
              /\ Waiter(goals', g) => Waiter(b, g)
              /\ goals'[g].mode = b[g].mode /\ goals'[g].born = b[g].born
              /\ goals'[g].worker = "live" => goals'[g] = b[g]
  <2>1. b[g] \in Document /\ StatusMatchesClaim(b[g]) BY <1>12 DEF Core, WellFormed
  <2>2. CASE goals'[g] = b[g] BY <2>2 DEF Owner, Waiter
  <2>3. CASE goals'[g] # b[g]
    <3>1. b[g].status = "queued" BY <1>14, <2>3 DEF OrphanNormalised
    <3>2. \/ goals'[g] = [b[g] EXCEPT !.worker = "none"]
          \/ goals'[g] = [b[g] EXCEPT !.worker = "none", !.status = "paused"]
      BY <1>14, <2>3 DEF OrphanNormalised
    <3>3. b[g].claim = "owner" BY <2>1, <3>1 DEF StatusMatchesClaim, PROJECT_OWNER_GOALS
    <3>4. /\ goals'[g].status \in {"queued", "paused"} /\ goals'[g].worker = "none"
          /\ goals'[g].mode = b[g].mode /\ goals'[g].born = b[g].born
      BY <2>1, <3>1, <3>2 DEF Document
    <3> QED BY <3>1, <3>3, <3>4 DEF Owner, Waiter, PROJECT_OWNER_GOALS
  <2> QED BY <2>2, <2>3
<1> DEFINE e == goals'
<1>16. /\ \A g \in Goals : Owner(e, g) => Owner(b, g)
       /\ \A g \in Goals : Waiter(e, g) => Waiter(b, g)
       /\ \A g \in Goals : e[g].mode = b[g].mode /\ e[g].born = b[g].born
       /\ \A g \in Goals : e[g].worker = "live" => e[g] = b[g]
  BY <1>15
<1> HIDE DEF e
<1>17. RunnersOnlyStop(goals, e)
  BY <1>12, <1>16 DEF RunnersOnlyStop, Runs
<1>18. \A g, h \in Goals : Overlap(e, g, h) <=> Overlap(b, g, h)
  BY <1>16 DEF Overlap, ConcurrentCopy
<1>19. ASSUME LegacyChats = {} PROVE Keeps(goals, e)
  <2>1. NobodyLetIn(goals, d2) BY <1>6, <1>9, <1>19
  <2>2. /\ \A g \in Goals : Owner(e, g) => Owner(d2, g) \/ g \in P
        /\ \A g \in Goals : Waiter(e, g) => g \in Waiters(d2) \ P
        /\ \A g, h \in Goals : Overlap(e, g, h) <=> Overlap(d2, g, h)
        /\ \A g \in Goals : e[g].born = d2[g].born
    BY <1>13, <1>16, <1>18
  <2> QED BY <1>7, <1>10, <1>17, <2>1, <2>2, PassKeeps
<1>20. Keeps(goals, e)
  BY <1>17, <1>19, StoppingKeepsApart DEF Keeps
<1> QED BY <1>20 DEF e

LEMMA CrashKeeps ==
    ASSUME IInv, Crash
    PROVE  Keeps(goals, goals')
<1> DEFINE lease(h) == IF goals[h].worker = "live" THEN "dead" ELSE goals[h].worker
           e == [h \in Goals |-> [goals[h] EXCEPT !.worker = lease(h)]]
<1>1. goals' = e
  BY DEF Crash
<1>2. ASSUME NEW h \in Goals
      PROVE  /\ e[h].status = goals[h].status /\ e[h].claim = goals[h].claim
             /\ e[h].worker # "live"
  <2>1. goals[h] \in Document BY WellFormedDocuments
  <2>2. lease(h) # "live" BY <2>1
  <2>3. e[h] = [goals[h] EXCEPT !.worker = lease(h)] OBVIOUS
  <2> HIDE DEF e, lease
  <2> QED BY <2>1, <2>2, <2>3 DEF Document
<1> HIDE DEF e
<1>3. RunnersOnlyStop(goals, e) /\ NobodyLetIn(goals, e)
  BY <1>2 DEF RunnersOnlyStop, Runs, NobodyLetIn, Owner, PROJECT_OWNER_GOALS
<1> QED BY <1>1, <1>3, QuietKeeps

LEMMA PassNextKeeps ==
    ASSUME IInv, NEW auto \in BOOLEAN, PromoteEligibleWaiters(goals, auto)
    PROVE  Keeps(goals, goals')
<1>1. PICK P \in SUBSET Waiters(goals) : Eligible(goals, P) /\ goals' = Promoted(goals, P, auto)
  BY DEF PromoteEligibleWaiters
<1>2. RunnersOnlyStop(goals, goals) /\ NobodyLetIn(goals, goals)
  BY DEF RunnersOnlyStop, NobodyLetIn, Owner, PROJECT_OWNER_GOALS
<1> QED BY <1>1, <1>2, PromoteKeeps DEF IInv

LEMMA StepKeeps ==
    ASSUME IInv, [Next]_vars
    PROVE  Keeps(goals, goals')
<1>1. ASSUME NEW g \in Goals, GoalNext(g) PROVE Keeps(goals, goals')
  BY <1>1, CreateKeeps, StartKeeps, InPlaceKeeps, EndingKeeps DEF GoalNext
<1>2. CASE ReconcileProjectQueue BY <1>2, PassNextKeeps DEF ReconcileProjectQueue
<1>3. CASE OpenStore BY <1>3, PassNextKeeps DEF OpenStore
<1>4. ASSUME goals' = goals PROVE Keeps(goals, goals')
  <2>1. RunnersOnlyStop(goals, goals') /\ NobodyLetIn(goals, goals')
    BY <1>4 DEF RunnersOnlyStop, NobodyLetIn, Owner, PROJECT_OWNER_GOALS
  <2> QED BY <2>1, QuietKeeps
<1> QED BY <1>1, <1>2, <1>3, <1>4, CrashKeeps, RecoverAllKeeps DEF Next, RecoveryDone, vars

\* Two unfinished goals on overlapping projects never both have a live
\* scheduler, even where a move to private copies made two claims disagree.
THEOREM OneRunner == Spec => []RunnersExclusive
<1>1. Init => RunnersExclusive
  BY DEF Init, Absent, RunnersExclusive, Running
<1>2. IInv /\ RunnersExclusive /\ [Next]_vars => RunnersExclusive'
  <2> SUFFICES ASSUME IInv, RunnersExclusive, [Next]_vars PROVE RunnersExclusive'
    OBVIOUS
  <2>1. RunnersApart(goals) BY DEF RunnersExclusive, RunnersApart, Running, Runs
  <2>2. RunnersApart(goals') BY <2>1, StepKeeps DEF Keeps
  <2> QED BY <2>2 DEF RunnersExclusive, RunnersApart, Running, Runs, Overlap, ConcurrentCopy
<1> QED BY <1>1, <1>2, InductiveInvariant, PTL DEF Spec

\* Without saved chats that work in the project directory itself, the queue of
\* a project is first come, first served, across crashes and restarts.
THEOREM FirstComeFirstServed == LegacyChats = {} => (Spec => NoOvertaking)
<1> SUFFICES ASSUME LegacyChats = {} PROVE Spec => NoOvertaking
  OBVIOUS
<1>1. IInv /\ [Next]_vars =>
         [\A g, w \in Goals :
            /\ goals[g].status \in {"absent", "waiting_for_project"}
            /\ Owner(goals', g)
            /\ Waiter(goals, w) /\ Waiter(goals', w)
            /\ SameScope(goals', g, w)
            => goals'[g].born < goals'[w].born]_vars
  BY StepKeeps DEF Keeps, Fair
<1> QED BY <1>1, InductiveInvariant, PTL DEF Spec, NoOvertaking
=============================================================================
