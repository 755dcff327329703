------------------------ MODULE OperationLease_proofs ------------------------
(***************************************************************************)
(* Proofs about OperationLease, for any number of threads, directories and *)
(* processes, and however many tickets stall or get lost.  The tickets     *)
(* decide who is next, but the leases alone keep writers apart: the proof  *)
(* of exclusion never looks at the queue.  The second half is about the    *)
(* queue: its type, whose tickets stand in it, and that their order stays. *)
(***************************************************************************)
EXTENDS OperationLease, FiniteSetTheorems, WellFoundedInduction, TLAPS

\* No two lease rows are for overlapping directories, whoever owns them.
LeasesApart == \A l, m \in leases : <<l.who, m.who>> \in Overlaps => l = m

IInv == HoldersHaveLeases /\ LeasesApart

\* No lease is held at the start.
LEMMA InitApart == Init => IInv
  BY DEF Init, IInv, HoldersHaveLeases, LeasesApart, Places, Held

\* Only an admission adds a lease, and it found no overlapping one.
LEMMA StepApart == IInv /\ [Next]_vars => IInv'
<1> SUFFICES ASSUME IInv, [Next]_vars PROVE IInv'
  OBVIOUS
<1> USE LeaseAssumption DEF IInv, HoldersHaveLeases, LeasesApart, Places, GoTo, Held
<1>1. ASSUME NEW w \in Workers, Begin(w) PROVE IInv' BY <1>1 DEF Begin
<1>2. ASSUME NEW w \in Workers, GiveUp(w) PROVE IInv' BY <1>2 DEF GiveUp
<1>3. ASSUME NEW w \in Workers, Admit(w) PROVE IInv'
  <2>1. pc' = [pc EXCEPT ![w] = "holding"] /\ leases' = leases \cup {Held(w)}
    BY <1>3 DEF Admit
  <2>2. \A l \in leases : <<w, l.who>> \notin Overlaps
    BY <1>3 DEF Admit, Busy
  <2>3. HoldersHaveLeases'
    <3>0. pc' \in [Workers -> Places]
      BY <2>1
    <3>1. leases' \subseteq [who : Workers, owned : BOOLEAN]
      <4>1. Held(w) \in [who : Workers, owned : BOOLEAN]
        OBVIOUS
      <4> QED BY <2>1, <4>1
    <3>2. ASSUME NEW v \in Workers PROVE pc'[v] = "holding" <=> Held(v) \in leases'
      <4>1. CASE v = w BY <4>1, <2>1
      <4>2. CASE v # w
        <5>1. Held(v).who = v /\ Held(w).who = w
          OBVIOUS
        <5>2. Held(v) # Held(w)
          BY <4>2, <5>1
        <5>3. pc'[v] = pc[v] /\ (Held(v) \in leases' <=> Held(v) \in leases)
          BY <2>1, <4>2, <5>2
        <5> QED BY <5>3
      <4> QED BY <4>1, <4>2
    <3> QED BY <3>0, <3>1, <3>2
  <2>4. LeasesApart'
    <3> SUFFICES ASSUME NEW l \in leases', NEW m \in leases', <<l.who, m.who>> \in Overlaps
                 PROVE l = m
      OBVIOUS
    <3>1. CASE l \in leases /\ m \in leases BY <3>1
    <3>2. CASE l = Held(w) /\ m = Held(w) BY <3>2
    <3>3. CASE l = Held(w) /\ m \in leases BY <3>3, <2>2
    <3>4. CASE l \in leases /\ m = Held(w)
      <4>1. l.who \in Workers /\ m.who = w BY <3>4
      <4> QED BY <4>1, <3>4, <2>2
    <3> QED BY <2>1, <3>1, <3>2, <3>3, <3>4
  <2> QED BY <2>3, <2>4
<1>4. ASSUME NEW w \in Workers, Refuse(w) PROVE IInv' BY <1>4 DEF Refuse
<1>5. ASSUME NEW w \in Workers, TakeTicket(w) PROVE IInv' BY <1>5 DEF TakeTicket
<1>6. ASSUME NEW w \in Workers, NoTicket(w) PROVE IInv' BY <1>6 DEF NoTicket
<1>7. ASSUME NEW w \in Workers, DropTicket(w) PROVE IInv' BY <1>7 DEF DropTicket
<1>8. ASSUME NEW w \in Workers, DropFails(w) PROVE IInv' BY <1>8 DEF DropFails
<1>9. ASSUME NEW w \in Workers, Release(w) PROVE IInv'
  <2>1. pc' = [pc EXCEPT ![w] = "idle"] /\ leases' = leases \ {Held(w)}
    BY <1>9 DEF Release
  <2> QED BY <2>1
<1>10. ASSUME NEW w \in Workers, ReleaseFails(w) PROVE IInv'
  <2> DEFINE leak == [who |-> w, owned |-> FALSE]
  <2>1. /\ pc' = [pc EXCEPT ![w] = "idle"]
        /\ leases' = (leases \ {Held(w)}) \cup {leak}
        /\ Held(w) \in leases
    BY <1>10 DEF ReleaseFails
  <2>2. HoldersHaveLeases'
    <3>0. pc' \in [Workers -> Places]
      BY <2>1
    <3>1. leases' \subseteq [who : Workers, owned : BOOLEAN]
      <4>1. leak \in [who : Workers, owned : BOOLEAN]
        OBVIOUS
      <4> QED BY <2>1, <4>1
    <3>2. ASSUME NEW v \in Workers PROVE pc'[v] = "holding" <=> Held(v) \in leases'
      <4>1. CASE v = w
        <5>1. Held(w).owned # leak.owned
          OBVIOUS
        <5> QED BY <4>1, <5>1, <2>1
      <4>2. CASE v # w
        <5>1. Held(v).who = v /\ Held(w).who = w
          OBVIOUS
        <5>2. Held(v) # Held(w) /\ Held(v).owned # leak.owned
          BY <4>2, <5>1
        <5>3. pc'[v] = pc[v] /\ (Held(v) \in leases' <=> Held(v) \in leases)
          BY <2>1, <4>2, <5>2
        <5> QED BY <5>3
      <4> QED BY <4>1, <4>2
    <3> QED BY <3>0, <3>1, <3>2
  <2>3. ASSUME NEW l \in leases, <<l.who, w>> \in Overlaps \/ <<w, l.who>> \in Overlaps
        PROVE l = Held(w)
    <3>1. l.who \in Workers /\ Held(w).who = w
      OBVIOUS
    <3>2. <<w, l.who>> \in Overlaps
      BY <2>3, <3>1
    <3> QED BY <2>1, <3>1, <3>2
  <2>4. LeasesApart'
    <3> SUFFICES ASSUME NEW l \in leases', NEW m \in leases', <<l.who, m.who>> \in Overlaps
                 PROVE l = m
      OBVIOUS
    <3>1. CASE l \in leases /\ m \in leases BY <3>1
    <3>2. CASE l = leak /\ m = leak BY <3>2
    <3>3. CASE l = leak /\ m \in leases \ {Held(w)} BY <3>3, <2>3
    <3>4. CASE l \in leases \ {Held(w)} /\ m = leak BY <3>4, <2>3
    <3> QED BY <2>1, <3>1, <3>2, <3>3, <3>4
  <2> QED BY <2>2, <2>4
<1>11. ASSUME NEW i \in DOMAIN queue, Age(i) PROVE IInv' BY <1>11 DEF Age
<1>12. ASSUME NEW P \in Processes, Crash(P) PROVE IInv'
  <2>1. /\ pc' = [w \in Workers |-> IF w \in P THEN "idle" ELSE pc[w]]
        /\ leases' = {l \in leases : l.who \notin P}
    BY <1>12 DEF Crash
  <2>2. ASSUME NEW v \in Workers PROVE pc'[v] = "holding" <=> Held(v) \in leases'
    BY <2>1
  <2> QED BY <2>1, <2>2
<1>13. CASE UNCHANGED vars BY <1>13 DEF vars
<1> QED
  BY <1>1, <1>2, <1>3, <1>4, <1>5, <1>6, <1>7, <1>8, <1>9, <1>10, <1>11, <1>12, <1>13
  DEF Next, Claim

\* Two threads never write overlapping directories at the same time.
THEOREM WritersApart == Spec => []Exclusive
<1>1. IInv => Exclusive
  <2> SUFFICES ASSUME IInv, NEW v \in Workers, NEW w \in Workers, v # w,
                      pc[v] = "holding", pc[w] = "holding", <<v, w>> \in Overlaps
               PROVE FALSE
    BY DEF Exclusive
  <2>1. Held(v) \in leases /\ Held(w) \in leases
    BY DEF IInv, HoldersHaveLeases
  <2>2. Held(v).who = v /\ Held(w).who = w
    BY DEF Held
  <2> QED
    BY <2>1, <2>2 DEF IInv, LeasesApart
<1> QED
  BY <1>1, InitApart, StepApart, PTL DEF Spec

-----------------------------------------------------------------------------
(***************************************************************************)
(* The line of tickets.  Every step either leaves the tickets in their     *)
(* order, perhaps fewer of them, or adds one at the end.                   *)
(***************************************************************************)

\* A nonempty set of naturals has a least element: the initial segments below
\* its members are well founded under strict inclusion.
LEMMA LeastNatural ==
    ASSUME NEW S \in SUBSET Nat, S # {}
    PROVE  \E m \in S : \A x \in S : m <= x
<1> DEFINE Below(n) == 0 .. n
           T == {Below(n) : n \in S}
<1>1. T \subseteq FiniteSubsetsOf(Nat)
  <2> SUFFICES ASSUME NEW n \in S PROVE Below(n) \in FiniteSubsetsOf(Nat)
    OBVIOUS
  <2>1. IsFiniteSet(Below(n))
    BY FS_Interval
  <2> QED BY <2>1 DEF FiniteSubsetsOf
<1>2. \E a \in T : \A b \in T : ~(<<b, a>> \in StrictSubsetOrdering(Nat))
  <2>1. T # {} OBVIOUS
  <2> QED BY <1>1, <2>1, FS_StrictSubsetOrderingWellFounded, WFMin
<1>3. PICK m \in S : \A b \in T : ~(<<b, Below(m)>> \in StrictSubsetOrdering(Nat))
  BY <1>2
<1>4. ASSUME NEW x \in S, ~(m <= x) PROVE FALSE
  <2>1. /\ Below(x) \subseteq Below(m)
        /\ m \in Below(m)
        /\ m \notin Below(x)
    BY <1>4
  <2>2. Below(x) \in T /\ Below(x) \in SUBSET Nat /\ Below(m) \in SUBSET Nat
    OBVIOUS
  <2>3. <<Below(x), Below(m)>> \in StrictSubsetOrdering(Nat)
    BY <2>1, <2>2 DEF StrictSubsetOrdering
  <2> QED BY <1>3, <2>2, <2>3
<1> QED BY <1>4

\* The members of a set of positions up to one of them are finitely many.
LEMMA SegmentFinite ==
    ASSUME NEW n \in Nat, NEW I, I \subseteq 1..n
    PROVE  /\ IsFiniteSet(I) /\ Cardinality(I) \in Nat
           /\ \A m : /\ IsFiniteSet({j \in I : j <= m})
                    /\ Cardinality({j \in I : j <= m}) \in Nat
<1>1. IsFiniteSet(1..n)
  BY FS_Interval
<1>2. ASSUME NEW J, J \subseteq 1..n PROVE IsFiniteSet(J) /\ Cardinality(J) \in Nat
  <2>1. J \in SUBSET (1..n)
    BY <1>2
  <2>2. IsFiniteSet(J)
    BY <1>1, <2>1, FS_Subset
  <2> QED BY <2>2, FS_CardinalityType
<1>3. ASSUME NEW m PROVE {j \in I : j <= m} \subseteq 1..n
  OBVIOUS
<1> QED BY <1>2, <1>3

\* Nth finds the k-th member of a set of positions.
LEMMA NthPlace ==
    ASSUME NEW n \in Nat, NEW I, I \subseteq 1..n, NEW k \in 1..Cardinality(I)
    PROVE  Nth(I, k) \in I /\ Cardinality({j \in I : j <= Nth(I, k)}) = k
<1> DEFINE Upto(m) == {j \in I : j <= m}
           S == {m \in Nat : k <= Cardinality(Upto(m))}
<1>0. /\ Cardinality(I) \in Nat
      /\ \A m : IsFiniteSet(Upto(m)) /\ Cardinality(Upto(m)) \in Nat
  BY SegmentFinite
<1>1. k \in Nat /\ 1 <= k /\ k <= Cardinality(I)
  BY <1>0
<1>a. \A j \in I : j \in Nat /\ 1 <= j /\ j <= n
  OBVIOUS
<1>2. n \in S
  <2>1. Upto(n) = I
    BY <1>a
  <2> HIDE DEF Upto
  <2> QED BY <2>1, <1>1
<1>3. PICK m \in S : \A x \in S : m <= x
  <2>1. S \in SUBSET Nat /\ S # {}
    BY <1>2
  <2> HIDE DEF S
  <2> QED BY <2>1, LeastNatural
<1>b. m \in Nat /\ k <= Cardinality(Upto(m))
  BY <1>3
<1>4. m # 0
  <2> SUFFICES ASSUME m = 0 PROVE FALSE
    OBVIOUS
  <2>1. \A j \in I : ~(j <= 0)
    BY <1>a
  <2>2. Upto(m) = {}
    BY <2>1
  <2>3. Cardinality(Upto(m)) = 0
    BY <2>2, FS_EmptySet
  <2> QED BY <2>3, <1>b, <1>1
<1>5. m - 1 \in Nat /\ ~(m <= m - 1)
  BY <1>b, <1>4
<1>c. m - 1 \notin S
  BY <1>5, <1>3
<1>6. Cardinality(Upto(m - 1)) < k
  <2>1. ~(k <= Cardinality(Upto(m - 1)))
    BY <1>5, <1>c
  <2> HIDE DEF Upto
  <2> QED BY <2>1, <1>0, <1>1
<1>7. m \in I
  <2> SUFFICES ASSUME m \notin I PROVE FALSE
    OBVIOUS
  <2>1. ASSUME NEW j \in I PROVE j <= m <=> j <= m - 1
    BY <1>a, <1>b
  <2>2. Upto(m) = Upto(m - 1)
    BY <2>1
  <2> HIDE DEF Upto
  <2> QED BY <2>2, <1>b, <1>6, <1>0, <1>1
<1>8. Upto(m) = Upto(m - 1) \cup {m} /\ m \notin Upto(m - 1)
  <2>1. ASSUME NEW j \in I PROVE j <= m <=> (j <= m - 1 \/ j = m)
    BY <1>a, <1>b
  <2> QED BY <2>1, <1>7, <1>5
<1>9. Cardinality(Upto(m)) = k
  <2> HIDE DEF Upto
  <2>1. Cardinality(Upto(m)) = Cardinality(Upto(m - 1)) + 1
    BY <1>8, <1>0, FS_AddElement
  <2> QED BY <2>1, <1>b, <1>6, <1>0, <1>1
<1> QED BY <1>7, <1>9 DEF Nth

\* Later places are later positions, so Keeping leaves the order alone.
LEMMA NthGrows ==
    ASSUME NEW n \in Nat, NEW I, I \subseteq 1..n,
           NEW k \in 1..Cardinality(I), NEW l \in 1..Cardinality(I), k < l
    PROVE  Nth(I, k) < Nth(I, l)
<1> DEFINE a == Nth(I, k)
           b == Nth(I, l)
           Upto(m) == {j \in I : j <= m}
<1>1. a \in I /\ b \in I /\ Cardinality(Upto(a)) = k /\ Cardinality(Upto(b)) = l
  BY NthPlace
<1> HIDE DEF a, b
<1>2. a \in Nat /\ b \in Nat
  BY <1>1
<1>3. ASSUME b <= a PROVE FALSE
  <2>1. ASSUME NEW j \in I, j <= b PROVE j <= a
    BY <1>2, <1>3, <2>1
  <2>2. Upto(b) \in SUBSET Upto(a)
    BY <2>1
  <2>3. IsFiniteSet(Upto(a))
    BY SegmentFinite
  <2>4. k \in Nat /\ l \in Nat
    BY SegmentFinite
  <2> HIDE DEF Upto
  <2>5. Cardinality(Upto(b)) <= Cardinality(Upto(a))
    BY <2>2, <2>3, FS_Subset
  <2> QED BY <2>4, <2>5, <1>1
<1>4. a < b
  BY <1>2, <1>3
<1> QED BY <1>4 DEF a, b

\* r is what is left of q: every ticket of r stood in q, for the same thread
\* and in the same order, and none found an owner.
Moves(f, r, q) ==
    /\ f \in [DOMAIN r -> DOMAIN q]
    /\ \A k, l \in DOMAIN r : k < l => f[k] < f[l]
    /\ \A k \in DOMAIN r : r[k].who = q[f[k]].who /\ (r[k].owned => q[f[k]].owned)
LeftOf(r, q) == \E f \in [DOMAIN r -> DOMAIN q] : Moves(f, r, q)

\* Deleting tickets leaves the others in order.
LEMMA KeepingLeaves ==
    ASSUME queue \in Seq(Ticket), NEW I, I \subseteq DOMAIN queue
    PROVE  /\ Keeping(I) \in Seq(Ticket) /\ LeftOf(Keeping(I), queue)
           /\ \A k \in DOMAIN Keeping(I) : \E i \in I : Keeping(I)[k] = queue[i]
<1>0. Len(queue) \in Nat /\ DOMAIN queue = 1..Len(queue)
  OBVIOUS
<1>1. Cardinality(I) \in Nat
  BY <1>0, SegmentFinite
<1>2. \A k \in 1..Cardinality(I) : Nth(I, k) \in I
  BY <1>0, NthPlace
<1>3. \A k, l \in 1..Cardinality(I) : k < l => Nth(I, k) < Nth(I, l)
  BY <1>0, NthGrows
<1>4. Keeping(I) \in [1..Cardinality(I) -> Ticket]
  BY <1>0, <1>2 DEF Keeping
<1>5. Keeping(I) \in Seq(Ticket)
  BY <1>1, <1>4
<1>6. \A k \in 1..Cardinality(I) : Keeping(I)[k] = queue[Nth(I, k)]
  BY DEF Keeping
<1>7. DOMAIN Keeping(I) = 1..Cardinality(I)
  BY DEF Keeping
<1>8. Moves([k \in 1..Cardinality(I) |-> Nth(I, k)], Keeping(I), queue)
  BY <1>2, <1>3, <1>6, <1>7 DEF Moves
<1> QED BY <1>2, <1>5, <1>6, <1>7, <1>8 DEF LeftOf, Moves

\* A heartbeat changes no ticket's owner, and an abandoned ticket keeps its place.
LEMMA RefreshedLeaves ==
    ASSUME NEW q \in Seq(Ticket), NEW w
    PROVE  /\ Refreshed(w, q) \in Seq(Ticket) /\ LeftOf(Refreshed(w, q), q)
           /\ Abandoned(w, q) \in Seq(Ticket) /\ LeftOf(Abandoned(w, q), q)
           /\ \A k \in DOMAIN Abandoned(w, q) : ~Mine(w, Abandoned(w, q)[k])
<1>0. Len(q) \in Nat /\ DOMAIN q = 1..Len(q) /\ \A k \in DOMAIN q : q[k] \in Ticket
  OBVIOUS
<1>1. \A k \in DOMAIN q :
        /\ Refreshed(w, q)[k] \in Ticket /\ Refreshed(w, q)[k].who = q[k].who
        /\ Refreshed(w, q)[k].owned = q[k].owned
  BY <1>0 DEF Refreshed, Ticket
<1>2. \A k \in DOMAIN q :
        /\ Abandoned(w, q)[k] \in Ticket /\ Abandoned(w, q)[k].who = q[k].who
        /\ Abandoned(w, q)[k].owned => q[k].owned
        /\ ~Mine(w, Abandoned(w, q)[k])
  BY <1>0 DEF Abandoned, Ticket, Mine
<1>3. DOMAIN Refreshed(w, q) = DOMAIN q /\ DOMAIN Abandoned(w, q) = DOMAIN q
  BY DEF Refreshed, Abandoned
<1>4. Refreshed(w, q) = [k \in 1..Len(q) |-> Refreshed(w, q)[k]]
  BY <1>0 DEF Refreshed
<1>5. Abandoned(w, q) = [k \in 1..Len(q) |-> Abandoned(w, q)[k]]
  BY <1>0 DEF Abandoned
<1>6. Refreshed(w, q) \in Seq(Ticket)
  BY <1>0, <1>1, <1>4
<1>7. Abandoned(w, q) \in Seq(Ticket)
  BY <1>0, <1>2, <1>5
<1> DEFINE id == [k \in DOMAIN q |-> k]
<1>8. Moves(id, Refreshed(w, q), q)
  BY <1>0, <1>1, <1>3 DEF Moves
<1>9. Moves(id, Abandoned(w, q), q)
  BY <1>0, <1>2, <1>3 DEF Moves
<1>10. id \in [DOMAIN q -> DOMAIN q]
  OBVIOUS
<1> HIDE DEF id
<1> QED BY <1>2, <1>3, <1>6, <1>7, <1>8, <1>9, <1>10 DEF LeftOf

\* The invariant of the line.
LineInv == TypeOK /\ LeasesApart /\ TicketsAccounted

\* The line is empty at the start.
LEMMA InitLine == Init => LineInv
<1>1. Init => queue = <<>> /\ bounds = [stalls |-> 0, lost |-> 0, crashes |-> 0]
  BY DEF Init
<1>2. Init => queue \in Seq(Ticket) /\ TicketsAccounted
  BY <1>1 DEF TicketsAccounted
<1>3. Init => bounds \in [{"stalls", "lost", "crashes"} -> Nat]
  BY <1>1
<1> QED BY <1>2, <1>3, InitApart DEF LineInv, TypeOK, IInv

\* Whoever finds no ticket of its own in line is not counted in it.
LineOK == /\ queue' \in Seq(Ticket) /\ LeftOf(queue', queue)
          /\ \A k \in DOMAIN queue' : queue'[k].owned => InLine(pc', queue'[k].who)

\* A ticket left over from the line was in it.
LEMMA LeftStandsInLine ==
    ASSUME LineInv, NEW r, LeftOf(r, queue), NEW k \in DOMAIN r, r[k].owned
    PROVE  InLine(pc, r[k].who)
  BY DEF LineInv, LeftOf, Moves, TicketsAccounted

\* What is left of a part of the line is left of the line.
LEMMA LeftOfLeft ==
    ASSUME queue \in Seq(Ticket), NEW q \in Seq(Ticket), NEW r \in Seq(Ticket),
           LeftOf(q, queue), LeftOf(r, q)
    PROVE  LeftOf(r, queue)
<1>1. PICK f \in [DOMAIN q -> DOMAIN queue] : Moves(f, q, queue)
  BY DEF LeftOf
<1>2. PICK g \in [DOMAIN r -> DOMAIN q] : Moves(g, r, q)
  BY DEF LeftOf
<1> DEFINE h == [k \in DOMAIN r |-> f[g[k]]]
<1>3. h \in [DOMAIN r -> DOMAIN queue]
  OBVIOUS
<1>4. Moves(h, r, queue)
  BY <1>1, <1>2, <1>3 DEF Moves
<1> HIDE DEF h
<1> QED BY <1>3, <1>4 DEF LeftOf

\* Every step of Next but the taking of a ticket leaves the line in order.
LEMMA StepLine ==
    ASSUME LineInv, Next
    PROVE  LineOK \/ \E w \in Workers : TakeTicket(w)
<1> DEFINE Kept(I) == Keeping(I) \in Seq(Ticket) /\ LeftOf(Keeping(I), queue)
<1>0. /\ pc \in [Workers -> Places] /\ queue \in Seq(Ticket)
      /\ \A i \in DOMAIN queue : queue[i] \in Ticket /\ queue[i].who \in Workers
  <2>1. pc \in [Workers -> Places] /\ queue \in Seq(Ticket)
    BY DEF LineInv, TypeOK, HoldersHaveLeases
  <2>2. \A i \in DOMAIN queue : queue[i] \in Ticket
    BY <2>1
  <2> QED BY <2>1, <2>2 DEF Ticket
<1>1. ASSUME NEW I, I \subseteq DOMAIN queue PROVE Kept(I)
  BY <1>0, <1>1, KeepingLeaves
<1>2. LeftOf(queue, queue)
  <2>1. Moves([k \in DOMAIN queue |-> k], queue, queue)
    BY DEF Moves
  <2> QED BY <2>1 DEF LeftOf
<1>3. ASSUME NEW w \in Workers, NEW place, GoTo(w, place),
             place \in {"waiting", "leaving"} \/ ~InLine(pc, w)
      PROVE  \A v \in Workers : InLine(pc, v) => InLine(pc', v)
  BY <1>0, <1>3 DEF GoTo, InLine
<1>4. ASSUME queue' \in Seq(Ticket), LeftOf(queue', queue),
             \A v \in Workers : InLine(pc, v) => InLine(pc', v)
      PROVE  LineOK
  <2> SUFFICES ASSUME NEW k \in DOMAIN queue', queue'[k].owned PROVE InLine(pc', queue'[k].who)
    BY <1>4 DEF LineOK
  <2>1. InLine(pc, queue'[k].who)
    BY <1>4, LeftStandsInLine
  <2>2. queue'[k] \in Ticket
    BY <1>4
  <2>3. queue'[k].who \in Workers
    BY <2>2 DEF Ticket
  <2> QED BY <1>4, <2>1, <2>3
<1>5. ASSUME NEW w \in Workers, NEW place, GoTo(w, place),
             queue' \in Seq(Ticket), LeftOf(queue', queue),
             \A k \in DOMAIN queue' : ~Mine(w, queue'[k])
      PROVE  LineOK
  <2> SUFFICES ASSUME NEW k \in DOMAIN queue', queue'[k].owned PROVE InLine(pc', queue'[k].who)
    BY <1>5 DEF LineOK
  <2>1. InLine(pc, queue'[k].who) /\ queue'[k].who # w
    BY <1>5, LeftStandsInLine DEF Mine
  <2>2. queue'[k] \in Ticket
    BY <1>5
  <2>3. queue'[k].who \in Workers
    BY <2>2 DEF Ticket
  <2> QED BY <1>0, <1>5, <2>1, <2>3 DEF GoTo, InLine
<1>6. ASSUME NEW w \in Workers, Begin(w) PROVE LineOK
  BY <1>6, <1>0, <1>2, <1>3, <1>4 DEF Begin, InLine
<1>7. ASSUME NEW w \in Workers, GiveUp(w) PROVE LineOK
  BY <1>7, <1>0, <1>2, <1>3, <1>4 DEF GiveUp, InLine
<1>8. ASSUME NEW w \in Workers, NEW I, I \subseteq Others(w), queue' = Keeping(I)
      PROVE  /\ queue' \in Seq(Ticket) /\ LeftOf(queue', queue)
             /\ \A k \in DOMAIN queue' : ~Mine(w, queue'[k])
  <2>1. I \subseteq DOMAIN queue
    BY <1>8 DEF Others
  <2>2. \A k \in DOMAIN Keeping(I) : \E i \in I : Keeping(I)[k] = queue[i]
    BY <1>0, <2>1, KeepingLeaves
  <2> QED BY <1>1, <1>8, <2>1, <2>2 DEF Others
<1>9. ASSUME NEW w \in Workers, Admit(w) PROVE LineOK
  <2>1. Others(w) \ LookedPast(w) \subseteq Others(w)
    OBVIOUS
  <2> QED BY <1>5, <1>8, <1>9, <2>1 DEF Admit
<1>10. ASSUME NEW w \in Workers, Refuse(w) PROVE LineOK
  <2> DEFINE q == IF Busy(w) THEN queue ELSE Keeping(DOMAIN queue \ LookedPast(w))
  <2>1. q \in Seq(Ticket) /\ LeftOf(q, queue)
    <3>1. Kept(DOMAIN queue \ LookedPast(w))
      BY <1>1
    <3> QED BY <1>0, <1>2, <3>1
  <2>2. queue' = Refreshed(w, q)
    BY <1>10 DEF Refuse
  <2> HIDE DEF q
  <2>3. queue' \in Seq(Ticket) /\ LeftOf(queue', queue)
    BY <1>0, <2>1, <2>2, RefreshedLeaves, LeftOfLeft
  <2>4. CASE pc[w] = "trying"
    BY <1>3, <1>4, <1>10, <2>3, <2>4 DEF Refuse, InLine
  <2>5. CASE pc[w] = "waiting"
    BY <1>3, <1>4, <1>10, <2>3, <2>5 DEF Refuse
  <2> QED BY <1>10, <2>4, <2>5 DEF Refuse
<1>11. ASSUME NEW w \in Workers, NoTicket(w) PROVE LineOK
  BY <1>11, <1>0, <1>2, <1>3, <1>4 DEF NoTicket, InLine
<1>12. ASSUME NEW w \in Workers, DropTicket(w) PROVE LineOK
  BY <1>5, <1>8, <1>12 DEF DropTicket
<1>13. ASSUME NEW w \in Workers, DropFails(w) PROVE LineOK
  <2>1. queue' = Abandoned(w, queue) /\ GoTo(w, "idle")
    BY <1>13 DEF DropFails
  <2> QED BY <1>0, <1>5, <2>1, RefreshedLeaves
<1>14. ASSUME NEW w \in Workers, Release(w) PROVE LineOK
  BY <1>14, <1>0, <1>2, <1>3, <1>4 DEF Release, InLine
<1>15. ASSUME NEW w \in Workers, ReleaseFails(w) PROVE LineOK
  BY <1>15, <1>0, <1>2, <1>3, <1>4 DEF ReleaseFails, InLine
<1>16. ASSUME NEW i \in DOMAIN queue, Age(i) PROVE LineOK
  <2>1. queue' = [queue EXCEPT ![i] = [queue[i] EXCEPT !.fresh = FALSE]] /\ pc' = pc
    BY <1>16 DEF Age
  <2>2. [queue[i] EXCEPT !.fresh = FALSE] \in Ticket
    BY <1>0 DEF Ticket
  <2>3. /\ [queue[i] EXCEPT !.fresh = FALSE].who = queue[i].who
        /\ [queue[i] EXCEPT !.fresh = FALSE].owned = queue[i].owned
    BY <1>0 DEF Ticket
  <2> DEFINE aged == [queue[i] EXCEPT !.fresh = FALSE]
  <2> HIDE DEF aged
  <2>4. queue' \in Seq(Ticket) /\ DOMAIN queue' = DOMAIN queue
    BY <1>0, <2>1, <2>2 DEF aged
  <2>5. \A k \in DOMAIN queue : queue'[k].who = queue[k].who /\ queue'[k].owned = queue[k].owned
    BY <1>0, <2>1, <2>3
  <2>6. Moves([k \in DOMAIN queue |-> k], queue', queue)
    BY <2>4, <2>5 DEF Moves
  <2>7. LeftOf(queue', queue)
    BY <2>4, <2>6 DEF LeftOf
  <2>8. \A v \in Workers : InLine(pc, v) => InLine(pc', v)
    BY <2>1 DEF InLine
  <2> QED BY <1>4, <2>4, <2>7, <2>8
<1>17. ASSUME NEW P \in Processes, Crash(P) PROVE LineOK
  <2> DEFINE I == {i \in DOMAIN queue : queue[i].who \notin P}
  <2>1. queue' = Keeping(I) /\ I \subseteq DOMAIN queue
    BY <1>17 DEF Crash
  <2>2. queue' \in Seq(Ticket) /\ LeftOf(queue', queue)
    BY <1>1, <2>1
  <2>3. \A k \in DOMAIN queue' : \E i \in I : queue'[k] = queue[i]
    BY <1>0, <2>1, KeepingLeaves
  <2> SUFFICES ASSUME NEW k \in DOMAIN queue', queue'[k].owned PROVE InLine(pc', queue'[k].who)
    BY <2>2 DEF LineOK
  <2>4. queue'[k].who \in Workers /\ queue'[k].who \notin P
    BY <2>3, <1>0
  <2>5. InLine(pc, queue'[k].who)
    BY <2>2, LeftStandsInLine
  <2> QED BY <2>4, <2>5, <1>17 DEF Crash, InLine
<1> QED
  BY <1>6, <1>7, <1>9, <1>10, <1>11, <1>12, <1>13, <1>14, <1>15, <1>16, <1>17 DEF Next, Claim

\* One ticket for each thread in line stays one for each, and a new one is its
\* taker's first.
LEMMA StepAccounted ==
    ASSUME LineInv, Next
    PROVE  queue' \in Seq(Ticket) /\ TicketsAccounted'
<1>0. queue \in Seq(Ticket) /\ TicketsAccounted
  BY DEF LineInv, TypeOK
<1>1. CASE LineOK
  <2>0. queue' \in Seq(Ticket) /\ \A k \in DOMAIN queue' : queue'[k].owned => InLine(pc', queue'[k].who)
    BY <1>1 DEF LineOK
  <2>1. PICK f \in [DOMAIN queue' -> DOMAIN queue] : Moves(f, queue', queue)
    BY <1>1 DEF LineOK, LeftOf
  <2>2. ASSUME NEW i \in DOMAIN queue', NEW j \in DOMAIN queue',
               queue'[i].owned, queue'[j].owned, queue'[j].who = queue'[i].who
        PROVE  i = j
    <3>1. f[i] = f[j]
      BY <1>0, <2>1, <2>2 DEF Moves, TicketsAccounted
    <3>2. i \in Nat /\ j \in Nat /\ f[i] \in Nat /\ f[j] \in Nat
      BY <1>0, <2>0, <2>1
    <3>3. ~(i < j) /\ ~(j < i)
      BY <2>1, <3>1, <3>2 DEF Moves
    <3> QED BY <3>2, <3>3
  <2>3. TicketsAccounted'
    BY <2>0, <2>2 DEF TicketsAccounted
  <2> QED BY <2>0, <2>3
<1>2. ASSUME NEW w \in Workers, TakeTicket(w) PROVE queue' \in Seq(Ticket) /\ TicketsAccounted'
  <2> DEFINE mine == [who |-> w, owned |-> TRUE, fresh |-> TRUE]
  <2>1. /\ pc[w] = "queueing" /\ pc' = [pc EXCEPT ![w] = "waiting"]
        /\ queue' = Append(queue, mine)
    BY <1>2 DEF TakeTicket, GoTo
  <2>2. mine \in Ticket /\ mine.who = w
    BY DEF Ticket
  <2> HIDE DEF mine
  <2>3. /\ queue' \in Seq(Ticket) /\ Len(queue) \in Nat
        /\ DOMAIN queue = 1..Len(queue) /\ DOMAIN queue' = 1..(Len(queue) + 1)
        /\ \A k \in DOMAIN queue : queue'[k] = queue[k]
        /\ queue'[Len(queue) + 1] = mine
    BY <1>0, <2>1, <2>2
  <2>4. \A i \in DOMAIN queue' : i \in DOMAIN queue \/ i = Len(queue) + 1
    BY <2>3
  <2>5. \A i \in DOMAIN queue : queue[i].owned => queue[i].who # w
    BY <1>0, <2>1 DEF TicketsAccounted, InLine
  <2>6. pc \in [Workers -> Places]
    BY DEF LineInv, TypeOK, HoldersHaveLeases
  <2>7. ASSUME NEW i \in DOMAIN queue', queue'[i].owned PROVE InLine(pc', queue'[i].who)
    <3>1. CASE i \in DOMAIN queue
      <4>1. queue'[i] = queue[i] /\ InLine(pc, queue[i].who) /\ queue[i].who # w
        BY <1>0, <2>3, <2>5, <2>7, <3>1 DEF TicketsAccounted
      <4>2. queue[i] \in Ticket
        BY <1>0, <3>1
      <4>3. queue[i].who \in Workers
        BY <4>2 DEF Ticket
      <4> QED BY <4>1, <4>3, <2>1, <2>6 DEF InLine
    <3>2. CASE i = Len(queue) + 1
      BY <3>2, <2>1, <2>2, <2>3, <2>6 DEF InLine
    <3> QED BY <2>4, <3>1, <3>2
  <2>8. ASSUME NEW i \in DOMAIN queue', NEW j \in DOMAIN queue',
               queue'[i].owned, queue'[j].owned, queue'[j].who = queue'[i].who
        PROVE  i = j
    <3>1. CASE i \in DOMAIN queue /\ j \in DOMAIN queue
      BY <1>0, <2>3, <2>8, <3>1 DEF TicketsAccounted
    <3>2. CASE i \in DOMAIN queue /\ j = Len(queue) + 1
      BY <2>2, <2>3, <2>5, <2>8, <3>2
    <3>3. CASE i = Len(queue) + 1 /\ j \in DOMAIN queue
      BY <2>2, <2>3, <2>5, <2>8, <3>3
    <3> QED BY <2>4, <3>1, <3>2, <3>3
  <2>9. TicketsAccounted'
    BY <2>7, <2>8 DEF TicketsAccounted
  <2> QED BY <2>3, <2>9
<1> QED BY <1>1, <1>2, StepLine

\* The three bounded counters only count up.
LEMMA StepBounds ==
    ASSUME TypeOK, Next
    PROVE  bounds' \in [{"stalls", "lost", "crashes"} -> Nat]
<1> USE DEF TypeOK
<1>1. ASSUME NEW kind \in {"stalls", "lost", "crashes"}, Count(kind)
      PROVE  bounds' \in [{"stalls", "lost", "crashes"} -> Nat]
  BY <1>1 DEF Count
<1>2. ASSUME NEW w \in Workers, Begin(w) \/ GiveUp(w) \/ Claim(w)
      PROVE  bounds' \in [{"stalls", "lost", "crashes"} -> Nat]
  BY <1>1, <1>2 DEF Begin, GiveUp, Claim, Admit, Refuse, TakeTicket, NoTicket, DropTicket,
     DropFails, Release, ReleaseFails
<1>3. ASSUME NEW i \in DOMAIN queue, Age(i)
      PROVE  bounds' \in [{"stalls", "lost", "crashes"} -> Nat]
  BY <1>1, <1>3 DEF Age
<1>4. ASSUME NEW P \in Processes, Crash(P)
      PROVE  bounds' \in [{"stalls", "lost", "crashes"} -> Nat]
  BY <1>1, <1>4 DEF Crash
<1> QED BY <1>2, <1>3, <1>4 DEF Next

LEMMA StepLineInv == LineInv /\ [Next]_vars => LineInv'
<1> SUFFICES ASSUME LineInv, [Next]_vars PROVE LineInv'
  OBVIOUS
<1>1. IInv'
  BY StepApart DEF LineInv, TypeOK, IInv
<1>2. CASE Next
  <2>1. TypeOK'
    BY <1>1, <1>2, StepAccounted, StepBounds DEF LineInv, TypeOK, IInv
  <2> QED BY <1>1, <1>2, <2>1, StepAccounted DEF LineInv, IInv
<1>3. CASE UNCHANGED vars
  <2>1. queue' = queue /\ bounds' = bounds /\ pc' = pc
    BY <1>3 DEF vars
  <2>2. TicketsAccounted'
    BY <2>1 DEF LineInv, TicketsAccounted
  <2> QED BY <1>1, <2>1, <2>2 DEF LineInv, TypeOK, IInv
<1> QED BY <1>2, <1>3

\* The lease database keeps its type, and a worker holds the lease it says it
\* does, however tickets were taken, skipped, deleted and lost (claim).
THEOREM LeaseTypes == Spec => []TypeOK
<1>1. LineInv => TypeOK
  BY DEF LineInv
<1> QED BY <1>1, InitLine, StepLineInv, PTL DEF Spec

\* A thread that left the line is never counted in it: a ticket still in use
\* belongs to a thread that waits or is about to delete it, and no thread has
\* two (_take_ticket, _drop_ticket).
THEOREM NoTicketLeftBehind == Spec => []TicketsAccounted
<1>1. LineInv => TicketsAccounted
  BY DEF LineInv
<1> QED BY <1>1, InitLine, StepLineInv, PTL DEF Spec

\* Two threads in line never change places: no poll, deletion, time-out or
\* crash of a third lets the later ticket come before the older one.
PlacesKept ==
    [][\A i, j \in DOMAIN queue, k, l \in DOMAIN queue' :
          /\ i < j /\ queue[i].owned /\ queue[j].owned
          /\ queue'[k].owned /\ queue'[l].owned
          /\ queue'[k].who = queue[i].who /\ queue'[l].who = queue[j].who
          => k < l]_vars

THEOREM TheLineKeepsItsOrder == Spec => PlacesKept
<1> DEFINE Kept == \A i, j \in DOMAIN queue, k, l \in DOMAIN queue' :
          /\ i < j /\ queue[i].owned /\ queue[j].owned
          /\ queue'[k].owned /\ queue'[l].owned
          /\ queue'[k].who = queue[i].who /\ queue'[l].who = queue[j].who
          => k < l
<1>1. ASSUME LineInv, Next PROVE Kept
  <2>0. queue \in Seq(Ticket) /\ queue' \in Seq(Ticket) /\ TicketsAccounted
    BY <1>1, StepAccounted DEF LineInv, TypeOK
  <2> SUFFICES ASSUME NEW i \in DOMAIN queue, NEW j \in DOMAIN queue,
                      NEW k \in DOMAIN queue', NEW l \in DOMAIN queue',
                      i < j, queue[i].owned, queue[j].owned,
                      queue'[k].owned, queue'[l].owned,
                      queue'[k].who = queue[i].who, queue'[l].who = queue[j].who
               PROVE  k < l
    OBVIOUS
  <2>1. /\ i \in Nat /\ j \in Nat /\ k \in Nat /\ l \in Nat
        /\ Len(queue) \in Nat /\ DOMAIN queue = 1..Len(queue)
    BY <2>0
  <2>2. CASE LineOK
    <3>1. PICK f \in [DOMAIN queue' -> DOMAIN queue] : Moves(f, queue', queue)
      BY <2>2 DEF LineOK, LeftOf
    <3>2. f[k] = i /\ f[l] = j
      BY <2>0, <3>1 DEF Moves, TicketsAccounted
    <3>3. k # l /\ ~(l < k)
      BY <2>1, <3>1, <3>2 DEF Moves
    <3> QED BY <2>1, <3>3
  <2>3. ASSUME NEW w \in Workers, TakeTicket(w) PROVE k < l
    <3>1. queue' = Append(queue, [who |-> w, owned |-> TRUE, fresh |-> TRUE])
          /\ pc[w] = "queueing"
      BY <2>3 DEF TakeTicket
    <3>2. queue[i].who # w /\ queue[j].who # w
      BY <2>0, <3>1 DEF TicketsAccounted, InLine
    <3>3. k # Len(queue) + 1 /\ l # Len(queue) + 1
      BY <2>0, <2>1, <3>1, <3>2
    <3>4. k \in DOMAIN queue /\ l \in DOMAIN queue /\ queue'[k] = queue[k] /\ queue'[l] = queue[l]
      BY <2>0, <2>1, <3>1, <3>3
    <3>5. k = i /\ l = j
      BY <2>0, <3>4 DEF TicketsAccounted
    <3> QED BY <3>5
  <2> QED BY <1>1, <2>2, <2>3, StepLine
<1>2. LineInv /\ [Next]_vars => [Kept]_vars
  BY <1>1
<1> QED BY <1>2, InitLine, StepLineInv, PTL DEF Spec, PlacesKept

\* Deleting tickets keeps every other one.
LEMMA KeepingKeeps ==
    ASSUME queue \in Seq(Ticket), NEW I, I \subseteq DOMAIN queue, NEW i \in I
    PROVE  \E k \in DOMAIN Keeping(I) : Keeping(I)[k] = queue[i]
<1> DEFINE Upto(m) == {j \in I : j <= m}
           k == Cardinality(Upto(i))
<1>0. Len(queue) \in Nat /\ DOMAIN queue = 1..Len(queue) /\ I \subseteq 1..Len(queue)
  OBVIOUS
<1>1. /\ IsFiniteSet(I) /\ Cardinality(I) \in Nat
      /\ \A m : IsFiniteSet(Upto(m)) /\ Cardinality(Upto(m)) \in Nat
  BY <1>0, SegmentFinite
<1>2. \A j \in I : j \in Nat
  BY <1>0
<1>3. ASSUME NEW a \in I, NEW b \in I, a < b
      PROVE  Cardinality(Upto(a)) < Cardinality(Upto(b))
  <2>1. Upto(a) \cup {b} \in SUBSET Upto(b) /\ b \notin Upto(a)
    BY <1>2, <1>3
  <2> HIDE DEF Upto
  <2>2. /\ Cardinality(Upto(a) \cup {b}) = Cardinality(Upto(a)) + 1
        /\ Cardinality(Upto(a) \cup {b}) <= Cardinality(Upto(b))
    BY <1>1, <2>1, FS_AddElement, FS_Subset
  <2> QED BY <1>1, <2>2
<1>4. k \in 1..Cardinality(I)
  <2>1. Upto(i) \in SUBSET I /\ i \in Upto(i)
    BY <1>2
  <2>2. Upto(i) # {}
    BY <2>1
  <2> HIDE DEF Upto
  <2>3. k <= Cardinality(I) /\ k # 0
    BY <1>1, <2>1, <2>2, FS_Subset, FS_EmptySet
  <2> QED BY <1>1, <2>3
<1>5. Nth(I, k) \in I /\ Cardinality(Upto(Nth(I, k))) = k
  BY <1>0, <1>4, NthPlace
<1>6. Nth(I, k) = i
  <2> HIDE DEF Upto
  <2>1. ~(Nth(I, k) < i) /\ ~(i < Nth(I, k))
    BY <1>1, <1>3, <1>5
  <2> QED BY <1>2, <1>5, <2>1
<1> HIDE DEF k
<1> QED BY <1>4, <1>6 DEF Keeping

\* A waiting thread that goes on waiting keeps its ticket.
LEMMA TicketKept ==
    ASSUME LineInv, Next, NEW w \in Workers, NEW i \in DOMAIN queue,
           Mine(w, queue[i]), queue[i].fresh, pc[w] = "waiting", pc'[w] = "waiting"
    PROVE  \E k \in DOMAIN queue' : Mine(w, queue'[k])
<1>0. /\ pc \in [Workers -> Places] /\ queue \in Seq(Ticket)
      /\ queue[i] \in Ticket /\ queue[i].who = w /\ queue[i].owned
  <2>1. pc \in [Workers -> Places] /\ queue \in Seq(Ticket)
    BY DEF LineInv, TypeOK, HoldersHaveLeases
  <2> QED BY <2>1 DEF Mine
<1>1. ASSUME NEW I, I \subseteq DOMAIN queue, i \in I
      PROVE  \E k \in DOMAIN Keeping(I) : Mine(w, Keeping(I)[k])
  <2>1. PICK k \in DOMAIN Keeping(I) : Keeping(I)[k] = queue[i]
    BY <1>0, <1>1, KeepingKeeps
  <2> QED BY <2>1
<1>2. \A v : i \notin LookedPast(v)
  BY DEF LookedPast, Live
<1>3. ASSUME NEW v \in Workers, v # w PROVE i \in Others(v)
  BY <1>0, <1>3 DEF Others, Mine
<1>4. ASSUME NEW v \in Workers, NEW place, GoTo(v, place), place # "waiting" PROVE v # w
  BY <1>0, <1>4 DEF GoTo
<1>5. ASSUME NEW v \in Workers, Begin(v) \/ GiveUp(v) \/ NoTicket(v) \/ Release(v) \/ ReleaseFails(v)
      PROVE  \E k \in DOMAIN queue' : Mine(w, queue'[k])
  <2>1. queue' = queue
    BY <1>5 DEF Begin, GiveUp, NoTicket, Release, ReleaseFails
  <2> QED BY <2>1
<1>6. ASSUME NEW v \in Workers, Admit(v) PROVE \E k \in DOMAIN queue' : Mine(w, queue'[k])
  <2>1. queue' = Keeping(Others(v) \ LookedPast(v)) /\ v # w
    BY <1>4, <1>6 DEF Admit
  <2>2. Others(v) \ LookedPast(v) \subseteq DOMAIN queue /\ i \in Others(v) \ LookedPast(v)
    BY <1>2, <1>3, <2>1 DEF Others
  <2> QED BY <1>1, <2>1, <2>2
<1>7. ASSUME NEW v \in Workers, Refuse(v) PROVE \E k \in DOMAIN queue' : Mine(w, queue'[k])
  <2> DEFINE q == IF Busy(v) THEN queue ELSE Keeping(DOMAIN queue \ LookedPast(v))
  <2>1. queue' = Refreshed(v, q)
    BY <1>7 DEF Refuse
  <2>2. \E k \in DOMAIN q : Mine(w, q[k])
    BY <1>1, <1>2
  <2>3. q \in Seq(Ticket)
    BY <1>0, KeepingLeaves
  <2> HIDE DEF q
  <2>4. PICK k \in DOMAIN q : Mine(w, q[k])
    BY <2>2
  <2>5. DOMAIN queue' = DOMAIN q /\ q[k] \in Ticket
    BY <2>1, <2>3 DEF Refreshed
  <2>6. queue'[k].who = q[k].who /\ queue'[k].owned = q[k].owned
    BY <2>1, <2>4, <2>5 DEF Refreshed, Ticket
  <2> QED BY <2>4, <2>5, <2>6 DEF Mine
<1>8. ASSUME NEW v \in Workers, TakeTicket(v) PROVE \E k \in DOMAIN queue' : Mine(w, queue'[k])
  <2>1. queue' = Append(queue, [who |-> v, owned |-> TRUE, fresh |-> TRUE])
    BY <1>8 DEF TakeTicket
  <2>2. i \in DOMAIN queue' /\ queue'[i] = queue[i]
    BY <1>0, <2>1
  <2> QED BY <2>2
<1>9. ASSUME NEW v \in Workers, DropTicket(v) PROVE \E k \in DOMAIN queue' : Mine(w, queue'[k])
  <2>1. queue' = Keeping(Others(v)) /\ v # w
    BY <1>4, <1>9 DEF DropTicket
  <2> QED BY <1>1, <1>3, <2>1 DEF Others
<1>10. ASSUME NEW v \in Workers, DropFails(v) PROVE \E k \in DOMAIN queue' : Mine(w, queue'[k])
  <2>1. queue' = Abandoned(v, queue) /\ v # w
    BY <1>4, <1>10 DEF DropFails
  <2>2. i \in DOMAIN queue' /\ queue'[i] = queue[i]
    BY <1>0, <2>1 DEF Abandoned, Mine
  <2> QED BY <2>2
<1>11. ASSUME NEW j \in DOMAIN queue, Age(j) PROVE \E k \in DOMAIN queue' : Mine(w, queue'[k])
  <2>1. queue' = [queue EXCEPT ![j] = [queue[j] EXCEPT !.fresh = FALSE]]
    BY <1>11 DEF Age
  <2>2. queue'[i].who = queue[i].who /\ queue'[i].owned = queue[i].owned /\ i \in DOMAIN queue'
    BY <1>0, <2>1 DEF Ticket
  <2> QED BY <2>2 DEF Mine
<1>12. ASSUME NEW P \in Processes, Crash(P) PROVE \E k \in DOMAIN queue' : Mine(w, queue'[k])
  <2>1. queue' = Keeping({j \in DOMAIN queue : queue[j].who \notin P}) /\ w \notin P
    BY <1>12 DEF Crash
  <2> QED BY <1>0, <1>1, <2>1
<1> QED
  BY <1>5, <1>6, <1>7, <1>8, <1>9, <1>10, <1>11, <1>12 DEF Next, Claim

\* A thread that goes on polling keeps its turn: its ticket stays, nobody behind
\* it gets in front of it, and none of those is admitted to an overlapping
\* directory, through any refusal, deletion, lost delete or crash (_try_claim_once).
THEOREM TurnIsKept == Spec => PrecedenceKept
<1> DEFINE Kept(v, w) ==
      /\ <<v, w>> \in Overlaps /\ pc[v] # "holding"
      /\ Precedes(w, v) /\ ~Stalled(w)
      /\ pc[w] = "waiting" /\ pc'[w] = "waiting"
      => Precedes(w, v)' /\ pc'[v] # "holding"
<1>1. ASSUME LineInv, Next, NEW v \in Workers, NEW w \in Workers PROVE Kept(v, w)
  <2> SUFFICES ASSUME <<v, w>> \in Overlaps, pc[v] # "holding",
                      Precedes(w, v), ~Stalled(w),
                      pc[w] = "waiting", pc'[w] = "waiting"
               PROVE  Precedes(w, v)' /\ pc'[v] # "holding"
    OBVIOUS
  <2>0. /\ pc \in [Workers -> Places] /\ queue \in Seq(Ticket) /\ queue' \in Seq(Ticket)
        /\ TicketsAccounted
    BY <1>1, StepAccounted DEF LineInv, TypeOK, HoldersHaveLeases
  <2>1. PICK i \in DOMAIN queue : Mine(w, queue[i]) /\ \A j \in 1..i : ~Mine(v, queue[j])
    BY DEF Precedes
  <2>2. queue[i].fresh /\ queue[i].who = w /\ queue[i].owned
    BY <2>1 DEF Stalled, Mine
  <2>3. PICK k \in DOMAIN queue' : Mine(w, queue'[k])
    BY <1>1, <2>1, <2>2, TicketKept
  <2>4. /\ DOMAIN queue = 1..Len(queue) /\ DOMAIN queue' = 1..Len(queue')
        /\ Len(queue) \in Nat /\ Len(queue') \in Nat /\ i \in Nat /\ k \in Nat
    BY <2>0
  <2>5. ASSUME NEW l \in 1..k, Mine(v, queue'[l]) PROVE FALSE
    <3>0. l \in DOMAIN queue' /\ l \in Nat /\ l <= k
      BY <2>4
    <3>1. CASE LineOK
      <4>1. PICK f \in [DOMAIN queue' -> DOMAIN queue] : Moves(f, queue', queue)
        BY <3>1 DEF LineOK, LeftOf
      <4>2. Mine(v, queue[f[l]]) /\ Mine(w, queue[f[k]]) /\ f[l] \in DOMAIN queue
        BY <2>3, <2>5, <3>0, <4>1 DEF Moves, Mine
      <4>3. f[k] = i
        BY <2>0, <2>2, <4>1, <4>2 DEF TicketsAccounted, Mine
      <4>4. f[l] \in Nat /\ ~(f[l] <= i)
        BY <2>1, <2>4, <4>2
      <4>5. l = k \/ l < k
        BY <2>4, <3>0
      <4>6. l = k \/ f[l] < f[k]
        BY <3>0, <4>1, <4>5 DEF Moves
      <4> QED BY <2>4, <4>3, <4>4, <4>6
    <3>2. ASSUME NEW u \in Workers, TakeTicket(u) PROVE FALSE
      <4>1. queue' = Append(queue, [who |-> u, owned |-> TRUE, fresh |-> TRUE])
            /\ pc[u] = "queueing"
        BY <3>2 DEF TakeTicket
      <4>2. u # w
        BY <4>1
      <4>3. k # Len(queue) + 1
        BY <2>0, <2>3, <2>4, <4>1, <4>2 DEF Mine
      <4>4. k \in DOMAIN queue /\ queue'[k] = queue[k]
        BY <2>0, <2>4, <4>1, <4>3
      <4>5. k = i
        BY <2>0, <2>2, <2>3, <4>4 DEF TicketsAccounted, Mine
      <4>6. queue'[l] = queue[l]
        BY <2>0, <2>4, <3>0, <4>1, <4>4
      <4> QED BY <2>1, <2>4, <2>5, <3>0, <4>5, <4>6
    <3> QED BY <1>1, <3>1, <3>2, StepLine
  <2>6. Precedes(w, v)'
    BY <2>3, <2>5 DEF Precedes, Mine
  <2>7. pc'[v] # "holding"
    <3>1. i \in Blockers(v)
      BY <2>1, <2>2 DEF Blockers, Ahead, Live
    <3>2. ~Admit(v)
      BY <3>1 DEF Admit
    <3>3. ASSUME NEW u \in Workers, Claim(u) \/ Begin(u) \/ GiveUp(u), pc'[v] = "holding"
          PROVE  FALSE
      BY <2>0, <3>2, <3>3 DEF Claim, Begin, GiveUp, Admit, Refuse, TakeTicket, NoTicket,
         DropTicket, DropFails, Release, ReleaseFails, GoTo
    <3>4. ASSUME NEW j \in DOMAIN queue, Age(j) PROVE pc'[v] # "holding"
      BY <3>4 DEF Age
    <3>5. ASSUME NEW P \in Processes, Crash(P) PROVE pc'[v] # "holding"
      BY <3>5 DEF Crash
    <3> QED BY <1>1, <3>3, <3>4, <3>5 DEF Next
  <2> QED BY <2>6, <2>7
<1>2. LineInv /\ [Next]_vars => [\A v, w \in Workers : Kept(v, w)]_vars
  BY <1>1
<1> QED BY <1>2, InitLine, StepLineInv, PTL DEF Spec, PrecedenceKept
=============================================================================
