---------------------------- MODULE OperationLease ----------------------------
(***************************************************************************)
(* The write lease of a project directory (project_operations.claim).      *)
(*                                                                         *)
(* Threads of every Nexus process share one SQLite database of leases and  *)
(* tickets.  A thread polls for the lease of its directory; once refused   *)
(* it takes a ticket, and an older live ticket for an overlapping          *)
(* directory goes first.  Each action is one transaction.  Rows of a dead  *)
(* process block nobody, so a crash takes them away here; a ticket whose   *)
(* owner stopped polling turns stale with time, and only the next thread   *)
(* that looks past it deletes it.  A poll that finds the database busy     *)
(* does nothing.                                                           *)
(***************************************************************************)
EXTENDS Naturals, Sequences, FiniteSets

CONSTANTS
    Workers,    \* the threads that may write; each works on its own directory
    Overlaps,   \* pairs of workers whose directories are the same or nested
    Processes,  \* sets of workers: the threads of one process
    MaxStalls,  \* bound on live tickets that turn stale
    MaxLost,    \* bound on tickets and leases that could not be deleted
    MaxCrashes  \* bound on crashes of a process

ASSUME LeaseAssumption ==
    /\ Overlaps \subseteq Workers \X Workers
    /\ \A w \in Workers : <<w, w>> \in Overlaps
    /\ \A v, w \in Workers : <<v, w>> \in Overlaps => <<w, v>> \in Overlaps
    /\ Processes \subseteq SUBSET Workers

VARIABLES
    pc,        \* worker |-> where its claim is
    leases,    \* operation_leases: the worker, and whether its claim still runs
    queue,     \* operation_waiters in ticket order
    bounds     \* stalls, losses and crashes so far

vars == <<pc, leases, queue, bounds>>

\* "trying" has not asked for a ticket, "queueing" is about to, "waiting" took
\* one, "leaving" gave up and still has to delete it.
Places == {"idle", "trying", "queueing", "waiting", "leaving", "holding"}
Ticket == [who : Workers, owned : BOOLEAN, fresh : BOOLEAN]

Count(kind) == bounds' = [bounds EXCEPT ![kind] = @ + 1]
GoTo(w, place) == pc' = [pc EXCEPT ![w] = place]

Mine(w, ticket) == ticket.owned /\ ticket.who = w
HasTicket(w) == \E i \in DOMAIN queue : Mine(w, queue[i])

\* Mutant of Busy: only the very same directory counts.
BusyHere(w) == \E l \in leases : l.who = w

Busy(w) == \E l \in leases : <<w, l.who>> \in Overlaps

\* Mutant of Live: a ticket never turns stale.
LiveForever(ticket) == TRUE
Live(ticket) == ticket.fresh

\* The tickets looked at: those before one's own, all of them without one.
Ahead(w) == {i \in DOMAIN queue : \A j \in 1..i : ~Mine(w, queue[j])}
Blockers(w) == {i \in Ahead(w) : Live(queue[i]) /\ <<w, queue[i].who>> \in Overlaps}

\* A poll refreshes its own ticket and deletes the stale ones it looks at,
\* which are those before the first blocker.
LookedPast(w) == {i \in Ahead(w) : ~Live(queue[i]) /\ \A b \in Blockers(w) : i < b}
Nth(I, k) == CHOOSE i \in I : Cardinality({j \in I : j <= i}) = k
Keeping(I) == [k \in 1..Cardinality(I) |-> queue[Nth(I, k)]]
Others(w) == {i \in DOMAIN queue : ~Mine(w, queue[i])}

\* Mutant of Refreshed: the heartbeat replaces the row, under a new number.
RefreshedAnew(w, q) ==
    IF \E i \in DOMAIN q : Mine(w, q[i])
    THEN Append(SelectSeq(q, LAMBDA t : ~Mine(w, t)), [who |-> w, owned |-> TRUE, fresh |-> TRUE])
    ELSE q
Refreshed(w, q) == [i \in DOMAIN q |-> IF Mine(w, q[i]) THEN [q[i] EXCEPT !.fresh = TRUE] ELSE q[i]]

-----------------------------------------------------------------------------
Begin(w) ==
    /\ pc[w] = "idle"
    /\ GoTo(w, "trying")
    /\ UNCHANGED <<leases, queue, bounds>>

\* _try_claim_once admits the worker.
Admit(w) ==
    /\ pc[w] \in {"trying", "waiting"}
    /\ ~Busy(w) /\ Blockers(w) = {}
    /\ GoTo(w, "holding")
    /\ leases' = leases \cup {[who |-> w, owned |-> TRUE]}
    /\ queue' = Keeping(Others(w) \ LookedPast(w))
    /\ UNCHANGED bounds

\* _try_claim_once refuses: behind a lease it does not come to the tickets.
Refuse(w) ==
    /\ pc[w] \in {"trying", "waiting"}
    /\ Busy(w) \/ Blockers(w) # {}
    /\ queue' = Refreshed(w, IF Busy(w) THEN queue ELSE Keeping(DOMAIN queue \ LookedPast(w)))
    /\ GoTo(w, IF pc[w] = "trying" THEN "queueing" ELSE "waiting")
    /\ UNCHANGED <<leases, bounds>>

TakeTicket(w) ==
    /\ pc[w] = "queueing"
    /\ queue' = Append(queue, [who |-> w, owned |-> TRUE, fresh |-> TRUE])
    /\ GoTo(w, "waiting")
    /\ UNCHANGED <<leases, bounds>>

\* The database was busy: the next poll tries again.
NoTicket(w) ==
    /\ pc[w] = "queueing"
    /\ GoTo(w, "trying")
    /\ UNCHANGED <<leases, queue, bounds>>

\* Mutant of GiveUp: the thread leaves its ticket in the line.
GiveUpAtOnce(w) ==
    /\ pc[w] \in {"queueing", "waiting"} /\ GoTo(w, "idle")
    /\ UNCHANGED <<leases, queue, bounds>>

\* The wait is over, the goal was stopped or the turn cancelled.
GiveUp(w) ==
    \/ /\ pc[w] = "queueing" /\ GoTo(w, "idle")
       /\ UNCHANGED <<leases, queue, bounds>>
    \/ /\ pc[w] = "waiting" /\ GoTo(w, "leaving")
       /\ UNCHANGED <<leases, queue, bounds>>

DropTicket(w) ==
    /\ pc[w] = "leaving"
    /\ queue' = Keeping(Others(w))
    /\ GoTo(w, "idle")
    /\ UNCHANGED <<leases, bounds>>

Abandoned(w, q) == [i \in DOMAIN q |-> IF Mine(w, q[i]) THEN [q[i] EXCEPT !.owned = FALSE] ELSE q[i]]

DropFails(w) ==
    /\ pc[w] = "leaving" /\ bounds.lost < MaxLost /\ Count("lost")
    /\ queue' = Abandoned(w, queue)
    /\ GoTo(w, "idle")
    /\ UNCHANGED leases

\* Mutant of Release: the lease row stays.
ReleaseKeepsLease(w) ==
    /\ pc[w] = "holding"
    /\ GoTo(w, "idle")
    /\ UNCHANGED <<leases, queue, bounds>>

Release(w) ==
    /\ pc[w] = "holding"
    /\ leases' = leases \ {[who |-> w, owned |-> TRUE]}
    /\ GoTo(w, "idle")
    /\ UNCHANGED <<queue, bounds>>

\* The delete fails for good: the row stays until its process ends.
ReleaseFails(w) ==
    /\ pc[w] = "holding" /\ bounds.lost < MaxLost /\ Count("lost")
    /\ leases' = (leases \ {[who |-> w, owned |-> TRUE]}) \cup {[who |-> w, owned |-> FALSE]}
    /\ GoTo(w, "idle")
    /\ UNCHANGED queue

\* TICKET_STALE_SECONDS without a poll, by a thread that is gone or stalled.
Abandon(i) == ~queue[i].owned
Age(i) ==
    /\ i \in DOMAIN queue /\ queue[i].fresh
    /\ IF Abandon(i) THEN UNCHANGED bounds
       ELSE bounds.stalls < MaxStalls /\ Count("stalls")
    /\ queue' = [queue EXCEPT ![i].fresh = FALSE]
    /\ UNCHANGED <<pc, leases>>

Crash(P) ==
    /\ bounds.crashes < MaxCrashes /\ Count("crashes")
    /\ pc' = [w \in Workers |-> IF w \in P THEN "idle" ELSE pc[w]]
    /\ leases' = {l \in leases : l.who \notin P}
    /\ queue' = Keeping({i \in DOMAIN queue : queue[i].who \notin P})

Init ==
    /\ pc = [w \in Workers |-> "idle"] /\ leases = {} /\ queue = <<>>
    /\ bounds = [stalls |-> 0, lost |-> 0, crashes |-> 0]

Claim(w) ==
    \/ Admit(w) \/ Refuse(w) \/ TakeTicket(w) \/ NoTicket(w)
    \/ DropTicket(w) \/ DropFails(w) \/ Release(w) \/ ReleaseFails(w)

Next ==
    \/ \E w \in Workers : Begin(w) \/ GiveUp(w) \/ Claim(w)
    \/ \E i \in DOMAIN queue : Age(i)
    \/ \E P \in Processes : Crash(P)

Spec == Init /\ [][Next]_vars

\* A thread goes on polling (every 0.1 s), leaves, and ends its operation;
\* time passes for an abandoned ticket.
AgeAbandoned == \E i \in DOMAIN queue : Abandon(i) /\ Age(i)
FairSpec ==
    /\ Spec /\ WF_vars(AgeAbandoned)
    /\ \A w \in Workers : /\ WF_vars(Admit(w)) /\ WF_vars(Refuse(w))
                          /\ WF_vars(DropTicket(w)) /\ WF_vars(Release(w))

-----------------------------------------------------------------------------
\* Every variable keeps its type, and a worker holds the lease it says it does.
Held(w) == [who |-> w, owned |-> TRUE]
HoldersHaveLeases ==
    /\ pc \in [Workers -> Places]
    /\ leases \subseteq [who : Workers, owned : BOOLEAN]
    /\ \A w \in Workers : pc[w] = "holding" <=> Held(w) \in leases
TypeOK ==
    /\ HoldersHaveLeases
    /\ queue \in Seq(Ticket)
    /\ bounds \in [{"stalls", "lost", "crashes"} -> Nat]

\* Two threads never write overlapping directories at once, and none writes
\* beside a lease that a live process still holds (claim).
Exclusive ==
    \A v, w \in Workers :
        pc[v] = "holding" /\ <<v, w>> \in Overlaps /\ v # w => pc[w] # "holding"

\* Nobody is counted in the line who left it, or twice: a ticket still in use
\* belongs to a thread that waits or is about to delete it, and no thread has two,
\* across refusals, tickets that could not be taken, stalls, lost deletes and
\* crashes (_take_ticket, _drop_ticket).
InLine(p, w) == p[w] \in {"waiting", "leaving"}
TicketsAccounted ==
    \A i \in DOMAIN queue : queue[i].owned =>
        /\ InLine(pc, queue[i].who)
        /\ \A j \in DOMAIN queue : queue[j].owned /\ queue[j].who = queue[i].who => i = j

\* A thread that goes on polling keeps its turn: from one poll to the next nobody
\* behind it, with a later ticket or none, is admitted to an overlapping directory
\* or gets in front of it, whatever is refused, deleted, lost or crashes meanwhile;
\* only a ticket that stalled may lose its place (_try_claim_once, _take_ticket).
Precedes(w, v) ==
    \E i \in DOMAIN queue : Mine(w, queue[i]) /\ \A j \in 1..i : ~Mine(v, queue[j])
Stalled(w) == \E i \in DOMAIN queue : Mine(w, queue[i]) /\ ~queue[i].fresh
PrecedenceKept ==
    [][\A v, w \in Workers :
          /\ <<v, w>> \in Overlaps /\ pc[v] # "holding"
          /\ Precedes(w, v) /\ ~Stalled(w)
          /\ pc[w] = "waiting" /\ pc'[w] = "waiting"
          => Precedes(w, v)' /\ pc'[v] # "holding"]_vars

\* Whoever keeps its ticket gets the lease or stops waiting, past holders that
\* crashed, tickets nobody owns and newcomers, unless a lease leaked.
Leaked == \E l \in leases : ~l.owned
TicketServed ==
    \A w \in Workers : (pc[w] = "waiting" /\ HasTicket(w)) ~>
        (pc[w] # "waiting" \/ ~HasTicket(w) \/ Leaked)
===============================================================================
