----------------------------- MODULE AtomicChange -----------------------------
(***************************************************************************)
(* What FileTransaction (src/our_harness/changes.py) promises of one set   *)
(* of file changes: it ends with every file as it was before or with every *)
(* file as planned, whatever fails on the way.  A file that somebody else  *)
(* touched meanwhile is exempt, and a new file that a failed attempt made  *)
(* and could not remove stays, with nothing in it.                         *)
(***************************************************************************)
CONSTANTS
    Files,
    New,      \* those that do not exist before the change
    Contents  \* what a file may hold: "before", "after", "empty" and others

VARIABLES
    content,  \* file |-> what it holds
    phase,    \* "open" while files may change, then "applied" or "reverted"
    stuck,    \* the new files that could not be removed again
    foreign   \* the files somebody else touched

Own == Files \ foreign

Init ==
    /\ content = [f \in Files |-> "before"] /\ phase = "open"
    /\ stuck = {} /\ foreign = {}

Work ==
    /\ phase = "open" /\ content' \in [Files -> Contents]
    /\ stuck \subseteq stuck' /\ stuck' \subseteq New
    /\ UNCHANGED <<phase, foreign>>

Commit ==
    /\ phase = "open" /\ \A f \in Own : content[f] = "after"
    /\ phase' = "applied" /\ UNCHANGED <<content, stuck, foreign>>

\* An applied change may be rolled back later.
Reopen == phase = "applied" /\ phase' = "open" /\ UNCHANGED <<content, stuck, foreign>>

Revert ==
    /\ phase = "open"
    /\ \A f \in Own : content[f] = "before" \/ (f \in stuck /\ content[f] = "empty")
    /\ phase' = "reverted" /\ UNCHANGED <<content, stuck, foreign>>

Interfere(f) ==
    /\ content' \in [Files -> Contents]
    /\ \A g \in Files \ {f} : content'[g] = content[g]
    /\ foreign' = foreign \cup {f} /\ UNCHANGED <<phase, stuck>>

Next == Work \/ Commit \/ Reopen \/ Revert \/ \E f \in Files : Interfere(f)

Spec == Init /\ [][Next]_<<content, phase, stuck, foreign>>
===============================================================================
