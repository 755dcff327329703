--------------------------- MODULE MCOperationLease ---------------------------
(* Three threads: one on a project, two on directories nested in it that do   *)
(* not overlap each other; the last is in a process of its own.               *)
EXTENDS OperationLease

CONSTANTS whole, left, right

Threads == {whole, left, right}
Nested == {<<t, t>> : t \in Threads}
          \cup {<<whole, t>> : t \in Threads} \cup {<<t, whole>> : t \in Threads}
Servers == {{whole, left}, {right}}
===============================================================================
