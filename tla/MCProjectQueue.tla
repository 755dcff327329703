--------------------------- MODULE MCProjectQueue ---------------------------
(* Instances of ProjectQueue: a project directory and two directories nested  *)
(* in it (the nested ones do not overlap each other), and a third goal on one *)
(* directory.                                                                 *)
EXTENDS ProjectQueue, TLC

CONSTANTS root, left, right

Symmetric(R) == R \cup {<<p[2], p[1]>> : p \in R}
MCGoals == {root, left, right}
NestedShared == Symmetric({<<root, left>>, <<root, right>>})
                \cup {<<g, g>> : g \in MCGoals}
OneProjectShared == MCGoals \X MCGoals
Sides == {left, right}
LegacyModes == [g \in MCGoals |-> {"plain"}]
NestedModes == [g \in MCGoals |-> IF g = left THEN {"isolated"} ELSE {"plain"}]
=============================================================================
