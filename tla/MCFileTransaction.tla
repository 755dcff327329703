-------------------------- MODULE MCFileTransaction --------------------------
(* A change that modifies two files, creates a third and deletes a fourth. *)
EXTENDS FileTransaction

CONSTANTS changed, edited, new, gone

Plan == {changed, edited, new, gone}
New == {new}
Gone == {gone}
==============================================================================
