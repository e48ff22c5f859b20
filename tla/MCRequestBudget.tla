-------------------------- MODULE MCRequestBudget --------------------------
(* Small instances of RequestBudget for TLC. *)
EXTENDS RequestBudget

\* What a commit may report: within the estimate, and beyond it.
MixedActuals == {<<0, 1>>, <<2, 4>>}
=============================================================================
