---------------------------- MODULE MCAdmission ----------------------------
(* Small instances of Admission for TLC. *)
EXTENDS Admission, TLC

\* Reservation ids are interchangeable: no action compares them.
Symmetry == Permutations(Rids)

\* What a commit may report: within or at the estimate, and far beyond it.
SmallActuals == {<<1, 0>>, <<1, 2>>}
DeepActuals  == {<<1, 0>>, <<1, 15>>}
=============================================================================
