--------------------------- MODULE MCReserveCall ---------------------------
(* Small instances of ReserveCall for TLC. *)
EXTENDS ReserveCall, TLC

\* Ids and calls are interchangeable: no action compares them.
Symmetry == Permutations(Rids) \cup Permutations(Calls)

OneAsk       == {<<1, 7>>}
ShortAndLong == {<<1, 1>>, <<0, 5>>}
=============================================================================
