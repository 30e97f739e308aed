----------------------------- MODULE MCAreaList -----------------------------
(* Small instances of AreaList for TLC. *)
EXTENDS AreaList, TLC

NoForeign == {}

\* A mapping of the program's own that bounds the growth of the areas below it.
OneForeign == {<<10, 12>>}

\* The threads differ in nothing but their pid.
Symmetry == Permutations(Pids)
=============================================================================
