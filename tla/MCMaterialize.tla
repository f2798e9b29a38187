--------------------------- MODULE MCMaterialize ---------------------------
(* Materialize for TLC: two calls, in one conversation or in two, that may   *)
(* be given the same file name.  The results: none, rows that fill the limit *)
(* of 5 to the byte, and rows of which a later one would fit again.          *)
EXTENDS Materialize, TLC

CONSTANTS c1, c2, t1, t2, n1

Row(j, c) == [json |-> j, csv |-> c]

MCSources == {<< >>, <<Row(2, 1), Row(3, 3)>>,
              <<Row(1, 3), Row(5, 4), Row(1, 1)>>}

ThreadSymmetry == Permutations({t1, t2})

=============================================================================
