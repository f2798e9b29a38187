----------------------------- MODULE MCDataLake -----------------------------
(* DataLake for TLC: two parallel calls, two folders, and three data files *)
(* of which two have the same view name.                                     *)
EXTENDS DataLake, TLC

CONSTANTS c1, c2, p1, p2, f1, f2, f3

MCRank == (f1 :> 1) @@ (f2 :> 2) @@ (f3 :> 3)
MCContents == {{f1, f2}, {f1, f2, f3}}
MCViewName == (f1 :> "v") @@ (f2 :> "w") @@ (f3 :> "v")

=============================================================================
