--------------------------- MODULE MCJobRegistry ---------------------------
(* Three roots, two of which get the same pid, and two children.           *)
EXTENDS JobRegistry, TLC

CONSTANTS r1, r2, r3, pidA, pidB

SharedPid == r1 :> pidA @@ r2 :> pidA @@ r3 :> pidB

=============================================================================
