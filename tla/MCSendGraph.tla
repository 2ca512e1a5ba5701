----------------------------- MODULE MCSendGraph -----------------------------
(***************************************************************************)
(* Small instances of SendGraph: a source channel and returns.             *)
(***************************************************************************)
EXTENDS SendGraph, TLC

CONSTANTS c, r1, r2

\* The two returns are alike.
Symmetry == Permutations(Returns)

=============================================================================
