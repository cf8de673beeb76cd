--------------------------- MODULE MCPreparedGuard ---------------------------
(***************************************************************************)
(* Instances of PreparedGuard for TLC.                                     *)
(***************************************************************************)
EXTENDS PreparedGuard, TLC

CONSTANTS g1, g2, a, b, d, long, broken

CallerSymmetry == Permutations(Callers)
=============================================================================
