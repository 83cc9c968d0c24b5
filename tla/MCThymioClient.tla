--------------------------- MODULE MCThymioClient ---------------------------
(***************************************************************************)
(* Two nodes that share a group or not, and two groups.                    *)
(***************************************************************************)
EXTENDS ThymioClient, TLC

CONSTANTS n1, n2, g1, g2, r1, r2

MCSymmetry == Permutations({n1, n2}) \cup Permutations({g1, g2}) \cup Permutations({r1, r2})
=============================================================================
