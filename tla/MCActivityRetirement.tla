------------------------ MODULE MCActivityRetirement -------------------------
(***************************************************************************)
(* Instances of ActivityRetirement for TLC.                                *)
(***************************************************************************)
EXTENDS ActivityRetirement, TLC

CONSTANTS c1, c2, g1, g2, t1

(* The leases of the product, and those of a program with one more thread. *)
ProductLeases == EventLeases
OneCallerLeases == EventLeases \cup {t1}

GroupSymmetry == Permutations({g1, g2})
ConnectionSymmetry == Permutations({g1, g2}) \cup Permutations({c1, c2})
=============================================================================
