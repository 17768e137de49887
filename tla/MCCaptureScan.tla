--------------------------- MODULE MCCaptureScan ----------------------------
(* CaptureScan on small instances.                                          *)
EXTENDS CaptureScan, TLC

CONSTANTS n1, n2, q1, q2, l1, u1, u2

MCSymmetry == Permutations(Name) \cup Permutations(Scan) \cup Permutations(Upload)

=============================================================================
