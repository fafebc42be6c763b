--------------------------- MODULE MCRevocation ---------------------------
(* Instances of the revocation path for TLC. *)
EXTENDS Revocation, TLC

CONSTANTS q1, q2

\* Queries are interchangeable.
QuerySymmetry == Permutations(Query)
=============================================================================
