--------------------------- MODULE MCKMEKeyStore ---------------------------
(* Instances of the key store for TLC. *)
EXTENDS KMEKeyStore, TLC

CONSTANTS k1, k2, k3, k4, r1, r2

\* All keys of 256 bits, the case the import from the test network produces.
SameSize == [r \in Route |-> [k \in KeyId |-> 256]]

\* Routes and keys are interchangeable where all keys have one size.
StoreSymmetry == Permutations(Route) \cup Permutations(KeyId)
=============================================================================
