--------------------------- MODULE MCMeshIsolation ---------------------------
(* Two neighbouring suspicious nodes x and y, for TLC. *)
EXTENDS MeshIsolation

CONSTANTS a, b, x, y

ChainNodes == {a, b, x, y}
ChainFibres == {<<a, x>>, <<y, x>>, <<y, b>>}
FirstX == <<x, y>>
=============================================================================
