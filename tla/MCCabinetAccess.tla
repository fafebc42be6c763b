-------------------------- MODULE MCCabinetAccess --------------------------
(* Instances of the cabinet for TLC. *)
EXTENDS CabinetAccess, TLC

CONSTANTS g1, g2

GrantSymmetry == Permutations(Grant)

\* Of a window that has begun the future depends only on that it has.
WindowView ==
  <<lockVars, mode, IF window # NoWindow /\ window < now THEN now ELSE window,
    planUsesNode, now, skew, overtaken>>
=============================================================================
