--------------------------- MODULE MCGarmSession ---------------------------
(***************************************************************************)
(* Instances of GarmSession for TLC: how many disturbances of each kind a  *)
(* behaviour may contain.                                                  *)
(***************************************************************************)
EXTENDS GarmSession

CONSTANTS p1, p2, c1, u1

\* One disturbance of any kind.
Singles == {[e \in Disturbances |-> IF e = d THEN 1 ELSE 0]
               : d \in Disturbances}

=============================================================================
