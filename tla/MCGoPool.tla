------------------------------ MODULE MCGoPool ------------------------------
(* Small instances of GoPool.                                              *)
EXTENDS GoPool

CONSTANTS g1, g2, g3, c1, c2, c3

TwoCallers == {g1, g2}
ThreeCallers == {g1, g2, g3}
TwoConns == {c1, c2}
ThreeConns == {c1, c2, c3}
=============================================================================
