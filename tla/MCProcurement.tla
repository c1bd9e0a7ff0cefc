---------------------------- MODULE MCProcurement ----------------------------
(***************************************************************************)
(* Small instances of Procurement.                                         *)
(***************************************************************************)
EXTENDS Procurement, TLC

CONSTANTS p1, p2, i1, k1, k2, t1, t2, t3

TwoUnits == [p \in Purchase |-> 2]

Symmetry == Permutations(Thread) \cup Permutations(Key)
=============================================================================
