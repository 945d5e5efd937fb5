---------------------------- MODULE MCLinkedQueue ----------------------------
(***************************************************************************)
(* LinkedQueue for TLC: two PCBs, one priority queue and one plain queue.  *)
(***************************************************************************)
EXTENDS LinkedQueue, TLC

CONSTANTS p1, p2

MCPcb    == {p1, p2}
Symmetry == Permutations(MCPcb)

OneOfEach == {READY_NOT_SUSPENDED, BLOCKED_NOT_SUSPENDED}
=============================================================================
