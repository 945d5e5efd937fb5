--------------------------- MODULE MCProcessTable ---------------------------
(***************************************************************************)
(* ProcessTable for TLC: three PCBs, as many names, and a long name.       *)
(***************************************************************************)
EXTENDS ProcessTable, TLC

CONSTANTS p1, p2, p3, n1, n2, n3, long

MCPcb       == {p1, p2, p3}
MCNames     == {n1, n2, n3, long}
MCLongNames == {long}

\* PCBs are interchangeable, and so are the names that are not too long.
Symmetry == Permutations(MCPcb) \cup Permutations({n1, n2, n3})
=============================================================================
