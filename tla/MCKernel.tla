------------------------------ MODULE MCKernel ------------------------------
(***************************************************************************)
(* Kernel for TLC: comhand, sys_idle and two or three processes that       *)
(* comhand creates.                                                        *)
(***************************************************************************)
EXTENDS Kernel, TLC

CONSTANTS u1, u2, n1, n2

MCPcb       == {comhand, sys_idle, u1}
MCNames     == {comhand_name, sys_idle_name, n1}
LoadedPcb   == {comhand, sys_idle}
LoadedNames == {comhand_name, sys_idle_name}
TwoPcb      == {comhand, sys_idle, u1, u2}
TwoNames    == {comhand_name, sys_idle_name, n1, n2}

Symmetry == Permutations({u1, u2}) \cup Permutations({n1, n2})

MCLongNames == {}

OnlyCreate   == {"create"}
UserCommands == {"create", "delete", "suspend", "resume"}
Reorder      == {"priority", "shutdown"}
=============================================================================
