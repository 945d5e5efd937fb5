------------------------------- MODULE MCMpx --------------------------------
(***************************************************************************)
(* Mpx for TLC, with two of the five test processes.                       *)
(***************************************************************************)
EXTENDS Mpx, TLC

CONSTANTS t1, t2, n1, n2

MCPcb        == {comhand, sys_idle, t1, t2}
MCNames      == {comhand_name, sys_idle_name, n1, n2}
MCLongNames  == {}
MCTests      == <<t1, t2>>
MCTestName   == t1 :> n1 @@ t2 :> n2
MCIterations == t1 :> 1 @@ t2 :> 2

\* The names the operator types: every one but that of sys_idle, or that one
\* and the name of a test process.
NoIdle   == {comhand_name, n1, n2}
WithIdle == {sys_idle_name, n1}

R6Commands == {"create", "delete", "suspend", "resume", "priority", "shutdown"}

\* The commands that leave the machine to comhand and sys_idle.
QuietLines == {"print", "suspend", "resume", "delete", "priority", "shutdown", "shutdown!"}
TestLines  == {"load_r3"}
=============================================================================
