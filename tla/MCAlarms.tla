------------------------------ MODULE MCAlarms -------------------------------
(***************************************************************************)
(* Two slots and three alarm processes, no test processes.  The operator   *)
(* types nothing but the alarm command: it is what brings alarms, and a    *)
(* second printing command would only add waits of comhand's own.          *)
(***************************************************************************)
EXTENDS Alarms, TLC

CONSTANTS a1, a2, a3, n1, n2

MCPcb        == {comhand, sys_idle, a1, a2, a3}
MCNames      == {comhand_name, sys_idle_name, n1, n2}
MCAlarmNames == <<n1, n2>>
MCLines      == {"alarm"}
MCMessages   == {0, MaxLength}

AlarmCommands == {"create", "delete", "suspend", "resume", "priority", "shutdown"}

Nothing == {}
NoTests == <<>>
=============================================================================
