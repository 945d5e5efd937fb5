------------------------------- MODULE Alarms --------------------------------
(***************************************************************************)
(* The alarms of user/alarms.c and the alarm command of kernel/comhand.c,  *)
(* on the system of Mpx.                                                   *)
(*                                                                         *)
(* Clock shows what one look at the clock is worth: an alarm is never      *)
(* found due before its time, and is found due when it is, but for a carry *)
(* between two reads, after which its process looks again.  Here one look  *)
(* is therefore a comparison, and the clock the instants of a day, the     *)
(* last of which is followed by midnight.  It is a clock nobody sets, and  *)
(* of any speed: it may stand still, and pass an instant between two looks.*)
(***************************************************************************)
EXTENDS Mpx

CONSTANTS
    AlarmNames,     \* the names of the slots, "alarm0" first
    MaxTime,        \* the last instant of the day
    Messages        \* bound: the lengths of the messages the operator types

ASSUME AlarmsAssumption ==
    /\ AlarmNames \in Seq(Names \ {comhand_name, sys_idle_name})
    /\ MaxTime \in Nat
    /\ Messages \subseteq 0 .. MaxLength

VARIABLES
    alarm_processes,    \* of the slots, NULL for none
    alarm_times,        \* of the slots, NULL for none
    time                \* the clock

alarms == <<alarm_processes, alarm_times, time>>
avars  == <<mvars, alarms>>

Slots     == 1 .. Len(AlarmNames)
NOT_FOUND == 0      \* 6 in the code

\* What isValidTimeFormat lets through: the instants of the day, and hour 24,
\* which comes behind them.
Times == 0 .. MaxTime + 1

AlarmLabels == {"poll", "alarm", "answer", "create", "check", "newline", "reset", "alarm exit", "panic"}

AlarmsTypeOK ==
    /\ KernelTypeOK
    /\ pc \in [Pcb -> Labels \cup AlarmLabels]
    /\ left \in [Pcb -> Nat]
    /\ line \in Texts \cup {"alarm"}
    /\ alarm_processes \in [Slots -> Pcb \cup {NULL}]
    /\ alarm_times \in [Slots -> Times \cup {NULL}]
    /\ time \in 0 .. MaxTime

AlarmsInit ==
    /\ MpxInit
    /\ alarm_processes = [i \in Slots |-> NULL]
    /\ alarm_times = [i \in Slots |-> NULL]
    /\ time \in 0 .. MaxTime

-----------------------------------------------------------------------------
(***************************************************************************)
(* The alarm command.                                                      *)
(***************************************************************************)

\* The time is checked, and the message asked for.
parse_alarm ==
    /\ At(comhand, "parse") /\ line = "alarm"
    /\ \/ Report(1)                                     \* not a time
       \/ Goto(comhand, "alarm") /\ UNCHANGED left
    /\ line' = NO_LINE
    /\ UNCHANGED <<kvars, alarms>>

ask_message  == question("alarm", "answer") /\ UNCHANGED alarms
read_message == answer("answer", "create") /\ UNCHANGED alarms

\* The first slot whose name no PCB in a queue has.
FreeSlots == {i \in Slots : pcb_find(queue, name, AlarmNames[i]) = NULL}

\* The PCBs of the test processes are left to load_r3.
alarm ==
    /\ At(comhand, "create")
    /\ \/ /\ FreeSlots = {}
          /\ Report(1)
          /\ UNCHANGED <<kvars, alarms>>
       \/ LET i == Min(FreeSlots)
          IN  /\ FreeSlots # {}
              /\ Effect(create_pcb(AlarmNames[i], USER, USER_PRIORITY))
              /\ \E p \in (allocated' \ allocated) \ TestSet, t \in Times :
                   /\ alarm_processes' = [alarm_processes EXCEPT ![i] = p]
                   /\ alarm_times' = [alarm_times EXCEPT ![i] = t]
                   /\ pc' = [pc EXCEPT ![comhand] = "end", ![p] = "check"]
              /\ UNCHANGED <<left, time>>
    /\ UNCHANGED line

-----------------------------------------------------------------------------
(***************************************************************************)
(* print_message, the program of the alarm processes.                      *)
(***************************************************************************)

\* Faulty variant: every slot in use passes for the one that runs.
RunningSlotsTaken == {i \in Slots : alarm_processes[i] # NULL}

\* The first slot whose process pcb_find does not find: it must be the one
\* that runs.
RunningSlots ==
    {i \in Slots : /\ alarm_processes[i] # NULL
                   /\ pcb_find(queue, name, name[alarm_processes[i]]) = NULL}

check_running_process == IF RunningSlots = {} THEN NOT_FOUND ELSE Min(RunningSlots)

\* Faulty variant: only the very second counts.
IsTimeExact == alarm_times[check_running_process] = time

IsTime == alarm_times[check_running_process] <= time

\* No slot: an error is printed, and the process yields.
not_found(p) ==
    /\ At(p, "check") /\ check_running_process = NOT_FOUND
    /\ write
    /\ Goto(p, "poll")
    /\ UNCHANGED <<left, alarms>>

poll(p) ==
    /\ \/ At(p, "poll")
       \/ At(p, "check") /\ check_running_process # NOT_FOUND /\ ~IsTime
    /\ yield
    /\ Goto(p, "check")
    /\ UNCHANGED <<left, alarms>>

\* left[p] is the slot, the message that of the process in it.
go_off(p) ==
    /\ At(p, "check") /\ check_running_process # NOT_FOUND /\ IsTime
    /\ \E len \in Messages :
         /\ sys_call(io_call("WRITE", len))
         /\ line' = IF len = 0 THEN line ELSE NO_LINE
    /\ left' = [left EXCEPT ![p] = check_running_process]
    /\ Goto(p, "newline")
    /\ UNCHANGED alarms

newline(p) ==
    /\ At(p, "newline") /\ sys_call(io_call("WRITE", 1)) /\ line' = NO_LINE
    /\ Goto(p, "reset") /\ UNCHANGED <<left, alarms>>

\* Faulty variant: the event is left to the process that prints.
clear_without_waiter(p) ==
    /\ At(p, "reset") /\ blocked # <<>>
    /\ alarm_processes' = [alarm_processes EXCEPT ![left[p]] = NULL]
    /\ alarm_times' = [alarm_times EXCEPT ![left[p]] = NULL]
    /\ dcb' = [dcb EXCEPT !.event_flag = 1, !.rw_buf = NULL, !.allocation_status = 0,
                          !.rw_index = 0]
    /\ Goto(p, "alarm exit")
    /\ line' = NO_LINE
    /\ UNCHANGED <<vars, current, halted, gone, requester, left, time>>

\* The slot is given back and the device made to wake the front of the blocked
\* queue, which is meant to be comhand.  If nobody is blocked, a NULL pointer
\* is read, and the page fault stops the system.
clear(p) ==
    /\ At(p, "reset")
    /\ alarm_processes' = [alarm_processes EXCEPT ![left[p]] = NULL]
    /\ alarm_times' = [alarm_times EXCEPT ![left[p]] = NULL]
    /\ IF blocked = <<>>
       THEN Goto(p, "panic") /\ halted' = TRUE /\ UNCHANGED <<dcb, line>>
       ELSE /\ dcb' = [dcb EXCEPT !.event_flag = 1, !.rw_buf = NULL, !.allocation_status = 0,
                                 !.rw_index = 0, !.pcb_ptr = Head(blocked)]
            /\ Goto(p, "alarm exit")
            /\ line' = NO_LINE
            /\ UNCHANGED halted
    /\ UNCHANGED <<vars, current, gone, requester, left, time>>

\* EXIT, behind which the loop goes on.
alarm_exit(p) == At(p, "alarm exit") /\ exit /\ Goto(p, "check") /\ UNCHANGED <<left, alarms>>

print_message(p) ==
    not_found(p) \/ poll(p) \/ go_off(p) \/ newline(p) \/ clear(p) \/ alarm_exit(p)

-----------------------------------------------------------------------------
\* The operator types a message, if any, and presses Enter.
message == reply_key("create") \/ reply_enter("create", {line})

clock_tick ==
    /\ ~halted
    /\ time' = (time + 1) % (MaxTime + 1)
    /\ UNCHANGED <<mvars, alarm_processes, alarm_times>>

alarm_step == parse_alarm \/ ask_message \/ read_message \/ alarm \/ \E p \in Pcb : print_message(p)

program_step == alarm_step \/ (process_step /\ UNCHANGED alarms)

\* The bound: no alarm is asked for when the model has no PCB left.
AlarmsNext ==
    \/ program_step
    \/ device_step /\ UNCHANGED alarms
    \/ operator /\ (line' = "alarm" => allocated \cup TestSet # Pcb) /\ UNCHANGED alarms
    \/ message /\ UNCHANGED alarms
    \/ clock_tick

AlarmsSpec == AlarmsInit /\ [][AlarmsNext]_avars

\* The CPU runs whichever process has it.
FairAlarmsSpec == AlarmsSpec /\ WF_avars(program_step)

-----------------------------------------------------------------------------
(***************************************************************************)
(* Properties                                                              *)
(***************************************************************************)

\* "Get currently running alarm": the slot an alarm process takes for its own,
\* with its time and its message, is its own, whatever the others wait for.
AlarmFindsItself ==
    \A p \in Pcb : At(p, "check") /\ check_running_process # NOT_FOUND =>
        alarm_processes[check_running_process] = p

\* A slot in use is not given to a new alarm, nor emptied by another one: it
\* only changes when the alarm in it has the CPU.
SlotsKept ==
    [][\A i \in Slots :
          alarm_processes[i] # NULL /\ alarm_processes'[i] # alarm_processes[i] =>
              current = alarm_processes[i]]_avars

\* The alarm of slot i has not gone off, though its time has passed today.
Overdue(i) == /\ alarm_processes[i] # NULL
              /\ pc[alarm_processes[i]] \in {"check", "poll"}
              /\ alarm_times[i] <= time

\* "Display a message at a specified time": an alarm whose time has passed goes
\* off, unless midnight comes first, as long as no process comes to be in two
\* places.  When comhand does, its second entry can keep the CPU from every
\* alarm.  Nothing is said of an alarm whose time the clock does not reach:
\* hour 24 is behind every instant it shows.
GoesOff == \A i \in Slots : Overdue(i) ~> ~Overdue(i) \/ halted \/ ~OneQueueEach

GoingOff(p) == pc[p] \in {"newline", "reset", "alarm exit"}

\* While comhand sleeps, and however many alarms wait for a time that is yet to
\* come, the event that Enter raises is for comhand.  Only an alarm that is just
\* going off can take it, and a process that is in two places or runs on behind
\* its EXIT.  doc/r6-warnings.md tells of a comhand that is never unblocked.
ComhandIsWoken ==
    /\ current \notin {NULL, comhand} /\ state[comhand] = BLOCKED_NOT_SUSPENDED
    /\ OneQueueEach
    /\ \A p \in gone : p # current /\ ~Queued(queue, p)
    /\ \A p \in Pcb : ~GoingOff(p)
    => dcb.pcb_ptr = comhand /\ dcb.iocbs

\* The alarm command's comment says that a message is checked to be not empty
\* before it is passed on.  The print of an empty one fails and its process runs
\* on; when it then wakes the front of the blocked queue, there must be one.
NoPanic == \A p \in Pcb : pc[p] # "panic"
=============================================================================
