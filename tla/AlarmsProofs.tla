---------------------------- MODULE AlarmsProofs ----------------------------
(***************************************************************************)
(* The alarms run on the kernel like the programs of Mpx, but for one step *)
(* in which an alarm process writes into the device.  Whatever lines the   *)
(* operator types, no process is lost and every variable keeps its type;   *)
(* as long as no command takes an alarm process out of the queues, every   *)
(* alarm finds its own slot and keeps it until it has gone off.            *)
(***************************************************************************)
EXTENDS Alarms, MpxProofs

\* Where only an alarm process comes.
ProcessLabels == {"poll", "check", "newline", "reset", "alarm exit", "panic"}

\* The processes with programs of their own.
Others == {comhand, sys_idle} \cup TestSet

AlarmsData ==
    /\ alarm_processes \in [Slots -> Pcb \cup {NULL}]
    /\ alarm_times \in [Slots -> Times \cup {NULL}]
    /\ time \in 0 .. MaxTime

Roles == \A p \in Others : pc[p] \notin ProcessLabels

SystemInv ==
    /\ SortInv
    /\ ProgramsInv(AlarmLabels)
    /\ AlarmsData
    /\ Roles
    /\ {comhand, sys_idle} \subseteq allocated

-----------------------------------------------------------------------------
\* The steps of comhand leave the other programs where they are.
LEMMA ComhandAlone ==
  ASSUME ProgramsInv(AlarmLabels), comhand_step
  PROVE  /\ pc'[comhand] \in Labels
         /\ \A q \in Pcb \ {comhand} : pc'[q] = pc[q] /\ left'[q] = left[q]
<1> USE DEF At, Goto
<1>1. /\ pc \in [Pcb -> Labels \cup AlarmLabels] /\ left \in [Pcb -> Nat]
      /\ comhand \in Pcb /\ current = comhand
  BY Loaded DEF ProgramsInv, ProgramsTypeOK, comhand_step, greet, read, parse, load_r3, print,
       reinsert, ask, question, free, wait, answer, confirm, shutdown, goodbye, comhand_exit,
       end, idle
<1>2. CASE greet \/ print \/ load_r3
  BY <1>1, <1>2 DEF greet, print, load_r3, Message, Labels
<1>3. CASE read \/ reinsert \/ ask \/ free \/ wait \/ confirm \/ goodbye \/ comhand_exit \/ end \/ idle
  BY <1>1, <1>3 DEF read, reinsert, ask, question, free, wait, answer, confirm, Shutdown,
       goodbye, comhand_exit, end, idle, Labels
<1>4. CASE parse
  BY <1>1, <1>4 DEF parse, Report, Shutdown, Effect, pcb_line, Labels
<1>5. CASE shutdown
  BY <1>1, <1>5 DEF shutdown, Labels
<1> QED BY <1>2, <1>3, <1>4, <1>5 DEF comhand_step

\* So do those of a test process.
LEMMA TestAlone ==
  ASSUME ProgramsInv(AlarmLabels), NEW p \in TestSet, r3_proc(p)
  PROVE  /\ current = p
         /\ pc'[p] \in Labels
         /\ \A q \in Pcb \ {p} : pc'[q] = pc[q] /\ left'[q] = left[q]
<1>1. /\ pc \in [Pcb -> Labels \cup AlarmLabels] /\ left \in [Pcb -> Nat] /\ p \in Pcb
  BY Loaded DEF ProgramsInv, ProgramsTypeOK
<1> QED BY <1>1 DEF r3_proc, At, Goto, Labels

\* PCBs are allocated for good.
LEMMA AllocatedGrows ==
  ASSUME SortInv, [KernelNext]_kvars
  PROVE  allocated \subseteq allocated'
<1>1. KInv /\ KnownPcbs
  BY DEF SortInv
<1>2. CASE sys_call(any_call)
  BY <1>2 DEF sys_call
<1>3. CASE serial_output_interrupt \/ serial_input_interrupt \/ comhand_reset
  BY <1>1, <1>3, DeviceAlone DEF vars
<1>4. CASE pcb_command
  BY <1>1, <1>4, CommandsOrder DEF pcb_command, Effect, CommandOrderly
<1>5. CASE UNCHANGED kvars
  BY <1>5 DEF kvars, vars
<1> QED BY <1>2, <1>3, <1>4, <1>5 DEF KernelNext


-----------------------------------------------------------------------------
\* An alarm process moves on; the others stay where they are.
LEMMA AlarmMoves ==
  ASSUME ProgramsInv(AlarmLabels), Roles, NEW p \in Pcb \ Others,
         NEW l \in ProcessLabels, NEW n \in Nat,
         pc' = [pc EXCEPT ![p] = l],
         left' = [left EXCEPT ![p] = n],
         line' \in Inputs,
         setting' = setting
  PROVE  ProgramsInv(AlarmLabels)' /\ Roles'
<1>1. l \in Labels \cup AlarmLabels
  BY DEF ProcessLabels, AlarmLabels
<1>2. comhand # p /\ \A q \in TestSet : q # p /\ q \in Pcb
  BY Loaded DEF Others
<1>3. ProgramsTypeOK(AlarmLabels)'
  BY <1>1 DEF ProgramsInv, ProgramsTypeOK
<1>4. Counts'
  BY <1>2, Loaded DEF ProgramsInv, ProgramsTypeOK, Counts
<1>5. Settings'
  BY <1>2, Loaded DEF ProgramsInv, ProgramsTypeOK, Settings
<1>6. Roles'
  BY Loaded DEF ProgramsInv, ProgramsTypeOK, Roles, Others
<1> QED BY <1>3, <1>4, <1>5, <1>6 DEF ProgramsInv

\* comhand moves on, and none of the others has come where only an alarm does.
LEMMA ComhandRoles ==
  ASSUME ProgramsInv(AlarmLabels), Roles,
         pc'[comhand] \notin ProcessLabels,
         \A q \in Pcb \ {comhand} : pc'[q] = pc[q]
  PROVE  Roles'
BY Loaded DEF Roles, Others

\* The steps of an alarm process but one are system calls.
LEMMA ProcessSteps ==
  ASSUME SystemInv, NEW p \in Pcb,
         not_found(p) \/ poll(p) \/ go_off(p) \/ newline(p) \/ alarm_exit(p)
  PROVE  KernelNext /\ ProgramsInv(AlarmLabels)' /\ Roles'
<1> USE DEF At, Goto
<1>1. /\ current = p /\ pc[p] \in ProcessLabels
      /\ pc \in [Pcb -> Labels \cup AlarmLabels] /\ left \in [Pcb -> Nat]
      /\ line \in Inputs /\ NO_LINE \in Inputs
      /\ ProgramsInv(AlarmLabels) /\ Roles
  BY DEF SystemInv, ProgramsInv, ProgramsTypeOK, not_found, poll, go_off, newline, alarm_exit,
         ProcessLabels, Inputs
<1>2. p \in Pcb \ Others /\ current # sys_idle /\ current \in Pcb \cup {NULL}
  BY <1>1 DEF Roles, Others
<1>3. left = [left EXCEPT ![p] = left[p]] /\ left[p] \in Nat
  BY <1>1
<1>4. ASSUME NEW l \in ProcessLabels, pc' = [pc EXCEPT ![p] = l], UNCHANGED left,
             KernelNext, setting' = setting, line' \in {line, NO_LINE}
      PROVE  KernelNext /\ ProgramsInv(AlarmLabels)' /\ Roles'
  BY <1>1, <1>2, <1>3, <1>4, AlarmMoves
<1>5. "poll" \in ProcessLabels /\ "check" \in ProcessLabels /\ "newline" \in ProcessLabels
      /\ "reset" \in ProcessLabels
  BY DEF ProcessLabels
<1>6. CASE not_found(p)
  BY <1>2, <1>4, <1>5, <1>6, CallsAreKernelSteps DEF not_found
<1>7. CASE poll(p)
  BY <1>2, <1>4, <1>5, <1>7, CallsAreKernelSteps DEF poll
<1>8. CASE go_off(p)
  <2>1. PICK len \in Messages : /\ sys_call(io_call("WRITE", len))
                                /\ line' = IF len = 0 THEN line ELSE NO_LINE
    BY <1>8 DEF go_off
  <2>2. len \in 0 .. MaxLength
    BY AlarmsAssumption
  <2>3. KernelNext /\ setting' = setting
    BY <1>2, <2>1, <2>2 DEF sys_call, any_call, KernelNext
  <2> DEFINE n == check_running_process
  <2>4. left' = [left EXCEPT ![p] = n] /\ pc' = [pc EXCEPT ![p] = "newline"] /\ n # NOT_FOUND
    BY <1>8 DEF go_off
  <2>5. n \in Nat
    <3>1. RunningSlots # {} /\ n = Min(RunningSlots)
      BY <2>4 DEF check_running_process
    <3>2. RunningSlots \subseteq Slots /\ Slots \subseteq Nat
      BY AlarmsAssumption DEF RunningSlots, Slots
    <3> QED BY <3>1, <3>2, NatMin
  <2> HIDE DEF n
  <2> QED BY <1>1, <1>2, <1>5, <2>1, <2>3, <2>4, <2>5, AlarmMoves
<1>9. CASE newline(p)
  <2>1. 1 \in 0 .. MaxLength
    BY RangeAssumption
  <2>2. KernelNext /\ setting' = setting
    BY <1>2, <1>9, <2>1 DEF newline, sys_call, any_call, KernelNext
  <2> QED BY <1>2, <1>4, <1>5, <1>9, <2>2 DEF newline
<1>10. CASE alarm_exit(p)
  BY <1>2, <1>4, <1>5, <1>10, CallsAreKernelSteps DEF alarm_exit
<1> QED BY <1>6, <1>7, <1>8, <1>9, <1>10


\* The process of the finished alarm hands the device to the front of the
\* blocked queue: no call of the kernel does this.
LEMMA ResetKeeps ==
  ASSUME SystemInv, NEW p \in Pcb, clear(p)
  PROVE  SystemInv'
<1>1. /\ current = p /\ pc[p] = "reset"
      /\ pc \in [Pcb -> Labels \cup AlarmLabels] /\ left \in [Pcb -> Nat]
      /\ line \in Inputs /\ NO_LINE \in Inputs
      /\ SortInv /\ KInv /\ KnownPcbs /\ ProgramsInv(AlarmLabels) /\ AlarmsData /\ Roles
  BY DEF SystemInv, SortInv, ProgramsInv, ProgramsTypeOK, clear, At, Inputs
<1>2. p \in Pcb \ Others
  BY <1>1 DEF Roles, Others, ProcessLabels
<1>3. /\ UNCHANGED <<vars, current, gone, requester, left, time>>
      /\ alarm_processes' = [alarm_processes EXCEPT ![left[p]] = NULL]
      /\ alarm_times' = [alarm_times EXCEPT ![left[p]] = NULL]
      /\ \/ Goto(p, "panic") /\ halted' = TRUE /\ UNCHANGED <<dcb, line>>
         \/ /\ blocked # <<>>
            /\ dcb' = [dcb EXCEPT !.event_flag = 1, !.rw_buf = NULL, !.allocation_status = 0,
                                  !.rw_index = 0, !.pcb_ptr = Head(blocked)]
            /\ Goto(p, "alarm exit") /\ line' = NO_LINE /\ UNCHANGED halted
  BY DEF clear
<1>4. UNCHANGED <<queue, state, priority, class, name, allocated, setting, reply>>
  BY <1>3 DEF vars
<1>5. /\ dcb' \in DCB /\ halted' \in BOOLEAN
      /\ WaiterKnown' /\ dcb'.pcb_ptr \in allocated \cup {NULL}
  <2>1. dcb \in DCB /\ halted \in BOOLEAN /\ queue \in Queues /\ 0 \in 0 .. MaxIndex
        /\ WaiterKnown /\ dcb.pcb_ptr \in allocated \cup {NULL}
    BY <1>1, RangeAssumption DEF KInv, KernelTypeOK, TypeOK, Queues, KnownPcbs
  <2>2. CASE UNCHANGED dcb /\ halted' = TRUE
    BY <2>1, <2>2 DEF WaiterKnown
  <2>3. CASE /\ blocked # <<>> /\ UNCHANGED halted
             /\ dcb' = [dcb EXCEPT !.event_flag = 1, !.rw_buf = NULL, !.allocation_status = 0,
                                   !.rw_index = 0, !.pcb_ptr = Head(blocked)]
    <3> DEFINE q == queue[BLOCKED_NOT_SUSPENDED]
    <3>1. BLOCKED_NOT_SUSPENDED \in States /\ q \in Seq(Pcb) /\ q # <<>>
      BY <2>1, <2>3 DEF Queues, States, BlockedStates, blocked
    <3> HIDE DEF q
    <3>2. 1 \in 1 .. Len(q) /\ Head(q) = q[1] /\ Head(q) \in Pcb
      BY <3>1
    <3>3. In(q, Head(q))
      BY <3>2 DEF In
    <3>4. Queued(queue, Head(q))
      BY <3>1, <3>3, QueuedIs DEF q
    <3>5. Head(q) \in allocated /\ Head(q) \in Pcb /\ Head(q) # NULL /\ Head(q) = Head(blocked)
      BY <1>1, <3>2, <3>4, PcbAssumption DEF KnownPcbs, q, blocked
    <3> QED BY <2>1, <2>3, <3>5 DEF DCB, WaiterKnown
  <2> QED BY <1>3, <2>2, <2>3
<1>6. SortInv'
  <2>1. KernelTypeOK'
    BY <1>1, <1>3, <1>4, <1>5 DEF KInv, KernelTypeOK, TypeOK
  <2>2. NoProcessLost'
    BY <1>1, <1>3, <1>4 DEF KInv, NoProcessLost
  <2>3. KnownPcbs'
    BY <1>1, <1>3, <1>4, <1>5 DEF KnownPcbs
  <2> QED BY <1>1, <1>4, <1>5, <2>1, <2>2, <2>3 DEF SortInv, KInv
<1>7. PICK l \in {"panic", "alarm exit"} : pc' = [pc EXCEPT ![p] = l] /\ line' \in {line, NO_LINE}
  BY <1>3 DEF Goto
<1>8. l \in ProcessLabels /\ left[p] \in Nat /\ left' = [left EXCEPT ![p] = left[p]]
  BY <1>1, <1>3 DEF ProcessLabels
<1>9. ProgramsInv(AlarmLabels)' /\ Roles'
  BY <1>1, <1>2, <1>4, <1>7, <1>8, AlarmMoves
<1>10. AlarmsData'
  BY <1>1, <1>3 DEF AlarmsData
<1> QED BY <1>4, <1>6, <1>9, <1>10 DEF SystemInv

-----------------------------------------------------------------------------
\* What create_pcb does to the rest of the system when comhand calls it.
LEMMA CreateIs ==
  ASSUME KInv, NEW n \in Names, Effect(create_pcb(n, USER, USER_PRIORITY))
  PROVE  /\ UNCHANGED <<setting, current, gone>>
         /\ \A q \in allocated : name'[q] = name[q]
         /\ \/ allocated' = allocated
            \/ \E p \in Pcb \ allocated : allocated' = allocated \cup {p} /\ name'[p] = n
<1>1. /\ create_pcb(n, USER, USER_PRIORITY)
      /\ gone' = gone \cup {p \in Pcb : Queued(queue, p) /\ ~Queued(queue', p) /\ p # setting'}
      /\ current' = current
  BY DEF Effect
<1>2. name \in [Pcb -> Names] /\ queue \in Queues /\ state \in [Pcb -> States]
      /\ priority \in [Pcb -> Priorities] /\ allocated \subseteq Pcb
  BY DEF KInv, KernelTypeOK, TypeOK, Queues
<1>3. CASE Refuse("create")
  BY <1>1, <1>2, <1>3 DEF Refuse, table
<1>4. CASE ~Refuse("create")
  <2>1. PICK p \in Pcb \ allocated :
          /\ allocated' = allocated \cup {p}
          /\ name'      = [name EXCEPT ![p] = n]
          /\ priority'  = [priority EXCEPT ![p] = USER_PRIORITY]
          /\ state'     = [state EXCEPT ![p] = READY_NOT_SUSPENDED]
          /\ queue'     = pcb_insert(queue, state', priority', p)
          /\ setting'   = setting
    BY <1>1, <1>4 DEF create_pcb
  <2>2. state' \in [Pcb -> States] /\ priority' \in [Pcb -> Priorities]
    BY <1>2, <2>1, RangeAssumption DEF States, ReadyStates
  <2>3. \A x : Queued(queue', x) <=> Queued(queue, x) \/ x = p
    BY <1>2, <2>1, <2>2, InsertKeeps
  <2>4. gone' = gone
    BY <1>1, <2>3
  <2> QED BY <1>1, <1>2, <2>1, <2>4
<1> QED BY <1>3, <1>4

\* The alarm command on its way to its process.
LEMMA CommandSteps ==
  ASSUME WholeSystem, SystemInv, parse_alarm \/ ask_message \/ read_message
  PROVE  /\ [KernelNext]_kvars /\ ProgramsInv(AlarmLabels)' /\ Roles'
         /\ UNCHANGED alarms
<1> USE DEF At, Goto
<1>1. /\ current = comhand /\ current # sys_idle /\ setting = NULL
      /\ left[comhand] \in Nat /\ left = [left EXCEPT ![comhand] = left[comhand]]
      /\ pc \in [Pcb -> Labels \cup AlarmLabels]
      /\ line \in Inputs /\ NO_LINE \in Inputs
      /\ ProgramsInv(AlarmLabels) /\ Roles
  BY Loaded DEF parse_alarm, ask_message, read_message, question, answer, SystemInv, ProgramsInv,
                ProgramsTypeOK, Settings, Inputs
<1>2. ASSUME NEW l \in {"print", "alarm", "answer", "create"}, NEW n \in Nat,
             pc' = [pc EXCEPT ![comhand] = l], left' = [left EXCEPT ![comhand] = n],
             l = "print" => n > 0, line' = NO_LINE, setting' = NULL
      PROVE  ProgramsInv(AlarmLabels)' /\ Roles'
  <2>1. l \in Labels \cup AlarmLabels
    BY <1>2 DEF Labels, AlarmLabels
  <2>2. ProgramsInv(AlarmLabels)'
    BY <1>1, <1>2, <2>1, ComhandMoves
  <2>3. Roles'
    BY <1>1, <1>2, ComhandRoles, Loaded DEF ProcessLabels
  <2> QED BY <2>2, <2>3
<1>3. CASE parse_alarm
  <2>1. setting' = NULL /\ line' = NO_LINE /\ UNCHANGED <<kvars, alarms>>
    BY <1>1, <1>3 DEF parse_alarm, kvars, vars
  <2>2. CASE Report(1)
    <3>1. pc' = [pc EXCEPT ![comhand] = "print"] /\ left' = [left EXCEPT ![comhand] = 1]
      BY <2>2 DEF Report
    <3>2. 1 \in Nat /\ 1 > 0
      OBVIOUS
    <3> QED BY <1>2, <2>1, <3>1, <3>2
  <2>3. CASE Goto(comhand, "alarm") /\ UNCHANGED left
    BY <1>1, <1>2, <2>1, <2>3
  <2> QED BY <1>3, <2>1, <2>2, <2>3 DEF parse_alarm
<1>4. CASE ask_message
  BY <1>1, <1>2, <1>4, CallsAreKernelSteps DEF ask_message, question
<1>5. CASE read_message
  BY <1>1, <1>2, <1>5, CallsAreKernelSteps DEF read_message, answer
<1> QED BY <1>3, <1>4, <1>5


\* The command creates the process of the new alarm.
LEMMA AlarmSteps ==
  ASSUME WholeSystem, SystemInv, alarm
  PROVE  [KernelNext]_kvars /\ ProgramsInv(AlarmLabels)' /\ Roles' /\ AlarmsData'
<1> USE DEF At, Goto
<1>1. /\ current = comhand /\ ~halted /\ setting = NULL /\ line' = line
      /\ left \in [Pcb -> Nat] /\ pc \in [Pcb -> Labels \cup AlarmLabels]
      /\ line \in Inputs /\ KInv
      /\ ProgramsInv(AlarmLabels) /\ Roles /\ AlarmsData /\ {comhand, sys_idle} \subseteq allocated
  BY Loaded DEF alarm, SystemInv, SortInv, ProgramsInv, ProgramsTypeOK, Settings
<1>2. CASE Report(1) /\ UNCHANGED <<kvars, alarms>>
  <2>1. /\ pc' = [pc EXCEPT ![comhand] = "print"] /\ left' = [left EXCEPT ![comhand] = 1]
        /\ 1 \in Nat /\ 1 > 0 /\ setting' = NULL
    BY <1>1, <1>2 DEF Report, kvars, vars
  <2>2. "print" \in Labels \cup AlarmLabels /\ "print" \notin ProcessLabels
    BY DEF Labels, ProcessLabels
  <2>3. ProgramsInv(AlarmLabels)'
    BY <1>1, <2>1, <2>2, ComhandMoves
  <2>4. Roles'
    BY <1>1, <2>1, <2>2, ComhandRoles, Loaded
  <2> QED BY <1>1, <1>2, <2>3, <2>4 DEF alarms, AlarmsData
<1>3. CASE ~(Report(1) /\ UNCHANGED <<kvars, alarms>>)
  <2> DEFINE i == Min(FreeSlots)
             n == AlarmNames[i]
  <2>1. /\ FreeSlots # {}
        /\ Effect(create_pcb(n, USER, USER_PRIORITY))
        /\ \E p \in (allocated' \ allocated) \ TestSet, t \in Times :
             /\ alarm_processes' = [alarm_processes EXCEPT ![i] = p]
             /\ alarm_times' = [alarm_times EXCEPT ![i] = t]
             /\ pc' = [pc EXCEPT ![comhand] = "end", ![p] = "check"]
        /\ UNCHANGED <<left, time>>
    BY <1>3 DEF alarm
  <2>2. i \in Slots
    <3>1. FreeSlots \subseteq Slots /\ Slots \subseteq Nat
      BY AlarmsAssumption DEF FreeSlots, Slots
    <3> QED BY <2>1, <3>1, NatMin
  <2>3. n \in Names \ {comhand_name, sys_idle_name}
    BY <2>2, AlarmsAssumption DEF Slots
  <2> HIDE DEF i, n
  <2>4. PICK p \in (allocated' \ allocated) \ TestSet, t \in Times :
             /\ alarm_processes' = [alarm_processes EXCEPT ![i] = p]
             /\ alarm_times' = [alarm_times EXCEPT ![i] = t]
             /\ pc' = [pc EXCEPT ![comhand] = "end", ![p] = "check"]
    BY <2>1
  <2>5. /\ UNCHANGED <<setting, current, gone>>
        /\ \/ allocated' = allocated
           \/ \E q \in Pcb \ allocated : allocated' = allocated \cup {q} /\ name'[q] = n
    BY <1>1, <2>1, <2>3, CreateIs
  <2>6. p \in Pcb \ Others /\ p # comhand /\ comhand \in Pcb
    BY <1>1, <2>5, Loaded DEF Others
  <2>7. KernelNext
    <3>1. create_pcb(n, USER, USER_PRIORITY) => table_command
      BY <1>1, <2>3 DEF table_command, WholeSystem
    <3>2. Effect(table_command)
      BY <2>1, <3>1 DEF Effect
    <3> QED BY <1>1, <3>2 DEF pcb_command, KernelNext
  <2>8. ProgramsTypeOK(AlarmLabels)'
    <3>1. {"end", "check"} \subseteq Labels \cup AlarmLabels
      BY DEF Labels, AlarmLabels
    <3>2. pc' \in [Pcb -> Labels \cup AlarmLabels]
      BY <1>1, <2>4, <2>6, <3>1
    <3> QED BY <1>1, <2>1, <3>2 DEF ProgramsTypeOK
  <2>9. /\ pc'[comhand] = "end" /\ \A q \in Pcb \ {comhand, p} : pc'[q] = pc[q]
    BY <1>1, <2>4, <2>6
  <2>10. Counts'
    BY <1>1, <2>1, <2>6, <2>9, Loaded DEF ProgramsInv, Counts, Others
  <2>11. Settings'
    BY <1>1, <2>5 DEF Settings
  <2>12. Roles'
    BY <1>1, <2>6, <2>9, Loaded DEF Roles, Others, ProcessLabels
  <2>13. AlarmsData'
    BY <1>1, <2>1, <2>2, <2>4, <2>6 DEF AlarmsData
  <2> QED BY <2>7, <2>8, <2>10, <2>11, <2>12, <2>13 DEF ProgramsInv
<1> QED BY <1>2, <1>3

-----------------------------------------------------------------------------
\* The programs of Mpx, the device and the operator among the alarms.
LEMMA MpxSteps ==
  ASSUME WholeSystem, SystemInv,
         process_step \/ device_step \/ operator \/ message, UNCHANGED alarms
  PROVE  /\ [KernelNext]_kvars /\ ProgramsInv(AlarmLabels)' /\ Roles' /\ AlarmsData'
<1>1. /\ KInv /\ ProgramsInv(AlarmLabels) /\ Roles /\ line \in Inputs
      /\ pc \in [Pcb -> Labels \cup AlarmLabels]
  BY DEF SystemInv, SortInv, ProgramsInv, ProgramsTypeOK
<1>2. AlarmsData'
  BY DEF SystemInv, AlarmsData, alarms
<1>3. CASE process_step \/ device_step \/ operator
  <2>1. MpxNext
    BY <1>3 DEF MpxNext
  <2>2. [KernelNext]_kvars /\ ProgramsInv(AlarmLabels)'
    BY <1>1, <2>1, MpxStepKeeps
  <2>3. CASE comhand_step
    <3>1. pc'[comhand] \notin ProcessLabels
      BY <1>1, <2>3, ComhandAlone DEF Labels, ProcessLabels
    <3> QED BY <1>1, <1>2, <2>2, <2>3, <3>1, ComhandAlone, ComhandRoles
  <2>4. CASE \E p \in TestSet : r3_proc(p)
    <3>1. PICK p \in TestSet : r3_proc(p)
      BY <2>4
    <3>2. /\ pc'[p] \notin ProcessLabels
          /\ \A q \in Pcb \ {p} : pc'[q] = pc[q]
      BY <1>1, <3>1, TestAlone DEF Labels, ProcessLabels
    <3>3. Roles'
      BY <1>1, <3>2, Loaded DEF Roles, Others
    <3> QED BY <1>2, <2>2, <3>3
  <2>5. CASE kmain \/ sys_idle_process \/ device_step \/ operator
    <3>1. UNCHANGED pc
      BY <2>5 DEF kmain, sys_idle_process, device_step, operator, programs
    <3> QED BY <1>1, <1>2, <2>2, <3>1 DEF Roles
  <2> QED BY <1>3, <2>3, <2>4, <2>5 DEF process_step
<1>4. CASE message
  <2>1. serial_input_interrupt /\ UNCHANGED <<pc, left, setting>> /\ line' \in Inputs
    BY <1>1, <1>4 DEF message, reply_key, reply_enter, input_enter, input_key, Device, vars,
                      programs, serial_input_interrupt
  <2>2. KernelNext
    BY <2>1 DEF KernelNext
  <2> QED BY <1>1, <1>2, <2>1, <2>2, ProgramsRest DEF Roles
<1> QED BY <1>3, <1>4

\* Every step keeps SystemInv.
LEMMA SystemStep ==
  ASSUME WholeSystem, SystemInv, [AlarmsNext]_avars
  PROVE  SystemInv'
<1>1. SUFFICES ASSUME ~\E p \in Pcb : clear(p)
               PROVE  /\ [KernelNext]_kvars /\ ProgramsInv(AlarmLabels)' /\ Roles' /\ AlarmsData'
  <2>1. CASE \E p \in Pcb : clear(p)
    BY <2>1, ResetKeeps
  <2>2. CASE [KernelNext]_kvars /\ ProgramsInv(AlarmLabels)' /\ Roles' /\ AlarmsData'
    BY <2>2, SortInvStep, AllocatedGrows DEF SystemInv
  <2> QED BY <2>1, <2>2
<1>2. ProgramsInv(AlarmLabels) /\ Roles /\ AlarmsData
  BY DEF SystemInv
<1>3. CASE \E p \in Pcb : print_message(p)
  <2>1. PICK p \in Pcb : not_found(p) \/ poll(p) \/ go_off(p) \/ newline(p) \/ alarm_exit(p)
    BY <1>1, <1>3 DEF print_message
  <2>2. UNCHANGED alarms
    BY <2>1 DEF not_found, poll, go_off, newline, alarm_exit
  <2>3. AlarmsData'
    BY <1>2, <2>2 DEF alarms, AlarmsData
  <2> QED BY <2>1, <2>3, ProcessSteps
<1>4. CASE parse_alarm \/ ask_message \/ read_message
  <2>1. AlarmsData'
    BY <1>2, <1>4, CommandSteps DEF alarms, AlarmsData
  <2> QED BY <1>4, <2>1, CommandSteps
<1>5. CASE alarm
  BY <1>5, AlarmSteps
<1>6. CASE (process_step \/ device_step \/ operator \/ message) /\ UNCHANGED alarms
  BY <1>6, MpxSteps
<1>7. CASE clock_tick
  <2>1. UNCHANGED <<kvars, pc, left, line, setting>> /\ UNCHANGED <<alarm_processes, alarm_times>>
        /\ time' = (time + 1) % (MaxTime + 1)
    BY <1>7 DEF clock_tick, mvars, kvars, vars, programs
  <2>2. ProgramsInv(AlarmLabels)'
    BY <1>2, <2>1, ProgramsRest DEF ProgramsInv, ProgramsTypeOK
  <2>3. AlarmsData'
    BY <1>2, <2>1, AlarmsAssumption DEF AlarmsData
  <2> QED BY <1>2, <2>1, <2>2, <2>3 DEF Roles
<1>8. CASE UNCHANGED avars
  <2>1. UNCHANGED <<kvars, pc, left, line, setting>> /\ UNCHANGED <<alarm_processes, alarm_times, time>>
    BY <1>8 DEF avars, alarms, mvars, kvars, vars, programs
  <2>2. ProgramsInv(AlarmLabels)'
    BY <1>2, <2>1, ProgramsRest DEF ProgramsInv, ProgramsTypeOK
  <2> QED BY <1>2, <2>1, <2>2 DEF Roles, AlarmsData
<1> QED BY <1>3, <1>4, <1>5, <1>6, <1>7, <1>8 DEF AlarmsNext, program_step, alarm_step


LEMMA SystemInit ==
  ASSUME AlarmsInit
  PROVE  SystemInv
<1>1. KernelInit /\ ProgramsInv(AlarmLabels)
  BY ProgramsInit DEF AlarmsInit
<1>2. SortInv
  BY <1>1, SortInvInit
<1>3. \A p \in Others : p \in Pcb /\ pc[p] \notin ProcessLabels
  BY Loaded DEF AlarmsInit, MpxInit, Others, ProcessLabels
<1>4. AlarmsData
  BY AlarmsAssumption DEF AlarmsInit, AlarmsData
<1> QED BY <1>1, <1>2, <1>3, <1>4 DEF SystemInv, Roles, KernelInit

LEMMA SystemInvariance == ASSUME WholeSystem PROVE AlarmsSpec => []SystemInv
<1>1. AlarmsInit => SystemInv
  BY SystemInit
<1>2. SystemInv /\ [AlarmsNext]_avars => SystemInv'
  BY SystemStep
<1> QED BY <1>1, <1>2, PTL DEF AlarmsSpec

\* With alarms among the processes every variable still keeps its type, though
\* an alarm process writes into the device behind the driver's back, whatever
\* lines the operator types.
THEOREM AlarmsTypeCorrect ==
  ASSUME WholeSystem, Lines \subseteq AllLines \cup {"alarm"}
  PROVE  AlarmsSpec => []AlarmsTypeOK
<1>1. SystemInv => AlarmsTypeOK
  BY DEF SystemInv, SortInv, KInv, ProgramsInv, ProgramsTypeOK, AlarmsData, AlarmsTypeOK,
         Inputs, Texts
<1> QED BY <1>1, SystemInvariance, PTL

\* No process is lost, although a finished alarm has the device wake the front
\* of the blocked queue in place of the process it worked for.
THEOREM AlarmsKeepProcesses ==
  ASSUME WholeSystem PROVE AlarmsSpec => []NoProcessLost
<1>1. SystemInv => NoProcessLost
  BY DEF SystemInv, SortInv, KInv
<1> QED BY <1>1, SystemInvariance, PTL

-----------------------------------------------------------------------------
(***************************************************************************)
(* The slots, as long as no command takes a process out of the queues.     *)
(***************************************************************************)
QuietLines == Lines \subseteq {"alarm", "print", "load_r3"}

CalmLabels == {"greet", "read", "parse", "load", "print", "end", "idle",
               "alarm", "answer", "create"}
Waiting    == {"check", "poll", "newline", "reset"}

\* comhand never comes to the commands that take PCBs.
Calm == setting = NULL /\ pc[comhand] \in CalmLabels

\* In a slot is a process of its name that has not yet given it back.
SlotsHold ==
    \A i \in Slots : alarm_processes[i] # NULL =>
        /\ alarm_processes[i] \in allocated \ gone
        /\ name[alarm_processes[i]] = AlarmNames[i]
        /\ pc[alarm_processes[i]] \in Waiting

OneSlot ==
    \A i, j \in Slots :
        alarm_processes[i] # NULL /\ alarm_processes[i] = alarm_processes[j] => i = j

\* An alarm that goes off remembers its own slot.
OwnSlot ==
    \A p \in Pcb : pc[p] \in {"newline", "reset"} =>
        left[p] \in Slots /\ alarm_processes[left[p]] = p

AlarmsInv ==
    SystemInv /\ Calm /\ gone \subseteq allocated /\ SlotsHold /\ OneSlot /\ OwnSlot

LEMMA NotInSlots ==
  ASSUME AlarmsInv, NEW c \in Others, NEW i \in Slots
  PROVE  alarm_processes[i] # c
<1>1. c # NULL
  BY Loaded, PcbAssumption DEF Others
<1>2. Waiting \subseteq ProcessLabels
  BY DEF Waiting, ProcessLabels
<1> QED BY <1>1, <1>2 DEF AlarmsInv, SystemInv, Roles, SlotsHold

\* A step of c that leaves the slots alone.
LEMMA SlotsRest ==
  ASSUME AlarmsInv, SystemInv', UNCHANGED alarm_processes, NEW c \in allocated',
         \A q \in Pcb \ {c} : pc'[q] = pc[q] /\ left'[q] = left[q],
         \A q \in allocated : name'[q] = name[q],
         allocated \subseteq allocated',
         gone' = gone \/ gone' = gone \cup {c},
         (\E i \in Slots : alarm_processes[i] = c) => pc'[c] \in Waiting /\ gone' = gone,
         pc'[c] \in {"newline", "reset"} =>
             left'[c] \in Slots /\ alarm_processes[left'[c]] = c,
         Calm'
  PROVE  AlarmsInv'
<1>1. /\ allocated \subseteq Pcb /\ alarm_processes \in [Slots -> Pcb \cup {NULL}]
      /\ gone \subseteq allocated /\ SlotsHold /\ OneSlot /\ OwnSlot
  BY DEF AlarmsInv, SystemInv, SortInv, KInv, KernelTypeOK, TypeOK, AlarmsData
<1>2. SlotsHold'
  <2>1. SUFFICES ASSUME NEW i \in Slots, alarm_processes[i] # NULL
                 PROVE  /\ alarm_processes[i] \in allocated' \ gone'
                        /\ name'[alarm_processes[i]] = AlarmNames[i]
                        /\ pc'[alarm_processes[i]] \in Waiting
    BY DEF SlotsHold
  <2> DEFINE q == alarm_processes[i]
  <2>2. q \in Pcb /\ q \in allocated \ gone /\ name[q] = AlarmNames[i] /\ pc[q] \in Waiting
    BY <1>1, <2>1 DEF SlotsHold
  <2>3. CASE q = c
    BY <2>2, <2>3
  <2>4. CASE q # c
    BY <2>2, <2>4
  <2> QED BY <2>3, <2>4
<1>3. OneSlot'
  BY <1>1 DEF OneSlot
<1>4. OwnSlot'
  <2>1. SUFFICES ASSUME NEW p \in Pcb, pc'[p] \in {"newline", "reset"}
                 PROVE  left'[p] \in Slots /\ alarm_processes[left'[p]] = p
    BY DEF OwnSlot
  <2>2. CASE p = c
    BY <2>1, <2>2
  <2>3. CASE p # c
    BY <1>1, <2>1, <2>3 DEF OwnSlot
  <2> QED BY <2>2, <2>3
<1>5. gone' \subseteq allocated'
  BY <1>1
<1> QED BY <1>2, <1>3, <1>4, <1>5 DEF AlarmsInv

\* What the system calls of the programs do to the histories and the names.
LEMMA CallsAlone ==
  /\ yield => UNCHANGED <<gone, name, allocated, setting>>
  /\ write => UNCHANGED <<gone, name, allocated, setting>>
  /\ exit => gone' = gone \cup {current} /\ UNCHANGED <<name, allocated, setting>>
  /\ \A op, len : sys_call(io_call(op, len)) => UNCHANGED <<gone, name, allocated, setting>>
BY DEF yield, write, exit, sys_call, idle_call, exit_call, io_call


\* The steps of comhand that quiet lines lead to.
LEMMA CalmSteps ==
  ASSUME QuietLines, AlarmsInv, comhand_step
  PROVE  /\ gone' = gone
         /\ \A q \in allocated : name'[q] = name[q]
         /\ Calm'
<1> USE DEF At, Goto
<1>1. /\ setting = NULL /\ pc[comhand] \in CalmLabels /\ comhand \in Pcb
      /\ left[comhand] \in Nat /\ KInv /\ ProgramsInv(AlarmLabels)
      /\ pc \in [Pcb -> Labels \cup AlarmLabels] /\ line \in Inputs
  BY Loaded DEF AlarmsInv, Calm, SystemInv, SortInv, ProgramsInv, ProgramsTypeOK
<1>2. line \in {"alarm", "print", "load_r3", "y", "n", "none"}
  BY <1>1 DEF Inputs, QuietLines, Answers, NO_LINE
<1>3. CASE greet \/ print
  BY <1>1, <1>3, CallsAlone DEF greet, print, Message, Calm, CalmLabels
<1>4. CASE read \/ idle \/ end
  BY <1>1, <1>4, CallsAlone DEF read, idle, end, Free, Device, vars, Calm, CalmLabels
<1>5. CASE parse
  <2>1. ~Effect(pcb_line) \/ line \notin {"suspend", "resume", "delete", "priority"}
    BY <1>2
  <2>2. UNCHANGED kvars
    BY <1>2, <1>5, <2>1 DEF parse
  <2>3. \/ pc' = [pc EXCEPT ![comhand] = "end"]
        \/ pc' = [pc EXCEPT ![comhand] = "print"]
        \/ pc' = [pc EXCEPT ![comhand] = "load"]
    BY <1>2, <1>5 DEF parse, Report
  <2> QED BY <1>1, <2>2, <2>3 DEF kvars, vars, kernel, Calm, CalmLabels
<1>6. CASE load_r3
  <2> DEFINE p == Tests[Len(Tests) + 1 - left[comhand]]
  <2>1. left[comhand] > 0 /\ left[comhand] <= Len(Tests)
    BY <1>1, <1>6 DEF load_r3, ProgramsInv, Counts
  <2>2. p \in TestSet
    BY <1>1, <2>1, Loaded
  <2>3. TestName[p] \in Names
    BY <2>2, TestsAssumption
  <2>4. Effect(create_pcb(TestName[p], USER, USER_PRIORITY))
    BY <1>6 DEF load_r3
  <2>5. pc' = pc \/ pc' = [pc EXCEPT ![comhand] = "end"]
    BY <1>6 DEF load_r3
  <2> HIDE DEF p
  <2>6. UNCHANGED <<setting, gone>> /\ \A q \in allocated : name'[q] = name[q]
    BY <1>1, <2>3, <2>4, CreateIs
  <2> QED BY <1>1, <2>5, <2>6 DEF Calm, CalmLabels
<1>7. CASE \/ reinsert \/ ask \/ free \/ wait \/ confirm \/ shutdown \/ goodbye \/ comhand_exit
  BY <1>1, <1>7 DEF reinsert, ask, question, free, wait, answer, confirm, shutdown, goodbye,
                    comhand_exit, CalmLabels
<1> QED BY <1>3, <1>4, <1>5, <1>6, <1>7 DEF comhand_step

\* The slot that a process takes for its own is the only one whose process is
\* in no queue: that process has the CPU.
LEMMA FoundSlotIsOwn ==
  ASSUME AlarmsInv, NEW i \in Slots, alarm_processes[i] # NULL,
         pcb_find(queue, name, name[alarm_processes[i]]) = NULL
  PROVE  alarm_processes[i] = current
<1> DEFINE q == alarm_processes[i]
<1>1. q \in allocated \ gone /\ setting = NULL /\ q # NULL /\ NoProcessLost
      /\ queue \in [States -> Seq(Pcb)]
  BY DEF AlarmsInv, SystemInv, SortInv, KInv, KernelTypeOK, TypeOK, SlotsHold, Calm
<1>2. ~Queued(queue, q)
  <2>1. \A s \in States : \A x : In(queue[s], x) => name[x] # name[q]
    BY <1>1, PcbFindIs, PcbAssumption
  <2> QED BY <2>1, QueuedIs
<1> QED BY <1>1, <1>2 DEF NoProcessLost

LEMMA RunningSlotIs ==
  ASSUME AlarmsInv, check_running_process # NOT_FOUND
  PROVE  /\ check_running_process \in Slots
         /\ alarm_processes[check_running_process] = current
         /\ current # NULL
<1>1. RunningSlots # {} /\ check_running_process = Min(RunningSlots)
  BY DEF check_running_process
<1>2. RunningSlots \subseteq Slots /\ Slots \subseteq Nat
  BY AlarmsAssumption DEF RunningSlots, Slots
<1>3. check_running_process \in RunningSlots
  BY <1>1, <1>2, NatMin
<1> QED BY <1>2, <1>3, FoundSlotIsOwn DEF RunningSlots

\* A free name is the name of a free slot.
LEMMA FreeSlotIsEmpty ==
  ASSUME AlarmsInv, current = comhand, NEW i \in FreeSlots
  PROVE  alarm_processes[i] = NULL
<1>1. i \in Slots /\ pcb_find(queue, name, AlarmNames[i]) = NULL
  BY DEF FreeSlots
<1>2. ASSUME alarm_processes[i] # NULL PROVE FALSE
  <2>1. name[alarm_processes[i]] = AlarmNames[i]
    BY <1>1, <1>2 DEF AlarmsInv, SlotsHold
  <2>2. alarm_processes[i] = comhand
    BY <1>1, <1>2, <2>1, FoundSlotIsOwn
  <2> QED BY <1>1, <2>2, NotInSlots DEF Others
<1> QED BY <1>2

-----------------------------------------------------------------------------
LEMMA ProcessKeepsSlots ==
  ASSUME AlarmsInv, SystemInv', NEW p \in Pcb,
         not_found(p) \/ poll(p) \/ go_off(p) \/ newline(p) \/ alarm_exit(p)
  PROVE  AlarmsInv'
<1> USE DEF At, Goto
<1>1. /\ current = p /\ pc[p] \in ProcessLabels /\ UNCHANGED alarm_processes
      /\ pc \in [Pcb -> Labels \cup AlarmLabels] /\ left \in [Pcb -> Nat]
      /\ Roles /\ Calm /\ KnownPcbs /\ SlotsHold /\ OwnSlot
  BY DEF AlarmsInv, SystemInv, SortInv, ProgramsInv, ProgramsTypeOK, not_found, poll, go_off,
         newline, alarm_exit, ProcessLabels, alarms
<1>2. p \in allocated /\ p \notin Others /\ p # comhand
  BY <1>1, PcbAssumption DEF KnownPcbs, Roles, Others
<1>3. ASSUME UNCHANGED <<name, allocated, setting>>, gone' = gone \/ gone' = gone \cup {p},
             NEW l \in ProcessLabels, pc' = [pc EXCEPT ![p] = l],
             NEW n \in Nat, left' = [left EXCEPT ![p] = n],
             (\E i \in Slots : alarm_processes[i] = p) => l \in Waiting /\ gone' = gone,
             l \in {"newline", "reset"} => n \in Slots /\ alarm_processes[n] = p
      PROVE  AlarmsInv'
  <2>1. \A q \in Pcb \ {p} : pc'[q] = pc[q] /\ left'[q] = left[q]
    BY <1>1, <1>3
  <2>2. pc'[p] = l /\ left'[p] = n
    BY <1>1, <1>3
  <2>3. Calm'
    BY <1>1, <1>2, <1>3, Loaded DEF Calm
  <2> QED BY <1>1, <1>2, <1>3, <2>1, <2>2, <2>3, SlotsRest
<1>4. left = [left EXCEPT ![p] = left[p]] /\ left[p] \in Nat
  BY <1>1
<1>5. CASE not_found(p)
  <2>1. UNCHANGED <<gone, name, allocated, setting, left>> /\ pc' = [pc EXCEPT ![p] = "poll"]
    BY <1>5, CallsAlone DEF not_found
  <2>2. "poll" \in ProcessLabels /\ "poll" \in Waiting
    BY DEF ProcessLabels, Waiting
  <2> QED BY <1>3, <1>4, <2>1, <2>2
<1>6. CASE poll(p)
  <2>1. UNCHANGED <<gone, name, allocated, setting, left>> /\ pc' = [pc EXCEPT ![p] = "check"]
    BY <1>6, CallsAlone DEF poll
  <2>2. "check" \in ProcessLabels /\ "check" \in Waiting
    BY DEF ProcessLabels, Waiting
  <2> QED BY <1>3, <1>4, <2>1, <2>2
<1>7. CASE go_off(p)
  <2> DEFINE n == check_running_process
  <2>1. /\ UNCHANGED <<gone, name, allocated, setting>> /\ pc' = [pc EXCEPT ![p] = "newline"]
        /\ left' = [left EXCEPT ![p] = n] /\ n # NOT_FOUND
    BY <1>7, CallsAlone DEF go_off
  <2>2. n \in Slots /\ alarm_processes[n] = p
    BY <1>1, <2>1, RunningSlotIs
  <2>3. n \in Nat
    BY <2>2, AlarmsAssumption DEF Slots
  <2>4. "newline" \in ProcessLabels /\ "newline" \in Waiting
    BY DEF ProcessLabels, Waiting
  <2> HIDE DEF n
  <2> QED BY <1>3, <2>1, <2>2, <2>3, <2>4
<1>8. CASE newline(p)
  <2>1. UNCHANGED <<gone, name, allocated, setting, left>> /\ pc' = [pc EXCEPT ![p] = "reset"]
        /\ pc[p] = "newline"
    BY <1>8, CallsAlone DEF newline
  <2>2. left[p] \in Slots /\ alarm_processes[left[p]] = p
    BY <1>1, <2>1 DEF OwnSlot
  <2>3. "reset" \in ProcessLabels /\ "reset" \in Waiting
    BY DEF ProcessLabels, Waiting
  <2> QED BY <1>3, <1>4, <2>1, <2>2, <2>3
<1>9. CASE alarm_exit(p)
  <2>1. /\ UNCHANGED <<name, allocated, setting, left>> /\ gone' = gone \cup {p}
        /\ pc' = [pc EXCEPT ![p] = "check"] /\ pc[p] = "alarm exit"
    BY <1>1, <1>9, CallsAlone DEF alarm_exit
  <2>2. ~\E i \in Slots : alarm_processes[i] = p
    BY <1>1, <2>1, PcbAssumption DEF SlotsHold, Waiting
  <2>3. "check" \in ProcessLabels /\ "check" \notin {"newline", "reset"}
    BY DEF ProcessLabels
  <2> QED BY <1>3, <1>4, <2>1, <2>2, <2>3
<1> QED BY <1>5, <1>6, <1>7, <1>8, <1>9


\* The finished alarm empties the slot it remembered, which is its own.
LEMMA ResetKeepsSlots ==
  ASSUME AlarmsInv, SystemInv', NEW p \in Pcb, clear(p)
  PROVE  AlarmsInv' /\ current = p /\ left[p] \in Slots /\ alarm_processes[left[p]] = p
<1>1. /\ current = p /\ pc[p] = "reset" /\ pc \in [Pcb -> Labels \cup AlarmLabels]
      /\ Roles /\ Calm /\ SlotsHold /\ OneSlot /\ OwnSlot /\ gone \subseteq allocated
      /\ alarm_processes \in [Slots -> Pcb \cup {NULL}]
  BY DEF AlarmsInv, SystemInv, ProgramsInv, ProgramsTypeOK, AlarmsData, clear, At
<1>2. p \notin Others /\ p # comhand /\ comhand \in Pcb /\ p # NULL
  BY <1>1, Loaded, PcbAssumption DEF Roles, Others, ProcessLabels
<1>3. /\ UNCHANGED <<gone, left, name, allocated, setting>>
      /\ alarm_processes' = [alarm_processes EXCEPT ![left[p]] = NULL]
      /\ \E l \in {"panic", "alarm exit"} : pc' = [pc EXCEPT ![p] = l]
  BY DEF clear, Goto, vars
<1>4. left[p] \in Slots /\ alarm_processes[left[p]] = p
  BY <1>1 DEF OwnSlot
<1>5. /\ alarm_processes'[left[p]] = NULL
      /\ \A i \in Slots \ {left[p]} : alarm_processes'[i] = alarm_processes[i]
                                      /\ alarm_processes[i] # p
  BY <1>1, <1>2, <1>3, <1>4 DEF OneSlot
<1>6. pc'[p] \in {"panic", "alarm exit"} /\ \A q \in Pcb \ {p} : pc'[q] = pc[q]
  BY <1>1, <1>3
<1>7. SlotsHold'
  <2>1. SUFFICES ASSUME NEW i \in Slots, alarm_processes'[i] # NULL
                 PROVE  /\ alarm_processes'[i] \in allocated \ gone
                        /\ name[alarm_processes'[i]] = AlarmNames[i]
                        /\ pc'[alarm_processes'[i]] \in Waiting
    BY <1>3 DEF SlotsHold
  <2>2. alarm_processes'[i] = alarm_processes[i] /\ alarm_processes[i] \in Pcb \ {p}
    BY <1>1, <1>5, <2>1
  <2> QED BY <1>1, <1>6, <2>1, <2>2 DEF SlotsHold
<1>8. OneSlot'
  BY <1>1, <1>5 DEF OneSlot
<1>9. OwnSlot'
  <2>1. SUFFICES ASSUME NEW q \in Pcb, pc'[q] \in {"newline", "reset"}
                 PROVE  left[q] \in Slots /\ alarm_processes'[left[q]] = q
    BY <1>3 DEF OwnSlot
  <2>2. q # p /\ left[q] \in Slots /\ alarm_processes[left[q]] = q
    BY <1>1, <1>6, <2>1 DEF OwnSlot
  <2> QED BY <1>4, <1>5, <2>2
<1>10. Calm'
  BY <1>1, <1>2, <1>3, <1>6 DEF Calm
<1> QED BY <1>1, <1>3, <1>4, <1>7, <1>8, <1>9, <1>10 DEF AlarmsInv

\* A new alarm gets an empty slot and a process that was never in one.
LEMMA AlarmKeepsSlots ==
  ASSUME WholeSystem, AlarmsInv, SystemInv', alarm
  PROVE  /\ AlarmsInv'
         /\ \A i \in Slots : alarm_processes[i] # NULL => alarm_processes'[i] = alarm_processes[i]
<1> USE DEF At, Goto
<1>1. /\ current = comhand /\ setting = NULL /\ comhand \in allocated /\ comhand \in Pcb
      /\ pc \in [Pcb -> Labels \cup AlarmLabels] /\ left \in [Pcb -> Nat] /\ KInv
      /\ allocated \subseteq Pcb
      /\ Calm /\ SlotsHold /\ OneSlot /\ OwnSlot /\ gone \subseteq allocated
      /\ alarm_processes \in [Slots -> Pcb \cup {NULL}]
  BY Loaded DEF AlarmsInv, SystemInv, SortInv, KInv, KernelTypeOK, TypeOK, ProgramsInv,
                ProgramsTypeOK, AlarmsData, Calm, alarm
<1>2. CASE Report(1) /\ UNCHANGED <<kvars, alarms>>
  <2>1. /\ pc' = [pc EXCEPT ![comhand] = "print"] /\ left' = [left EXCEPT ![comhand] = 1]
        /\ UNCHANGED <<alarm_processes, gone, name, allocated, setting>>
    BY <1>2 DEF Report, kvars, vars, kernel, alarms
  <2>2. /\ pc'[comhand] = "print" /\ pc'[comhand] \notin {"newline", "reset"}
        /\ \A q \in Pcb \ {comhand} : pc'[q] = pc[q] /\ left'[q] = left[q]
    BY <1>1, <2>1
  <2>3. Calm'
    BY <1>1, <2>1, <2>2 DEF Calm, CalmLabels
  <2>4. ~\E i \in Slots : alarm_processes[i] = comhand
    BY NotInSlots DEF Others
  <2>5. AlarmsInv'
    BY <1>1, <2>1, <2>2, <2>3, <2>4, SlotsRest
  <2> QED BY <2>1, <2>5
<1>3. CASE ~(Report(1) /\ UNCHANGED <<kvars, alarms>>)
  <2> DEFINE i == Min(FreeSlots)
             n == AlarmNames[i]
  <2>1. /\ FreeSlots # {}
        /\ Effect(create_pcb(n, USER, USER_PRIORITY))
        /\ \E p \in (allocated' \ allocated) \ TestSet, t \in Times :
             /\ alarm_processes' = [alarm_processes EXCEPT ![i] = p]
             /\ alarm_times' = [alarm_times EXCEPT ![i] = t]
             /\ pc' = [pc EXCEPT ![comhand] = "end", ![p] = "check"]
        /\ UNCHANGED <<left, time>>
    BY <1>3 DEF alarm
  <2>2. i \in FreeSlots
    <3>1. FreeSlots \subseteq Slots /\ Slots \subseteq Nat
      BY AlarmsAssumption DEF FreeSlots, Slots
    <3> QED BY <2>1, <3>1, NatMin
  <2> HIDE DEF i
  <2>3. i \in Slots /\ alarm_processes[i] = NULL
    BY <1>1, <2>2, FreeSlotIsEmpty DEF FreeSlots
  <2>4. n \in Names
    BY <2>3, AlarmsAssumption DEF Slots
  <2>5. n = AlarmNames[i]
    OBVIOUS
  <2> HIDE DEF n
  <2>6. PICK p \in (allocated' \ allocated) \ TestSet :
             /\ alarm_processes' = [alarm_processes EXCEPT ![i] = p]
             /\ pc' = [pc EXCEPT ![comhand] = "end", ![p] = "check"]
    BY <2>1
  <2>7. /\ UNCHANGED <<setting, current, gone>>
        /\ \A q \in allocated : name'[q] = name[q]
        /\ \/ allocated' = allocated
           \/ \E q \in Pcb \ allocated : allocated' = allocated \cup {q} /\ name'[q] = n
    BY <1>1, <2>1, <2>4, CreateIs
  <2>8. p \in Pcb \ allocated /\ allocated' = allocated \cup {p} /\ name'[p] = n
    BY <2>6, <2>7
  <2>9. p # comhand /\ p # NULL /\ p \notin gone
    BY <1>1, <2>8, PcbAssumption
  <2>10. /\ pc'[comhand] = "end" /\ pc'[p] = "check" /\ left' = left
         /\ \A q \in Pcb \ {comhand, p} : pc'[q] = pc[q]
    BY <1>1, <2>1, <2>6, <2>8, <2>9
  <2>11. alarm_processes'[i] = p /\ \A j \in Slots \ {i} : alarm_processes'[j] = alarm_processes[j]
    BY <1>1, <2>3, <2>6
  <2>12. \A j \in Slots : alarm_processes[j] # NULL =>
            /\ alarm_processes[j] \in allocated \ {comhand} /\ j # i
            /\ alarm_processes'[j] = alarm_processes[j]
    BY <1>1, <2>3, <2>11, NotInSlots DEF SlotsHold, Others
  <2>13. SlotsHold'
    <3>1. SUFFICES ASSUME NEW j \in Slots, alarm_processes'[j] # NULL
                   PROVE  /\ alarm_processes'[j] \in allocated' \ gone'
                          /\ name'[alarm_processes'[j]] = AlarmNames[j]
                          /\ pc'[alarm_processes'[j]] \in Waiting
      BY DEF SlotsHold
    <3>2. CASE j = i
      BY <2>5, <2>7, <2>8, <2>9, <2>10, <2>11, <3>2 DEF Waiting
    <3>3. CASE j # i
      <4> DEFINE q == alarm_processes[j]
      <4>1. alarm_processes'[j] = q /\ q # NULL
        BY <2>11, <3>1, <3>3
      <4>2. q \in allocated \ gone /\ name[q] = AlarmNames[j] /\ pc[q] \in Waiting
        BY <1>1, <4>1 DEF SlotsHold
      <4>3. q \in Pcb \ {comhand, p}
        BY <1>1, <2>8, <2>12, <4>1
      <4> QED BY <2>7, <2>8, <2>10, <4>1, <4>2, <4>3
    <3> QED BY <3>2, <3>3
  <2>14. OneSlot'
    BY <1>1, <2>8, <2>11, <2>12 DEF OneSlot
  <2>15. OwnSlot'
    <3>1. SUFFICES ASSUME NEW q \in Pcb, pc'[q] \in {"newline", "reset"}
                   PROVE  left[q] \in Slots /\ alarm_processes'[left[q]] = q
      BY <2>10 DEF OwnSlot
    <3>2. left[q] \in Slots /\ alarm_processes[left[q]] = q
      BY <1>1, <2>10, <3>1 DEF OwnSlot
    <3> QED BY <2>12, <3>2, PcbAssumption
  <2>16. Calm'
    BY <1>1, <2>7, <2>10 DEF Calm, CalmLabels
  <2> QED BY <1>1, <2>7, <2>8, <2>12, <2>13, <2>14, <2>15, <2>16 DEF AlarmsInv
<1> QED BY <1>2, <1>3


\* A step of one of the programs of Mpx, c being who it moves.
LEMMA OthersKeepSlots ==
  ASSUME AlarmsInv, SystemInv', UNCHANGED alarms, NEW c \in Others,
         c \in allocated, allocated \subseteq allocated',
         \A q \in Pcb \ {c} : pc'[q] = pc[q] /\ left'[q] = left[q],
         \A q \in allocated : name'[q] = name[q],
         gone' = gone \/ gone' = gone \cup {c},
         pc'[c] \notin {"newline", "reset"},
         Calm'
  PROVE  AlarmsInv'
<1>1. UNCHANGED alarm_processes
  BY DEF alarms
<1>2. ~\E i \in Slots : alarm_processes[i] = c
  BY NotInSlots
<1> QED BY <1>1, <1>2, SlotsRest

LEMMA MpxKeepsSlots ==
  ASSUME WholeSystem, QuietLines, AlarmsInv, SystemInv',
         process_step \/ device_step \/ operator \/ message, UNCHANGED alarms
  PROVE  AlarmsInv'
<1>1. /\ Calm /\ Roles /\ KnownPcbs /\ comhand \in allocated /\ comhand \in Others
      /\ ProgramsInv(AlarmLabels) /\ SystemInv
      /\ Labels \cap {"newline", "reset"} = {}
  BY DEF AlarmsInv, SystemInv, SortInv, Others, Labels
<1>2. allocated \subseteq allocated'
  BY <1>1, MpxSteps, AllocatedGrows DEF SystemInv
<1>3. CASE comhand_step
  <2>1. pc'[comhand] \notin {"newline", "reset"}
    BY <1>1, <1>3, ComhandAlone
  <2>2. \A q \in Pcb \ {comhand} : pc'[q] = pc[q] /\ left'[q] = left[q]
    BY <1>1, <1>3, ComhandAlone
  <2>3. gone' = gone /\ Calm' /\ \A q \in allocated : name'[q] = name[q]
    BY <1>3, CalmSteps
  <2> QED BY <1>1, <1>2, <2>1, <2>2, <2>3, OthersKeepSlots
<1>4. CASE \E p \in TestSet : r3_proc(p)
  <2>1. PICK p \in TestSet : r3_proc(p)
    BY <1>4
  <2>2. /\ current = p /\ pc'[p] \notin {"newline", "reset"}
        /\ \A q \in Pcb \ {p} : pc'[q] = pc[q] /\ left'[q] = left[q]
    BY <1>1, <2>1, TestAlone
  <2>3. p \in allocated /\ p \in Others /\ p # comhand /\ comhand \in Pcb
    BY <1>1, <2>2, Loaded, PcbAssumption DEF KnownPcbs, Others
  <2>4. UNCHANGED <<name, allocated, setting>> /\ (gone' = gone \/ gone' = gone \cup {p})
    BY <2>1, <2>2, CallsAlone DEF r3_proc
  <2>5. Calm'
    BY <1>1, <2>2, <2>3, <2>4 DEF Calm
  <2> QED BY <1>1, <1>2, <2>2, <2>3, <2>4, <2>5, OthersKeepSlots
<1>5. CASE kmain \/ sys_idle_process \/ device_step \/ operator \/ message
  <2>1. UNCHANGED <<pc, left>>
    BY <1>5 DEF kmain, sys_idle_process, device_step, operator, message, reply_key, reply_enter, programs
  <2>2. UNCHANGED <<gone, name, setting>>
    <3>1. CASE kmain \/ sys_idle_process
      BY <3>1, CallsAlone DEF kmain, sys_idle_process
    <3>2. CASE device_step \/ operator \/ message
      BY <3>2 DEF device_step, operator, message, reply_key, reply_enter, serial_output_interrupt,
                  input_key, input_enter, Device, vars
    <3> QED BY <1>5, <3>1, <3>2
  <2>3. Calm' /\ pc'[comhand] \notin {"newline", "reset"}
    BY <1>1, <2>1, <2>2 DEF Calm, CalmLabels
  <2> QED BY <1>1, <1>2, <2>1, <2>2, <2>3, OthersKeepSlots
<1> QED BY <1>3, <1>4, <1>5 DEF process_step

LEMMA CommandKeepsSlots ==
  ASSUME WholeSystem, AlarmsInv, SystemInv', parse_alarm \/ ask_message \/ read_message
  PROVE  AlarmsInv' /\ UNCHANGED alarms
<1> USE DEF At, Goto
<1>1. /\ Calm /\ comhand \in allocated /\ comhand \in Others /\ comhand \in Pcb /\ SystemInv
      /\ pc \in [Pcb -> Labels \cup AlarmLabels] /\ left \in [Pcb -> Nat]
  BY Loaded DEF AlarmsInv, SystemInv, Others, ProgramsInv, ProgramsTypeOK
<1>2. allocated \subseteq allocated' /\ UNCHANGED alarms
  BY <1>1, CommandSteps, AllocatedGrows DEF SystemInv
<1>3. UNCHANGED <<gone, name, setting>>
  <2>1. CASE parse_alarm
    BY <2>1 DEF parse_alarm, kvars, vars, kernel
  <2>2. CASE ask_message \/ read_message
    BY <2>2, CallsAlone DEF ask_message, question, read_message, answer
  <2> QED BY <2>1, <2>2
<1>4. /\ pc'[comhand] \in {"print", "alarm", "answer", "create"}
      /\ \A q \in Pcb \ {comhand} : pc'[q] = pc[q] /\ left'[q] = left[q]
  BY <1>1 DEF parse_alarm, Report, ask_message, question, read_message, answer
<1>5. Calm' /\ pc'[comhand] \notin {"newline", "reset"}
  BY <1>1, <1>3, <1>4 DEF Calm, CalmLabels
<1> QED BY <1>1, <1>2, <1>3, <1>4, <1>5, OthersKeepSlots

\* Every step keeps AlarmsInv, and takes a process out of its slot only if that
\* process runs.
LEMMA AlarmsStep ==
  ASSUME WholeSystem, QuietLines, AlarmsInv, [AlarmsNext]_avars
  PROVE  /\ AlarmsInv'
         /\ \A i \in Slots :
              alarm_processes[i] # NULL /\ alarm_processes'[i] # alarm_processes[i] =>
                  current = alarm_processes[i]
<1>1. SystemInv'
  BY SystemStep DEF AlarmsInv
<1>2. CASE \E p \in Pcb : clear(p)
  <2>1. PICK p \in Pcb : clear(p)
    BY <1>2
  <2>2. AlarmsInv' /\ current = p /\ left[p] \in Slots /\ alarm_processes[left[p]] = p
    BY <1>1, <2>1, ResetKeepsSlots
  <2>3. alarm_processes' = [alarm_processes EXCEPT ![left[p]] = NULL]
        /\ alarm_processes \in [Slots -> Pcb \cup {NULL}]
    BY <2>1 DEF clear, AlarmsInv, SystemInv, AlarmsData
  <2> QED BY <2>2, <2>3
<1>3. CASE \E p \in Pcb : not_found(p) \/ poll(p) \/ go_off(p) \/ newline(p) \/ alarm_exit(p)
  <2>1. AlarmsInv'
    BY <1>1, <1>3, ProcessKeepsSlots
  <2> QED BY <1>3, <2>1 DEF not_found, poll, go_off, newline, alarm_exit, alarms
<1>4. CASE parse_alarm \/ ask_message \/ read_message
  BY <1>1, <1>4, CommandKeepsSlots DEF alarms
<1>5. CASE alarm
  BY <1>1, <1>5, AlarmKeepsSlots
<1>6. CASE (process_step \/ device_step \/ operator \/ message) /\ UNCHANGED alarms
  BY <1>1, <1>6, MpxKeepsSlots DEF alarms
<1>7. CASE clock_tick \/ UNCHANGED avars
  <2>1. UNCHANGED <<mvars, alarm_processes>>
    BY <1>7 DEF clock_tick, avars, alarms
  <2>2. UNCHANGED <<gone, name, allocated, setting, pc, left, alarm_processes>>
    BY <2>1 DEF mvars, kvars, vars, kernel, programs
  <2>3. AlarmsInv'
    BY <1>1, <2>2 DEF AlarmsInv, Calm, SlotsHold, OneSlot, OwnSlot
  <2> QED BY <2>2, <2>3
<1> QED BY <1>2, <1>3, <1>4, <1>5, <1>6, <1>7
        DEF AlarmsNext, program_step, alarm_step, print_message

\* The inductive invariant of the slots: the process in a slot is known by the
\* slot's name, has not gone, and has not yet given the slot back.
THEOREM AlarmsInvariance ==
  ASSUME WholeSystem, QuietLines PROVE AlarmsSpec => []AlarmsInv
<1>1. AlarmsInit => AlarmsInv
  <2>1. ASSUME AlarmsInit PROVE AlarmsInv
    <3>1. SystemInv
      BY <2>1, SystemInit
    <3>2. /\ \A p \in Pcb : pc[p] \in {"greet", "idle", "write"}
          /\ pc[comhand] = "greet" /\ setting = NULL /\ gone = {}
          /\ \A i \in Slots : alarm_processes[i] = NULL
      BY <2>1, Loaded DEF AlarmsInit, MpxInit, KernelInit
    <3> QED BY <3>1, <3>2 DEF AlarmsInv, Calm, CalmLabels, SlotsHold, OneSlot, OwnSlot
  <2> QED BY <2>1
<1>2. AlarmsInv /\ [AlarmsNext]_avars => AlarmsInv'
  BY AlarmsStep
<1> QED BY <1>1, <1>2, PTL DEF AlarmsSpec

\* For any number of slots, alarms and test processes, the slot that an alarm
\* process finds by looking whom pcb_find does not find is its own.
THEOREM AlarmsFindThemselves ==
  ASSUME WholeSystem, QuietLines PROVE AlarmsSpec => []AlarmFindsItself
<1>1. AlarmsInv => AlarmFindsItself
  <2>1. SUFFICES ASSUME AlarmsInv, NEW p \in Pcb, At(p, "check"),
                        check_running_process # NOT_FOUND
                 PROVE  alarm_processes[check_running_process] = p
    BY DEF AlarmFindsItself
  <2> QED BY <2>1, RunningSlotIs DEF At
<1> QED BY <1>1, AlarmsInvariance, PTL

\* No new alarm is given a slot in use, although the command looks only at the
\* names in the queues, and no alarm gives back the slot of another.
THEOREM SlotsAreKept ==
  ASSUME WholeSystem, QuietLines PROVE AlarmsSpec => SlotsKept
<1>1. AlarmsInv /\ [AlarmsNext]_avars =>
        [\A i \in Slots :
            alarm_processes[i] # NULL /\ alarm_processes'[i] # alarm_processes[i] =>
                current = alarm_processes[i]]_avars
  BY AlarmsStep
<1> QED BY <1>1, AlarmsInvariance, PTL DEF AlarmsSpec, SlotsKept

=============================================================================
