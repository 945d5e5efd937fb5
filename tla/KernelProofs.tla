---------------------------- MODULE KernelProofs ----------------------------
(***************************************************************************)
(* System calls, interrupts and commands lose no process, whatever the     *)
(* programs do and however often a process is queued.  The queues need not *)
(* be orderly for this: all that counts is that a process leaves its queue *)
(* only to get the CPU, into the hands of set_pcb_priority, or for good.   *)
(* Behind it, what needs some commands to be left out: the order of the    *)
(* ready queues, who gets the CPU, and whom the device wakes.              *)
(***************************************************************************)
EXTENDS Kernel, ProcessQueueProofs

Queues == [States -> Seq(Pcb)]

\* A device that can report an event knows a process to wake.
WaiterKnown == dcb.iocbs => dcb.pcb_ptr # NULL

KInv == KernelTypeOK /\ NoProcessLost /\ WaiterKnown

-----------------------------------------------------------------------------
LEMMA InsertKeeps ==
  ASSUME NEW qs \in Queues, NEW st \in [Pcb -> States],
         NEW pri \in [Pcb -> Priorities], NEW p \in Pcb
  PROVE  /\ pcb_insert(qs, st, pri, p) \in Queues
         /\ \A x : Queued(pcb_insert(qs, st, pri, p), x) <=> Queued(qs, x) \/ x = p
<1> DEFINE r == pcb_insert(qs, st, pri, p)
<1>1. pri \in [Pcb -> Nat]
  BY PriorityAssumption DEF Priorities
<1>2. qs \in [States -> Seq(Pcb)] /\ st \in [Pcb -> States]
  BY DEF Queues
<1>3. /\ r \in [States -> Seq(Pcb)]
      /\ \A s \in States : s # st[p] => r[s] = qs[s]
      /\ \A x : In(r[st[p]], x) <=> In(qs[st[p]], x) \/ x = p
      /\ Distinct(qs[st[p]]) /\ ~In(qs[st[p]], p) => Distinct(r[st[p]])
      /\ st[p] \in ReadyStates /\ Sorted(qs[st[p]], pri) => Sorted(r[st[p]], pri)
  BY <1>1, <1>2, PcbInsertIs
<1> HIDE DEF r
<1>4. ASSUME NEW x
      PROVE  (\E s \in States : In(r[s], x)) <=> (\E s \in States : In(qs[s], x)) \/ x = p
  <2>1. st[p] \in States
    OBVIOUS
  <2>2. ASSUME NEW s \in States, In(r[s], x), x # p
        PROVE  In(qs[s], x)
    BY <1>3, <2>1, <2>2
  <2>3. ASSUME NEW s \in States, In(qs[s], x)
        PROVE  In(r[s], x)
    BY <1>3, <2>1, <2>3
  <2>4. x = p => In(r[st[p]], x)
    BY <1>3
  <2> QED BY <2>1, <2>2, <2>3, <2>4
<1>5. \A x : Queued(r, x) <=> Queued(qs, x) \/ x = p
  BY <1>4, QueuedIs
<1> QED BY <1>3, <1>5 DEF r, Queues

LEMMA RemoveKeeps ==
  ASSUME NEW qs \in Queues, NEW st \in [Pcb -> States], NEW p \in Pcb
  PROVE  /\ pcb_remove(qs, st, p) \in Queues
         /\ \A x : Queued(qs, x) /\ x # p => Queued(pcb_remove(qs, st, p), x)
<1> DEFINE r == pcb_remove(qs, st, p)
<1>1. /\ r \in Queues
      /\ \A s \in States : \A x : In(qs[s], x) /\ x # p => In(r[s], x)
  BY PcbRemoveIs DEF Queues
<1> HIDE DEF r
<1>2. \A x : Queued(qs, x) /\ x # p => Queued(r, x)
  BY <1>1, QueuedIs
<1> QED BY <1>1, <1>2 DEF r

\* Dispatching and yielding take the front of a ready queue that has one.
LEMMA FrontIs ==
  ASSUME NEW qs \in Queues, qs[READY_NOT_SUSPENDED] # <<>>
  PROVE  Head(qs[READY_NOT_SUSPENDED]) \in Pcb
<1>1. qs[READY_NOT_SUSPENDED] \in Seq(Pcb)
  BY DEF Queues, States, ReadyStates
<1> QED BY <1>1

\* The event is handled for a process, which stays in a queue.
LEMMA EventKeeps ==
  ASSUME KInv
  PROVE  /\ EventState \in [Pcb -> States]
         /\ EventQueue \in Queues
         /\ \A x : Queued(queue, x) => Queued(EventQueue, x)
         /\ EventDcb \in DCB
         /\ EventDcb.iocbs = dcb.iocbs /\ EventDcb.pcb_ptr = dcb.pcb_ptr
<1>1. /\ queue \in Queues /\ state \in [Pcb -> States]
      /\ priority \in [Pcb -> Priorities] /\ dcb \in DCB
  BY DEF KInv, KernelTypeOK, TypeOK, Queues
<1>2. /\ EventDcb \in DCB
      /\ EventDcb.iocbs = dcb.iocbs /\ EventDcb.pcb_ptr = dcb.pcb_ptr
  BY <1>1 DEF EventDcb, DCB
<1>3. CASE ~EventDue
  BY <1>1, <1>2, <1>3 DEF EventState, EventQueue
<1>4. CASE EventDue
  <2> DEFINE p == dcb.pcb_ptr
  <2>1. p \in Pcb
    BY <1>1, <1>4 DEF KInv, WaiterKnown, EventDue, DCB
  <2>2. EventState = [state EXCEPT ![p] = READY_NOT_SUSPENDED]
    BY <1>4 DEF EventState
  <2>3. EventState \in [Pcb -> States]
    BY <1>1, <2>2 DEF States, ReadyStates
  <2>4. EventQueue = pcb_insert(pcb_remove(queue, state, p), EventState, priority, p)
    BY <1>4 DEF EventQueue
  <2> HIDE DEF p
  <2>5. /\ pcb_remove(queue, state, p) \in Queues
        /\ \A x : Queued(queue, x) /\ x # p => Queued(pcb_remove(queue, state, p), x)
    BY <1>1, <2>1, RemoveKeeps
  <2>6. /\ EventQueue \in Queues
        /\ \A x : Queued(EventQueue, x)
                    <=> Queued(pcb_remove(queue, state, p), x) \/ x = p
    BY <1>1, <2>1, <2>3, <2>4, <2>5, InsertKeeps
  <2> QED BY <1>2, <2>3, <2>5, <2>6
<1> QED BY <1>3, <1>4

-----------------------------------------------------------------------------
\* A step that leaves the table's fields alone keeps KInv if the process
\* that gives up the CPU is queued again or gone for good.
LEMMA CallKeeps ==
  ASSUME KInv,
         UNCHANGED <<priority, class, name, allocated, setting, reply>>,
         state' \in [Pcb -> States], queue' \in Queues,
         current' \in Pcb \cup {NULL}, dcb' \in DCB, WaiterKnown',
         halted' \in BOOLEAN, gone' \in SUBSET Pcb, requester' \in Pcb \cup {NULL},
         gone \subseteq gone',
         \A x \in Pcb : Queued(queue, x) \/ x = current
                    => Queued(queue', x) \/ x = current' \/ x \in gone'
  PROVE  KInv'
<1>1. KernelTypeOK'
  BY DEF KInv, KernelTypeOK, TypeOK, Queues
<1>2. NoProcessLost'
  BY DEF KInv, KernelTypeOK, TypeOK, NoProcessLost
<1> QED BY <1>1, <1>2 DEF KInv

LEMMA IdleKeeps ==
  ASSUME KInv, idle_call, UNCHANGED <<priority, class, name, allocated, setting, reply>>
  PROVE  KInv'
<1> DEFINE qs == EventQueue
           next == Head(qs[READY_NOT_SUSPENDED])
           rest == pcb_remove(qs, EventState, next)
<1>1. /\ EventState \in [Pcb -> States] /\ qs \in Queues
      /\ \A x : Queued(queue, x) => Queued(qs, x)
      /\ EventDcb \in DCB
      /\ EventDcb.iocbs = dcb.iocbs /\ EventDcb.pcb_ptr = dcb.pcb_ptr
  BY EventKeeps
<1>2. /\ current \in Pcb \cup {NULL} /\ priority \in [Pcb -> Priorities]
      /\ halted \in BOOLEAN /\ gone \in SUBSET Pcb /\ requester \in Pcb \cup {NULL}
  BY DEF KInv, KernelTypeOK, TypeOK
<1>3. /\ state' = EventState /\ dcb' = EventDcb /\ UNCHANGED <<halted, gone, requester>>
      /\ \/ qs[READY_NOT_SUSPENDED] = <<>> /\ queue' = qs /\ UNCHANGED current
         \/ /\ qs[READY_NOT_SUSPENDED] # <<>>
            /\ current' = next
            /\ queue' = IF current = NULL THEN rest
                        ELSE pcb_insert(rest, EventState, priority, current)
  BY DEF idle_call
<1>4. WaiterKnown'
  BY <1>1, <1>3 DEF KInv, WaiterKnown
<1>5. CASE qs[READY_NOT_SUSPENDED] = <<>> /\ queue' = qs /\ UNCHANGED current
  <2> HIDE DEF qs
  <2> QED BY <1>1, <1>2, <1>3, <1>4, <1>5, CallKeeps
<1>6. CASE /\ qs[READY_NOT_SUSPENDED] # <<>>
           /\ current' = next
           /\ queue' = IF current = NULL THEN rest
                       ELSE pcb_insert(rest, EventState, priority, current)
  <2>1. next \in Pcb
    BY <1>1, <1>6, FrontIs
  <2> HIDE DEF qs, next
  <2>2. rest \in Queues /\ \A x : Queued(qs, x) /\ x # next => Queued(rest, x)
    BY <1>1, <2>1, RemoveKeeps
  <2> HIDE DEF rest
  <2>3. queue' \in Queues /\ \A x \in Pcb : Queued(rest, x) \/ x = current => Queued(queue', x)
    <3>1. CASE current = NULL
      BY <1>6, <2>2, <3>1, PcbAssumption
    <3>2. CASE current \in Pcb
      BY <1>1, <1>2, <1>6, <2>2, <3>2, InsertKeeps, PcbAssumption
    <3> QED BY <1>2, <3>1, <3>2
  <2>4. \A x \in Pcb : Queued(queue, x) \/ x = current => Queued(queue', x) \/ x = current'
    BY <1>1, <1>6, <2>2, <2>3
  <2> QED BY <1>1, <1>2, <1>3, <1>4, <1>6, <2>1, <2>3, <2>4, CallKeeps
<1> QED BY <1>3, <1>5, <1>6

\* Taking the front of the ready queue loses nobody but the one that runs.
LEMMA DispatchKeeps ==
  ASSUME NEW qs \in Queues, NEW st \in [Pcb -> States],
         qs[READY_NOT_SUSPENDED] # <<>>, Dispatch(qs, st)
  PROVE  /\ current' \in Pcb /\ queue' \in Queues
         /\ \A x : Queued(qs, x) => Queued(queue', x) \/ x = current'
<1> DEFINE next == Head(qs[READY_NOT_SUSPENDED])
<1>1. next \in Pcb
  BY FrontIs
<1>2. current' = next /\ queue' = pcb_remove(qs, st, next)
  BY DEF Dispatch
<1> HIDE DEF next
<1> QED BY <1>1, <1>2, RemoveKeeps

LEMMA ExitKeeps ==
  ASSUME KInv, exit_call, UNCHANGED <<priority, class, name, allocated, setting, reply>>
  PROVE  KInv'
<1>1. /\ queue \in Queues /\ state \in [Pcb -> States] /\ dcb \in DCB
      /\ current \in Pcb \cup {NULL} /\ halted \in BOOLEAN
      /\ gone \in SUBSET Pcb /\ requester \in Pcb \cup {NULL}
  BY DEF KInv, KernelTypeOK, TypeOK, Queues
<1>2. /\ current # NULL /\ gone' = gone \cup {current}
      /\ UNCHANGED <<state, dcb, requester>>
  BY DEF exit_call
<1>3. WaiterKnown'
  BY <1>2 DEF KInv, WaiterKnown
<1>4. CASE ready = <<>> /\ halted' = TRUE /\ UNCHANGED <<queue, current>>
  BY <1>1, <1>2, <1>3, <1>4, CallKeeps
<1>5. CASE ready # <<>> /\ Dispatch(queue, state) /\ UNCHANGED halted
  <2>1. /\ current' \in Pcb /\ queue' \in Queues
        /\ \A x : Queued(queue, x) => Queued(queue', x) \/ x = current'
    BY <1>1, <1>5, DispatchKeeps DEF ready
  <2> QED BY <1>1, <1>2, <1>3, <1>5, <2>1, CallKeeps
<1> QED BY <1>4, <1>5 DEF exit_call

\* The queues get the caller before the request is looked at.
LEMMA IoKeeps ==
  ASSUME KInv, NEW op \in {"READ", "WRITE"}, NEW len \in 0 .. MaxLength, io_call(op, len),
         UNCHANGED <<priority, class, name, allocated, setting, reply>>
  PROVE  KInv'
<1> DEFINE qs == pcb_insert(EventQueue, state', priority, current)
           d == [EventDcb EXCEPT !.rw_buf = current, !.rw_buf_length = len,
                                 !.pcb_ptr = current, !.iocbs = TRUE]
           free == [d EXCEPT !.allocation_status = 1]
<1>1. /\ current \in Pcb /\ priority \in [Pcb -> Priorities]
      /\ halted \in BOOLEAN /\ gone \in SUBSET Pcb /\ requester \in Pcb \cup {NULL}
      /\ UNCHANGED <<halted, gone>>
  BY DEF KInv, KernelTypeOK, TypeOK, io_call
<1>2. /\ EventState \in [Pcb -> States] /\ EventQueue \in Queues
      /\ \A x : Queued(queue, x) => Queued(EventQueue, x)
      /\ EventDcb \in DCB
      /\ EventDcb.iocbs = dcb.iocbs /\ EventDcb.pcb_ptr = dcb.pcb_ptr
  BY EventKeeps
<1>3. state' \in [Pcb -> States]
  BY <1>1, <1>2 DEF io_call, States, BlockedStates
<1>4. qs \in Queues /\ \A x : Queued(qs, x) <=> Queued(EventQueue, x) \/ x = current
  BY <1>1, <1>2, <1>3, InsertKeeps
<1>5. d \in DCB /\ d.iocbs = TRUE /\ d.pcb_ptr = current
  BY <1>1, <1>2 DEF DCB
<1>6. free \in DCB /\ free.pcb_ptr = current
  BY <1>1, <1>2 DEF DCB
<1>7. \/ dcb' = EventDcb /\ queue' = qs /\ UNCHANGED <<current, requester>>
      \/ dcb' = d /\ queue' = qs /\ UNCHANGED <<current, requester>>
      \/ /\ IF qs[READY_NOT_SUSPENDED] = <<>>
            THEN queue' = qs /\ UNCHANGED current
            ELSE Dispatch(qs, state')
         /\ dcb' \in IF op = "READ" THEN serial_read(free) ELSE {serial_write(free)}
         /\ requester' = IF op = "READ" /\ free.cur_op # "IDLE"
                         THEN requester ELSE current
  BY DEF io_call, io_scheduler
<1>8. \A x \in Pcb : Queued(queue, x) \/ x = current => Queued(qs, x)
  BY <1>2, <1>4
<1> HIDE DEF qs
<1>9. CASE dcb' = EventDcb /\ queue' = qs /\ UNCHANGED <<current, requester>>
  <2>1. WaiterKnown'
    BY <1>2, <1>9 DEF KInv, WaiterKnown
  <2> QED BY <1>1, <1>2, <1>3, <1>4, <1>8, <1>9, <2>1, CallKeeps
<1>10. CASE dcb' = d /\ queue' = qs /\ UNCHANGED <<current, requester>>
  <2> HIDE DEF d
  <2>1. WaiterKnown'
    BY <1>1, <1>5, <1>10, PcbAssumption DEF WaiterKnown
  <2> QED BY <1>1, <1>3, <1>4, <1>5, <1>8, <1>10, <2>1, CallKeeps
<1>11. CASE /\ IF qs[READY_NOT_SUSPENDED] = <<>>
               THEN queue' = qs /\ UNCHANGED current
               ELSE Dispatch(qs, state')
            /\ dcb' \in IF op = "READ" THEN serial_read(free) ELSE {serial_write(free)}
            /\ requester' = IF op = "READ" /\ free.cur_op # "IDLE"
                            THEN requester ELSE current
  <2> HIDE DEF free
  <2>1. dcb' \in DCB /\ dcb'.pcb_ptr = current
    <3>1. 0 \in 0 .. MaxLength /\ 0 \in 0 .. MaxIndex /\ 1 \in 0 .. MaxIndex
      BY RangeAssumption
    <3>2. serial_write(free) \in DCB /\ serial_write(free).pcb_ptr = current
      BY <1>6, <3>1 DEF serial_write, DCB, Ops
    <3>3. \A e \in serial_read(free) : e \in DCB /\ e.pcb_ptr = current
      BY <1>6, <3>1 DEF serial_read, DCB, Ops
    <3> QED BY <1>11, <3>2, <3>3
  <2>2. WaiterKnown'
    BY <1>1, <2>1, PcbAssumption DEF WaiterKnown
  <2>3. requester' \in Pcb \cup {NULL}
    BY <1>1, <1>11
  <2>4. /\ current' \in Pcb /\ queue' \in Queues
        /\ \A x : Queued(qs, x) => Queued(queue', x) \/ x = current'
    <3>1. CASE qs[READY_NOT_SUSPENDED] = <<>>
      BY <1>1, <1>4, <1>11, <3>1
    <3>2. CASE qs[READY_NOT_SUSPENDED] # <<>>
      BY <1>3, <1>4, <1>11, <3>2, DispatchKeeps
    <3> QED BY <3>1, <3>2
  <2> QED BY <1>1, <1>3, <1>8, <2>1, <2>2, <2>3, <2>4, CallKeeps
<1> QED BY <1>7, <1>9, <1>10, <1>11

\* An interrupt or a reset of the device changes the DCB, never its waiter, and
\* at most stops the machine.
LEMMA DeviceKeeps ==
  ASSUME KInv, NEW d \in DCB, d.iocbs = dcb.iocbs, d.pcb_ptr = dcb.pcb_ptr,
         dcb' = d, halted' \in BOOLEAN, UNCHANGED <<vars, current, gone, requester>>
  PROVE  KInv'
<1>1. WaiterKnown'
  BY DEF KInv, WaiterKnown
<1>2. KernelTypeOK'
  BY DEF KInv, KernelTypeOK, TypeOK, vars
<1>3. NoProcessLost'
  BY DEF KInv, NoProcessLost, vars
<1> QED BY <1>1, <1>2, <1>3 DEF KInv

LEMMA InterruptKeeps ==
  ASSUME KInv, serial_output_interrupt \/ serial_input_interrupt \/ comhand_reset
  PROVE  KInv'
<1>1. dcb \in DCB /\ 0 \in 0 .. MaxIndex
  BY RangeAssumption DEF KInv, KernelTypeOK
<1>2. ASSUME NEW d, Device(d)
      PROVE  dcb' = d /\ halted' \in BOOLEAN /\ UNCHANGED <<vars, current, gone, requester>>
  BY <1>2 DEF Device, KInv, KernelTypeOK
<1>3. CASE serial_output_interrupt
  <2>1. CASE dcb.rw_index < dcb.rw_buf_length
    <3>1. Device([dcb EXCEPT !.rw_index = @ + 1])
      BY <1>3, <2>1 DEF serial_output_interrupt
    <3>2. dcb.rw_index + 1 \in 0 .. MaxIndex
      BY <1>1, <2>1, RangeAssumption DEF DCB
    <3>3. [dcb EXCEPT !.rw_index = @ + 1] \in DCB
      BY <1>1, <3>2 DEF DCB
    <3> QED BY <1>1, <1>2, <3>1, <3>3, DeviceKeeps DEF DCB
  <2>2. CASE ~(dcb.rw_index < dcb.rw_buf_length)
    <3> DEFINE d == [dcb EXCEPT !.cur_op = "IDLE", !.event_flag = 1,
                        !.allocation_status = 0, !.rw_buf = NULL, !.rw_index = 0]
    <3>1. Device(d)
      BY <1>3, <2>2 DEF serial_output_interrupt
    <3>2. d \in DCB /\ d.iocbs = dcb.iocbs /\ d.pcb_ptr = dcb.pcb_ptr
      BY <1>1 DEF DCB, Ops
    <3> HIDE DEF d
    <3> QED BY <1>2, <3>1, <3>2, DeviceKeeps
  <2> QED BY <2>1, <2>2
<1>4. CASE input_enter
  <2>1. /\ dcb' = [dcb EXCEPT !.event_flag = 1, !.cur_op = "IDLE"]
        /\ halted' = ~dcb.iocbs /\ UNCHANGED <<vars, current, gone, requester>>
    BY <1>4 DEF input_enter
  <2>2. [dcb EXCEPT !.event_flag = 1, !.cur_op = "IDLE"] \in DCB
    BY <1>1 DEF DCB, Ops
  <2> QED BY <1>1, <2>1, <2>2, DeviceKeeps DEF DCB
<1>5. CASE input_key
  <2>1. CASE \E i \in {dcb.rw_index - 1, dcb.rw_index + 1} \cap 0 .. MaxIndex :
               Device([dcb EXCEPT !.rw_index = i])
    <3>1. PICK i \in 0 .. MaxIndex : Device([dcb EXCEPT !.rw_index = i])
      BY <2>1
    <3>2. [dcb EXCEPT !.rw_index = i] \in DCB
      BY <1>1 DEF DCB
    <3> QED BY <1>1, <1>2, <3>1, <3>2, DeviceKeeps DEF DCB
  <2>2. CASE Device([dcb EXCEPT !.event_flag = 0, !.cur_op = "IDLE"])
    <3>1. [dcb EXCEPT !.event_flag = 0, !.cur_op = "IDLE"] \in DCB
      BY <1>1 DEF DCB, Ops
    <3> QED BY <1>1, <1>2, <2>2, <3>1, DeviceKeeps DEF DCB
  <2> QED BY <1>5, <2>1, <2>2 DEF input_key
<1>6. CASE comhand_reset
  <2>1. PICK i \in {0, dcb.rw_index} : Free(i)
    BY <1>6 DEF comhand_reset
  <2> DEFINE d == [dcb EXCEPT !.allocation_status = 0, !.rw_buf = NULL, !.rw_index = i]
  <2>2. Device(d)
    BY <2>1 DEF Free
  <2>3. d \in DCB /\ d.iocbs = dcb.iocbs /\ d.pcb_ptr = dcb.pcb_ptr
    BY <1>1 DEF DCB
  <2> HIDE DEF d
  <2> QED BY <1>2, <2>2, <2>3, DeviceKeeps
<1> QED BY <1>3, <1>4, <1>5, <1>6 DEF serial_input_interrupt

-----------------------------------------------------------------------------
Replies == [cmd : AllCommands, done : BOOLEAN]

\* What a command on the process table must do to keep KInv: a new process is
\* queued, and the one in the hands of set_pcb_priority stays there or is put
\* back.  Those that leave the queues are counted by gone.
LEMMA EffectKeeps ==
  ASSUME KInv, Effect(table_command), TypeOK',
         \A x \in allocated' : x \in allocated \/ Queued(queue', x),
         setting # NULL => setting' = setting \/ Queued(queue', setting)
  PROVE  KInv'
<1>1. /\ gone' = gone \cup {p \in Pcb : Queued(queue, p) /\ ~Queued(queue', p)
                                         /\ p # setting'}
      /\ UNCHANGED <<current, dcb, halted, requester>>
  BY DEF Effect
<1>2. /\ allocated \in SUBSET Pcb
      /\ \A x \in allocated : x \in {current, setting} \cup gone \/ Queued(queue, x)
  BY DEF KInv, KernelTypeOK, TypeOK, NoProcessLost
<1>3. KernelTypeOK'
  BY <1>1 DEF KInv, KernelTypeOK
<1>4. WaiterKnown'
  BY <1>1 DEF KInv, WaiterKnown
<1>5. ASSUME NEW x \in allocated'
      PROVE  x \in {current', setting'} \cup gone' \/ Queued(queue', x)
  <2>1. CASE x \notin allocated
    BY <1>5, <2>1
  <2>2. CASE x \in allocated
    <3>1. x \in Pcb /\ x # NULL
      BY <1>2, <2>2, PcbAssumption
    <3>2. CASE x = current \/ x \in gone
      BY <1>1, <3>2
    <3>3. CASE x = setting
      BY <3>1, <3>3
    <3>4. CASE Queued(queue, x)
      BY <1>1, <3>1, <3>4
    <3> QED BY <1>2, <2>2, <3>2, <3>3, <3>4
  <2> QED BY <2>1, <2>2
<1>6. NoProcessLost'
  BY <1>5 DEF NoProcessLost
<1> QED BY <1>3, <1>4, <1>6 DEF KInv

\* The outcomes of delete_pcb, suspend_pcb and resume_pcb.
LEMMA RefuseTypes ==
  ASSUME KInv, NEW cmd \in AllCommands, Refuse(cmd)
  PROVE  TypeOK' /\ UNCHANGED <<allocated, setting>>
BY DEF KInv, KernelTypeOK, TypeOK, Refuse, Refused, table

LEMMA DropTypes ==
  ASSUME KInv, NEW p \in Pcb, Drop(p), reply' \in Replies
  PROVE  TypeOK' /\ UNCHANGED <<allocated, setting>>
<1>1. queue \in Queues /\ state \in [Pcb -> States]
  BY DEF KInv, KernelTypeOK, TypeOK, Queues
<1>2. /\ queue' = pcb_remove(queue, state, p)
      /\ UNCHANGED <<state, priority, class, name, allocated, setting>>
  BY DEF Drop
<1>3. queue' \in Queues
  BY <1>1, <1>2, RemoveKeeps
<1> QED BY <1>2, <1>3 DEF KInv, KernelTypeOK, TypeOK, Queues, Replies

LEMMA MoveTypes ==
  ASSUME KInv, NEW p \in Pcb, NEW s \in States, Move(p, s), reply' \in Replies
  PROVE  TypeOK' /\ UNCHANGED <<allocated, setting>>
<1>1. /\ queue \in Queues /\ state \in [Pcb -> States]
      /\ priority \in [Pcb -> Priorities]
  BY DEF KInv, KernelTypeOK, TypeOK, Queues
<1>2. /\ state' = [state EXCEPT ![p] = s]
      /\ queue' = pcb_insert(pcb_remove(queue, state, p), state', priority, p)
      /\ UNCHANGED <<priority, class, name, allocated, setting>>
  BY DEF Move
<1>3. state' \in [Pcb -> States]
  BY <1>1, <1>2
<1>4. pcb_remove(queue, state, p) \in Queues
  BY <1>1, RemoveKeeps
<1>5. queue' \in Queues
  BY <1>1, <1>2, <1>3, <1>4, InsertKeeps
<1> QED BY <1>2, <1>3, <1>5 DEF KInv, KernelTypeOK, TypeOK, Queues, Replies

LEMMA FoundIsPcb ==
  ASSUME KInv, NEW n
  PROVE  pcb_find(queue, name, n) = NULL \/ pcb_find(queue, name, n) \in Pcb
<1>1. queue \in [States -> Seq(Pcb)]
  BY DEF KInv, KernelTypeOK, TypeOK
<1> QED BY <1>1, PcbFindIs

LEMMA CreateTypes ==
  ASSUME KInv, NEW n \in Names, create_pcb(n, USER, USER_PRIORITY)
  PROVE  /\ TypeOK' /\ UNCHANGED setting
         /\ \A x \in allocated' : x \in allocated \/ Queued(queue', x)
<1>1. CASE Refuse("create")
  BY <1>1, RefuseTypes DEF AllCommands
<1>2. CASE ~Refuse("create")
  <2>1. PICK p \in Pcb \ allocated :
          /\ allocated' = allocated \cup {p}
          /\ name'      = [name EXCEPT ![p] = n]
          /\ class'     = [class EXCEPT ![p] = USER]
          /\ priority'  = [priority EXCEPT ![p] = USER_PRIORITY]
          /\ state'     = [state EXCEPT ![p] = READY_NOT_SUSPENDED]
          /\ queue'     = pcb_insert(queue, state', priority', p)
          /\ reply' = [cmd |-> "create", done |-> TRUE]
          /\ setting' = setting
    BY <1>2 DEF create_pcb, Done
  <2>2. queue \in Queues
    BY DEF KInv, KernelTypeOK, TypeOK, Queues
  <2>3. /\ state' \in [Pcb -> States] /\ priority' \in [Pcb -> Priorities]
        /\ class' \in [Pcb -> Classes] /\ name' \in [Pcb -> Names]
    BY <2>1, RangeAssumption
       DEF KInv, KernelTypeOK, TypeOK, Classes, States, ReadyStates
  <2>4. /\ queue' \in Queues
        /\ \A x : Queued(queue', x) <=> Queued(queue, x) \/ x = p
    BY <2>1, <2>2, <2>3, InsertKeeps
  <2>5. reply' \in [cmd : AllCommands, done : BOOLEAN]
    BY <2>1 DEF AllCommands
  <2>6. allocated' \in SUBSET Pcb /\ setting' \in Pcb \cup {NULL}
    BY <2>1 DEF KInv, KernelTypeOK, TypeOK
  <2>7. TypeOK'
    BY <2>3, <2>4, <2>5, <2>6 DEF TypeOK, Queues
  <2> QED BY <2>1, <2>4, <2>7
<1> QED BY <1>1, <1>2

LEMMA PriorityTypes ==
  ASSUME KInv, setting = NULL, NEW n \in Names, NEW pri \in Priorities,
         set_pcb_priority(n, pri)
  PROVE  TypeOK' /\ UNCHANGED allocated
<1> DEFINE p == pcb_find(queue, name, n)
<1>1. p = NULL \/ p \in Pcb
  BY FoundIsPcb
<1>2. CASE Refuse("priority")
  BY <1>2, RefuseTypes DEF AllCommands
<1>3. CASE /\ p # NULL
           /\ priority' = [priority EXCEPT ![p] = pri]
           /\ IF state[p] \in BlockedStates
              THEN UNCHANGED <<queue, setting>>
              ELSE queue' = pcb_remove(queue, state, p) /\ setting' = p
           /\ Done("priority")
           /\ UNCHANGED <<state, class, name, allocated>>
  <2>1. p \in Pcb
    BY <1>1, <1>3
  <2> HIDE DEF p
  <2>2. queue \in Queues /\ state \in [Pcb -> States]
    BY DEF KInv, KernelTypeOK, TypeOK, Queues
  <2>3. queue' \in Queues /\ setting' \in Pcb \cup {NULL}
    BY <1>3, <2>1, <2>2, RemoveKeeps DEF KInv, KernelTypeOK, TypeOK
  <2>4. priority' \in [Pcb -> Priorities]
    BY <1>3, <2>1 DEF KInv, KernelTypeOK, TypeOK
  <2>5. reply' \in [cmd : AllCommands, done : BOOLEAN]
    BY <1>3 DEF Done, AllCommands
  <2> QED BY <1>3, <2>3, <2>4, <2>5 DEF KInv, KernelTypeOK, TypeOK, Queues
<1> QED BY <1>2, <1>3 DEF set_pcb_priority

LEMMA PriorityEndTypes ==
  ASSUME KInv, set_pcb_priority_end
  PROVE  TypeOK' /\ UNCHANGED allocated /\ Queued(queue', setting)
<1>1. /\ setting # NULL /\ setting' = NULL
      /\ queue' = pcb_insert(queue, state, priority, setting)
      /\ UNCHANGED <<state, priority, class, name, allocated, reply>>
  BY DEF set_pcb_priority_end
<1>2. /\ setting \in Pcb /\ queue \in Queues /\ state \in [Pcb -> States]
      /\ priority \in [Pcb -> Priorities]
  BY <1>1 DEF KInv, KernelTypeOK, TypeOK, Queues
<1>3. queue' \in Queues /\ Queued(queue', setting)
  BY <1>1, <1>2, InsertKeeps
<1> QED BY <1>1, <1>3 DEF KInv, KernelTypeOK, TypeOK, Queues

LEMMA CommandKeeps ==
  ASSUME KInv, pcb_command
  PROVE  KInv'
<1>1. Effect(table_command) /\ table_command
  BY DEF pcb_command, Effect
<1>2. CASE setting = NULL /\ \E n \in Names : create_pcb(n, USER, USER_PRIORITY)
  <2>1. PICK n \in Names : create_pcb(n, USER, USER_PRIORITY)
    BY <1>2
  <2> QED BY <1>1, <1>2, <2>1, CreateTypes, EffectKeeps
<1>3. ASSUME NEW p \in Pcb \cup {NULL}, NEW cmd \in AllCommands,
             \/ Refuse(cmd)
             \/ p # NULL /\ Drop(p) /\ reply' \in Replies
             \/ p # NULL /\ (\E s \in States : Move(p, s)) /\ reply' \in Replies
      PROVE  KInv'
  <2>1. TypeOK' /\ UNCHANGED <<allocated, setting>>
    BY <1>3, RefuseTypes, DropTypes, MoveTypes
  <2> QED BY <1>1, <2>1, EffectKeeps
<1>4. CASE setting = NULL /\ \E n \in Names, pri \in Priorities : set_pcb_priority(n, pri)
  <2>1. PICK n \in Names, pri \in Priorities : set_pcb_priority(n, pri)
    BY <1>4
  <2> QED BY <1>1, <1>4, <2>1, PriorityTypes, EffectKeeps
<1>5. CASE set_pcb_priority_end
  BY <1>1, <1>5, PriorityEndTypes, EffectKeeps
<1>6. CASE \E n \in Names : delete_pcb(n) \/ suspend_pcb(n) \/ resume_pcb(n)
  <2>1. PICK n \in Names : delete_pcb(n) \/ suspend_pcb(n) \/ resume_pcb(n)
    BY <1>6
  <2> DEFINE p == pcb_find(queue, name, n)
  <2>2. p \in Pcb \cup {NULL}
    BY FoundIsPcb
  <2>3. ASSUME NEW cmd \in AllCommands, Done(cmd) \/ Refused(cmd)
        PROVE  reply' \in Replies
    <3>1. CASE Done(cmd)
      BY <3>1 DEF Done, Replies
    <3>2. CASE Refused(cmd)
      BY <3>2 DEF Refused, Replies
    <3> QED BY <2>3, <3>1, <3>2
  <2>4. {"delete", "suspend", "resume"} \subseteq AllCommands
    BY DEF AllCommands
  <2>5. {READY_NOT_SUSPENDED, READY_SUSPENDED, BLOCKED_NOT_SUSPENDED, BLOCKED_SUSPENDED}
           \subseteq States
    BY DEF States, ReadyStates, BlockedStates
  <2>6. CASE delete_pcb(n)
    <3>1. \/ Refuse("delete")
          \/ p # NULL /\ Drop(p) /\ Done("delete")
      BY <2>6 DEF delete_pcb
    <3> HIDE DEF p
    <3>2. Done("delete") => reply' \in Replies
      BY <2>3, <2>4
    <3> QED BY <1>3, <2>2, <2>4, <3>1, <3>2
  <2>7. CASE suspend_pcb(n)
    <3>1. \/ Refuse("suspend")
          \/ p # NULL /\ Drop(p) /\ Refused("suspend")
          \/ p # NULL /\ (\E s \in States : Move(p, s)) /\ Done("suspend")
      BY <2>5, <2>7 DEF suspend_pcb
    <3> HIDE DEF p
    <3> QED BY <1>3, <2>2, <2>3, <2>4, <3>1
  <2>8. CASE resume_pcb(n)
    <3>1. \/ Refuse("resume")
          \/ p # NULL /\ Drop(p) /\ Refused("resume")
          \/ p # NULL /\ (\E s \in States : Move(p, s)) /\ Done("resume")
      BY <2>5, <2>8 DEF resume_pcb
    <3> HIDE DEF p
    <3> QED BY <1>3, <2>2, <2>3, <2>4, <3>1
  <2> QED BY <2>1, <2>6, <2>7, <2>8
<1>7. CASE (\E i \in 1 .. Len(ready) : Drop(ready[i])) /\ UNCHANGED reply
  <2>1. PICK i \in 1 .. Len(ready) : Drop(ready[i])
    BY <1>7
  <2>2. ready \in Seq(Pcb)
    BY DEF KInv, KernelTypeOK, TypeOK, ready, States, ReadyStates
  <2>3. ready[i] \in Pcb
    BY <2>2
  <2>4. reply' \in Replies
    BY <1>7 DEF KInv, KernelTypeOK, TypeOK, Replies
  <2>5. TypeOK' /\ UNCHANGED <<allocated, setting>>
    BY <2>1, <2>3, <2>4, DropTypes
  <2> QED BY <1>1, <2>5, EffectKeeps
<1> QED BY <1>1, <1>2, <1>4, <1>5, <1>6, <1>7 DEF table_command

-----------------------------------------------------------------------------
LEMMA KernelInitKeeps ==
  ASSUME KernelInit
  PROVE  KInv
<1>1. /\ state \in [Pcb -> States] /\ priority \in [Pcb -> Priorities]
      /\ class \in [Pcb -> Classes] /\ name \in [Pcb -> Names]
      /\ allocated = {comhand, sys_idle} /\ setting = NULL
      /\ reply = [cmd |-> "create", done |-> TRUE]
      /\ current = NULL /\ halted = FALSE /\ gone = {} /\ requester = NULL
  BY LoadedAssumption, RangeAssumption, PriorityAssumption
     DEF KernelInit, States, ReadyStates, Priorities, Classes
<1>2. dcb \in DCB /\ WaiterKnown
  BY RangeAssumption DEF KernelInit, DCB, Ops, WaiterKnown
<1>3. /\ queue = [EmptyQueues EXCEPT ![READY_NOT_SUSPENDED] =
                     enqueue_pri(<<comhand>>, priority, sys_idle)]
      /\ priority \in [Pcb -> Nat]
  BY <1>1, PriorityAssumption DEF KernelInit, Priorities
<1>4. <<comhand>> \in Seq(Pcb) /\ In(<<comhand>>, comhand)
  BY LoadedAssumption DEF In
<1>5. /\ enqueue_pri(<<comhand>>, priority, sys_idle) \in Seq(Pcb)
      /\ In(enqueue_pri(<<comhand>>, priority, sys_idle), comhand)
      /\ In(enqueue_pri(<<comhand>>, priority, sys_idle), sys_idle)
  BY <1>3, <1>4, EnqueuePriIs, LoadedAssumption
<1>6. EmptyQueues \in Queues /\ READY_NOT_SUSPENDED \in States
  BY DEF EmptyQueues, Queues, States, ReadyStates
<1>7. queue \in Queues /\ queue[READY_NOT_SUSPENDED]
                            = enqueue_pri(<<comhand>>, priority, sys_idle)
  BY <1>3, <1>5, <1>6 DEF Queues
<1>8. Queued(queue, comhand) /\ Queued(queue, sys_idle)
  BY <1>5, <1>6, <1>7, QueuedIs
<1>9. NoProcessLost
  BY <1>1, <1>8 DEF NoProcessLost
<1>10. TypeOK
  BY <1>1, <1>7, LoadedAssumption DEF TypeOK, Queues, AllCommands
<1> QED BY <1>1, <1>2, <1>9, <1>10 DEF KInv, KernelTypeOK

LEMMA KernelStepKeeps ==
  ASSUME KInv, [KernelNext]_kvars
  PROVE  KInv'
<1>1. CASE sys_call(any_call)
  <2>1. UNCHANGED <<priority, class, name, allocated, setting, reply>> /\ any_call
    BY <1>1 DEF sys_call
  <2>2. CASE idle_call
    BY <2>1, <2>2, IdleKeeps
  <2>3. CASE exit_call
    BY <2>1, <2>3, ExitKeeps
  <2>4. CASE \E op \in {"READ", "WRITE"}, len \in 0 .. MaxLength : io_call(op, len)
    BY <2>1, <2>4, IoKeeps
  <2> QED BY <2>1, <2>2, <2>3, <2>4 DEF any_call
<1>2. CASE serial_output_interrupt \/ serial_input_interrupt \/ comhand_reset
  BY <1>2, InterruptKeeps
<1>3. CASE pcb_command
  BY <1>3, CommandKeeps
<1>4. CASE UNCHANGED kvars
  BY <1>4 DEF kvars, vars, kernel, KInv, KernelTypeOK, TypeOK, NoProcessLost, WaiterKnown
<1> QED BY <1>1, <1>2, <1>3, <1>4 DEF KernelNext

\* KInv holds in every state of the kernel.
THEOREM KernelInvariance == KernelSpec => []KInv
<1>1. KernelInit => KInv
  BY KernelInitKeeps
<1>2. KInv /\ [KernelNext]_kvars => KInv'
  BY KernelStepKeeps
<1> QED BY <1>1, <1>2, PTL DEF KernelSpec

\* The kernel's state keeps its type: the index and the length of the buffer
\* stay in range and every pointer points to a PCB, whatever calls are made.
THEOREM KernelTypeCorrect == KernelSpec => []KernelTypeOK
<1>1. KInv => KernelTypeOK
  BY DEF KInv
<1> QED BY <1>1, KernelInvariance, PTL

\* No system call, interrupt or command loses a process: sys_call, the I/O
\* scheduler and the PCB commands put back whom they take out of a queue,
\* unless it gets the CPU or leaves for good.
THEOREM ProcessesAreKept == KernelSpec => []NoProcessLost
<1>1. KInv => NoProcessLost
  BY DEF KInv
<1> QED BY <1>1, KernelInvariance, PTL
-----------------------------------------------------------------------------
(***************************************************************************)
(* The order of the ready queues, and who gets the CPU.                    *)
(***************************************************************************)

QueuesSorted(qs, pri) == \A s \in ReadyStates : Sorted(qs[s], pri)

\* Nothing points to a PCB that was never allocated.
KnownPcbs ==
    /\ \A x : Queued(queue, x) => x \in allocated
    /\ {current, setting, dcb.pcb_ptr} \subseteq allocated \cup {NULL}

\* A new PCB gets its priority while it is in no queue.
SortInv == KInv /\ KnownPcbs /\ ("priority" \notin Commands => QueuesSorted(queue, priority))

LEMMA InsertSorted ==
  ASSUME NEW qs \in Queues, NEW st \in [Pcb -> States],
         NEW pri \in [Pcb -> Priorities], NEW p \in Pcb, QueuesSorted(qs, pri)
  PROVE  QueuesSorted(pcb_insert(qs, st, pri, p), pri)
<1> DEFINE r == pcb_insert(qs, st, pri, p)
<1>1. pri \in [Pcb -> Nat] /\ qs \in [States -> Seq(Pcb)] /\ ReadyStates \subseteq States
  BY PriorityAssumption DEF Priorities, Queues, States
<1>2. /\ r \in [States -> Seq(Pcb)]
      /\ \A s \in States : s # st[p] => r[s] = qs[s]
      /\ \A x : In(r[st[p]], x) <=> In(qs[st[p]], x) \/ x = p
      /\ Distinct(qs[st[p]]) /\ ~In(qs[st[p]], p) => Distinct(r[st[p]])
      /\ st[p] \in ReadyStates /\ Sorted(qs[st[p]], pri) => Sorted(r[st[p]], pri)
  BY <1>1, PcbInsertIs
<1> HIDE DEF r
<1>4. ASSUME NEW s \in ReadyStates PROVE Sorted(r[s], pri)
  BY <1>1, <1>2 DEF QueuesSorted
<1> QED BY <1>4 DEF QueuesSorted, r

\* What pcb_insert finds in a queue stays there, and p is added to its own.
LEMMA InsertHolds ==
  ASSUME NEW qs \in Queues, NEW st \in [Pcb -> States],
         NEW pri \in [Pcb -> Priorities], NEW p \in Pcb
  PROVE  /\ \A s \in States : \A x : In(qs[s], x) => In(pcb_insert(qs, st, pri, p)[s], x)
         /\ \A s \in States : \A x : In(pcb_insert(qs, st, pri, p)[s], x) => In(qs[s], x) \/ x = p
         /\ In(pcb_insert(qs, st, pri, p)[st[p]], p)
<1> DEFINE r == pcb_insert(qs, st, pri, p)
<1>1. pri \in [Pcb -> Nat] /\ qs \in [States -> Seq(Pcb)]
  BY PriorityAssumption DEF Priorities, Queues
<1>2. /\ r \in [States -> Seq(Pcb)]
      /\ \A s \in States : s # st[p] => r[s] = qs[s]
      /\ \A x : In(r[st[p]], x) <=> In(qs[st[p]], x) \/ x = p
      /\ Distinct(qs[st[p]]) /\ ~In(qs[st[p]], p) => Distinct(r[st[p]])
      /\ st[p] \in ReadyStates /\ Sorted(qs[st[p]], pri) => Sorted(r[st[p]], pri)
  BY <1>1, PcbInsertIs
<1>3. \A x : In(r[st[p]], x) <=> In(qs[st[p]], x) \/ x = p
  BY <1>2
<1> HIDE DEF r
<1>4. ASSUME NEW s \in States, NEW x
      PROVE  /\ In(qs[s], x) => In(r[s], x)
             /\ In(r[s], x) => In(qs[s], x) \/ x = p
  BY <1>2, <1>3
<1> QED BY <1>3, <1>4 DEF r

LEMMA RemoveSorted ==
  ASSUME NEW qs \in Queues, NEW st \in [Pcb -> States], NEW p \in Pcb, NEW pri,
         QueuesSorted(qs, pri)
  PROVE  QueuesSorted(pcb_remove(qs, st, p), pri)
<1>1. qs \in [States -> Seq(Pcb)] /\ ReadyStates \subseteq States
  BY DEF Queues, States
<1>2. \A o : \A s \in States : Sorted(qs[s], o) => Sorted(pcb_remove(qs, st, p)[s], o)
  BY <1>1, PcbRemoveIs
<1> QED BY <1>1, <1>2 DEF QueuesSorted

\* pcb_remove adds nothing and takes nobody but p.
LEMMA RemoveHolds ==
  ASSUME NEW qs \in Queues, NEW st \in [Pcb -> States], NEW p \in Pcb
  PROVE  /\ \A s \in States : \A x : In(pcb_remove(qs, st, p)[s], x) => In(qs[s], x)
         /\ \A s \in States : \A x : In(qs[s], x) /\ x # p => In(pcb_remove(qs, st, p)[s], x)
         /\ \A x : Queued(pcb_remove(qs, st, p), x) => Queued(qs, x)
<1>1. /\ \A s \in States : \A x : In(pcb_remove(qs, st, p)[s], x) => In(qs[s], x)
      /\ \A s \in States : \A x : In(qs[s], x) /\ x # p => In(pcb_remove(qs, st, p)[s], x)
  BY PcbRemoveIs DEF Queues
<1>2. \A x : Queued(pcb_remove(qs, st, p), x) => Queued(qs, x)
  BY <1>1, QueuedIs
<1> QED BY <1>1, <1>2

\* The front of a sorted ready queue is the most urgent of it.
LEMMA FrontMostUrgent ==
  ASSUME NEW qs \in Queues, NEW pri \in [Pcb -> Priorities], QueuesSorted(qs, pri),
         qs[READY_NOT_SUSPENDED] # <<>>, NEW x, In(qs[READY_NOT_SUSPENDED], x)
  PROVE  pri[Head(qs[READY_NOT_SUSPENDED])] <= pri[x]
<1> DEFINE q == qs[READY_NOT_SUSPENDED]
<1>1. q \in Seq(Pcb) /\ Sorted(q, pri)
  BY DEF Queues, States, ReadyStates, QueuesSorted
<1> HIDE DEF q
<1>2. PICK i \in 1 .. Len(q) : q[i] = x
  BY DEF In, q
<1>3. Len(q) \in Nat /\ 1 \in 1 .. Len(q) /\ Head(q) = q[1] /\ q[1] \in Pcb
  BY <1>1, <1>2
<1>4. pri[q[1]] \in Nat
  BY <1>3, PriorityAssumption DEF Priorities
<1>5. i = 1 \/ 1 < i
  BY <1>2
<1>6. pri[q[1]] <= pri[q[i]]
  BY <1>1, <1>2, <1>3, <1>4, <1>5 DEF Sorted
<1> QED BY <1>2, <1>3, <1>6 DEF q

\* The queues hold PCBs.
LEMMA QueuedArePcbs ==
  ASSUME NEW qs \in Queues, NEW x, Queued(qs, x)
  PROVE  x \in Pcb
<1>1. PICK s \in States : \E i \in 1 .. Len(qs[s]) : qs[s][i] = x
  BY DEF Queued
<1>2. qs[s] \in Seq(Pcb)
  BY DEF Queues
<1> QED BY <1>1, <1>2

LEMMA FrontIsQueued ==
  ASSUME NEW qs \in Queues, qs[READY_NOT_SUSPENDED] # <<>>
  PROVE  /\ Head(qs[READY_NOT_SUSPENDED]) \in Pcb
         /\ Queued(qs, Head(qs[READY_NOT_SUSPENDED]))
<1> DEFINE q == qs[READY_NOT_SUSPENDED]
<1>1. READY_NOT_SUSPENDED \in States /\ q \in Seq(Pcb)
  BY DEF Queues, States, ReadyStates
<1> HIDE DEF q
<1>2. q # <<>>
  BY DEF q
<1>3. 1 \in 1 .. Len(q) /\ Head(q) = q[1]
  BY <1>1, <1>2
<1>4. Head(q) \in Pcb /\ In(q, Head(q))
  BY <1>1, <1>3 DEF In
<1> QED BY <1>1, <1>4, QueuedIs DEF q

\* The event wakes the process the device points to, in order.
LEMMA EventOrder ==
  ASSUME KInv
  PROVE  /\ \A x : Queued(EventQueue, x) => Queued(queue, x) \/ (x = dcb.pcb_ptr /\ x \in Pcb)
         /\ QueuesSorted(queue, priority) => QueuesSorted(EventQueue, priority)
<1>1. CASE ~EventDue
  BY <1>1 DEF EventQueue
<1>2. CASE EventDue
  <2> DEFINE p == dcb.pcb_ptr
             r == pcb_remove(queue, state, p)
  <2>1. /\ queue \in Queues /\ state \in [Pcb -> States]
        /\ priority \in [Pcb -> Priorities] /\ p \in Pcb
    BY <1>2 DEF KInv, KernelTypeOK, TypeOK, Queues, WaiterKnown, EventDue, DCB
  <2>2. EventState \in [Pcb -> States] /\ EventQueue = pcb_insert(r, EventState, priority, p)
    BY <1>2, EventKeeps DEF EventQueue
  <2> HIDE DEF p
  <2>3. r \in Queues /\ \A x : Queued(r, x) => Queued(queue, x)
    BY <2>1, RemoveKeeps, RemoveHolds
  <2>4. QueuesSorted(queue, priority) => QueuesSorted(r, priority)
    BY <2>1, RemoveSorted
  <2> HIDE DEF r
  <2>5. QueuesSorted(r, priority) => QueuesSorted(EventQueue, priority)
    BY <2>1, <2>2, <2>3, InsertSorted
  <2>6. \A x : Queued(EventQueue, x) <=> Queued(r, x) \/ x = p
    BY <2>1, <2>2, <2>3, InsertKeeps
  <2> QED BY <2>1, <2>3, <2>4, <2>5, <2>6 DEF p
<1> QED BY <1>1, <1>2

\* What a system call does to the queues, the CPU and the device: it brings in
\* nobody but the caller and the process the device points to, keeps the order,
\* and lets nobody run while a more urgent process, the caller aside, waits.
Urgent(qs) ==
    \A x : In(qs[READY_NOT_SUSPENDED], x) /\ x # current => priority[current'] <= priority[x]

CallOrderly ==
    LET Held == {x \in Pcb : Queued(queue, x) \/ x = current \/ x = dcb.pcb_ptr}
    IN  /\ \A x : Queued(queue', x) => x \in Held
        /\ current' \in Held \cup {current}
        /\ dcb'.pcb_ptr \in {dcb.pcb_ptr, current}
        /\ QueuesSorted(queue, priority) =>
               QueuesSorted(queue', priority) /\ (current' = current \/ Urgent(queue'))

\* Taking the front of qs, out of the ready queue or, by its state, another.
LEMMA TakeFront ==
  ASSUME NEW qs \in Queues, NEW st \in [Pcb -> States], KInv,
         qs[READY_NOT_SUSPENDED] # <<>>, current' = Head(qs[READY_NOT_SUSPENDED])
  PROVE  /\ current' \in Pcb /\ Queued(qs, current')
         /\ \A x : Queued(pcb_remove(qs, st, current'), x) => Queued(qs, x)
         /\ QueuesSorted(qs, priority) =>
               QueuesSorted(pcb_remove(qs, st, current'), priority)
               /\ Urgent(pcb_remove(qs, st, current'))
<1> DEFINE r == pcb_remove(qs, st, current')
<1>1. current' \in Pcb /\ Queued(qs, current')
  BY FrontIsQueued
<1>2. priority \in [Pcb -> Priorities] /\ READY_NOT_SUSPENDED \in States
  BY DEF KInv, KernelTypeOK, TypeOK, States, ReadyStates
<1>3. /\ \A s \in States : \A x : In(r[s], x) => In(qs[s], x)
      /\ \A x : Queued(r, x) => Queued(qs, x)
  BY <1>1, RemoveHolds
<1>4. ASSUME QueuesSorted(qs, priority) PROVE QueuesSorted(r, priority) /\ Urgent(r)
  <2>1. QueuesSorted(r, priority)
    BY <1>1, <1>4, RemoveSorted
  <2> HIDE DEF r
  <2>2. \A x : In(qs[READY_NOT_SUSPENDED], x) => priority[current'] <= priority[x]
    BY <1>2, <1>4, FrontMostUrgent
  <2> QED BY <1>2, <1>3, <2>1, <2>2 DEF Urgent
<1> QED BY <1>1, <1>3, <1>4
LEMMA IdleOrder ==
  ASSUME KInv, idle_call, UNCHANGED <<priority, class, name, allocated, setting, reply>>
  PROVE  CallOrderly
<1> DEFINE qs == EventQueue
           next == Head(qs[READY_NOT_SUSPENDED])
           rest == pcb_remove(qs, EventState, next)
<1>1. /\ EventState \in [Pcb -> States] /\ qs \in Queues
      /\ EventDcb.pcb_ptr = dcb.pcb_ptr
      /\ \A x : Queued(qs, x) => Queued(queue, x) \/ (x = dcb.pcb_ptr /\ x \in Pcb)
      /\ QueuesSorted(queue, priority) => QueuesSorted(qs, priority)
  BY EventKeeps, EventOrder
<1>2. /\ current \in Pcb \cup {NULL} /\ priority \in [Pcb -> Priorities]
      /\ \A x : Queued(queue, x) => x \in Pcb
  BY QueuedArePcbs DEF KInv, KernelTypeOK, TypeOK, Queues
<1>3. /\ dcb' = EventDcb
      /\ \/ qs[READY_NOT_SUSPENDED] = <<>> /\ queue' = qs /\ UNCHANGED current
         \/ /\ qs[READY_NOT_SUSPENDED] # <<>>
            /\ current' = next
            /\ queue' = IF current = NULL THEN rest
                        ELSE pcb_insert(rest, EventState, priority, current)
  BY DEF idle_call
<1>4. CASE queue' = qs /\ UNCHANGED current
  <2> HIDE DEF qs
  <2> QED BY <1>1, <1>2, <1>3, <1>4 DEF CallOrderly
<1>5. CASE /\ qs[READY_NOT_SUSPENDED] # <<>>
           /\ current' = next
           /\ queue' = IF current = NULL THEN rest
                       ELSE pcb_insert(rest, EventState, priority, current)
  <2>1. rest = pcb_remove(qs, EventState, current')
    BY <1>5
  <2>2. current' = Head(qs[READY_NOT_SUSPENDED])
    BY <1>5
  <2> HIDE DEF qs, next, rest
  <2>3. /\ current' \in Pcb /\ Queued(qs, current')
        /\ \A x : Queued(rest, x) => Queued(qs, x)
        /\ QueuesSorted(qs, priority) => QueuesSorted(rest, priority) /\ Urgent(rest)
    BY <1>1, <1>5, <2>1, <2>2, TakeFront
  <2>4. CASE current = NULL
    <3>1. queue' = rest
      BY <1>5, <2>4
    <3> QED BY <1>1, <1>2, <1>3, <2>3, <3>1 DEF CallOrderly
  <2>5. CASE current \in Pcb
    <3>1. queue' = pcb_insert(rest, EventState, priority, current)
      BY <1>5, <2>5, PcbAssumption
    <3>2. rest \in Queues
      BY <1>1, <2>1, <2>3, RemoveKeeps
    <3>3. /\ \A x : Queued(queue', x) <=> Queued(rest, x) \/ x = current
          /\ QueuesSorted(rest, priority) => QueuesSorted(queue', priority)
      BY <1>1, <1>2, <2>5, <3>1, <3>2, InsertKeeps, InsertSorted
    <3>4. \A x : In(queue'[READY_NOT_SUSPENDED], x) => In(rest[READY_NOT_SUSPENDED], x) \/ x = current
      BY <1>1, <1>2, <2>5, <3>1, <3>2, InsertHolds DEF States, ReadyStates
    <3>5. Urgent(rest) => Urgent(queue')
      BY <3>4 DEF Urgent
    <3> QED BY <1>1, <1>2, <1>3, <2>3, <2>5, <3>3, <3>5 DEF CallOrderly
  <2> QED BY <1>2, <2>4, <2>5
<1> QED BY <1>3, <1>4, <1>5

LEMMA ExitOrder ==
  ASSUME KInv, exit_call, UNCHANGED <<priority, class, name, allocated, setting, reply>>
  PROVE  CallOrderly
<1>1. /\ queue \in Queues /\ state \in [Pcb -> States] /\ current \in Pcb
      /\ \A x : Queued(queue, x) => x \in Pcb
  BY QueuedArePcbs DEF KInv, KernelTypeOK, TypeOK, Queues, exit_call
<1>2. UNCHANGED dcb
  BY DEF exit_call
<1>3. CASE UNCHANGED <<queue, current>>
  BY <1>1, <1>2, <1>3 DEF CallOrderly
<1>4. CASE ready # <<>> /\ Dispatch(queue, state)
  <2>1. current' = Head(queue[READY_NOT_SUSPENDED]) /\ queue' = pcb_remove(queue, state, current')
    BY <1>4 DEF Dispatch
  <2>2. /\ current' \in Pcb /\ Queued(queue, current')
        /\ \A x : Queued(queue', x) => Queued(queue, x)
        /\ QueuesSorted(queue, priority) => QueuesSorted(queue', priority) /\ Urgent(queue')
    BY <1>1, <1>4, <2>1, TakeFront DEF ready
  <2> QED BY <1>1, <1>2, <2>2 DEF CallOrderly
<1> QED BY <1>3, <1>4 DEF exit_call

LEMMA IoOrder ==
  ASSUME KInv, NEW op \in {"READ", "WRITE"}, NEW len \in 0 .. MaxLength, io_call(op, len),
         UNCHANGED <<priority, class, name, allocated, setting, reply>>
  PROVE  CallOrderly
<1> DEFINE qs == pcb_insert(EventQueue, state', priority, current)
<1>1. /\ current \in Pcb /\ priority \in [Pcb -> Priorities]
      /\ \A x : Queued(queue, x) => x \in Pcb
  BY QueuedArePcbs DEF KInv, KernelTypeOK, TypeOK, io_call, Queues
<1>2. /\ EventState \in [Pcb -> States] /\ EventQueue \in Queues /\ EventDcb \in DCB
      /\ EventDcb.pcb_ptr = dcb.pcb_ptr
      /\ \A x : Queued(EventQueue, x) => Queued(queue, x) \/ (x = dcb.pcb_ptr /\ x \in Pcb)
      /\ QueuesSorted(queue, priority) => QueuesSorted(EventQueue, priority)
  BY EventKeeps, EventOrder
<1>3. state' \in [Pcb -> States]
  BY <1>1, <1>2 DEF io_call, States, BlockedStates
<1>4. /\ qs \in Queues
      /\ \A x : Queued(qs, x) <=> Queued(EventQueue, x) \/ x = current
      /\ QueuesSorted(EventQueue, priority) => QueuesSorted(qs, priority)
  BY <1>1, <1>2, <1>3, InsertKeeps, InsertSorted
<1>5. dcb'.pcb_ptr \in {dcb.pcb_ptr, current}
  BY <1>2 DEF io_call, io_scheduler, DCB, serial_read, serial_write
<1>6. \/ queue' = qs /\ UNCHANGED current
      \/ qs[READY_NOT_SUSPENDED] # <<>> /\ Dispatch(qs, state')
  BY DEF io_call, io_scheduler
<1> HIDE DEF qs
<1>7. CASE queue' = qs /\ UNCHANGED current
  BY <1>1, <1>2, <1>4, <1>5, <1>7 DEF CallOrderly
<1>8. CASE qs[READY_NOT_SUSPENDED] # <<>> /\ Dispatch(qs, state')
  <2>1. current' = Head(qs[READY_NOT_SUSPENDED]) /\ queue' = pcb_remove(qs, state', current')
    BY <1>8 DEF Dispatch
  <2>2. /\ current' \in Pcb /\ Queued(qs, current')
        /\ \A x : Queued(queue', x) => Queued(qs, x)
        /\ QueuesSorted(qs, priority) => QueuesSorted(queue', priority) /\ Urgent(queue')
    BY <1>3, <1>4, <1>8, <2>1, TakeFront
  <2> QED BY <1>1, <1>2, <1>4, <1>5, <2>2 DEF CallOrderly
<1> QED BY <1>6, <1>7, <1>8

LEMMA CallsOrder ==
  ASSUME KInv, sys_call(any_call)
  PROVE  CallOrderly /\ UNCHANGED <<priority, class, name, allocated, setting, reply>>
BY IdleOrder, ExitOrder, IoOrder DEF sys_call, any_call
\* Interrupts and resets leave everything but the device alone, and the
\* device's waiter; they start no operation.
LEMMA DeviceAlone ==
  ASSUME KInv, serial_output_interrupt \/ serial_input_interrupt \/ comhand_reset
  PROVE  /\ UNCHANGED <<vars, current, gone, requester>>
         /\ dcb'.pcb_ptr = dcb.pcb_ptr /\ dcb'.iocbs = dcb.iocbs
         /\ dcb'.cur_op # "IDLE" =>
               dcb.cur_op # "IDLE" /\ dcb'.event_flag = dcb.event_flag
<1>1. dcb \in DCB
  BY DEF KInv, KernelTypeOK
<1>2. CASE serial_output_interrupt
  BY <1>1, <1>2 DEF serial_output_interrupt, Device, DCB
<1>3. CASE serial_input_interrupt
  BY <1>1, <1>3 DEF serial_input_interrupt, input_enter, input_key, Device, DCB
<1>4. CASE comhand_reset
  BY <1>1, <1>4 DEF comhand_reset, Free, Device, DCB
<1> QED BY <1>2, <1>3, <1>4

\* What a PCB command queues is allocated, and without a change of priority the
\* ready queues stay in order.
CommandOrderly ==
    /\ allocated \subseteq allocated'
    /\ \A x : Queued(queue', x) => x \in allocated'
    /\ setting' \in allocated' \cup {NULL}
    /\ "priority" \notin Commands /\ QueuesSorted(queue, priority)
          => QueuesSorted(queue', priority')

LEMMA CreateOrder ==
  ASSUME KInv, KnownPcbs, NEW n \in Names, create_pcb(n, USER, USER_PRIORITY)
  PROVE  CommandOrderly
<1>1. CASE Refuse("create")
  BY <1>1 DEF Refuse, table, CommandOrderly, KnownPcbs
<1>2. CASE ~Refuse("create")
  <2>1. PICK p \in Pcb \ allocated :
          /\ allocated' = allocated \cup {p}
          /\ priority'  = [priority EXCEPT ![p] = USER_PRIORITY]
          /\ state'     = [state EXCEPT ![p] = READY_NOT_SUSPENDED]
          /\ queue'     = pcb_insert(queue, state', priority', p)
          /\ setting'   = setting
    BY <1>2 DEF create_pcb
  <2>2. /\ queue \in Queues /\ queue \in [States -> Seq(Pcb)]
        /\ state' \in [Pcb -> States] /\ priority' \in [Pcb -> Priorities]
        /\ priority \in [Pcb -> Priorities]
    BY <2>1, RangeAssumption DEF KInv, KernelTypeOK, TypeOK, Queues, States, ReadyStates
  <2>3. \A x : Queued(queue', x) <=> Queued(queue, x) \/ x = p
    BY <2>1, <2>2, InsertKeeps
  <2>4. ASSUME QueuesSorted(queue, priority) PROVE QueuesSorted(queue', priority')
    <3>1. ASSUME NEW s \in ReadyStates, NEW i \in 1 .. Len(queue[s])
          PROVE  queue[s][i] \in Pcb /\ queue[s][i] # p
      <4>1. s \in States /\ Queued(queue, queue[s][i])
        BY DEF Queued, States
      <4> QED BY <2>1, <2>2, <4>1, QueuedArePcbs DEF KnownPcbs
    <3>2. \A s \in ReadyStates : \A i \in 1 .. Len(queue[s]) :
             priority'[queue[s][i]] = priority[queue[s][i]]
      BY <2>1, <2>2, <3>1
    <3>3. QueuesSorted(queue, priority')
      BY <2>4, <3>2 DEF QueuesSorted, Sorted
    <3> QED BY <2>1, <2>2, <3>3, InsertSorted
  <2> QED BY <2>1, <2>3, <2>4 DEF CommandOrderly, KnownPcbs
<1> QED BY <1>1, <1>2

LEMMA DropOrder ==
  ASSUME KInv, KnownPcbs, NEW p \in Pcb, Drop(p)
  PROVE  CommandOrderly
<1>1. queue \in Queues /\ state \in [Pcb -> States]
  BY DEF KInv, KernelTypeOK, TypeOK, Queues
<1>2. /\ queue' = pcb_remove(queue, state, p)
      /\ UNCHANGED <<state, priority, class, name, allocated, setting>>
  BY DEF Drop
<1>3. \A x : Queued(queue', x) => Queued(queue, x)
  BY <1>1, <1>2, RemoveHolds
<1>4. QueuesSorted(queue, priority) => QueuesSorted(queue', priority)
  BY <1>1, <1>2, RemoveSorted
<1> QED BY <1>2, <1>3, <1>4 DEF CommandOrderly, KnownPcbs

LEMMA MoveOrder ==
  ASSUME KInv, KnownPcbs, NEW p \in Pcb, NEW s \in States, Queued(queue, p), Move(p, s)
  PROVE  CommandOrderly
<1> DEFINE r == pcb_remove(queue, state, p)
<1>1. /\ queue \in Queues /\ state \in [Pcb -> States]
      /\ priority \in [Pcb -> Priorities]
  BY DEF KInv, KernelTypeOK, TypeOK, Queues
<1>2. /\ state' = [state EXCEPT ![p] = s]
      /\ queue' = pcb_insert(r, state', priority, p)
      /\ UNCHANGED <<priority, class, name, allocated, setting>>
  BY DEF Move
<1>3. state' \in [Pcb -> States]
  BY <1>1, <1>2
<1>4. /\ r \in Queues /\ \A x : Queued(r, x) => Queued(queue, x)
      /\ QueuesSorted(queue, priority) => QueuesSorted(r, priority)
  BY <1>1, RemoveKeeps, RemoveHolds, RemoveSorted
<1> HIDE DEF r
<1>5. /\ \A x : Queued(queue', x) <=> Queued(r, x) \/ x = p
      /\ QueuesSorted(r, priority) => QueuesSorted(queue', priority)
  BY <1>1, <1>2, <1>3, <1>4, InsertKeeps, InsertSorted
<1> QED BY <1>2, <1>4, <1>5 DEF CommandOrderly, KnownPcbs

LEMMA PriorityOrder ==
  ASSUME KInv, KnownPcbs, "priority" \in Commands, NEW n \in Names, NEW pri,
         set_pcb_priority(n, pri)
  PROVE  CommandOrderly
<1> DEFINE p == pcb_find(queue, name, n)
<1>1. queue \in [States -> Seq(Pcb)] /\ queue \in Queues /\ state \in [Pcb -> States]
  BY DEF KInv, KernelTypeOK, TypeOK, Queues
<1>2. p = NULL \/ (p \in Pcb /\ Queued(queue, p))
  BY <1>1, PcbFindIs, QueuedIs
<1>3. CASE UNCHANGED <<queue, setting, allocated>>
  BY <1>3 DEF CommandOrderly, KnownPcbs
<1>4. CASE p # NULL /\ queue' = pcb_remove(queue, state, p) /\ setting' = p /\ UNCHANGED allocated
  <2>1. \A x : Queued(queue', x) => Queued(queue, x)
    BY <1>1, <1>2, <1>4, RemoveHolds
  <2> HIDE DEF p
  <2> QED BY <1>2, <1>4, <2>1 DEF CommandOrderly, KnownPcbs
<1> QED BY <1>3, <1>4 DEF set_pcb_priority, Refuse, table

LEMMA PriorityEndOrder ==
  ASSUME KInv, KnownPcbs, set_pcb_priority_end
  PROVE  CommandOrderly
<1>1. /\ setting # NULL /\ setting' = NULL
      /\ queue' = pcb_insert(queue, state, priority, setting)
      /\ UNCHANGED <<priority, allocated>>
  BY DEF set_pcb_priority_end
<1>2. /\ setting \in Pcb /\ queue \in Queues /\ state \in [Pcb -> States]
      /\ priority \in [Pcb -> Priorities]
  BY <1>1 DEF KInv, KernelTypeOK, TypeOK, Queues
<1>3. /\ \A x : Queued(queue', x) <=> Queued(queue, x) \/ x = setting
      /\ QueuesSorted(queue, priority) => QueuesSorted(queue', priority)
  BY <1>1, <1>2, InsertKeeps, InsertSorted
<1> QED BY <1>1, <1>3 DEF CommandOrderly, KnownPcbs

LEMMA CommandsOrder ==
  ASSUME KInv, KnownPcbs, table_command
  PROVE  CommandOrderly
<1>1. ASSUME NEW n \in Names
      PROVE  LET p == pcb_find(queue, name, n)
             IN  p = NULL \/ (p \in Pcb /\ Queued(queue, p))
  <2>1. queue \in [States -> Seq(Pcb)]
    BY DEF KInv, KernelTypeOK, TypeOK
  <2> QED BY <2>1, PcbFindIs, QueuedIs
<1>2. ASSUME NEW cmd, Refuse(cmd) PROVE CommandOrderly
  BY <1>2 DEF Refuse, table, CommandOrderly, KnownPcbs
<1>3. {READY_NOT_SUSPENDED, READY_SUSPENDED, BLOCKED_NOT_SUSPENDED, BLOCKED_SUSPENDED}
         \subseteq States
  BY DEF States, ReadyStates, BlockedStates
<1>4. CASE \E n \in Names : create_pcb(n, USER, USER_PRIORITY)
  BY <1>4, CreateOrder
<1>5. ASSUME NEW n \in Names, delete_pcb(n) PROVE CommandOrderly
  BY <1>1, <1>2, <1>5, DropOrder DEF delete_pcb
<1>6. ASSUME NEW n \in Names, suspend_pcb(n) PROVE CommandOrderly
  BY <1>1, <1>2, <1>3, <1>6, DropOrder, MoveOrder DEF suspend_pcb
<1>7. ASSUME NEW n \in Names, resume_pcb(n) PROVE CommandOrderly
  BY <1>1, <1>2, <1>3, <1>7, DropOrder, MoveOrder DEF resume_pcb
<1>8. CASE \E n \in Names, pri \in Priorities :
              "priority" \in Commands /\ set_pcb_priority(n, pri)
  BY <1>8, PriorityOrder
<1>9. CASE set_pcb_priority_end
  BY <1>9, PriorityEndOrder
<1>10. ASSUME NEW i \in 1 .. Len(ready), Drop(ready[i]) PROVE CommandOrderly
  <2>1. ready \in Seq(Pcb)
    BY DEF KInv, KernelTypeOK, TypeOK, ready, States, ReadyStates
  <2> QED BY <1>10, <2>1, DropOrder
<1> QED BY <1>4, <1>5, <1>6, <1>7, <1>8, <1>9, <1>10 DEF table_command

LEMMA SortInvInit ==
  ASSUME KernelInit
  PROVE  SortInv
<1>1. KInv
  BY KernelInitKeeps
<1>2. /\ queue = [EmptyQueues EXCEPT ![READY_NOT_SUSPENDED] =
                     enqueue_pri(<<comhand>>, priority, sys_idle)]
      /\ priority \in [Pcb -> Nat] /\ allocated = {comhand, sys_idle}
      /\ current = NULL /\ setting = NULL /\ dcb.pcb_ptr = NULL
  BY <1>1, PriorityAssumption DEF KInv, KernelTypeOK, TypeOK, Priorities, KernelInit
<1> DEFINE q == enqueue_pri(<<comhand>>, priority, sys_idle)
<1>3. <<comhand>> \in Seq(Pcb) /\ \A x : In(<<comhand>>, x) => x = comhand
  BY LoadedAssumption DEF In
<1>4. Sorted(<<comhand>>, priority)
  BY DEF Sorted
<1>5. /\ \A x : In(q, x) => x = comhand \/ x = sys_idle
      /\ Sorted(q, priority)
  BY <1>2, <1>3, <1>4, EnqueuePriIs, LoadedAssumption
<1> HIDE DEF q
<1>6. \A s \in States : queue[s] = IF s = READY_NOT_SUSPENDED THEN q ELSE <<>>
  BY <1>2 DEF EmptyQueues, q
<1>7. ASSUME NEW s \in States, NEW x, In(queue[s], x) PROVE x \in allocated
  <2>1. CASE s = READY_NOT_SUSPENDED
    BY <1>2, <1>5, <1>6, <1>7, <2>1
  <2>2. CASE s # READY_NOT_SUSPENDED
    BY <1>6, <1>7, <2>2 DEF In
  <2> QED BY <2>1, <2>2
<1>8. QueuesSorted(queue, priority)
  BY <1>5, <1>6 DEF QueuesSorted, Sorted, States
<1> QED BY <1>1, <1>2, <1>7, <1>8, QueuedIs DEF SortInv, KnownPcbs

LEMMA SortInvStep ==
  ASSUME SortInv, [KernelNext]_kvars
  PROVE  SortInv'
<1>1. KInv' /\ KInv /\ KnownPcbs
  BY KernelStepKeeps DEF SortInv
<1>2. CASE sys_call(any_call)
  <2>1. CallOrderly /\ UNCHANGED <<priority, class, name, allocated, setting, reply>>
    BY <1>1, <1>2, CallsOrder
  <2>2. KnownPcbs'
    BY <1>1, <2>1, PcbAssumption DEF CallOrderly, KnownPcbs
  <2> QED BY <1>1, <2>1, <2>2 DEF SortInv, CallOrderly
<1>3. CASE serial_output_interrupt \/ serial_input_interrupt \/ comhand_reset
  BY <1>1, <1>3, DeviceAlone DEF SortInv, KnownPcbs, vars
<1>4. CASE pcb_command
  <2>1. CommandOrderly /\ UNCHANGED <<current, dcb>>
    BY <1>1, <1>4, CommandsOrder DEF pcb_command, Effect
  <2>2. KnownPcbs'
    BY <1>1, <2>1 DEF CommandOrderly, KnownPcbs
  <2> QED BY <1>1, <2>1, <2>2 DEF SortInv, CommandOrderly
<1>5. CASE UNCHANGED kvars
  BY <1>1, <1>5 DEF SortInv, KnownPcbs, kvars, vars, kernel
<1> QED BY <1>2, <1>3, <1>4, <1>5 DEF KernelNext

\* SortInv holds in every state of the kernel.
THEOREM SortInvariance == KernelSpec => []SortInv
<1>1. KernelInit => SortInv
  BY SortInvInit
<1>2. SortInv /\ [KernelNext]_kvars => SortInv'
  BY SortInvStep
<1> QED BY <1>1, <1>2, PTL DEF KernelSpec
\* The queues, the CPU, set_pcb_priority and the device never hold a PCB that
\* no create_pcb or kmain has allocated, whatever commands are typed.
THEOREM PointersAreKnown == KernelSpec => []KnownPcbs
<1>1. SortInv => KnownPcbs
  BY DEF SortInv
<1> QED BY <1>1, SortInvariance, PTL

\* While no priority is changed, the ready queues stay in the order of priority
\* under every system call, interrupt and command, although a process may be
\* queued twice.
THEOREM KernelReadyInOrder ==
  ASSUME "priority" \notin Commands
  PROVE  KernelSpec => []ReadyQueuesSorted
<1>1. SortInv => ReadyQueuesSorted
  BY DEF SortInv, QueuesSorted, Sorted, ReadyQueuesSorted
<1> QED BY <1>1, SortInvariance, PTL

\* A step that changes the process that runs picks the most urgent one.
LEMMA StepMostUrgent ==
  ASSUME SortInv, [KernelNext]_kvars, "priority" \notin Commands, current' # current,
         NEW i \in 1 .. Len(ready'), ready'[i] # current
  PROVE  priority[current'] <= priority[ready'[i]]
<1>1. KInv /\ KnownPcbs
  BY DEF SortInv
<1>2. CASE sys_call(any_call)
  <2>1. Urgent(queue')
    BY <1>1, <1>2, CallsOrder DEF SortInv, CallOrderly
  <2>2. In(queue'[READY_NOT_SUSPENDED], ready'[i])
    BY DEF In, ready
  <2> QED BY <2>1, <2>2 DEF Urgent
<1>3. CASE serial_output_interrupt \/ serial_input_interrupt \/ comhand_reset
  BY <1>1, <1>3, DeviceAlone
<1>4. CASE pcb_command \/ UNCHANGED kvars
  BY <1>4 DEF pcb_command, Effect, kvars, kernel
<1> QED BY <1>2, <1>3, <1>4 DEF KernelNext

\* While no priority is changed, whoever is dispatched is at least as urgent as
\* every process left in the ready queue, the caller aside.
THEOREM MostUrgentRuns ==
  ASSUME "priority" \notin Commands
  PROVE  KernelSpec => MostUrgentFirst
<1>1. SortInv /\ [KernelNext]_kvars =>
         [current' # current =>
            \A i \in 1 .. Len(ready') : ready'[i] # current =>
                priority[current'] <= priority[ready'[i]]]_kvars
  BY StepMostUrgent
<1> QED BY <1>1, SortInvariance, PTL DEF KernelSpec, MostUrgentFirst
-----------------------------------------------------------------------------
(***************************************************************************)
(* Whom the device wakes.                                                  *)
(***************************************************************************)

\* The commands that take a node of a blocked process away.
Takers == {"delete", "suspend", "resume", "shutdown"}

Operating == dcb.cur_op # "IDLE" => dcb.event_flag = 0 /\ dcb.iocbs /\ dcb.pcb_ptr # NULL

\* p is blocked, and queued as such, or has the CPU, or is gone.
Awaits(p) ==
    /\ state[p] \in BlockedStates
    /\ In(queue[state[p]], p) \/ p = current \/ p \in gone

WaitInv == SortInv /\ Operating /\ (dcb.cur_op # "IDLE" => Awaits(dcb.pcb_ptr))

LEMMA WaitInvIs ==
  ASSUME SortInv
  PROVE  WaitInv <=> DeviceHasWaiter
BY DEF WaitInv, Operating, Awaits, DeviceHasWaiter, In

\* While the device works no event is due, and a yield leaves p waiting.
LEMMA IdleWaits ==
  ASSUME KInv, Operating, idle_call, dcb.cur_op # "IDLE", NEW p \in Pcb, Awaits(p),
         UNCHANGED <<priority, class, name, allocated, setting, reply>>
  PROVE  Awaits(p)' /\ dcb' = dcb
<1>1. ~EventDue
  BY DEF Operating, EventDue
<1>2. EventState = state /\ EventQueue = queue /\ EventDcb = dcb
  BY <1>1 DEF EventState, EventQueue, EventDcb
<1>3. /\ queue \in Queues /\ state \in [Pcb -> States] /\ state[p] \in States
      /\ priority \in [Pcb -> Priorities] /\ current \in Pcb \cup {NULL}
  BY DEF KInv, KernelTypeOK, TypeOK, Queues
<1> DEFINE next == Head(queue[READY_NOT_SUSPENDED])
           rest == pcb_remove(queue, state, next)
<1>4. /\ state' = state /\ dcb' = dcb /\ gone' = gone
      /\ \/ queue' = queue /\ UNCHANGED current
         \/ /\ queue[READY_NOT_SUSPENDED] # <<>>
            /\ current' = next
            /\ queue' = IF current = NULL THEN rest
                        ELSE pcb_insert(rest, state, priority, current)
  BY <1>2 DEF idle_call
<1>5. CASE queue' = queue /\ UNCHANGED current
  BY <1>4, <1>5 DEF Awaits
<1>6. CASE /\ queue[READY_NOT_SUSPENDED] # <<>>
           /\ current' = next
           /\ queue' = IF current = NULL THEN rest
                       ELSE pcb_insert(rest, state, priority, current)
  <2>1. next \in Pcb
    BY <1>3, <1>6, FrontIs
  <2> HIDE DEF next
  <2>2. rest \in Queues /\ (In(queue[state[p]], p) /\ p # next => In(rest[state[p]], p))
    BY <1>3, <2>1, RemoveKeeps, RemoveHolds
  <2> HIDE DEF rest
  <2>3. CASE p = current
    <3>1. queue' = pcb_insert(rest, state, priority, p)
      BY <1>6, <2>3, PcbAssumption
    <3>2. In(queue'[state[p]], p)
      BY <1>3, <2>2, <3>1, InsertHolds
    <3> QED BY <1>4, <3>2 DEF Awaits
  <2>4. CASE p # current /\ p # next /\ In(queue[state[p]], p)
    <3>1. In(rest[state[p]], p)
      BY <2>2, <2>4
    <3>2. CASE current = NULL
      BY <1>4, <1>6, <3>1, <3>2 DEF Awaits
    <3>3. CASE current \in Pcb
      <4>1. queue' = pcb_insert(rest, state, priority, current)
        BY <1>6, <3>3, PcbAssumption
      <4>2. In(queue'[state[p]], p)
        BY <1>3, <2>2, <3>1, <3>3, <4>1, InsertHolds
      <4> QED BY <1>4, <4>2 DEF Awaits
    <3> QED BY <1>3, <3>2, <3>3
  <2>5. CASE p = next \/ p \in gone
    BY <1>4, <1>6, <2>5 DEF Awaits
  <2> QED BY <2>3, <2>4, <2>5 DEF Awaits
<1> QED BY <1>4, <1>5, <1>6

\* Nor does the dispatch of another process take p away.
LEMMA DispatchWaits ==
  ASSUME NEW qs \in Queues, NEW st \in [Pcb -> States], NEW p \in Pcb,
         qs[READY_NOT_SUSPENDED] # <<>>, Dispatch(qs, st), In(qs[st[p]], p)
  PROVE  In(queue'[st[p]], p) \/ p = current'
<1> DEFINE next == Head(qs[READY_NOT_SUSPENDED])
<1>1. next \in Pcb
  BY FrontIs
<1>2. current' = next /\ queue' = pcb_remove(qs, st, next)
  BY DEF Dispatch
<1> HIDE DEF next
<1>3. st[p] \in States
  OBVIOUS
<1> QED BY <1>1, <1>2, <1>3, RemoveHolds

LEMMA ExitWaits ==
  ASSUME KInv, exit_call, NEW p \in Pcb, Awaits(p)
  PROVE  Awaits(p)' /\ dcb' = dcb
<1>1. queue \in Queues /\ state \in [Pcb -> States]
  BY DEF KInv, KernelTypeOK, TypeOK, Queues
<1>2. gone' = gone \cup {current} /\ UNCHANGED <<state, dcb>>
  BY DEF exit_call
<1>3. CASE UNCHANGED <<queue, current>>
  BY <1>2, <1>3 DEF Awaits
<1>4. CASE ready # <<>> /\ Dispatch(queue, state)
  <2>1. In(queue[state[p]], p) => In(queue'[state[p]], p) \/ p = current'
    BY <1>1, <1>4, DispatchWaits DEF ready
  <2> QED BY <1>2, <2>1 DEF Awaits
<1> QED BY <1>3, <1>4 DEF exit_call

\* The caller waits in the blocked queue before the device is started for it.
LEMMA IoWaits ==
  ASSUME KInv, Operating, dcb.cur_op # "IDLE" => Awaits(dcb.pcb_ptr),
         NEW op \in {"READ", "WRITE"}, NEW len \in 0 .. MaxLength, io_call(op, len),
         UNCHANGED <<priority, class, name, allocated, setting, reply>>
  PROVE  Operating' /\ (dcb.cur_op # "IDLE" => Awaits(dcb.pcb_ptr))'
<1> DEFINE qs == pcb_insert(EventQueue, state', priority, current)
           d == [EventDcb EXCEPT !.rw_buf = current, !.rw_buf_length = len,
                                 !.pcb_ptr = current, !.iocbs = TRUE]
           free == [d EXCEPT !.allocation_status = 1]
<1>1. current \in Pcb /\ priority \in [Pcb -> Priorities] /\ dcb \in DCB /\ UNCHANGED gone
  BY DEF KInv, KernelTypeOK, TypeOK, io_call
<1>2. /\ EventState \in [Pcb -> States] /\ EventQueue \in Queues /\ EventDcb \in DCB
      /\ EventDcb.iocbs = dcb.iocbs /\ EventDcb.pcb_ptr = dcb.pcb_ptr
  BY EventKeeps
<1>3. state' \in [Pcb -> States] /\ state' = [EventState EXCEPT ![current] = BLOCKED_NOT_SUSPENDED]
  BY <1>1, <1>2 DEF io_call, States, BlockedStates
<1>4. state'[current] \in BlockedStates
  BY <1>1, <1>2, <1>3 DEF BlockedStates
<1>5. /\ qs \in Queues /\ In(qs[state'[current]], current)
      /\ \A s \in States : \A x : In(EventQueue[s], x) => In(qs[s], x)
  <2>1. qs \in Queues
    BY <1>1, <1>2, <1>3, InsertKeeps
  <2>2. In(qs[state'[current]], current)
    BY <1>1, <1>2, <1>3, InsertHolds
  <2>3. \A s \in States : \A x : In(EventQueue[s], x) => In(qs[s], x)
    BY <1>1, <1>2, <1>3, InsertHolds
  <2> QED BY <2>1, <2>2, <2>3
<1>6. EventDcb.cur_op = dcb.cur_op /\ (dcb.cur_op # "IDLE" => EventDcb = dcb)
  BY <1>1 DEF EventDcb, EventDue, Operating, DCB
<1>7. /\ d.cur_op = dcb.cur_op /\ d.iocbs = TRUE /\ d.pcb_ptr = current
      /\ dcb.cur_op # "IDLE" => d.event_flag = 0
  BY <1>1, <1>2, <1>6 DEF DCB, Operating
<1>8. /\ free.cur_op = dcb.cur_op /\ free.iocbs = TRUE /\ free.pcb_ptr = current
      /\ dcb.cur_op # "IDLE" => free.event_flag = 0
      /\ free \in DCB
  BY <1>1, <1>2, <1>6, <1>7 DEF DCB
<1>9. \/ dcb' = EventDcb /\ queue' = qs /\ UNCHANGED current
      \/ dcb' = d /\ queue' = qs /\ UNCHANGED current
      \/ /\ IF qs[READY_NOT_SUSPENDED] = <<>>
            THEN queue' = qs /\ UNCHANGED current
            ELSE Dispatch(qs, state')
         /\ dcb' \in IF op = "READ" THEN serial_read(free) ELSE {serial_write(free)}
  BY DEF io_call, io_scheduler
<1> HIDE DEF qs
\* The request is refused: whoever the device works for is not disturbed.
<1>10. CASE dcb' = EventDcb /\ queue' = qs /\ UNCHANGED current
  <2>1. CASE dcb.cur_op = "IDLE"
    BY <1>6, <1>10, <2>1 DEF Operating
  <2>2. CASE dcb.cur_op # "IDLE"
    <3>1. PICK p \in Pcb : p = dcb.pcb_ptr
      BY <1>1, <2>2 DEF Operating, DCB
    <3>2. EventState = state /\ EventQueue = queue
      BY <2>2 DEF Operating, EventState, EventQueue, EventDue
    <3>3. dcb' = dcb /\ Awaits(p)
      BY <1>6, <1>10, <2>2, <3>1
    <3>4. CASE p = current
      <4>1. state'[p] \in BlockedStates /\ In(queue'[state'[p]], p)
        BY <1>4, <1>5, <1>10, <3>4
      <4> QED BY <3>1, <3>3, <4>1 DEF Awaits, Operating
    <3>5. CASE p # current
      <4>1. state'[p] = state[p] /\ state[p] \in States
        BY <1>2, <1>3, <3>1, <3>2, <3>5
      <4>2. In(queue[state[p]], p) => In(queue'[state'[p]], p)
        BY <1>5, <1>10, <3>2, <4>1
      <4>3. state'[p] \in BlockedStates
        BY <3>3, <4>1 DEF Awaits
      <4>4. In(queue'[state'[p]], p) \/ p \in gone'
        BY <1>1, <3>3, <3>5, <4>2 DEF Awaits
      <4> QED BY <3>1, <3>3, <4>3, <4>4 DEF Awaits, Operating
    <3> QED BY <3>4, <3>5
  <2> QED BY <2>1, <2>2
<1>11. CASE dcb' = d /\ queue' = qs /\ UNCHANGED current
  <2> HIDE DEF d
  <2>1. Operating'
    BY <1>1, <1>7, <1>11, PcbAssumption DEF Operating
  <2>2. dcb'.pcb_ptr = current /\ In(queue'[state'[current]], current)
    BY <1>5, <1>7, <1>11
  <2> QED BY <1>4, <2>1, <2>2 DEF Awaits
<1>12. CASE /\ IF qs[READY_NOT_SUSPENDED] = <<>>
               THEN queue' = qs /\ UNCHANGED current
               ELSE Dispatch(qs, state')
            /\ dcb' \in IF op = "READ" THEN serial_read(free) ELSE {serial_write(free)}
  <2> HIDE DEF free
  <2>1. /\ dcb'.pcb_ptr = current /\ dcb'.iocbs
        /\ dcb'.cur_op # "IDLE" => dcb'.event_flag = 0
    <3>1. CASE op = "READ"
      BY <1>8, <1>12, <3>1 DEF serial_read, DCB
    <3>2. CASE op # "READ"
      BY <1>8, <1>12, <3>2 DEF serial_write, DCB
    <3> QED BY <3>1, <3>2
  <2>2. In(queue'[state'[current]], current) \/ current = current'
    <3>1. CASE qs[READY_NOT_SUSPENDED] = <<>>
      BY <1>5, <1>12, <3>1
    <3>2. CASE qs[READY_NOT_SUSPENDED] # <<>>
      BY <1>1, <1>3, <1>5, <1>12, <3>2, DispatchWaits
    <3> QED BY <3>1, <3>2
  <2>3. Operating'
    BY <1>1, <2>1, PcbAssumption DEF Operating
  <2> QED BY <1>4, <2>1, <2>2, <2>3 DEF Awaits
<1> QED BY <1>9, <1>10, <1>11, <1>12
\* Only a PCB that is in no queue and unknown to the device is made ready, and
\* set_pcb_priority takes nobody out of a blocked queue.
LEMMA CreateWaits ==
  ASSUME KInv, NEW n \in Names, create_pcb(n, USER, USER_PRIORITY),
         NEW p \in allocated, Awaits(p), UNCHANGED current, gone \subseteq gone'
  PROVE  Awaits(p)'
<1>1. CASE Refuse("create")
  BY <1>1 DEF Refuse, table, Awaits
<1>2. CASE ~Refuse("create")
  <2>1. PICK x \in Pcb \ allocated :
          /\ priority'  = [priority EXCEPT ![x] = USER_PRIORITY]
          /\ state'     = [state EXCEPT ![x] = READY_NOT_SUSPENDED]
          /\ queue'     = pcb_insert(queue, state', priority', x)
    BY <1>2 DEF create_pcb
  <2>2. /\ queue \in Queues /\ state \in [Pcb -> States]
        /\ state' \in [Pcb -> States] /\ priority' \in [Pcb -> Priorities] /\ p \in Pcb
    BY <2>1, RangeAssumption DEF KInv, KernelTypeOK, TypeOK, Queues, States, ReadyStates
  <2>3. state'[p] = state[p] /\ state[p] \in States
    BY <2>1, <2>2
  <2>4. \A s \in States : \A y : In(queue[s], y) => In(queue'[s], y)
    BY <2>1, <2>2, InsertHolds
  <2> QED BY <2>3, <2>4 DEF Awaits
<1> QED BY <1>1, <1>2

LEMMA PriorityWaits ==
  ASSUME KInv, NEW n \in Names, NEW pri, set_pcb_priority(n, pri),
         NEW p \in Pcb, Awaits(p), UNCHANGED current, gone \subseteq gone'
  PROVE  Awaits(p)'
<1> DEFINE x == pcb_find(queue, name, n)
<1>1. x = NULL \/ x \in Pcb
  BY FoundIsPcb
<1>2. queue \in Queues /\ state \in [Pcb -> States] /\ state[p] \in States
  BY DEF KInv, KernelTypeOK, TypeOK, Queues
<1>3. CASE UNCHANGED <<queue, state>>
  BY <1>3 DEF Awaits
<1>4. CASE x # NULL /\ state[x] \notin BlockedStates /\ queue' = pcb_remove(queue, state, x)
           /\ UNCHANGED state
  <2> HIDE DEF x
  <2>1. x # p
    BY <1>4 DEF Awaits
  <2>2. In(queue[state[p]], p) => In(queue'[state[p]], p)
    BY <1>1, <1>2, <1>4, <2>1, RemoveHolds
  <2> QED BY <1>4, <2>2 DEF Awaits
<1> QED BY <1>3, <1>4 DEF set_pcb_priority, Refuse, table

LEMMA PriorityEndWaits ==
  ASSUME KInv, set_pcb_priority_end, NEW p \in Pcb, Awaits(p), UNCHANGED current, gone \subseteq gone'
  PROVE  Awaits(p)'
<1>1. /\ setting # NULL /\ queue' = pcb_insert(queue, state, priority, setting)
      /\ UNCHANGED state
  BY DEF set_pcb_priority_end
<1>2. /\ setting \in Pcb /\ queue \in Queues /\ state \in [Pcb -> States]
      /\ priority \in [Pcb -> Priorities] /\ state[p] \in States
  BY <1>1 DEF KInv, KernelTypeOK, TypeOK, Queues
<1>3. In(queue[state[p]], p) => In(queue'[state[p]], p)
  BY <1>1, <1>2, InsertHolds
<1> QED BY <1>1, <1>3 DEF Awaits

LEMMA CommandWaits ==
  ASSUME KInv, KnownPcbs, pcb_command, Takers \cap Commands = {},
         NEW p \in Pcb, p = dcb.pcb_ptr, Awaits(p)
  PROVE  Awaits(p)'
<1>1. table_command /\ gone \subseteq gone' /\ UNCHANGED current
  BY DEF pcb_command, Effect
<1>2. p \in allocated
  BY PcbAssumption DEF KnownPcbs
<1>3. CASE \E n \in Names : create_pcb(n, USER, USER_PRIORITY)
  BY <1>1, <1>2, <1>3, CreateWaits
<1>4. CASE \E n \in Names, pri \in Priorities : set_pcb_priority(n, pri)
  BY <1>1, <1>4, PriorityWaits
<1>5. CASE set_pcb_priority_end
  BY <1>1, <1>5, PriorityEndWaits
<1> QED BY <1>1, <1>3, <1>4, <1>5 DEF table_command, Takers

LEMMA WaitInvStep ==
  ASSUME WaitInv, [KernelNext]_kvars, Takers \cap Commands = {}
  PROVE  WaitInv'
<1>1. SortInv' /\ SortInv /\ KInv /\ KnownPcbs
  BY SortInvStep DEF WaitInv, SortInv
<1>2. dcb \in DCB
  BY <1>1 DEF KInv, KernelTypeOK
\* While nothing is started, the process that waits is the one that waited.
<1>3. ASSUME dcb'.pcb_ptr = dcb.pcb_ptr, dcb'.iocbs = dcb.iocbs,
             dcb'.cur_op # "IDLE" => dcb.cur_op # "IDLE" /\ dcb'.event_flag = dcb.event_flag,
             \A p \in Pcb : dcb.cur_op # "IDLE" /\ p = dcb.pcb_ptr /\ Awaits(p) => Awaits(p)'
      PROVE  WaitInv'
  <2>1. Operating'
    BY <1>3 DEF WaitInv, Operating
  <2>2. CASE dcb'.cur_op = "IDLE"
    BY <1>1, <2>1, <2>2 DEF WaitInv
  <2>3. CASE dcb'.cur_op # "IDLE"
    <3>1. PICK p \in Pcb : p = dcb.pcb_ptr
      BY <1>2, <1>3, <2>3 DEF WaitInv, Operating, DCB
    <3>2. Awaits(p)
      BY <1>3, <2>3, <3>1 DEF WaitInv
    <3>3. Awaits(p)'
      BY <1>3, <2>3, <3>1, <3>2
    <3>4. Awaits(dcb.pcb_ptr)'
      BY <1>3, <3>1, <3>3 DEF Awaits
    <3> QED BY <1>1, <2>1, <3>4 DEF WaitInv
  <2> QED BY <2>2, <2>3
<1>4. CASE sys_call(any_call)
  <2>1. UNCHANGED <<priority, class, name, allocated, setting, reply>> /\ any_call
    BY <1>4 DEF sys_call
  <2>2. CASE idle_call
    <3>1. dcb' = EventDcb
      BY <2>2 DEF idle_call
    <3>2. dcb'.pcb_ptr = dcb.pcb_ptr /\ dcb'.iocbs = dcb.iocbs /\ dcb'.cur_op = dcb.cur_op
      BY <1>2, <3>1 DEF EventDcb, DCB
    <3>3. dcb.cur_op # "IDLE" => dcb'.event_flag = dcb.event_flag
      BY <3>1 DEF EventDcb, EventDue, WaitInv, Operating
    <3>4. \A p \in Pcb : dcb.cur_op # "IDLE" /\ Awaits(p) => Awaits(p)'
      BY <1>1, <2>1, <2>2, IdleWaits DEF WaitInv
    <3> QED BY <1>3, <3>2, <3>3, <3>4
  <2>3. CASE exit_call
    <3>1. dcb' = dcb
      BY <2>3 DEF exit_call
    <3> QED BY <1>1, <1>3, <2>3, <3>1, ExitWaits
  <2>4. CASE \E op \in {"READ", "WRITE"}, len \in 0 .. MaxLength : io_call(op, len)
    BY <1>1, <2>1, <2>4, IoWaits DEF WaitInv
  <2> QED BY <2>1, <2>2, <2>3, <2>4 DEF any_call
<1>5. CASE serial_output_interrupt \/ serial_input_interrupt \/ comhand_reset
  BY <1>1, <1>3, <1>5, DeviceAlone DEF Awaits, vars
<1>6. CASE pcb_command
  <2>1. dcb' = dcb
    BY <1>6 DEF pcb_command, Effect
  <2> QED BY <1>1, <1>3, <1>6, <2>1, CommandWaits
<1>7. CASE UNCHANGED kvars
  BY <1>3, <1>7 DEF Awaits, kvars, vars, kernel
<1> QED BY <1>4, <1>5, <1>6, <1>7 DEF KernelNext

\* While no command takes a process out of the queues, the process the device
\* will wake is blocked and waits where the event looks for it, or runs on, or
\* has exited: whatever calls are made and whenever the interrupts come.
THEOREM DeviceWaiterIsBlocked ==
  ASSUME Takers \cap Commands = {}
  PROVE  KernelSpec => []DeviceHasWaiter
<1>1. KernelInit => WaitInv
  <2>1. KernelInit => dcb.cur_op = "IDLE"
    BY DEF KernelInit
  <2> QED BY <2>1, SortInvInit DEF WaitInv, Operating
<1>2. WaitInv /\ [KernelNext]_kvars => WaitInv'
  BY WaitInvStep
<1>3. WaitInv => DeviceHasWaiter
  BY WaitInvIs DEF WaitInv
<1> QED BY <1>1, <1>2, <1>3, PTL DEF KernelSpec
=============================================================================
