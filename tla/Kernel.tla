------------------------------- MODULE Kernel -------------------------------
(***************************************************************************)
(* System calls, dispatching and the serial device: sys_call of            *)
(* kernel/context_switch.c, kernel/io_scheduler.c and the interrupt        *)
(* handlers of kernel/interrupt_control.c, over the process queues.        *)
(*                                                                         *)
(* The programs are left open: whatever process has the CPU makes any      *)
(* system call, and comhand also runs PCB commands and resets the device.  *)
(* A system call runs behind an interrupt gate and is one step; the serial *)
(* interrupts come between any two steps.                                  *)
(***************************************************************************)
EXTENDS ProcessTable

CONSTANTS
    comhand,            \* the processes kmain loads
    sys_idle,
    comhand_name,
    sys_idle_name,
    USER_PRIORITY,      \* of the processes load_r3 and alarm create
    MaxLength,          \* bound: characters of one request
    MaxIndex,           \* bound: how far keys move the driver's place
    MaxNodes            \* bound: nodes in one queue when a call is made

ASSUME LoadedAssumption ==
    /\ comhand \in Pcb /\ sys_idle \in Pcb /\ comhand # sys_idle
    /\ comhand_name \in Names /\ sys_idle_name \in Names
    /\ comhand_name # sys_idle_name
ASSUME RangeAssumption ==
    /\ MAX_PRIORITY >= 1
    /\ USER_PRIORITY \in Priorities
    /\ MaxLength \in Nat \ {0}
    /\ MaxIndex \in Nat /\ MaxIndex >= MaxLength

VARIABLES
    current,    \* global_current_process, NULL until kmain yields
    dcb,        \* dcb_array[0], the device control block of COM1
    halted,     \* kmain has got the CPU back, or a fault has stopped the machine
    gone,       \* history: the processes that exited, were deleted or dropped
    requester   \* history: for whom the driver was last started

kernel == <<current, dcb, halted, gone, requester>>
kvars  == <<vars, kernel>>

Ops == {"IDLE", "READ", "WRITE"}

\* rw_buf is the process whose text is in the buffer, rw_index is followed
\* while the driver writes, iocbs says whether the IOCB queue has a node.
DCB == [allocation_status : {0, 1}, cur_op : Ops, event_flag : {0, 1},
        pcb_ptr : Pcb \cup {NULL}, iocbs : BOOLEAN, rw_buf : Pcb \cup {NULL},
        rw_buf_length : 0 .. MaxLength, rw_index : 0 .. MaxIndex]

KernelTypeOK ==
    /\ TypeOK
    /\ current \in Pcb \cup {NULL}
    /\ dcb \in DCB
    /\ halted \in BOOLEAN
    /\ gone \in SUBSET Pcb
    /\ requester \in Pcb \cup {NULL}

ready   == queue[READY_NOT_SUSPENDED]
blocked == queue[BLOCKED_NOT_SUSPENDED]

\* What kmain has set up when it yields.  serial_open leaves
\* allocation_status as it finds it in the heap.
KernelInit ==
    /\ state = [p \in Pcb |-> READY_NOT_SUSPENDED]
    /\ priority = [p \in Pcb |-> IF p = comhand THEN 1
                                 ELSE IF p = sys_idle THEN MAX_PRIORITY ELSE 0]
    /\ queue = [EmptyQueues EXCEPT ![READY_NOT_SUSPENDED] =
                   enqueue_pri(<<comhand>>, priority, sys_idle)]
    /\ class = [p \in Pcb |-> IF p \in {comhand, sys_idle} THEN SYSTEM ELSE USER]
    /\ name = [p \in Pcb |-> IF p = comhand THEN comhand_name ELSE sys_idle_name]
    /\ allocated = {comhand, sys_idle}
    /\ setting = NULL
    /\ reply = [cmd |-> "create", done |-> TRUE]
    /\ current = NULL
    /\ \E busy \in {0, 1} :
         dcb = [allocation_status |-> busy, cur_op |-> "IDLE", event_flag |-> 0,
                pcb_ptr |-> NULL, iocbs |-> FALSE, rw_buf |-> NULL,
                rw_buf_length |-> 0, rw_index |-> 0]
    /\ halted = FALSE
    /\ gone = {}
    /\ requester = NULL

-----------------------------------------------------------------------------
(***************************************************************************)
(* sys_call first looks at the event flag, unless the call is EXIT.        *)
(***************************************************************************)
EventDue == dcb.event_flag = 1 /\ dcb.iocbs

EventState ==
    IF EventDue THEN [state EXCEPT ![dcb.pcb_ptr] = READY_NOT_SUSPENDED] ELSE state

\* Faulty variant: the process that is woken stays in the blocked queue.
EventQueueKeepsBlocked ==
    IF EventDue THEN pcb_insert(queue, EventState, priority, dcb.pcb_ptr) ELSE queue

EventQueue ==
    IF EventDue
    THEN pcb_insert(pcb_remove(queue, state, dcb.pcb_ptr), EventState, priority, dcb.pcb_ptr)
    ELSE queue

EventDcb == IF EventDue THEN [dcb EXCEPT !.event_flag = 0] ELSE dcb

\* Faulty variant: the rear gets the CPU.
DispatchRear(qs, st) ==
    LET next == Last(qs[READY_NOT_SUSPENDED])
    IN  current' = next /\ queue' = pcb_remove(qs, st, next)

\* The front of the ready queue is taken out and gets the CPU.
Dispatch(qs, st) ==
    LET next == Head(qs[READY_NOT_SUSPENDED])
    IN  current' = next /\ queue' = pcb_remove(qs, st, next)

\* Faulty variant: the process that yields is not queued again.
idle_call_loses_caller ==
    LET qs   == EventQueue
        next == Head(qs[READY_NOT_SUSPENDED])
    IN  /\ qs[READY_NOT_SUSPENDED] # <<>>
        /\ state' = EventState
        /\ dcb' = EventDcb
        /\ current' = next
        /\ queue' = pcb_remove(qs, EventState, next)
        /\ UNCHANGED <<halted, gone, requester>>

\* The process that yields goes back behind its equals.
idle_call ==
    LET qs   == EventQueue
        next == Head(qs[READY_NOT_SUSPENDED])
        rest == pcb_remove(qs, EventState, next)
    IN  /\ state' = EventState
        /\ dcb' = EventDcb
        /\ \/ /\ qs[READY_NOT_SUSPENDED] = <<>>
              /\ queue' = qs
              /\ UNCHANGED current
           \/ /\ qs[READY_NOT_SUSPENDED] # <<>>
              /\ current' = next
              /\ queue' = IF current = NULL THEN rest
                          ELSE pcb_insert(rest, EventState, priority, current)
        /\ UNCHANGED <<halted, gone, requester>>

\* With no process ready, the CPU goes back to kmain, which halts.
exit_call ==
    /\ current # NULL
    /\ gone' = gone \cup {current}
    /\ \/ ready = <<>> /\ halted' = TRUE /\ UNCHANGED <<queue, current>>
       \/ ready # <<>> /\ Dispatch(queue, state) /\ UNCHANGED halted
    /\ UNCHANGED <<state, dcb, requester>>

-----------------------------------------------------------------------------
(***************************************************************************)
(* READ and WRITE.                                                         *)
(***************************************************************************)

\* A port that is still busy is left alone.  The characters typed ahead may
\* be enough to complete the read at once.  The zero stands for whatever index
\* the read begins with: only a write is sent by it, and sets it first.
serial_read(d) ==
    IF d.cur_op # "IDLE" THEN {d}
    ELSE LET r == [d EXCEPT !.event_flag = 0, !.rw_buf_length = 0, !.rw_index = 0]
         IN  {[r EXCEPT !.cur_op = "READ"],
              [r EXCEPT !.event_flag = 1, !.allocation_status = 0]}

\* The first character is sent at once.
serial_write(d) == [d EXCEPT !.cur_op = "WRITE", !.event_flag = 0, !.rw_index = 1]

\* qs are the queues with the caller already in the blocked one.  The buffer
\* and pcb_ptr are the caller's before the device is known to be free.
io_scheduler(op, len, qs) ==
    LET d == [EventDcb EXCEPT !.rw_buf = current, !.rw_buf_length = len,
                              !.pcb_ptr = current, !.iocbs = TRUE]
        free == [d EXCEPT !.allocation_status = 1]
    IN  \/ /\ len = 0                                   \* fails validation
           /\ dcb' = EventDcb
           /\ queue' = qs
           /\ UNCHANGED <<current, requester>>
        \/ /\ len > 0 /\ d.allocation_status = 1        \* busy
           /\ dcb' = d
           /\ queue' = qs
           /\ UNCHANGED <<current, requester>>
        \/ /\ len > 0 /\ d.allocation_status = 0
           /\ IF qs[READY_NOT_SUSPENDED] = <<>>
              THEN queue' = qs /\ UNCHANGED current
              ELSE Dispatch(qs, state')
           /\ dcb' \in IF op = "READ" THEN serial_read(free) ELSE {serial_write(free)}
           /\ requester' = IF op = "READ" /\ free.cur_op # "IDLE"
                           THEN requester ELSE current

io_call(op, len) ==
    /\ current # NULL
    /\ state' = [EventState EXCEPT ![current] = BLOCKED_NOT_SUSPENDED]
    /\ io_scheduler(op, len, pcb_insert(EventQueue, state', priority, current))
    /\ UNCHANGED <<halted, gone>>

sys_call(call) ==
    /\ ~halted
    /\ \A s \in States : Len(queue[s]) < MaxNodes
    /\ call
    /\ UNCHANGED <<priority, class, name, allocated, setting, reply>>

\* kmain and sys_idle only yield; the other processes make any call.
any_call ==
    \/ idle_call
    \/ current # sys_idle /\ exit_call
    \/ /\ current # sys_idle
       /\ \E op \in {"READ", "WRITE"}, len \in 0 .. MaxLength : io_call(op, len)

-----------------------------------------------------------------------------
(***************************************************************************)
(* Interrupts of the serial port.                                          *)
(***************************************************************************)
Device(d) == dcb' = d /\ UNCHANGED <<vars, current, halted, gone, requester>>

\* Faulty variants: the count is not looked at, or the end is not reported.
output_without_count ==
    /\ ~halted
    /\ dcb.cur_op = "WRITE"
    /\ dcb.rw_index <= MaxIndex
    /\ Device([dcb EXCEPT !.rw_index = @ + 1])

output_without_event ==
    /\ ~halted
    /\ dcb.cur_op = "WRITE"
    /\ IF dcb.rw_index < dcb.rw_buf_length
       THEN Device([dcb EXCEPT !.rw_index = @ + 1])
       ELSE Device([dcb EXCEPT !.cur_op = "IDLE", !.allocation_status = 0,
                               !.rw_buf = NULL, !.rw_index = 0])

\* The transmitter is empty: another character, or the end of the request.
serial_output_interrupt ==
    /\ ~halted
    /\ dcb.cur_op = "WRITE"
    /\ IF dcb.rw_index < dcb.rw_buf_length
       THEN Device([dcb EXCEPT !.rw_index = @ + 1])
       ELSE Device([dcb EXCEPT !.cur_op = "IDLE", !.event_flag = 1,
                               !.allocation_status = 0, !.rw_buf = NULL, !.rw_index = 0])

\* Faulty variants: Enter raises no event, or lets the operation go on.
enter_without_event == ~halted /\ Device([dcb EXCEPT !.cur_op = "IDLE"])

enter_keeps_operation ==
    /\ ~halted
    /\ dcb' = [dcb EXCEPT !.event_flag = 1]
    /\ halted' = ~dcb.iocbs
    /\ UNCHANGED <<vars, current, gone, requester>>

\* Enter raises the event, and then clears the front of the IOCB queue.  Before
\* the first request there is none: the NULL pointer is a fault, and the
\* machine stops.
input_enter ==
    /\ ~halted
    /\ dcb' = [dcb EXCEPT !.event_flag = 1, !.cur_op = "IDLE"]
    /\ halted' = ~dcb.iocbs
    /\ UNCHANGED <<vars, current, gone, requester>>

\* Any other key.  While the driver writes, it moves the index the driver
\* writes by; while it reads, it ends the read without an event, unless the
\* ring buffer is full.
input_key ==
    /\ ~halted
    /\ \/ /\ dcb.cur_op = "WRITE"
          /\ \E i \in {dcb.rw_index - 1, dcb.rw_index + 1} \cap 0 .. MaxIndex :
                Device([dcb EXCEPT !.rw_index = i])
       \/ /\ dcb.cur_op = "READ"
          /\ Device([dcb EXCEPT !.event_flag = 0, !.cur_op = "IDLE"])

serial_input_interrupt == input_enter \/ input_key

-----------------------------------------------------------------------------
(***************************************************************************)
(* What comhand does to the queues and the device between system calls.    *)
(***************************************************************************)

\* A change of the process table by comhand, the rest left alone.
Effect(command) ==
    /\ command
    /\ gone' = gone \cup {p \in Pcb : Queued(queue, p) /\ ~Queued(queue', p)
                                      /\ p # setting'}
    /\ UNCHANGED <<current, dcb, halted, requester>>

\* load_r3 and alarm create, the user deletes, suspends, resumes and changes
\* priorities, in two steps, and shutdown removes whatever the ready queue
\* lists, one process after the other.
table_command ==
    \/ /\ setting = NULL
       /\ \E n \in Names :
            \/ /\ "create" \in Commands /\ n \notin {comhand_name, sys_idle_name}
               /\ create_pcb(n, USER, USER_PRIORITY)
            \/ "delete"  \in Commands /\ delete_pcb(n)
            \/ "suspend" \in Commands /\ suspend_pcb(n)
            \/ "resume"  \in Commands /\ resume_pcb(n)
            \/ \E pri \in Priorities : "priority" \in Commands /\ set_pcb_priority(n, pri)
    \/ set_pcb_priority_end
    \/ /\ "shutdown" \in Commands
       /\ \E i \in 1 .. Len(ready) : Drop(ready[i])
       /\ UNCHANGED reply

pcb_command == current = comhand /\ ~halted /\ Effect(table_command)

\* comhand declares the device free, whatever it does: at the end of its loop,
\* and, with the index left as it is, around the question of shutdown.
Free(index) == Device([dcb EXCEPT !.allocation_status = 0, !.rw_buf = NULL, !.rw_index = index])

comhand_reset ==
    /\ current = comhand /\ ~halted
    /\ \E index \in {0, dcb.rw_index} : Free(index)

KernelNext ==
    \/ sys_call(any_call)
    \/ serial_output_interrupt
    \/ serial_input_interrupt
    \/ pcb_command
    \/ comhand_reset

KernelSpec == KernelInit /\ [][KernelNext]_kvars

-----------------------------------------------------------------------------
(***************************************************************************)
(* Properties                                                              *)
(***************************************************************************)

\* The scheduler never loses a process, however often it is woken, blocked
\* or queued twice: it runs, or is in a queue, or it left for good.
NoProcessLost ==
    \A p \in allocated : p \in {current, setting} \cup gone \/ Queued(queue, p)

\* Whoever gets the CPU is at least as urgent as every process left waiting
\* for it, the one that gave it up aside.
MostUrgentFirst ==
    [][current' # current =>
          \A i \in 1 .. Len(ready') : ready'[i] # current =>
              priority[current'] <= priority[ready'[i]]]_kvars

\* The process that the device will wake at the end of its operation is one
\* that waits: it is blocked, and it is in the blocked queue, or it went on
\* running because no other could, or it was taken away by a command.
DeviceHasWaiter ==
    dcb.cur_op # "IDLE" =>
        /\ dcb.event_flag = 0 /\ dcb.iocbs /\ dcb.pcb_ptr # NULL
        /\ LET p == dcb.pcb_ptr
           IN  /\ state[p] \in BlockedStates
               /\ \/ \E i \in 1 .. Len(queue[state[p]]) : queue[state[p]][i] = p
                  \/ p = current
                  \/ p \in gone

\* The comments on sys_call and on the output interrupt: the process that the
\* event takes out of the blocked queue is the one whose I/O is finished, and
\* the characters sent are those of the process that asked for them.
DriverServesRequester ==
    /\ dcb.event_flag = 1 /\ dcb.iocbs => dcb.pcb_ptr = requester
    /\ dcb.cur_op = "WRITE" /\ dcb.rw_buf # NULL => dcb.rw_buf = requester
=============================================================================
