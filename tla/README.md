# A verification development for MarauderOS

MarauderOS is a small single-processor operating system for i386, grown over six releases (R1 to R6) from a
polling command line to a kernel with process control blocks, cooperative multitasking and
interrupt-driven serial I/O. This directory holds TLA+ modules that model its core, TLC configurations that check them on small instances,
and proofs that TLAPS checks for instances of any size. Paths below are relative to `src/`.

## 1. Inventory

| Component | Source | State it keeps | Operations |
|---|---|---|---|
| process queues | `user/process_queue.c`, `kernel/pcb.c` | four global queues, one for each process state; `enum state`, priority, class, name of each PCB | `enqueue_pri`, `enqueue_reg`, `dequeue`, `search`, `pcb_insert`, `pcb_remove`, `pcb_find`, `pcb_setup` |
| PCB commands | `user/pcb_user_commands.c` | none of its own | create, delete, block, unblock, suspend, resume, set priority, show, `load_r3`, `load_comhand`, `load_sys_idle` |
| system calls | `kernel/context_switch.c` | `global_current_process`, `global_context_ptr`, `dcb_array` | `sys_call`: event handling, IDLE, EXIT, READ, WRITE |
| I/O scheduler | `kernel/io_scheduler.c` | IOCB queue of the device | validation, busy and free path |
| serial driver | `kernel/interrupt_control.c` | the device control block (DCB): operation, event flag, allocation, buffer and its index, ring buffer, `pcb_ptr` | `serial_open`, `serial_read`, `serial_write`, input and output interrupt |
| command handler | `kernel/comhand.c` | the line in the device's buffer | prompt, READ, parse, run, ask and wait for a reply, reset the device, IDLE |
| test processes, idle | `user/core.c` | their program points | WRITE, IDLE, EXIT |
| shutdown | `user/shutdown.c` | none | empties the ready queue, EXIT |
| alarms | `user/alarms.c` | five slots with a process, a time and a message each | set, poll the clock, go off: print, free the slot, wake the front of the blocked queue, EXIT |
| clock | `user/time.c` | the registers of the CMOS clock | get and set date and time, register by register; BCD; range checks |
| heap | `lib/core.c`, `kernel/core-c.c` | the end of the heap | allocate; free does nothing |

**How they interact.** Processes reach the kernel through `int 0x60`. `sys_call` runs behind an interrupt gate, so a
call is atomic; the serial interrupts come between any two steps of a process. Every call other than EXIT first looks at the
*event flag*, which the interrupt handlers raise: if it is set, the process `pcb_ptr` names moves from the blocked to the
ready queue. The command handler runs the PCB commands as ordinary code of its own process: it changes the same queues
directly, and each message it prints is a WRITE, which gives the CPU to somebody else. READ and WRITE put the caller
into the blocked queue and go to the I/O scheduler, which starts the driver if the device is free.

**What is hard.** No lock and no reservation protects the DCB: a request to a busy device overwrites the buffer and
`pcb_ptr` of the one in progress, and returns to its caller, which now runs while it is blocked and queued. From there
a process can be in two queues, or twice in one, while it runs, and the queue operations must cope with that (`enqueue_reg` and
`pcb_remove` do so in part). Enter may come at any time and always raises the event. Commands are refused after they have already
changed something. A change of priority is interrupted by its own message. The show functions print from lists that change under them. Alarm processes find out who they are by asking
who is in no queue, and write to the DCB while it works for somebody else; they compare times of day, which midnight sets back. The clock ticks between the reads, and between the writes, of its registers. `PROJECT.json` lists every such hazard at its line.

**What correctness means**, component by component:

* *queues and commands*: every PCB in one place, the place its state says; the ready queues sorted, first come first served
  within a priority; no PCB disappears but by `delete`; names identify PCBs; system processes cannot be taken off the CPU;
* *dispatcher and driver*: no process is lost, the most urgent ready process is dispatched, a busy driver has a
  process to wake;
* *lists*: between any two steps of an operation, `front`, `rear`, `next` and `prev` describe one sequence; a walk misses nobody who stays;
* *the whole system*: the line typed reaches the command handler, the prompt comes back, a finished process does not run;
* *alarms*: an alarm process works on its own slot, slots are neither lost nor given away, an alarm whose time has passed goes off that day and none before its time, and the command handler is not cut off by them;
* *clock*: what is read and what is set is off by no more than a carry allows, and in one direction only; a date that does not exist is reported.

## 2. Modules

| Module | Models | Uses |
|---|---|---|
| `ProcessQueue` | the queues and their operations, as operators on a function from states to sequences of PCBs | |
| `Queues` | what `kernel/pcb.c` promises of them: each operation in one step | `ProcessQueue` |
| `LinkedQueue` | the doubly linked lists, one step for each turn of a loop, and the walk of the show functions | `ProcessQueue`, `Queues` |
| `ProcessTable` | the PCB commands, one action each | `ProcessQueue` |
| `Kernel` | system calls, I/O scheduler, driver, with any programs on top | `ProcessTable` |
| `Mpx` | the programs of the system on `Kernel`: `comhand`, `sys_idle_process`, `r3_proc`, `shutdown` with its question, and an operator at the keyboard | `Kernel` |
| `Alarms` | the alarm command and the alarm processes on the system of `Mpx` | `Mpx` |
| `Clock` | the clock chip, `time.c`, and the reading of the clock by `check_time` | |
| `MCProcessTable`, `MCLinkedQueue`, `MCKernel`, `MCMpx`, `MCAlarms`, `MCClock` | constants for TLC | |
| `ProcessQueueProofs`, `ProcessTableProofs`, `LinkedQueueProofs`, `KernelProofs`, `MpxProofs`, `AlarmsProofs`, `ClockProofs` | lemmas and theorems | |

Two refinements hold the modules together.

* `LinkedQueue` implements `Queues` under the mapping `queue <- Contents`, the PCBs that the nodes of each list point to. The step that links or unlinks a
  node is the abstract operation; the calls, the turns of the loops and the walk are stutters. `ProcessTable` and everything above it uses the same operators, so what is
  checked on sequences holds of the lists.
* `Mpx` implements `Kernel`: `KernelSpec` lets whoever has the CPU make any system call, `Mpx` runs the programs there are. The mapping is the identity on the kernel's
  variables. `Alarms` extends `Mpx` but is *not* such a refinement, because its `clear` (of `alarms.c:297`) writes to the DCB from a process that is not `comhand`.

### State and code

* `queue[s]` is the list of the nodes of the queue of state `s`, front to rear; a node is the PCB it points to, so a PCB can occur
  twice. The links are abstracted.
* `state`, `priority`, `class`, `name` are the fields of the PCBs. The value `RUNNING` of `enum state` is never
  assigned in the code, so it does not occur: the process with the CPU keeps the state it was dispatched with.
* `allocated` grows only: nothing is freed (`sys_free_mem` returns -1).
* `setting` is `cur_pcb` of a `set_pcb_priority` whose message is being printed. This is the only command that gives up the CPU halfway;
  the others print at their end, or after their last change, and are one step.
* `current` is `global_current_process`; `dcb` is `dcb_array[0]`. Of the buffer the model keeps *whose* text it holds, its length and
  the driver's place in it; of the IOCB queue whether it has a node, which is all the code asks of it (nodes are never taken out).
* `halted`: `sys_call` returned to the context of `kmain`, or a NULL pointer was read and the page fault stopped the machine: by Enter before the first request, when the IOCB queue has no front (`interrupt_control.c:461`), or by an alarm that finds nobody blocked (`alarms.c:300`).
* `dcb.rw_index` is followed while the driver writes. Keys move it without a bound in the code (`interrupt_control.c:487`, `:497`), up to `MaxIndex` in the models. A READ begins with whatever the buffer's first byte is (`:232`); nothing is sent by that index, and the models put 0 for it.
* `gone` and `requester` are history variables: the processes that exited, were deleted, or were dropped by a command; and the process for
  which the driver was last started. No guard reads them.
* In `LinkedQueue`, `pc`, `target`, `arg` and `node` are the loop that runs and its variables, `cursor` is the node of the walk, `nodes` is a history variable: the sequence
  each list stands for. `owed` (history) is what the walk has yet to show. `priority` may only change while the PCB is in no ready queue, which is what `set_pcb_priority` sees to.
* In `Alarms`, `alarm_processes` is the array of that name, `alarm_times` the other one, and `time` the clock: one of the instants `0 .. MaxTime` of a day, the last of which is followed by midnight. `MaxTime + 1` among the times is hour 24, which `isValidTimeFormat` accepts and a clock that nobody sets never shows. `left[p]` is `cur_alarm`. `print_message`'s
  `return`s for a slot that is not found cannot be reached, because `check_time` has found it just before, in the same step.
* In `Clock`, `order` and `place` say which register the code is about to access; `began`, `midnight`, `yearend` and `ticks` are history.
* In `Mpx`, `pc[p]` is the place of `p` between two system calls, `left[p]` its loop counter, `line` the command line or reply in the buffer.
  EXIT does not save the caller's context pointer, but the context of the EXIT lies where the last one lay, so a process that is dispatched again
  goes on *behind* its EXIT.

### Atomicity

A system call is one step (interrupt gate). An interrupt is one step. What `comhand` does between two system calls is one
step for each change of the process table: `load_r3` creates its processes one by one and `shutdown` removes the ready
processes one by one, with interrupts in between. In `LinkedQueue` a turn of a loop is a step, in `Clock` a port access is. The serial interrupts touch only the DCB and the rest of a step touches either
the DCB through a system call or the queues, so the finer interleavings inside a step give the same results.

## 3. Runs

Each finishes within about three minutes on two workers. `CHECK_DEADLOCK FALSE` is used where the system really stops: it halts, and the bounds end it.

| Run | Question | Bounds |
|---|---|---|
| `table_api` | `TypeOK`, `OneQueueEach`, `ReadyQueuesSorted`, `UniqueNames`, `PcbsLeaveOnlyBy`, `FirstComeFirstServed`, `SystemProcessesStay` under all commands, those `comhand` no longer offers included | 3 PCBs, 3 names and a long one, priorities 0 and 1 and arguments outside |
| `linked_queue` | `Represents`, `WalkMissesNobody`, and `LinkedQueue` implements `Queues` | 2 PCBs, 4 nodes, priorities 0 and 1, one ready and one blocked queue |
| `kernel_calls` | `KernelTypeOK`, `NoProcessLost`, `ReadyQueuesSorted`, `DeviceHasWaiter`, `MostUrgentFirst` with arbitrary programs and keys | 4 processes, requests of 0 to 2 characters, 4 nodes in a queue |
| `kernel_commands` | `NoProcessLost`, `MostUrgentFirst` with create, delete, suspend and resume during I/O | 3 processes, 1 character, 3 nodes |
| `kernel_priority` | `NoProcessLost` with priority changes in two steps and shutdown | 2 processes, 4 nodes |
| `mpx_prompt` | `MpxTypeOK`, `NeverTwice`, `LinesAreExecuted`, `PromptReturns` for `comhand` and `sys_idle`, both shutdown commands included | up to 3 messages of 3 characters |
| `mpx_kernel` | `Mpx` implements `KernelSpec`, with `load_r3` | 2 test processes, 4 nodes, lines on `sys_idle` and one test process |
| `alarms` | `AlarmsTypeOK`, `AlarmFindsItself`, `ComhandIsWoken`, `SlotsKept`, `GoesOff` | 3 alarm processes on 2 slots, a day of two instants and hour 24, messages of 0 and 2 characters |
| `clock` | `ClockTypeOK`, `NeverEarly`, `DueIsSeen`, `SetNeverBehind`, `DateNeverBehind`, `FalseDateIsReported` | 3 ticks, times and dates on both sides of every carry, arguments in and out of range |
| `mpx_driver`, `mpx_exit` | violated: `DriverServesRequester`, `ExitIsFinal` | 2 test processes |
| `alarms_empty` | violated: `NoPanic` | as `alarms` |

**Why the bounds suffice.** Three PCBs let two wait in a queue in either order while a third is moved; two priorities and an
equal one cover the comparisons of `enqueue_pri`; arguments on both sides of the range cover its checks. A request of two characters
has a first, sent by `serial_write`, and a last, sent by the interrupt; zero is the length that fails validation. Four nodes for two to four
processes let every process be queued twice. Four nodes of two PCBs give a list a front, two middles and a rear, with a PCB in it twice; a node is never used again, so
the fifth adds only length, and the theorems of `LinkedQueueProofs` hold for every number. In `linked_queue` the callers use one ready and one blocked state: the queues share no node, and the pairs are handled by the same code.
Two slots and three alarms let a slot be given back, taken again and refused; two instants and hour 24 let an alarm be due when it is set, later, only until midnight, or never. `MaxIndex` is one more than the length of a request, so that a key can move the index past the end. Three ticks let one come before, between and behind two of the three port accesses;
every carry from seconds up to the year is one tick away from one of the initial times. `MaxNodes` bounds the guard of `sys_call`, and only there: with test processes the code
really queues processes again and again, and its queues grow until the heap is full.

**What the passing runs leave out, and why.** `kernel_calls` and `kernel_commands` check order (`ReadyQueuesSorted`, `MostUrgentFirst`) without
the priority command: on a process that is queued twice it takes out one node only and the other is then in the wrong place; this is a
consequence of the double queueing that the violated runs show. In `mpx_prompt` the operator does not type `sys_idle`: while the priority of
`sys_idle` is changed no process is ready, `comhand` runs on while blocked, is then woken while it runs, and is in the ready queue while it
polls; neither `NeverTwice` nor `PromptReturns` survives that. (`mpx_kernel` does include those lines.) Liveness is not checked with `load_r3`, where only the bound ends a run.

`alarms` has alarms and messages but neither PCB commands nor test processes, for the reason given below under "known behaviour"; the theorems about it allow test processes too. Its only line is `alarm`: after one that is refused, `comhand` prints a message as after any other command. `set time` is not typed while alarms wait.

**What the violated runs show.**

* `mpx_driver`: a second WRITE during the first takes over `pcb_ptr` and the buffer, so that the text of one process is sent and another one woken.
* `mpx_exit`: a test process whose second WRITE found the device busy is still queued when it exits, and is dispatched again:
  the "FAILURE TO EXIT" of `doc/r6-warnings.md`.
* `alarms_empty`: an empty message is accepted (the check in `comhand.c:484` is `if(0)`); its print fails validation, the alarm process runs on while it is queued as
  blocked, an event takes it out again, and when it goes on to wake the front of the blocked queue there is none.

**Known behaviour** that the models contain, and that a reader of the properties should know:

* `suspend` of a suspended process, and `resume` of one that is not, print an error and leave the PCB in no queue (`pcb_user_commands.c:376`, `:426`); `PcbsLeaveOnlyBy` lists these cases.
* A request that fails validation resumes its caller, not the next process, although `io_scheduler.c:45` says otherwise. The READ of length 0 with which `comhand` begins every turn is one;
  that it leaves `comhand` blocked and running is in fact what makes it wait for Enter at its IDLE.
* After the reply "y" to the question of `shutdown` the device is still allocated to the READ that Enter ended, so that the farewell (`shutdown.c:34`) is never sent. After `shutdown!` it is.
* An alarm process that is deleted, or suspended and then lost, leaves its slot behind; the others take that slot for their own (`AlarmFindsItself` fails as soon as `delete` is among the commands).
* With alarms, `comhand` can be queued twice; its second entry then keeps the CPU from the alarms, which have a lower priority. `GoesOff` and `ComhandIsWoken` therefore excuse states where `OneQueueEach` does not hold.
* Times of day are compared (`alarms.c:353`). An alarm for hour 24 never goes off, because no time of the clock is behind it; an alarm for the last second of the day that is not polled within that second, and any alarm overdue at midnight, waits for the next day. `GoesOff` ends at midnight for that reason.
* `doc/r6-warnings.md:6` says that an alarm set for a time later than the machine's leaves `comhand` blocked for good while `sys_idle` and the alarm process alternate. That schedule is how the models wait, too: `comhand` sleeps in the blocked queue and the others poll.
  In the models the next Enter ends it: `ComhandIsWoken` says that the event is for `comhand` as long as no alarm is just going off. So the mere waiting does not reproduce the report. What does is Enter at the wrong moment. From an alarm's first WRITE until
  it resets the device, `pcb_ptr` names the alarm, because `comhand` at its prompt makes no request that passes validation. An Enter then wakes the alarm process instead; that process ends up queued twice, is dispatched again behind its EXIT, keeps printing that no alarm was found, and with each print takes the event for itself again, so that `comhand` is not unblocked.
  `ComhandIsWoken` excuses those moments, and exited processes that run. (Whether the warning meant this or something in the characters of the buffers, which are not modelled, the repository does not say.)
* A line that is being typed is wiped when an alarm goes off (`alarms.c:297`), and overwritten by any message of another process. No property forbids it; `LinesAreExecuted` is about a system without alarms and test processes.
* A key typed while a text is sent moves the driver's place in it (`interrupt_control.c:487`, `:497`): characters are sent twice or not at all. The operation still ends, and wakes a process that waits (`DeviceHasWaiter`).
* Enter during an output leaves the device allocated though it is idle (`interrupt_control.c:441`), until `comhand` or a finished alarm declares it free; requests in between are not served.
* Enter before the first request stops the machine (`interrupt_control.c:461`).
* If `serial_open` finds a one where `allocation_status` lies, the greeting is not sent. `Kernel` starts from either value, `Mpx` and `Alarms` from zero.
* A carry between two reads shows a time that is too early, by up to an hour; between two writes it leaves the clock up to an hour ahead, and at midnight a day behind. `get_date` may show a date that does not exist.
* `set_date` reports a date that does not exist and writes it all the same; hour 24 is accepted (`time.c:270`). A time of day that has passed makes an alarm go off at once.

Each property has a *mutant*: a definition replaced by a faulty variant (marked as such beside it), under which its run fails. The
faulty variants are used by no specification.

## 4. Fairness

`FairSpec` of `Mpx` has weak fairness of `process_step` (the CPU always executes somebody's next instruction; a process step is
enabled until the system halts) and of `device_step` (a port with its transmitter interrupt enabled reports that it is empty). The operator is not fair:
`LinesAreExecuted` speaks of lines that were typed and `PromptReturns` of a system that is left alone; a system that waits for the reply to a question counts as one that waits for the operator.

`FairAlarmsSpec` has only weak fairness of `program_step`, the CPU. The clock may tick at any speed and may stand still: `GoesOff` asks for an alarm once its time has passed, so that nothing depends on the clock getting there. Nor need the device ever finish.
No alarm process is given fairness of its own; that it gets the CPU follows from the order of the ready queue.

## 5. Proofs

| Theorem | Module | Says |
|---|---|---|
| `TypeCorrect` | `ProcessTableProofs` | `Spec => []TypeOK` |
| `OneQueueForEachPcb` | `ProcessTableProofs` | `Spec => []OneQueueEach` |
| `ReadyInOrder` | `ProcessTableProofs` | `Spec => []ReadyQueuesSorted` |
| `NamesAreUnique` | `ProcessTableProofs` | `Spec => []UniqueNames` |
| `TurnsAreKept` | `ProcessTableProofs` | `Spec => FirstComeFirstServed` |
| `NothingElseLosesPcbs` | `ProcessTableProofs` | `Spec => PcbsLeaveOnlyBy` |
| `SystemProcessesAreSpared` | `ProcessTableProofs` | `Spec => SystemProcessesStay` |
| `KernelTypeCorrect` | `KernelProofs` | `KernelSpec => []KernelTypeOK` |
| `ProcessesAreKept` | `KernelProofs` | `KernelSpec => []NoProcessLost` |
| `PointersAreKnown` | `KernelProofs` | `KernelSpec => []KnownPcbs`: nothing is queued, run or woken that was not allocated |
| `KernelReadyInOrder` (1) | `KernelProofs` | `KernelSpec => []ReadyQueuesSorted` |
| `MostUrgentRuns` (1) | `KernelProofs` | `KernelSpec => MostUrgentFirst` |
| `DeviceWaiterIsBlocked` (2) | `KernelProofs` | `KernelSpec => []DeviceHasWaiter` |
| `MpxImplementsKernel` (3) | `MpxProofs` | `MpxSpec => KernelSpec` |
| `MpxTypeCorrect` (3), `MpxKeepsProcesses` (3) | `MpxProofs` | `MpxSpec => []MpxTypeOK`, `MpxSpec => []NoProcessLost` |
| `NobodyIsQueuedTwice` (3, 4) | `MpxProofs` | `MpxSpec => []NeverTwice` |
| `AlarmsTypeCorrect` (3), `AlarmsKeepProcesses` (3) | `AlarmsProofs` | `AlarmsSpec => []AlarmsTypeOK`, `AlarmsSpec => []NoProcessLost` |
| `AlarmsFindThemselves` (3, 5) | `AlarmsProofs` | `AlarmsSpec => []AlarmFindsItself` |
| `SlotsAreKept` (3, 5) | `AlarmsProofs` | `AlarmsSpec => SlotsKept` |
| `ListsRepresent` | `LinkedQueueProofs` | `LinkedSpec => []Represents` |
| `ListsImplementQueues` | `LinkedQueueProofs` | `LinkedSpec => QueuesSpec`, the refinement |
| `WalkShowsEverybody` | `LinkedQueueProofs` | `LinkedSpec => []WalkMissesNobody` |
| `ClockTypeCorrect` | `ClockProofs` | `ClockSpec => []ClockTypeOK` |
| `AlarmsAreNeverEarly` | `ClockProofs` | `ClockSpec => []NeverEarly` |
| `DueAlarmsAreSeen` | `ClockProofs` | `ClockSpec => []DueIsSeen` |
| `TheClockIsNeverSetBack` | `ClockProofs` | `ClockSpec => []SetNeverBehind` |
| `DatesAreNeverBehind` | `ClockProofs` | `ClockSpec => []DateNeverBehind` |
| `FalseDatesAreReported` | `ClockProofs` | `ClockSpec => []FalseDateIsReported` |

The modules also state the invariances these rest on: `KernelInvariance` and `SortInvariance`, `MpxInvariance`, `AlarmsInvariance`.

The theorems hold for any set of PCBs, names and commands, any priorities, any request length, any bound on nodes, queues, keys and ticks, any times and dates, any number of alarm slots, from the assumptions the modules name
(`PcbAssumption`, `PriorityAssumption`, `NamesAssumption`, `LoadedAssumption`, `RangeAssumption`, `TestsAssumption`, `NodeAssumption`, `CallStatesAssumption`, `ClockAssumption`, and those of `Alarms`). Those with a number assume more:

1. `priority` is not among the commands. A process that is queued twice keeps a stale place when its priority is changed.
2. None of the commands that take a process out of a queue (`delete`, `suspend`, `resume`, `shutdown`) is among them. On a process that is both ready and blocked
   they take one node out, after which the device waits for a process in the wrong queue.
3. `WholeSystem`: there is a test process to load if `load_r3` is typed, and `Commands` has the commands that the lines lead to. Type correctness
   also assumes that the lines typed are ones the modules know.
4. `load_r3` is not typed (test processes do get queued twice, see `mpx_exit`), and the name of `sys_idle` is not (see section 3).
5. `QuietLines`: the operator types `alarm`, `load_r3` and commands that print, and no command that takes a process out of the queues.

None of these is there for the proof's sake: TLC finds `ReadyQueuesSorted` and `DeviceHasWaiter` violated in `Kernel` with any one of the commands named in 1 and 2, `NeverTwice` in `Mpx` with `load_r3` or the name of `sys_idle`, and
`AlarmFindsItself` and `SlotsKept` in `Alarms` with any of `delete`, `suspend`, `resume` and `priority`.
The only exceptions are `shutdown` and `shutdown!` in 5: TLC finds no violation with them at the bounds of `alarms`, but nothing is proved of them.

`ProcessQueueProofs` states what the queue operations do in terms of membership, order and duplicates: `enqueue_pri` inserts
at an index in front of which everything is at most as large and behind which everything is larger, `dequeue` removes the first
occurrence and nothing else, and none of them exchanges two PCBs that stay (`Before`, `OneOrder`). The other proof modules cite these lemmas and leave the operations unexpanded.

*Process table.* The inductive invariant is the conjunction of `TypeOK`, `OneQueueEach`, `ReadyQueuesSorted`, `UniqueNames` and the fact that only
allocated PCBs are queued. The parts need one another: `pcb_remove` takes a PCB out of *its* queue only because the PCB is in the queue of its
state, out of every queue only because it has one node; the order survives a change of priority only because the PCB is then in no queue; and the
name of a PCB under `set_pcb_priority` stays unique only because no command is run meanwhile.
The action properties follow command by command. Turns are kept because each command removes one PCB and inserts one behind its equals; with one node for each PCB, "`p` is before `q`" then means the same before and after. A PCB is lost
only where a command returns between `pcb_remove` and `pcb_insert`.

*Kernel.* `OneQueueEach` does not hold here, so `NoProcessLost` cannot rest on it. Its inductive invariant `KInv` adds to `KernelTypeOK` and `NoProcessLost`
that a device with a node in its IOCB queue knows a process (`WaiterKnown`), without which the event would have nobody to wake. The argument is that every node a step takes out belongs to a
process that the same step makes current, queues again, holds in `setting`, or counts as gone; duplicates do no harm.
`SortInv` adds `KnownPcbs` and the order of the ready queues. The order cannot be preserved unless `create` sets the priority of a PCB that is in no queue, and that is so because nothing but allocated PCBs is queued or pointed to. `MostUrgentFirst` is then a property of
`dispatch`, which takes the front of a sorted queue.
`WaitInv` says of a device that is busy that it has no event, a request, and a process that is blocked and queued, or current, or gone. It is preserved because the waiter can only leave the blocked queue through an event, and whatever raises an event, Enter included, ends
the operation; a second request that overwrites `pcb_ptr` brings a waiter of its own, which was queued as blocked just before.

*The whole system.* `MpxProofs` shows that every step of a program is a step of `KernelNext` or leaves the kernel alone. That needs an invariant of the programs (`ProgramsInv`) beside `KInv`: counters of messages are positive where they
are counted down, `load_r3` does not run past its list, and `setting` names a PCB only while `comhand` is in the command that set it. Without the last, `load_r3` could create a process in the middle of a change of priority, which `Kernel` does not allow.
`NoProcessLost` then follows from `ProcessesAreKept` along the refinement.
`NobodyIsQueuedTwice` needs to know more than that each queue is short: why is `comhand`, which runs on in the blocked state behind each failed READ, never taken for a sleeper and queued again? `TwoInv` therefore writes down where
`comhand` and `sys_idle` are in each situation: while `sys_idle` runs, `comhand` is ready or blocked; while `comhand` runs, `sys_idle` is ready (or has been removed by `shutdown`) and the blocked queue is empty or holds `comhand` itself; and the device is busy or has an event only
while `sys_idle` runs and `comhand` is blocked, or at the farewell of `shutdown`.

*Alarms.* One step of an alarm process, the reset of the DCB, is no step of `Kernel`, so that nothing carries over by refinement. What carries over are the lemmas: `MpxProofs` states the step of each program with the labels of other programs as a
parameter, and `SystemInv` is preserved by the steps of `Mpx` by those lemmas and by the steps of the alarms by their own. `AlarmsInv` adds which process is in a slot: one of the slot's name, allocated and not gone, which has yet to give the slot back (`SlotsHold`); no process is in two (`OneSlot`); and an alarm that
goes off remembers its own (`OwnSlot`). An alarm process looks for the slot whose name `pcb_find` does not find. That this is its own needs `NoProcessLost`: every other holder of a slot is neither gone nor running, hence queued, hence found.

*Lists.* `LinkedInv` adds to `Represents` what an operation in progress knows: the new node is in no list and points nowhere, the scan of `enqueue_pri` stands on a node of its queue behind which nothing smaller has been passed, and the search
of `dequeue` on a node in front of which its PCB does not occur. The first gives the insertion its place, so that it is the one `InsertionPoint` names; the second makes the node that is unlinked the first occurrence. The lemmas `LinkedInsert` and `LinkedRemove` treat a list by itself: inserting at an index and removing at an index keep it linked.

*The walk.* While it stands on a node that has been unlinked, what it has yet to show must still be reachable. `WalkFinds` says so: the node leads, through nodes unlinked after it, back to a node of the list, and every PCB that is owed stands there or behind. It is
preserved because `dequeue` leaves the pointers of the node it unlinks alone, later insertions only add nodes, and memory is never used again.

*Clock.* `ClockInv` relates the registers that have been read (or written) to the time that has passed since: a prefix of the registers, hour first, is never ahead of the clock (or, when setting, the prefix of the clock never behind the argument),
because a tick either leaves the prefix alone or carries into it. `NeverEarly` and `SetNeverBehind` are the prefix of length three. `DateNeverBehind` is the same argument, with the prefix from the year down. `DueIsSeen` compares the minute at the start with that at the end of a check: as long as it is the same, the reads are those of one time but for the second, which only grows.
That the hour is the same as well has to be said: with only the minute compared, as the property once did, an hour could pass unnoticed, which no run with three ticks shows.

**Only model-checked:** liveness (`LinesAreExecuted`, `PromptReturns`, `GoesOff`), which needs fairness and `ENABLED` and is out of the prover's reach, and `ComhandIsWoken`, whose inductive invariant would have to describe every state from which `OneQueueEach` can come to hold again. Every other invariant and action property of the passing runs is stated by a theorem. What hypotheses 1, 2, 4 and 5 exclude, the theorems say nothing of.

## 6. Not modelled

* *The characters of the line editor and the ring buffer*, `strtok` and the parsing of flags: a command line is a value that arrives, is refused, or is overwritten; which characters it has decides only which command runs. One
  consequence: that Enter copies the ring buffer only if the process that runs is called `alarm0` (`interrupt_control.c:445`) is not seen.
* *The texts of messages*: only whether a text is empty, and how many interrupts its sending takes.
* *The date and time commands as programs*: for the queues and the device they are messages (`print` in `Mpx`); what they do to the clock is in `Clock`.
* *Show functions as programs*: their walk is in `LinkedQueue`, their messages are those of `print`.
* *The heap* (`lib/core.c`, `kernel/core-c.c`): an address that only grows. That it runs out is the hazard at `lib/core.c:57`.
* *Contexts and stacks*: a program is its points between system calls. Hence a second `load_r3`, which overwrites the stacks of running processes, is left out.
* *Hardware set-up* (`kernel/core-c.c`, the first part of `kmain`), and the polling driver `kernel/serial.c` with its history list `user/doubly_linked_list.c`, which only an unused branch of `sys_req` reaches.
* `serial_close` and `iocb_remove` have no caller. COM2 to COM4 are never opened.
