---------------------------- MODULE ProcessTable ----------------------------
(***************************************************************************)
(* The PCB commands of user/pcb_user_commands.c over the process queues.   *)
(*                                                                         *)
(* Only the command handler calls them, one after the other, so a command  *)
(* is one step up to the messages it prints.  The exception is             *)
(* set_pcb_priority, which prints between taking the PCB out of its queue  *)
(* and putting it back: any process may run there, so it is two steps.     *)
(***************************************************************************)
EXTENDS ProcessQueue

CONSTANTS
    Names,      \* the names commands are given
    LongNames,  \* those of more than eight characters
    Commands    \* the commands that can be issued

ASSUME NamesAssumption == LongNames \subseteq Names /\ NULL \notin Names

USER    == 0    \* pcb_class
SYSTEM  == 1
Classes == {USER, SYSTEM}

\* Arguments typed by the user need not be in range.
ClassArgs    == 0 .. 2
PriorityArgs == -1 .. MAX_PRIORITY + 1

AllCommands == {"create", "delete", "block", "unblock", "suspend", "resume", "priority"}

VARIABLES
    queue,      \* the four global queues
    state,      \* pcb_state, pcb_priority, pcb_class and name_arr of each PCB
    priority,
    class,
    name,
    allocated,  \* the PCBs allocated so far; freed memory is never reused
    setting,    \* cur_pcb of an unfinished set_pcb_priority, else NULL
    reply       \* what the last command answered

table == <<queue, state, priority, class, name, allocated, setting>>
vars  == <<queue, state, priority, class, name, allocated, setting, reply>>

TypeOK ==
    /\ queue \in [States -> Seq(Pcb)]
    /\ state \in [Pcb -> States]
    /\ priority \in [Pcb -> Priorities]
    /\ class \in [Pcb -> Classes]
    /\ name \in [Pcb -> Names]
    /\ allocated \in SUBSET Pcb
    /\ setting \in Pcb \cup {NULL}
    /\ reply \in [cmd : AllCommands, done : BOOLEAN]

Init ==
    /\ queue = EmptyQueues
    /\ state = [p \in Pcb |-> READY_NOT_SUSPENDED]
    /\ priority = [p \in Pcb |-> 0]
    /\ class = [p \in Pcb |-> USER]
    /\ name \in {[p \in Pcb |-> n] : n \in Names}
    /\ allocated = {}
    /\ setting = NULL
    /\ reply = [cmd |-> "create", done |-> FALSE]

-----------------------------------------------------------------------------
Done(cmd)    == reply' = [cmd |-> cmd, done |-> TRUE]
Refused(cmd) == reply' = [cmd |-> cmd, done |-> FALSE]
Refuse(cmd)  == Refused(cmd) /\ UNCHANGED table

\* Faulty variants: the old queue keeps its node, or the new one gets none.
MoveWithoutRemove(p, s) ==
    /\ state' = [state EXCEPT ![p] = s]
    /\ queue' = pcb_insert(queue, state', priority, p)
    /\ UNCHANGED <<priority, class, name, allocated, setting>>

MoveWithoutInsert(p, s) ==
    /\ state' = [state EXCEPT ![p] = s]
    /\ queue' = pcb_remove(queue, state, p)
    /\ UNCHANGED <<priority, class, name, allocated, setting>>

\* The tail of block, unblock, suspend and resume: out of the queue of the
\* old state, into the queue of the new one.
Move(p, s) ==
    /\ state' = [state EXCEPT ![p] = s]
    /\ queue' = pcb_insert(pcb_remove(queue, state, p), state', priority, p)
    /\ UNCHANGED <<priority, class, name, allocated, setting>>

\* The PCB is taken out of its queue and the function returns.
Drop(p) ==
    /\ queue' = pcb_remove(queue, state, p)
    /\ UNCHANGED <<state, priority, class, name, allocated, setting>>

\* Faulty variants: the range of the priority, or the name, is not checked.
CreateAnyPriority(n, c, pri) ==
    /\ n \notin LongNames
    /\ c \in Classes
    /\ pcb_find(queue, name, n) = NULL

CreateAnyName(n, c, pri) ==
    /\ n \notin LongNames
    /\ c \in Classes
    /\ pri \in Priorities

CreateValid(n, c, pri) ==
    /\ n \notin LongNames
    /\ c \in Classes
    /\ pri \in Priorities
    /\ pcb_find(queue, name, n) = NULL

create_pcb(n, c, pri) ==
    \/ ~CreateValid(n, c, pri) /\ Refuse("create")
    \/ /\ CreateValid(n, c, pri)
       /\ \E p \in Pcb \ allocated :
            /\ allocated' = allocated \cup {p}
            /\ name'      = [name EXCEPT ![p] = n]
            /\ class'     = [class EXCEPT ![p] = c]
            /\ priority'  = [priority EXCEPT ![p] = pri]
            /\ state'     = [state EXCEPT ![p] = READY_NOT_SUSPENDED]
            /\ queue'     = pcb_insert(queue, state', priority', p)
       /\ Done("create")
       /\ UNCHANGED setting

delete_pcb(n) ==
    LET p == pcb_find(queue, name, n)
        Allowed == p # NULL /\ class[p] # SYSTEM
    IN  \/ ~Allowed /\ Refuse("delete")
        \/ Allowed /\ Drop(p) /\ Done("delete")

block_pcb(n) ==
    LET p == pcb_find(queue, name, n)
        Allowed == p # NULL /\ state[p] \notin BlockedStates /\ class[p] # SYSTEM
    IN  \/ ~Allowed /\ Refuse("block")
        \/ /\ Allowed
           /\ Move(p, IF state[p] = READY_NOT_SUSPENDED
                      THEN BLOCKED_NOT_SUSPENDED ELSE BLOCKED_SUSPENDED)
           /\ Done("block")

\* The state is examined after the PCB has left its queue: a PCB that is not
\* blocked is refused and stays out of every queue.
unblock_pcb(n) ==
    LET p == pcb_find(queue, name, n)
    IN  \/ p = NULL /\ Refuse("unblock")
        \/ p # NULL /\ state[p] \notin BlockedStates /\ Drop(p) /\ Refused("unblock")
        \/ /\ p # NULL /\ state[p] \in BlockedStates
           /\ Move(p, IF state[p] = BLOCKED_SUSPENDED
                      THEN READY_SUSPENDED ELSE READY_NOT_SUSPENDED)
           /\ Done("unblock")

\* Faulty variant: system processes are suspended like any other.
suspend_any_class(n) ==
    LET p == pcb_find(queue, name, n)
    IN  \/ p = NULL /\ Refuse("suspend")
        \/ p # NULL /\ state[p] \in SuspendedStates /\ Drop(p) /\ Refused("suspend")
        \/ /\ p # NULL /\ state[p] \notin SuspendedStates
           /\ Move(p, IF state[p] = READY_NOT_SUSPENDED
                      THEN READY_SUSPENDED ELSE BLOCKED_SUSPENDED)
           /\ Done("suspend")

\* As in unblock_pcb, a suspended PCB is dropped before it is refused.
suspend_pcb(n) ==
    LET p == pcb_find(queue, name, n)
        Found == p # NULL /\ class[p] # SYSTEM
    IN  \/ ~Found /\ Refuse("suspend")
        \/ Found /\ state[p] \in SuspendedStates /\ Drop(p) /\ Refused("suspend")
        \/ /\ Found /\ state[p] \notin SuspendedStates
           /\ Move(p, IF state[p] = READY_NOT_SUSPENDED
                      THEN READY_SUSPENDED ELSE BLOCKED_SUSPENDED)
           /\ Done("suspend")

\* As in unblock_pcb, a PCB that is not suspended is dropped.
resume_pcb(n) ==
    LET p == pcb_find(queue, name, n)
        Found == p # NULL /\ class[p] # SYSTEM
    IN  \/ ~Found /\ Refuse("resume")
        \/ Found /\ state[p] \notin SuspendedStates /\ Drop(p) /\ Refused("resume")
        \/ /\ Found /\ state[p] \in SuspendedStates
           /\ Move(p, IF state[p] = READY_SUSPENDED
                      THEN READY_NOT_SUSPENDED ELSE BLOCKED_NOT_SUSPENDED)
           /\ Done("resume")

\* Up to the message: a ready PCB leaves its queue, a blocked one stays.
set_pcb_priority(n, pri) ==
    LET p == pcb_find(queue, name, n)
        Valid == p # NULL /\ pri \in Priorities
    IN  \/ ~Valid /\ Refuse("priority")
        \/ /\ Valid
           /\ priority' = [priority EXCEPT ![p] = pri]
           /\ IF state[p] \in BlockedStates
              THEN UNCHANGED <<queue, setting>>
              ELSE queue' = pcb_remove(queue, state, p) /\ setting' = p
           /\ Done("priority")
           /\ UNCHANGED <<state, class, name, allocated>>

\* Faulty variant: the PCB does not go back in.
set_pcb_priority_no_insert ==
    /\ setting # NULL
    /\ setting' = NULL
    /\ UNCHANGED <<queue, state, priority, class, name, allocated, reply>>

\* Behind the message: the PCB goes back in, at its new priority.
set_pcb_priority_end ==
    /\ setting # NULL
    /\ queue' = pcb_insert(queue, state, priority, setting)
    /\ setting' = NULL
    /\ UNCHANGED <<state, priority, class, name, allocated, reply>>

-----------------------------------------------------------------------------
Command ==
    \/ \E n \in Names, c \in ClassArgs, pri \in PriorityArgs :
          "create" \in Commands /\ create_pcb(n, c, pri)
    \/ \E n \in Names :
          \/ "delete"  \in Commands /\ delete_pcb(n)
          \/ "block"   \in Commands /\ block_pcb(n)
          \/ "unblock" \in Commands /\ unblock_pcb(n)
          \/ "suspend" \in Commands /\ suspend_pcb(n)
          \/ "resume"  \in Commands /\ resume_pcb(n)
    \/ \E n \in Names, pri \in PriorityArgs :
          "priority" \in Commands /\ set_pcb_priority(n, pri)

\* The command handler starts no command before the last one has returned.
Next == (setting = NULL /\ Command) \/ set_pcb_priority_end

Spec == Init /\ [][Next]_vars

-----------------------------------------------------------------------------
(***************************************************************************)
(* Properties                                                              *)
(***************************************************************************)

\* pcb_insert and pcb_remove trust pcb_state: a PCB must be in no queue but
\* the one of its state, or pcb_remove would search the wrong list.
QueuedByState ==
    \A s \in States : \A i \in 1 .. Len(queue[s]) : state[queue[s][i]] = s

\* No queue holds two nodes for one PCB: dequeue unlinks only the first.
NoDuplicates ==
    \A s \in States : \A i, j \in 1 .. Len(queue[s]) :
        queue[s][i] = queue[s][j] => i = j

\* Every PCB has at most one node, in the queue of its state, and a PCB that
\* set_pcb_priority holds has none.
OneQueueEach ==
    /\ QueuedByState
    /\ NoDuplicates
    /\ setting # NULL => ~Queued(queue, setting) /\ state[setting] \in ReadyStates

\* The scan of enqueue_pri relies on the order it maintains, which a change
\* of priority of a queued PCB would break: the front is the most urgent.
ReadyQueuesSorted ==
    \A s \in ReadyStates : \A i, j \in 1 .. Len(queue[s]) :
        i < j => priority[queue[s][i]] <= priority[queue[s][j]]

\* A command names a PCB without ambiguity: create_pcb's search covers every
\* place a PCB with that name can come back from.
UniqueNames ==
    LET Reachable == {p \in Pcb : Queued(queue, p) \/ p = setting}
    IN  \A p, q \in Reachable : name[p] = name[q] => p = q

\* pcb_find can reach every PCB that was created and not deleted, except the
\* ones a refused suspend, resume or unblock has dropped: p only leaves the
\* queues through them, through delete_pcb or into set_pcb_priority.
LeavesOnlyBy ==
    \A p \in Pcb : Queued(queue, p) /\ ~Queued(queue', p) =>
        \/ reply' = [cmd |-> "delete", done |-> TRUE]
        \/ setting' = p
        \/ ~reply'.done /\ reply'.cmd \in {"suspend", "resume", "unblock"}

PcbsLeaveOnlyBy == [][LeavesOnlyBy]_vars

\* q is behind p in the queue of state s.
Behind(qs, s, p, q) ==
    \E i, j \in 1 .. Len(qs[s]) : i < j /\ qs[s][i] = p /\ qs[s][j] = q

\* First come, first served: two PCBs that stay in a queue keep their order,
\* and a PCB that enters a ready queue goes behind those of its priority.
KeepsTurn ==
    \A s \in States : \A p, q \in Pcb :
        /\ Behind(queue, s, p, q) => ~Behind(queue', s, q, p)
        /\ (/\ s \in ReadyStates
            /\ \E i \in 1 .. Len(queue[s]) : queue[s][i] = p
            /\ ~\E i \in 1 .. Len(queue[s]) : queue[s][i] = q
            /\ priority'[p] = priority'[q])
           => ~Behind(queue', s, q, p)

FirstComeFirstServed == [][KeepsTurn]_vars

\* A system process that is ready stays ready and stays where pcb_find and the
\* dispatcher find it, whatever commands are typed one after the other: every
\* command but unblock, which comhand no longer offers, spares it.
Schedulable(p) ==
    state[p] = READY_NOT_SUSPENDED /\ (Queued(queue, p) \/ setting = p)

SystemProcessesStay ==
    [][\A p \in allocated :
          class[p] = SYSTEM /\ Schedulable(p) =>
              Schedulable(p)' \/ reply' = [cmd |-> "unblock", done |-> FALSE]]_vars
=============================================================================
