------------------------------- MODULE Queues -------------------------------
(***************************************************************************)
(* What kernel/pcb.c promises of the process queues: pcb_insert and        *)
(* pcb_remove each change the queue of the PCB's state in one step, as the *)
(* operators of ProcessQueue say, whatever the callers have stored in the  *)
(* PCBs.                                                                   *)
(***************************************************************************)
EXTENDS ProcessQueue

VARIABLES queue, state, priority

qvars == <<queue, state, priority>>

QueuesInit ==
    /\ queue = EmptyQueues
    /\ state \in [Pcb -> States]
    /\ priority \in [Pcb -> Priorities]

\* p is in no priority queue, so that its priority may change.
Unordered(qs, p) == \A s \in ReadyStates : \A i \in 1 .. Len(qs[s]) : qs[s][i] # p

\* The callers store a state in a PCB, queued or not, and a priority.
assign(p) ==
    /\ \E s \in States, pri \in Priorities :
         /\ pri = priority[p] \/ Unordered(queue, p)
         /\ state' = [state EXCEPT ![p] = s]
         /\ priority' = [priority EXCEPT ![p] = pri]
    /\ UNCHANGED queue

insert(p) ==
    /\ queue' = pcb_insert(queue, state, priority, p)
    /\ UNCHANGED <<state, priority>>

remove(p) ==
    /\ queue' = pcb_remove(queue, state, p)
    /\ UNCHANGED <<state, priority>>

QueuesNext == \E p \in Pcb : assign(p) \/ insert(p) \/ remove(p)

QueuesSpec == QueuesInit /\ [][QueuesNext]_qvars
=============================================================================
