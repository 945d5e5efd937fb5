---------------------------- MODULE ProcessQueue ----------------------------
(***************************************************************************)
(* The four process queues of user/process_queue.c and the two functions   *)
(* of kernel/pcb.c that choose among them.                                 *)
(*                                                                         *)
(* Every queue belongs to exactly one process state, so the four global    *)
(* queues are one function from states to sequences of PCBs.  The doubly   *)
(* linked list of the code is the sequence of its nodes from front to rear *)
(* and a node is the PCB it points to: a PCB may occur twice.              *)
(***************************************************************************)
EXTENDS Integers, Sequences, SequencesExt

CONSTANTS
    Pcb,            \* the PCBs pcb_allocate can hand out
    NULL,           \* the null pointer
    MAX_PRIORITY    \* the lowest priority, 9 in the code

ASSUME PcbAssumption == NULL \notin Pcb
ASSUME PriorityAssumption == MAX_PRIORITY \in Nat

(***************************************************************************)
(* enum state.  Its fifth value, RUNNING, is tested but assigned nowhere:  *)
(* the process that holds the CPU keeps the state it was dispatched with.  *)
(***************************************************************************)
READY_NOT_SUSPENDED   == "ready"
READY_SUSPENDED       == "suspended ready"
BLOCKED_NOT_SUSPENDED == "blocked"
BLOCKED_SUSPENDED     == "suspended blocked"

ReadyStates     == {READY_NOT_SUSPENDED, READY_SUSPENDED}
BlockedStates   == {BLOCKED_NOT_SUSPENDED, BLOCKED_SUSPENDED}
SuspendedStates == {READY_SUSPENDED, BLOCKED_SUSPENDED}
States          == ReadyStates \cup BlockedStates

Priorities == 0 .. MAX_PRIORITY

EmptyQueues == [s \in States |-> <<>>]

-----------------------------------------------------------------------------
(***************************************************************************)
(* process_queue.c                                                         *)
(***************************************************************************)

\* Faulty variant: the scan stops in front of an equal priority.
InsertionPointBeforeEquals(q, pri, p) ==
    Min({i \in 1 .. Len(q) + 1 : i > Len(q) \/ pri[p] <= pri[q[i]]})

\* Where the scan of enqueue_pri stops: in front of the first node of a
\* numerically greater priority, or behind the rear.
InsertionPoint(q, pri, p) ==
    Min({i \in 1 .. Len(q) + 1 : i > Len(q) \/ pri[p] < pri[q[i]]})

\* Faulty variant: no scan.
enqueue_at_rear(q, pri, p) == Append(q, p)

enqueue_pri(q, pri, p) == InsertAt(q, InsertionPoint(q, pri, p), p)

\* Only the rear node is compared with p: a p further forward is not seen.
enqueue_reg(q, p) ==
    IF q # <<>> /\ q[Len(q)] = p THEN q ELSE Append(q, p)

\* The first node that points to p is unlinked; nothing happens without one.
dequeue(q, p) == RemoveFirst(q, p)

-----------------------------------------------------------------------------
(***************************************************************************)
(* pcb.c.  Both functions pick the queue by the state stored in the PCB,   *)
(* not by the queue that holds it.                                         *)
(***************************************************************************)

\* Faulty variant: the suspended ready queue is taken for a queue in no order.
pcb_insert_one_ordered(qs, st, pri, p) ==
    [qs EXCEPT ![st[p]] = IF st[p] = READY_NOT_SUSPENDED
                          THEN enqueue_pri(@, pri, p)
                          ELSE enqueue_reg(@, p)]

pcb_insert(qs, st, pri, p) ==
    [qs EXCEPT ![st[p]] = IF st[p] \in ReadyStates
                          THEN enqueue_pri(@, pri, p)
                          ELSE enqueue_reg(@, p)]

pcb_remove(qs, st, p) == [qs EXCEPT ![st[p]] = dequeue(@, p)]

\* Faulty variant: the blocked queues are not searched.
pcb_find_ready(qs, names, n) ==
    LET all   == qs[READY_NOT_SUSPENDED] \o qs[READY_SUSPENDED]
        found == {i \in 1 .. Len(all) : names[all[i]] = n}
    IN  IF found = {} THEN NULL ELSE all[Min(found)]

\* The first PCB of that name, the queues being searched in this order.
pcb_find(qs, names, n) ==
    LET all   == qs[READY_NOT_SUSPENDED]   \o qs[READY_SUSPENDED]
              \o qs[BLOCKED_NOT_SUSPENDED] \o qs[BLOCKED_SUSPENDED]
        found == {i \in 1 .. Len(all) : names[all[i]] = n}
    IN  IF found = {} THEN NULL ELSE all[Min(found)]

\* p is in some queue.
Queued(qs, p) == \E s \in States : \E i \in 1 .. Len(qs[s]) : qs[s][i] = p
=============================================================================
