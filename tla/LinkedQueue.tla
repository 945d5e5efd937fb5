----------------------------- MODULE LinkedQueue -----------------------------
(***************************************************************************)
(* The doubly linked lists of user/process_queue.c, pointer by pointer, and *)
(* the walk of the show functions of user/pcb_user_commands.c over them.   *)
(*                                                                         *)
(* One operation runs at a time: a call of pcb_insert or pcb_remove, then  *)
(* one step for each turn of its loop.  The walk prints between two nodes, *)
(* so that operations of the processes that run meanwhile come in between. *)
(* Nodes are numbered in the order in which create_node allocates them;    *)
(* their memory is never used again.                                       *)
(***************************************************************************)
EXTENDS ProcessQueue

CONSTANTS
    MaxNode,        \* bound: nodes ever allocated
    CallStates      \* the states the callers use

Node == 1 .. MaxNode

ASSUME NodeAssumption == MaxNode \in Nat /\ NULL \notin Node
ASSUME CallStatesAssumption == CallStates \subseteq States

VARIABLES
    front, rear,        \* of struct queue, for each of the four queues
    next, prev, pcb,    \* of struct node
    allocated,          \* the nodes 1 .. allocated exist
    state, priority,    \* of struct process
    pc,                 \* the loop that runs, or "return"
    target, arg, node,  \* its queue, its PCB, its compare or current
    cursor, owed,       \* the walk: its node, the nodes it has yet to show
    nodes               \* history: the nodes in each queue, front to rear

lists == <<front, rear, next, prev>>
call  == <<pc, target, arg, node>>
walk  == <<cursor, owed>>
lvars == <<lists, pcb, allocated, state, priority, call, walk, nodes>>

Pointer == Node \cup {NULL}

LinkedInit ==
    /\ front = [s \in States |-> NULL]
    /\ rear  = [s \in States |-> NULL]
    /\ next  = [n \in Node |-> NULL]
    /\ prev  = [n \in Node |-> NULL]
    /\ pcb   = [n \in Node |-> NULL]
    /\ allocated = 0
    /\ state \in {[p \in Pcb |-> s] : s \in CallStates}
    /\ priority \in {[p \in Pcb |-> pri] : pri \in Priorities}
    /\ pc = "return" /\ target = NULL /\ arg = NULL /\ node = NULL
    /\ cursor = NULL /\ owed = {}
    /\ nodes = [s \in States |-> <<>>]

-----------------------------------------------------------------------------
\* The PCBs the nodes of a queue point to.
Pcbs(q) == [i \in 1 .. Len(q) |-> pcb[q[i]]]

\* The queues of ProcessQueue.
Contents == [s \in States |-> Pcbs(nodes[s])]

\* The callers of pcb_insert and pcb_remove, between two calls.
assign(p) ==
    /\ pc = "return"
    /\ \E s \in CallStates, pri \in Priorities :
         /\ \/ pri = priority[p]
            \/ \A r \in ReadyStates : \A i \in 1 .. Len(nodes[r]) : pcb[nodes[r][i]] # p
         /\ state' = [state EXCEPT ![p] = s]
         /\ priority' = [priority EXCEPT ![p] = pri]
    /\ UNCHANGED <<lists, pcb, allocated, call, walk, nodes>>

-----------------------------------------------------------------------------
(***************************************************************************)
(* pcb_insert.                                                             *)
(***************************************************************************)
new == allocated    \* the node create_node has returned

pcb_insert_call(p) ==
    /\ pc = "return" /\ allocated < MaxNode
    /\ allocated' = allocated + 1
    /\ pcb'  = [pcb  EXCEPT ![allocated'] = p]
    /\ next' = [next EXCEPT ![allocated'] = NULL]
    /\ prev' = [prev EXCEPT ![allocated'] = NULL]
    /\ target' = state[p]
    /\ arg' = p
    /\ pc' = IF state[p] \in ReadyStates THEN "enqueue_pri" ELSE "enqueue_reg"
    /\ UNCHANGED <<front, rear, state, priority, node, walk, nodes>>

\* The function returns and its variables are gone.
Returns == pc' = "return" /\ target' = NULL /\ arg' = NULL /\ node' = NULL

PlaceOf(n, q) == CHOOSE i \in 1 .. Len(q) : q[i] = n

\* The operation is over and has put the new node at place k.
Inserted(k) ==
    /\ Returns
    /\ nodes' = [nodes EXCEPT ![target] = InsertAt(@, k, new)]
    /\ UNCHANGED <<pcb, allocated, state, priority, walk>>

GoesBehindFront == rear[target] # NULL /\ priority[arg] >= priority[pcb[front[target]]]

\* Faulty variant: a new front is not linked from the old one.
enqueue_front_one_way ==
    /\ pc = "enqueue_pri"
    /\ ~GoesBehindFront
    /\ next'  = [next EXCEPT ![new] = front[target]]
    /\ front' = [front EXCEPT ![target] = new]
    /\ rear'  = [rear EXCEPT ![target] = IF @ = NULL THEN new ELSE @]
    /\ UNCHANGED prev
    /\ Inserted(1)

\* The queue is empty or its front is less urgent.
enqueue_front ==
    /\ pc = "enqueue_pri"
    /\ ~GoesBehindFront
    /\ next'  = [next EXCEPT ![new] = front[target]]
    /\ prev'  = [n \in Node |-> IF n = front[target] THEN new ELSE prev[n]]
    /\ front' = [front EXCEPT ![target] = new]
    /\ rear'  = [rear EXCEPT ![target] = IF @ = NULL THEN new ELSE @]
    /\ Inserted(1)

enqueue_scan ==
    /\ pc = "enqueue_pri"
    /\ GoesBehindFront
    /\ node' = front[target]
    /\ pc' = "scan"
    /\ UNCHANGED <<lists, pcb, allocated, state, priority, target, arg, walk, nodes>>

\* Faulty variant: the scan stops in front of an equal priority.
ScanPassesLessOnly == next[node] # NULL /\ priority[arg] > priority[pcb[next[node]]]

ScanGoesOn == next[node] # NULL /\ priority[arg] >= priority[pcb[next[node]]]

scan ==
    /\ pc = "scan"
    /\ ScanGoesOn
    /\ node' = next[node]
    /\ UNCHANGED <<lists, pcb, allocated, state, priority, pc, target, arg, walk, nodes>>

\* Behind compare, where the scan has stopped.
enqueue_behind ==
    /\ pc = "scan"
    /\ ~ScanGoesOn
    /\ next' = [next EXCEPT ![new] = next[node], ![node] = new]
    /\ prev' = [n \in Node |-> IF n = new THEN node
                               ELSE IF n = next[node] THEN new ELSE prev[n]]
    /\ rear' = [rear EXCEPT ![target] = IF next[node] = NULL THEN new ELSE @]
    /\ UNCHANGED front
    /\ Inserted(PlaceOf(node, nodes[target]) + 1)

AtRear == rear[target] # NULL /\ pcb[rear[target]] = arg

enqueue_reg_append ==
    /\ pc = "enqueue_reg"
    /\ ~AtRear
    /\ IF rear[target] = NULL
       THEN /\ front' = [front EXCEPT ![target] = new]
            /\ UNCHANGED <<next, prev>>
       ELSE /\ next' = [next EXCEPT ![rear[target]] = new]
            /\ prev' = [prev EXCEPT ![new] = rear[target]]
            /\ UNCHANGED front
    /\ rear' = [rear EXCEPT ![target] = new]
    /\ Inserted(Len(nodes[target]) + 1)

\* Nothing is to be done, or nothing was found.
ReturnOnly == Returns /\ UNCHANGED <<lists, pcb, allocated, state, priority, walk, nodes>>

\* The PCB is at the rear already: the new node is never used.
enqueue_reg_again ==
    /\ pc = "enqueue_reg"
    /\ AtRear
    /\ ReturnOnly

-----------------------------------------------------------------------------
(***************************************************************************)
(* pcb_remove.                                                             *)
(***************************************************************************)
pcb_remove_call(p) ==
    /\ pc = "return"
    /\ pc' = "dequeue" /\ target' = state[p] /\ arg' = p
    /\ node' = front[state[p]]
    /\ UNCHANGED <<lists, pcb, allocated, state, priority, walk, nodes>>

search ==
    /\ pc = "dequeue" /\ node # NULL /\ pcb[node] # arg
    /\ node' = next[node]
    /\ UNCHANGED <<lists, pcb, allocated, state, priority, pc, target, arg, walk, nodes>>

not_found == pc = "dequeue" /\ node = NULL /\ ReturnOnly

Unlinked ==
    /\ Returns
    /\ nodes' = [nodes EXCEPT ![target] = RemoveAt(@, PlaceOf(node, @))]
    /\ owed' = owed \ {node}
    /\ UNCHANGED <<pcb, allocated, state, priority, cursor>>

unlink_front ==
    /\ pc = "dequeue" /\ node # NULL /\ pcb[node] = arg
    /\ node = front[target]
    /\ front' = [front EXCEPT ![target] = next[node]]
    /\ IF next[node] = NULL
       THEN rear' = [rear EXCEPT ![target] = NULL] /\ UNCHANGED prev
       ELSE prev' = [prev EXCEPT ![next[node]] = NULL] /\ UNCHANGED rear
    /\ UNCHANGED next
    /\ Unlinked

unlink_rear ==
    /\ pc = "dequeue" /\ node # NULL /\ pcb[node] = arg
    /\ node # front[target] /\ node = rear[target]
    /\ rear' = [rear EXCEPT ![target] = prev[node]]
    /\ next' = [next EXCEPT ![prev[node]] = NULL]
    /\ UNCHANGED <<front, prev>>
    /\ Unlinked

\* Faulty variant: the node that goes forgets where it was.
unlink_middle_cleared ==
    /\ pc = "dequeue" /\ node # NULL /\ pcb[node] = arg
    /\ node \notin {front[target], rear[target]}
    /\ next' = [next EXCEPT ![prev[node]] = next[node], ![node] = NULL]
    /\ prev' = [prev EXCEPT ![next[node]] = prev[node]]
    /\ UNCHANGED <<front, rear>>
    /\ Unlinked

\* The node that goes keeps its own pointers, here and above.
unlink_middle ==
    /\ pc = "dequeue" /\ node # NULL /\ pcb[node] = arg
    /\ node \notin {front[target], rear[target]}
    /\ next' = [next EXCEPT ![prev[node]] = next[node]]
    /\ prev' = [prev EXCEPT ![next[node]] = prev[node]]
    /\ UNCHANGED <<front, rear>>
    /\ Unlinked

-----------------------------------------------------------------------------
(***************************************************************************)
(* The walk of show_ready and show_blocked.                                *)
(***************************************************************************)
walk_start ==
    /\ pc = "return" /\ cursor = NULL
    /\ \E s \in CallStates : cursor' = front[s] /\ owed' = {nodes[s][i] : i \in 1 .. Len(nodes[s])}
    /\ UNCHANGED <<lists, pcb, allocated, state, priority, call, nodes>>

\* The process of the node has been printed; the next pointer is read then.
walk_on ==
    /\ pc = "return" /\ cursor # NULL
    /\ cursor' = next[cursor]
    /\ owed' = owed \ {cursor}
    /\ UNCHANGED <<lists, pcb, allocated, state, priority, call, nodes>>

-----------------------------------------------------------------------------
step == \/ enqueue_front \/ enqueue_scan \/ scan \/ enqueue_behind
        \/ enqueue_reg_append \/ enqueue_reg_again
        \/ search \/ not_found \/ unlink_front \/ unlink_rear \/ unlink_middle

LinkedNext ==
    \/ \E p \in Pcb : assign(p) \/ pcb_insert_call(p) \/ pcb_remove_call(p)
    \/ step
    \/ walk_start \/ walk_on

LinkedSpec == LinkedInit /\ [][LinkedNext]_lvars

-----------------------------------------------------------------------------
(***************************************************************************)
(* Properties                                                              *)
(***************************************************************************)

\* The pointers f, r, nx and pv of a list whose nodes are the sequence q.
Linked(q, f, r, nx, pv) ==
    /\ f = IF q = <<>> THEN NULL ELSE q[1]
    /\ r = IF q = <<>> THEN NULL ELSE q[Len(q)]
    /\ \A i \in 1 .. Len(q) :
         /\ nx[q[i]] = IF i = Len(q) THEN NULL ELSE q[i + 1]
         /\ pv[q[i]] = IF i = 1 THEN NULL ELSE q[i - 1]

\* The nodes of the four lists are the sequences qs, and none is in two places.
Lists(qs, f, r, nx, pv) ==
    /\ \A s \in States : Linked(qs[s], f[s], r[s], nx, pv)
    /\ \A s, t \in States : \A i \in 1 .. Len(qs[s]), j \in 1 .. Len(qs[t]) :
         qs[s][i] = qs[t][j] => s = t /\ i = j

\* Between any two steps of any operation, front, rear, next and prev of each
\* queue agree on one sequence of nodes, and no node is in two places: every
\* loop that follows next ends, and nothing is reachable one way only.
Represents == Lists(nodes, front, rear, next, prev)

\* The show functions print every process whose node was in the queue when
\* the walk began and is there when it ends, although the queue changes under
\* the walk and may lose the very node it stands on.
WalkMissesNobody == cursor = NULL => owed = {}

\* The lists implement the queues of ProcessQueue.
Abstract == INSTANCE Queues WITH queue <- Contents

QueuesSpec == Abstract!QueuesSpec
=============================================================================
