------------------------- MODULE ProcessTableProofs -------------------------
(***************************************************************************)
(* The PCB commands keep the four queues in order, for any number of PCBs, *)
(* names and priorities.  The inductive invariant is Inv; what each        *)
(* command does to the queues comes from the lemmas of ProcessQueueProofs. *)
(***************************************************************************)
EXTENDS ProcessTable, ProcessQueueProofs

\* Everything a command can name: the queued PCBs and the one in transit.
Reachable == {p \in Pcb : Queued(queue, p) \/ p = setting}

\* The fields no queue operation reads.
FieldsOK ==
    /\ class \in [Pcb -> Classes]
    /\ name \in [Pcb -> Names]
    /\ allocated \in SUBSET Pcb
    /\ setting \in Pcb \cup {NULL}
    /\ reply \in [cmd : AllCommands, done : BOOLEAN]

\* Only set_pcb_priority has a PCB in its hands, a ready one in no queue.
WindowOK ==
    setting # NULL => ~Queued(queue, setting) /\ state[setting] \in ReadyStates

\* What create_pcb takes from the heap is fresh.
FreshOK == Reachable \subseteq allocated

NamesOK == \A p, q \in Reachable : name[p] = name[q] => p = q

Inv == Orderly(queue, state, priority) /\ FieldsOK /\ WindowOK /\ FreshOK /\ NamesOK

-----------------------------------------------------------------------------
\* Inv contains the checked invariants.
LEMMA InvImplies ==
  ASSUME Inv
  PROVE  TypeOK /\ OneQueueEach /\ ReadyQueuesSorted /\ UniqueNames
<1>1. TypeOK
  BY DEF Inv, Orderly, FieldsOK, TypeOK
<1>2. QueuedByState
  BY DEF Inv, Orderly, QueuedByState, In
<1>3. NoDuplicates
  BY DEF Inv, Orderly, NoDuplicates, Distinct
<1>4. OneQueueEach
  BY <1>2, <1>3 DEF Inv, WindowOK, OneQueueEach
<1>5. ReadyQueuesSorted
  BY DEF Inv, Orderly, ReadyQueuesSorted, Sorted
<1>6. UniqueNames
  BY DEF Inv, NamesOK, Reachable, UniqueNames
<1> QED BY <1>1, <1>4, <1>5, <1>6

LEMMA InitInv ==
  ASSUME Init
  PROVE  Inv
<1>1. \A s \in States : queue[s] = <<>>
  BY DEF Init, EmptyQueues
<1>2. \A x : ~Queued(queue, x)
  BY <1>1 DEF Queued
<1>3. Orderly(queue, state, priority)
  <2>1. queue \in [States -> Seq(Pcb)]
    BY DEF Init, EmptyQueues
  <2>2. state \in [Pcb -> States] /\ priority \in [Pcb -> Priorities]
    BY PriorityAssumption DEF Init, States, ReadyStates, Priorities
  <2>3. \A s \in States : Distinct(queue[s]) /\ \A x : ~In(queue[s], x)
    BY <1>1 DEF Distinct, In
  <2>4. \A s \in ReadyStates : Sorted(queue[s], priority)
    BY <1>1 DEF Sorted, States
  <2> QED BY <2>1, <2>2, <2>3, <2>4 DEF Orderly
<1>4. FieldsOK
  BY DEF Init, FieldsOK, Classes, USER, SYSTEM, AllCommands
<1>5. Reachable = {}
  BY <1>2, PcbAssumption DEF Reachable, Init
<1> QED BY <1>2, <1>3, <1>4, <1>5 DEF Inv, WindowOK, FreshOK, NamesOK, Init

\* What pcb_find answers is a queued PCB of that name, if it answers one.
LEMMA FoundIs ==
  ASSUME Inv, NEW n
  PROVE  LET p == pcb_find(queue, name, n)
         IN  \/ p = NULL /\ \A x : Queued(queue, x) => name[x] # n
             \/ p \in Pcb /\ Queued(queue, p) /\ name[p] = n
<1>1. queue \in [States -> Seq(Pcb)]
  BY DEF Inv, Orderly
<1> QED BY <1>1, PcbFindIs, QueuedIs

\* No node is made, and nothing but the queues and states has changed.
LEMMA FewerReachable ==
  ASSUME Inv, UNCHANGED <<class, name, allocated, setting>>,
         reply' \in [cmd : AllCommands, done : BOOLEAN],
         Orderly(queue', state', priority'),
         \A x : Queued(queue', x) => Queued(queue, x),
         setting # NULL => ~Queued(queue', setting) /\ state'[setting] \in ReadyStates
  PROVE  Inv'
<1>1. Reachable' \subseteq Reachable
  BY DEF Reachable
<1>2. FieldsOK' /\ WindowOK'
  BY DEF Inv, FieldsOK, WindowOK
<1>3. FreshOK' /\ NamesOK'
  BY <1>1 DEF Inv, FreshOK, NamesOK
<1> QED BY <1>2, <1>3 DEF Inv

\* Refusing a command changes nothing but the answer.
LEMMA RefuseInv ==
  ASSUME Inv, NEW cmd \in AllCommands, Refuse(cmd)
  PROVE  Inv'
<1>1. UNCHANGED table /\ reply' = [cmd |-> cmd, done |-> FALSE]
  BY DEF Refuse, Refused
<1> QED BY <1>1, FewerReachable DEF Inv, WindowOK, table

\* A PCB that is dropped leaves the rest in place.
LEMMA DropInv ==
  ASSUME Inv, NEW p \in Pcb, Drop(p), setting = NULL,
         reply' \in [cmd : AllCommands, done : BOOLEAN]
  PROVE  Inv'
<1>1. queue' = pcb_remove(queue, state, p)
      /\ UNCHANGED <<state, priority, class, name, allocated, setting>>
  BY DEF Drop
<1>2. Orderly(queue', state', priority') /\ \A x : Queued(queue', x) => Queued(queue, x)
  BY <1>1, RemoveOrderly DEF Inv
<1> QED BY <1>1, <1>2, FewerReachable

\* A PCB that is moved is in the queue of its new state, and only there.
LEMMA MoveInv ==
  ASSUME Inv, NEW p \in Pcb, NEW s \in States, Queued(queue, p), Move(p, s),
         setting = NULL, reply' \in [cmd : AllCommands, done : BOOLEAN]
  PROVE  Inv'
<1> DEFINE r == pcb_remove(queue, state, p)
<1>1. /\ state' = [state EXCEPT ![p] = s]
      /\ queue' = pcb_insert(r, state', priority, p)
      /\ UNCHANGED <<priority, class, name, allocated, setting>>
  BY DEF Move
<1>2. Orderly(r, state, priority) /\ \A x : Queued(r, x) <=> Queued(queue, x) /\ x # p
  BY RemoveOrderly DEF Inv
<1> HIDE DEF r
<1>3. Orderly(r, state', priority)
  BY <1>1, <1>2, RestateOrderly
<1>4. /\ Orderly(queue', state', priority)
      /\ \A x : Queued(queue', x) <=> Queued(r, x) \/ x = p
  BY <1>1, <1>2, <1>3, InsertOrderly
<1>5. \A x : Queued(queue', x) => Queued(queue, x)
  BY <1>2, <1>4
<1> QED BY <1>1, <1>4, <1>5, FewerReachable

-----------------------------------------------------------------------------
LEMMA CreateInv ==
  ASSUME Inv, setting = NULL, NEW n \in Names, NEW c, NEW pri, create_pcb(n, c, pri)
  PROVE  Inv'
<1>1. CASE Refuse("create")
  BY <1>1, RefuseInv DEF AllCommands
<1>2. CASE CreateValid(n, c, pri) /\ ~Refuse("create")
  <2>1. PICK p \in Pcb \ allocated :
          /\ allocated' = allocated \cup {p}
          /\ name'      = [name EXCEPT ![p] = n]
          /\ class'     = [class EXCEPT ![p] = c]
          /\ priority'  = [priority EXCEPT ![p] = pri]
          /\ state'     = [state EXCEPT ![p] = READY_NOT_SUSPENDED]
          /\ queue'     = pcb_insert(queue, state', priority', p)
          /\ reply' = [cmd |-> "create", done |-> TRUE]
          /\ setting' = setting
    BY <1>2 DEF create_pcb, Done
  <2>2. ~Queued(queue, p)
    BY <2>1 DEF Inv, FreshOK, Reachable
  <2>3. Orderly(queue, state, priority')
    BY <1>2, <2>1, <2>2, ReprioritizeOrderly DEF Inv, CreateValid
  <2>4. Orderly(queue, state', priority')
    BY <2>1, <2>2, <2>3, RestateOrderly DEF States, ReadyStates
  <2>5. /\ Orderly(queue', state', priority')
        /\ \A x : Queued(queue', x) <=> Queued(queue, x) \/ x = p
    BY <2>1, <2>2, <2>4, InsertOrderly
  <2>6. setting' = NULL /\ Reachable = {x \in Pcb : Queued(queue, x)}
    BY <2>1, PcbAssumption DEF Reachable
  <2>7. Reachable' = Reachable \cup {p}
    BY <2>5, <2>6, PcbAssumption DEF Reachable
  <2>8. FieldsOK'
    BY <1>2, <2>1 DEF Inv, FieldsOK, CreateValid, AllCommands
  <2>9. FreshOK'
    BY <2>1, <2>7 DEF Inv, FreshOK
  <2>10. \A x \in Reachable : name[x] # n
    BY <1>2, <2>6, FoundIs, PcbAssumption DEF CreateValid
  <2>11. p \notin Reachable
    BY <2>1 DEF Inv, FreshOK
  <2>12. name'[p] = n /\ \A x \in Reachable : name'[x] = name[x]
    BY <2>1, <2>11 DEF Inv, FieldsOK, Reachable
  <2>13. NamesOK'
    BY <2>7, <2>10, <2>12 DEF Inv, NamesOK
  <2> QED BY <2>5, <2>6, <2>8, <2>9, <2>13 DEF Inv, WindowOK
<1> QED BY <1>1, <1>2 DEF create_pcb

LEMMA DeleteInv ==
  ASSUME Inv, setting = NULL, NEW n \in Names, delete_pcb(n)
  PROVE  Inv'
<1> DEFINE p == pcb_find(queue, name, n)
<1>1. p = NULL \/ p \in Pcb
  BY FoundIs
<1>2. CASE Refuse("delete")
  BY <1>2, RefuseInv DEF AllCommands
<1>3. CASE p # NULL /\ Drop(p) /\ Done("delete")
  BY <1>1, <1>3, DropInv DEF Done, AllCommands
<1> QED BY <1>2, <1>3 DEF delete_pcb

LEMMA BlockInv ==
  ASSUME Inv, setting = NULL, NEW n \in Names, block_pcb(n)
  PROVE  Inv'
<1> DEFINE p == pcb_find(queue, name, n)
<1>1. p = NULL \/ (p \in Pcb /\ Queued(queue, p))
  BY FoundIs
<1>2. CASE Refuse("block")
  BY <1>2, RefuseInv DEF AllCommands
<1>3. CASE p # NULL /\ (\E s \in States : Move(p, s)) /\ Done("block")
  BY <1>1, <1>3, MoveInv DEF Done, AllCommands
<1>4. \/ Refuse("block")
      \/ p # NULL /\ (\E s \in States : Move(p, s)) /\ Done("block")
  BY DEF block_pcb, States, BlockedStates
<1> QED BY <1>2, <1>3, <1>4

\* unblock_pcb, suspend_pcb and resume_pcb have the same three outcomes.
LEMMA OutcomesInv ==
  ASSUME Inv, setting = NULL, NEW p, NEW cmd \in AllCommands,
         p = NULL \/ (p \in Pcb /\ Queued(queue, p)),
         \/ Refuse(cmd)
         \/ p # NULL /\ Drop(p) /\ Refused(cmd)
         \/ p # NULL /\ (\E s \in States : Move(p, s)) /\ Done(cmd)
  PROVE  Inv'
<1>1. CASE Refuse(cmd)
  BY <1>1, RefuseInv
<1>2. CASE p # NULL /\ Drop(p) /\ Refused(cmd)
  BY <1>2, DropInv DEF Refused
<1>3. CASE p # NULL /\ (\E s \in States : Move(p, s)) /\ Done(cmd)
  BY <1>3, MoveInv DEF Done
<1> QED BY <1>1, <1>2, <1>3

LEMMA UnblockInv ==
  ASSUME Inv, setting = NULL, NEW n \in Names, unblock_pcb(n)
  PROVE  Inv'
<1> DEFINE p == pcb_find(queue, name, n)
<1>1. p = NULL \/ (p \in Pcb /\ Queued(queue, p))
  BY FoundIs
<1>2. \/ Refuse("unblock")
      \/ p # NULL /\ Drop(p) /\ Refused("unblock")
      \/ p # NULL /\ (\E s \in States : Move(p, s)) /\ Done("unblock")
  BY DEF unblock_pcb, States, ReadyStates
<1> HIDE DEF p
<1> QED BY <1>1, <1>2, OutcomesInv DEF AllCommands

LEMMA SuspendInv ==
  ASSUME Inv, setting = NULL, NEW n \in Names, suspend_pcb(n)
  PROVE  Inv'
<1> DEFINE p == pcb_find(queue, name, n)
<1>1. p = NULL \/ (p \in Pcb /\ Queued(queue, p))
  BY FoundIs
<1>2. \/ Refuse("suspend")
      \/ p # NULL /\ Drop(p) /\ Refused("suspend")
      \/ p # NULL /\ (\E s \in States : Move(p, s)) /\ Done("suspend")
  BY DEF suspend_pcb, States, ReadyStates, BlockedStates
<1> HIDE DEF p
<1> QED BY <1>1, <1>2, OutcomesInv DEF AllCommands

LEMMA ResumeInv ==
  ASSUME Inv, setting = NULL, NEW n \in Names, resume_pcb(n)
  PROVE  Inv'
<1> DEFINE p == pcb_find(queue, name, n)
<1>1. p = NULL \/ (p \in Pcb /\ Queued(queue, p))
  BY FoundIs
<1>2. \/ Refuse("resume")
      \/ p # NULL /\ Drop(p) /\ Refused("resume")
      \/ p # NULL /\ (\E s \in States : Move(p, s)) /\ Done("resume")
  BY DEF resume_pcb, States, ReadyStates, BlockedStates
<1> HIDE DEF p
<1> QED BY <1>1, <1>2, OutcomesInv DEF AllCommands

\* A ready PCB is in no queue while its priority changes; a blocked one may
\* keep its place, the blocked queues being in no order.
LEMMA PriorityInv ==
  ASSUME Inv, setting = NULL, NEW n \in Names, NEW pri, set_pcb_priority(n, pri)
  PROVE  Inv'
<1> DEFINE p == pcb_find(queue, name, n)
<1>1. p = NULL \/ (p \in Pcb /\ Queued(queue, p))
  BY FoundIs
<1>2. CASE Refuse("priority")
  BY <1>2, RefuseInv DEF AllCommands
<1>3. CASE /\ p # NULL /\ pri \in Priorities
           /\ priority' = [priority EXCEPT ![p] = pri]
           /\ IF state[p] \in BlockedStates
              THEN UNCHANGED <<queue, setting>>
              ELSE queue' = pcb_remove(queue, state, p) /\ setting' = p
           /\ Done("priority")
           /\ UNCHANGED <<state, class, name, allocated>>
  <2> HIDE DEF p
  <2>1. p \in Pcb /\ Queued(queue, p) /\ reply' \in [cmd : AllCommands, done : BOOLEAN]
    BY <1>1, <1>3 DEF Done, AllCommands
  <2>2. CASE state[p] \in BlockedStates
    <3>1. state[p] \notin ReadyStates
      BY <2>2 DEF ReadyStates, BlockedStates, READY_NOT_SUSPENDED, READY_SUSPENDED,
                  BLOCKED_NOT_SUSPENDED, BLOCKED_SUSPENDED
    <3>2. Orderly(queue, state, priority')
      BY <1>3, <2>1, <3>1, ReprioritizeOrderly DEF Inv
    <3> QED BY <1>3, <2>1, <2>2, <3>2, FewerReachable
  <2>3. CASE state[p] \notin BlockedStates
    <3>1. /\ queue' = pcb_remove(queue, state, p) /\ setting' = p
          /\ UNCHANGED <<state, class, name, allocated>>
      BY <1>3, <2>3
    <3>2. /\ Orderly(queue', state, priority)
          /\ \A x : Queued(queue', x) <=> Queued(queue, x) /\ x # p
      BY <2>1, <3>1, RemoveOrderly DEF Inv
    <3>3. Orderly(queue', state', priority')
      BY <1>3, <2>1, <3>1, <3>2, ReprioritizeOrderly
    <3>4. Reachable' = Reachable
      BY <2>1, <3>1, <3>2, PcbAssumption DEF Reachable
    <3>5. state[p] \in ReadyStates
      BY <2>1, <2>3 DEF Inv, Orderly, States
    <3>6. FieldsOK' /\ WindowOK'
      BY <2>1, <3>1, <3>2, <3>5 DEF Inv, FieldsOK, WindowOK
    <3>7. FreshOK' /\ NamesOK'
      BY <3>1, <3>4 DEF Inv, FreshOK, NamesOK
    <3> QED BY <3>3, <3>6, <3>7 DEF Inv
  <2> QED BY <2>2, <2>3
<1> QED BY <1>2, <1>3 DEF set_pcb_priority

LEMMA PriorityEndInv ==
  ASSUME Inv, set_pcb_priority_end
  PROVE  Inv'
<1>1. /\ setting # NULL /\ setting' = NULL
      /\ queue' = pcb_insert(queue, state, priority, setting)
      /\ UNCHANGED <<state, priority, class, name, allocated, reply>>
  BY DEF set_pcb_priority_end
<1>2. setting \in Pcb /\ ~Queued(queue, setting)
  BY <1>1 DEF Inv, FieldsOK, WindowOK
<1>3. /\ Orderly(queue', state', priority')
      /\ \A x : Queued(queue', x) <=> Queued(queue, x) \/ x = setting
  BY <1>1, <1>2, InsertOrderly DEF Inv
<1>4. Reachable' = Reachable
  BY <1>1, <1>2, <1>3, PcbAssumption DEF Reachable
<1>5. FieldsOK' /\ WindowOK'
  BY <1>1 DEF Inv, FieldsOK, WindowOK
<1>6. FreshOK' /\ NamesOK'
  BY <1>1, <1>4 DEF Inv, FreshOK, NamesOK
<1> QED BY <1>3, <1>5, <1>6 DEF Inv

-----------------------------------------------------------------------------
LEMMA StepInv ==
  ASSUME Inv, [Next]_vars
  PROVE  Inv'
<1>1. CASE setting = NULL /\ Command
  <2>1. CASE \E n \in Names, c \in ClassArgs, pri \in PriorityArgs : create_pcb(n, c, pri)
    BY <1>1, <2>1, CreateInv
  <2>2. CASE \E n \in Names : delete_pcb(n)
    BY <1>1, <2>2, DeleteInv
  <2>3. CASE \E n \in Names : block_pcb(n)
    BY <1>1, <2>3, BlockInv
  <2>4. CASE \E n \in Names : unblock_pcb(n)
    BY <1>1, <2>4, UnblockInv
  <2>5. CASE \E n \in Names : suspend_pcb(n)
    BY <1>1, <2>5, SuspendInv
  <2>6. CASE \E n \in Names : resume_pcb(n)
    BY <1>1, <2>6, ResumeInv
  <2>7. CASE \E n \in Names, pri \in PriorityArgs : set_pcb_priority(n, pri)
    BY <1>1, <2>7, PriorityInv
  <2> QED BY <1>1, <2>1, <2>2, <2>3, <2>4, <2>5, <2>6, <2>7 DEF Command
<1>2. CASE set_pcb_priority_end
  BY <1>2, PriorityEndInv
<1>3. CASE UNCHANGED vars
  BY <1>3, FewerReachable DEF vars, Inv, FieldsOK, WindowOK
<1> QED BY <1>1, <1>2, <1>3 DEF Next

\* Inv holds in every state the commands can reach.
THEOREM Invariance == Spec => []Inv
<1>1. Init => Inv
  BY InitInv
<1>2. Inv /\ [Next]_vars => Inv'
  BY StepInv
<1> QED BY <1>1, <1>2, PTL DEF Spec

\* Every field of every PCB keeps its type: state, class and priority stay in
\* the ranges pcb_setup and set_pcb_priority check.
THEOREM TypeCorrect == Spec => []TypeOK
<1>1. Inv => TypeOK
  BY InvImplies
<1> QED BY <1>1, Invariance, PTL

\* No sequence of PCB commands, refused ones included, puts a PCB into two
\* queues, twice into one, or into a queue that its state does not name.
THEOREM OneQueueForEachPcb == Spec => []OneQueueEach
<1>1. Inv => OneQueueEach
  BY InvImplies
<1> QED BY <1>1, Invariance, PTL

\* The ready queues stay in the order of priority under every command,
\* set_pcb_priority and the window in the middle of it included.
THEOREM ReadyInOrder == Spec => []ReadyQueuesSorted
<1>1. Inv => ReadyQueuesSorted
  BY InvImplies
<1> QED BY <1>1, Invariance, PTL

\* No two PCBs that a command can reach have the same name.
THEOREM NamesAreUnique == Spec => []UniqueNames
<1>1. Inv => UniqueNames
  BY InvImplies
<1> QED BY <1>1, Invariance, PTL
-----------------------------------------------------------------------------
(***************************************************************************)
(* What a step may not do.                                                 *)
(***************************************************************************)

LEMMA BehindIs ==
  ASSUME NEW qs, NEW s, NEW x, NEW y
  PROVE  Behind(qs, s, x, y) <=> Before(qs[s], x, y)
BY DEF Behind, Before

\* A step that only takes nodes out changes nobody's turn.
LEMMA FewerKeepTurn ==
  ASSUME Inv, Orderly(queue', state', priority'),
         \A s \in States : \A x, y : Behind(queue', s, x, y) => Behind(queue, s, x, y)
  PROVE  KeepsTurn
<1> SUFFICES ASSUME NEW s \in States, NEW p \in Pcb, NEW q \in Pcb
             PROVE  /\ Behind(queue, s, p, q) => ~Behind(queue', s, q, p)
                    /\ ~In(queue[s], q) => ~Behind(queue', s, q, p)
  BY DEF KeepsTurn, In
<1>1. queue[s] \in Seq(Pcb) /\ Distinct(queue[s])
  BY DEF Inv, Orderly
<1>2. Behind(queue, s, p, q) => ~Behind(queue, s, q, p)
  BY <1>1, OneOrder, BehindIs
<1>3. Behind(queue, s, q, p) => In(queue[s], q)
  BY DEF Behind, In
<1> QED BY <1>2, <1>3

\* p goes into a queue that does not hold it; if it leaves another one for
\* that, r is what it leaves behind.
LEMMA InsertKeepsTurn ==
  ASSUME Inv, NEW p \in Pcb, NEW r, NEW st, NEW pri,
         Orderly(r, st, pri), ~Queued(r, p),
         queue' = pcb_insert(r, st, pri, p), priority' = pri,
         \A s \in States : \A x, y : Behind(r, s, x, y) => Behind(queue, s, x, y),
         \A s \in States : \A x : In(queue[s], x) => In(r[s], x) \/ x = p,
         ~In(queue[st[p]], p)
  PROVE  KeepsTurn
<1> SUFFICES ASSUME NEW s \in States, NEW x \in Pcb, NEW y \in Pcb, Behind(queue', s, y, x)
             PROVE  /\ ~Behind(queue, s, x, y)
                    /\ ~(/\ s \in ReadyStates
                         /\ In(queue[s], x) /\ ~In(queue[s], y)
                         /\ pri[x] = pri[y])
  BY DEF KeepsTurn, In
<1>1. /\ queue[s] \in Seq(Pcb) /\ Distinct(queue[s])
      /\ \A u, v : Behind(queue, s, u, v) => In(queue[s], u) /\ In(queue[s], v)
  BY DEF Inv, Orderly, Behind, In
<1>2. Before(pcb_insert(r, st, pri, p)[s], y, x)
  BY BehindIs
<1>3. CASE x = p
  <2>1. y # p
    <3>1. Orderly(queue', st, pri)
      BY InsertOrderly
    <3>2. queue'[s] \in Seq(Pcb) /\ Distinct(queue'[s])
      BY <3>1 DEF Orderly
    <3> QED BY <1>2, <1>3, <3>2, OneOrder
  <2>2. In(queue'[s], p)
    BY <1>2, <1>3 DEF Before, In
  <2>3. s = st[p]
    <3>1. Orderly(queue', st, pri)
      BY InsertOrderly
    <3> QED BY <2>2, <3>1 DEF Orderly
  <2>4. ~In(queue[s], p)
    BY <2>3
  <2> QED BY <1>1, <1>3, <2>4
<1>4. CASE x # p /\ y = p
  <2>1. s = st[p] /\ (s \in ReadyStates => pri[p] < pri[x])
    BY <1>2, <1>4, InsertOrder
  <2>2. ~In(queue[s], p)
    BY <2>1
  <2>3. pri[p] < pri[x] => pri[x] # pri[y]
    BY <1>4, PriorityAssumption DEF Orderly, Priorities
  <2> QED BY <1>1, <1>4, <2>1, <2>2, <2>3
<1>5. CASE x # p /\ y # p
  <2>1. Behind(r, s, y, x)
    <3>1. Before(r[s], y, x)
      BY <1>2, <1>5, InsertOrder
    <3> QED BY <3>1, BehindIs
  <2>2. Behind(queue, s, y, x)
    BY <2>1
  <2>3. ~Behind(queue, s, x, y)
    BY <1>1, <2>2, OneOrder, BehindIs
  <2> QED BY <1>1, <2>2, <2>3
<1> QED BY <1>3, <1>4, <1>5

LEMMA RefuseKeepsTurn ==
  ASSUME Inv, queue' = queue, state' = state, Orderly(queue', state', priority')
  PROVE  KeepsTurn
BY FewerKeepTurn

LEMMA DropKeepsTurn ==
  ASSUME Inv, NEW p \in Pcb, Drop(p)
  PROVE  KeepsTurn
<1>1. queue' = pcb_remove(queue, state, p) /\ UNCHANGED <<state, priority>>
  BY DEF Drop
<1>2. Orderly(queue, state, priority)
  BY DEF Inv
<1>3. Orderly(queue', state', priority')
  BY <1>1, <1>2, RemoveOrderly
<1>4. ASSUME NEW s \in States, NEW x, NEW y, Behind(queue', s, x, y)
      PROVE  Behind(queue, s, x, y)
  <2>1. Before(pcb_remove(queue, state, p)[s], x, y)
    BY <1>1, <1>4, BehindIs
  <2>2. Before(queue[s], x, y)
    BY <1>2, <2>1, RemoveOrder
  <2> QED BY <2>2, BehindIs
<1> QED BY <1>3, <1>4, FewerKeepTurn

LEMMA MoveKeepsTurn ==
  ASSUME Inv, NEW p \in Pcb, NEW t \in States, t # state[p], Queued(queue, p), Move(p, t)
  PROVE  KeepsTurn
<1> DEFINE r == pcb_remove(queue, state, p)
<1>1. /\ state' = [state EXCEPT ![p] = t]
      /\ queue' = pcb_insert(r, state', priority, p)
      /\ priority' = priority
  BY DEF Move
<1>2. Orderly(queue, state, priority)
  BY DEF Inv
<1>3. Orderly(r, state, priority) /\ \A x : Queued(r, x) <=> Queued(queue, x) /\ x # p
  BY <1>2, RemoveOrderly
<1>4. ASSUME NEW s \in States, NEW x, NEW y, Behind(r, s, x, y)
      PROVE  Behind(queue, s, x, y)
  <2>1. Before(r[s], x, y)
    BY <1>4, BehindIs
  <2>2. Before(queue[s], x, y)
    BY <1>2, <2>1, RemoveOrder
  <2> QED BY <2>2, BehindIs
<1>5. \A s \in States : \A x : In(queue[s], x) => In(r[s], x) \/ x = p
  BY <1>2, PcbRemoveIs DEF Orderly
<1> HIDE DEF r
<1>6. Orderly(r, state', priority)
  BY <1>1, <1>3, RestateOrderly
<1>7. state'[p] = t /\ ~In(queue[t], p)
  BY <1>1, <1>2 DEF Orderly
<1> QED BY <1>1, <1>3, <1>4, <1>5, <1>6, <1>7, InsertKeepsTurn
LEMMA CreateKeepsTurn ==
  ASSUME Inv, setting = NULL, NEW n \in Names, NEW c, NEW pri, create_pcb(n, c, pri)
  PROVE  KeepsTurn
<1>1. CASE Refuse("create")
  BY <1>1, RefuseKeepsTurn DEF Refuse, table, Inv
<1>2. CASE CreateValid(n, c, pri) /\ ~Refuse("create")
  <2>1. PICK p \in Pcb \ allocated :
          /\ priority'  = [priority EXCEPT ![p] = pri]
          /\ state'     = [state EXCEPT ![p] = READY_NOT_SUSPENDED]
          /\ queue'     = pcb_insert(queue, state', priority', p)
    BY <1>2 DEF create_pcb
  <2>2. ~Queued(queue, p)
    BY <2>1 DEF Inv, FreshOK, Reachable
  <2>3. Orderly(queue, state, priority')
    BY <1>2, <2>1, <2>2, ReprioritizeOrderly DEF Inv, CreateValid
  <2>4. Orderly(queue, state', priority')
    BY <2>1, <2>2, <2>3, RestateOrderly DEF States, ReadyStates
  <2>5. state'[p] \in States
    BY <2>4 DEF Orderly
  <2>6. ~In(queue[state'[p]], p)
    BY <2>2, <2>5, QueuedIs
  <2> QED BY <2>1, <2>2, <2>4, <2>6, InsertKeepsTurn
<1> QED BY <1>1, <1>2 DEF create_pcb

LEMMA PriorityKeepsTurn ==
  ASSUME Inv, setting = NULL, NEW n \in Names, NEW pri, set_pcb_priority(n, pri)
  PROVE  KeepsTurn
<1> DEFINE p == pcb_find(queue, name, n)
<1>1. Orderly(queue', state', priority')
  BY PriorityInv DEF Inv
<1>2. p = NULL \/ p \in Pcb
  BY FoundIs
<1>3. CASE queue' = queue
  BY <1>1, <1>3, FewerKeepTurn
<1>4. CASE p # NULL /\ queue' = pcb_remove(queue, state, p)
  <2> HIDE DEF p
  <2>1. ASSUME NEW s \in States, NEW x, NEW y, Behind(queue', s, x, y)
        PROVE  Behind(queue, s, x, y)
    <3>1. Before(pcb_remove(queue, state, p)[s], x, y)
      BY <1>4, <2>1, BehindIs
    <3>2. Before(queue[s], x, y)
      BY <1>2, <1>4, <3>1, RemoveOrder DEF Inv
    <3> QED BY <3>2, BehindIs
  <2> QED BY <1>1, <2>1, FewerKeepTurn
<1> QED BY <1>3, <1>4 DEF set_pcb_priority, Refuse, table

LEMMA PriorityEndKeepsTurn ==
  ASSUME Inv, set_pcb_priority_end
  PROVE  KeepsTurn
<1>1. /\ setting # NULL /\ queue' = pcb_insert(queue, state, priority, setting)
      /\ priority' = priority
  BY DEF set_pcb_priority_end
<1>2. setting \in Pcb /\ ~Queued(queue, setting)
  BY <1>1 DEF Inv, FieldsOK, WindowOK
<1>3. Orderly(queue, state, priority)
  BY DEF Inv
<1>4. state[setting] \in States
  BY <1>2, <1>3 DEF Orderly
<1>5. ~In(queue[state[setting]], setting)
  BY <1>2, <1>4, QueuedIs
<1> QED BY <1>1, <1>2, <1>3, <1>5, InsertKeepsTurn

\* block, unblock, suspend and resume: refused, dropped, or moved to a state
\* that is not the one before.
LEMMA OutcomesKeepTurn ==
  ASSUME Inv, NEW p, NEW cmd, p = NULL \/ (p \in Pcb /\ Queued(queue, p)),
         \/ Refuse(cmd)
         \/ p # NULL /\ Drop(p)
         \/ p # NULL /\ \E s \in States : s # state[p] /\ Move(p, s)
  PROVE  KeepsTurn
<1>1. CASE Refuse(cmd)
  BY <1>1, RefuseKeepsTurn DEF Refuse, table, Inv
<1>2. CASE p # NULL /\ Drop(p)
  BY <1>2, DropKeepsTurn
<1>3. CASE p # NULL /\ \E s \in States : s # state[p] /\ Move(p, s)
  BY <1>3, MoveKeepsTurn
<1> QED BY <1>1, <1>2, <1>3

LEMMA StepKeepsTurn ==
  ASSUME Inv, [Next]_vars
  PROVE  [KeepsTurn]_vars
<1> USE DEF States, ReadyStates, BlockedStates, SuspendedStates, READY_NOT_SUSPENDED,
            READY_SUSPENDED, BLOCKED_NOT_SUSPENDED, BLOCKED_SUSPENDED
<1>1. \A n : LET p == pcb_find(queue, name, n)
             IN  p = NULL \/ (p \in Pcb /\ Queued(queue, p))
  BY FoundIs
<1>2. CASE setting = NULL /\ Command
  <2>1. CASE \E n \in Names, c \in ClassArgs, pri \in PriorityArgs : create_pcb(n, c, pri)
    BY <1>2, <2>1, CreateKeepsTurn
  <2>2. CASE \E n \in Names : delete_pcb(n)
    BY <1>1, <2>2, OutcomesKeepTurn DEF delete_pcb
  <2>3. CASE \E n \in Names : block_pcb(n)
    BY <1>1, <2>3, OutcomesKeepTurn DEF block_pcb
  <2>4. CASE \E n \in Names : unblock_pcb(n)
    BY <1>1, <2>4, OutcomesKeepTurn DEF unblock_pcb
  <2>5. CASE \E n \in Names : suspend_pcb(n)
    BY <1>1, <2>5, OutcomesKeepTurn DEF suspend_pcb
  <2>6. CASE \E n \in Names : resume_pcb(n)
    BY <1>1, <2>6, OutcomesKeepTurn DEF resume_pcb
  <2>7. CASE \E n \in Names, pri \in PriorityArgs : set_pcb_priority(n, pri)
    BY <1>2, <2>7, PriorityKeepsTurn
  <2> QED BY <1>2, <2>1, <2>2, <2>3, <2>4, <2>5, <2>6, <2>7 DEF Command
<1>3. CASE set_pcb_priority_end
  BY <1>3, PriorityEndKeepsTurn
<1>4. CASE UNCHANGED vars
  BY <1>4
<1> QED BY <1>2, <1>3, <1>4 DEF Next

\* No command lets one PCB overtake another in a queue both stay in, and none
\* puts a PCB in front of one of its own priority that was ready before it.
THEOREM TurnsAreKept == Spec => FirstComeFirstServed
<1>1. Inv /\ [Next]_vars => [KeepsTurn]_vars
  BY StepKeepsTurn
<1> QED BY <1>1, Invariance, PTL DEF Spec, FirstComeFirstServed
\* What the tail of block, unblock, suspend and resume does to the queues.
LEMMA MoveKeepsAll ==
  ASSUME Inv, NEW p \in Pcb, NEW t \in States, Queued(queue, p), Move(p, t)
  PROVE  \A x : Queued(queue', x) <=> Queued(queue, x)
<1> DEFINE r == pcb_remove(queue, state, p)
<1>1. /\ state' = [state EXCEPT ![p] = t]
      /\ queue' = pcb_insert(r, state', priority, p)
  BY DEF Move
<1>2. Orderly(r, state, priority) /\ \A x : Queued(r, x) <=> Queued(queue, x) /\ x # p
  BY RemoveOrderly DEF Inv
<1> HIDE DEF r
<1>3. Orderly(r, state', priority)
  BY <1>1, <1>2, RestateOrderly
<1>4. \A x : Queued(queue', x) <=> Queued(r, x) \/ x = p
  BY <1>1, <1>2, <1>3, InsertOrderly
<1> QED BY <1>2, <1>4

LEMMA DropKeepsOthers ==
  ASSUME Inv, NEW p \in Pcb, Drop(p)
  PROVE  \A x : Queued(queue', x) <=> Queued(queue, x) /\ x # p
BY RemoveOrderly DEF Inv, Drop

LEMMA CreateKeepsAll ==
  ASSUME Inv, NEW n \in Names, NEW c, NEW pri, create_pcb(n, c, pri)
  PROVE  /\ \A x : Queued(queue, x) => Queued(queue', x)
         /\ setting' = setting
         /\ \A x \in allocated : state'[x] = state[x]
<1>1. CASE Refuse("create")
  BY <1>1 DEF Refuse, table
<1>2. CASE CreateValid(n, c, pri) /\ ~Refuse("create")
  <2>1. PICK p \in Pcb \ allocated :
          /\ priority'  = [priority EXCEPT ![p] = pri]
          /\ state'     = [state EXCEPT ![p] = READY_NOT_SUSPENDED]
          /\ queue'     = pcb_insert(queue, state', priority', p)
          /\ setting'   = setting
    BY <1>2 DEF create_pcb
  <2>2. ~Queued(queue, p)
    BY <2>1 DEF Inv, FreshOK, Reachable
  <2>3. Orderly(queue, state, priority')
    BY <1>2, <2>1, <2>2, ReprioritizeOrderly DEF Inv, CreateValid
  <2>4. Orderly(queue, state', priority')
    BY <2>1, <2>2, <2>3, RestateOrderly DEF States, ReadyStates
  <2>5. \A x : Queued(queue', x) <=> Queued(queue, x) \/ x = p
    BY <2>1, <2>2, <2>4, InsertOrderly
  <2>6. \A x \in allocated : state'[x] = state[x]
    BY <2>1 DEF Inv, Orderly, FieldsOK
  <2> QED BY <2>1, <2>5, <2>6
<1> QED BY <1>1, <1>2 DEF create_pcb

\* Only a ready PCB leaves its queue, and into the hands of the command.
LEMMA PriorityKeepsAll ==
  ASSUME Inv, setting = NULL, NEW n \in Names, NEW pri, set_pcb_priority(n, pri)
  PROVE  /\ \A x : Queued(queue, x) => Queued(queue', x) \/ setting' = x
         /\ state' = state
<1> DEFINE p == pcb_find(queue, name, n)
<1>1. p = NULL \/ p \in Pcb
  BY FoundIs
<1>2. CASE queue' = queue /\ state' = state
  BY <1>2
<1>3. CASE p # NULL /\ queue' = pcb_remove(queue, state, p) /\ setting' = p /\ state' = state
  <2>1. \A x : Queued(queue', x) <=> Queued(queue, x) /\ x # p
    BY <1>1, <1>3, RemoveOrderly DEF Inv
  <2> QED BY <1>3, <2>1
<1> QED BY <1>2, <1>3 DEF set_pcb_priority, Refuse, table

LEMMA PriorityEndKeepsAll ==
  ASSUME Inv, set_pcb_priority_end
  PROVE  \A x : Queued(queue', x) <=> Queued(queue, x) \/ x = setting
<1>1. setting # NULL /\ queue' = pcb_insert(queue, state, priority, setting)
  BY DEF set_pcb_priority_end
<1>2. setting \in Pcb /\ ~Queued(queue, setting)
  BY <1>1 DEF Inv, FieldsOK, WindowOK
<1> QED BY <1>1, <1>2, InsertOrderly DEF Inv

LEMMA StepLeavesOnlyBy ==
  ASSUME Inv, [Next]_vars
  PROVE  LeavesOnlyBy
<1> SUFFICES ASSUME NEW x \in Pcb, Queued(queue, x), ~Queued(queue', x)
             PROVE  \/ reply' = [cmd |-> "delete", done |-> TRUE]
                    \/ setting' = x
                    \/ ~reply'.done /\ reply'.cmd \in {"suspend", "resume", "unblock"}
  BY DEF LeavesOnlyBy
<1> USE DEF States, ReadyStates, BlockedStates, Done, Refused
<1>1. ASSUME NEW n \in Names
      PROVE  LET p == pcb_find(queue, name, n)
             IN  p = NULL \/ (p \in Pcb /\ Queued(queue, p))
  BY FoundIs
<1>2. queue' # queue
  OBVIOUS
<1>3. \A cmd : ~Refuse(cmd)
  BY <1>2 DEF Refuse, table
<1>4. ASSUME NEW p \in Pcb, NEW t \in States, Queued(queue, p) PROVE ~Move(p, t)
  BY <1>4, MoveKeepsAll
<1>5. CASE setting = NULL /\ Command
  <2>1. CASE \E n \in Names, c \in ClassArgs, pri \in PriorityArgs : create_pcb(n, c, pri)
    BY <2>1, CreateKeepsAll
  <2>2. CASE \E n \in Names : delete_pcb(n)
    BY <1>3, <2>2 DEF delete_pcb
  <2>3. CASE \E n \in Names : block_pcb(n)
    BY <1>1, <1>3, <1>4, <2>3 DEF block_pcb
  <2>4. CASE \E n \in Names : unblock_pcb(n)
    BY <1>1, <1>3, <1>4, <2>4 DEF unblock_pcb
  <2>5. CASE \E n \in Names : suspend_pcb(n)
    BY <1>1, <1>3, <1>4, <2>5 DEF suspend_pcb
  <2>6. CASE \E n \in Names : resume_pcb(n)
    BY <1>1, <1>3, <1>4, <2>6 DEF resume_pcb
  <2>7. CASE \E n \in Names, pri \in PriorityArgs : set_pcb_priority(n, pri)
    BY <1>5, <2>7, PriorityKeepsAll
  <2> QED BY <1>5, <2>1, <2>2, <2>3, <2>4, <2>5, <2>6, <2>7 DEF Command
<1>6. CASE set_pcb_priority_end
  BY <1>6, PriorityEndKeepsAll
<1>7. CASE UNCHANGED vars
  BY <1>2, <1>7 DEF vars
<1> QED BY <1>5, <1>6, <1>7 DEF Next

\* A PCB leaves the queues by being deleted, through the hands of
\* set_pcb_priority, or by the early return of a refused suspend, resume or
\* unblock; nothing else loses it.
THEOREM NothingElseLosesPcbs == Spec => PcbsLeaveOnlyBy
<1>1. Inv /\ [Next]_vars => [LeavesOnlyBy]_vars
  BY StepLeavesOnlyBy
<1> QED BY <1>1, Invariance, PTL DEF Spec, PcbsLeaveOnlyBy

-----------------------------------------------------------------------------
\* The step SystemProcessesStay allows.
SystemStays ==
    \A p \in allocated :
        class[p] = SYSTEM /\ Schedulable(p) =>
            Schedulable(p)' \/ reply' = [cmd |-> "unblock", done |-> FALSE]

LEMMA StepSystemStays ==
  ASSUME Inv, [Next]_vars
  PROVE  SystemStays
<1> SUFFICES ASSUME NEW x \in allocated, class[x] = SYSTEM, Schedulable(x),
                    reply' # [cmd |-> "unblock", done |-> FALSE]
             PROVE  Schedulable(x)'
  BY DEF SystemStays
<1>0. /\ x \in Pcb /\ state[x] = READY_NOT_SUSPENDED
      /\ Queued(queue, x) \/ setting = x
  BY DEF Inv, FieldsOK, Schedulable
\* What keeps x schedulable.
<1>1. ASSUME state'[x] = READY_NOT_SUSPENDED, Queued(queue', x) \/ setting' = x
      PROVE  Schedulable(x)'
  BY <1>1 DEF Schedulable
<1>2. ASSUME NEW n \in Names
      PROVE  LET p == pcb_find(queue, name, n)
             IN  p = NULL \/ (p \in Pcb /\ Queued(queue, p))
  BY FoundIs
<1>3. ASSUME NEW cmd, Refuse(cmd) PROVE Schedulable(x)'
  BY <1>0, <1>1, <1>3 DEF Refuse, table
<1>4. ASSUME NEW p \in Pcb, p # x, setting = NULL, Drop(p) PROVE Schedulable(x)'
  <2>1. Queued(queue, x)
    BY <1>0, <1>4, PcbAssumption
  <2>2. state' = state
    BY <1>4 DEF Drop
  <2>3. Queued(queue', x)
    BY <1>4, <2>1, DropKeepsOthers
  <2> QED BY <1>0, <1>1, <2>2, <2>3
<1>5. ASSUME NEW p \in Pcb, NEW t \in States, p # x, Queued(queue, p), setting = NULL, Move(p, t)
      PROVE  Schedulable(x)'
  <2>1. Queued(queue, x)
    BY <1>0, <1>5, PcbAssumption
  <2>2. state'[x] = state[x]
    BY <1>0, <1>5 DEF Move, Inv, Orderly
  <2>3. Queued(queue', x)
    BY <1>5, <2>1, MoveKeepsAll
  <2> QED BY <1>0, <1>1, <2>2, <2>3
<1> USE DEF States, ReadyStates, BlockedStates, SuspendedStates, READY_NOT_SUSPENDED,
            READY_SUSPENDED, BLOCKED_NOT_SUSPENDED, BLOCKED_SUSPENDED
<1>6. CASE setting = NULL /\ Command
  <2>1. CASE \E n \in Names, c \in ClassArgs, pri \in PriorityArgs : create_pcb(n, c, pri)
    BY <1>0, <1>1, <2>1, CreateKeepsAll
  <2>2. CASE \E n \in Names : delete_pcb(n)
    BY <1>2, <1>3, <1>4, <1>6, <2>2 DEF delete_pcb
  <2>3. CASE \E n \in Names : block_pcb(n)
    BY <1>2, <1>3, <1>5, <1>6, <2>3 DEF block_pcb
  \* The only command that asks for no class: it drops a ready process.
  <2>4. CASE \E n \in Names : unblock_pcb(n)
    BY <1>0, <1>2, <1>3, <1>5, <1>6, <2>4 DEF unblock_pcb, Refused
  <2>5. CASE \E n \in Names : suspend_pcb(n)
    BY <1>2, <1>3, <1>4, <1>5, <1>6, <2>5 DEF suspend_pcb
  <2>6. CASE \E n \in Names : resume_pcb(n)
    BY <1>2, <1>3, <1>4, <1>5, <1>6, <2>6 DEF resume_pcb
  <2>7. CASE \E n \in Names, pri \in PriorityArgs : set_pcb_priority(n, pri)
    <3>1. Queued(queue, x)
      BY <1>0, <1>6, PcbAssumption
    <3>2. (Queued(queue', x) \/ setting' = x) /\ state' = state
      BY <1>6, <2>7, <3>1, PriorityKeepsAll
    <3> QED BY <1>0, <1>1, <3>2
  <2> QED BY <1>6, <2>1, <2>2, <2>3, <2>4, <2>5, <2>6, <2>7 DEF Command
<1>7. CASE set_pcb_priority_end
  <2>1. state' = state
    BY <1>7 DEF set_pcb_priority_end
  <2>2. Queued(queue', x)
    BY <1>0, <1>7, PriorityEndKeepsAll
  <2> QED BY <1>0, <1>1, <2>1, <2>2
<1>8. CASE UNCHANGED vars
  BY <1>0, <1>1, <1>8 DEF vars
<1> QED BY <1>6, <1>7, <1>8 DEF Next

\* Nothing the user types, unblock apart, takes a ready system process from the
\* dispatcher: create's, delete's and the others' checks of the class suffice.
THEOREM SystemProcessesAreSpared == Spec => SystemProcessesStay
<1>1. Inv /\ [Next]_vars => [SystemStays]_vars
  BY StepSystemStays
<1> QED BY <1>1, Invariance, PTL DEF Spec, SystemProcessesStay, SystemStays
=============================================================================
