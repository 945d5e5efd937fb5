----------------------------- MODULE MpxProofs ------------------------------
(***************************************************************************)
(* The programs of Mpx do nothing that Kernel does not allow: with them    *)
(* the system implements KernelSpec, and what is proved of the kernel      *)
(* under any programs holds of the system kmain starts.  Without test      *)
(* processes more can be said: where comhand and sys_idle are in the       *)
(* queues, and hence that neither is ever in them twice.                   *)
(***************************************************************************)
EXTENDS Mpx, KernelProofs

\* load_r3 has processes to load, and every command that a line leads to is
\* there.
WholeSystem ==
    /\ "load_r3" \in Lines => Tests # <<>>
    /\ {"create", "delete", "suspend", "resume", "priority", "shutdown"} \subseteq Commands

\* What the operator can have left in the buffer.
Inputs == Lines \cup Answers \cup {NO_LINE}

\* M are the labels of more programs: the alarms bring their own.
ProgramsTypeOK(M) ==
    /\ pc \in [Pcb -> Labels \cup M]
    /\ left \in [Pcb -> Nat]
    /\ line \in Inputs

\* A program that counts its messages has one left, and load_r3 counts no
\* further than the processes it loads.
Counts ==
    /\ pc[comhand] \in {"greet", "load", "print", "clear"} => left[comhand] > 0
    /\ pc[comhand] = "load" => left[comhand] <= Len(Tests)
    /\ \A p \in TestSet : pc[p] \in {"write", "yield"} => left[p] > 0

\* set_pcb_priority holds a PCB only while comhand is in that command.
Settings == setting # NULL => pc[comhand] \in {"print", "reinsert"}

ProgramsInv(M) == ProgramsTypeOK(M) /\ Counts /\ Settings

-----------------------------------------------------------------------------
LEMMA Loaded ==
  /\ comhand \in Pcb /\ sys_idle \in Pcb /\ comhand # sys_idle
  /\ \A p \in TestSet : p \in Pcb /\ p # comhand /\ p # sys_idle
  /\ Tests \in Seq(TestSet)
<1>1. Tests \in Seq(Pcb \ {comhand, sys_idle})
  BY TestsAssumption
<1>2. \A i \in 1 .. Len(Tests) : Tests[i] \in TestSet
  BY <1>1 DEF TestSet, Range
<1>3. TestSet \subseteq Pcb \ {comhand, sys_idle}
  BY <1>1 DEF TestSet, Range
<1> QED
  BY <1>1, <1>2, <1>3, LoadedAssumption

\* A system call of a program is one of the kernel's.
LEMMA CallsAreKernelSteps ==
  /\ yield /\ current \in Pcb \cup {NULL} => KernelNext /\ setting' = setting /\ line' = line
  /\ write /\ current # sys_idle => KernelNext /\ setting' = setting /\ line' = NO_LINE
  /\ exit /\ current # sys_idle => KernelNext /\ setting' = setting /\ line' = line
  /\ \A len \in {0, MaxLength} :
       sys_call(io_call("READ", len)) /\ current # sys_idle => KernelNext /\ setting' = setting
<1>1. MaxLength \in 0 .. MaxLength /\ 0 \in 0 .. MaxLength
  BY RangeAssumption
<1>2. ASSUME yield PROVE KernelNext /\ setting' = setting /\ line' = line
  BY <1>2 DEF yield, sys_call, any_call, KernelNext
<1>3. ASSUME write, current # sys_idle PROVE KernelNext /\ setting' = setting /\ line' = NO_LINE
  BY <1>1, <1>3 DEF write, sys_call, any_call, KernelNext
<1>4. ASSUME exit, current # sys_idle PROVE KernelNext /\ setting' = setting /\ line' = line
  BY <1>4 DEF exit, sys_call, any_call, KernelNext
<1>5. ASSUME NEW len \in {0, MaxLength}, sys_call(io_call("READ", len)), current # sys_idle
      PROVE  KernelNext /\ setting' = setting
  BY <1>1, <1>5 DEF sys_call, any_call, KernelNext
<1> QED
  BY <1>2, <1>3, <1>4, <1>5

\* The commands on named PCBs, create and the rest are commands of Kernel's
\* comhand.
LEMMA CommandsAreKernelSteps ==
  ASSUME WholeSystem, KernelTypeOK, current = comhand, ~halted
  PROVE  /\ setting = NULL /\ Effect(pcb_line) => KernelNext
         /\ \A p \in TestSet :
              setting = NULL /\ Effect(create_pcb(TestName[p], USER, USER_PRIORITY))
                 => KernelNext /\ setting' = setting
         /\ \A i \in 1 .. Len(ready) :
              Effect(Drop(ready[i]) /\ UNCHANGED reply) => KernelNext /\ setting' = setting
         /\ set_pcb_priority_end /\ UNCHANGED kernel => KernelNext
<1>1. ASSUME setting = NULL, Effect(pcb_line) PROVE KernelNext
  <2>1. Typed \subseteq Names /\ {1, USER_PRIORITY, MAX_PRIORITY} \subseteq Priorities
    BY TestsAssumption, RangeAssumption, PriorityAssumption DEF Priorities
  <2>2. pcb_line => table_command
    BY <1>1, <2>1 DEF pcb_line, table_command, WholeSystem
  <2> QED
    BY <1>1, <2>2 DEF Effect, pcb_command, KernelNext
<1>2. ASSUME NEW p \in TestSet, setting = NULL,
             Effect(create_pcb(TestName[p], USER, USER_PRIORITY))
      PROVE  KernelNext /\ setting' = setting
  <2>1. TestName[p] \in Names \ {comhand_name, sys_idle_name}
    BY TestsAssumption
  <2>2. create_pcb(TestName[p], USER, USER_PRIORITY) => table_command
    BY <1>2, <2>1 DEF table_command, WholeSystem
  <2>3. setting' = setting
    BY <1>2 DEF Effect, create_pcb, Refuse, table
  <2> QED
    BY <1>2, <2>2, <2>3 DEF Effect, pcb_command, KernelNext
<1>3. ASSUME NEW i \in 1 .. Len(ready), Effect(Drop(ready[i]) /\ UNCHANGED reply)
      PROVE  KernelNext /\ setting' = setting
  <2>1. Drop(ready[i]) /\ UNCHANGED reply => table_command
    BY <1>3 DEF table_command, WholeSystem
  <2> QED
    BY <1>3, <2>1 DEF Effect, Drop, pcb_command, KernelNext
<1>4. ASSUME set_pcb_priority_end, UNCHANGED kernel PROVE KernelNext
  <2>1. setting \in Pcb /\ queue \in Queues /\ state \in [Pcb -> States]
        /\ priority \in [Pcb -> Priorities]
    BY <1>4 DEF KernelTypeOK, TypeOK, Queues, set_pcb_priority_end
  <2>2. \A x : Queued(queue, x) => Queued(queue', x)
    BY <1>4, <2>1, InsertKeeps DEF set_pcb_priority_end
  <2>3. gone' = gone \cup {p \in Pcb : Queued(queue, p) /\ ~Queued(queue', p) /\ p # setting'}
    BY <1>4, <2>2 DEF kernel
  <2>4. Effect(table_command)
    BY <1>4, <2>3 DEF Effect, table_command, kernel
  <2> QED
    BY <2>4 DEF KernelNext, pcb_command
<1> QED
  BY <1>1, <1>2, <1>3, <1>4

-----------------------------------------------------------------------------
LEMMA ProgramsInit ==
  ASSUME NEW M, MpxInit PROVE ProgramsInv(M) /\ KernelInit
<1>1. ProgramsTypeOK(M)
  <2>1. \A p \in TestSet : Iterations[p] \in Nat
    BY TestsAssumption
  <2> QED
    BY <2>1, Loaded DEF MpxInit, ProgramsTypeOK, Labels, NO_LINE, Inputs
<1>2. Counts
  <2>1. \A p \in TestSet : Iterations[p] \in Nat \ {0}
    BY TestsAssumption
  <2> QED
    BY <2>1, Loaded DEF MpxInit, Counts
<1>3. Settings
  BY DEF MpxInit, KernelInit, Settings
<1> QED
  BY <1>1, <1>2, <1>3 DEF ProgramsInv, MpxInit

-----------------------------------------------------------------------------
LEMMA ReadyIs ==
  ASSUME KernelTypeOK PROVE ready \in Seq(Pcb) /\ Len(ready) \in Nat
BY DEF KernelTypeOK, TypeOK, ready, States, ReadyStates

\* comhand counts and moves on; the others stay where they are.
LEMMA ComhandMoves ==
  ASSUME NEW M, ProgramsInv(M), NEW l \in Labels \cup M, NEW n \in Nat,
         pc' = [pc EXCEPT ![comhand] = l],
         left' = [left EXCEPT ![comhand] = n],
         line' \in Inputs,
         l \in {"greet", "load", "print", "clear"} => n > 0,
         l = "load" => n <= Len(Tests),
         setting' # NULL => l \in {"print", "reinsert"}
  PROVE  ProgramsInv(M)'
<1>1. ProgramsTypeOK(M)'
  BY DEF ProgramsInv, ProgramsTypeOK
<1>2. Counts'
  BY Loaded DEF ProgramsInv, ProgramsTypeOK, Counts
<1>3. Settings'
  BY Loaded DEF ProgramsInv, ProgramsTypeOK, Settings
<1> QED
  BY <1>1, <1>2, <1>3 DEF ProgramsInv

\* Every step of comhand is one of the kernel's.
LEMMA ComhandSteps ==
  ASSUME WholeSystem, NEW M, KInv, ProgramsInv(M), comhand_step
  PROVE  [KernelNext]_kvars /\ ProgramsInv(M)'
<1> USE DEF At, Goto, Labels
<1>1. /\ ~halted /\ current = comhand /\ current # sys_idle /\ KernelTypeOK
      /\ line \in Inputs /\ NO_LINE \in Inputs
  BY Loaded DEF comhand_step, greet, read, parse, load_r3, print, reinsert, ask, question,
                free, wait, answer, confirm, shutdown, goodbye, comhand_exit, end, idle, KInv,
                ProgramsInv, ProgramsTypeOK, Inputs
<1>2. CASE greet
  <2>1. left[comhand] \in Nat /\ left[comhand] > 0 /\ setting = NULL
    BY <1>1, <1>2, Loaded DEF greet, ProgramsInv, ProgramsTypeOK, Counts, Settings
  <2>2. KernelNext /\ setting' = setting /\ line' = NO_LINE
    BY <1>1, <1>2, CallsAreKernelSteps DEF greet, Message
  <2> DEFINE n == left[comhand] - 1
             l == IF left[comhand] = 1 THEN "read" ELSE "greet"
  <2>3. pc' = [pc EXCEPT ![comhand] = l] /\ left' = [left EXCEPT ![comhand] = n]
    BY <1>1, <1>2, Loaded DEF greet, Message, ProgramsInv, ProgramsTypeOK
  <2>4. n \in Nat /\ l \in Labels \cup M /\ (l \in {"greet", "load", "print", "clear"} => n > 0)
        /\ l # "load"
    BY <2>1
  <2> HIDE DEF n, l
  <2> QED
    BY <1>1, <2>1, <2>2, <2>3, <2>4, ComhandMoves
<1>3. CASE read
  BY <1>1, <1>3, CallsAreKernelSteps, Loaded
     DEF read, ProgramsInv, ProgramsTypeOK, Counts, Settings
<1>4. CASE end
  BY <1>1, <1>4, Loaded
     DEF end, comhand_reset, Free, Device, vars, KernelNext, ProgramsInv, ProgramsTypeOK, Counts, Settings
<1>5. CASE idle
  BY <1>1, <1>5, CallsAreKernelSteps, Loaded
     DEF idle, ProgramsInv, ProgramsTypeOK, Counts, Settings, KernelTypeOK
<1>6. CASE comhand_exit
  BY <1>1, <1>6, CallsAreKernelSteps, Loaded
     DEF comhand_exit, ProgramsInv, ProgramsTypeOK, Counts, Settings
<1>7. CASE goodbye
  BY <1>1, <1>7, CallsAreKernelSteps, Loaded
     DEF goodbye, ProgramsInv, ProgramsTypeOK, Counts, Settings
<1>8. CASE reinsert
  BY <1>1, <1>8, CommandsAreKernelSteps, Loaded
     DEF reinsert, set_pcb_priority_end, ProgramsInv, ProgramsTypeOK, Counts, Settings
<1>9. CASE print
  <2>1. left[comhand] \in Nat /\ left[comhand] > 0
    BY <1>1, <1>9, Loaded DEF print, ProgramsInv, ProgramsTypeOK, Counts
  <2>2. KernelNext /\ setting' = setting /\ line' = NO_LINE
    BY <1>1, <1>9, CallsAreKernelSteps DEF print, Message
  <2> DEFINE n == left[comhand] - 1
             l == IF left[comhand] = 1
                  THEN IF setting = NULL THEN "end" ELSE "reinsert"
                  ELSE "print"
  <2>3. pc' = [pc EXCEPT ![comhand] = l] /\ left' = [left EXCEPT ![comhand] = n]
    BY <1>1, <1>9, Loaded DEF print, Message, ProgramsInv, ProgramsTypeOK
  <2>4. n \in Nat /\ l \in Labels \cup M /\ (l \in {"greet", "load", "print", "clear"} => n > 0)
        /\ l # "load" /\ (setting # NULL => l \in {"print", "reinsert"})
    BY <2>1
  <2> HIDE DEF n, l
  <2> QED
    BY <1>1, <2>2, <2>3, <2>4, ComhandMoves
<1>10. CASE shutdown
  <2>1. left[comhand] \in Nat /\ left[comhand] > 0 /\ setting = NULL /\ line' = line
    BY <1>1, <1>10, Loaded DEF shutdown, ProgramsInv, ProgramsTypeOK, Counts, Settings
  <2>2. CASE left[comhand] > Len(ready)
    <3>1. UNCHANGED <<kvars, left>> /\ pc' = [pc EXCEPT ![comhand] = "goodbye"]
      BY <1>10, <2>2, <2>1, ReadyIs DEF shutdown
    <3>2. left' = [left EXCEPT ![comhand] = left[comhand]] /\ setting' = NULL
      BY <3>1, <2>1, Loaded DEF ProgramsInv, ProgramsTypeOK, kvars, vars
    <3> QED
      BY <1>1, <3>1, <3>2, <2>1, ComhandMoves DEF ProgramsInv, ProgramsTypeOK
  <2>3. CASE left[comhand] <= Len(ready)
    <3>1. Effect(Drop(ready[left[comhand]]) /\ UNCHANGED reply) /\ pc' = pc
      BY <1>10, <2>3, <2>1, <1>1, ReadyIs DEF shutdown
    <3>2. KernelNext /\ setting' = setting
      BY <1>1, <2>1, <2>3, <3>1, CommandsAreKernelSteps, ReadyIs
    <3> DEFINE n == IF Len(ready') < Len(ready) THEN left[comhand] ELSE left[comhand] + 1
    <3>3. n \in Nat /\ n > 0
      BY <2>1
    <3>4. left' = IF Len(ready') < Len(ready) THEN left
                  ELSE [left EXCEPT ![comhand] = left[comhand] + 1]
      BY <1>1, <1>10, <2>1, <2>3, ReadyIs DEF shutdown
    <3>5. left = [left EXCEPT ![comhand] = left[comhand]]
      BY Loaded DEF ProgramsInv, ProgramsTypeOK
    <3>6. left' = [left EXCEPT ![comhand] = n]
      BY <3>4, <3>5
    <3>7. pc' = [pc EXCEPT ![comhand] = "clear"] /\ pc[comhand] = "clear"
      BY <1>10, <3>1, Loaded DEF shutdown, ProgramsInv, ProgramsTypeOK
    <3> HIDE DEF n
    <3> QED
      BY <1>1, <2>1, <3>2, <3>3, <3>7, <3>6, ComhandMoves DEF ProgramsInv, ProgramsTypeOK
  <2> QED
    BY <2>1, <2>2, <2>3, <1>1, ReadyIs
<1>11. CASE load_r3
  <2> DEFINE p == Tests[Len(Tests) + 1 - left[comhand]]
             n == left[comhand] - 1
             l == IF left[comhand] = 1 THEN "end" ELSE "load"
  <2>1. pc[comhand] = "load" /\ line' = line
    BY <1>11 DEF load_r3
  <2>2. left[comhand] \in Nat /\ left[comhand] > 0 /\ left[comhand] <= Len(Tests)
    BY <2>1, Loaded DEF ProgramsInv, ProgramsTypeOK, Counts
  <2>3. setting = NULL
    BY <2>1 DEF ProgramsInv, Settings
  <2>4. left[comhand] \in 1 .. Len(Tests) /\ setting = NULL /\ line' = line
    BY <2>1, <2>2, <2>3, Loaded
  <2>5. p \in TestSet
    BY <2>4, Loaded
  <2>6. Effect(create_pcb(TestName[p], USER, USER_PRIORITY))
    BY <1>11 DEF load_r3
  <2>7. KernelNext /\ setting' = setting
    BY <1>1, <2>4, <2>5, <2>6, CommandsAreKernelSteps
  <2>8. pc' = [pc EXCEPT ![comhand] = l] /\ left' = [left EXCEPT ![comhand] = n]
    BY <1>1, <1>11, Loaded DEF load_r3, ProgramsInv, ProgramsTypeOK
  <2>9. n \in Nat /\ l \in Labels \cup M /\ (l \in {"greet", "load", "print", "clear"} => n > 0)
        /\ (l = "load" => n <= Len(Tests))
    BY <2>4, Loaded
  <2> HIDE DEF n, l
  <2> QED
    BY <1>1, <2>4, <2>7, <2>8, <2>9, ComhandMoves DEF ProgramsInv, ProgramsTypeOK
<1>12. CASE parse
  <2>1. left[comhand] \in Nat /\ setting = NULL /\ line' = NO_LINE
    BY <1>12, Loaded DEF parse, ProgramsInv, ProgramsTypeOK, Settings
  <2>2. CASE line = NO_LINE /\ Goto(comhand, "end") /\ UNCHANGED <<kvars, left>>
    <3>1. left' = [left EXCEPT ![comhand] = left[comhand]] /\ setting' = NULL
      BY <2>2, <2>1, Loaded DEF ProgramsInv, ProgramsTypeOK, kvars, vars
    <3> QED
      BY <1>1, <2>1, <2>2, <3>1, ComhandMoves
  <2>3. CASE line = "print" /\ (\E n \in 1 .. MaxPrints : Report(n)) /\ UNCHANGED kvars
    <3>1. PICK n \in 1 .. MaxPrints : Report(n)
      BY <2>3
    <3>2. n \in Nat /\ n > 0 /\ setting' = NULL
      BY <2>1, <2>3 DEF kvars, vars
    <3> QED
      BY <1>1, <2>1, <2>3, <3>1, <3>2, ComhandMoves DEF Report
  <2>4. CASE /\ line = "load_r3" /\ Goto(comhand, "load") /\ UNCHANGED kvars
             /\ left' = [left EXCEPT ![comhand] = Len(Tests)]
    <3> DEFINE n == Len(Tests)
    <3>1. n \in Nat /\ n > 0 /\ n <= Len(Tests) /\ setting' = NULL
      BY <1>1, <2>1, <2>4, Loaded DEF WholeSystem, Inputs, Answers, NO_LINE, kvars, vars
    <3>2. left' = [left EXCEPT ![comhand] = n]
      BY <2>4
    <3> HIDE DEF n
    <3> QED
      BY <1>1, <2>1, <2>4, <3>1, <3>2, ComhandMoves
  <2>5. CASE Effect(pcb_line)
    <3>1. KernelNext
      BY <1>1, <2>1, <2>5, CommandsAreKernelSteps
    <3> DEFINE n == 1
    <3>2. pc' = [pc EXCEPT ![comhand] = "print"] /\ left' = [left EXCEPT ![comhand] = n]
      BY <2>5 DEF Effect, pcb_line, Report
    <3>3. n \in Nat /\ n > 0
      OBVIOUS
    <3> HIDE DEF n
    <3> QED
      BY <1>1, <2>1, <3>1, <3>2, <3>3, ComhandMoves
  <2>6. CASE line = "shutdown" /\ Goto(comhand, "ask") /\ UNCHANGED <<kvars, left>>
    <3>1. left' = [left EXCEPT ![comhand] = left[comhand]] /\ setting' = NULL
      BY <2>6, <2>1, Loaded DEF ProgramsInv, ProgramsTypeOK, kvars, vars
    <3> QED
      BY <1>1, <2>1, <2>6, <3>1, ComhandMoves
  <2>7. CASE line = "shutdown!" /\ Shutdown /\ UNCHANGED kvars
    <3> DEFINE n == 1
    <3>1. setting' = NULL /\ n \in Nat /\ n > 0
      BY <2>1, <2>7 DEF kvars, vars
    <3>2. left' = [left EXCEPT ![comhand] = n] /\ Goto(comhand, "clear")
      BY <2>7 DEF Shutdown
    <3> HIDE DEF n
    <3> QED
      BY <1>1, <2>1, <2>7, <3>1, <3>2, ComhandMoves
  <2> QED
    BY <1>12, <2>2, <2>3, <2>4, <2>5, <2>6, <2>7 DEF parse
<1>13. CASE ask
  BY <1>1, <1>13, CallsAreKernelSteps, Loaded
     DEF ask, question, ProgramsInv, ProgramsTypeOK, Counts, Settings
<1>14. CASE wait
  BY <1>1, <1>14, CallsAreKernelSteps, Loaded
     DEF wait, answer, ProgramsInv, ProgramsTypeOK, Counts, Settings
<1>15. ASSUME NEW i \in {0, dcb.rw_index}, NEW l \in {"wait", "end"}, pc[comhand] \in {"free", "confirm"},
              Free(i), Goto(comhand, l), UNCHANGED left, line' = NO_LINE
       PROVE  [KernelNext]_kvars /\ ProgramsInv(M)'
  <2>1. KernelNext /\ setting' = setting
    BY <1>1, <1>15 DEF KernelNext, comhand_reset, Free, Device, vars
  <2>2. setting = NULL
    BY <1>15 DEF ProgramsInv, Settings
  <2> QED
    BY <1>1, <2>1, <2>2, <1>15, Loaded DEF ProgramsInv, ProgramsTypeOK, Counts, Settings
<1>16. CASE free
  BY <1>15, <1>16 DEF free
<1>17. CASE confirm
  <2>1. CASE line = "y" /\ Shutdown /\ UNCHANGED kvars
    <3> DEFINE n == 1
    <3>1. setting' = NULL /\ n \in Nat /\ n > 0 /\ line' = NO_LINE
      BY <1>17, <2>1 DEF confirm, kvars, vars, ProgramsInv, Settings
    <3>2. left' = [left EXCEPT ![comhand] = n] /\ Goto(comhand, "clear")
      BY <2>1 DEF Shutdown
    <3> HIDE DEF n
    <3> QED
      BY <1>1, <2>1, <3>1, <3>2, ComhandMoves
  <2>2. CASE line # "y"
    BY <1>15, <1>17, <2>2 DEF confirm
  <2> QED
    BY <1>17, <2>1, <2>2 DEF confirm
<1> QED
  BY <1>2, <1>3, <1>4, <1>5, <1>6, <1>7, <1>8, <1>9, <1>10, <1>11, <1>12,
     <1>13, <1>14, <1>16, <1>17
     DEF comhand_step
-----------------------------------------------------------------------------
\* A test process counts and moves on; comhand stays where it is.
LEMMA TestMoves ==
  ASSUME NEW M, ProgramsInv(M), NEW p \in TestSet, NEW l \in Labels \cup M, NEW n \in Nat,
         pc' = [pc EXCEPT ![p] = l],
         left' = [left EXCEPT ![p] = n],
         line' \in Inputs,
         l \in {"write", "yield"} => n > 0,
         setting' = setting
  PROVE  ProgramsInv(M)'
<1>1. ProgramsTypeOK(M)'
  BY DEF ProgramsInv, ProgramsTypeOK
<1>2. Counts'
  BY Loaded DEF ProgramsInv, ProgramsTypeOK, Counts
<1>3. Settings'
  BY Loaded DEF ProgramsInv, ProgramsTypeOK, Settings
<1> QED
  BY <1>1, <1>2, <1>3 DEF ProgramsInv

\* Every step of a test process is a system call.
LEMMA TestSteps ==
  ASSUME NEW M, KInv, ProgramsInv(M), NEW p \in TestSet, r3_proc(p)
  PROVE  [KernelNext]_kvars /\ ProgramsInv(M)'
<1>1. current = p /\ current # sys_idle /\ current \in Pcb \cup {NULL} /\ p \in Pcb
  BY Loaded DEF r3_proc, At
<1>2. left[p] \in Nat /\ left = [left EXCEPT ![p] = left[p]]
      /\ line \in Inputs /\ NO_LINE \in Inputs
  BY <1>1 DEF ProgramsInv, ProgramsTypeOK, Inputs
<1>3. CASE At(p, "write") /\ write /\ Goto(p, "yield") /\ UNCHANGED left
  <2>1. left[p] > 0
    BY <1>3 DEF At, ProgramsInv, Counts
  <2>2. KernelNext /\ setting' = setting /\ line' = NO_LINE
    BY <1>1, <1>3, CallsAreKernelSteps
  <2>3. pc' = [pc EXCEPT ![p] = "yield"] /\ left' = [left EXCEPT ![p] = left[p]]
    BY <1>2, <1>3 DEF Goto
  <2> QED
    BY <1>2, <2>1, <2>2, <2>3, TestMoves DEF Labels
<1>4. CASE /\ At(p, "yield") /\ yield /\ left' = [left EXCEPT ![p] = @ - 1]
           /\ Goto(p, IF left[p] = 1 THEN "bye" ELSE "write")
  <2> DEFINE n == left[p] - 1
             l == IF left[p] = 1 THEN "bye" ELSE "write"
  <2>1. left[p] > 0
    BY <1>4 DEF At, ProgramsInv, Counts
  <2>2. KernelNext /\ setting' = setting /\ line' = line
    BY <1>1, <1>4, CallsAreKernelSteps
  <2>3. pc' = [pc EXCEPT ![p] = l] /\ left' = [left EXCEPT ![p] = n]
    BY <1>4 DEF Goto
  <2>4. n \in Nat /\ l \in Labels \cup M /\ (l \in {"write", "yield"} => n > 0)
    BY <1>2, <2>1 DEF Labels
  <2> HIDE DEF n, l
  <2> QED
    BY <1>2, <2>2, <2>3, <2>4, TestMoves
<1>5. ASSUME NEW l \in {"exit", "exit again"}, write, Goto(p, l), UNCHANGED left
      PROVE  [KernelNext]_kvars /\ ProgramsInv(M)'
  <2>1. KernelNext /\ setting' = setting /\ line' = NO_LINE
    BY <1>1, <1>5, CallsAreKernelSteps
  <2>2. pc' = [pc EXCEPT ![p] = l] /\ left' = [left EXCEPT ![p] = left[p]]
    BY <1>2, <1>5 DEF Goto
  <2> QED
    BY <1>2, <2>1, <2>2, TestMoves DEF Labels
<1>6. ASSUME exit, Goto(p, "failure"), UNCHANGED left
      PROVE  [KernelNext]_kvars /\ ProgramsInv(M)'
  <2>1. KernelNext /\ setting' = setting /\ line' = line
    BY <1>1, <1>6, CallsAreKernelSteps
  <2>2. pc' = [pc EXCEPT ![p] = "failure"] /\ left' = [left EXCEPT ![p] = left[p]]
    BY <1>2, <1>6 DEF Goto
  <2> QED
    BY <1>2, <2>1, <2>2, TestMoves DEF Labels
<1> QED
  BY <1>3, <1>4, <1>5, <1>6 DEF r3_proc

-----------------------------------------------------------------------------
\* A step that leaves the programs and the PCB under a command alone.
LEMMA ProgramsRest ==
  ASSUME NEW M, ProgramsInv(M), UNCHANGED <<pc, left, setting>>, line' \in Inputs
  PROVE  ProgramsInv(M)'
BY DEF ProgramsInv, ProgramsTypeOK, Counts, Settings

LEMMA MpxStepKeeps ==
  ASSUME WholeSystem, NEW M, KInv, ProgramsInv(M), [MpxNext]_mvars
  PROVE  [KernelNext]_kvars /\ KInv' /\ ProgramsInv(M)'
<1>1. line \in Inputs /\ current \in Pcb \cup {NULL}
  BY DEF ProgramsInv, ProgramsTypeOK, KInv, KernelTypeOK
<1>2. CASE kmain \/ sys_idle_process
  <2>1. yield /\ UNCHANGED <<pc, left>>
    BY <1>2 DEF kmain, sys_idle_process
  <2>2. KernelNext /\ setting' = setting /\ line' = line
    BY <1>1, <2>1, CallsAreKernelSteps
  <2> QED
    BY <1>1, <2>1, <2>2, ProgramsRest, KernelStepKeeps
<1>3. CASE comhand_step
  BY <1>3, ComhandSteps, KernelStepKeeps
<1>4. CASE \E p \in TestSet : r3_proc(p)
  BY <1>4, TestSteps, KernelStepKeeps
<1>5. CASE device_step
  <2>1. serial_output_interrupt /\ UNCHANGED <<programs, setting>>
    BY <1>5 DEF device_step, serial_output_interrupt, Device, vars
  <2>2. KernelNext
    BY <2>1 DEF KernelNext
  <2> QED
    BY <1>1, <2>1, <2>2, ProgramsRest, KernelStepKeeps DEF programs
<1>6. CASE operator
  <2>1. input_enter /\ UNCHANGED <<pc, left, setting>> /\ line' \in Lines
    BY <1>6 DEF operator, input_enter, Device, vars
  <2>2. KernelNext
    BY <2>1 DEF KernelNext, serial_input_interrupt
  <2>3. line' \in Inputs
    BY <2>1 DEF WholeSystem, Inputs
  <2> QED
    BY <2>1, <2>2, <2>3, ProgramsRest, KernelStepKeeps
<1>7. CASE operator_reply
  <2>1. serial_input_interrupt /\ UNCHANGED <<pc, left, setting>>
    BY <1>7 DEF operator_reply, reply_key, reply_enter, input_enter, input_key, Device,
                vars, programs, serial_input_interrupt
  <2>2. KernelNext
    BY <2>1 DEF KernelNext
  <2>3. line' \in Inputs
    BY <1>1, <1>7 DEF operator_reply, reply_key, reply_enter, programs, Inputs
  <2> QED
    BY <2>1, <2>2, <2>3, ProgramsRest, KernelStepKeeps
<1>8. CASE UNCHANGED mvars
  <2>1. UNCHANGED kvars /\ UNCHANGED <<pc, left, setting, line>>
    BY <1>8 DEF mvars, kvars, vars, programs
  <2> QED
    BY <1>1, <2>1, ProgramsRest, KernelStepKeeps
<1> QED
  BY <1>2, <1>3, <1>4, <1>5, <1>6, <1>7, <1>8 DEF MpxNext, process_step

\* The invariant of the system: the kernel's, and the programs' counters in
\* step with where the programs are.
THEOREM MpxInvariance ==
  ASSUME WholeSystem PROVE MpxSpec => [](KInv /\ ProgramsInv({}))
<1>1. MpxInit => KInv /\ ProgramsInv({})
  BY ProgramsInit, KernelInitKeeps
<1>2. KInv /\ ProgramsInv({}) /\ [MpxNext]_mvars => (KInv /\ ProgramsInv({}))'
  BY MpxStepKeeps
<1> QED
  BY <1>1, <1>2, PTL DEF MpxSpec

\* The programs that kmain, load_r3 and the user start - comhand, sys_idle and
\* the test processes - implement the open system: each of their steps is a
\* system call, a command or an interrupt of Kernel, or leaves it alone.
THEOREM MpxImplementsKernel ==
  ASSUME WholeSystem PROVE MpxSpec => KernelSpec
<1>1. MpxInit => KernelInit
  BY ProgramsInit
<1>2. KInv /\ ProgramsInv({}) /\ [MpxNext]_mvars => [KernelNext]_kvars
  BY MpxStepKeeps
<1> QED
  BY <1>1, <1>2, MpxInvariance, PTL DEF MpxSpec, KernelSpec

\* The state of the whole system keeps its type: no counter of a program runs
\* below zero, for any test processes, iterations and command lines.
THEOREM MpxTypeCorrect ==
  ASSUME WholeSystem, Lines \subseteq AllLines PROVE MpxSpec => []MpxTypeOK
<1>1. KInv /\ ProgramsInv({}) => MpxTypeOK
  BY DEF KInv, ProgramsInv, ProgramsTypeOK, MpxTypeOK, Inputs, Texts
<1> QED
  BY <1>1, MpxInvariance, PTL

\* Whatever the operator types, and however many test processes contend for
\* the device, no process of the system is lost.
THEOREM MpxKeepsProcesses ==
  ASSUME WholeSystem PROVE MpxSpec => []NoProcessLost
<1>1. KInv => NoProcessLost
  BY DEF KInv
<1> QED
  BY <1>1, MpxInvariance, PTL


-----------------------------------------------------------------------------
(***************************************************************************)
(* Without load_r3 the machine belongs to comhand and sys_idle, and where  *)
(* they are can be written down: DeviceTells and LastWords say why an      *)
(* event finds comhand blocked and never interferes while comhand runs.    *)
(***************************************************************************)

\* The nodes of the ready and the blocked queue; no PCB is suspended.
TwoQueues(r, b) ==
    [s \in States |-> IF s = READY_NOT_SUSPENDED THEN r
                      ELSE IF s = BLOCKED_NOT_SUSPENDED THEN b ELSE <<>>]

\* Nobody else is there, and neither can be deleted or suspended.
OnlyTwo ==
    /\ setting = NULL
    /\ name[comhand] = comhand_name /\ name[sys_idle] = sys_idle_name
    /\ class[comhand] = SYSTEM /\ class[sys_idle] = SYSTEM
    /\ state[sys_idle] = READY_NOT_SUSPENDED

Places ==
    \/ /\ state[comhand] = READY_NOT_SUSPENDED
       /\ \/ current = NULL     /\ queue = TwoQueues(<<comhand, sys_idle>>, <<>>)
          \/ current = sys_idle /\ queue = TwoQueues(<<comhand>>, <<>>)
          \/ current = comhand  /\ \E r \in {<<>>, <<sys_idle>>} : queue = TwoQueues(r, <<>>)
    \/ /\ state[comhand] = BLOCKED_NOT_SUSPENDED
       /\ \/ current = sys_idle /\ queue = TwoQueues(<<>>, <<comhand>>)
          \/ current = comhand  /\ \E r \in {<<>>, <<sys_idle>>} : queue = TwoQueues(r, <<comhand>>)

\* The device is busy or has an event only while sys_idle runs and comhand
\* waits, or when comhand has nothing left to do but exit.
DeviceTells ==
    /\ dcb.iocbs => dcb.pcb_ptr = comhand
    /\ dcb.event_flag = 1 => dcb.cur_op = "IDLE"
    /\ \/ dcb.event_flag = 0 /\ dcb.cur_op = "IDLE"
       \/ current = sys_idle /\ state[comhand] = BLOCKED_NOT_SUSPENDED
       \/ pc[comhand] = "exit"

\* shutdown takes sys_idle out of the ready queue, and from there on comhand
\* is alone until it exits.
LastWords ==
    /\ pc[comhand] # "load"
    /\ pc[comhand] = "clear" => current = comhand /\ left[comhand] = 1
    /\ pc[comhand] \in {"goodbye", "exit"} => current = comhand /\ ready = <<>>
    /\ current = comhand /\ ready = <<>> => pc[comhand] \in {"clear", "goodbye", "exit"}

TwoInv == OnlyTwo /\ Places /\ DeviceTells /\ LastWords

LEMMA TwoQueuesIs ==
  ASSUME NEW r \in Seq(Pcb), NEW b \in Seq(Pcb)
  PROVE  /\ TwoQueues(r, b) \in [States -> Seq(Pcb)]
         /\ TwoQueues(r, b)[READY_NOT_SUSPENDED] = r
         /\ TwoQueues(r, b)[BLOCKED_NOT_SUSPENDED] = b
         /\ \A s \in SuspendedStates : TwoQueues(r, b)[s] = <<>>
         /\ \A q : [TwoQueues(r, b) EXCEPT ![READY_NOT_SUSPENDED] = q] = TwoQueues(q, b)
         /\ \A q : [TwoQueues(r, b) EXCEPT ![BLOCKED_NOT_SUSPENDED] = q] = TwoQueues(r, q)
<1>1. <<>> \in Seq(Pcb) /\ SuspendedStates \subseteq States
  BY EmptySeq DEF States, SuspendedStates, ReadyStates, BlockedStates
<1>2. TwoQueues(r, b) \in [States -> Seq(Pcb)]
  BY <1>1 DEF TwoQueues
<1>3. /\ TwoQueues(r, b)[READY_NOT_SUSPENDED] = r
      /\ TwoQueues(r, b)[BLOCKED_NOT_SUSPENDED] = b
      /\ \A s \in SuspendedStates : TwoQueues(r, b)[s] = <<>>
  BY DEF TwoQueues, States, ReadyStates, BlockedStates, SuspendedStates,
         READY_NOT_SUSPENDED, BLOCKED_NOT_SUSPENDED, READY_SUSPENDED, BLOCKED_SUSPENDED
<1>4. \A q : [TwoQueues(r, b) EXCEPT ![READY_NOT_SUSPENDED] = q] = TwoQueues(q, b)
  BY DEF TwoQueues, READY_NOT_SUSPENDED, BLOCKED_NOT_SUSPENDED
<1>5. \A q : [TwoQueues(r, b) EXCEPT ![BLOCKED_NOT_SUSPENDED] = q] = TwoQueues(r, q)
  BY DEF TwoQueues, READY_NOT_SUSPENDED, BLOCKED_NOT_SUSPENDED
<1> QED
  BY <1>2, <1>3, <1>4, <1>5

\* What pcb_insert and pcb_remove do to such queues.
LEMMA ReadyMoves ==
  ASSUME NEW b \in Seq(Pcb), NEW st \in [Pcb -> States], NEW pri \in [Pcb -> Nat],
         NEW p \in Pcb, st[p] = READY_NOT_SUSPENDED
  PROVE  /\ pcb_insert(TwoQueues(<<>>, b), st, pri, p) = TwoQueues(<<p>>, b)
         /\ pcb_remove(TwoQueues(<<p>>, b), st, p) = TwoQueues(<<>>, b)
         /\ \A x \in Pcb : pcb_remove(TwoQueues(<<p, x>>, b), st, p) = TwoQueues(<<x>>, b)
<1>1. <<>> \in Seq(Pcb) /\ <<p>> \in Seq(Pcb) /\ \A x \in Pcb : <<p, x>> \in Seq(Pcb)
  OBVIOUS
<1>2. READY_NOT_SUSPENDED \in ReadyStates
  BY DEF ReadyStates
<1>3. ASSUME NEW q \in Seq(Pcb)
      PROVE  /\ pcb_insert(TwoQueues(q, b), st, pri, p) = TwoQueues(enqueue_pri(q, pri, p), b)
             /\ pcb_remove(TwoQueues(q, b), st, p) = TwoQueues(dequeue(q, p), b)
  <2> DEFINE qs == TwoQueues(q, b)
  <2>1. qs[READY_NOT_SUSPENDED] = q
    BY TwoQueuesIs
  <2>2. \A e : [qs EXCEPT ![READY_NOT_SUSPENDED] = e] = TwoQueues(e, b)
    BY TwoQueuesIs
  <2> HIDE DEF qs
  <2>3. pcb_insert(qs, st, pri, p) = [qs EXCEPT ![READY_NOT_SUSPENDED] = enqueue_pri(q, pri, p)]
    BY <1>2, <2>1 DEF pcb_insert
  <2>4. pcb_remove(qs, st, p) = [qs EXCEPT ![READY_NOT_SUSPENDED] = dequeue(q, p)]
    BY <2>1 DEF pcb_remove
  <2> QED
    BY <2>2, <2>3, <2>4 DEF qs
<1>4. /\ enqueue_pri(<<>>, pri, p) = <<p>>
      /\ dequeue(<<p>>, p) = <<>>
      /\ \A x \in Pcb : dequeue(<<p, x>>, p) = <<x>>
  BY ShortQueues
<1> QED
  BY <1>1, <1>3, <1>4

LEMMA BlockedMoves ==
  ASSUME NEW r \in Seq(Pcb), NEW st \in [Pcb -> States], NEW pri \in [Pcb -> Nat],
         NEW p \in Pcb, st[p] = BLOCKED_NOT_SUSPENDED
  PROVE  /\ pcb_insert(TwoQueues(r, <<>>), st, pri, p) = TwoQueues(r, <<p>>)
         /\ pcb_insert(TwoQueues(r, <<p>>), st, pri, p) = TwoQueues(r, <<p>>)
         /\ pcb_remove(TwoQueues(r, <<p>>), st, p) = TwoQueues(r, <<>>)
<1>1. <<>> \in Seq(Pcb) /\ <<p>> \in Seq(Pcb)
  OBVIOUS
<1>2. BLOCKED_NOT_SUSPENDED \notin ReadyStates
  BY DEF ReadyStates, READY_NOT_SUSPENDED, READY_SUSPENDED, BLOCKED_NOT_SUSPENDED
<1>3. ASSUME NEW q \in Seq(Pcb)
      PROVE  /\ pcb_insert(TwoQueues(r, q), st, pri, p) = TwoQueues(r, enqueue_reg(q, p))
             /\ pcb_remove(TwoQueues(r, q), st, p) = TwoQueues(r, dequeue(q, p))
  <2> DEFINE qs == TwoQueues(r, q)
  <2>1. qs[BLOCKED_NOT_SUSPENDED] = q
    BY TwoQueuesIs
  <2>2. \A e : [qs EXCEPT ![BLOCKED_NOT_SUSPENDED] = e] = TwoQueues(r, e)
    BY TwoQueuesIs
  <2> HIDE DEF qs
  <2>3. pcb_insert(qs, st, pri, p) = [qs EXCEPT ![BLOCKED_NOT_SUSPENDED] = enqueue_reg(q, p)]
    BY <1>2, <2>1 DEF pcb_insert
  <2>4. pcb_remove(qs, st, p) = [qs EXCEPT ![BLOCKED_NOT_SUSPENDED] = dequeue(q, p)]
    BY <2>1 DEF pcb_remove
  <2> QED
    BY <2>2, <2>3, <2>4 DEF qs
<1>4. enqueue_reg(<<>>, p) = <<p>> /\ enqueue_reg(<<p>>, p) = <<p>> /\ dequeue(<<p>>, p) = <<>>
  BY ShortQueues
<1> QED
  BY <1>1, <1>3, <1>4

-----------------------------------------------------------------------------
LEMMA TwoTypes ==
  ASSUME KInv
  PROVE  /\ state \in [Pcb -> States] /\ priority \in [Pcb -> Nat]
         /\ comhand \in Pcb /\ sys_idle \in Pcb /\ comhand # sys_idle
         /\ comhand # NULL /\ sys_idle # NULL
         /\ dcb \in DCB
         /\ READY_NOT_SUSPENDED # BLOCKED_NOT_SUSPENDED
         /\ READY_NOT_SUSPENDED \in States /\ BLOCKED_NOT_SUSPENDED \in States
         /\ <<>> \in Seq(Pcb) /\ <<comhand>> \in Seq(Pcb) /\ <<sys_idle>> \in Seq(Pcb)
         /\ <<comhand, sys_idle>> \in Seq(Pcb)
<1>1. priority \in [Pcb -> Nat]
  BY PriorityAssumption DEF KInv, KernelTypeOK, TypeOK, Priorities
<1> QED
  BY <1>1, LoadedAssumption, PcbAssumption
     DEF KInv, KernelTypeOK, TypeOK, States, ReadyStates, BlockedStates,
         READY_NOT_SUSPENDED, BLOCKED_NOT_SUSPENDED

LEMMA NoEvent ==
  ASSUME dcb.event_flag = 0
  PROVE  EventState = state /\ EventQueue = queue /\ EventDcb = dcb
BY DEF EventDue, EventState, EventQueue, EventDcb

\* The front gives way to comhand or sys_idle, which had the CPU.
LEMMA YieldIs ==
  ASSUME KInv, idle_call, NEW r \in Seq(Pcb), NEW b \in Seq(Pcb), NEW next \in Pcb,
         NEW x \in Pcb,
         EventState \in [Pcb -> States], EventState[next] = READY_NOT_SUSPENDED,
         \/ r = <<next>>    /\ EventQueue = TwoQueues(r, b)
         \/ r = <<next, x>> /\ EventQueue = TwoQueues(r, b)
  PROVE  /\ state' = EventState /\ dcb' = EventDcb /\ current' = next
         /\ LET rest == IF r = <<next>> THEN <<>> ELSE <<x>>
            IN  queue' = IF current = NULL THEN TwoQueues(rest, b)
                         ELSE pcb_insert(TwoQueues(rest, b), EventState, priority, current)
<1> DEFINE rest == IF r = <<next>> THEN <<>> ELSE <<x>>
<1>1. EventQueue = TwoQueues(r, b) /\ EventQueue[READY_NOT_SUSPENDED] = r
  BY TwoQueuesIs
<1>2. r # <<>> /\ Head(r) = next
  <2>1. <<next>> # <<>> /\ Head(<<next>>) = next
    OBVIOUS
  <2>2. <<next, x>> # <<>> /\ Head(<<next, x>>) = next
    OBVIOUS
  <2> QED
    BY <2>1, <2>2
<1>3. priority \in [Pcb -> Nat]
  BY TwoTypes
<1>4. pcb_remove(EventQueue, EventState, next) = TwoQueues(rest, b)
  <2>1. /\ pcb_remove(TwoQueues(<<next>>, b), EventState, next) = TwoQueues(<<>>, b)
        /\ \A y \in Pcb : pcb_remove(TwoQueues(<<next, y>>, b), EventState, next) = TwoQueues(<<y>>, b)
    BY <1>3, ReadyMoves
  <2>2. <<next, x>> # <<next>>
    OBVIOUS
  <2> QED
    BY <1>1, <2>1, <2>2
<1> HIDE DEF rest
<1>5. /\ state' = EventState /\ dcb' = EventDcb /\ current' = next
      /\ queue' = IF current = NULL THEN TwoQueues(rest, b)
                  ELSE pcb_insert(TwoQueues(rest, b), EventState, priority, current)
  BY <1>1, <1>2, <1>4 DEF idle_call
<1> QED
  BY <1>5 DEF rest

LEMMA KmainTwo ==
  ASSUME KInv, TwoInv, current = NULL, idle_call,
         UNCHANGED <<class, name, setting, pc, left>>
  PROVE  TwoInv'
<1> DEFINE r == <<comhand, sys_idle>>
<1>1. /\ state[comhand] = READY_NOT_SUSPENDED /\ queue = TwoQueues(r, <<>>)
      /\ pc[comhand] \notin {"clear", "goodbye", "exit", "load"}
      /\ dcb.event_flag = 0 /\ dcb.cur_op = "IDLE"
  BY TwoTypes DEF TwoInv, Places, LastWords, DeviceTells
<1>2. EventState = state /\ EventQueue = queue /\ EventDcb = dcb
  BY <1>1, NoEvent
<1>3. <<comhand, sys_idle>> # <<comhand>>
  OBVIOUS
<1>4. state' = state /\ dcb' = dcb /\ current' = comhand /\ queue' = TwoQueues(<<sys_idle>>, <<>>)
  BY <1>1, <1>2, <1>3, TwoTypes, YieldIs
<1>5. ready' = <<sys_idle>> /\ <<sys_idle>> # <<>>
  BY <1>4, TwoTypes, TwoQueuesIs DEF ready
<1>6. OnlyTwo' /\ Places'
  BY <1>1, <1>4 DEF TwoInv, OnlyTwo, Places
<1>7. DeviceTells' /\ LastWords'
  BY <1>1, <1>4, <1>5 DEF TwoInv, DeviceTells, LastWords
<1> QED
  BY <1>6, <1>7 DEF TwoInv

\* sys_idle hands the CPU to comhand, if comhand is ready or woken.
LEMMA SysIdleTwo ==
  ASSUME KInv, TwoInv, current = sys_idle, idle_call,
         UNCHANGED <<class, name, setting, pc, left>>
  PROVE  TwoInv'
<1>1. /\ pc[comhand] \notin {"clear", "goodbye", "exit", "load"}
      /\ <<comhand>> # <<>> /\ <<sys_idle>> # <<>> /\ state[sys_idle] = READY_NOT_SUSPENDED
  BY TwoTypes DEF TwoInv, LastWords, OnlyTwo
<1>2. ASSUME EventState \in [Pcb -> States],
             EventState[comhand] = READY_NOT_SUSPENDED, EventState[sys_idle] = READY_NOT_SUSPENDED,
             EventQueue = TwoQueues(<<comhand>>, <<>>),
             EventDcb.event_flag = 0, EventDcb.cur_op = "IDLE",
             EventDcb.iocbs => EventDcb.pcb_ptr = comhand
      PROVE  TwoInv'
  <2>1. /\ state' = EventState /\ dcb' = EventDcb /\ current' = comhand
        /\ queue' = pcb_insert(TwoQueues(<<>>, <<>>), EventState, priority, sys_idle)
    BY <1>2, TwoTypes, YieldIs
  <2>2. queue' = TwoQueues(<<sys_idle>>, <<>>)
    BY <1>2, <2>1, TwoTypes, ReadyMoves
  <2>3. ready' = <<sys_idle>>
    BY <2>2, TwoTypes, TwoQueuesIs DEF ready
  <2>4. OnlyTwo' /\ Places'
    BY <1>2, <2>1, <2>2 DEF TwoInv, OnlyTwo, Places
  <2>5. DeviceTells' /\ LastWords'
    BY <1>1, <1>2, <2>1, <2>3 DEF TwoInv, DeviceTells, LastWords
  <2> QED
    BY <2>4, <2>5 DEF TwoInv
<1>3. CASE state[comhand] = READY_NOT_SUSPENDED
  <2>1. /\ queue = TwoQueues(<<comhand>>, <<>>)
        /\ dcb.event_flag = 0 /\ dcb.cur_op = "IDLE" /\ (dcb.iocbs => dcb.pcb_ptr = comhand)
    BY <1>1, <1>3, TwoTypes DEF TwoInv, Places, DeviceTells
  <2> QED
    BY <1>1, <1>2, <1>3, <2>1, NoEvent, TwoTypes
<1>4. CASE state[comhand] = BLOCKED_NOT_SUSPENDED
  <2>1. queue = TwoQueues(<<>>, <<comhand>>)
    BY <1>4, TwoTypes DEF TwoInv, Places
  <2>2. CASE EventDue
    <3>1. dcb.pcb_ptr = comhand /\ dcb.cur_op = "IDLE" /\ dcb.event_flag = 1
      BY <2>2 DEF EventDue, TwoInv, DeviceTells
    <3>2. EventState = [state EXCEPT ![comhand] = READY_NOT_SUSPENDED]
      BY <2>2, <3>1 DEF EventState
    <3>3. EventState \in [Pcb -> States] /\ EventState[comhand] = READY_NOT_SUSPENDED
          /\ EventState[sys_idle] = READY_NOT_SUSPENDED
      BY <1>1, <3>2, TwoTypes
    <3>4. pcb_remove(queue, state, comhand) = TwoQueues(<<>>, <<>>)
      BY <1>4, <2>1, TwoTypes, BlockedMoves
    <3>5. pcb_insert(TwoQueues(<<>>, <<>>), EventState, priority, comhand)
             = TwoQueues(<<comhand>>, <<>>)
      BY <3>3, TwoTypes, ReadyMoves
    <3>6. EventQueue = TwoQueues(<<comhand>>, <<>>)
      BY <2>2, <3>1, <3>4, <3>5 DEF EventQueue
    <3>7. EventDcb.event_flag = 0 /\ EventDcb.cur_op = "IDLE" /\ EventDcb.pcb_ptr = comhand
      BY <2>2, <3>1, TwoTypes DEF EventDcb, DCB
    <3> QED
      BY <1>2, <3>3, <3>6, <3>7
  <2>3. CASE ~EventDue
    <3>1. EventState = state /\ EventQueue = queue /\ EventDcb = dcb
      BY <2>3 DEF EventState, EventQueue, EventDcb
    <3>2. queue[READY_NOT_SUSPENDED] = <<>>
      BY <2>1, TwoTypes, TwoQueuesIs
    <3>3. UNCHANGED <<state, dcb, queue, current>>
      BY <3>1, <3>2 DEF idle_call
    <3> QED
      BY <3>3 DEF TwoInv, OnlyTwo, Places, DeviceTells, LastWords, ready
  <2> QED
    BY <2>2, <2>3
<1> QED
  BY <1>3, <1>4 DEF TwoInv, Places


\* While comhand runs and is not about to exit, nothing happens behind it.
LEMMA ComhandIs ==
  ASSUME KInv, TwoInv, current = comhand
  PROVE  /\ state[comhand] \in {READY_NOT_SUSPENDED, BLOCKED_NOT_SUSPENDED}
         /\ \/ state[comhand] = READY_NOT_SUSPENDED   /\ queue = TwoQueues(ready, <<>>)
            \/ state[comhand] = BLOCKED_NOT_SUSPENDED /\ queue = TwoQueues(ready, <<comhand>>)
         /\ ready \in {<<>>, <<sys_idle>>} /\ ready \in Seq(Pcb)
         /\ pc[comhand] \notin {"clear", "goodbye", "exit"} => ready = <<sys_idle>>
         /\ pc[comhand] # "exit" => dcb.event_flag = 0 /\ dcb.cur_op = "IDLE"
         /\ <<sys_idle>> # <<>>
<1>1. <<sys_idle>> # <<>>
  OBVIOUS
<1>2. CASE state[comhand] = READY_NOT_SUSPENDED
  <2>1. PICK r \in {<<>>, <<sys_idle>>} : queue = TwoQueues(r, <<>>)
    BY <1>2, TwoTypes DEF TwoInv, Places
  <2>2. ready = r
    BY <2>1, TwoTypes, TwoQueuesIs DEF ready
  <2> QED
    BY <1>1, <1>2, <2>1, <2>2, TwoTypes DEF TwoInv, DeviceTells, LastWords
<1>3. CASE state[comhand] = BLOCKED_NOT_SUSPENDED
  <2>1. PICK r \in {<<>>, <<sys_idle>>} : queue = TwoQueues(r, <<comhand>>)
    BY <1>3, TwoTypes DEF TwoInv, Places
  <2>2. ready = r
    BY <2>1, TwoTypes, TwoQueuesIs DEF ready
  <2> QED
    BY <1>1, <1>3, <2>1, <2>2, TwoTypes DEF TwoInv, DeviceTells, LastWords
<1> QED
  BY <1>2, <1>3 DEF TwoInv, Places

\* comhand moves on while it runs, and leaves sys_idle in the ready queue.
LEMMA ComhandRunsOn ==
  ASSUME KInv, TwoInv, current = comhand, pc[comhand] \notin {"clear", "goodbye", "exit"},
         UNCHANGED <<queue, state, class, name, setting, current>>,
         dcb'.event_flag = dcb.event_flag, dcb'.cur_op = dcb.cur_op,
         dcb'.pcb_ptr = dcb.pcb_ptr, dcb'.iocbs = dcb.iocbs,
         pc'[comhand] \notin {"goodbye", "exit", "load"},
         pc'[comhand] = "clear" => left'[comhand] = 1
  PROVE  TwoInv'
<1>1. ready = <<sys_idle>> /\ <<sys_idle>> # <<>> /\ ready' = ready
      /\ dcb.event_flag = 0 /\ dcb.cur_op = "IDLE"
  BY ComhandIs DEF ready
<1>2. OnlyTwo' /\ Places'
  BY DEF TwoInv, OnlyTwo, Places
<1>3. DeviceTells' /\ LastWords'
  BY <1>1 DEF TwoInv, DeviceTells, LastWords
<1> QED
  BY <1>2, <1>3 DEF TwoInv

LEMMA ComhandYields ==
  ASSUME KInv, TwoInv, current = comhand, idle_call,
         pc[comhand] \notin {"clear", "goodbye", "exit"},
         UNCHANGED <<class, name, setting>>,
         pc'[comhand] \notin {"clear", "goodbye", "exit", "load"}
  PROVE  TwoInv'
<1> DEFINE b == IF state[comhand] = READY_NOT_SUSPENDED THEN <<>> ELSE <<comhand>>
<1>1. /\ ready = <<sys_idle>> /\ queue = TwoQueues(<<sys_idle>>, b) /\ b \in Seq(Pcb)
      /\ dcb.event_flag = 0 /\ dcb.cur_op = "IDLE" /\ state[sys_idle] = READY_NOT_SUSPENDED
  BY ComhandIs, TwoTypes DEF TwoInv, OnlyTwo
<1>2. EventState = state /\ EventQueue = queue /\ EventDcb = dcb
  BY <1>1, NoEvent
<1> HIDE DEF b
<1>3. /\ state' = state /\ dcb' = dcb /\ current' = sys_idle
      /\ queue' = pcb_insert(TwoQueues(<<>>, b), state, priority, comhand)
  BY <1>1, <1>2, TwoTypes, YieldIs
<1>4. CASE state[comhand] = READY_NOT_SUSPENDED
  <2>1. queue' = TwoQueues(<<comhand>>, <<>>)
    BY <1>1, <1>3, <1>4, TwoTypes, ReadyMoves DEF b
  <2>2. OnlyTwo' /\ Places'
    BY <1>3, <1>4, <2>1 DEF TwoInv, OnlyTwo, Places
  <2>3. DeviceTells' /\ LastWords'
    BY <1>1, <1>3, TwoTypes DEF TwoInv, DeviceTells, LastWords
  <2> QED
    BY <2>2, <2>3 DEF TwoInv
<1>5. CASE state[comhand] = BLOCKED_NOT_SUSPENDED
  <2>1. b = <<comhand>>
    BY <1>5, TwoTypes DEF b
  <2>2. queue' = TwoQueues(<<>>, <<comhand>>)
    BY <1>3, <1>5, <2>1, TwoTypes, BlockedMoves
  <2>3. OnlyTwo' /\ Places'
    BY <1>3, <1>5, <2>2 DEF TwoInv, OnlyTwo, Places
  <2>4. DeviceTells' /\ LastWords'
    BY <1>1, <1>3, TwoTypes DEF TwoInv, DeviceTells, LastWords
  <2> QED
    BY <2>3, <2>4 DEF TwoInv
<1> QED
  BY <1>4, <1>5, ComhandIs

\* A read of an idle device that is complete at once leaves it idle.
LEMMA ReadStarts ==
  ASSUME NEW d, d \in DCB, d.cur_op = "IDLE", NEW e \in serial_read(d)
  PROVE  e.pcb_ptr = d.pcb_ptr /\ (e.event_flag = 1 => e.cur_op = "IDLE")
<1>1. e.pcb_ptr = d.pcb_ptr
  BY DEF serial_read, DCB
<1>2. e.cur_op # "IDLE" => e.event_flag = 0
  BY DEF serial_read, DCB
<1> QED
  BY <1>1, <1>2

\* A request blocks comhand.  If it is started, sys_idle gets the CPU; if it
\* fails, or sys_idle is gone, comhand runs on.
LEMMA ComhandAsks ==
  ASSUME KInv, TwoInv, current = comhand, pc[comhand] # "exit",
         NEW op \in {"READ", "WRITE"}, NEW len \in 0 .. MaxLength, io_call(op, len)
  PROVE  /\ state' = [state EXCEPT ![comhand] = BLOCKED_NOT_SUSPENDED]
         /\ dcb'.iocbs => dcb'.pcb_ptr = comhand
         /\ dcb'.event_flag = 1 => dcb'.cur_op = "IDLE"
         /\ \/ /\ current' = comhand /\ queue' = TwoQueues(ready, <<comhand>>)
               /\ ready = <<>> \/ (dcb'.event_flag = 0 /\ dcb'.cur_op = "IDLE")
            \/ /\ ready = <<sys_idle>>
               /\ current' = sys_idle /\ queue' = TwoQueues(<<>>, <<comhand>>)
<1>1. /\ ready \in {<<>>, <<sys_idle>>} /\ ready \in Seq(Pcb)
      /\ dcb.event_flag = 0 /\ dcb.cur_op = "IDLE" /\ (dcb.iocbs => dcb.pcb_ptr = comhand)
      /\ state[sys_idle] = READY_NOT_SUSPENDED
  BY ComhandIs DEF TwoInv, OnlyTwo, DeviceTells
<1>2. EventState = state /\ EventQueue = queue /\ EventDcb = dcb
  BY <1>1, NoEvent
<1>3. state' = [state EXCEPT ![comhand] = BLOCKED_NOT_SUSPENDED]
  BY <1>2 DEF io_call
<1>4. /\ state' \in [Pcb -> States] /\ state'[comhand] = BLOCKED_NOT_SUSPENDED
      /\ state'[sys_idle] = READY_NOT_SUSPENDED
  BY <1>1, <1>3, TwoTypes
<1> DEFINE qs == TwoQueues(ready, <<comhand>>)
<1>5. pcb_insert(queue, state', priority, comhand) = qs
  <2>1. /\ pcb_insert(TwoQueues(ready, <<>>), state', priority, comhand) = qs
        /\ pcb_insert(TwoQueues(ready, <<comhand>>), state', priority, comhand) = qs
    BY <1>1, <1>4, TwoTypes, BlockedMoves
  <2> QED
    BY <2>1, ComhandIs
<1>6. qs[READY_NOT_SUSPENDED] = ready
  BY <1>1, TwoTypes, TwoQueuesIs
<1>7. io_scheduler(op, len, qs)
  BY <1>2, <1>5 DEF io_call
<1>8. /\ Head(<<sys_idle>>) = sys_idle /\ <<sys_idle>> # <<>>
      /\ pcb_remove(TwoQueues(<<sys_idle>>, <<comhand>>), state', sys_idle)
             = TwoQueues(<<>>, <<comhand>>)
  <2>1. Head(<<sys_idle>>) = sys_idle /\ <<sys_idle>> # <<>>
    OBVIOUS
  <2>2. <<comhand>> \in Seq(Pcb) /\ priority \in [Pcb -> Nat] /\ sys_idle \in Pcb
    BY TwoTypes
  <2> QED
    BY <1>4, <2>1, <2>2, ReadyMoves
<1> DEFINE d == [dcb EXCEPT !.rw_buf = comhand, !.rw_buf_length = len,
                            !.pcb_ptr = comhand, !.iocbs = TRUE]
           started == [d EXCEPT !.allocation_status = 1]
<1>9. /\ d.event_flag = 0 /\ d.cur_op = "IDLE" /\ d.pcb_ptr = comhand
      /\ started \in DCB /\ started.event_flag = 0 /\ started.cur_op = "IDLE" /\ started.pcb_ptr = comhand
  BY <1>1, TwoTypes DEF DCB
<1> HIDE DEF qs
<1>10. \/ dcb' = dcb /\ queue' = qs /\ UNCHANGED current
       \/ dcb' = d /\ queue' = qs /\ UNCHANGED current
       \/ /\ IF ready = <<>> THEN queue' = qs /\ UNCHANGED current ELSE Dispatch(qs, state')
          /\ dcb' \in IF op = "READ" THEN serial_read(started) ELSE {serial_write(started)}
  BY <1>2, <1>6, <1>7 DEF io_scheduler
<1> HIDE DEF d, started
<1>11. CASE \/ dcb' = dcb /\ queue' = qs /\ UNCHANGED current
            \/ dcb' = d /\ queue' = qs /\ UNCHANGED current
  BY <1>1, <1>3, <1>9, <1>11 DEF qs
<1>12. CASE /\ IF ready = <<>> THEN queue' = qs /\ UNCHANGED current ELSE Dispatch(qs, state')
            /\ dcb' \in IF op = "READ" THEN serial_read(started) ELSE {serial_write(started)}
  <2>1. dcb'.pcb_ptr = comhand /\ (dcb'.event_flag = 1 => dcb'.cur_op = "IDLE")
    <3>1. \A e \in serial_read(started) : e.pcb_ptr = comhand /\ (e.event_flag = 1 => e.cur_op = "IDLE")
      BY <1>9, ReadStarts
    <3>2. serial_write(started).pcb_ptr = comhand /\ serial_write(started).event_flag = 0
      BY <1>9 DEF serial_write, DCB
    <3>3. dcb' \in serial_read(started) \/ dcb' = serial_write(started)
      BY <1>12
    <3> QED
      BY <3>1, <3>2, <3>3
  <2>2. CASE ready = <<>>
    <3>1. queue' = qs /\ current' = comhand
      BY <1>12, <2>2
    <3>2. current' = comhand /\ queue' = TwoQueues(ready, <<comhand>>)
      BY <3>1 DEF qs
    <3> QED
      BY <1>3, <2>1, <2>2, <3>2
  <2>3. CASE ready = <<sys_idle>>
    <3>1. current' = Head(qs[READY_NOT_SUSPENDED])
          /\ queue' = pcb_remove(qs, state', Head(qs[READY_NOT_SUSPENDED]))
      BY <1>8, <1>12, <2>3 DEF Dispatch
    <3>2. current' = sys_idle /\ queue' = TwoQueues(<<>>, <<comhand>>)
      BY <1>6, <1>8, <2>3, <3>1 DEF qs
    <3> QED
      BY <1>3, <2>1, <2>3, <3>2
  <2> QED
    BY <1>1, <2>2, <2>3
<1> QED
  BY <1>10, <1>11, <1>12

LEMMA ComhandAsksTwo ==
  ASSUME KInv, TwoInv, current = comhand, pc[comhand] \notin {"clear", "exit"},
         NEW op \in {"READ", "WRITE"}, NEW len \in 0 .. MaxLength, io_call(op, len),
         UNCHANGED <<class, name, setting>>,
         pc'[comhand] \notin {"clear", "goodbye", "load"},
         pc'[comhand] = "exit" <=> pc[comhand] = "goodbye"
  PROVE  TwoInv'
<1>1. /\ state' = [state EXCEPT ![comhand] = BLOCKED_NOT_SUSPENDED]
      /\ dcb'.iocbs => dcb'.pcb_ptr = comhand
      /\ dcb'.event_flag = 1 => dcb'.cur_op = "IDLE"
      /\ \/ /\ current' = comhand /\ queue' = TwoQueues(ready, <<comhand>>)
            /\ ready = <<>> \/ (dcb'.event_flag = 0 /\ dcb'.cur_op = "IDLE")
         \/ /\ ready = <<sys_idle>>
            /\ current' = sys_idle /\ queue' = TwoQueues(<<>>, <<comhand>>)
  BY ComhandAsks
<1>2. state'[comhand] = BLOCKED_NOT_SUSPENDED /\ state'[sys_idle] = state[sys_idle]
  BY <1>1, TwoTypes
<1>3. /\ ready \in {<<>>, <<sys_idle>>} /\ ready \in Seq(Pcb) /\ <<sys_idle>> # <<>>
      /\ ready = <<>> <=> pc[comhand] = "goodbye"
  BY ComhandIs DEF TwoInv, LastWords
<1>4. ready' = queue'[READY_NOT_SUSPENDED]
  BY DEF ready
<1>5. CASE /\ current' = comhand /\ queue' = TwoQueues(ready, <<comhand>>)
           /\ ready = <<>> \/ (dcb'.event_flag = 0 /\ dcb'.cur_op = "IDLE")
  <2>1. ready' = ready
    BY <1>3, <1>4, <1>5, TwoTypes, TwoQueuesIs
  <2>2. OnlyTwo' /\ Places'
    BY <1>2, <1>3, <1>5 DEF TwoInv, OnlyTwo, Places
  <2>3. DeviceTells' /\ LastWords'
    BY <1>1, <1>3, <1>5, <2>1 DEF TwoInv, DeviceTells, LastWords
  <2> QED
    BY <2>2, <2>3 DEF TwoInv
<1>6. CASE /\ ready = <<sys_idle>>
           /\ current' = sys_idle /\ queue' = TwoQueues(<<>>, <<comhand>>)
  <2>1. pc'[comhand] \notin {"clear", "goodbye", "exit", "load"} /\ sys_idle # comhand
    BY <1>3, <1>6, TwoTypes
  <2>2. OnlyTwo' /\ Places'
    BY <1>2, <1>6 DEF TwoInv, OnlyTwo, Places
  <2>3. DeviceTells' /\ LastWords'
    BY <1>1, <1>2, <1>6, <2>1 DEF TwoInv, DeviceTells, LastWords
  <2> QED
    BY <2>2, <2>3 DEF TwoInv
<1> QED
  BY <1>1, <1>5, <1>6


\* A name the operator types is that of comhand, if of any process at all, and
\* comhand is in a queue only if it is blocked.
LEMMA TypedNames ==
  ASSUME KInv, TwoInv, current = comhand, sys_idle_name \notin Typed, NEW n \in Typed
  PROVE  LET p == pcb_find(queue, name, n)
         IN  p = NULL \/ (p = comhand /\ state[comhand] = BLOCKED_NOT_SUSPENDED)
<1> DEFINE p == pcb_find(queue, name, n)
<1>1. queue \in [States -> Seq(Pcb)]
  BY DEF KInv, KernelTypeOK, TypeOK
<1>2. p = NULL \/ (p \in Pcb /\ name[p] = n /\ \E s \in States : In(queue[s], p))
  BY <1>1, PcbFindIs
<1> HIDE DEF p
<1>3. SUFFICES ASSUME p \in Pcb, name[p] = n, NEW s \in States, In(queue[s], p)
               PROVE  p = comhand /\ state[comhand] = BLOCKED_NOT_SUSPENDED
  BY <1>2 DEF p
<1>4. p # sys_idle
  BY <1>3 DEF TwoInv, OnlyTwo
<1>5. \A q \in {<<>>, <<sys_idle>>} : ~In(q, p)
  <2>1. ~In(<<>>, p)
    BY EmptySeq DEF In
  <2>2. ~In(<<sys_idle>>, p)
    BY <1>4 DEF In
  <2> QED
    BY <2>1, <2>2
<1>6. ready \in {<<>>, <<sys_idle>>} /\ ready \in Seq(Pcb)
      /\ \/ state[comhand] = READY_NOT_SUSPENDED   /\ queue = TwoQueues(ready, <<>>)
         \/ state[comhand] = BLOCKED_NOT_SUSPENDED /\ queue = TwoQueues(ready, <<comhand>>)
  BY ComhandIs
<1>7. CASE state[comhand] = READY_NOT_SUSPENDED /\ queue = TwoQueues(ready, <<>>)
  <2>1. queue[s] \in {<<>>, <<sys_idle>>}
    BY <1>6, <1>7 DEF TwoQueues
  <2> QED
    BY <1>3, <1>5, <2>1
<1>8. CASE state[comhand] = BLOCKED_NOT_SUSPENDED /\ queue = TwoQueues(ready, <<comhand>>)
  <2>1. queue[s] \in {<<>>, <<sys_idle>>, <<comhand>>}
    BY <1>6, <1>8 DEF TwoQueues
  <2>2. queue[s] = <<comhand>>
    BY <1>3, <1>5, <2>1
  <2>3. p = comhand
    BY <1>3, <2>2 DEF In
  <2> QED
    BY <1>8, <2>3
<1> QED
  BY <1>6, <1>7, <1>8

\* Neither process can be deleted, suspended or resumed, and a blocked PCB
\* keeps its place when its priority is set.
LEMMA LinesDoNothing ==
  ASSUME KInv, TwoInv, current = comhand, sys_idle_name \notin Typed, pcb_line
  PROVE  UNCHANGED <<queue, state, class, name, setting>> /\ pc' = [pc EXCEPT ![comhand] = "print"]
<1>1. pc' = [pc EXCEPT ![comhand] = "print"]
  BY DEF pcb_line, Report, Goto
<1>2. class[comhand] = SYSTEM
  BY DEF TwoInv, OnlyTwo
<1>3. ASSUME NEW n \in Typed, suspend_pcb(n) \/ resume_pcb(n) \/ delete_pcb(n)
      PROVE  UNCHANGED <<queue, state, class, name, setting>>
  <2> DEFINE p == pcb_find(queue, name, n)
  <2>1. p = NULL \/ class[p] = SYSTEM
    BY <1>2, TypedNames
  <2> HIDE DEF p
  <2>2. Refuse("suspend") \/ Refuse("resume") \/ Refuse("delete")
    BY <1>3, <2>1 DEF suspend_pcb, resume_pcb, delete_pcb, p
  <2> QED
    BY <2>2 DEF Refuse, table
<1>4. ASSUME NEW n \in Typed, NEW pri, set_pcb_priority(n, pri)
      PROVE  UNCHANGED <<queue, state, class, name, setting>>
  <2> DEFINE p == pcb_find(queue, name, n)
  <2>1. p = NULL \/ state[p] \in BlockedStates
    BY TypedNames DEF BlockedStates
  <2> HIDE DEF p
  <2>2. Refuse("priority") \/ UNCHANGED <<queue, setting, state, class, name>>
    BY <1>4, <2>1 DEF set_pcb_priority, p
  <2> QED
    BY <2>2 DEF Refuse, table
<1> QED
  BY <1>1, <1>3, <1>4 DEF pcb_line

\* shutdown drops sys_idle, finds the queue empty, and comhand says goodbye.
LEMMA ShutdownTwo ==
  ASSUME KInv, ProgramsInv({}), TwoInv, shutdown
  PROVE  TwoInv'
<1>1. /\ current = comhand /\ pc[comhand] = "clear" /\ left[comhand] = 1
      /\ state[sys_idle] = READY_NOT_SUSPENDED
  BY DEF shutdown, At, TwoInv, LastWords, OnlyTwo
<1> DEFINE b == IF state[comhand] = READY_NOT_SUSPENDED THEN <<>> ELSE <<comhand>>
<1>2. /\ ready \in {<<>>, <<sys_idle>>} /\ queue = TwoQueues(ready, b) /\ b \in Seq(Pcb)
      /\ dcb.event_flag = 0 /\ dcb.cur_op = "IDLE"
  BY <1>1, ComhandIs, TwoTypes
<1> HIDE DEF b
<1>3. Len(<<>>) = 0 /\ Len(<<sys_idle>>) = 1 /\ <<sys_idle>>[1] = sys_idle
  BY EmptySeq
<1>4. CASE ready = <<>>
  <2>1. UNCHANGED <<kvars, left>> /\ pc' = [pc EXCEPT ![comhand] = "goodbye"]
    BY <1>1, <1>3, <1>4 DEF shutdown, Goto
  <2>2. UNCHANGED <<queue, state, class, name, setting, current, dcb>> /\ ready' = ready
    BY <2>1 DEF kvars, vars, kernel, ready
  <2>3. pc'[comhand] = "goodbye"
    BY <2>1, TwoTypes DEF ProgramsInv, ProgramsTypeOK
  <2>4. OnlyTwo' /\ Places'
    BY <2>2 DEF TwoInv, OnlyTwo, Places
  <2>5. DeviceTells' /\ LastWords'
    BY <1>1, <1>2, <1>4, <2>2, <2>3 DEF TwoInv, DeviceTells, LastWords
  <2> QED
    BY <2>4, <2>5 DEF TwoInv
<1>5. CASE ready = <<sys_idle>>
  <2>1. /\ Effect(Drop(sys_idle) /\ UNCHANGED reply) /\ UNCHANGED pc
        /\ left' = IF Len(ready') < Len(ready) THEN left ELSE [left EXCEPT ![comhand] = @ + 1]
    BY <1>1, <1>3, <1>5 DEF shutdown
  <2>2. queue' = pcb_remove(TwoQueues(<<sys_idle>>, b), state, sys_idle)
        /\ UNCHANGED <<state, class, name, setting, current, dcb>>
    BY <1>2, <1>5, <2>1 DEF Effect, Drop
  <2>3. queue' = TwoQueues(<<>>, b)
    BY <1>1, <1>2, <2>2, TwoTypes, ReadyMoves
  <2>4. ready' = <<>>
    BY <1>2, <2>3, TwoTypes, TwoQueuesIs DEF ready
  <2>5. left' = left
    BY <1>3, <1>5, <2>1, <2>4
  <2>6. OnlyTwo' /\ Places'
    <3>1. CASE state[comhand] = READY_NOT_SUSPENDED
      BY <1>1, <2>2, <2>3, <3>1 DEF TwoInv, OnlyTwo, Places, b
    <3>2. CASE state[comhand] = BLOCKED_NOT_SUSPENDED
      BY <1>1, <2>2, <2>3, <3>2, TwoTypes DEF TwoInv, OnlyTwo, Places, b
    <3> QED
      BY <3>1, <3>2, <1>1, ComhandIs
  <2>7. DeviceTells' /\ LastWords'
    BY <1>1, <1>2, <2>1, <2>2, <2>4, <2>5 DEF TwoInv, DeviceTells, LastWords
  <2> QED
    BY <2>6, <2>7 DEF TwoInv
<1> QED
  BY <1>2, <1>4, <1>5


\* A device that comhand declares free works on, or rests, as before.
LEMMA FreeIs ==
  ASSUME KInv, NEW i \in {0, dcb.rw_index}, Free(i)
  PROVE  /\ UNCHANGED <<queue, state, class, name, setting, current>>
         /\ dcb'.event_flag = dcb.event_flag /\ dcb'.cur_op = dcb.cur_op
         /\ dcb'.pcb_ptr = dcb.pcb_ptr /\ dcb'.iocbs = dcb.iocbs
<1>1. dcb \in DCB
  BY TwoTypes
<1> QED
  BY <1>1 DEF Free, Device, vars, DCB

LEMMA ComhandTwo ==
  ASSUME "load_r3" \notin Lines, sys_idle_name \notin Typed,
         KInv, ProgramsInv({}), TwoInv, comhand_step
  PROVE  TwoInv'
<1> USE DEF At, Goto
<1>1. /\ current = comhand /\ comhand \in Pcb /\ setting = NULL
      /\ pc \in [Pcb -> Labels] /\ left \in [Pcb -> Nat] /\ pc[comhand] # "load"
      /\ MaxLength \in 0 .. MaxLength /\ 0 \in 0 .. MaxLength
  <2>1. current = comhand
    BY DEF comhand_step, greet, read, parse, load_r3, print, reinsert, ask, question,
           free, wait, answer, confirm, shutdown, goodbye, comhand_exit, end, idle
  <2>2. MaxLength \in 0 .. MaxLength /\ 0 \in 0 .. MaxLength
    BY RangeAssumption
  <2> QED
    BY <2>1, <2>2, TwoTypes DEF TwoInv, OnlyTwo, LastWords, ProgramsInv, ProgramsTypeOK
<1>2. ASSUME NEW op \in {"READ", "WRITE"}, NEW len \in {0, MaxLength}, sys_call(io_call(op, len)),
             pc[comhand] \notin {"clear", "exit"},
             pc'[comhand] \notin {"clear", "goodbye", "load"},
             pc'[comhand] = "exit" <=> pc[comhand] = "goodbye"
      PROVE  TwoInv'
  <2>1. io_call(op, len) /\ len \in 0 .. MaxLength /\ UNCHANGED <<class, name, setting>>
    BY <1>1, <1>2 DEF sys_call
  <2> QED
    BY <1>1, <1>2, <2>1, ComhandAsksTwo
<1>3. CASE greet
  <2>1. pc'[comhand] \in {"greet", "read"} /\ pc[comhand] = "greet"
    BY <1>1, <1>3 DEF greet, Message
  <2>2. sys_call(io_call("WRITE", MaxLength))
    BY <1>3 DEF greet, Message, write
  <2> QED
    BY <1>2, <2>1, <2>2
<1>4. CASE print
  <2>1. pc'[comhand] \in {"print", "end"} /\ pc[comhand] = "print"
    BY <1>1, <1>4 DEF print, Message
  <2>2. sys_call(io_call("WRITE", MaxLength))
    BY <1>4 DEF print, Message, write
  <2> QED
    BY <1>2, <2>1, <2>2
<1>5. CASE read
  BY <1>1, <1>2, <1>5 DEF read
<1>6. CASE ask
  BY <1>1, <1>2, <1>6 DEF ask, question, write
<1>7. CASE goodbye
  BY <1>1, <1>2, <1>7 DEF goodbye, write
<1>8. CASE wait
  BY <1>1, <1>2, <1>8 DEF wait, answer
<1>9. CASE free \/ end
  <2>1. pc'[comhand] \in {"wait", "idle"} /\ pc[comhand] \in {"free", "end"}
    BY <1>1, <1>9 DEF free, end
  <2>2. \E i \in {0, dcb.rw_index} : Free(i)
    BY <1>9 DEF free, end
  <2> QED
    BY <1>1, <2>1, <2>2, FreeIs, ComhandRunsOn
<1>10. CASE confirm
  <2>1. CASE Shutdown /\ UNCHANGED kvars
    <3>1. pc[comhand] = "confirm" /\ pc'[comhand] = "clear" /\ left'[comhand] = 1
      BY <1>1, <1>10, <2>1 DEF confirm, Shutdown
    <3> QED
      BY <1>1, <2>1, <3>1, ComhandRunsOn DEF kvars, vars, kernel
  <2>2. CASE Free(IF line = "n" THEN 0 ELSE dcb.rw_index) /\ Goto(comhand, "end")
    <3>1. pc[comhand] = "confirm" /\ pc'[comhand] = "end"
      BY <1>1, <1>10, <2>2 DEF confirm
    <3>2. \E i \in {0, dcb.rw_index} : Free(i)
      BY <2>2
    <3> QED
      BY <1>1, <3>1, <3>2, FreeIs, ComhandRunsOn
  <2> QED
    BY <1>10, <2>1, <2>2 DEF confirm
<1>11. CASE parse
  <2>1. pc[comhand] = "parse" /\ line # "load_r3"
    <3>1. "load_r3" \notin Answers \cup {NO_LINE}
      BY DEF Answers, NO_LINE
    <3> QED
      BY <1>11, <3>1 DEF parse, ProgramsInv, ProgramsTypeOK, Inputs
  <2>2. CASE /\ UNCHANGED kvars
             /\ \/ Goto(comhand, "end") \/ Goto(comhand, "ask")
                \/ \E n \in 1 .. MaxPrints : Report(n)
    <3>1. pc'[comhand] \in {"end", "ask", "print"}
      BY <1>1, <2>2 DEF Report
    <3> QED
      BY <1>1, <2>1, <2>2, <3>1, ComhandRunsOn DEF kvars, vars, kernel
  <2>3. CASE Shutdown /\ UNCHANGED kvars
    <3>1. pc'[comhand] = "clear" /\ left'[comhand] = 1
      BY <1>1, <2>3 DEF Shutdown
    <3> QED
      BY <1>1, <2>1, <2>3, <3>1, ComhandRunsOn DEF kvars, vars, kernel
  <2>4. CASE Effect(pcb_line)
    <3>1. pcb_line /\ UNCHANGED <<current, dcb>>
      BY <2>4 DEF Effect
    <3>2. UNCHANGED <<queue, state, class, name, setting>> /\ pc'[comhand] = "print"
      BY <1>1, <3>1, LinesDoNothing
    <3> QED
      BY <1>1, <2>1, <3>1, <3>2, ComhandRunsOn
  <2> QED
    BY <1>11, <2>1, <2>2, <2>3, <2>4 DEF parse
<1>12. CASE shutdown
  BY <1>12, ShutdownTwo
<1>13. CASE idle
  <2>1. idle_call /\ UNCHANGED <<class, name, setting>>
    BY <1>13 DEF idle, yield, sys_call
  <2>2. pc[comhand] = "idle" /\ pc'[comhand] = "read"
    BY <1>1, <1>13 DEF idle
  <2> QED
    BY <1>1, <2>1, <2>2, ComhandYields
<1>14. CASE comhand_exit
  <2>1. /\ exit_call /\ UNCHANGED <<class, name, setting>>
        /\ pc[comhand] = "exit" /\ UNCHANGED <<pc, left>>
    BY <1>14 DEF comhand_exit, exit, sys_call
  <2>2. ready = <<>>
    BY <2>1 DEF TwoInv, LastWords
  <2>3. UNCHANGED <<queue, current, state, dcb>>
    BY <2>1, <2>2 DEF exit_call
  <2> QED
    BY <2>1, <2>3 DEF TwoInv, OnlyTwo, Places, DeviceTells, LastWords, ready
<1>15. CASE load_r3 \/ reinsert
  BY <1>1, <1>15 DEF load_r3, reinsert, set_pcb_priority_end
<1> QED
  BY <1>3, <1>4, <1>5, <1>6, <1>7, <1>8, <1>9, <1>10, <1>11, <1>12, <1>13, <1>14, <1>15
     DEF comhand_step

-----------------------------------------------------------------------------
LEMMA TwoInit ==
  ASSUME MpxInit PROVE TwoInv
<1>1. comhand \in Pcb /\ sys_idle \in Pcb /\ comhand # sys_idle /\ comhand # NULL
      /\ KInv
  BY LoadedAssumption, PcbAssumption, KernelInitKeeps DEF MpxInit
<1>2. priority \in [Pcb -> Nat] /\ priority[comhand] <= priority[sys_idle]
  BY <1>1, TwoTypes, RangeAssumption, PriorityAssumption DEF MpxInit, KernelInit
<1>3. enqueue_pri(<<comhand>>, priority, sys_idle) = <<comhand, sys_idle>>
  BY <1>1, <1>2, ShortQueues
<1>4. queue = TwoQueues(<<comhand, sys_idle>>, <<>>)
  BY <1>3 DEF MpxInit, KernelInit, EmptyQueues, TwoQueues, READY_NOT_SUSPENDED
<1>5. /\ state[comhand] = READY_NOT_SUSPENDED /\ state[sys_idle] = READY_NOT_SUSPENDED
      /\ class[comhand] = SYSTEM /\ class[sys_idle] = SYSTEM
      /\ name[comhand] = comhand_name /\ name[sys_idle] = sys_idle_name
      /\ setting = NULL /\ current = NULL /\ pc[comhand] = "greet"
  BY <1>1 DEF MpxInit, KernelInit
<1>6. dcb.iocbs = FALSE /\ dcb.event_flag = 0 /\ dcb.cur_op = "IDLE"
  BY DEF MpxInit, KernelInit
<1> QED
  BY <1>1, <1>4, <1>5, <1>6 DEF TwoInv, OnlyTwo, Places, DeviceTells, LastWords

\* Interrupts come while comhand waits or has done its last request.
LEMMA InterruptTwo ==
  ASSUME KInv, TwoInv, serial_output_interrupt \/ operator \/ operator_reply,
         UNCHANGED <<pc, left>>
  PROVE  TwoInv'
<1>1. dcb \in DCB /\ comhand # NULL /\ comhand # sys_idle
  BY TwoTypes
<1>2. ASSUME UNCHANGED vars, UNCHANGED current, dcb'.iocbs = dcb.iocbs, dcb'.pcb_ptr = dcb.pcb_ptr,
             dcb'.event_flag = 1 => dcb'.cur_op = "IDLE",
             \/ current = sys_idle /\ state[comhand] = BLOCKED_NOT_SUSPENDED
             \/ pc[comhand] = "exit"
      PROVE  TwoInv'
  BY <1>2 DEF TwoInv, OnlyTwo, Places, DeviceTells, LastWords, ready, vars
<1>3. ASSUME current # comhand, state[comhand] = BLOCKED_NOT_SUSPENDED
      PROVE  current = sys_idle
  BY <1>3, TwoTypes DEF TwoInv, Places
<1>4. CASE serial_output_interrupt
  <2>1. \/ current = sys_idle /\ state[comhand] = BLOCKED_NOT_SUSPENDED
        \/ pc[comhand] = "exit"
    BY <1>4 DEF serial_output_interrupt, TwoInv, DeviceTells
  <2>2. /\ UNCHANGED vars /\ UNCHANGED current
        /\ dcb'.iocbs = dcb.iocbs /\ dcb'.pcb_ptr = dcb.pcb_ptr
        /\ dcb'.cur_op # "IDLE" => dcb'.event_flag = 0
    <3>1. dcb.event_flag = 0
      BY <1>1, <1>4 DEF serial_output_interrupt, TwoInv, DeviceTells, DCB
    <3> QED
      BY <1>1, <1>4, <3>1 DEF serial_output_interrupt, Device, DCB
  <2> QED
    BY <1>2, <2>1, <2>2
<1>5. CASE operator
  <2>1. current = sys_idle /\ state[comhand] = BLOCKED_NOT_SUSPENDED
    BY <1>3, <1>5 DEF operator, Prompt
  <2>2. /\ UNCHANGED vars /\ UNCHANGED current
        /\ dcb'.iocbs = dcb.iocbs /\ dcb'.pcb_ptr = dcb.pcb_ptr /\ dcb'.cur_op = "IDLE"
    BY <1>1, <1>5 DEF operator, input_enter, Device, DCB
  <2> QED
    BY <1>2, <2>1, <2>2
<1>6. CASE operator_reply
  <2>1. current = sys_idle /\ state[comhand] = BLOCKED_NOT_SUSPENDED
    BY <1>3, <1>6 DEF operator_reply, reply_key, reply_enter, Question
  <2>2. /\ UNCHANGED vars /\ UNCHANGED current
        /\ dcb'.iocbs = dcb.iocbs /\ dcb'.pcb_ptr = dcb.pcb_ptr /\ dcb'.cur_op = "IDLE"
    BY <1>1, <1>6 DEF operator_reply, reply_key, reply_enter, input_enter, input_key, Device, DCB
  <2> QED
    BY <1>2, <2>1, <2>2
<1> QED
  BY <1>4, <1>5, <1>6

LEMMA TwoStep ==
  ASSUME "load_r3" \notin Lines, sys_idle_name \notin Typed,
         KInv, ProgramsInv({}), TwoInv, [MpxNext]_mvars
  PROVE  TwoInv'
<1>1. CASE kmain \/ sys_idle_process
  <2>1. /\ idle_call /\ UNCHANGED <<class, name, setting, pc, left>>
        /\ current = NULL \/ current = sys_idle
    BY <1>1 DEF kmain, sys_idle_process, At, yield, sys_call
  <2> QED
    BY <2>1, KmainTwo, SysIdleTwo
<1>2. CASE comhand_step
  BY <1>2, ComhandTwo
<1>3. CASE \E p \in TestSet : r3_proc(p)
  <2>1. PICK p \in TestSet : current = p
    BY <1>3 DEF r3_proc, At
  <2>2. p # comhand /\ p # sys_idle /\ p # NULL
    BY Loaded, PcbAssumption
  <2> QED
    BY <2>1, <2>2 DEF TwoInv, Places
<1>4. CASE device_step \/ operator \/ operator_reply
  <2>1. UNCHANGED <<pc, left>>
    BY <1>4 DEF device_step, operator, operator_reply, reply_key, reply_enter, programs
  <2> QED
    BY <1>4, <2>1, InterruptTwo DEF device_step
<1>5. CASE UNCHANGED mvars
  BY <1>5 DEF mvars, kvars, vars, kernel, programs,
              TwoInv, OnlyTwo, Places, DeviceTells, LastWords, ready
<1> QED
  BY <1>1, <1>2, <1>3, <1>4, <1>5 DEF MpxNext, process_step

\* No PCB occurs twice in such queues, and each is where its state says.
LEMMA TwoOnce ==
  ASSUME KInv, TwoInv PROVE NeverTwice
<1> DEFINE both == <<comhand, sys_idle>>
<1>1. \A x : /\ ~In(<<>>, x) /\ (In(<<comhand>>, x) <=> x = comhand)
             /\ In(<<sys_idle>>, x) <=> x = sys_idle
             /\ In(both, x) <=> x \in {comhand, sys_idle}
  <2>1. \A x : ~In(<<>>, x)
    BY EmptySeq DEF In
  <2>2. \A x : In(<<comhand>>, x) <=> x = comhand
    BY DEF In
  <2>3. \A x : In(<<sys_idle>>, x) <=> x = sys_idle
    BY DEF In
  <2>4. Len(both) = 2 /\ both[1] = comhand /\ both[2] = sys_idle
    OBVIOUS
  <2> HIDE DEF both
  <2>5. \A x : In(both, x) <=> x \in {comhand, sys_idle}
    BY <2>4 DEF In
  <2> QED
    BY <2>1, <2>2, <2>3, <2>5
<1>2. Distinct(<<>>) /\ Distinct(<<comhand>>) /\ Distinct(<<sys_idle>>) /\ Distinct(both)
  <2>1. Len(both) = 2 /\ both[1] = comhand /\ both[2] = sys_idle
    OBVIOUS
  <2>2. Distinct(<<>>) /\ Distinct(<<comhand>>) /\ Distinct(<<sys_idle>>)
    BY EmptySeq DEF Distinct
  <2> HIDE DEF both
  <2> QED
    BY <2>1, <2>2, TwoTypes DEF Distinct
<1> HIDE DEF both
<1>3. PICK r \in {<<>>, <<comhand>>, <<sys_idle>>, both}, b \in {<<>>, <<comhand>>} :
        /\ queue = TwoQueues(r, b)
        /\ b = <<comhand>> => state[comhand] = BLOCKED_NOT_SUSPENDED
        /\ r \in {<<comhand>>, both} => state[comhand] = READY_NOT_SUSPENDED
        /\ \/ current = NULL
           \/ current = comhand  /\ r \in {<<>>, <<sys_idle>>}
           \/ current = sys_idle /\ r \in {<<>>, <<comhand>>}
  <2>1. /\ <<comhand>> # <<>> /\ <<comhand>> # <<sys_idle>> /\ both # <<>> /\ both # <<sys_idle>>
    BY <1>1, TwoTypes, Zenon
  <2> QED
    BY <2>1 DEF TwoInv, Places, both
<1>4. \A s \in States : queue[s] = IF s = READY_NOT_SUSPENDED THEN r
                                   ELSE IF s = BLOCKED_NOT_SUSPENDED THEN b ELSE <<>>
  BY <1>3 DEF TwoQueues
<1>5. \A s \in States : \A x : In(queue[s], x) =>
         /\ x \in {comhand, sys_idle} /\ state[x] = s
         /\ x = current => x = comhand /\ state[comhand] = BLOCKED_NOT_SUSPENDED
  <2> SUFFICES ASSUME NEW s \in States, NEW x, In(queue[s], x)
               PROVE  /\ x \in {comhand, sys_idle} /\ state[x] = s
                      /\ x = current => x = comhand /\ state[comhand] = BLOCKED_NOT_SUSPENDED
    OBVIOUS
  <2>1. state[sys_idle] = READY_NOT_SUSPENDED
    BY DEF TwoInv, OnlyTwo
  <2>2. CASE s = READY_NOT_SUSPENDED
    <3>1. In(r, x)
      BY <1>4, <2>2
    <3>2. \/ r = <<comhand>>  /\ x = comhand
          \/ r = <<sys_idle>> /\ x = sys_idle
          \/ r = both         /\ x \in {comhand, sys_idle}
      BY <1>1, <1>3, <3>1
    <3> QED
      BY <1>1, <1>3, <2>1, <2>2, <3>1, <3>2, TwoTypes
  <2>3. CASE s = BLOCKED_NOT_SUSPENDED
    <3>1. In(b, x)
      BY <1>4, <2>3, TwoTypes
    <3>2. b = <<comhand>> /\ x = comhand
      BY <1>1, <1>3, <3>1
    <3> QED
      BY <1>3, <2>3, <3>2
  <2>4. CASE s \notin {READY_NOT_SUSPENDED, BLOCKED_NOT_SUSPENDED}
    BY <1>1, <1>4, <2>4
  <2> QED
    BY <2>2, <2>3, <2>4
<1>6. QueuedByState
  BY <1>5 DEF QueuedByState, In
<1>7. \A s \in States : Distinct(queue[s])
  BY <1>2, <1>3, <1>4
<1>8. NoDuplicates
  BY <1>7 DEF NoDuplicates, Distinct
<1>9. setting = NULL
  BY DEF TwoInv, OnlyTwo
<1>10. ASSUME Queued(queue, current)
       PROVE  current = comhand /\ state[comhand] = BLOCKED_NOT_SUSPENDED
  <2>1. PICK s \in States : In(queue[s], current)
    BY <1>10 DEF Queued, In
  <2> QED
    BY <1>5, <2>1
<1> QED
  BY <1>6, <1>8, <1>9, <1>10 DEF NeverTwice, OneQueueEach

\* With no test process loaded, and as long as the operator leaves the name of
\* the idle process alone, no PCB is ever queued twice, whatever else is typed:
\* the failed read behind which comhand runs on in the blocked state, the
\* wake-ups, and the priority of comhand included.
THEOREM NobodyIsQueuedTwice ==
  ASSUME WholeSystem, "load_r3" \notin Lines, sys_idle_name \notin Typed
  PROVE  MpxSpec => []NeverTwice
<1>1. MpxInit => KInv /\ ProgramsInv({}) /\ TwoInv
  BY ProgramsInit, KernelInitKeeps, TwoInit
<1>2. KInv /\ ProgramsInv({}) /\ TwoInv /\ [MpxNext]_mvars => (KInv /\ ProgramsInv({}) /\ TwoInv)'
  BY MpxStepKeeps, TwoStep
<1>3. KInv /\ ProgramsInv({}) /\ TwoInv => NeverTwice
  BY TwoOnce
<1> QED
  BY <1>1, <1>2, <1>3, PTL DEF MpxSpec
=============================================================================
