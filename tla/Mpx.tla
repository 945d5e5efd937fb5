-------------------------------- MODULE Mpx ---------------------------------
(***************************************************************************)
(* The system that kmain starts: Kernel with the programs it really runs,  *)
(* comhand of kernel/comhand.c, sys_idle and the test processes of         *)
(* user/core.c, and an operator at the keyboard.                           *)
(*                                                                         *)
(* A program is followed from one system call to the next: pc[p] is what p *)
(* does when it has the CPU, and left[p] how often it still does it.       *)
(***************************************************************************)
EXTENDS Kernel

CONSTANTS
    Tests,          \* the processes load_r3 creates, in that order
    TestName,       \* and their names
    Iterations,     \* how often each prints before it exits
    Lines,          \* the command lines the operator types
    Typed,          \* the process names in them
    MaxPrints       \* bound: messages one command prints

TestSet == Range(Tests)

ASSUME TestsAssumption ==
    /\ Tests \in Seq(Pcb \ {comhand, sys_idle})
    /\ TestName \in [TestSet -> Names \ {comhand_name, sys_idle_name}]
    /\ Iterations \in [TestSet -> Nat \ {0}]
    /\ Typed \subseteq Names
    /\ MaxPrints \in Nat \ {0}

AllLines == {"print", "load_r3", "suspend", "resume", "delete", "priority",
             "shutdown", "shutdown!"}
Answers  == {"y", "n"}
NO_LINE  == "none"
Texts    == AllLines \cup Answers \cup {NO_LINE}

Labels == {"greet", "read", "parse", "load", "print", "reinsert", "ask", "free", "wait",
           "confirm", "clear", "goodbye", "end", "idle", "write", "yield", "bye", "exit", "failure", "exit again"}

VARIABLES
    pc,
    left,
    line    \* the command line or reply that waits in the buffer of the device

programs == <<pc, left, line>>
mvars    == <<kvars, programs>>

MpxTypeOK ==
    /\ KernelTypeOK
    /\ pc \in [Pcb -> Labels]
    /\ left \in [Pcb -> Nat]
    /\ line \in Texts

\* The heap is zero when serial_open allocates the DCB.
MpxInit ==
    /\ KernelInit
    /\ dcb.allocation_status = 0
    /\ pc = [p \in Pcb |-> IF p = comhand THEN "greet"
                           ELSE IF p = sys_idle THEN "idle" ELSE "write"]
    /\ left = [p \in Pcb |-> IF p = comhand THEN 3
                             ELSE IF p \in TestSet THEN Iterations[p] ELSE 0]
    /\ line = NO_LINE

-----------------------------------------------------------------------------
\* p runs, and is at l.
At(p, l) == ~halted /\ current = p /\ pc[p] = l

Goto(p, l) == pc' = [pc EXCEPT ![p] = l]

\* A request that passes validation overwrites the buffer.
write == sys_call(io_call("WRITE", MaxLength)) /\ line' = NO_LINE
yield == sys_call(idle_call) /\ UNCHANGED line
exit  == sys_call(exit_call) /\ UNCHANGED line

\* One of left[p] messages; behind the last of them p goes to l.
Message(p, l) ==
    /\ write
    /\ left' = [left EXCEPT ![p] = @ - 1]
    /\ IF left[p] = 1 THEN Goto(p, l) ELSE UNCHANGED pc

kmain == current = NULL /\ yield /\ UNCHANGED <<pc, left>>

-----------------------------------------------------------------------------
(***************************************************************************)
(* comhand.                                                                *)
(***************************************************************************)
greet == At(comhand, "greet") /\ Message(comhand, "read")

\* The length of the read is the length of an empty string.
read ==
    /\ At(comhand, "read")
    /\ sys_call(io_call("READ", 0))
    /\ Goto(comhand, "parse")
    /\ UNCHANGED <<left, line>>

\* A command prints n messages once it has done its work.
Report(n) == left' = [left EXCEPT ![comhand] = n] /\ Goto(comhand, "print")

\* One create_pcb for each test process.
load_r3 ==
    LET p == Tests[Len(Tests) + 1 - left[comhand]]
    IN  /\ At(comhand, "load")
        /\ Effect(create_pcb(TestName[p], USER, USER_PRIORITY))
        /\ allocated' = allocated \cup {p}
        /\ left' = [left EXCEPT ![comhand] = @ - 1]
        /\ IF left[comhand] = 1 THEN Goto(comhand, "end") ELSE UNCHANGED pc
        /\ UNCHANGED line

\* The user commands on a named PCB, each with its message.
pcb_line ==
    /\ \/ \E n \in Typed :
            \/ line = "suspend" /\ suspend_pcb(n)
            \/ line = "resume"  /\ resume_pcb(n)
            \/ line = "delete"  /\ delete_pcb(n)
       \/ \E n \in Typed, pri \in {1, USER_PRIORITY, MAX_PRIORITY} :
            line = "priority" /\ set_pcb_priority(n, pri)
    /\ Report(1)

\* shutdown begins, with the first node of the ready queue.
Shutdown == left' = [left EXCEPT ![comhand] = 1] /\ Goto(comhand, "clear")

\* Up to the first message, or to the loop of load_r3 or shutdown.
parse ==
    /\ At(comhand, "parse")
    /\ \/ line = NO_LINE /\ Goto(comhand, "end") /\ UNCHANGED <<kvars, left>>
       \/ line = "print" /\ (\E n \in 1 .. MaxPrints : Report(n)) /\ UNCHANGED kvars
       \/ /\ line = "load_r3" /\ Goto(comhand, "load") /\ UNCHANGED kvars
          /\ left' = [left EXCEPT ![comhand] = Len(Tests)]
       \/ line \in {"suspend", "resume", "delete", "priority"} /\ Effect(pcb_line)
       \/ line = "shutdown" /\ Goto(comhand, "ask") /\ UNCHANGED <<kvars, left>>
       \/ line = "shutdown!" /\ Shutdown /\ UNCHANGED kvars
    /\ line' = NO_LINE

\* comhand asks the user something at l, and then waits at next for the answer.
question(l, next) ==
    At(comhand, l) /\ write /\ Goto(comhand, next) /\ UNCHANGED left

answer(l, next) ==
    /\ At(comhand, l)
    /\ sys_call(io_call("READ", MaxLength))
    /\ line' = NO_LINE
    /\ Goto(comhand, next)
    /\ UNCHANGED left

\* The question of shutdown: the device is declared free before the READ, and
\* again if the reply is not "y".
ask == question("ask", "free")

free ==
    /\ At(comhand, "free")
    /\ Free(dcb.rw_index)
    /\ Goto(comhand, "wait")
    /\ line' = NO_LINE
    /\ UNCHANGED left

wait == answer("wait", "confirm")

confirm ==
    /\ At(comhand, "confirm")
    /\ \/ line = "y" /\ Shutdown /\ UNCHANGED kvars
       \/ /\ line # "y"
          /\ Free(IF line = "n" THEN 0 ELSE dcb.rw_index)
          /\ Goto(comhand, "end")
          /\ UNCHANGED left
    /\ line' = NO_LINE

\* left is the place of cur_node: the next node moves there when it goes.
shutdown ==
    /\ At(comhand, "clear")
    /\ \/ /\ left[comhand] > Len(ready)
          /\ Goto(comhand, "goodbye")
          /\ UNCHANGED <<kvars, left>>
       \/ /\ left[comhand] <= Len(ready)
          /\ Effect(Drop(ready[left[comhand]]) /\ UNCHANGED reply)
          /\ left' = IF Len(ready') < Len(ready) THEN left
                     ELSE [left EXCEPT ![comhand] = @ + 1]
          /\ UNCHANGED pc
    /\ UNCHANGED line

print ==
    /\ At(comhand, "print")
    /\ Message(comhand, IF setting = NULL THEN "end" ELSE "reinsert")

goodbye == At(comhand, "goodbye") /\ write /\ Goto(comhand, "exit") /\ UNCHANGED left

\* Faulty variant: the process whose priority was set is forgotten.
forget ==
    /\ At(comhand, "reinsert")
    /\ setting' = NULL
    /\ Goto(comhand, "end")
    /\ UNCHANGED <<queue, state, priority, class, name, allocated, reply, kernel, left, line>>

reinsert ==
    /\ At(comhand, "reinsert")
    /\ set_pcb_priority_end
    /\ Goto(comhand, "end")
    /\ UNCHANGED <<kernel, left, line>>

end ==
    /\ At(comhand, "end")
    /\ Free(0)
    /\ Goto(comhand, "idle")
    /\ line' = NO_LINE
    /\ UNCHANGED left

idle == At(comhand, "idle") /\ yield /\ Goto(comhand, "read") /\ UNCHANGED left

comhand_exit == At(comhand, "exit") /\ exit /\ UNCHANGED <<pc, left>>

comhand_step == \/ greet \/ read \/ parse \/ load_r3 \/ print \/ reinsert
                \/ ask \/ free \/ wait \/ confirm \/ shutdown \/ goodbye \/ comhand_exit \/ end \/ idle

-----------------------------------------------------------------------------
(***************************************************************************)
(* sys_idle_process and r3_proc.                                           *)
(***************************************************************************)
sys_idle_process == At(sys_idle, "idle") /\ yield /\ UNCHANGED <<pc, left>>

\* The lines behind the first EXIT are not meant to run.
r3_proc(p) ==
    \/ At(p, "write") /\ write /\ Goto(p, "yield") /\ UNCHANGED left
    \/ At(p, "yield") /\ yield /\ left' = [left EXCEPT ![p] = @ - 1]
       /\ Goto(p, IF left[p] = 1 THEN "bye" ELSE "write")
    \/ At(p, "bye") /\ write /\ Goto(p, "exit") /\ UNCHANGED left
    \/ At(p, "exit") /\ exit /\ Goto(p, "failure") /\ UNCHANGED left
    \/ At(p, "failure") /\ write /\ Goto(p, "exit again") /\ UNCHANGED left
    \/ At(p, "exit again") /\ exit /\ Goto(p, "failure") /\ UNCHANGED left

-----------------------------------------------------------------------------
\* comhand has nothing to do and the device is quiet.
Prompt ==
    /\ pc[comhand] = "read" /\ current # comhand
    /\ state[comhand] = BLOCKED_NOT_SUSPENDED
    /\ dcb.cur_op = "IDLE" /\ dcb.event_flag = 0

\* The operator waits for the prompt, types a line and presses Enter, and
\* loads the test processes once.
operator ==
    /\ Prompt
    /\ \E l \in Lines : (l = "load_r3" => TestSet \cap allocated = {}) /\ line' = l
    /\ input_enter
    /\ UNCHANGED <<pc, left>>

\* comhand waits at l for the answer to a question.
Question(l) ==
    /\ pc[comhand] = l /\ current # comhand
    /\ state[comhand] = BLOCKED_NOT_SUSPENDED
    /\ dcb.cur_op # "WRITE" /\ dcb.event_flag = 0

\* The operator types an answer, of any text in texts, and presses Enter.
reply_key(l) == Question(l) /\ dcb.cur_op = "READ" /\ input_key /\ UNCHANGED programs

reply_enter(l, texts) ==
    Question(l) /\ line' \in texts /\ input_enter /\ UNCHANGED <<pc, left>>

operator_reply == reply_key("confirm") \/ reply_enter("confirm", Answers \cup {NO_LINE})

process_step == kmain \/ comhand_step \/ sys_idle_process \/ \E p \in TestSet : r3_proc(p)
device_step  == serial_output_interrupt /\ UNCHANGED programs

MpxNext == process_step \/ device_step \/ operator \/ operator_reply

MpxSpec == MpxInit /\ [][MpxNext]_mvars

\* The CPU runs whichever process has it, and the port sends what it is given.
Fairness == WF_mvars(process_step) /\ WF_mvars(device_step)

FairSpec == MpxSpec /\ Fairness

-----------------------------------------------------------------------------
(***************************************************************************)
(* Properties                                                              *)
(***************************************************************************)

\* As long as the operator waits for the prompt, no process is queued twice
\* or queued while it runs, except comhand, which runs on in the blocked
\* state behind its failed read.
NeverTwice ==
    /\ OneQueueEach
    /\ current # NULL /\ Queued(queue, current) =>
          current = comhand /\ state[comhand] = BLOCKED_NOT_SUSPENDED

\* Every line typed at the prompt, and every reply to the question of
\* shutdown, reaches the command handler.
LinesAreExecuted ==
    /\ \A l \in Lines : line = l ~> At(comhand, "parse") /\ line = l
    /\ \A l \in Answers : line = l ~> At(comhand, "confirm") /\ line = l

\* comhand comes back to the prompt, or to its question, or the system halts.
PromptReturns == []<>(Prompt \/ Question("confirm") \/ halted)

\* The message behind EXIT in r3_proc says what must not happen: a process
\* that has exited gets the CPU again.
ExitIsFinal == \A p \in TestSet : ~At(p, "failure")
=============================================================================
