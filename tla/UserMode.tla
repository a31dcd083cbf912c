------------------------------ MODULE UserMode ------------------------------
(***************************************************************************)
(* User tasks: their life cycle (core/task.c), entry to and return from    *)
(* ring 3 (arch/x86_64/usermode.c), the system-call dispatcher and its     *)
(* global state (core/syscall_dispatch.c), user faults                     *)
(* (arch/x86_64/fault.c), the endpoint-call system call (ipc/user_ipc.c)   *)
(* and spawning from a task (services/proc_service.c, core/loader.c).      *)
(*                                                                         *)
(* A task runs inside a kernel call, scdk_usermode_run_*, that returns     *)
(* when the task exits or faults.  A task that spawns another runs it      *)
(* inside its own system call, so runs nest: the variable runs is the      *)
(* stack of them, the last one in control.  The registers of the system    *)
(* call in progress live in global variables, saved and restored around a  *)
(* run.  Interrupts are off in ring 3 and in system calls.                 *)
(*                                                                         *)
(* Kernel memory, pages and mappings may be refused at any request.  A     *)
(* kernel stack is a block of the kernel heap.  A task is the index of its *)
(* slot; NoTask also stands for the task-less boot test of ring 3.         *)
(***************************************************************************)
EXTENDS Integers, Sequences, FiniteSets, FiniteSetsExt

CONSTANTS MaxTasks,   \* SCDK_MAX_TASKS
          Blocks,     \* heap blocks a run may get
          MaxPages,   \* physical pages
          Images,     \* numbers of code pages of the programs
          StubRunners,  \* who may run the built-in stub
          NoTask,     \* current_user_task = 0
          NoBlock,    \* no heap block; no kernel stack yet
          Static,     \* the array syscall_stack of usermode.c
          Boot        \* the boot page-table root

TaskIdx == 0 .. MaxTasks - 1
Runners == TaskIdx \cup {NoTask}

ASSUME UserModeAssumption ==
    /\ MaxTasks \in Nat /\ MaxPages \in Nat /\ Images \subseteq Nat \ {0}
    /\ NoTask \notin TaskIdx /\ Boot \notin Runners
    /\ StubRunners \subseteq Runners
    /\ {NoBlock, Static} \cap Blocks = {}

VARIABLES tasks,   \* user_tasks[i].state and the state of its main thread
          runs,    \* the nested scdk_usermode_run_* calls
          current_user_task,
          sys,     \* the globals of syscall.c and syscall_dispatch.c
          rsp0,    \* tss.rsp0: the stack on which a fault in ring 3 arrives
          root,    \* the active address space
          heap,    \* heap blocks in use
          pages,   \* free physical pages
          mapped,  \* user pages mapped in each address space
          result,  \* history: kind, task and status of the last run, until
                   \* another one begins
          faulted_tasks,  \* history: tasks that faulted
          abandoned       \* history: built-in tests that gave up in the middle

history == <<faulted_tasks, abandoned>>
memVars == <<heap, pages, mapped>>
cpuVars == <<sys, rsp0, root>>
umVars == <<tasks, current_user_task, history, memVars, cpuVars, runs, result>>

\* What scdk_syscall_save_task_state saves.  stack is
\* scdk_syscall_kernel_stack_top; user stands for the saved user registers
\* and arguments, named by the task they belong to; return_to for
\* scdk_user_return_rsp and _rip, named by the depth of the run they return
\* to; the rest are the flags of syscall_dispatch.c.
NoSys == [stack |-> NoBlock, user |-> NoTask, return_to |-> 0,
          exited |-> FALSE, passed |-> FALSE, faulted |-> FALSE]

NoResult == [kind |-> "none", task |-> NoTask, status |-> "none"]

UmInit ==
    /\ tasks = [t \in TaskIdx |-> [state |-> "none", thread |-> "none"]]
    /\ runs = <<>> /\ current_user_task = NoTask
    /\ sys = NoSys /\ rsp0 = NoBlock /\ root = Boot
    /\ heap = {} /\ pages = MaxPages
    /\ mapped = [t \in Runners |-> {}]
    /\ result = NoResult
    /\ faulted_tasks = {} /\ abandoned = {}

Depth == Len(runs)
Top == runs[Depth]
TopAt(pcs) == runs # <<>> /\ Top.pc \in pcs
SetTop(field, value) == [runs EXCEPT ![Depth][field] = value]

\* What the stubs of usermode_entry.S do; a loaded program may do anything.
StubActs == [builtin |-> {"plain call", "endpoint call", "faulting call", "exit"},
             fault |-> {"exception", "invalid call", "faulting call"}]
UserDoes(act) == TopAt({"user"}) /\ (Top.kind # "flat" => act \in StubActs[Top.kind])

-----------------------------------------------------------------------------
(* task.c                                                                  *)

FreeTasks == {t \in TaskIdx : tasks[t].state = "none"}
\* A task and its main thread are found by the tokens they were created with.
task_slot_for_cap(t) == t \in TaskIdx /\ tasks[t].state # "none"
alloc_task_slot(t) == t \in FreeTasks /\ \A u \in FreeTasks : t <= u
MarkTask(t, state) ==
    IF t = NoTask THEN tasks
    ELSE [tasks EXCEPT ![t] = [state |-> state, thread |-> state]]

\* scdk_user_task_create succeeds.  When it fails, on the thread too, it
\* leaves the slot free; the objects it made are not given back.
scdk_user_task_create(t) ==
    /\ runs = <<>> /\ alloc_task_slot(t)
    /\ tasks' = MarkTask(t, "new")
    /\ UNCHANGED <<current_user_task, history, memVars, cpuVars, runs, result>>

\* The task slot is never free again.
scdk_task_cleanup(t) ==
    /\ runs = <<>> /\ task_slot_for_cap(t) /\ tasks[t].state = "dead"
    /\ tasks' = [tasks EXCEPT ![t] = [state |-> "cleaned", thread |-> "dead"]]
    /\ UNCHANGED <<current_user_task, history, memVars, cpuVars, runs, result>>

\* Mutant: the fault is charged to the task that called the kernel first.
scdk_task_fault_current_outermost == tasks' = MarkTask(runs[1].task, "dead")

\* The task on record as running, whoever that is, is marked dead.
scdk_task_fault_current == tasks' = MarkTask(current_user_task, "dead")

-----------------------------------------------------------------------------
(* Getting into ring 3.                                                    *)

\* What a run acquires, in this order.
KernelStack == <<"kstack", 0>>
CodePages(n) == [k \in 1 .. 2 * n |->
                    <<IF k % 2 = 1 THEN "page" ELSE "map", (k + 1) \div 2>>]
UserStack == <<<<"page", 0>>, <<"map", 0>>>>

run_flat_image_plan(n) == <<KernelStack>> \o CodePages(n) \o UserStack
run_fault_test_plan == <<KernelStack>> \o CodePages(1) \o UserStack
run_stub_plan == <<<<"page", 1>>, <<"page", 0>>, <<"map", 1>>, <<"map", 0>>>>

scdk_syscall_init(stack) ==
    sys' = [sys EXCEPT !.stack = stack, !.exited = FALSE,
                       !.passed = FALSE, !.faulted = FALSE]

scdk_usermode_init(stack) == rsp0' = stack /\ scdk_syscall_init(stack)

Frame(kind, t, plan, image, saved) ==
    [kind |-> kind, task |-> t, plan |-> plan, got |-> 0, stack |-> Static,
     image |-> image, old_user_task |-> current_user_task,
     boot_root |-> root, saved |-> saved, pc |-> "setup"]

Runnable(t) ==
    /\ runs = <<>> /\ task_slot_for_cap(t)
    /\ tasks[t].state = "new" /\ tasks[t].thread = "new"

\* The built-in stub, for a task or for none.  It uses the static stack and
\* saves nothing; the self-test calls it with no user task in the kernel.
scdk_user_task_run_builtin(t) ==
    /\ Runnable(t) \/ (runs = <<>> /\ t = NoTask /\ t \notin abandoned)
    /\ tasks' = MarkTask(t, "running")
    /\ current_user_task' = t
    /\ runs' = <<Frame("builtin", t, run_stub_plan, NoBlock, sys)>>
    /\ scdk_usermode_init(Static)
    /\ result' = NoResult /\ UNCHANGED <<history, memVars, root>>

scdk_user_task_run_fault_test(t) ==
    /\ Runnable(t)
    /\ tasks' = MarkTask(t, "running")
    /\ current_user_task' = t
    /\ runs' = <<Frame("fault", t, run_fault_test_plan, NoBlock, sys)>>
    /\ result' = NoResult /\ UNCHANGED <<history, memVars, cpuVars>>

\* scdk_syscall_entry: the user's registers go to the global variables.
SyscallEntry == [sys EXCEPT !.user = Top.task]

\* The loader, for the kernel or for a task that asked the process service:
\* it holds the image in a heap block, creates a task and runs it.
scdk_loader_load_from_vfs_with_endpoint(n, image, t) ==
    LET now == IF runs = <<>> THEN sys ELSE SyscallEntry
        waiting == IF runs = <<>> THEN runs ELSE SetTop("pc", "spawn")
    IN  /\ runs # <<>> => UserDoes("spawn")
        /\ image \in Blocks \ heap /\ heap' = heap \cup {image}
        /\ alloc_task_slot(t) /\ tasks' = MarkTask(t, "running")
        /\ current_user_task' = t
        /\ sys' = now
        /\ runs' = Append(waiting, Frame("flat", t, run_flat_image_plan(n), image, now))
        /\ result' = NoResult /\ UNCHANGED <<history, pages, mapped, rsp0, root>>

AcquireStack(b) ==
    /\ b \in Blocks \ heap /\ heap' = heap \cup {b}
    /\ runs' = [runs EXCEPT ![Depth].stack = b, ![Depth].got = @ + 1]
    /\ scdk_usermode_init(b)
    /\ UNCHANGED <<pages, mapped>>

AcquirePage ==
    /\ pages > 0 /\ pages' = pages - 1
    /\ runs' = SetTop("got", Top.got + 1)
    /\ UNCHANGED <<heap, mapped, sys, rsp0>>

AcquireMapping(item) ==
    /\ item \notin mapped[Top.task]
    /\ mapped' = [mapped EXCEPT ![Top.task] = @ \cup {item}]
    /\ runs' = SetTop("got", Top.got + 1)
    /\ UNCHANGED <<heap, pages, sys, rsp0>>

SetupSucceeds ==
    /\ TopAt({"setup"}) /\ Top.got < Len(Top.plan)
    /\ LET item == Top.plan[Top.got + 1]
       IN  \/ item[1] = "kstack" /\ \E b \in Blocks : AcquireStack(b)
           \/ item[1] = "page" /\ AcquirePage
           \/ item[1] = "map" /\ AcquireMapping(item)
    /\ UNCHANGED <<tasks, current_user_task, history, root, result>>

\* A request is refused, or the address space cannot be activated.
SetupFails ==
    /\ TopAt({"setup"})
    /\ runs' = SetTop("pc", "failed")
    /\ UNCHANGED <<tasks, current_user_task, history, memVars, cpuVars, result>>

\* scdk_address_space_activate and scdk_enter_usermode_asm.
scdk_enter_usermode_asm ==
    /\ TopAt({"setup"}) /\ Top.got = Len(Top.plan)
    /\ root' = Top.task
    /\ sys' = [sys EXCEPT !.return_to = Depth]
    /\ runs' = SetTop("pc", "user")
    /\ UNCHANGED <<tasks, current_user_task, history, memVars, rsp0, result>>

-----------------------------------------------------------------------------
(* In ring 3: faults and system calls.                                     *)

\* Control goes to the saved kernel frame.
BackToKernel == runs' = [SubSeq(runs, 1, sys.return_to) EXCEPT ![sys.return_to].pc = "back"]

mark_user_fault(now) ==
    /\ scdk_task_fault_current
    /\ faulted_tasks' = faulted_tasks \cup {Top.task}
    /\ sys' = [now EXCEPT !.faulted = TRUE, !.exited = TRUE]
    /\ BackToKernel
    /\ UNCHANGED <<current_user_task, abandoned, memVars, rsp0, root, result>>

\* A page fault, general-protection fault or invalid opcode in ring 3.
scdk_fault_dispatch == UserDoes("exception") /\ mark_user_fault(sys)

scdk_fault_handle_invalid_syscall == UserDoes("invalid call") /\ mark_user_fault(SyscallEntry)

\* SCDK_SYS_EXIT
SysExit ==
    /\ UserDoes("exit")
    /\ sys' = [SyscallEntry EXCEPT !.exited = TRUE]
    /\ BackToKernel
    /\ UNCHANGED <<tasks, current_user_task, history, memVars, rsp0, root, result>>

\* The call returns to the user.
ReturnToUser(now) ==
    /\ sys' = now
    /\ UNCHANGED <<tasks, current_user_task, history, memVars, rsp0, root, runs, result>>

\* Debug, yield, grant and ring calls return OK or an error to the user, an
\* error for a bad pointer too.  Only a ring submission that succeeds counts
\* as an endpoint call.
SysPlain(passes) ==
    /\ UserDoes(IF passes THEN "ring call" ELSE "plain call")
    /\ ReturnToUser([SyscallEntry EXCEPT !.passed = @ \/ passes])

\* scdk_sys_endpoint_call ends in a fault: the token is refused, the message
\* or its buffer is not the user's, or the target is not the endpoint.
EndpointCallFaults == UserDoes("faulting call") /\ mark_user_fault(SyscallEntry)

\* The endpoint is called, with or without success, and the message is
\* copied back.  A message that cannot be written makes the result an error.
EndpointCallReturns(ok) ==
    /\ UserDoes("endpoint call")
    /\ ReturnToUser([SyscallEntry EXCEPT !.passed = @ \/ ok])

-----------------------------------------------------------------------------
(* The end of a run.                                                       *)

Held(r, what) == {r.plan[k] : k \in 1 .. r.got} \cap ({what} \X Nat)

\* Mutant: the return frame is not restored.
scdk_syscall_restore_task_state_no_return(saved) ==
    [saved EXCEPT !.return_to = sys.return_to]

scdk_syscall_restore_task_state(saved) == saved

\* Mutant: only the pages that were mapped are freed.
ReleaseRun_mapped_only(r) ==
    /\ pages' = pages + Cardinality(Held(r, "map"))
    /\ mapped' = [mapped EXCEPT ![r.task] = @ \ Held(r, "map")]
    /\ heap' = heap \ {r.stack, r.image}
    /\ root' = r.boot_root

\* The cleanup of scdk_usermode_run_flat_image and _fault_test: what was
\* acquired and no more.  The loader frees the image.
ReleaseRun(r) ==
    /\ pages' = pages + Cardinality(Held(r, "page"))
    /\ mapped' = [mapped EXCEPT ![r.task] = @ \ Held(r, "map")]
    /\ heap' = heap \ {r.stack, r.image}
    /\ root' = r.boot_root

ExitedAndPassed == Top.pc = "back" /\ sys.exited /\ sys.passed

\* scdk_user_task_run_flat: scdk_task_exit refuses a task that a fault killed.
run_flat_ok == ExitedAndPassed /\ tasks[Top.task].state = "running"

run_fault_test_ok == Top.pc = "back" /\ sys.faulted /\ tasks[Top.task].state = "dead"

\* The task that waits for a spawn goes on: the process service cleans the
\* child up after a success, and the message is copied back.
SpawnerGoesOn(t, saved, ok, writable) ==
    LET old == runs[Depth - 1]
    IN  /\ tasks' = IF ok THEN [tasks EXCEPT ![t] = [state |-> "cleaned", thread |-> "dead"]]
                    ELSE MarkTask(t, "dead")
        /\ runs' = Append(SubSeq(runs, 1, Depth - 2), [old EXCEPT !.pc = "user"])
        /\ sys' = [saved EXCEPT !.passed = @ \/ (ok /\ writable)]

LeaveRun(ok, writable) ==
    LET r == Top
        saved == scdk_syscall_restore_task_state(r.saved)
    IN  /\ TopAt({"failed", "back"}) /\ r.kind # "builtin"
        /\ ReleaseRun(r)
        /\ current_user_task' = r.old_user_task
        /\ result' = [kind |-> r.kind, task |-> r.task, status |-> IF ok THEN "ok" ELSE "error"]
        /\ IF Depth > 1 THEN SpawnerGoesOn(r.task, saved, ok, writable)
           ELSE /\ tasks' = MarkTask(r.task, "dead")
                /\ runs' = <<>> /\ sys' = saved
        /\ UNCHANGED <<faulted_tasks, abandoned, rsp0>>

LeaveFlat(writable) == TopAt({"failed", "back"}) /\ Top.kind = "flat"
                       /\ LeaveRun(run_flat_ok, writable)
LeaveFaultTest == TopAt({"failed", "back"}) /\ Top.kind = "fault"
                  /\ LeaveRun(run_fault_test_ok, TRUE)

\* run_stub_in_aspace gives up its pages only when a request was refused or
\* the stub ended well; scdk_user_task_run_builtin ends the task only then.
LeaveBuiltin ==
    LET r == Top
        whole == r.got = Len(r.plan)
        ok == ExitedAndPassed
        ended == ok /\ (r.task = NoTask \/ tasks[r.task].state = "running")
    IN  /\ TopAt({"failed", "back"}) /\ r.kind = "builtin"
        /\ IF ok \/ ~whole THEN ReleaseRun(r)
           ELSE root' = r.boot_root /\ UNCHANGED memVars
        /\ abandoned' = IF ok THEN abandoned ELSE abandoned \cup {r.task}
        /\ tasks' = IF ended THEN MarkTask(r.task, "dead") ELSE tasks
        /\ current_user_task' = r.old_user_task
        /\ result' = [kind |-> r.kind, task |-> r.task, status |-> IF ended THEN "ok" ELSE "error"]
        /\ runs' = <<>>
        /\ UNCHANGED <<faulted_tasks, sys, rsp0>>

UmNext ==
    \/ \E t \in TaskIdx : \/ scdk_user_task_create(t)
                          \/ scdk_task_cleanup(t)
                          \/ scdk_user_task_run_fault_test(t)
                          \/ \E n \in Images, b \in Blocks :
                                scdk_loader_load_from_vfs_with_endpoint(n, b, t)
    \/ \E t \in StubRunners : scdk_user_task_run_builtin(t)
    \/ SetupSucceeds \/ SetupFails \/ scdk_enter_usermode_asm
    \/ scdk_fault_dispatch \/ scdk_fault_handle_invalid_syscall \/ SysExit
    \/ EndpointCallFaults
    \/ \E passes \in BOOLEAN : SysPlain(passes)
    \/ \E ok \in BOOLEAN : EndpointCallReturns(ok)
    \/ \E writable \in BOOLEAN : LeaveFlat(writable)
    \/ LeaveFaultTest \/ LeaveBuiltin

UmSpec == UmInit /\ [][UmNext]_umVars

-----------------------------------------------------------------------------
(* Properties                                                              *)

\* The types of the state.
UmTypeOK ==
    /\ tasks \in [TaskIdx -> [state : {"none", "new", "running", "dead", "cleaned"},
                              thread : {"none", "new", "running", "dead"}]]
    /\ current_user_task \in Runners /\ root \in Runners \cup {Boot}
    /\ sys \in [stack : Blocks \cup {NoBlock, Static}, user : Runners, return_to : Nat,
                exited : BOOLEAN, passed : BOOLEAN, faulted : BOOLEAN]
    /\ rsp0 \in Blocks \cup {NoBlock, Static} /\ heap \subseteq Blocks
    /\ pages \in 0 .. MaxPages
    /\ \A t \in Runners : mapped[t] \subseteq {"map"} \X Nat
    /\ \A d \in DOMAIN runs : /\ runs[d].task \in Runners
                              /\ runs[d].got \in 0 .. Len(runs[d].plan)
                              /\ (runs[d].pc = "spawn") <=> (d < Depth)

\* While a task is in ring 3, the globals of the kernel are about it: it is
\* the current task, its address space is active, system calls arrive on its
\* own kernel stack, exit returns to its own run, and it is not marked as
\* exited or faulted.  Nested runs overwrite every one of these.
GlobalsDescribeRunningTask ==
    TopAt({"user"}) =>
        /\ current_user_task = Top.task /\ root = Top.task
        /\ sys.stack = Top.stack /\ sys.return_to = Depth
        /\ ~sys.exited /\ ~sys.faulted

\* A task that waited for a spawned one resumes with its own registers.
SpawnerResumesAsItself ==
    [][(Len(runs') < Depth /\ runs' # <<>>) => sys'.user = runs'[Len(runs')].task]_umVars

\* A task that stops running is the one in control: neither a fault nor the
\* end of a nested run touches the task that waits below it.
OnlyRunningTaskDies ==
    [][\A t \in TaskIdx : (tasks[t].state = "running" /\ tasks'[t] # tasks[t])
                              => t = Top.task]_umVars

\* A run, nested or not, that ends or fails at any point returns all it took:
\* what is in use is what the unfinished runs hold and what a built-in test
\* that gave up has left.
ResourcesHeldByRuns ==
    /\ heap = UNION {{r.stack, r.image} : r \in {runs[d] : d \in DOMAIN runs}} \ {Static, NoBlock}
    /\ \A d, e \in DOMAIN runs : (d # e /\ runs[d].stack = runs[e].stack) => runs[d].stack = Static
    /\ pages = MaxPages
               - MapThenSumSet(LAMBDA d : Cardinality(Held(runs[d], "page")), DOMAIN runs)
               - MapThenSumSet(LAMBDA t : Cardinality(mapped[t]),
                               abandoned \ {runs[d].task : d \in DOMAIN runs})
    /\ \A t \in Runners \ abandoned :
           mapped[t] = UNION {Held(runs[d], "map") : d \in {e \in DOMAIN runs : runs[e].task = t}}

\* scdk_user_task_run_flat and _builtin report success only for a task that
\* ended by itself, and the fault test only for one that faulted.
OkMeansExpectedEnd ==
    (result.status = "ok" /\ result.task # NoTask) =>
        ((result.task \in faulted_tasks) <=> (result.kind = "fault"))

\* A task is RUNNING exactly while a run of it is on the stack and it has not
\* faulted, or when its built-in test gave up.
RunningMeansInARun ==
    \A t \in TaskIdx :
        (tasks[t].state = "running") <=>
            /\ t \notin faulted_tasks
            /\ t \in abandoned \cup {runs[d].task : d \in DOMAIN runs}

\* A fault in ring 3 writes its frame on the kernel stack of the faulting run.
FaultFrameOnOwnStack == TopAt({"user"}) => rsp0 = Top.stack

\* Task states, reported results and the kernel's globals all follow the
\* stack of runs.
StateFollowsRuns ==
    /\ UmTypeOK /\ GlobalsDescribeRunningTask
    /\ RunningMeansInARun /\ OkMeansExpectedEnd

\* Nested runs do not interfere: the end of one leaves the task below it
\* alive, and that task goes on with its own registers.
NestedRunsDoNotInterfere == SpawnerResumesAsItself /\ OnlyRunningTaskDies

=============================================================================
