------------------------------ MODULE Scheduler ------------------------------
(***************************************************************************)
(* Tasks, kernel threads and the run queue of the boot core                *)
(* (core/scheduler.c; SCDK_MAX_CORES is 1).                                *)
(*                                                                         *)
(* One thread executes at a time and gives the processor up only inside    *)
(* scdk_yield, so a call of the scheduler runs to the context switch       *)
(* without interleaving: each action is what the current thread does up to *)
(* the next point where it can be switched away from, or resumed.          *)
(* A timer tick that arrives while a thread runs its own code calls        *)
(* scdk_yield too and is the same action; ticks that arrive inside the     *)
(* scheduler are the subject of SchedulerPreempt.                          *)
(*                                                                         *)
(* A task or thread is named by the index of its slot.  The capability     *)
(* layer appears as the set of slots whose token it honours.  Tokens are   *)
(* minted with every right the operations ask for and leave the set when   *)
(* they are revoked.  The boot thread's token is handed to nobody.         *)
(* A create that fails leaves its slot unused, and nothing else here.      *)
(***************************************************************************)
EXTENDS Integers, FiniteSets

CONSTANTS MaxTasks,    \* SCDK_MAX_TASKS
          MaxThreads,  \* SCDK_MAX_THREADS
          None         \* the null slot or token

Tasks == 0 .. MaxTasks - 1
Threads == 0 .. MaxThreads - 1

\* The slots scdk_scheduler_init takes: it runs first.
BootTask == 0
Boot == 0

ASSUME SchedulerAssumption ==
    /\ MaxTasks \in Nat \ {0} /\ MaxThreads \in Nat \ {0}
    /\ None \notin Tasks \cup Threads

VARIABLES task_table,     \* in_use (object_id # 0) and main_thread
          thread_table,   \* in_use, task, entry (# 0), state, queued
          run_queue,      \* entries, head, tail, count of run_queues[0]
          current_thread_slot,
          scheduler_driver_slot,
          current_task,   \* the token kept beside current_thread_slot
          honoured_tasks, honoured,  \* slots whose token passes its check
          resume     \* where a thread goes on when it next has the
                     \* processor: in its own code, in the loop of
                     \* scdk_scheduler_run, or after the yield of a thread
                     \* that has ended

taskVars == <<task_table, honoured_tasks>>
cpuVars == <<current_thread_slot, scheduler_driver_slot, current_task, resume>>
vars == <<task_table, thread_table, run_queue, current_thread_slot,
          scheduler_driver_slot, current_task, honoured_tasks, honoured,
          resume>>

States == {"NONE", "NEW", "READY", "RUNNING", "BLOCKED", "DEAD"}

EmptyTask == [in_use |-> FALSE, main_thread |-> None]
EmptyThread == [in_use |-> FALSE, task |-> None, entry |-> FALSE,
                state |-> "NONE", queued |-> FALSE]

Init ==
    /\ task_table = [k \in Tasks |-> EmptyTask]
    /\ thread_table = [t \in Threads |-> EmptyThread]
    /\ run_queue = [entries |-> [i \in Threads |-> None],
                    head |-> 0, tail |-> 0, count |-> 0]
    /\ current_thread_slot = None
    /\ scheduler_driver_slot = None
    /\ current_task = None
    /\ honoured_tasks = {} /\ honoured = {}
    /\ resume = [t \in Threads |-> "own"]

-----------------------------------------------------------------------------
(* The run queue.                                                          *)

\* enqueue_thread succeeds for a slot that was just made READY.
CanEnqueue(q, slot) == ~slot.queued /\ q.count < MaxThreads

\* Mutant: the newest entry goes in front of the others.
Enqueued_front(q, t) ==
    LET h == (q.head + MaxThreads - 1) % MaxThreads
    IN  [entries |-> [q.entries EXCEPT ![h] = t], head |-> h,
         tail |-> q.tail, count |-> q.count + 1]

\* The queue and the slot after enqueue_thread has succeeded.
Enqueued(q, t) ==
    [entries |-> [q.entries EXCEPT ![q.tail] = t], head |-> q.head,
     tail |-> (q.tail + 1) % MaxThreads, count |-> q.count + 1]
MarkQueued(slot) == [slot EXCEPT !.state = "READY", !.queued = TRUE]

\* The k-th entry from the head, k = 0 being the oldest.
Entry(q, k) == q.entries[(q.head + k) % MaxThreads]

\* dequeue_thread stops at an entry whose token is honoured and whose
\* thread is READY, and drops the entries it passes over.
Eligible(table, q, k) ==
    Entry(q, k) \in honoured /\ table[Entry(q, k)].state = "READY"
Stops(table, q) == {k \in 0 .. q.count - 1 : Eligible(table, q, k)}
Popped(table, q) ==
    IF Stops(table, q) = {} THEN q.count
    ELSE 1 + (CHOOSE k \in Stops(table, q) :
                  \A j \in Stops(table, q) : k <= j)
Picked(table, q) ==
    IF Stops(table, q) = {} THEN None ELSE Entry(q, Popped(table, q) - 1)

\* Mutant: the head is not reduced to the array's size.
Dequeued_unwrapped(table, q) ==
    LET n == Popped(table, q)
    IN  [q EXCEPT !.head = @ + n, !.count = @ - n]

Dequeued(table, q) ==
    LET n == Popped(table, q)
    IN  [q EXCEPT !.head = (@ + n) % MaxThreads, !.count = @ - n]

\* Mutant: the flag of the thread that is returned stays set.
MarkDequeued_kept(table, q) == table

\* Popping clears queued, except when the token is no longer honoured.
MarkDequeued(table, q) ==
    LET gone == {Entry(q, k) : k \in 0 .. Popped(table, q) - 1} \cap honoured
    IN  [t \in Threads |-> IF t \in gone
                           THEN [table[t] EXCEPT !.queued = FALSE]
                           ELSE table[t]]

-----------------------------------------------------------------------------
(* Tasks and threads.                                                      *)

\* A first-fit scan for an unused slot.
FirstUnused(table, i) ==
    /\ ~table[i].in_use
    /\ \A j \in DOMAIN table : j < i => table[j].in_use

\* The current thread runs its own code.
InOwnCode ==
    /\ current_thread_slot # None
    /\ resume[current_thread_slot] = "own"

scdk_task_create ==
    /\ InOwnCode
    /\ \E k \in Tasks :
           /\ FirstUnused(task_table, k)
           /\ task_table' = [task_table EXCEPT ![k] =
                                 [in_use |-> TRUE, main_thread |-> None]]
           /\ honoured_tasks' = honoured_tasks \cup {k}
    /\ UNCHANGED <<thread_table, run_queue, cpuVars, honoured>>

NewThread(k, entry) == [in_use |-> TRUE, task |-> k, entry |-> entry,
                        state |-> "NEW", queued |-> FALSE]

WithMainThread(tasks, k, t) ==
    [tasks EXCEPT ![k].main_thread = IF @ = None THEN t ELSE @]

scdk_thread_create(k, entry) ==
    /\ InOwnCode
    /\ k \in honoured_tasks
    /\ \E t \in Threads :
           /\ FirstUnused(thread_table, t)
           /\ thread_table' = [thread_table EXCEPT ![t] = NewThread(k, entry)]
           /\ task_table' = WithMainThread(task_table, k, t)
           /\ honoured' = honoured \cup {t}
    /\ UNCHANGED <<run_queue, cpuVars, honoured_tasks>>

scdk_thread_start(t) ==
    /\ InOwnCode
    /\ t \in honoured
    /\ thread_table[t].entry
    /\ thread_table[t].state = "NEW"
    /\ CanEnqueue(run_queue, thread_table[t])
    /\ thread_table' = [thread_table EXCEPT ![t] = MarkQueued(@)]
    /\ run_queue' = Enqueued(run_queue, t)
    /\ UNCHANGED <<taskVars, cpuVars, honoured>>

\* scdk_scheduler_init: the boot task and thread stand for the code that
\* is already running.
scdk_scheduler_init ==
    /\ current_thread_slot = None
    /\ task_table' = [task_table EXCEPT ![BootTask] =
                          [in_use |-> TRUE, main_thread |-> Boot]]
    /\ thread_table' = [thread_table EXCEPT ![Boot] =
           [NewThread(BootTask, FALSE) EXCEPT !.state = "RUNNING"]]
    /\ honoured_tasks' = {BootTask} /\ honoured' = {Boot}
    /\ current_thread_slot' = Boot /\ current_task' = BootTask
    /\ UNCHANGED <<run_queue, scheduler_driver_slot, resume>>

\* scdk_revoke of a thread's or a task's token.
RevokeThread(t) ==
    /\ InOwnCode
    /\ t \in honoured \ {Boot}
    /\ honoured' = honoured \ {t}
    /\ UNCHANGED <<taskVars, thread_table, run_queue, cpuVars>>

RevokeTask(k) ==
    /\ InOwnCode
    /\ k \in honoured_tasks
    /\ honoured_tasks' = honoured_tasks \ {k}
    /\ UNCHANGED <<task_table, thread_table, run_queue, cpuVars, honoured>>

-----------------------------------------------------------------------------
(* Giving up the processor.                                                *)

\* Mutant: a waiting driver is not considered.
Chosen_no_driver(table) == Picked(table, run_queue)

\* The thread scdk_yield chooses: the one dequeued or, failing that, the
\* driver of scdk_scheduler_run if it waits.
Chosen(table) ==
    LET d == scheduler_driver_slot
    IN  IF /\ Picked(table, run_queue) = None
           /\ d # None
           /\ current_thread_slot # d
           /\ table[d].state = "BLOCKED"
        THEN d
        ELSE Picked(table, run_queue)

MustRequeue(table) ==
    /\ table[current_thread_slot].state = "RUNNING"
    /\ current_thread_slot # scheduler_driver_slot

\* Mutant: the state of the thread that goes on is not updated.
switch_to_thread_unmarked(table, next) ==
    /\ thread_table' = table
    /\ current_thread_slot' = next
    /\ current_task' = table[next].task

\* switch_to_thread(next), up to the point where next goes on.
switch_to_thread(table, next) ==
    IF next = current_thread_slot
    THEN thread_table' = table /\ UNCHANGED <<current_thread_slot, current_task>>
    ELSE /\ thread_table' = [t \in Threads |->
                IF t = next THEN [table[t] EXCEPT !.state = "RUNNING"]
                            ELSE table[t]]
         /\ current_thread_slot' = next
         /\ current_task' = table[next].task

\* scdk_yield returns to its caller: there is nobody to switch to, or the
\* caller cannot be put back on the queue (then the thread that was taken
\* off the queue is dropped).
YieldReturns(table) ==
    LET popped == MarkDequeued(table, run_queue)
        q == Dequeued(table, run_queue)
        old == current_thread_slot
    IN  /\ \/ Chosen(table) = None
           \/ MustRequeue(table) /\ ~CanEnqueue(q, popped[old])
        /\ thread_table' = popped
        /\ run_queue' = q
        /\ UNCHANGED <<current_thread_slot, current_task>>

\* The driver of scdk_scheduler_run waits off the queue.
YieldBlocks(table) ==
    LET popped == MarkDequeued(table, run_queue)
        old == current_thread_slot
    IN  /\ Chosen(table) # None
        /\ table[old].state = "RUNNING" /\ old = scheduler_driver_slot
        /\ switch_to_thread([popped EXCEPT ![old].state = "BLOCKED"],
                            Chosen(table))
        /\ run_queue' = Dequeued(table, run_queue)

\* Mutant: the thread is made READY but not put on the queue.
YieldRequeues_forgotten(table) ==
    LET old == current_thread_slot
        ready == [MarkDequeued(table, run_queue) EXCEPT ![old].state = "READY"]
    IN  /\ Chosen(table) # None
        /\ MustRequeue(table)
        /\ switch_to_thread(ready, Chosen(table))
        /\ run_queue' = Dequeued(table, run_queue)

\* Any other running thread goes to the end of the queue.
YieldRequeues(table) ==
    LET popped == MarkDequeued(table, run_queue)
        q == Dequeued(table, run_queue)
        old == current_thread_slot
    IN  /\ Chosen(table) # None
        /\ MustRequeue(table) /\ CanEnqueue(q, popped[old])
        /\ switch_to_thread([popped EXCEPT ![old] = MarkQueued(@)],
                            Chosen(table))
        /\ run_queue' = Enqueued(q, old)

\* A thread that has ended is left behind.
YieldAbandons(table) ==
    /\ Chosen(table) # None
    /\ table[current_thread_slot].state # "RUNNING"
    /\ switch_to_thread(MarkDequeued(table, run_queue), Chosen(table))
    /\ run_queue' = Dequeued(table, run_queue)

\* scdk_yield, when the table is `table'; afterwards the caller goes on at
\* `then'.
scdk_yield(table, then) ==
    /\ \/ YieldReturns(table)
       \/ YieldBlocks(table)
       \/ YieldRequeues(table)
       \/ YieldAbandons(table)
    /\ resume' = [resume EXCEPT ![current_thread_slot] = then]
    /\ UNCHANGED <<taskVars, honoured, scheduler_driver_slot>>

\* A thread yields, or is preempted, in its own code.
Yield(t) ==
    /\ current_thread_slot = t /\ InOwnCode
    /\ scdk_yield(thread_table, "own")

\* Mutant: the thread is not marked DEAD.
thread_trampoline_unmarked(t) ==
    /\ current_thread_slot = t /\ InOwnCode
    /\ t # Boot
    /\ scdk_yield(thread_table, "ended")

\* The entry function of a thread returns: the rest of thread_trampoline.
thread_trampoline(t) ==
    /\ current_thread_slot = t /\ InOwnCode
    /\ t # Boot
    /\ scdk_yield([thread_table EXCEPT ![t].state = "DEAD"], "ended")

\* scdk_scheduler_run; only the boot thread calls it.
scdk_scheduler_run ==
    /\ current_thread_slot = Boot /\ InOwnCode
    /\ scheduler_driver_slot' = Boot
    /\ resume' = [resume EXCEPT ![Boot] = "loop"]
    /\ UNCHANGED <<taskVars, thread_table, run_queue, current_thread_slot,
                   current_task, honoured>>

RunLoop ==
    /\ current_thread_slot = Boot /\ resume[Boot] = "loop"
    /\ run_queue.count # 0
    /\ scdk_yield(thread_table, "loop")

RunReturns ==
    /\ current_thread_slot = Boot /\ resume[Boot] = "loop"
    /\ run_queue.count = 0
    /\ thread_table' = [thread_table EXCEPT ![scheduler_driver_slot].state =
                            IF @ = "BLOCKED" THEN "RUNNING" ELSE @]
    /\ scheduler_driver_slot' = None
    /\ resume' = [resume EXCEPT ![Boot] = "own"]
    /\ UNCHANGED <<taskVars, run_queue, current_thread_slot, current_task,
                   honoured>>

-----------------------------------------------------------------------------
Next ==
    \/ scdk_scheduler_init
    \/ scdk_task_create
    \/ \E k \in Tasks, entry \in BOOLEAN : scdk_thread_create(k, entry)
    \/ \E t \in Threads : scdk_thread_start(t)
    \/ \E t \in Threads : RevokeThread(t)
    \/ \E k \in Tasks : RevokeTask(k)
    \/ \E t \in Threads : Yield(t)
    \/ \E t \in Threads : thread_trampoline(t)
    \/ scdk_scheduler_run
    \/ RunLoop
    \/ RunReturns

Spec == Init /\ [][Next]_vars

\* The loop of scdk_scheduler_run goes on whenever it has the processor, a
\* thread that keeps the processor is preempted or yields, and the entry
\* function of a thread that runs again and again returns at last, as those
\* the repository starts do.
Fairness ==
    /\ WF_vars(RunLoop) /\ WF_vars(RunReturns)
    /\ \A t \in Threads \ {Boot} : /\ WF_vars(Yield(t))
                                   /\ SF_vars(thread_trampoline(t))

FairSpec == Spec /\ Fairness

-----------------------------------------------------------------------------
(* Properties                                                              *)

\* Slots, queue indices and the count stay within the arrays, and a token
\* on the queue is that of a thread slot.
TypeOK ==
    /\ task_table \in [Tasks -> [in_use : BOOLEAN,
                                 main_thread : Threads \cup {None}]]
    /\ thread_table \in [Threads -> [in_use : BOOLEAN,
                                     task : Tasks \cup {None},
                                     entry : BOOLEAN, state : States,
                                     queued : BOOLEAN]]
    /\ run_queue \in [entries : [Threads -> Threads \cup {None}],
                      head : Threads, tail : Threads,
                      count : 0 .. MaxThreads]
    /\ current_thread_slot \in Threads \cup {None}
    /\ scheduler_driver_slot \in {Boot, None}
    /\ current_task \in Tasks \cup {None}
    /\ honoured_tasks \subseteq Tasks /\ honoured \subseteq Threads
    /\ resume \in [Threads -> {"own", "loop", "ended"}]

\* Exactly the thread that has the processor is RUNNING, exactly a driver
\* without it is BLOCKED, and current_task is the task of the thread that
\* has it: what the callers of scdk_scheduler_current_task and
\* scdk_thread_state are told is true after any sequence of switches.
StatesTellWhoRuns ==
    \A t \in Threads :
        /\ thread_table[t].state = "RUNNING" <=> t = current_thread_slot
        /\ thread_table[t].state = "BLOCKED" <=>
               t = scheduler_driver_slot /\ t # current_thread_slot
        /\ t = current_thread_slot => current_task = thread_table[t].task

QueuePositions == 0 .. run_queue.count - 1

\* No runnable thread is lost and none runs twice: a READY thread whose
\* token is honoured is on the run queue, every thread on the queue is
\* there once and knows it, and the thread that runs is not there.  So
\* enqueue_thread cannot fail inside scdk_yield, and the thread taken off
\* the queue is never dropped.
QueueHoldsTheReady ==
    /\ \A t \in honoured : thread_table[t].state = "READY" =>
           \E k \in QueuePositions : Entry(run_queue, k) = t
    /\ \A k \in QueuePositions : LET t == Entry(run_queue, k)
           IN  /\ t \in Threads /\ t # current_thread_slot
               /\ thread_table[t].queued /\ thread_table[t].state = "READY"
               /\ \A j \in QueuePositions : Entry(run_queue, j) = t => j = k
    /\ run_queue.tail = (run_queue.head + run_queue.count) % MaxThreads

\* scdk_panic("dead kernel thread resumed") is not reached: a thread whose
\* entry function returned never gets the processor back, and always finds
\* another thread to give it to.
DeadNeverResumed ==
    current_thread_slot # None => resume[current_thread_slot] # "ended"

\* When scdk_scheduler_run returns, the boot thread has the processor and
\* every thread that was started and not revoked has ended.
RunReturnsWhenDone ==
    [][scheduler_driver_slot # None /\ scheduler_driver_slot' = None =>
          /\ current_thread_slot' = Boot
          /\ \A t \in honoured \ {Boot} :
                 thread_table[t].state \in {"NEW", "DEAD"}]_vars

\* Threads take turns: every switch brings each thread that stays on the
\* queue nearer to its head, so it waits for at most as many switches as
\* there were threads before it.
ThreadsTakeTurns ==
    [][current_thread_slot' \notin {None, current_thread_slot} =>
          \A k \in QueuePositions, j \in QueuePositions' :
              Entry(run_queue, k) = Entry(run_queue', j)
              /\ current_thread_slot # Entry(run_queue, k) => j < k]_vars

Runnable(t) == thread_table[t].state = "READY" /\ t \in honoured

\* While scdk_scheduler_run is at work, a runnable thread gets its turn.
RunnableRuns ==
    \A t \in Threads \ {Boot} :
        Runnable(t) /\ scheduler_driver_slot # None ~> ~Runnable(t)

\* scdk_scheduler_run returns, whatever threads are created, started and
\* revoked while it is at work.
RunTerminates == scheduler_driver_slot # None ~> scheduler_driver_slot = None

=============================================================================
