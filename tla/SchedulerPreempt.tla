-------------------------- MODULE SchedulerPreempt --------------------------
(***************************************************************************)
(* The scheduler with timer ticks inside scdk_yield.                       *)
(*                                                                         *)
(* scdk_timer_interrupt (arch/x86_64/timer.c) enables interrupts and calls *)
(* scdk_yield on the stack of the interrupted thread, and nothing in       *)
(* core/scheduler.c masks interrupts, so a tick can find the thread inside *)
(* a scdk_yield of its own.  Here scdk_yield is four steps, and a thread   *)
(* has a stack of the calls it is in.  Each step is still atomic: ticks    *)
(* inside dequeue_thread, enqueue_thread, switch_to_thread or              *)
(* scdk_thread_start are left out.                                         *)
(***************************************************************************)
EXTENDS Scheduler, Sequences

CONSTANT MaxCalls   \* bound: nested calls of scdk_yield on one stack

VARIABLES calls,      \* for each thread its unfinished calls of scdk_yield,
                      \* innermost first: the next step, and `next'
          preemption  \* timer_preemption_enabled

preVars == <<vars, calls, preemption>>

PreInit ==
    /\ Init
    /\ calls = [t \in Threads |-> <<>>]
    /\ preemption = FALSE

old == current_thread_slot
Call == Head(calls[old])
At(step) == old # None /\ calls[old] # <<>> /\ Call.step = step

\* Outside scdk_yield, a thread does what it does in Scheduler.
Outside == old # None => calls[old] = <<>>

CallYield == calls' = [calls EXCEPT ![old] =
                           <<[step |-> "dequeue", next |-> None]>> \o @]
ReturnFromYield == calls' = [calls EXCEPT ![old] = Tail(@)]
GoTo(step, next) == calls' = [calls EXCEPT ![old] =
                           <<[step |-> step, next |-> next]>> \o Tail(@)]

-----------------------------------------------------------------------------
scdk_timer_interrupt ==
    /\ old # None /\ preemption
    /\ Len(calls[old]) < MaxCalls
    /\ CallYield
    /\ UNCHANGED <<vars, preemption>>

scdk_timer_set_preemption(on) ==
    /\ Outside /\ InOwnCode
    /\ preemption' = on
    /\ UNCHANGED <<vars, calls>>

\* A thread calls scdk_yield in its own code, at the end of its entry
\* function, or in the loop of scdk_scheduler_run.
CallInOwnCode ==
    /\ Outside /\ InOwnCode
    /\ CallYield
    /\ UNCHANGED <<vars, preemption>>

CallAtEnd ==
    /\ Outside /\ InOwnCode /\ old # Boot
    /\ thread_table' = [thread_table EXCEPT ![old].state = "DEAD"]
    /\ resume' = [resume EXCEPT ![old] = "ended"]
    /\ CallYield
    /\ UNCHANGED <<taskVars, run_queue, current_thread_slot, current_task,
                   scheduler_driver_slot, honoured, preemption>>

CallInLoop ==
    /\ Outside /\ old = Boot /\ resume[Boot] = "loop"
    /\ run_queue.count # 0
    /\ CallYield
    /\ UNCHANGED <<vars, preemption>>

\* dequeue_thread, and the driver if the queue has nobody.
Dequeue ==
    /\ At("dequeue")
    /\ thread_table' = MarkDequeued(thread_table, run_queue)
    /\ run_queue' = Dequeued(thread_table, run_queue)
    /\ IF Chosen(thread_table) = None
       THEN ReturnFromYield
       ELSE GoTo("park", Chosen(thread_table))
    /\ UNCHANGED <<taskVars, cpuVars, honoured, preemption>>

\* The caller leaves RUNNING, if it is in it.
Park ==
    /\ At("park")
    /\ IF thread_table[old].state = "RUNNING"
       THEN thread_table' = [thread_table EXCEPT ![old].state =
                IF old = scheduler_driver_slot THEN "BLOCKED" ELSE "READY"]
       ELSE UNCHANGED thread_table
    /\ GoTo(IF MustRequeue(thread_table) THEN "enqueue" ELSE "switch",
            Call.next)
    /\ UNCHANGED <<taskVars, run_queue, cpuVars, honoured, preemption>>

\* enqueue_thread(old); when it fails, old is RUNNING again and the call
\* returns.
Enqueue ==
    /\ At("enqueue")
    /\ IF /\ thread_table[old].state = "READY"
          /\ CanEnqueue(run_queue, thread_table[old])
       THEN /\ thread_table' = [thread_table EXCEPT ![old] = MarkQueued(@)]
            /\ run_queue' = Enqueued(run_queue, old)
            /\ GoTo("switch", Call.next)
       ELSE /\ thread_table' = [thread_table EXCEPT ![old].state = "RUNNING"]
            /\ UNCHANGED run_queue
            /\ ReturnFromYield
    /\ UNCHANGED <<taskVars, cpuVars, honoured, preemption>>

\* The caller's call ends when the caller is switched to again.
Switch ==
    /\ At("switch")
    /\ switch_to_thread(thread_table, Call.next)
    /\ ReturnFromYield
    /\ UNCHANGED <<taskVars, run_queue, scheduler_driver_slot, honoured,
                   resume, preemption>>

\* Operations without a yield.
Other ==
    /\ Outside
    /\ \/ scdk_scheduler_init
       \/ scdk_task_create
       \/ \E k \in Tasks, entry \in BOOLEAN : scdk_thread_create(k, entry)
       \/ \E t \in Threads : scdk_thread_start(t)
       \/ scdk_scheduler_run
       \/ RunReturns
    /\ UNCHANGED <<calls, preemption>>

PreNext ==
    \/ scdk_timer_interrupt
    \/ \E on \in BOOLEAN : scdk_timer_set_preemption(on)
    \/ CallInOwnCode \/ CallAtEnd \/ CallInLoop
    \/ Dequeue \/ Park \/ Enqueue \/ Switch
    \/ Other

PreSpec == PreInit /\ [][PreNext]_preVars

-----------------------------------------------------------------------------
(* Properties                                                              *)

\* core/selftest.c:1884 and 1890 panic ("timer preempt thread A did not
\* finish") unless the threads that were started are DEAD when
\* scdk_scheduler_run returns, which it does when its loop finds the run
\* queue empty.
PreemptedThreadsFinish ==
    /\ current_thread_slot = Boot /\ calls[Boot] = <<>>
    /\ resume[Boot] = "loop" /\ run_queue.count = 0
    => \A t \in Threads \ {Boot} :
           thread_table[t].state \in {"NONE", "NEW", "DEAD"}

=============================================================================
