-------------------------- MODULE SchedulerProofs ---------------------------
(***************************************************************************)
(* Proofs about the scheduler, for any number of task and thread slots.    *)
(***************************************************************************)
EXTENDS Scheduler, IntegerLemmas

(***************************************************************************)
(* The inductive invariant.                                                *)
(***************************************************************************)

\* A thread slot: in use once its thread has a state; only a READY thread is
\* marked as queued; a thread whose entry function returned is DEAD.
SlotsInv ==
    \A t \in Threads :
        /\ thread_table[t].in_use <=> thread_table[t].state # "NONE"
        /\ t \in honoured => thread_table[t].in_use
        /\ thread_table[t].queued => thread_table[t].state = "READY"
        /\ resume[t] = "ended" => thread_table[t].state = "DEAD"

\* Before scdk_scheduler_init there are no threads; after it the boot thread
\* runs, waits on the queue, or waits as the driver, and never ends.
BootInv ==
    IF current_thread_slot = None
    THEN /\ thread_table = [t \in Threads |-> EmptyThread]
         /\ run_queue.count = 0 /\ scheduler_driver_slot = None
         /\ honoured = {} /\ resume = [t \in Threads |-> "own"]
    ELSE /\ Boot \in honoured
         /\ thread_table[Boot].state \in {"RUNNING", "READY", "BLOCKED"}
         /\ resume[Boot] = "loop" <=> scheduler_driver_slot = Boot

SchedIInv ==
    TypeOK /\ StatesTellWhoRuns /\ QueueHoldsTheReady /\ SlotsInv /\ BootInv

-----------------------------------------------------------------------------
(* The circular queue                                                      *)

Queues == [entries : [Threads -> Threads \cup {None}], head : Threads,
           tail : Threads, count : 0 .. MaxThreads]

\* A queue whose tail follows its last entry.
Sound(q) == q \in Queues /\ q.tail = (q.head + q.count) % MaxThreads

(* Remainders are thread slots, too: the array has MaxThreads entries.     *)
LEMMA IndexInArray ==
    ASSUME NEW x \in Nat
    PROVE  x % MaxThreads \in Threads
BY SchedulerAssumption DEF Threads

(* Taking n entries off moves the others n places nearer to the head.      *)
LEMMA TakenOff ==
    ASSUME NEW q, Sound(q), NEW n \in 0 .. q.count
    PROVE  LET d == [q EXCEPT !.head = (@ + n) % MaxThreads, !.count = @ - n]
           IN  /\ Sound(d) /\ d.count = q.count - n
               /\ \A k \in 0 .. d.count - 1 : Entry(d, k) = Entry(q, n + k)
<1> DEFINE d == [q EXCEPT !.head = (@ + n) % MaxThreads, !.count = @ - n]
           h == q.head
           c == q.count
<1>1. /\ MaxThreads \in Nat \ {0} /\ h \in Nat /\ c \in 0 .. MaxThreads /\ n \in Nat
      /\ q.tail = (h + c) % MaxThreads /\ q.tail \in Threads
      /\ q.entries \in [Threads -> Threads \cup {None}]
  BY SchedulerAssumption DEF Sound, Queues, Threads
<1>2. /\ d.head = (h + n) % MaxThreads /\ d.count = c - n /\ d.tail = q.tail
      /\ d.entries = q.entries
  BY DEF Sound, Queues
<1>4. (h + n) % MaxThreads \in Threads
  BY <1>1, IndexInArray
<1>5. c - n \in 0 .. MaxThreads /\ c - n \in Nat
  BY <1>1
<1>6. d \in Queues
  BY <1>4, <1>5 DEF Sound, Queues
<1>7. ASSUME NEW k \in Nat
      PROVE  (((h + n) % MaxThreads) + k) % MaxThreads = (h + (n + k)) % MaxThreads
  <2> DEFINE x == h + n
  <2>1. x \in Nat /\ x + k = h + (n + k)
    BY <1>1
  <2>2. ((x % MaxThreads) + k) % MaxThreads = (x + k) % MaxThreads
    <3> HIDE DEF x
    <3> QED
      BY <1>1, <2>1, ModAdd
  <2> QED
    BY <2>1, <2>2
<1>8. d.tail = (d.head + d.count) % MaxThreads
  <2>1. h + (n + (c - n)) = h + c
    BY <1>1
  <2> QED
    BY <1>1, <1>2, <1>5, <1>7, <2>1
<1>9. ASSUME NEW k \in 0 .. d.count - 1 PROVE Entry(d, k) = Entry(q, n + k)
  <2>1. k \in Nat
    BY <1>2, <1>5
  <2> QED
    BY <1>2, <1>7, <2>1 DEF Entry
<1> QED
  BY <1>2, <1>6, <1>8, <1>9 DEF Sound

(* Enqueued puts a thread behind the others.                               *)
LEMMA PutBehind ==
    ASSUME NEW q, Sound(q), q.count < MaxThreads, NEW t \in Threads
    PROVE  LET b == Enqueued(q, t)
           IN  /\ Sound(b) /\ b.count = q.count + 1 /\ Entry(b, q.count) = t
               /\ \A k \in 0 .. q.count - 1 : Entry(b, k) = Entry(q, k)
<1> DEFINE b == Enqueued(q, t)
           h == q.head
           c == q.count
<1>1. /\ MaxThreads \in Nat \ {0} /\ h \in Nat /\ c \in 0 .. MaxThreads - 1 /\ c \in Nat
      /\ q.tail = (h + c) % MaxThreads /\ q.tail \in Threads /\ h \in Threads
      /\ q.entries \in [Threads -> Threads \cup {None}]
  BY SchedulerAssumption DEF Sound, Queues, Threads
<1>2. b = [entries |-> [q.entries EXCEPT ![q.tail] = t], head |-> h,
           tail |-> (q.tail + 1) % MaxThreads, count |-> c + 1]
  BY DEF Enqueued
<1>3. (q.tail + 1) % MaxThreads = (h + (c + 1)) % MaxThreads
  <2> DEFINE x == h + c
  <2>1. x \in Nat /\ x + 1 = h + (c + 1)
    BY <1>1
  <2>2. ((x % MaxThreads) + 1) % MaxThreads = (x + 1) % MaxThreads
    <3> HIDE DEF x
    <3> QED
      BY <1>1, <2>1, ModAdd
  <2> QED
    BY <1>1, <2>1, <2>2
<1>4. (h + (c + 1)) % MaxThreads \in Threads
  BY <1>1, IndexInArray
<1>5. c + 1 \in 0 .. MaxThreads
  BY <1>1
<1>6. [q.entries EXCEPT ![q.tail] = t] \in [Threads -> Threads \cup {None}]
  BY <1>1
<1>7. Sound(b)
  BY <1>1, <1>2, <1>3, <1>4, <1>5, <1>6 DEF Sound, Queues
<1>8. Entry(b, c) = t
  BY <1>1, <1>2 DEF Entry
<1>9. ASSUME NEW k \in 0 .. c - 1 PROVE Entry(b, k) = Entry(q, k)
  <2>1. h + k \in Nat /\ h + c \in Nat /\ h + k < h + c /\ h + c < (h + k) + MaxThreads
    BY <1>1
  <2>2. (h + k) % MaxThreads # (h + c) % MaxThreads
    BY <1>1, <2>1, NearbyDiffer
  <2>3. (h + k) % MaxThreads \in Threads
    BY <2>1, IndexInArray
  <2> QED
    BY <1>1, <1>2, <2>2, <2>3 DEF Entry
<1> QED
  BY <1>2, <1>7, <1>8, <1>9

(* Where dequeue_thread stops.                                             *)
LEMMA WhereItStops ==
    ASSUME NEW table, NEW q, Sound(q)
    PROVE  LET n == Popped(table, q)
           IN  \/ /\ n = q.count /\ Picked(table, q) = None
                  /\ \A k \in 0 .. q.count - 1 : ~Eligible(table, q, k)
               \/ /\ n \in 1 .. q.count /\ Picked(table, q) = Entry(q, n - 1)
                  /\ Eligible(table, q, n - 1)
                  /\ \A k \in 0 .. q.count - 1 : Eligible(table, q, k) => k >= n - 1
<1> DEFINE S == Stops(table, q)
           m == CHOOSE k \in S : \A j \in S : k <= j
<1>1. q.count \in Nat
  BY SchedulerAssumption DEF Sound, Queues
<1>2. CASE S = {}
  BY <1>2 DEF Popped, Picked, Stops
<1>3. CASE S # {}
  <2>1. S \subseteq Nat
    BY <1>1 DEF Stops
  <2>2. \E k \in S : \A j \in S : k <= j
    BY <1>3, <2>1, LeastNatural
  <2>3. m \in S /\ \A j \in S : m <= j
    BY <2>2
  <2>4. Popped(table, q) = 1 + m
    BY <1>3 DEF Popped
  <2> HIDE DEF m
  <2>5. m \in 0 .. q.count - 1 /\ Eligible(table, q, m)
    BY <2>3 DEF Stops
  <2>6. (1 + m) - 1 = m /\ 1 + m \in 1 .. q.count
    BY <1>1, <2>5
  <2>7. Picked(table, q) = Entry(q, m)
    BY <1>3, <2>4, <2>6 DEF Picked
  <2>8. ASSUME NEW k \in 0 .. q.count - 1, Eligible(table, q, k) PROVE k >= m
    BY <1>1, <2>3, <2>5, <2>8 DEF Stops
  <2> QED
    BY <2>4, <2>5, <2>6, <2>7, <2>8
<1> QED
  BY <1>2, <1>3

-----------------------------------------------------------------------------
(* scdk_yield                                                              *)

ThreadSlots == [in_use : BOOLEAN, task : Tasks \cup {None}, entry : BOOLEAN,
                state : States, queued : BOOLEAN]

\* The table scdk_yield starts from: the caller's own state may have changed.
CallersTable(table) ==
    /\ table \in [Threads -> ThreadSlots]
    /\ \A t \in Threads : t # current_thread_slot => table[t] = thread_table[t]
    /\ ~table[current_thread_slot].queued

(* The run queue is sound, and holds READY threads other than the current. *)
LEMMA QueueNow ==
    ASSUME SchedIInv, NEW table, CallersTable(table)
    PROVE  /\ Sound(run_queue) /\ run_queue.count \in Nat
           /\ \A k \in 0 .. run_queue.count - 1 :
                  LET t == Entry(run_queue, k)
                  IN  /\ t \in Threads /\ t # current_thread_slot
                      /\ table[t].queued /\ table[t].state = "READY"
                      /\ \A j \in 0 .. run_queue.count - 1 : Entry(run_queue, j) = t => j = k
           /\ \A t \in honoured : t # current_thread_slot /\ table[t].state = "READY" =>
                  \E k \in 0 .. run_queue.count - 1 : Entry(run_queue, k) = t
<1>1. Sound(run_queue) /\ run_queue.count \in Nat
  BY SchedulerAssumption DEF SchedIInv, TypeOK, QueueHoldsTheReady, Sound, Queues
<1>2. ASSUME NEW k \in 0 .. run_queue.count - 1
      PROVE  LET t == Entry(run_queue, k)
             IN  /\ t \in Threads /\ t # current_thread_slot
                 /\ thread_table[t].queued /\ thread_table[t].state = "READY"
                 /\ \A j \in 0 .. run_queue.count - 1 : Entry(run_queue, j) = t => j = k
  BY DEF SchedIInv, QueueHoldsTheReady, QueuePositions
<1>3. \A t \in honoured : thread_table[t].state = "READY" =>
          \E k \in 0 .. run_queue.count - 1 : Entry(run_queue, k) = t
  BY DEF SchedIInv, QueueHoldsTheReady, QueuePositions
<1>4. honoured \subseteq Threads
  BY DEF SchedIInv, TypeOK
<1>5. \A t \in Threads : t # current_thread_slot => table[t] = thread_table[t]
  BY DEF CallersTable
<1> QED
  BY <1>1, <1>2, <1>3, <1>4, <1>5

(* What dequeue_thread leaves behind.                                      *)
LEMMA AfterDequeue ==
    ASSUME SchedIInv, current_thread_slot \in Threads, NEW table, CallersTable(table)
    PROVE  LET P == MarkDequeued(table, run_queue)
               D == Dequeued(table, run_queue)
               next == Picked(table, run_queue)
           IN  /\ Sound(D) /\ D.count \in Nat /\ D.count < MaxThreads
               /\ P \in [Threads -> ThreadSlots]
               /\ P[current_thread_slot] = table[current_thread_slot]
               /\ \A t \in Threads :
                      /\ P[t].in_use = table[t].in_use /\ P[t].task = table[t].task
                      /\ P[t].state = table[t].state /\ P[t].entry = table[t].entry
                      /\ P[t].queued => table[t].queued
               /\ \A k \in 0 .. D.count - 1 :
                      LET t == Entry(D, k)
                      IN  /\ t \in Threads /\ t # current_thread_slot /\ t # next
                          /\ P[t].queued /\ P[t].state = "READY"
                          /\ \A j \in 0 .. D.count - 1 : Entry(D, j) = t => j = k
               /\ \A t \in honoured : t # current_thread_slot /\ table[t].state = "READY" =>
                      t = next \/ \E k \in 0 .. D.count - 1 : Entry(D, k) = t
               /\ next # None =>
                      /\ next \in honoured /\ next \in Threads /\ next # current_thread_slot
                      /\ table[next].state = "READY" /\ ~P[next].queued
               /\ next = None => D.count = 0
               /\ \A k \in 0 .. D.count - 1, j \in 0 .. run_queue.count - 1 :
                      Entry(run_queue, j) = Entry(D, k) => k < j
<1> DEFINE q == run_queue
           cur == current_thread_slot
           P == MarkDequeued(table, q)
           D == Dequeued(table, q)
           next == Picked(table, q)
           n == Popped(table, q)
           gone == {Entry(q, k) : k \in 0 .. n - 1} \cap honoured
<1>1. /\ Sound(q) /\ q.count \in Nat
      /\ \A k \in 0 .. q.count - 1 :
             LET t == Entry(q, k)
             IN  /\ t \in Threads /\ t # cur
                 /\ table[t].queued /\ table[t].state = "READY"
                 /\ \A j \in 0 .. q.count - 1 : Entry(q, j) = t => j = k
      /\ \A t \in honoured : t # cur /\ table[t].state = "READY" =>
             \E k \in 0 .. q.count - 1 : Entry(q, k) = t
  BY QueueNow
<1>2. \/ /\ n = q.count /\ next = None
         /\ \A k \in 0 .. q.count - 1 : ~Eligible(table, q, k)
      \/ /\ n \in 1 .. q.count /\ next = Entry(q, n - 1)
         /\ Eligible(table, q, n - 1)
         /\ \A k \in 0 .. q.count - 1 : Eligible(table, q, k) => k >= n - 1
  BY <1>1, WhereItStops
<1>3. n \in 0 .. q.count /\ n \in Nat
  BY <1>1, <1>2
<1>4. /\ Sound(D) /\ D.count = q.count - n
      /\ \A k \in 0 .. D.count - 1 : Entry(D, k) = Entry(q, n + k)
  <2>1. D = [q EXCEPT !.head = (@ + n) % MaxThreads, !.count = @ - n]
    BY DEF Dequeued
  <2> DEFINE d == [q EXCEPT !.head = (@ + n) % MaxThreads, !.count = @ - n]
  <2> HIDE DEF n, D
  <2>2. /\ Sound(d) /\ d.count = q.count - n
        /\ \A k \in 0 .. d.count - 1 : Entry(d, k) = Entry(q, n + k)
    BY ZenonT(30), <1>1, <1>3, TakenOff
  <2> QED
    BY <2>1, <2>2
<1>5. /\ P = [t \in Threads |-> IF t \in gone THEN [table[t] EXCEPT !.queued = FALSE]
                                ELSE table[t]]
  BY DEF MarkDequeued
<1>6. \A k \in 0 .. q.count - 1 : Eligible(table, q, k) <=> Entry(q, k) \in honoured
  BY <1>1 DEF Eligible
<1>7. table \in [Threads -> ThreadSlots] /\ None \notin Threads
  BY SchedulerAssumption DEF CallersTable
<1> HIDE DEF n, D, P, next
<1>8. D.count \in Nat /\ D.count < MaxThreads
  <2>1. q.count \in 0 .. MaxThreads /\ MaxThreads \in Nat \ {0}
    BY <1>1, SchedulerAssumption DEF Sound, Queues
  <2>2. CASE next = None
    <3>1. n = q.count
      BY <1>1, <1>2, <1>7, <2>2
    <3> QED
      BY <1>4, <2>1, <3>1
  <2>3. CASE next # None
    BY <1>2, <1>4, <2>1, <2>3
  <2> QED
    BY <2>2, <2>3
<1>9. \A t \in gone : \E k \in 0 .. q.count - 1 : k < n /\ Entry(q, k) = t
  BY <1>1, <1>3
<1>10. cur \notin gone
  BY <1>1, <1>9
<1>11. P[cur] = table[cur]
  BY <1>5, <1>10
<1>12. /\ P \in [Threads -> ThreadSlots]
       /\ \A t \in Threads :
              /\ P[t].in_use = table[t].in_use /\ P[t].task = table[t].task
              /\ P[t].state = table[t].state /\ P[t].entry = table[t].entry
              /\ P[t].queued => table[t].queued
  <2> HIDE DEF gone
  <2> QED
    BY ZenonT(30), <1>5, <1>7 DEF ThreadSlots
<1>13. ASSUME NEW k \in 0 .. D.count - 1
       PROVE  /\ n + k \in 0 .. q.count - 1 /\ Entry(D, k) = Entry(q, n + k)
              /\ Entry(D, k) \notin gone
  <2>1. n + k \in 0 .. q.count - 1 /\ Entry(D, k) = Entry(q, n + k)
    BY <1>3, <1>4, <1>8, <1>1
  <2>2. ASSUME Entry(D, k) \in gone PROVE FALSE
    <3>1. PICK j \in 0 .. q.count - 1 : j < n /\ Entry(q, j) = Entry(D, k)
      BY <1>9, <2>2
    <3>2. j = n + k
      BY <1>1, <2>1, <3>1
    <3> QED
      BY <1>3, <3>1, <3>2
  <2> QED
    BY <2>1, <2>2
<1>14. next # None =>
           /\ next \in honoured /\ next \in Threads /\ next # cur
           /\ table[next].state = "READY" /\ ~P[next].queued /\ next \in gone
  <2> SUFFICES ASSUME next # None
               PROVE  /\ next \in honoured /\ next \in Threads /\ next # cur
                      /\ table[next].state = "READY" /\ ~P[next].queued /\ next \in gone
    OBVIOUS
  <2>1. n - 1 \in 0 .. q.count - 1 /\ next = Entry(q, n - 1) /\ Entry(q, n - 1) \in honoured
    BY <1>1, <1>2, <1>6
  <2>2. next \in gone
    BY <1>3, <2>1
  <2>3. next \in Threads /\ next # cur /\ table[next].state = "READY"
    BY <1>1, <2>1
  <2>4. ~P[next].queued
    <3> HIDE DEF gone
    <3> QED
      BY <1>5, <1>7, <2>2, <2>3 DEF ThreadSlots
  <2> QED
    BY <2>1, <2>2, <2>3, <2>4
<1>15. ASSUME NEW k \in 0 .. D.count - 1
       PROVE  LET t == Entry(D, k)
              IN  /\ t \in Threads /\ t # cur /\ t # next
                  /\ P[t].queued /\ P[t].state = "READY"
                  /\ \A j \in 0 .. D.count - 1 : Entry(D, j) = t => j = k
  <2> DEFINE t == Entry(D, k)
  <2>1. t \in Threads /\ t # cur /\ table[t].queued /\ table[t].state = "READY"
    BY <1>1, <1>13
  <2>2. t # next
    BY <1>7, <1>13, <1>14, <2>1
  <2>3. P[t] = table[t]
    BY <1>5, <1>13, <2>1
  <2>4. ASSUME NEW j \in 0 .. D.count - 1, Entry(D, j) = t PROVE j = k
    <3>1. n + j = n + k
      BY <1>1, <1>13, <2>4
    <3> QED
      BY <1>3, <1>8, <3>1
  <2> QED
    BY <2>1, <2>2, <2>3, <2>4
<1>16. ASSUME NEW t \in honoured, t # cur, table[t].state = "READY"
       PROVE  t = next \/ \E k \in 0 .. D.count - 1 : Entry(D, k) = t
  <2>1. PICK j \in 0 .. q.count - 1 : Entry(q, j) = t
    BY <1>1, <1>16
  <2>2. Eligible(table, q, j)
    BY <1>6, <2>1
  <2>3. next = Entry(q, n - 1) /\ j >= n - 1
    BY <1>2, <2>2
  <2>4. CASE j = n - 1
    BY <2>1, <2>3, <2>4
  <2>5. CASE j # n - 1
    <3>1. j - n \in 0 .. D.count - 1 /\ n + (j - n) = j
      BY <1>1, <1>3, <1>4, <2>3, <2>5
    <3> QED
      BY <1>13, <2>1, <3>1
  <2> QED
    BY <2>4, <2>5
<1>17. next = None => D.count = 0
  BY <1>1, <1>2, <1>4, <1>7
<1>18. ASSUME NEW k \in 0 .. D.count - 1, NEW j \in 0 .. q.count - 1, Entry(q, j) = Entry(D, k)
       PROVE  k < j
  <2>1. j = n + k
    BY <1>1, <1>13, <1>18
  <2>2. n # 0
    BY <1>1, <1>2, <1>4, <1>8
  <2> QED
    BY <1>3, <1>8, <2>1, <2>2
<1> QED
  BY <1>4, <1>8, <1>11, <1>12, <1>14, <1>15, <1>16, <1>17, <1>18 DEF D, P, next

(* A switch: the current thread is left READY at the end of the queue,     *)
(* BLOCKED as the driver, or DEAD, and another goes on.  table is what     *)
(* scdk_yield found, before what it hands to switch_to_thread.             *)
LEMMA SwitchInv ==
    ASSUME SchedIInv, current_thread_slot \in Threads, NEW table, CallersTable(table),
           NEW next \in Threads, next # current_thread_slot,
           \/ next = Picked(table, run_queue)
           \/ /\ Picked(table, run_queue) = None
              /\ next = scheduler_driver_slot /\ table[next].state = "BLOCKED",
           NEW state \in {"READY", "BLOCKED", "DEAD"},
           NEW before, before \in [Threads -> ThreadSlots],
           \A t \in Threads : t # current_thread_slot =>
               before[t] = MarkDequeued(table, run_queue)[t],
           /\ before[current_thread_slot].state = state
           /\ before[current_thread_slot].queued <=> state = "READY"
           /\ before[current_thread_slot].in_use,
           switch_to_thread(before, next),
           run_queue' = IF state = "READY"
                        THEN Enqueued(Dequeued(table, run_queue), current_thread_slot)
                        ELSE Dequeued(table, run_queue),
           state = "BLOCKED" <=> current_thread_slot = scheduler_driver_slot,
           current_thread_slot = Boot => state # "DEAD",
           NEW then \in {"own", "loop", "ended"},
           then = "ended" <=> state = "DEAD",
           current_thread_slot = Boot => (then = "loop" <=> scheduler_driver_slot = Boot),
           resume' = [resume EXCEPT ![current_thread_slot] = then],
           UNCHANGED <<taskVars, honoured, scheduler_driver_slot>>
    PROVE  SchedIInv'
<1> DEFINE cur == current_thread_slot
           P == MarkDequeued(table, run_queue)
           D == Dequeued(table, run_queue)
           picked == Picked(table, run_queue)
<1>1. /\ Sound(D) /\ D.count \in Nat /\ D.count < MaxThreads
      /\ P \in [Threads -> ThreadSlots]
      /\ \A t \in Threads :
             /\ P[t].in_use = table[t].in_use /\ P[t].task = table[t].task
             /\ P[t].state = table[t].state
             /\ P[t].queued => table[t].queued
      /\ \A k \in 0 .. D.count - 1 :
             LET t == Entry(D, k)
             IN  /\ t \in Threads /\ t # cur /\ t # picked
                 /\ P[t].queued /\ P[t].state = "READY"
                 /\ \A j \in 0 .. D.count - 1 : Entry(D, j) = t => j = k
      /\ \A t \in honoured : t # cur /\ table[t].state = "READY" =>
             t = picked \/ \E k \in 0 .. D.count - 1 : Entry(D, k) = t
      /\ picked # None => table[picked].state = "READY" /\ ~P[picked].queued
      /\ picked = None => D.count = 0
  BY AfterDequeue
<1>2. /\ thread_table' = [t \in Threads |->
             IF t = next THEN [before[t] EXCEPT !.state = "RUNNING"] ELSE before[t]]
      /\ current_thread_slot' = next /\ current_task' = before[next].task
  BY DEF switch_to_thread
<1>3. /\ \A t \in Threads : t # cur => table[t] = thread_table[t]
      /\ None \notin Threads /\ honoured \subseteq Threads
      /\ honoured' = honoured /\ scheduler_driver_slot' = scheduler_driver_slot
  BY SchedulerAssumption DEF CallersTable, SchedIInv, TypeOK
<1>4. ASSUME NEW t \in Threads, t # cur, t # next
      PROVE  /\ thread_table'[t].state = thread_table[t].state
             /\ thread_table'[t].in_use = thread_table[t].in_use
             /\ thread_table'[t].queued = P[t].queued
             /\ thread_table'[t].queued => thread_table[t].queued
  <2> HIDE DEF P
  <2> QED
    BY <1>1, <1>2, <1>3, <1>4 DEF P
<1>5. /\ thread_table'[next].state = "RUNNING" /\ ~thread_table'[next].queued
      /\ thread_table'[next].in_use = thread_table[next].in_use
      /\ thread_table'[next].task = before[next].task
      /\ before[next].task \in Tasks \cup {None}
      /\ thread_table[next].state \in {"READY", "BLOCKED"}
  <2>1. /\ thread_table'[next] = [before[next] EXCEPT !.state = "RUNNING"]
        /\ before[next] = P[next] /\ P[next] \in ThreadSlots
    BY <1>1, <1>2
  <2>2. ~P[next].queued /\ table[next].state \in {"READY", "BLOCKED"}
    <3>1. CASE next = picked
      BY <1>1, <1>3, <3>1
    <3>2. CASE next # picked
      <4>1. table[next].state = "BLOCKED" /\ thread_table[next].state = "BLOCKED"
        BY <1>3, <3>2
      <4>2. ~thread_table[next].queued
        BY <4>1 DEF SchedIInv, SlotsInv
      <4> QED
        BY <1>1, <1>3, <4>1, <4>2
    <3> QED
      BY <3>1, <3>2
  <2> HIDE DEF P
  <2> QED
    BY <1>1, <1>3, <2>1, <2>2 DEF ThreadSlots
<1>6. /\ thread_table'[cur].state = state /\ thread_table'[cur].in_use
      /\ thread_table'[cur].queued <=> state = "READY"
  BY <1>2
<1>7. thread_table' \in [Threads -> ThreadSlots]
  <2>1. ASSUME NEW r \in ThreadSlots PROVE [r EXCEPT !.state = "RUNNING"] \in ThreadSlots
    BY DEF ThreadSlots, States
  <2> QED
    BY <1>2, <2>1
<1>8. run_queue' = IF state = "READY" THEN Enqueued(D, cur) ELSE D
  OBVIOUS
<1> HIDE DEF P, D, picked
<1>9. /\ Sound(Enqueued(D, cur)) /\ Enqueued(D, cur).count = D.count + 1
      /\ Entry(Enqueued(D, cur), D.count) = cur
      /\ \A k \in 0 .. D.count - 1 : Entry(Enqueued(D, cur), k) = Entry(D, k)
  BY <1>1, PutBehind
<1>10. /\ Sound(run_queue') /\ run_queue'.count \in Nat
       /\ \A k \in 0 .. run_queue'.count - 1 :
              \/ k \in 0 .. D.count - 1 /\ Entry(run_queue', k) = Entry(D, k)
              \/ k = D.count /\ Entry(run_queue', k) = cur /\ state = "READY"
       /\ \A k \in 0 .. D.count - 1 :
              k \in 0 .. run_queue'.count - 1 /\ Entry(run_queue', k) = Entry(D, k)
       /\ state = "READY" =>
              D.count \in 0 .. run_queue'.count - 1 /\ Entry(run_queue', D.count) = cur
  <2>1. CASE state = "READY"
    <3>1. run_queue' = Enqueued(D, cur)
      BY <1>8, <2>1
    <3>2. /\ Sound(run_queue') /\ run_queue'.count = D.count + 1
          /\ Entry(run_queue', D.count) = cur
          /\ \A k \in 0 .. D.count - 1 : Entry(run_queue', k) = Entry(D, k)
      BY <1>9, <3>1
    <3>3. /\ run_queue'.count \in Nat /\ D.count \in 0 .. run_queue'.count - 1
          /\ \A k \in 0 .. run_queue'.count - 1 : k \in 0 .. D.count - 1 \/ k = D.count
          /\ \A k \in 0 .. D.count - 1 : k \in 0 .. run_queue'.count - 1
      <4> DEFINE c == D.count
                 d == run_queue'.count
      <4>1. c \in Nat /\ d = c + 1
        BY <1>1, <3>2
      <4> HIDE DEF c, d
      <4>2. /\ d \in Nat /\ c \in 0 .. d - 1
            /\ \A k \in 0 .. d - 1 : k \in 0 .. c - 1 \/ k = c
            /\ \A k \in 0 .. c - 1 : k \in 0 .. d - 1
        BY <4>1
      <4> QED
        BY <4>2 DEF c, d
    <3> QED
      BY <2>1, <3>2, <3>3
  <2>2. CASE state # "READY"
    BY <1>1, <1>8, <2>2
  <2> QED
    BY <2>1, <2>2
<1>11. TypeOK'
  <2>1. resume' \in [Threads -> {"own", "loop", "ended"}]
    BY DEF SchedIInv, TypeOK
  <2> QED
    BY <1>2, <1>3, <1>5, <1>7, <1>10, <2>1
       DEF SchedIInv, TypeOK, Sound, Queues, ThreadSlots, taskVars
<1>12. StatesTellWhoRuns'
  <2> SUFFICES ASSUME NEW t \in Threads
               PROVE  /\ thread_table'[t].state = "RUNNING" <=> t = next
                      /\ thread_table'[t].state = "BLOCKED" <=>
                             t = scheduler_driver_slot /\ t # next
                      /\ t = next => current_task' = thread_table'[t].task
    BY <1>2, <1>3 DEF StatesTellWhoRuns
  <2>1. /\ thread_table[t].state = "RUNNING" <=> t = cur
        /\ thread_table[t].state = "BLOCKED" <=> t = scheduler_driver_slot /\ t # cur
    BY DEF SchedIInv, StatesTellWhoRuns
  <2>2. CASE t = next
    BY <1>2, <1>5, <2>2
  <2>3. CASE t = cur
    BY <1>6, <2>3
  <2>4. CASE t # cur /\ t # next
    BY <1>4, <2>1, <2>4
  <2> QED
    BY <2>2, <2>3, <2>4
<1>13. QueueHoldsTheReady'
  <2>1. ASSUME NEW t \in honoured, thread_table'[t].state = "READY"
        PROVE  \E k \in 0 .. run_queue'.count - 1 : Entry(run_queue', k) = t
    <3>1. t \in Threads /\ t # next
      BY <1>3, <1>5, <2>1
    <3>2. CASE t = cur
      BY <1>6, <1>10, <2>1, <3>2
    <3>3. CASE t # cur
      <4>1. table[t].state = "READY"
        BY <1>3, <1>4, <2>1, <3>1, <3>3
      <4>2. t # picked
        <5>1. CASE next = picked
          BY <3>1, <5>1
        <5>2. CASE picked = None
          BY <1>3, <3>1, <5>2
        <5> QED
          BY <5>1, <5>2 DEF picked
      <4>3. PICK k \in 0 .. D.count - 1 : Entry(D, k) = t
        BY <1>1, <3>3, <4>1, <4>2
      <4> QED
        BY <1>10, <4>3
    <3> QED
      BY <3>2, <3>3
  <2>2. ASSUME NEW k \in 0 .. run_queue'.count - 1
        PROVE  LET t == Entry(run_queue', k)
               IN  /\ t \in Threads /\ t # next
                   /\ thread_table'[t].queued /\ thread_table'[t].state = "READY"
                   /\ \A j \in 0 .. run_queue'.count - 1 : Entry(run_queue', j) = t => j = k
    <3> DEFINE t == Entry(run_queue', k)
    <3>1. CASE k \in 0 .. D.count - 1 /\ t = Entry(D, k)
      <4>1. /\ t \in Threads /\ t # cur /\ t # picked /\ P[t].queued /\ P[t].state = "READY"
            /\ \A j \in 0 .. D.count - 1 : Entry(D, j) = t => j = k
        BY <1>1, <3>1
      <4>2. t # next
        <5>1. CASE next = picked
          BY <4>1, <5>1
        <5>2. CASE picked = None
          BY <1>1, <3>1, <5>2
        <5> QED
          BY <5>1, <5>2 DEF picked
      <4>3. thread_table'[t].queued /\ thread_table'[t].state = "READY"
        BY <1>1, <1>3, <1>4, <4>1, <4>2
      <4>4. ASSUME NEW j \in 0 .. run_queue'.count - 1, Entry(run_queue', j) = t PROVE j = k
        BY <1>10, <4>1, <4>4
      <4> QED
        BY <4>1, <4>2, <4>3, <4>4
    <3>2. CASE k = D.count /\ t = cur /\ state = "READY"
      <4>1. ASSUME NEW j \in 0 .. run_queue'.count - 1, Entry(run_queue', j) = t PROVE j = k
        BY <1>1, <1>10, <3>2, <4>1
      <4> QED
        BY <1>6, <3>2, <4>1
    <3> QED
      BY <1>10, <3>1, <3>2
  <2>3. run_queue'.tail = (run_queue'.head + run_queue'.count) % MaxThreads
    BY <1>10 DEF Sound
  <2> QED
    BY ZenonT(30), <1>2, <1>3, <2>1, <2>2, <2>3 DEF QueueHoldsTheReady, QueuePositions, Entry
<1>14. SlotsInv'
  <2> SUFFICES ASSUME NEW t \in Threads
               PROVE  /\ thread_table'[t].in_use <=> thread_table'[t].state # "NONE"
                      /\ t \in honoured => thread_table'[t].in_use
                      /\ thread_table'[t].queued => thread_table'[t].state = "READY"
                      /\ resume'[t] = "ended" => thread_table'[t].state = "DEAD"
    BY <1>3 DEF SlotsInv
  <2>1. /\ thread_table[t].in_use <=> thread_table[t].state # "NONE"
        /\ t \in honoured => thread_table[t].in_use
        /\ thread_table[t].queued => thread_table[t].state = "READY"
        /\ resume[t] = "ended" => thread_table[t].state = "DEAD"
        /\ resume \in [Threads -> {"own", "loop", "ended"}]
    BY DEF SchedIInv, SlotsInv, TypeOK
  <2>2. /\ t # cur => resume'[t] = resume[t]
        /\ t = cur => resume'[t] = then
    BY <2>1
  <2>3. CASE t = next
    BY <1>5, <2>1, <2>2, <2>3
  <2>4. CASE t = cur
    BY <1>6, <2>2, <2>4
  <2>5. CASE t # cur /\ t # next
    BY <1>4, <2>1, <2>2, <2>5
  <2> QED
    BY <2>3, <2>4, <2>5
<1>15. BootInv'
  <2>1. next # None /\ Boot \in Threads /\ cur # None
    BY <1>3, SchedulerAssumption DEF Boot, Threads
  <2>2. /\ Boot \in honoured /\ thread_table[Boot].state \in {"RUNNING", "READY", "BLOCKED"}
        /\ resume[Boot] = "loop" <=> scheduler_driver_slot = Boot
        /\ resume \in [Threads -> {"own", "loop", "ended"}]
    BY <2>1 DEF SchedIInv, BootInv, TypeOK
  <2>3. thread_table'[Boot].state \in {"RUNNING", "READY", "BLOCKED"}
    BY <1>4, <1>5, <1>6, <2>1, <2>2
  <2>4. resume'[Boot] = "loop" <=> scheduler_driver_slot = Boot
    BY <2>1, <2>2
  <2> QED
    BY <1>2, <1>3, <2>1, <2>2, <2>3, <2>4 DEF BootInv
<1> QED
  BY <1>11, <1>12, <1>13, <1>14, <1>15 DEF SchedIInv

(* The thread scdk_yield chooses is another one: from the queue or, when   *)
(* that has none, the driver that waits.                                   *)
LEMMA ChosenThread ==
    ASSUME SchedIInv, current_thread_slot \in Threads, NEW table, CallersTable(table),
           Chosen(table) # None
    PROVE  /\ Chosen(table) \in Threads /\ Chosen(table) # current_thread_slot
           /\ \/ Chosen(table) = Picked(table, run_queue)
              \/ /\ Picked(table, run_queue) = None
                 /\ Chosen(table) = scheduler_driver_slot
                 /\ table[Chosen(table)].state = "BLOCKED"
<1>1. Picked(table, run_queue) # None =>
          /\ Picked(table, run_queue) \in Threads
          /\ Picked(table, run_queue) # current_thread_slot
  BY AfterDequeue
<1>2. scheduler_driver_slot # None => scheduler_driver_slot \in Threads
  BY SchedulerAssumption DEF SchedIInv, TypeOK, Boot, Threads
<1> QED
  BY <1>1, <1>2 DEF Chosen

(* A running thread always finds room on the queue, so a yield that        *)
(* returns found nobody.                                                   *)
LEMMA ReturnsAlone ==
    ASSUME SchedIInv, current_thread_slot \in Threads, NEW table, CallersTable(table),
           YieldReturns(table)
    PROVE  Chosen(table) = None /\ Picked(table, run_queue) = None
<1>1. /\ Dequeued(table, run_queue).count < MaxThreads
      /\ MarkDequeued(table, run_queue)[current_thread_slot] = table[current_thread_slot]
  BY AfterDequeue
<1>2. Chosen(table) = None
  BY <1>1 DEF YieldReturns, CanEnqueue, CallersTable
<1> QED
  BY <1>2 DEF Chosen

(* The caller is alive: it stays, waits as the driver, or waits its turn.  *)
LEMMA AliveYieldInv ==
    ASSUME SchedIInv, current_thread_slot \in Threads, NEW then \in {"own", "loop"},
           current_thread_slot = Boot => (then = "loop" <=> scheduler_driver_slot = Boot),
           scdk_yield(thread_table, then)
    PROVE  SchedIInv'
<1> DEFINE cur == current_thread_slot
           table == thread_table
           P == MarkDequeued(table, run_queue)
           D == Dequeued(table, run_queue)
           next == Chosen(table)
<1>1. table[cur].state = "RUNNING" /\ table[cur].in_use /\ ~table[cur].queued
  BY DEF SchedIInv, StatesTellWhoRuns, SlotsInv
<1>2. CallersTable(table) /\ table \in [Threads -> ThreadSlots]
  BY <1>1 DEF CallersTable, SchedIInv, TypeOK, ThreadSlots
<1>3. /\ resume' = [resume EXCEPT ![cur] = then]
      /\ UNCHANGED <<taskVars, honoured, scheduler_driver_slot>>
  BY DEF scdk_yield
<1>4. P \in [Threads -> ThreadSlots] /\ P[cur] = table[cur] /\ P[cur] \in ThreadSlots
  BY <1>2, AfterDequeue
<1>5. CASE YieldReturns(table)
  <2>1. Picked(table, run_queue) = None
    BY <1>2, <1>5, ReturnsAlone
  <2>2. /\ thread_table' = P /\ run_queue' = D
        /\ UNCHANGED <<current_thread_slot, current_task>>
    BY <1>5 DEF YieldReturns
  <2>3. /\ Sound(D) /\ D.count = 0
        /\ \A t \in Threads :
               /\ P[t].in_use = table[t].in_use /\ P[t].task = table[t].task
               /\ P[t].state = table[t].state
               /\ P[t].queued => table[t].queued
        /\ \A t \in honoured : t # cur /\ table[t].state = "READY" =>
               t = None \/ \E k \in 0 .. D.count - 1 : Entry(D, k) = t
    BY <1>2, <2>1, AfterDequeue
  <2> HIDE DEF P, D
  <2>4. TypeOK'
    BY <1>3, <1>4, <2>2, <2>3 DEF SchedIInv, TypeOK, Sound, Queues, ThreadSlots, taskVars
  <2>5. StatesTellWhoRuns'
    BY <1>3, <2>2, <2>3 DEF SchedIInv, StatesTellWhoRuns
  <2>6. QueueHoldsTheReady'
    <3>1. 0 .. D.count - 1 = {}
      BY <2>3
    <3>2. \A t \in honoured : table[t].state # "READY"
      BY <1>1, <2>3, <3>1, SchedulerAssumption DEF SchedIInv, TypeOK
    <3>3. honoured \subseteq Threads /\ honoured' = honoured
      BY <1>3 DEF SchedIInv, TypeOK
    <3> QED
      BY <2>2, <2>3, <3>1, <3>2, <3>3 DEF QueueHoldsTheReady, QueuePositions, Sound
  <2>7. SlotsInv'
    <3> SUFFICES ASSUME NEW t \in Threads
                 PROVE  /\ P[t].in_use <=> P[t].state # "NONE"
                        /\ t \in honoured => P[t].in_use
                        /\ P[t].queued => P[t].state = "READY"
                        /\ resume'[t] = "ended" => P[t].state = "DEAD"
      BY <1>3, <2>2 DEF SlotsInv
    <3>1. resume'[t] = "ended" => resume[t] = "ended"
      BY <1>3 DEF SchedIInv, TypeOK
    <3> QED
      BY <2>3, <3>1 DEF SchedIInv, SlotsInv
  <2>8. BootInv'
    <3>1. cur # None /\ Boot \in Threads
      BY SchedulerAssumption DEF Boot, Threads
    <3>2. resume'[Boot] = "loop" <=> scheduler_driver_slot = Boot
      BY <1>3, <3>1 DEF SchedIInv, TypeOK, BootInv
    <3> QED
      BY <1>3, <2>2, <2>3, <3>1, <3>2 DEF SchedIInv, BootInv
  <2> QED
    BY <2>4, <2>5, <2>6, <2>7, <2>8 DEF SchedIInv
<1>6. CASE YieldBlocks(table)
  <2> DEFINE before == [P EXCEPT ![cur].state = "BLOCKED"]
  <2>1. /\ next # None /\ cur = scheduler_driver_slot
        /\ switch_to_thread(before, next) /\ run_queue' = D
    BY <1>6 DEF YieldBlocks
  <2>2. /\ next \in Threads /\ next # cur
        /\ \/ next = Picked(table, run_queue)
           \/ /\ Picked(table, run_queue) = None
              /\ next = scheduler_driver_slot /\ table[next].state = "BLOCKED"
    BY <1>2, <2>1, ChosenThread
  <2>3. /\ before \in [Threads -> ThreadSlots]
        /\ \A t \in Threads : t # cur => before[t] = P[t]
        /\ before[cur].state = "BLOCKED" /\ ~before[cur].queued /\ before[cur].in_use
    <3> HIDE DEF P
    <3>1. [P[cur] EXCEPT !.state = "BLOCKED"] \in ThreadSlots
      BY <1>4 DEF ThreadSlots, States
    <3> QED
      BY <1>1, <1>4, <3>1 DEF ThreadSlots
  <2> HIDE DEF before, next, P, D
  <2> QED
    BY ZenonT(30), <1>2, <1>3, <2>1, <2>2, <2>3, SwitchInv DEF P, D
<1>7. CASE YieldRequeues(table)
  <2> DEFINE before == [P EXCEPT ![cur] = MarkQueued(P[cur])]
  <2>1. /\ next # None /\ cur # scheduler_driver_slot
        /\ switch_to_thread(before, next) /\ run_queue' = Enqueued(D, cur)
    BY <1>7 DEF YieldRequeues, MustRequeue
  <2>2. /\ next \in Threads /\ next # cur
        /\ \/ next = Picked(table, run_queue)
           \/ /\ Picked(table, run_queue) = None
              /\ next = scheduler_driver_slot /\ table[next].state = "BLOCKED"
    BY <1>2, <2>1, ChosenThread
  <2>3. /\ before \in [Threads -> ThreadSlots]
        /\ \A t \in Threads : t # cur => before[t] = P[t]
        /\ before[cur].state = "READY" /\ before[cur].queued /\ before[cur].in_use
    <3> HIDE DEF P
    <3>1. MarkQueued(P[cur]) \in ThreadSlots
      BY <1>4 DEF ThreadSlots, States, MarkQueued
    <3>2. /\ MarkQueued(P[cur]).state = "READY" /\ MarkQueued(P[cur]).queued
          /\ MarkQueued(P[cur]).in_use
      BY <1>1, <1>4 DEF ThreadSlots, MarkQueued
    <3> QED
      BY <1>4, <3>1, <3>2
  <2> HIDE DEF before, next, P, D
  <2> QED
    BY ZenonT(30), <1>2, <1>3, <2>1, <2>2, <2>3, SwitchInv DEF P, D
<1>8. ~YieldAbandons(table)
  BY <1>1 DEF YieldAbandons
<1> QED
  BY <1>5, <1>6, <1>7, <1>8 DEF scdk_yield

(* The caller's entry function has returned: there is always a thread to   *)
(* switch to, if only the boot thread, and the caller is left behind.      *)
LEMMA DeadYieldInv ==
    ASSUME SchedIInv, current_thread_slot \in Threads, current_thread_slot # Boot,
           scdk_yield([thread_table EXCEPT ![current_thread_slot].state = "DEAD"], "ended")
    PROVE  SchedIInv'
<1> DEFINE cur == current_thread_slot
           table == [thread_table EXCEPT ![cur].state = "DEAD"]
           P == MarkDequeued(table, run_queue)
           D == Dequeued(table, run_queue)
           next == Chosen(table)
<1>1. thread_table[cur].state = "RUNNING" /\ thread_table[cur].in_use /\ ~thread_table[cur].queued
  BY DEF SchedIInv, StatesTellWhoRuns, SlotsInv
<1>2. thread_table \in [Threads -> ThreadSlots]
  BY DEF SchedIInv, TypeOK, ThreadSlots
<1>3. /\ CallersTable(table) /\ table[cur].state = "DEAD" /\ table[cur].in_use
      /\ ~table[cur].queued /\ \A t \in Threads : t # cur => table[t] = thread_table[t]
  <2>1. [thread_table[cur] EXCEPT !.state = "DEAD"] \in ThreadSlots
    BY <1>2 DEF ThreadSlots, States
  <2> QED
    BY <1>1, <1>2, <2>1 DEF CallersTable, ThreadSlots
<1>4. scdk_yield(table, "ended")
  OBVIOUS
<1> HIDE DEF table
<1>5. /\ resume' = [resume EXCEPT ![cur] = "ended"]
      /\ UNCHANGED <<taskVars, honoured, scheduler_driver_slot>>
  BY <1>4 DEF scdk_yield
<1>6. cur # scheduler_driver_slot /\ cur # None /\ Boot \in Threads /\ None \notin Threads
  BY SchedulerAssumption DEF SchedIInv, TypeOK, Boot, Threads
<1>7. next # None
  <2>1. /\ Boot \in honoured /\ thread_table[Boot].state \in {"RUNNING", "READY", "BLOCKED"}
        /\ thread_table[Boot].state # "RUNNING"
        /\ thread_table[Boot].state = "BLOCKED" <=> Boot = scheduler_driver_slot
    BY <1>6 DEF SchedIInv, BootInv, StatesTellWhoRuns
  <2>2. table[Boot] = thread_table[Boot]
    BY <1>3, <1>6
  <2>3. CASE Picked(table, run_queue) = None
    <3>1. table[Boot].state # "READY"
      <4> SUFFICES ASSUME table[Boot].state = "READY" PROVE FALSE
        OBVIOUS
      <4>1. D.count = 0 /\ \E k \in 0 .. D.count - 1 : Entry(D, k) = Boot
        BY <1>3, <1>6, <2>1, <2>3, AfterDequeue
      <4> HIDE DEF D
      <4> QED
        BY <4>1
    <3>2. Boot = scheduler_driver_slot /\ table[Boot].state = "BLOCKED" /\ Boot # None
      BY <1>6, <2>1, <2>2, <3>1
    <3> QED
      BY <1>6, <2>3, <3>2 DEF Chosen
  <2>4. CASE Picked(table, run_queue) # None
    BY <2>4 DEF Chosen
  <2> QED
    BY <2>3, <2>4
<1>8. ~YieldReturns(table) /\ ~YieldBlocks(table) /\ ~YieldRequeues(table)
  BY <1>3, <1>7, ReturnsAlone DEF YieldBlocks, YieldRequeues, MustRequeue
<1>9. switch_to_thread(P, next) /\ run_queue' = D
  BY <1>4, <1>8 DEF scdk_yield, YieldAbandons
<1>10. /\ next \in Threads /\ next # cur
       /\ \/ next = Picked(table, run_queue)
          \/ /\ Picked(table, run_queue) = None
             /\ next = scheduler_driver_slot /\ table[next].state = "BLOCKED"
  BY <1>3, <1>7, ChosenThread
<1>11. P \in [Threads -> ThreadSlots] /\ P[cur] = table[cur]
  BY <1>3, AfterDequeue
<1> HIDE DEF next, P, D
<1> QED
  BY <1>3, <1>5, <1>6, <1>9, <1>10, <1>11, SwitchInv DEF P, D

-----------------------------------------------------------------------------
(* The other operations                                                    *)

LEMMA InitSchedIInv == Init => SchedIInv
<1> SUFFICES ASSUME Init PROVE SchedIInv
  OBVIOUS
<1>1. MaxThreads \in Nat \ {0} /\ 0 \in Threads /\ None \notin Threads
  BY SchedulerAssumption DEF Threads
<1>2. \A t \in Threads : thread_table[t] = EmptyThread /\ resume[t] = "own"
  BY DEF Init
<1>3. TypeOK
  <2>1. EmptyThread \in [in_use : BOOLEAN, task : Tasks \cup {None}, entry : BOOLEAN,
                         state : States, queued : BOOLEAN]
    BY DEF EmptyThread, States
  <2>2. EmptyTask \in [in_use : BOOLEAN, main_thread : Threads \cup {None}]
    BY DEF EmptyTask
  <2>3. run_queue \in [entries : [Threads -> Threads \cup {None}], head : Threads,
                       tail : Threads, count : 0 .. MaxThreads]
    BY <1>1 DEF Init
  <2> QED
    BY <2>1, <2>2, <2>3 DEF Init, TypeOK
<1>4. StatesTellWhoRuns
  BY <1>1, <1>2 DEF Init, StatesTellWhoRuns, EmptyThread
<1>5. QueueHoldsTheReady
  <2>1. run_queue.count = 0 /\ run_queue.head = 0 /\ run_queue.tail = 0
    BY DEF Init
  <2>2. QueuePositions = {} /\ (0 + 0) % MaxThreads = 0
    BY <1>1, <2>1 DEF QueuePositions
  <2> QED
    BY <2>1, <2>2 DEF Init, QueueHoldsTheReady
<1>6. SlotsInv
  BY <1>2 DEF Init, SlotsInv, EmptyThread
<1>7. BootInv
  BY DEF Init, BootInv
<1> QED
  BY <1>3, <1>4, <1>5, <1>6, <1>7 DEF SchedIInv

(* An action that leaves the queue, the threads on it and the processor    *)
(* alone, and gives no READY thread a new token, keeps the queue right.    *)
LEMMA QueueKept ==
    ASSUME QueueHoldsTheReady, TypeOK, TypeOK', run_queue' = run_queue,
           current_thread_slot' = current_thread_slot,
           \A t \in Threads : thread_table[t].state = "READY" =>
               thread_table'[t] = thread_table[t],
           \A t \in honoured' : thread_table'[t].state = "READY" =>
               t \in honoured /\ thread_table[t].state = "READY"
    PROVE  QueueHoldsTheReady'
<1>1. QueuePositions' = QueuePositions
  BY DEF QueuePositions
<1>2. \A k \in QueuePositions : Entry(run_queue, k)' = Entry(run_queue, k)
  BY DEF Entry
<1>3. \A t \in honoured' : thread_table'[t].state = "READY" =>
          \E k \in QueuePositions : Entry(run_queue, k) = t
  BY DEF QueueHoldsTheReady
<1>4. \A k \in QueuePositions : LET t == Entry(run_queue, k)
          IN  /\ t \in Threads /\ t # current_thread_slot
              /\ thread_table'[t].queued /\ thread_table'[t].state = "READY"
              /\ \A j \in QueuePositions : Entry(run_queue, j) = t => j = k
  BY DEF QueueHoldsTheReady
<1> QED
  BY <1>1, <1>2, <1>3, <1>4 DEF QueueHoldsTheReady, Entry

LEMMA SchedulerInitInv ==
    ASSUME SchedIInv, scdk_scheduler_init
    PROVE  SchedIInv'
<1> DEFINE slot == [NewThread(BootTask, FALSE) EXCEPT !.state = "RUNNING"]
<1>1. /\ Boot \in Threads /\ BootTask \in Tasks /\ None \notin Threads
  BY SchedulerAssumption DEF Boot, BootTask, Threads, Tasks
<1>2. /\ thread_table = [t \in Threads |-> EmptyThread]
      /\ run_queue.count = 0 /\ scheduler_driver_slot = None
      /\ resume = [t \in Threads |-> "own"]
  BY DEF scdk_scheduler_init, SchedIInv, BootInv
<1>3. /\ slot \in ThreadSlots /\ slot.state = "RUNNING" /\ slot.in_use /\ ~slot.queued
      /\ slot.task = BootTask
  BY <1>1 DEF NewThread, ThreadSlots, States
<1>4. /\ thread_table' = [thread_table EXCEPT ![Boot] = slot]
      /\ honoured' = {Boot} /\ honoured_tasks' = {BootTask}
      /\ current_thread_slot' = Boot /\ current_task' = BootTask
      /\ UNCHANGED <<run_queue, scheduler_driver_slot, resume>>
      /\ task_table' = [task_table EXCEPT ![BootTask] =
                            [in_use |-> TRUE, main_thread |-> Boot]]
  BY DEF scdk_scheduler_init
<1> HIDE DEF slot
<1>5. /\ thread_table'[Boot] = slot
      /\ \A t \in Threads : t # Boot => thread_table'[t] = EmptyThread
  BY <1>1, <1>2, <1>4
<1>6. TypeOK'
  BY <1>1, <1>3, <1>4 DEF SchedIInv, TypeOK, ThreadSlots
<1>7. StatesTellWhoRuns'
  <2> SUFFICES ASSUME NEW t \in Threads
               PROVE  /\ thread_table'[t].state = "RUNNING" <=> t = Boot
                      /\ thread_table'[t].state # "BLOCKED"
                      /\ t = Boot => BootTask = thread_table'[t].task
    BY <1>1, <1>2, <1>4 DEF StatesTellWhoRuns
  <2> QED
    BY <1>3, <1>5 DEF EmptyThread
<1>8. QueueHoldsTheReady'
  <2>1. QueuePositions' = {}
    BY <1>2, <1>4 DEF QueuePositions
  <2>2. run_queue.tail = (run_queue.head + run_queue.count) % MaxThreads
    BY DEF SchedIInv, QueueHoldsTheReady
  <2> QED
    BY <1>3, <1>4, <1>5, <2>1, <2>2 DEF QueueHoldsTheReady
<1>9. SlotsInv'
  BY <1>2, <1>3, <1>4, <1>5 DEF SlotsInv, EmptyThread
<1>10. BootInv'
  BY <1>1, <1>2, <1>3, <1>4, <1>5 DEF BootInv
<1> QED
  BY <1>6, <1>7, <1>8, <1>9, <1>10 DEF SchedIInv

LEMMA ThreadCreateInv ==
    ASSUME SchedIInv, NEW k \in Tasks, NEW entry \in BOOLEAN, scdk_thread_create(k, entry)
    PROVE  SchedIInv'
<1>1. PICK t \in Threads :
          /\ FirstUnused(thread_table, t)
          /\ thread_table' = [thread_table EXCEPT ![t] = NewThread(k, entry)]
          /\ task_table' = WithMainThread(task_table, k, t)
          /\ honoured' = honoured \cup {t}
  BY DEF scdk_thread_create
<1>2. /\ current_thread_slot # None
      /\ UNCHANGED <<run_queue, current_thread_slot, scheduler_driver_slot, current_task,
                     resume, honoured_tasks>>
  BY DEF scdk_thread_create, InOwnCode, cpuVars
<1>3. ~thread_table[t].in_use /\ thread_table[t].state = "NONE"
  BY <1>1 DEF FirstUnused, SchedIInv, SlotsInv
<1> DEFINE slot == NewThread(k, entry)
<1>4. /\ slot \in ThreadSlots /\ slot.state = "NEW" /\ slot.in_use /\ ~slot.queued
  BY DEF NewThread, ThreadSlots, States
<1>5. /\ thread_table'[t] = slot /\ thread_table \in [Threads -> ThreadSlots]
      /\ thread_table' \in [Threads -> ThreadSlots]
      /\ \A u \in Threads : u # t => thread_table'[u] = thread_table[u]
  BY <1>1, <1>4 DEF SchedIInv, TypeOK, ThreadSlots
<1> HIDE DEF slot
<1>6. TypeOK'
  <2>1. task_table' \in [Tasks -> [in_use : BOOLEAN, main_thread : Threads \cup {None}]]
    BY <1>1 DEF SchedIInv, TypeOK, WithMainThread
  <2> QED
    BY <1>1, <1>2, <1>5, <2>1 DEF SchedIInv, TypeOK, ThreadSlots
<1>7. StatesTellWhoRuns'
  BY <1>2, <1>3, <1>4, <1>5 DEF SchedIInv, StatesTellWhoRuns
<1>8. QueueHoldsTheReady'
  BY <1>1, <1>2, <1>3, <1>4, <1>5, <1>6, QueueKept DEF SchedIInv, TypeOK
<1>9. SlotsInv'
  BY <1>1, <1>2, <1>3, <1>4, <1>5 DEF SchedIInv, SlotsInv
<1>10. BootInv'
  <2>1. Boot \in honoured /\ Boot # t /\ Boot \in Threads
    BY <1>2, <1>3, SchedulerAssumption DEF SchedIInv, BootInv, Boot, Threads
  <2> QED
    BY <1>1, <1>2, <1>5, <2>1 DEF SchedIInv, BootInv
<1> QED
  BY <1>6, <1>7, <1>8, <1>9, <1>10 DEF SchedIInv

LEMMA ThreadStartInv ==
    ASSUME SchedIInv, NEW t \in Threads, scdk_thread_start(t)
    PROVE  SchedIInv'
<1> DEFINE slot == MarkQueued(thread_table[t])
           b == Enqueued(run_queue, t)
<1>1. /\ t \in honoured /\ thread_table[t].state = "NEW" /\ current_thread_slot # None
      /\ ~thread_table[t].queued /\ run_queue.count < MaxThreads
      /\ thread_table' = [thread_table EXCEPT ![t] = slot] /\ run_queue' = b
      /\ UNCHANGED <<task_table, honoured_tasks, current_thread_slot, scheduler_driver_slot,
                     current_task, resume, honoured>>
  BY DEF scdk_thread_start, InOwnCode, CanEnqueue, taskVars, cpuVars
<1>2. thread_table \in [Threads -> ThreadSlots] /\ thread_table[t] \in ThreadSlots
  BY DEF SchedIInv, TypeOK, ThreadSlots
<1>3. /\ slot \in ThreadSlots /\ slot.state = "READY" /\ slot.queued
      /\ slot.in_use = thread_table[t].in_use /\ slot.task = thread_table[t].task
  BY <1>2 DEF MarkQueued, ThreadSlots, States
<1>4. /\ Sound(run_queue) /\ run_queue.count \in Nat
  BY SchedulerAssumption DEF SchedIInv, TypeOK, QueueHoldsTheReady, Sound, Queues
<1>5. /\ Sound(b) /\ b.count = run_queue.count + 1 /\ Entry(b, run_queue.count) = t
      /\ \A k \in 0 .. run_queue.count - 1 : Entry(b, k) = Entry(run_queue, k)
  BY <1>1, <1>4, PutBehind
<1> HIDE DEF slot, b
<1>6. /\ thread_table'[t] = slot /\ thread_table' \in [Threads -> ThreadSlots]
      /\ \A u \in Threads : u # t => thread_table'[u] = thread_table[u]
  BY <1>1, <1>2, <1>3
<1>7. TypeOK'
  BY <1>1, <1>5, <1>6 DEF SchedIInv, TypeOK, Sound, Queues, ThreadSlots
<1>8. StatesTellWhoRuns'
  BY <1>1, <1>3, <1>6 DEF SchedIInv, StatesTellWhoRuns
<1>9. QueueHoldsTheReady'
  <2> DEFINE c == run_queue.count
  <2>1. \A k \in 0 .. c - 1 : LET u == Entry(run_queue, k)
            IN  /\ u \in Threads /\ u # current_thread_slot /\ u # t
                /\ thread_table'[u].queued /\ thread_table'[u].state = "READY"
                /\ \A j \in 0 .. c - 1 : Entry(run_queue, j) = u => j = k
    BY <1>1, <1>6 DEF SchedIInv, QueueHoldsTheReady, QueuePositions
  <2>2. t # current_thread_slot
    BY <1>1 DEF SchedIInv, StatesTellWhoRuns
  <2>3. ASSUME NEW k \in 0 .. c
        PROVE  \/ k = c /\ Entry(b, k) = t
               \/ k \in 0 .. c - 1 /\ Entry(b, k) = Entry(run_queue, k)
    BY <1>4, <1>5
  <2>4. ASSUME NEW u \in honoured, thread_table'[u].state = "READY"
        PROVE  \E k \in 0 .. c : Entry(b, k) = u
    <3>1. CASE u = t
      BY <1>4, <1>5, <3>1
    <3>2. CASE u # t
      <4>1. thread_table[u].state = "READY"
        BY <1>6, <2>4, <3>2 DEF SchedIInv, TypeOK
      <4>2. PICK k \in 0 .. c - 1 : Entry(run_queue, k) = u
        BY <4>1 DEF SchedIInv, QueueHoldsTheReady, QueuePositions
      <4>3. k \in 0 .. c
        BY <1>4, <4>2
      <4> QED
        BY <1>5, <4>2, <4>3
    <3> QED
      BY <3>1, <3>2
  <2>5. \A k \in 0 .. c : LET u == Entry(b, k)
            IN  /\ u \in Threads /\ u # current_thread_slot
                /\ thread_table'[u].queued /\ thread_table'[u].state = "READY"
                /\ \A j \in 0 .. c : Entry(b, j) = u => j = k
    BY <1>3, <1>6, <2>1, <2>2, <2>3
  <2>6. QueuePositions' = 0 .. c /\ \A k \in 0 .. c : Entry(run_queue, k)' = Entry(b, k)
    <3>1. QueuePositions' = 0 .. b.count - 1
      BY <1>1 DEF QueuePositions
    <3>2. b.count - 1 = c
      BY <1>4, <1>5
    <3>3. \A k \in 0 .. c : Entry(run_queue, k)' = Entry(b, k)
      BY <1>1 DEF Entry
    <3> QED
      BY <3>1, <3>2, <3>3
  <2> HIDE DEF c
  <2>7. run_queue'.tail = (run_queue'.head + run_queue'.count) % MaxThreads
    BY <1>1, <1>5 DEF Sound
  <2>8. \A u \in honoured' : thread_table'[u].state = "READY" =>
            \E k \in QueuePositions' : Entry(run_queue, k)' = u
    BY <1>1, <2>4, <2>6
  <2>9. \A k \in QueuePositions' : LET u == Entry(run_queue, k)'
            IN  /\ u \in Threads /\ u # current_thread_slot'
                /\ thread_table'[u].queued /\ thread_table'[u].state = "READY"
                /\ \A j \in QueuePositions' : Entry(run_queue, j)' = u => j = k
    BY <1>1, <2>5, <2>6
  <2> QED
    BY <2>7, <2>8, <2>9 DEF QueueHoldsTheReady, Entry
<1>10. SlotsInv'
  BY <1>1, <1>3, <1>6 DEF SchedIInv, SlotsInv
<1>11. BootInv'
  <2>1. Boot \in honoured /\ Boot # t /\ Boot \in Threads
    BY <1>1, SchedulerAssumption DEF SchedIInv, BootInv, Boot, Threads
  <2> QED
    BY <1>1, <1>6, <2>1 DEF SchedIInv, BootInv
<1> QED
  BY <1>7, <1>8, <1>9, <1>10, <1>11 DEF SchedIInv

(* A step that leaves the threads, the queue and the processor alone and   *)
(* at most takes a token away, though never the boot thread's.             *)
LEMMA ThreadsKeptInv ==
    ASSUME SchedIInv, current_thread_slot # None, TypeOK',
           UNCHANGED <<thread_table, run_queue, cpuVars>>,
           honoured' \subseteq honoured, Boot \in honoured => Boot \in honoured'
    PROVE  SchedIInv'
<1>1. UNCHANGED <<current_thread_slot, scheduler_driver_slot, current_task, resume>>
  BY DEF cpuVars
<1>2. StatesTellWhoRuns'
  BY <1>1 DEF SchedIInv, StatesTellWhoRuns
<1>3. QueueHoldsTheReady'
  BY <1>1, QueueKept DEF SchedIInv
<1>4. SlotsInv'
  BY <1>1 DEF SchedIInv, SlotsInv
<1>5. BootInv'
  BY <1>1 DEF SchedIInv, BootInv
<1> QED
  BY <1>2, <1>3, <1>4, <1>5 DEF SchedIInv

LEMMA TaskCreateInv ==
    ASSUME SchedIInv, scdk_task_create
    PROVE  SchedIInv'
<1>1. TypeOK'
  BY DEF scdk_task_create, cpuVars, SchedIInv, TypeOK
<1> QED
  BY <1>1, ThreadsKeptInv DEF scdk_task_create, InOwnCode

LEMMA RevokeThreadInv ==
    ASSUME SchedIInv, NEW t \in Threads, RevokeThread(t)
    PROVE  SchedIInv'
<1>1. TypeOK'
  BY DEF RevokeThread, taskVars, cpuVars, SchedIInv, TypeOK
<1> QED
  BY <1>1, ThreadsKeptInv DEF RevokeThread, InOwnCode

LEMMA RevokeTaskInv ==
    ASSUME SchedIInv, NEW k \in Tasks, RevokeTask(k)
    PROVE  SchedIInv'
<1>1. TypeOK'
  BY DEF RevokeTask, cpuVars, SchedIInv, TypeOK
<1> QED
  BY <1>1, ThreadsKeptInv DEF RevokeTask, InOwnCode

(* scdk_scheduler_run starts and ends in the boot thread, which runs: the  *)
(* driver changes, the states do not.                                      *)
LEMMA DriverInv ==
    ASSUME SchedIInv, current_thread_slot = Boot, thread_table' = thread_table,
           \/ scheduler_driver_slot' = Boot /\ resume' = [resume EXCEPT ![Boot] = "loop"]
           \/ scheduler_driver_slot' = None /\ resume' = [resume EXCEPT ![Boot] = "own"],
           UNCHANGED <<taskVars, run_queue, current_thread_slot, current_task, honoured>>
    PROVE  SchedIInv'
<1>1. Boot \in Threads /\ None \notin Threads
  BY SchedulerAssumption DEF Boot, Threads
<1>2. TypeOK'
  BY DEF taskVars, SchedIInv, TypeOK
<1>3. scheduler_driver_slot \in {Boot, None} /\ scheduler_driver_slot' \in {Boot, None}
  BY DEF SchedIInv, TypeOK
<1>4. StatesTellWhoRuns'
  BY <1>1, <1>3 DEF SchedIInv, StatesTellWhoRuns
<1>5. QueueHoldsTheReady'
  BY <1>2, QueueKept DEF SchedIInv
<1>6. resume \in [Threads -> {"own", "loop", "ended"}]
  BY DEF SchedIInv, TypeOK
<1>7. SlotsInv'
  <2>1. \A t \in Threads : resume'[t] = "ended" => resume[t] = "ended"
    BY <1>6
  <2> QED
    BY <2>1 DEF SchedIInv, SlotsInv
<1>8. BootInv'
  <2>1. resume'[Boot] = "loop" <=> scheduler_driver_slot' = Boot
    BY <1>1, <1>6
  <2>2. current_thread_slot' # None /\ Boot \in honoured
    BY <1>1 DEF SchedIInv, BootInv
  <2> QED
    BY <1>1, <2>1, <2>2 DEF SchedIInv, BootInv
<1> QED
  BY <1>2, <1>4, <1>5, <1>7, <1>8 DEF SchedIInv

(* The driver that returns is the boot thread, which runs already.         *)
LEMMA ReturningDriverRuns ==
    ASSUME SchedIInv, RunReturns
    PROVE  thread_table' = thread_table /\ scheduler_driver_slot = Boot
<1>1. Boot \in Threads /\ None \notin Threads
  BY SchedulerAssumption DEF Boot, Threads
<1>2. scheduler_driver_slot = Boot /\ thread_table[Boot].state = "RUNNING"
  BY <1>1 DEF RunReturns, SchedIInv, BootInv, StatesTellWhoRuns
<1>3. thread_table \in [Threads -> ThreadSlots]
  BY DEF SchedIInv, TypeOK, ThreadSlots
<1>4. [thread_table[Boot] EXCEPT !.state = "RUNNING"] = thread_table[Boot]
  BY <1>1, <1>2, <1>3 DEF ThreadSlots
<1>5. thread_table' = [thread_table EXCEPT ![Boot] = [thread_table[Boot] EXCEPT !.state = "RUNNING"]]
  BY <1>2 DEF RunReturns
<1> QED
  BY <1>1, <1>2, <1>3, <1>4, <1>5

(* Every step of the scheduler preserves the invariant.                    *)
LEMMA NextSchedIInv ==
    ASSUME SchedIInv, [Next]_vars
    PROVE  SchedIInv'
<1>0. /\ None \notin Threads /\ Boot \in Threads
      /\ current_thread_slot # None => current_thread_slot \in Threads
  BY SchedulerAssumption DEF Boot, Threads, SchedIInv, TypeOK
<1>1. CASE scdk_scheduler_init
  BY <1>1, SchedulerInitInv
<1>2. CASE scdk_task_create
  BY <1>2, TaskCreateInv
<1>3. CASE \E k \in Tasks, entry \in BOOLEAN : scdk_thread_create(k, entry)
  BY <1>3, ThreadCreateInv
<1>4. CASE \E t \in Threads : scdk_thread_start(t)
  BY <1>4, ThreadStartInv
<1>5. CASE \E t \in Threads : RevokeThread(t)
  BY <1>5, RevokeThreadInv
<1>6. CASE \E k \in Tasks : RevokeTask(k)
  BY <1>6, RevokeTaskInv
<1>7. CASE \E t \in Threads : Yield(t)
  <2>1. /\ current_thread_slot \in Threads /\ resume[current_thread_slot] = "own"
        /\ scdk_yield(thread_table, "own")
    BY <1>0, <1>7 DEF Yield, InOwnCode
  <2>2. current_thread_slot = Boot => scheduler_driver_slot # Boot
    BY <1>0, <2>1 DEF SchedIInv, BootInv
  <2> QED
    BY <2>1, <2>2, AliveYieldInv
<1>8. CASE \E t \in Threads : thread_trampoline(t)
  <2>1. /\ current_thread_slot \in Threads /\ current_thread_slot # Boot
        /\ scdk_yield([thread_table EXCEPT ![current_thread_slot].state = "DEAD"], "ended")
    BY <1>8 DEF thread_trampoline
  <2> QED
    BY <2>1, DeadYieldInv
<1>9. CASE scdk_scheduler_run
  BY <1>9, DriverInv DEF scdk_scheduler_run
<1>10. CASE RunLoop
  <2>1. /\ current_thread_slot \in Threads /\ scheduler_driver_slot = Boot
        /\ scdk_yield(thread_table, "loop")
    BY <1>0, <1>10 DEF RunLoop, SchedIInv, BootInv
  <2> QED
    BY <2>1, AliveYieldInv
<1>11. CASE RunReturns
  BY <1>11, ReturningDriverRuns, DriverInv DEF RunReturns
<1>12. CASE UNCHANGED vars
  <2>1. TypeOK'
    BY <1>12 DEF vars, SchedIInv, TypeOK
  <2>2. StatesTellWhoRuns' /\ SlotsInv'
    BY <1>12 DEF vars, SchedIInv, StatesTellWhoRuns, SlotsInv
  <2>3. QueueHoldsTheReady'
    BY <1>12, <2>1, QueueKept DEF vars, SchedIInv
  <2>4. BootInv'
    BY <1>12 DEF vars, SchedIInv, BootInv
  <2> QED
    BY <2>1, <2>2, <2>3, <2>4 DEF SchedIInv
<1> QED
  BY <1>1, <1>2, <1>3, <1>4, <1>5, <1>6, <1>7, <1>8, <1>9, <1>10, <1>11, <1>12 DEF Next

-----------------------------------------------------------------------------
(* Theorems                                                                *)

(* The inductive invariant holds in every reachable state.                 *)
THEOREM SchedSpecIInv == Spec => []SchedIInv
BY InitSchedIInv, NextSchedIInv, PTL DEF Spec

(* Type correctness: the indices of the circular run queue, the slots of   *)
(* the tables and the states stay within what scheduler.c declares.        *)
THEOREM SchedulerTypeCorrect == Spec => []TypeOK
<1>1. SchedIInv => TypeOK
  BY DEF SchedIInv
<1> QED
  BY <1>1, SchedSpecIInv, PTL

(* Whatever threads are created, started, revoked and switched, exactly    *)
(* the thread that has the processor is RUNNING and exactly a driver       *)
(* without it is BLOCKED.                                                  *)
THEOREM StatesAlwaysTellWhoRuns == Spec => []StatesTellWhoRuns
<1>1. SchedIInv => StatesTellWhoRuns
  BY DEF SchedIInv
<1> QED
  BY <1>1, SchedSpecIInv, PTL

(* The run queue never loses a runnable thread and never holds one twice,  *)
(* so enqueue_thread cannot fail inside scdk_yield.                        *)
THEOREM QueueAlwaysHoldsTheReady == Spec => []QueueHoldsTheReady
<1>1. SchedIInv => QueueHoldsTheReady
  BY DEF SchedIInv
<1> QED
  BY <1>1, SchedSpecIInv, PTL

(* thread_trampoline never reaches its panic.                              *)
THEOREM DeadAreNeverResumed == Spec => []DeadNeverResumed
<1>1. SchedIInv => DeadNeverResumed
  <2> SUFFICES ASSUME SchedIInv, current_thread_slot # None,
                      resume[current_thread_slot] = "ended"
               PROVE  FALSE
    BY DEF DeadNeverResumed
  <2>1. current_thread_slot \in Threads
    BY DEF SchedIInv, TypeOK
  <2> QED
    BY <2>1 DEF SchedIInv, StatesTellWhoRuns, SlotsInv
<1> QED
  BY <1>1, SchedSpecIInv, PTL

(* scdk_scheduler_run returns only in the boot thread and only when every  *)
(* thread that was started and not revoked has ended.                      *)
THEOREM RunsReturnWhenDone == Spec => RunReturnsWhenDone
<1> DEFINE Return == scheduler_driver_slot # None /\ scheduler_driver_slot' = None =>
                         /\ current_thread_slot' = Boot
                         /\ \A t \in honoured \ {Boot} :
                                thread_table[t].state \in {"NEW", "DEAD"}
<1>1. ASSUME SchedIInv, [Next]_vars PROVE Return
  <2> SUFFICES ASSUME scheduler_driver_slot # None, scheduler_driver_slot' = None
               PROVE  /\ current_thread_slot' = Boot
                      /\ \A t \in honoured \ {Boot} :
                             thread_table[t].state \in {"NEW", "DEAD"}
    OBVIOUS
  <2>1. Boot # None
    BY SchedulerAssumption DEF Boot, Threads
  <2>2. RunReturns
    BY <1>1, <2>1 DEF Next, vars, scdk_scheduler_init, scdk_task_create, scdk_thread_create,
                      scdk_thread_start, RevokeThread, RevokeTask, Yield, thread_trampoline,
                      scdk_yield, scdk_scheduler_run, RunLoop, cpuVars
  <2>3. /\ current_thread_slot = Boot /\ current_thread_slot' = Boot
        /\ run_queue.count = 0 /\ scheduler_driver_slot = Boot
    BY <1>1, <2>2, ReturningDriverRuns DEF RunReturns
  <2>4. ASSUME NEW t \in honoured \ {Boot} PROVE thread_table[t].state \in {"NEW", "DEAD"}
    <3>1. t \in Threads /\ thread_table[t].state \in States
      BY <1>1 DEF SchedIInv, TypeOK
    <3>2. thread_table[t].state \notin {"RUNNING", "BLOCKED"}
      BY <1>1, <2>3, <3>1 DEF SchedIInv, StatesTellWhoRuns
    <3>3. thread_table[t].state # "READY"
      <4>1. QueuePositions = {}
        BY <2>3 DEF QueuePositions
      <4> QED
        BY <1>1, <4>1 DEF SchedIInv, QueueHoldsTheReady
    <3>4. thread_table[t].state # "NONE"
      BY <1>1, <3>1 DEF SchedIInv, SlotsInv
    <3> QED
      BY <3>1, <3>2, <3>3, <3>4 DEF States
  <2> QED
    BY <2>3, <2>4
<1>2. SchedIInv /\ [Next]_vars => [Return]_vars
  BY <1>1
<1> QED
  BY <1>2, SchedSpecIInv, PTL DEF Spec, RunReturnsWhenDone

(* Every switch brings each thread that stays on the queue nearer to its   *)
(* head, for queues of any size and across the end of the array.           *)
THEOREM ThreadsAlwaysTakeTurns == Spec => ThreadsTakeTurns
<1> DEFINE Turn == current_thread_slot' \notin {None, current_thread_slot} =>
                       \A k \in QueuePositions, j \in QueuePositions' :
                           Entry(run_queue, k) = Entry(run_queue', j)
                           /\ current_thread_slot # Entry(run_queue, k) => j < k
<1>1. ASSUME SchedIInv, [Next]_vars PROVE Turn
  <2> SUFFICES ASSUME current_thread_slot' \notin {None, current_thread_slot},
                      NEW k \in QueuePositions, NEW j \in QueuePositions',
                      Entry(run_queue, k) = Entry(run_queue', j),
                      current_thread_slot # Entry(run_queue, k)
               PROVE  j < k
    OBVIOUS
  <2>1. \/ scdk_scheduler_init
        \/ \E t \in Threads : Yield(t)
        \/ \E t \in Threads : thread_trampoline(t)
        \/ RunLoop
    BY <1>1 DEF Next, vars, scdk_task_create, scdk_thread_create, scdk_thread_start,
                RevokeThread, RevokeTask, scdk_scheduler_run, RunReturns, cpuVars
  <2>2. ~scdk_scheduler_init
    <3>1. scdk_scheduler_init => QueuePositions = {}
      BY <1>1 DEF scdk_scheduler_init, SchedIInv, BootInv, QueuePositions
    <3> QED
      BY <3>1
  <2>3. current_thread_slot \in Threads
    <3>1. Boot \in Threads
      BY SchedulerAssumption DEF Boot, Threads
    <3> QED
      BY <2>1, <2>2, <3>1 DEF Yield, thread_trampoline, RunLoop
  <2>4. \E table, then : /\ CallersTable(table) /\ scdk_yield(table, then)
    <3> DEFINE cur == current_thread_slot
               dead == [thread_table EXCEPT ![cur].state = "DEAD"]
    <3>1. /\ thread_table \in [Threads -> ThreadSlots] /\ thread_table[cur].state = "RUNNING"
          /\ ~thread_table[cur].queued
      BY <1>1, <2>3 DEF SchedIInv, TypeOK, ThreadSlots, StatesTellWhoRuns, SlotsInv
    <3>2. CallersTable(thread_table)
      BY <3>1 DEF CallersTable
    <3>3. CallersTable(dead)
      <4>1. [thread_table[cur] EXCEPT !.state = "DEAD"] \in ThreadSlots
        BY <2>3, <3>1 DEF ThreadSlots, States
      <4> QED
        BY <2>3, <3>1, <4>1 DEF CallersTable, ThreadSlots
    <3>4. \/ scdk_yield(thread_table, "own") \/ scdk_yield(thread_table, "loop")
          \/ scdk_yield(dead, "ended")
      BY <2>1, <2>2 DEF Yield, thread_trampoline, RunLoop
    <3> HIDE DEF dead
    <3> QED
      BY <3>2, <3>3, <3>4
  <2>5. PICK table, then : CallersTable(table) /\ scdk_yield(table, then)
    BY <2>4
  <2> DEFINE D == Dequeued(table, run_queue)
             cur == current_thread_slot
  <2>6. /\ Sound(D) /\ D.count \in Nat /\ D.count < MaxThreads
        /\ \A i \in 0 .. D.count - 1, m \in 0 .. run_queue.count - 1 :
               Entry(run_queue, m) = Entry(D, i) => i < m
    BY <1>1, <2>3, <2>5, AfterDequeue
  <2>7. run_queue' = D \/ run_queue' = Enqueued(D, cur)
    BY <2>5 DEF scdk_yield, YieldReturns, YieldBlocks, YieldRequeues, YieldAbandons
  <2> HIDE DEF D
  <2>8. CASE run_queue' = D
    BY <2>6, <2>8 DEF QueuePositions
  <2>9. CASE run_queue' = Enqueued(D, cur)
    <3> DEFINE b == Enqueued(D, cur)
    <3>1. /\ b.count = D.count + 1 /\ Entry(b, D.count) = cur
          /\ \A i \in 0 .. D.count - 1 : Entry(b, i) = Entry(D, i)
      BY <2>3, <2>6, PutBehind
    <3> HIDE DEF b
    <3>2. j \in 0 .. b.count - 1 /\ Entry(b, j) = Entry(run_queue, k)
      BY <2>9 DEF QueuePositions, b
    <3>3. j # D.count
      BY <3>1, <3>2
    <3>4. j \in 0 .. D.count - 1
      BY <2>6, <3>1, <3>2, <3>3
    <3> QED
      BY <2>6, <3>1, <3>2, <3>4 DEF QueuePositions
  <2> QED
    BY <2>7, <2>8, <2>9
<1>2. SchedIInv /\ [Next]_vars => [Turn]_vars
  BY <1>1
<1> QED
  BY <1>2, SchedSpecIInv, PTL DEF Spec, ThreadsTakeTurns

=============================================================================
