--------------------------- MODULE UserRingProofs ---------------------------
(***************************************************************************)
(* Proofs about UserRing: what a submit call and the console service may   *)
(* rely on, for every ring size that divides the counters' modulus, every  *)
(* set of batches, and every way in which copies, writes and revocations   *)
(* can fail.                                                               *)
(***************************************************************************)
EXTENDS UserRing, RingProofs

-----------------------------------------------------------------------------
(* The inductive invariant                                                 *)

\* The types of the call's own variables.
CallTypes ==
    /\ target_endpoint \in Endpoints \cup {NoToken}
    /\ pc \in {"idle", "copy", "serve", "complete", "poll"}
    /\ batch \in Batches \cup {<<>>} /\ done \in 0 .. MaxEntries
    /\ op_status \in {NoStatus, "ok", "error"}

\* Only what was submitted and completed is ever read from the arrays.
QueueTypes == SubmitQueue \in Seq(Descs) /\ CompleteQueue \in Seq(Completions)

\* The two records of the binding agree; nothing is revoked during a call.
Bindings ==
    /\ entries # 0 => target_endpoint = bound_target
    /\ pc # "idle" => ring_lookup
    /\ pc \in {"serve", "complete"} => bound_target \in live

\* How far a batch has come, and what of it is on the ring.
Progress ==
    /\ pc \in {"copy", "serve", "complete"} =>
           batch \in Batches /\ Len(batch) <= MaxEntries /\ done <= Len(batch)
    /\ pc = "copy" => Len(SubmitQueue) >= done
    /\ pc = "serve" => Len(SubmitQueue) >= Len(batch) - done
    /\ pc = "complete" => /\ Len(SubmitQueue) + 1 >= Len(batch) - done
                          /\ done < Len(batch)
                          /\ out_desc \in Descs /\ op_status \in {"ok", "error"}

\* The service has written a success for each descriptor it is done with.
Successes ==
    pc \in {"serve", "complete"} =>
        /\ Len(CompleteQueue) >= done
        /\ \A k \in 1 .. done : CompleteQueue[Len(CompleteQueue) - k + 1][2] = "ok"

\* Operations that will need room for a completion and are not on the ring.
Coming == IF pc = "copy" THEN Len(batch) - done
          ELSE IF pc = "complete" THEN 1 ELSE 0

\* A careful task has room for the completion of everything outstanding.
Room ==
    careful => /\ owed = FALSE
               /\ Len(SubmitQueue) + Len(CompleteQueue) + Coming <= entries

UrIInv ==
    IInv /\ CallTypes /\ QueueTypes /\ Bindings /\ Progress /\ Successes /\ Room

-----------------------------------------------------------------------------
(* The ring as the calls see it                                            *)

(* The counters give the lengths of the queues.                            *)
LEMMA CountsAreLengths ==
    IInv => Submitted = Len(SubmitQueue) /\ Completed = Len(CompleteQueue)
BY ContentsLen DEF IInv, TypeOK, Submitted, Completed, SubmitQueue, CompleteQueue

(* A step that leaves the ring's variables alone leaves its queues alone.  *)
LEMMA Quiet ==
    ASSUME UNCHANGED vars
    PROVE  UNCHANGED <<SubmitQueue, CompleteQueue, entries, bound_target, live, out_desc>>
BY DEF vars, ctlVars, sqVars, cqVars, SubmitQueue, CompleteQueue, Contents, Index, queue_count

(* Binding and revocation do so as well.                                   *)
LEMMA SameQueues ==
    ASSUME UNCHANGED <<entries, sqVars, cqVars>>
    PROVE  UNCHANGED <<SubmitQueue, CompleteQueue, out_desc>>
BY DEF sqVars, cqVars, SubmitQueue, CompleteQueue, Contents, Index, queue_count

(* scdk_ring_create makes two empty queues.                                *)
LEMMA CreateQueues ==
    ASSUME SizesDivide, IInv, NEW n \in Sizes, scdk_ring_create(n, NoToken)
    PROVE  /\ entries = 0 /\ entries' = n
           /\ UNCHANGED <<SubmitQueue, CompleteQueue, out_desc>>
<1>1. Q!QCreate(n)
  BY QueueSteps
<1> QED
  BY <1>1 DEF Q!QCreate, SubmitQueue, CompleteQueue

(* scdk_ring_submit appends.                                               *)
LEMMA SubmitQueues ==
    ASSUME SizesDivide, IInv, NEW d \in Descs, scdk_ring_submit(d)
    PROVE  /\ SubmitQueue' = Append(SubmitQueue, d)
           /\ Len(SubmitQueue) < entries
           /\ UNCHANGED <<CompleteQueue, entries, bound_target, live, out_desc>>
<1>1. Q!QSubmit(d)
  BY QueueSteps
<1>2. UNCHANGED <<entries, bound_target, live>>
  BY DEF scdk_ring_submit, ctlVars
<1> QED
  BY <1>1, <1>2 DEF Q!QSubmit, SubmitQueue, CompleteQueue

(* scdk_ring_consume takes the oldest descriptor.                          *)
LEMMA ConsumeQueues ==
    ASSUME SizesDivide, IInv, scdk_ring_consume
    PROVE  /\ SubmitQueue # <<>>
           /\ SubmitQueue' = Tail(SubmitQueue) /\ out_desc' = Head(SubmitQueue)
           /\ UNCHANGED <<CompleteQueue, entries, bound_target, live>>
<1>1. Q!QConsume
  BY QueueSteps
<1>2. UNCHANGED <<entries, bound_target, live>>
  BY DEF scdk_ring_consume, ctlVars
<1> QED
  BY <1>1, <1>2 DEF Q!QConsume, SubmitQueue, CompleteQueue

(* scdk_ring_complete appends.                                             *)
LEMMA CompleteQueues ==
    ASSUME SizesDivide, IInv, NEW c \in Completions, scdk_ring_complete(c)
    PROVE  /\ CompleteQueue' = Append(CompleteQueue, c)
           /\ UNCHANGED <<SubmitQueue, entries, bound_target, live, out_desc>>
<1>1. Q!QComplete(c)
  BY QueueSteps
<1>2. UNCHANGED <<entries, bound_target, live>>
  BY DEF scdk_ring_complete, ctlVars
<1> QED
  BY <1>1, <1>2 DEF Q!QComplete, SubmitQueue, CompleteQueue

(* scdk_ring_poll takes the oldest completion.                             *)
LEMMA PollQueues ==
    ASSUME SizesDivide, IInv, scdk_ring_poll
    PROVE  /\ CompleteQueue # <<>> /\ CompleteQueue' = Tail(CompleteQueue)
           /\ UNCHANGED <<SubmitQueue, entries, bound_target, live, out_desc>>
<1>1. Q!QPoll
  BY QueueSteps
<1>2. UNCHANGED <<entries, bound_target, live>>
  BY DEF scdk_ring_poll, ctlVars
<1> QED
  BY <1>1, <1>2 DEF Q!QPoll, SubmitQueue, CompleteQueue
-----------------------------------------------------------------------------
(* The invariant is inductive                                              *)

(* It holds before the first call.                                         *)
LEMMA InitUrIInv == UrInit => UrIInv
<1> SUFFICES ASSUME UrInit PROVE UrIInv
  OBVIOUS
<1>1. IInv
  BY InitIInv DEF UrInit
<1>2. SubmitQueue = <<>> /\ CompleteQueue = <<>>
  BY QueuesInit DEF UrInit, Q!QInit, SubmitQueue, CompleteQueue
<1>3. CallTypes /\ Bindings
  BY RingAssumption DEF UrInit, Init, CallTypes, Bindings
<1>4. QueueTypes /\ Progress /\ Successes /\ Room
  BY <1>2 DEF UrInit, Init, QueueTypes, Progress, Successes, Room, Coming
<1> QED
  BY <1>1, <1>3, <1>4 DEF UrIInv

(* Every call and every step of the kernel acts on the ring through the    *)
(* operations of ring.c, so the ring keeps its own invariant.              *)
LEMMA RingSteps ==
    ASSUME UrIInv, [UrNext]_allVars
    PROVE  [Next]_vars
<1>1. ASSUME NEW n \in Sizes, scdk_user_ring_create(n) PROVE [Next]_vars
  BY <1>1 DEF scdk_user_ring_create, Next
<1>2. ASSUME NEW t \in Endpoints, scdk_user_ring_bind(t) PROVE [Next]_vars
  BY <1>2 DEF scdk_user_ring_bind, Next
<1>3. ASSUME Call PROVE [Next]_vars
  BY <1>3 DEF Call, scdk_user_ring_submit, scdk_user_ring_poll
<1>4. ASSUME SubmitLoop PROVE [Next]_vars
  <2>1. batch[done + 1] \in Descs
    <3>1. batch \in Seq(Descs) /\ done + 1 \in 1 .. Len(batch)
      BY <1>4, UserRingAssumption, RingAssumption
         DEF SubmitLoop, UrIInv, CallTypes, Progress
    <3> QED
      BY <3>1
  <2> QED
    BY <1>4, <2>1 DEF SubmitLoop, Next
<1>5. ASSUME SubmitKicks PROVE [Next]_vars
  BY <1>5 DEF SubmitKicks
<1>6. ASSUME ServiceConsumes PROVE [Next]_vars
  BY <1>6 DEF ServiceConsumes, Next
<1>7. ASSUME ServiceCompletes PROVE [Next]_vars
  <2>1. <<out_desc, op_status>> \in Completions
    BY <1>7, UserRingAssumption DEF ServiceCompletes, UrIInv, Progress
  <2> QED
    BY <1>7, <2>1 DEF ServiceCompletes, Next
<1>8. ASSUME ServiceReturns PROVE [Next]_vars
  BY <1>8 DEF ServiceReturns
<1>9. ASSUME PollLoop PROVE [Next]_vars
  BY <1>9 DEF PollLoop, Next
<1>10. ASSUME NEW t \in Endpoints \cup {RingToken}, RevokeToken(t) PROVE [Next]_vars
  BY <1>10 DEF RevokeToken, Next
<1>11. ASSUME RevokeTask PROVE [Next]_vars
  BY <1>11 DEF RevokeTask
<1>12. ASSUME UNCHANGED allVars PROVE [Next]_vars
  BY <1>12 DEF allVars
<1> QED
  BY <1>1, <1>2, <1>3, <1>4, <1>5, <1>6, <1>7, <1>8, <1>9, <1>10, <1>11, <1>12
     DEF UrNext, Kernel

(* Every step preserves the invariant.                                     *)
LEMMA NextUrIInv ==
    ASSUME SizesDivide, UrIInv, [UrNext]_allVars
    PROVE  UrIInv'
<1> USE DEF UrIInv
<1>0. IInv'
  BY RingSteps, NextIInv
<1>a. Submitted = Len(SubmitQueue) /\ Completed = Len(CompleteQueue)
  BY CountsAreLengths
<1>b. /\ Len(SubmitQueue) \in Nat /\ Len(CompleteQueue) \in Nat /\ entries \in Nat
      /\ \A b \in Batches : Len(b) \in Nat
  BY UserRingAssumption, RingAssumption DEF QueueTypes, IInv, TypeOK
<1>1. ASSUME NEW n \in Sizes, scdk_user_ring_create(n) PROVE UrIInv'
  <2>1. /\ entries = 0 /\ entries' = n
        /\ UNCHANGED <<SubmitQueue, CompleteQueue, out_desc>>
    BY <1>1, CreateQueues DEF scdk_user_ring_create
  <2>2. pc = "idle" /\ UNCHANGED <<callVars, careful, owed>> /\ target_endpoint' = NoToken
    BY <1>1 DEF scdk_user_ring_create
  <2>3. bound_target' = NoToken /\ n >= 0
    BY <1>1, RingAssumption DEF scdk_user_ring_create, scdk_ring_create
  <2> QED
    BY <1>0, <1>b, <2>1, <2>2, <2>3
       DEF callVars, CallTypes, QueueTypes, Bindings, Progress, Successes, Room, Coming
<1>2. ASSUME NEW t \in Endpoints, scdk_user_ring_bind(t) PROVE UrIInv'
  <2>1. UNCHANGED <<SubmitQueue, CompleteQueue, out_desc, entries>> /\ bound_target' = t
    BY <1>2, SameQueues DEF scdk_user_ring_bind, scdk_ring_bind_target
  <2>2. pc = "idle" /\ UNCHANGED <<callVars, careful, owed>> /\ target_endpoint' = t
    BY <1>2 DEF scdk_user_ring_bind
  <2> QED
    BY <1>0, <2>1, <2>2
       DEF callVars, CallTypes, QueueTypes, Bindings, Progress, Successes, Room, Coming
<1>3. ASSUME NEW b \in Batches, scdk_user_ring_submit(b) PROVE UrIInv'
  <2>1. UNCHANGED <<SubmitQueue, CompleteQueue, entries, bound_target, live, out_desc>>
    BY <1>3, Quiet DEF scdk_user_ring_submit
  <2>2. ring_lookup /\ pc = "idle" /\ Len(b) \in 1 .. MaxEntries
    BY <1>3 DEF scdk_user_ring_submit, CallAccepted, user_ring_slot_for,
                validate_count, ring_lookup
  <2>3. /\ pc' = "copy" /\ batch' = b /\ done' = 0
        /\ careful' = (careful /\ Submitted + Completed + Len(b) <= entries)
        /\ UNCHANGED <<slotVars, op_status, owed>>
    BY <1>3 DEF scdk_user_ring_submit
  <2>4. careful' => /\ careful
                    /\ Len(SubmitQueue) + Len(CompleteQueue) + Len(b) <= entries
    BY <1>a, <2>3
  <2>5. Room'
    BY <1>b, <2>1, <2>3, <2>4 DEF Room, Coming
  <2>6. CallTypes' /\ Bindings'
    BY <2>1, <2>2, <2>3, RingAssumption DEF slotVars, CallTypes, Bindings, ring_lookup
  <2>7. QueueTypes' /\ Progress' /\ Successes'
    BY <1>b, <2>1, <2>2, <2>3, RingAssumption DEF QueueTypes, Progress, Successes
  <2> QED
    BY <1>0, <2>5, <2>6, <2>7
<1>4. ASSUME NEW n \in Sizes, scdk_user_ring_poll(n) PROVE UrIInv'
  <2>1. UNCHANGED <<SubmitQueue, CompleteQueue, entries, bound_target, live, out_desc>>
    BY <1>4, Quiet DEF scdk_user_ring_poll
  <2>2. ring_lookup /\ pc = "idle" /\ n \in 0 .. MaxEntries
    BY <1>4, RingAssumption DEF scdk_user_ring_poll, CallAccepted, user_ring_slot_for,
                validate_count, ring_lookup
  <2>3. pc' = "poll" /\ done' = n /\ UNCHANGED <<slotVars, batch, op_status, owed, careful>>
    BY <1>4 DEF scdk_user_ring_poll
  <2> QED
    BY <1>0, <2>1, <2>2, <2>3
       DEF slotVars, CallTypes, QueueTypes, Bindings, Progress, Successes, Room, Coming, ring_lookup
\* The end of a call.
<1>5. ASSUME Return, QueueTypes',
             UNCHANGED <<slotVars, entries, bound_target, live>>,
             careful' => /\ careful /\ owed' = FALSE
                         /\ Len(SubmitQueue') + Len(CompleteQueue') <= entries
      PROVE  UrIInv'
  <2>1. CallTypes' /\ Bindings' /\ Progress' /\ Successes'
    BY <1>5, RingAssumption DEF Return, slotVars, CallTypes, Bindings, Progress, Successes
  <2>2. pc' = "idle" /\ QueueTypes' /\ entries' = entries
    BY <1>5 DEF Return
  <2>3. Room'
    BY <1>5, <1>b, <2>2 DEF Room, Coming, QueueTypes
  <2> QED
    BY <1>0, <1>5, <2>1, <2>3
\* ... without a last operation on the ring.
<1>6. ASSUME Return, UNCHANGED vars,
             UNCHANGED <<slotVars, careful>>, careful => owed' = FALSE
      PROVE  UrIInv'
  <2>1. UNCHANGED <<SubmitQueue, CompleteQueue, entries, bound_target, live>>
    BY <1>6, Quiet
  <2>2. Coming >= 0
    BY <1>b, UserRingAssumption, RingAssumption DEF Coming, Progress, CallTypes
  <2>3. Coming \in Int
    BY <1>b, UserRingAssumption, RingAssumption DEF Coming, Progress, CallTypes
  <2>4. careful => Len(SubmitQueue) + Len(CompleteQueue) <= entries
    BY <1>b, <2>2, <2>3 DEF Room
  <2>5. QueueTypes'
    BY <2>1 DEF QueueTypes
  <2> QED
    BY <1>5, <1>6, <2>1, <2>4, <2>5
<1>7. ASSUME SubmitLoop PROVE UrIInv'
  <2>1. pc = "copy" /\ done < Len(batch) /\ UNCHANGED <<slotVars, owed, careful>>
    BY <1>7 DEF SubmitLoop
  <2>2. CASE Return /\ UNCHANGED vars
    BY <1>6, <2>1, <2>2 DEF Room
  <2>3. CASE scdk_ring_submit(batch[done + 1]) /\ done' = done + 1 /\ Goto("copy")
    <3>1. /\ batch \in Batches /\ Len(batch) \in Nat /\ done + 1 \in 1 .. Len(batch)
          /\ Len(batch) <= MaxEntries /\ Len(SubmitQueue) >= done
      BY <1>b, <2>1, RingAssumption DEF Progress, CallTypes
    <3>2. batch[done + 1] \in Descs
      BY <3>1, UserRingAssumption
    <3>3. /\ SubmitQueue' = Append(SubmitQueue, batch[done + 1])
          /\ UNCHANGED <<CompleteQueue, entries, bound_target, live, out_desc>>
      BY <2>3, <3>2, SubmitQueues
    <3>4. SubmitQueue' \in Seq(Descs) /\ Len(SubmitQueue') = Len(SubmitQueue) + 1
      BY <3>2, <3>3 DEF QueueTypes
    <3>5. CallTypes' /\ QueueTypes' /\ Bindings'
      BY <2>1, <2>3, <3>1, <3>3, <3>4, RingAssumption
         DEF Goto, slotVars, CallTypes, QueueTypes, Bindings, ring_lookup
    <3>6. Progress' /\ Successes'
      BY <1>b, <2>1, <2>3, <3>1, <3>4, RingAssumption DEF Goto, Progress, Successes, CallTypes
    <3>7. Room'
      BY <1>b, <2>1, <2>3, <3>1, <3>3, <3>4, RingAssumption DEF Goto, Room, Coming, CallTypes
    <3> QED
      BY <1>0, <3>5, <3>6, <3>7
  <2> QED
    BY <1>7, <2>2, <2>3 DEF SubmitLoop
<1>8. ASSUME SubmitKicks PROVE UrIInv'
  <2>1. /\ pc = "copy" /\ done = Len(batch)
        /\ UNCHANGED <<vars, slotVars, owed, careful>>
    BY <1>8 DEF SubmitKicks
  <2>2. CASE Return
    BY <1>6, <2>1, <2>2 DEF Room
  <2>3. CASE /\ ring_process_accepted(target_endpoint, Len(batch))
             /\ done' = 0 /\ Goto("serve")
    <3>1. UNCHANGED <<SubmitQueue, CompleteQueue, entries, bound_target, live, out_desc>>
      BY <2>1, Quiet
    <3>2. bound_target \in live
      BY <2>3, UserRingAssumption, RingAssumption
         DEF ring_process_accepted, scdk_ring_bound_target
    <3>3. CallTypes' /\ QueueTypes' /\ Bindings'
      BY <2>1, <2>3, <3>1, <3>2, RingAssumption
         DEF Goto, slotVars, CallTypes, QueueTypes, Bindings, ring_lookup
    <3>4. Progress' /\ Successes'
      BY <1>b, <2>1, <2>3, <3>1, RingAssumption DEF Goto, Progress, Successes
    <3>5. Room'
      BY <1>b, <2>1, <2>3, <3>1, RingAssumption DEF Goto, Room, Coming, CallTypes
    <3> QED
      BY <1>0, <3>3, <3>4, <3>5
  <2> QED
    BY <1>8, <2>2, <2>3 DEF SubmitKicks
<1>9. ASSUME ServiceConsumes PROVE UrIInv'
  <2>1. /\ pc = "serve" /\ done < Len(batch) /\ pc' = "complete"
        /\ op_status' \in console_write_results(out_desc')
        /\ UNCHANGED <<batch, done, slotVars, owed, careful>>
    BY <1>9 DEF ServiceConsumes
  <2>2. /\ SubmitQueue # <<>>
        /\ SubmitQueue' = Tail(SubmitQueue) /\ out_desc' = Head(SubmitQueue)
        /\ UNCHANGED <<CompleteQueue, entries, bound_target, live>>
    BY <1>9, ConsumeQueues DEF ServiceConsumes
  <2>3. /\ SubmitQueue' \in Seq(Descs) /\ Len(SubmitQueue') = Len(SubmitQueue) - 1
        /\ out_desc' \in Descs
    BY <2>2 DEF QueueTypes
  <2>4. op_status' \in {"ok", "error"}
    BY <2>1 DEF console_write_results
  <2>5. CallTypes' /\ QueueTypes' /\ Bindings'
    BY <2>1, <2>2, <2>3, <2>4
       DEF slotVars, CallTypes, QueueTypes, Bindings, ring_lookup
  <2>6. batch \in Batches /\ Len(batch) \in Nat /\ done \in Nat
    BY <1>b, <2>1, RingAssumption DEF Progress, CallTypes
  <2>7. Progress'
    BY <1>b, <2>1, <2>3, <2>4, <2>6 DEF Progress
  <2>8. Successes' /\ Room'
    BY <1>b, <2>1, <2>2, <2>3 DEF Successes, Room, Coming
  <2> QED
    BY <1>0, <2>5, <2>7, <2>8
<1>10. ASSUME ServiceCompletes PROVE UrIInv'
  <2>1. /\ pc = "complete" /\ UNCHANGED <<slotVars, careful>>
        /\ batch \in Batches /\ Len(batch) \in Nat /\ done \in Nat /\ done < Len(batch)
        /\ Len(batch) <= MaxEntries /\ out_desc \in Descs /\ op_status \in {"ok", "error"}
    BY <1>10, <1>b, RingAssumption DEF ServiceCompletes, Progress, CallTypes
  <2>2. CASE Completed = entries /\ owed' = TRUE /\ Return /\ UNCHANGED vars
    <3>1. ~careful
      BY <1>a, <1>b, <2>1, <2>2 DEF Room, Coming
    <3> QED
      BY <1>6, <2>1, <2>2, <3>1
  <2>3. CASE /\ scdk_ring_complete(<<out_desc, op_status>>)
             /\ UNCHANGED owed
    <3> DEFINE c == <<out_desc, op_status>>
    <3>1. c \in Completions
      BY <2>1, UserRingAssumption
    <3>2. /\ CompleteQueue' = Append(CompleteQueue, c)
          /\ UNCHANGED <<SubmitQueue, entries, bound_target, live, out_desc>>
      BY <2>3, <3>1, CompleteQueues
    <3>3. /\ CompleteQueue' \in Seq(Completions)
          /\ Len(CompleteQueue') = Len(CompleteQueue) + 1
          /\ CompleteQueue'[Len(CompleteQueue) + 1] = c
          /\ \A k \in 1 .. Len(CompleteQueue) : CompleteQueue'[k] = CompleteQueue[k]
      <4> HIDE DEF c
      <4> QED
        BY <3>1, <3>2 DEF QueueTypes
    <3>4. QueueTypes'
      BY <3>2, <3>3 DEF QueueTypes
    <3>5. careful => /\ owed' = FALSE
                     /\ Len(SubmitQueue') + Len(CompleteQueue') <= entries
      BY <1>b, <2>1, <2>3, <3>2, <3>3 DEF Room, Coming
    <3>6. CASE Return
      BY <1>5, <2>1, <3>2, <3>4, <3>5, <3>6
    <3>7. CASE /\ op_status = "ok" /\ done' = done + 1 /\ pc' = "serve"
               /\ op_status' = NoStatus /\ UNCHANGED batch
      <4>1. CallTypes' /\ Bindings'
        BY <2>1, <3>2, <3>7, RingAssumption DEF slotVars, CallTypes, Bindings, ring_lookup
      <4>2. Progress'
        BY <1>b, <2>1, <3>2, <3>7 DEF Progress
      <4>3. Room'
        BY <1>b, <2>1, <3>2, <3>5, <3>7 DEF Room, Coming
      <4>4. Successes'
        <5> DEFINE n == Len(CompleteQueue)
        <5>1. n \in Nat /\ n >= done /\ Len(CompleteQueue') = n + 1
              /\ \A k \in 1 .. done : CompleteQueue[n - k + 1][2] = "ok"
          BY <1>b, <2>1, <3>3 DEF Successes
        <5>2. CompleteQueue'[n + 1][2] = "ok"
          BY <3>3, <3>7
        <5>3. \A k \in 1 .. n : CompleteQueue'[k] = CompleteQueue[k]
          BY <3>3
        <5> HIDE DEF n
        <5>4. ASSUME NEW k \in 1 .. done + 1
              PROVE  CompleteQueue'[(n + 1) - k + 1][2] = "ok"
          <6>1. CASE k = 1
            BY <5>1, <5>2, <6>1
          <6>2. CASE k # 1
            <7> DEFINE j == k - 1
            <7>1. j \in 1 .. done /\ n - j + 1 \in 1 .. n /\ (n + 1) - k + 1 = n - j + 1
              BY <2>1, <5>1, <6>2
            <7> HIDE DEF j
            <7> QED
              BY <5>1, <5>3, <7>1
          <6> QED
            BY <6>1, <6>2
        <5> QED
          BY <2>1, <3>7, <5>1, <5>4 DEF Successes
      <4> QED
        BY <1>0, <3>4, <4>1, <4>2, <4>3, <4>4
    <3> QED
      BY <1>10, <2>3, <3>6, <3>7, <2>2 DEF ServiceCompletes
  <2> QED
    BY <1>10, <2>2, <2>3 DEF ServiceCompletes
<1>11. ASSUME ServiceReturns PROVE UrIInv'
  BY <1>6, <1>11 DEF ServiceReturns, Room
<1>12. ASSUME PollLoop PROVE UrIInv'
  <2>1. pc = "poll" /\ UNCHANGED slotVars /\ Coming = 0
    BY <1>12 DEF PollLoop, Coming
  <2>2. CASE Return /\ UNCHANGED <<vars, owed, careful>>
    BY <1>6, <2>1, <2>2 DEF Room
  <2>3. CASE done > 0 /\ scdk_ring_poll
    <3>1. /\ CompleteQueue # <<>> /\ CompleteQueue' = Tail(CompleteQueue)
          /\ UNCHANGED <<SubmitQueue, entries, bound_target, live, out_desc>>
      BY <2>3, PollQueues
    <3>2. /\ CompleteQueue' \in Seq(Completions)
          /\ Len(CompleteQueue') = Len(CompleteQueue) - 1
      BY <3>1 DEF QueueTypes
    <3>3. QueueTypes'
      BY <3>1, <3>2 DEF QueueTypes
    <3>4. CASE Return /\ owed' = TRUE /\ careful' = FALSE
      BY <1>5, <2>1, <3>1, <3>3, <3>4
    <3>5. CASE done' = done - 1 /\ Goto("poll") /\ UNCHANGED <<owed, careful>>
      <4>1. CallTypes' /\ Bindings'
        BY <2>1, <2>3, <3>1, <3>5, RingAssumption
           DEF Goto, slotVars, CallTypes, Bindings, ring_lookup
      <4>2. Progress' /\ Successes'
        BY <3>5 DEF Goto, Progress, Successes
      <4>3. Room'
        BY <1>b, <2>1, <3>1, <3>2, <3>5 DEF Goto, Room, Coming
      <4> QED
        BY <1>0, <3>3, <4>1, <4>2, <4>3
    <3> QED
      BY <1>12, <2>2, <2>3, <3>4, <3>5 DEF PollLoop
  <2> QED
    BY <1>12, <2>2, <2>3 DEF PollLoop
\* A step between two calls that leaves the queues alone.
<1>13. ASSUME pc = "idle", UNCHANGED <<callVars, target_endpoint, owed, careful>>,
              UNCHANGED <<entries, sqVars, cqVars, bound_target>>
       PROVE  UrIInv'
  <2>1. UNCHANGED <<SubmitQueue, CompleteQueue, out_desc>>
    BY <1>13, SameQueues
  <2> QED
    BY <1>0, <1>13, <2>1
       DEF callVars, CallTypes, QueueTypes, Bindings, Progress, Successes, Room, Coming
<1>14. ASSUME NEW t \in Endpoints \cup {RingToken}, RevokeToken(t) PROVE UrIInv'
  BY <1>13, <1>14 DEF RevokeToken, Revoke, urVars, slotVars
<1>15. ASSUME RevokeTask PROVE UrIInv'
  BY <1>13, <1>15 DEF RevokeTask, vars, ctlVars
<1>16. ASSUME UNCHANGED allVars PROVE UrIInv'
  <2>1. UNCHANGED <<SubmitQueue, CompleteQueue, entries, bound_target, live, out_desc>>
    BY <1>16, Quiet DEF allVars
  <2> QED
    BY <1>0, <1>16, <2>1
       DEF allVars, urVars, callVars, slotVars, CallTypes, QueueTypes, Bindings,
           ring_lookup, Progress, Successes, Room, Coming
<1> QED
  BY <1>1, <1>2, <1>3, <1>4, <1>7, <1>8, <1>9, <1>10, <1>11, <1>12, <1>14, <1>15, <1>16
     DEF UrNext, Call, Kernel

(* The inductive invariant holds in every reachable state.                 *)
THEOREM UrSpecIInv == ASSUME SizesDivide PROVE UrSpec => []UrIInv
<1>1. UrIInv /\ [UrNext]_allVars => UrIInv'
  BY NextUrIInv
<1> QED
  BY <1>1, InitUrIInv, PTL DEF UrSpec

-----------------------------------------------------------------------------
(* What follows                                                            *)

(* The endpoint a task's slot records and the ring's agree, and the        *)
(* service never runs out of descriptors inside a batch, whatever earlier  *)
(* batches left on the ring.                                               *)
THEOREM ServiceAlwaysFindsItsBatch ==
    ASSUME SizesDivide PROVE UrSpec => []ServiceFindsItsBatch
<1>1. UrIInv => ServiceFindsItsBatch
  <2> SUFFICES ASSUME UrIInv PROVE ServiceFindsItsBatch
    OBVIOUS
  <2>1. Submitted = Len(SubmitQueue)
    BY CountsAreLengths DEF UrIInv
  <2>2. UrTypeOK /\ BindingsAgree
    BY DEF UrIInv, IInv, CallTypes, Bindings, UrTypeOK, BindingsAgree
  <2>3. BatchIsOnTheRing
    <3>1. Len(SubmitQueue) \in Nat
      BY DEF UrIInv, QueueTypes
    <3> QED
      BY <2>1, <3>1 DEF UrIInv, Progress, BatchIsOnTheRing
  <2> QED
    BY <2>2, <2>3 DEF ServiceFindsItsBatch
<1> QED
  BY <1>1, UrSpecIInv, PTL

(* A task that leaves room for its completions, and whose buffers stay     *)
(* mapped, loses none of them.                                             *)
THEOREM CarefulTasksLoseNothing ==
    ASSUME SizesDivide PROVE UrSpec => []CarefulTaskLosesNothing
<1>1. UrIInv => CarefulTaskLosesNothing
  BY DEF UrIInv, Room, CarefulTaskLosesNothing
<1> QED
  BY <1>1, UrSpecIInv, PTL

(* A submit call that succeeds has written a success for each descriptor.  *)
THEOREM SuccessMeansCompleted ==
    ASSUME SizesDivide PROVE UrSpec => []OkMeansCompleted
<1>1. UrIInv => OkMeansCompleted
  <2> SUFFICES ASSUME UrIInv, pc = "serve", done = Len(batch)
               PROVE  /\ Completed >= Len(batch)
                      /\ \A k \in 1 .. Len(batch) :
                             CompleteQueue[Len(CompleteQueue) - k + 1][2] = "ok"
    BY DEF OkMeansCompleted, CompleteQueue
  <2>1. Completed = Len(CompleteQueue)
    BY CountsAreLengths DEF UrIInv
  <2> QED
    BY <2>1 DEF UrIInv, Successes
<1> QED
  BY <1>1, UrSpecIInv, PTL

=============================================================================
