------------------------------ MODULE UserRing ------------------------------
(***************************************************************************)
(* A user task's ring (core/user_ring.c) bound to the console service      *)
(* (services/console_service.c), composed with the ring itself (Ring).     *)
(*                                                                         *)
(* A submit call copies a batch of descriptors onto the ring one by one    *)
(* and then calls the bound endpoint, which takes as many descriptors off  *)
(* the ring as the batch had, performs each and puts its completion on the *)
(* ring.  Every loop may stop half-way.  A system call runs to its end     *)
(* before the task or the kernel does anything else; its loops are taken   *)
(* step by step so that they can stop anywhere.                            *)
(*                                                                         *)
(* A user copy may fail at any descriptor, and so may a console write (its *)
(* grant may be revoked): both are nondeterministic.  Descriptors outside  *)
(* Good fail the console's checks.                                         *)
(***************************************************************************)
EXTENDS Ring

CONSTANTS Console,    \* the console service's endpoint token
          Good,       \* descriptors the console accepts
          Batches,    \* what a task may pass to one submit call
          NoStatus    \* the status of an operation not performed yet

ASSUME UserRingAssumption ==
    /\ Console \in Endpoints /\ Good \subseteq Descs
    /\ Batches \subseteq Seq(Descs)
    /\ Completions = Descs \X {"ok", "error"}

VARIABLES target_endpoint,  \* of the user ring's slot
          task_live,        \* the owner's token passes its check
          pc,               \* what the system call is doing
          batch, done,      \* its descriptors, the loop counter
          op_status,        \* of the operation the service performs
          owed,             \* history: a descriptor was taken off the ring
                            \* whose completion is neither on the ring nor
                            \* delivered
          careful           \* history: no call has ever submitted more than
                            \* the completion queue had room for, and no
                            \* completion met an unmapped buffer

callVars == <<pc, batch, done, op_status>>
slotVars == <<target_endpoint, task_live>>
urVars == <<callVars, slotVars, owed, careful>>
allVars == <<vars, urVars>>

UrInit ==
    /\ Init
    /\ target_endpoint = NoToken /\ task_live = TRUE
    /\ pc = "idle" /\ batch = <<>> /\ done = 0
    /\ op_status = NoStatus
    /\ owed = FALSE /\ careful = TRUE

-----------------------------------------------------------------------------
Submitted == queue_count(submit_head, submit_tail)
Completed == queue_count(complete_head, complete_tail)
validate_count(n) == n \in 1 .. MaxEntries
user_ring_slot_for == task_live /\ RingToken \in live /\ entries # 0

\* The call returns.  Nothing here reads the status it returns.
Return == pc' = "idle" /\ batch' = <<>> /\ done' = 0 /\ op_status' = NoStatus
Goto(label) == pc' = label /\ UNCHANGED <<batch, op_status>>

scdk_user_ring_create(n) ==
    /\ pc = "idle"
    /\ validate_count(n) /\ task_live
    /\ scdk_ring_create(n, NoToken)
    /\ target_endpoint' = NoToken
    /\ UNCHANGED <<callVars, task_live, owed, careful>>

scdk_user_ring_bind(target) ==
    /\ pc = "idle"
    /\ user_ring_slot_for
    /\ scdk_ring_bind_target(target)
    /\ target_endpoint' = target
    /\ UNCHANGED <<callVars, task_live, owed, careful>>

\* The checks submit and poll begin with; a call that fails one of them
\* changes nothing.
CallAccepted(n) ==
    /\ pc = "idle"
    /\ validate_count(n)
    /\ user_ring_slot_for
    /\ target_endpoint # NoToken /\ target_endpoint \in live

scdk_user_ring_submit(b) ==
    /\ CallAccepted(Len(b))
    /\ pc' = "copy" /\ batch' = b /\ done' = 0
    /\ careful' = (careful /\ Submitted + Completed + Len(b) <= entries)
    /\ UNCHANGED <<vars, slotVars, op_status, owed>>

\* Mutant: a descriptor that cannot be copied is skipped.
SubmitLoop_skips ==
    /\ pc = "copy" /\ done < Len(batch)
    /\ \/ done' = done + 1 /\ Goto("copy") /\ UNCHANGED vars
       \/ /\ Submitted = entries
          /\ Return /\ UNCHANGED vars
       \/ /\ scdk_ring_submit(batch[done + 1])
          /\ done' = done + 1 /\ Goto("copy")
    /\ UNCHANGED <<slotVars, owed, careful>>

\* One turn of the loop: the copy fails, or the ring is full, or the
\* descriptor goes onto the ring.
SubmitLoop ==
    /\ pc = "copy" /\ done < Len(batch)
    /\ \/ Return /\ UNCHANGED vars
       \/ /\ Submitted = entries
          /\ Return /\ UNCHANGED vars
       \/ /\ scdk_ring_submit(batch[done + 1])
          /\ done' = done + 1 /\ Goto("copy")
    /\ UNCHANGED <<slotVars, owed, careful>>

\* The target scdk_ring_bound_target returns, if it returns one.
scdk_ring_bound_target ==
    IF ring_lookup /\ bound_target \in live THEN bound_target ELSE NoToken

\* console_handle_ring_process takes on n descriptors of the ring.  Only the
\* console does; other services answer that they do not support it.
ring_process_accepted(endpoint, n) ==
    /\ endpoint = Console
    /\ validate_count(n)
    /\ scdk_ring_bound_target = endpoint

\* scdk_endpoint_call of the target with SCDK_MSG_RING_PROCESS.
SubmitKicks ==
    /\ pc = "copy" /\ done = Len(batch)
    /\ \/ /\ ring_process_accepted(target_endpoint, Len(batch))
          /\ done' = 0 /\ Goto("serve")
       \/ /\ ~ring_process_accepted(target_endpoint, Len(batch))
          /\ Return
    /\ UNCHANGED <<vars, slotVars, owed, careful>>

\* What may come of the write a descriptor asks for: the copy from its
\* grant may fail.
console_write_results(desc) ==
    IF desc \in Good THEN {"ok", "error"} ELSE {"error"}

\* One descriptor is taken and performed.
ServiceConsumes ==
    /\ pc = "serve" /\ done < Len(batch)
    /\ scdk_ring_consume
    /\ op_status' \in console_write_results(out_desc')
    /\ pc' = "complete"
    /\ UNCHANGED <<batch, done, slotVars, owed, careful>>

\* Mutant: a failed operation returns before its completion is written.
ServiceCompletes_only_success ==
    /\ pc = "complete"
    /\ \/ /\ Completed < entries /\ op_status = "ok"
          /\ scdk_ring_complete(<<out_desc, op_status>>)
          /\ done' = done + 1 /\ pc' = "serve" /\ op_status' = NoStatus
          /\ UNCHANGED <<batch, owed>>
       \/ /\ Completed = entries \/ op_status = "error"
          /\ owed' = TRUE
          /\ Return /\ UNCHANGED vars
    /\ UNCHANGED <<slotVars, careful>>

\* Mutant: a failed operation does not stop the batch.
ServiceCompletes_goes_on ==
    /\ pc = "complete"
    /\ \/ /\ Completed < entries
          /\ scdk_ring_complete(<<out_desc, op_status>>)
          /\ done' = done + 1 /\ pc' = "serve" /\ op_status' = NoStatus
          /\ UNCHANGED <<batch, owed>>
       \/ /\ Completed = entries
          /\ owed' = TRUE
          /\ Return /\ UNCHANGED vars
    /\ UNCHANGED <<slotVars, careful>>

\* Its completion is written; a full completion queue, and then a failed
\* operation, end the call.
ServiceCompletes ==
    /\ pc = "complete"
    /\ \/ /\ Completed < entries
          /\ scdk_ring_complete(<<out_desc, op_status>>)
          /\ \/ /\ op_status = "ok"
                /\ done' = done + 1 /\ pc' = "serve" /\ op_status' = NoStatus
                /\ UNCHANGED batch
             \/ op_status = "error" /\ Return
          /\ UNCHANGED owed
       \/ /\ Completed = entries
          /\ owed' = TRUE
          /\ Return /\ UNCHANGED vars
    /\ UNCHANGED <<slotVars, careful>>

ServiceReturns ==
    /\ pc = "serve" /\ done = Len(batch)
    /\ Return
    /\ UNCHANGED <<vars, slotVars, owed, careful>>

\* A poll call for up to n completions.
scdk_user_ring_poll(n) ==
    /\ CallAccepted(n)
    /\ pc' = "poll" /\ done' = n
    /\ UNCHANGED <<vars, slotVars, batch, op_status, owed, careful>>

\* One turn of the loop; a completion that cannot be copied out is gone.
PollLoop ==
    /\ pc = "poll"
    /\ \/ /\ done = 0 \/ Completed = 0
          /\ Return /\ UNCHANGED <<vars, owed, careful>>
       \/ /\ done > 0 /\ scdk_ring_poll
          /\ \/ done' = done - 1 /\ Goto("poll") /\ UNCHANGED <<owed, careful>>
             \/ Return /\ owed' = TRUE /\ careful' = FALSE
    /\ UNCHANGED slotVars

\* Kernel code revokes an endpoint's, the ring's or the task's token.
RevokeToken(t) == pc = "idle" /\ Revoke(t) /\ UNCHANGED urVars
RevokeTask ==
    /\ pc = "idle" /\ task_live
    /\ task_live' = FALSE
    /\ UNCHANGED <<vars, callVars, target_endpoint, owed, careful>>

Call ==
    \/ \E b \in Batches : scdk_user_ring_submit(b)
    \/ \E n \in Sizes : scdk_user_ring_poll(n)
Kernel == SubmitLoop \/ SubmitKicks \/ ServiceConsumes \/ ServiceCompletes
          \/ ServiceReturns \/ PollLoop

UrNext ==
    \/ \E n \in Sizes : scdk_user_ring_create(n)
    \/ \E t \in Endpoints : scdk_user_ring_bind(t)
    \/ Call \/ Kernel
    \/ \E t \in Endpoints \cup {RingToken} : RevokeToken(t)
    \/ RevokeTask

UrSpec == UrInit /\ [][UrNext]_allVars

-----------------------------------------------------------------------------
(* Properties                                                              *)

\* Call state and history have their types, and Ring keeps its own.
UrTypeOK ==
    /\ TypeOK
    /\ target_endpoint \in Endpoints \cup {NoToken}
    /\ pc \in {"idle", "copy", "serve", "complete", "poll"}
    /\ batch \in Batches \cup {<<>>} /\ done \in 0 .. MaxEntries
    /\ op_status \in {NoStatus, "ok", "error"}

\* The target a task's slot remembers and the one the ring is bound to are
\* stored in different tables and checked by different code, and never
\* disagree: the endpoint that submit calls is the one the service compares
\* with, so a batch on the ring is not refused as somebody else's, and a
\* service that works on the ring has a token that is not revoked.
BindingsAgree ==
    /\ entries # 0 => target_endpoint = bound_target
    /\ pc \in {"serve", "complete"} => bound_target \in live

\* The service never finds the ring empty inside a batch, whatever earlier
\* batches left behind: there are at least as many descriptors on the ring
\* as the loop still has to take, so the call cannot end half-way for lack
\* of them.
BatchIsOnTheRing ==
    pc \in {"serve", "complete"} =>
        Submitted + (IF pc = "complete" THEN 1 ELSE 0) >= Len(batch) - done

\* A task that never has more operations outstanding than the ring has
\* entries, and whose buffers stay mapped, gets the completion of every
\* operation the service performs, those that fail included.
CarefulTaskLosesNothing == careful => ~owed

\* A submit call that returns success has written one completion with
\* success for each descriptor of its batch, and written no other: the
\* newest Len(batch) completions all report success.
OkMeansCompleted ==
    pc = "serve" /\ done = Len(batch) =>
        /\ Completed >= Len(batch)
        /\ \A k \in 1 .. Len(batch) :
               LET c == Contents(cq, complete_head, complete_tail)
               IN  c[Len(c) - k + 1][2] = "ok"

\* What the service needs to find: a binding that agrees with the slot's, and
\* the whole of the batch on the ring.
ServiceFindsItsBatch == UrTypeOK /\ BindingsAgree /\ BatchIsOnTheRing

=============================================================================
