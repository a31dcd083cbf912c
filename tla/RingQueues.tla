----------------------------- MODULE RingQueues -----------------------------
(***************************************************************************)
(* What a ring promises its two users: two bounded first-in first-out      *)
(* queues, one of descriptors on their way to the service and one of       *)
(* completions on their way back, and operations that fail rather than     *)
(* lose, overwrite or reorder an entry.                                    *)
(***************************************************************************)
EXTENDS Naturals, Sequences

CONSTANTS Descs,        \* submission descriptors
          Completions,  \* completion records
          Sizes,        \* capacities a ring may be created with
          Nothing       \* what the outputs hold before the first success

VARIABLES size,         \* capacity of either queue, 0 before creation
          submitted, completed,   \* the two queues
          desc, completion        \* results of the last consume and poll

queueVars == <<size, submitted, completed, desc, completion>>

QInit ==
    /\ size = 0
    /\ submitted = <<>> /\ completed = <<>>
    /\ desc = Nothing /\ completion = Nothing

QCreate(n) ==
    /\ size = 0
    /\ size' = n
    /\ UNCHANGED <<submitted, completed, desc, completion>>

QSubmit(d) ==
    /\ Len(submitted) < size
    /\ submitted' = Append(submitted, d)
    /\ UNCHANGED <<size, completed, desc, completion>>

QConsume ==
    /\ submitted # <<>>
    /\ desc' = Head(submitted)
    /\ submitted' = Tail(submitted)
    /\ UNCHANGED <<size, completed, completion>>

QComplete(c) ==
    /\ Len(completed) < size
    /\ completed' = Append(completed, c)
    /\ UNCHANGED <<size, submitted, desc, completion>>

QPoll ==
    /\ completed # <<>>
    /\ completion' = Head(completed)
    /\ completed' = Tail(completed)
    /\ UNCHANGED <<size, submitted, desc>>

QNext ==
    \/ \E n \in Sizes : QCreate(n)
    \/ \E d \in Descs : QSubmit(d)
    \/ QConsume
    \/ \E c \in Completions : QComplete(c)
    \/ QPoll

QSpec == QInit /\ [][QNext]_queueVars

=============================================================================
