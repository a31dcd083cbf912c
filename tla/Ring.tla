-------------------------------- MODULE Ring --------------------------------
(***************************************************************************)
(* One ring (core/ring.c): a submission and a completion queue in fixed    *)
(* arrays, with free-running uint32_t head and tail counters that are      *)
(* reduced modulo the ring's size only when an array is indexed.           *)
(*                                                                         *)
(* The capability layer appears as the set of tokens it still honours:     *)
(* the ring's own token, minted with READ, WRITE and BIND, and endpoint    *)
(* tokens with SEND.  Tokens leave the set by revocation.                  *)
(***************************************************************************)
EXTENDS Integers, Sequences

CONSTANTS Descs, Completions,
          Sizes,        \* the numbers of entries callers ask for
          MaxEntries,   \* SCDK_RING_MAX_ENTRIES
          CounterMod,   \* 2^32: heads and tails are uint32_t
          RingToken,    \* the token scdk_ring_create returns
          Endpoints,    \* endpoint tokens
          NoToken,      \* the null token
          Nothing       \* contents of storage not written yet

ASSUME RingAssumption ==
    /\ MaxEntries \in Nat /\ CounterMod \in Nat /\ MaxEntries < CounterMod
    /\ Sizes \subseteq Nat
    /\ RingToken \notin Endpoints /\ NoToken \notin Endpoints \cup {RingToken}

VARIABLES entries,                        \* 0 while the slot is unused
          submit_head, submit_tail, complete_head, complete_tail,
          sq, cq,                         \* sq_storage, cq_storage
          bound_target,
          live,                           \* tokens that pass their check
          out_desc, out_completion        \* output of last consume, poll

sqVars == <<submit_head, submit_tail, sq, out_desc>>
cqVars == <<complete_head, complete_tail, cq, out_completion>>
ctlVars == <<entries, bound_target, live>>
vars == <<ctlVars, sqVars, cqVars>>

Slots == 0 .. MaxEntries - 1
Counters == 0 .. CounterMod - 1

Init ==
    /\ entries = 0
    /\ submit_head = 0 /\ submit_tail = 0
    /\ complete_head = 0 /\ complete_tail = 0
    /\ sq = [i \in Slots |-> Nothing] /\ cq = [i \in Slots |-> Nothing]
    /\ bound_target = NoToken
    /\ live = Endpoints
    /\ out_desc = Nothing /\ out_completion = Nothing

-----------------------------------------------------------------------------
\* tail - head and counter + 1 in uint32_t arithmetic.
queue_count(head, tail) == (tail - head) % CounterMod
Incremented(counter) == (counter + 1) % CounterMod

Index(counter) == counter % entries

\* The ring's token is honoured and names this ring.
ring_lookup == entries # 0 /\ RingToken \in live

\* scdk_ring_create.  The slot's counters are reset, its storage is not.
scdk_ring_create(n, target) ==
    /\ entries = 0
    /\ n \in 1 .. MaxEntries
    /\ target \in live \cup {NoToken}
    /\ entries' = n
    /\ submit_head' = 0 /\ submit_tail' = 0
    /\ complete_head' = 0 /\ complete_tail' = 0
    /\ bound_target' = target
    /\ live' = live \cup {RingToken}
    /\ UNCHANGED <<sq, cq, out_desc, out_completion>>

scdk_ring_bind_target(target) ==
    /\ target \in live
    /\ ring_lookup
    /\ bound_target' = target
    /\ UNCHANGED <<entries, live, sqVars, cqVars>>

\* Mutant: one entry more than fits is accepted.
scdk_ring_submit_overfull(d) ==
    /\ ring_lookup
    /\ queue_count(submit_head, submit_tail) <= entries
    /\ sq' = [sq EXCEPT ![Index(submit_tail)] = d]
    /\ submit_tail' = Incremented(submit_tail)
    /\ UNCHANGED <<ctlVars, submit_head, out_desc, cqVars>>

scdk_ring_submit(d) ==
    /\ ring_lookup
    /\ queue_count(submit_head, submit_tail) < entries
    /\ sq' = [sq EXCEPT ![Index(submit_tail)] = d]
    /\ submit_tail' = Incremented(submit_tail)
    /\ UNCHANGED <<ctlVars, submit_head, out_desc, cqVars>>

\* Mutant: the head moves before the descriptor is read.
scdk_ring_consume_late ==
    /\ ring_lookup
    /\ submit_head # submit_tail
    /\ submit_head' = Incremented(submit_head)
    /\ out_desc' = sq[Index(submit_head')]
    /\ UNCHANGED <<ctlVars, submit_tail, sq, cqVars>>

scdk_ring_consume ==
    /\ ring_lookup
    /\ submit_head # submit_tail
    /\ out_desc' = sq[Index(submit_head)]
    /\ submit_head' = Incremented(submit_head)
    /\ UNCHANGED <<ctlVars, submit_tail, sq, cqVars>>

scdk_ring_complete(c) ==
    /\ ring_lookup
    /\ queue_count(complete_head, complete_tail) < entries
    /\ cq' = [cq EXCEPT ![Index(complete_tail)] = c]
    /\ complete_tail' = Incremented(complete_tail)
    /\ UNCHANGED <<ctlVars, complete_head, out_completion, sqVars>>

scdk_ring_poll ==
    /\ ring_lookup
    /\ complete_head # complete_tail
    /\ out_completion' = cq[Index(complete_head)]
    /\ complete_head' = Incremented(complete_head)
    /\ UNCHANGED <<ctlVars, complete_tail, cq, sqVars>>

\* scdk_revoke of the ring's token or of an endpoint's, by anyone.
Revoke(t) ==
    /\ t \in live
    /\ live' = live \ {t}
    /\ UNCHANGED <<entries, bound_target, sqVars, cqVars>>

Next ==
    \/ \E n \in Sizes, t \in Endpoints \cup {NoToken} : scdk_ring_create(n, t)
    \/ \E t \in Endpoints : scdk_ring_bind_target(t)
    \/ \E d \in Descs : scdk_ring_submit(d)
    \/ scdk_ring_consume
    \/ \E c \in Completions : scdk_ring_complete(c)
    \/ scdk_ring_poll
    \/ \E t \in Endpoints \cup {RingToken} : Revoke(t)

Spec == Init /\ [][Next]_vars

-----------------------------------------------------------------------------
(* Properties                                                              *)

\* Counters stay uint32_t, and neither queue ever holds more than the
\* ring's entries, which never exceed the storage.
TypeOK ==
    /\ entries \in 0 .. MaxEntries
    /\ submit_head \in Counters /\ submit_tail \in Counters
    /\ complete_head \in Counters /\ complete_tail \in Counters
    /\ sq \in [Slots -> Descs \cup {Nothing}]
    /\ cq \in [Slots -> Completions \cup {Nothing}]
    /\ bound_target \in Endpoints \cup {NoToken}
    /\ live \subseteq Endpoints \cup {RingToken}
    /\ out_desc \in Descs \cup {Nothing}
    /\ out_completion \in Completions \cup {Nothing}
    /\ queue_count(submit_head, submit_tail) <= entries
    /\ queue_count(complete_head, complete_tail) <= entries

\* The entries from head to tail, oldest first.
Contents(storage, head, tail) ==
    [k \in 1 .. queue_count(head, tail) |->
        storage[Index((head + k - 1) % CounterMod)]]

Q == INSTANCE RingQueues
       WITH size <- entries,
            submitted <- Contents(sq, submit_head, submit_tail),
            completed <- Contents(cq, complete_head, complete_tail),
            desc <- out_desc, completion <- out_completion

\* The ring is a pair of bounded first-in first-out queues, for ever, through
\* every wrap of the 32-bit counters.  It holds when every size in use
\* divides the counters' modulus, that is, when it is a power of two.
ImplementsQueues == Q!QSpec

\* core/selftest.c:297 panics ("ring descriptor %u mismatch") unless the
\* i-th descriptor consumed is the i-th submitted; scdk_ring_create accepts
\* every size from 1 to SCDK_RING_MAX_ENTRIES.
FifoForEverySize == Q!QSpec

=============================================================================
