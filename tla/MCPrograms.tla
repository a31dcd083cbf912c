----------------------------- MODULE MCPrograms -----------------------------
(***************************************************************************)
(* What user programs run on, for model checking: a user task's ring       *)
(* served by the console, and the life of user tasks.  The two share no    *)
(* variable, and every property speaks of one of them, so it is enough to  *)
(* let one of them move at a time.                                         *)
(***************************************************************************)
EXTENDS UserRing, MCUserMode

VARIABLE part    \* the one that moves

MCCompletions == Descs \X {"ok", "error"}
\* One descriptor that fails its checks, or two that pass them.
MCBatches == {<<d>> : d \in Descs \ Good} \cup {<<d, e>> : d, e \in Good}

MCInit == part \in {"ring", "tasks"} /\ UrInit /\ UmInit

MCNext ==
    \/ part = "ring" /\ UrNext /\ UNCHANGED <<umVars, part>>
    \/ part = "tasks" /\ UmNext /\ UNCHANGED <<allVars, part>>

MCSpec == MCInit /\ [][MCNext]_<<allVars, umVars, part>>

=============================================================================
