------------------------------- MODULE Grants -------------------------------
(***************************************************************************)
(* User grants (core/user_grant.c) and kernel grants (core/grant.c) over   *)
(* the object and capability tables.                                       *)
(*                                                                         *)
(* A user grant lets one endpoint read a range of one task's memory.  A    *)
(* revoked user grant gives its slot back together with the object, so the *)
(* next grant lives under the same object id.  A kernel grant is never     *)
(* given back.  Both kinds are objects of the same type, told apart by the *)
(* caller only: each lookup casts the payload pointer to its own slot      *)
(* type.  A pointer to a slot is the pair of its table and its index.      *)
(*                                                                         *)
(* The tasks and endpoints that grants refer to exist from the start;      *)
(* their capabilities may be revoked at any time.  What is mapped in user  *)
(* memory is the constant ValidRanges.  The lifetime field is stored and   *)
(* never read.                                                             *)
(***************************************************************************)
EXTENDS Capability

CONSTANTS GrantType, TaskType, EndpointType,  \* SCDK_OBJ_*
          Read, Write, Send, RevokeRight,     \* SCDK_RIGHT_*
          Ranges,         \* ranges a caller may name
          AskedRights,    \* sets of rights a caller may ask for
          ValidRanges,    \* those scdk_user_validate_range accepts
          MaxUserGrants,  \* SCDK_MAX_USER_GRANTS
          MaxGrants,      \* SCDK_MAX_GRANTS
          Offsets, Lengths,  \* offsets and lengths a caller may name
          Boot,           \* the types of the objects that exist at the start
          MaxCreates      \* bound: grants created in a behaviour

UserIdx == 0 .. MaxUserGrants - 1
KernelIdx == 0 .. MaxGrants - 1
UserSlot(i) == <<"user", i>>
KernelSlot(i) == <<"kernel", i>>
NoGrant == [kind |-> "none"]
Mask == {Read, Write}    \* SCDK_USER_GRANT_RIGHTS_MASK; MAP behaves as Write

\* What the constants stand for.  A range does not wrap: a user range is
\* validated, and the kernel makes grants over buffers it has.
GrantConstants ==
    /\ {GrantType, TaskType, EndpointType} \subseteq ObjTypes
    /\ GrantType \notin {TaskType, EndpointType}
    /\ DOMAIN Boot \subseteq ObjIdx \cap CapIdx
    /\ \A i \in DOMAIN Boot : Boot[i] \in ObjTypes \ {GrantType}
    /\ \A range \in Ranges : range.base \in Nat /\ range.length \in Nat
    /\ Offsets \subseteq Nat /\ Lengths \subseteq Nat /\ MaxCreates \in Nat

VARIABLES user_grants,  \* user_grants[i] of user_grant.c
          grant_table,  \* grant_table[i] of grant.c
          issued,       \* history: what the last create that returned a
                        \* token was asked for, until the grant is revoked
          creates       \* number of create calls made

grantVars == <<user_grants, grant_table, issued, creates>>
allVars == <<vars, grantVars>>

EmptyUserGrant == [object_id |-> Null, source_task |-> Null,
                   target_endpoint |-> Null, base |-> 0, length |-> 0,
                   rights |-> {}, revoked |-> FALSE]
EmptyGrant == [object_id |-> Null, base |-> 0, length |-> 0, rights |-> {}]

\* The boot objects, each with one capability that conveys every right.
GrInit ==
    /\ object_table = [i \in ObjIdx |->
           IF i \in DOMAIN Boot
           THEN [type |-> Boot[i], generation |-> 1, payload |-> NoPayload]
           ELSE EmptyObject]
    /\ object_generations = [i \in ObjIdx |-> IF i \in DOMAIN Boot THEN 1 ELSE 0]
    /\ cap_table = [i \in CapIdx |->
           IF i \in DOMAIN Boot
           THEN [object_id |-> <<i, 1>>, generation |-> 1,
                 object_type |-> Boot[i], revoked |-> FALSE, rights |-> Rights]
           ELSE EmptyCap]
    /\ cap_generations = [i \in CapIdx |-> IF i \in DOMAIN Boot THEN 1 ELSE 0]
    /\ age = [t \in Tokens |-> 0]
    /\ user_grants = [i \in UserIdx |-> EmptyUserGrant]
    /\ grant_table = [i \in KernelIdx |-> EmptyGrant]
    /\ issued = [t \in Tokens |-> NoGrant]
    /\ creates = 0

-----------------------------------------------------------------------------
(* user_grant.c                                                            *)

\* The slot a payload pointer gives when it is read as a user grant.  In a
\* kernel grant's slot the word at source_task is frame_cap, always 0, and
\* the byte at revoked is the low byte of refcount, always 1.
UserView(p) ==
    IF p[1] = "user" THEN user_grants[p[2]]
    ELSE [EmptyUserGrant EXCEPT !.object_id = grant_table[p[2]].object_id,
                                !.length = grant_table[p[2]].length,
                                !.rights = grant_table[p[2]].rights,
                                !.revoked = TRUE]

ObjectOf(t) == cap_table[t[1]].object_id
PayloadOf(t) == object_table[ObjectOf(t)[1]].payload

TaskLive(t) == scdk_cap_check(t, {Read}, TaskType)
EndpointLive(t) == scdk_cap_check(t, {Send}, EndpointType)

user_grant_lookup(t, required, live) ==
    /\ scdk_cap_check(t, required, GrantType)
    /\ LET slot == UserView(PayloadOf(t))
       IN  /\ slot.object_id = ObjectOf(t)
           /\ ~slot.revoked
           /\ live => TaskLive(slot.source_task) /\ EndpointLive(slot.target_endpoint)

\* Mutant: the end of the range is compared after the sum has wrapped at 4.
check_grant_range_wraps(slot, offset, length, required) ==
    /\ length # 0 /\ required # {} /\ required \subseteq Mask
    /\ required \subseteq slot.rights
    /\ (offset + length) % 4 <= slot.length

check_grant_range(slot, offset, length, required) ==
    /\ length # 0 /\ required # {} /\ required \subseteq Mask
    /\ required \subseteq slot.rights
    /\ offset <= slot.length
    /\ length <= slot.length - offset

FreeUserGrants ==
    {i \in UserIdx : user_grants[i].object_id = Null \/ user_grants[i].revoked}

\* The slot as filled for object id; the rest of a create's effect depends
\* on whether a capability can be had for it.
NewUserGrant(id, src, range, rights, ep) ==
    [object_id |-> id, source_task |-> src, target_endpoint |-> ep,
     base |-> range.base, length |-> range.length, rights |-> rights,
     revoked |-> FALSE]

\* A failed create clears the slot; a reused slot keeps its object and
\* stays revoked, a fresh one forgets the object it just made.
UserGrantRolledBack(reuse, id) ==
    IF reuse THEN [EmptyUserGrant EXCEPT !.object_id = id, !.revoked = TRUE]
             ELSE EmptyUserGrant

\* Fill slot i for object id, then mint its capability.
FillUserSlot(i, id, src, range, rights, ep) ==
    LET grant == NewUserGrant(id, src, range, rights, ep)
    IN  \/ /\ user_grants' = [user_grants EXCEPT ![i] = grant]
           /\ \E c \in FreeCapSlots :
                  /\ IsFirst(c, FreeCapSlots)
                  /\ TakeCapSlot(c, object_table', id, rights \cup {RevokeRight})
                  /\ issued' = [issued EXCEPT ![<<c, cap_generations'[c]>>] =
                         [kind |-> "user", slot |-> grant]]
        \/ /\ FreeCapSlots = {}
           /\ user_grants' = [user_grants EXCEPT ![i] =
                  UserGrantRolledBack(user_grants[i].object_id # Null, id)]
           /\ UNCHANGED <<capVars, issued>>

\* A fresh slot needs an object; a revoked one still has its own.
scdk_user_grant_create(src, range, rights, ep) ==
    /\ creates < MaxCreates /\ creates' = creates + 1
    /\ rights # {} /\ rights \subseteq Mask
    /\ TaskLive(src) /\ EndpointLive(ep)
    /\ range \in ValidRanges
    /\ \E i \in FreeUserGrants :
           /\ IsFirst(i, FreeUserGrants)
           /\ \/ /\ user_grants[i].object_id # Null
                 /\ UNCHANGED objVars
                 /\ FillUserSlot(i, user_grants[i].object_id, src, range, rights, ep)
              \/ /\ user_grants[i].object_id = Null
                 /\ \E o \in FreeObjectSlots :
                        /\ IsFirst(o, FreeObjectSlots)
                        /\ TakeObjectSlot(o, GrantType, UserSlot(i))
                        /\ FillUserSlot(i, object_make_id(o, object_generations'[o]),
                                        src, range, rights, ep)
    /\ UNCHANGED grant_table

scdk_user_grant_revoke(t) ==
    /\ user_grant_lookup(t, {RevokeRight}, FALSE)
    /\ user_grants' = [user_grants EXCEPT ![PayloadOf(t)[2]].revoked = TRUE]
    /\ scdk_cap_revoke(t)
    /\ issued' = [issued EXCEPT ![t] = NoGrant]
    /\ UNCHANGED <<grant_table, creates>>

scdk_validate_grant_access(t, offset, length, required) ==
    /\ user_grant_lookup(t, required, TRUE)
    /\ check_grant_range(UserView(PayloadOf(t)), offset, length, required)

\* The range scdk_user_grant_copy_from reads, {} when it returns an error.
scdk_user_grant_copy_from(ep, t, offset, length) ==
    IF /\ user_grant_lookup(t, {Read}, TRUE)
       /\ UserView(PayloadOf(t)).target_endpoint = ep
       /\ check_grant_range(UserView(PayloadOf(t)), offset, length, {Read})
    THEN LET first == UserView(PayloadOf(t)).base + offset
         IN  first .. first + length - 1
    ELSE {}

-----------------------------------------------------------------------------
(* grant.c                                                                 *)

FreeGrants == {i \in KernelIdx : grant_table[i].object_id = Null}

grant_lookup(t, required) ==
    /\ scdk_cap_check(t, required, GrantType)
    /\ grant_table[PayloadOf(t)[2]].object_id = ObjectOf(t)

\* The offset field of a kernel grant is always 0, so the check is the one
\* of user grants.
grant_check_range(grant, required, offset, length) ==
    check_grant_range(grant, offset, length, required)

\* scdk_grant_check, and the addresses it lets through.
scdk_grant_resolve(t, required, offset, length) ==
    LET grant == grant_table[PayloadOf(t)[2]]
    IN  IF grant_lookup(t, required) /\ grant_check_range(grant, required, offset, length)
        THEN grant.base + offset .. grant.base + offset + length - 1
        ELSE {}

scdk_grant_create(range, rights) ==
    /\ creates < MaxCreates /\ creates' = creates + 1
    /\ rights # {} /\ rights \subseteq Mask
    /\ \E i \in FreeGrants, o \in FreeObjectSlots :
           LET id == object_make_id(o, next_generation(object_generations[o]))
               grant == [object_id |-> id, base |-> range.base,
                         length |-> range.length, rights |-> rights]
           IN  /\ IsFirst(i, FreeGrants) /\ IsFirst(o, FreeObjectSlots)
               /\ TakeObjectSlot(o, GrantType, KernelSlot(i))
               /\ \/ /\ grant_table' = [grant_table EXCEPT ![i] = grant]
                     /\ \E c \in FreeCapSlots :
                            /\ IsFirst(c, FreeCapSlots)
                            /\ TakeCapSlot(c, object_table', id, rights)
                            /\ issued' = [issued EXCEPT
                                   ![<<c, cap_generations'[c]>>] =
                                       [kind |-> "kernel", slot |-> grant]]
                  \/ /\ FreeCapSlots = {}
                     /\ grant_table' = [grant_table EXCEPT ![i] =
                                            [grant EXCEPT !.object_id = Null]]
                     /\ UNCHANGED <<capVars, issued>>
    /\ UNCHANGED user_grants

\* scdk_revoke_capability on any token: the grant's slot is not told.
RevokeCap(t) == scdk_cap_revoke(t) /\ UNCHANGED grantVars

\* Every operation refuses a token whose generation is not its slot's: only
\* one token of each slot can be used.
CurrentTokens == {cap_make_token(i, cap_generations[i]) : i \in CapIdx}

GrNext ==
    \/ \E src, ep \in CurrentTokens, range \in Ranges, rights \in AskedRights :
           scdk_user_grant_create(src, range, rights, ep)
    \/ \E t \in CurrentTokens : scdk_user_grant_revoke(t)
    \/ \E range \in Ranges, rights \in AskedRights : scdk_grant_create(range, rights)
    \/ \E t \in CurrentTokens : RevokeCap(t)

GrSpec == GrInit /\ [][GrNext]_allVars

-----------------------------------------------------------------------------
(* Properties                                                              *)

\* A token that user_grant_lookup accepts reaches the very grant it was
\* returned for: the task, endpoint, range and rights given to that create,
\* although slots and their objects pass from revoked grants to new ones,
\* creates fail half-way and leave objects that point at slots of others,
\* and kernel grants have the same object type.
TokenReachesItsGrant ==
    \A t \in CurrentTokens :
        user_grant_lookup(t, {Read}, FALSE) \/ user_grant_lookup(t, {Write}, FALSE) =>
            issued[t] = [kind |-> "user", slot |-> UserView(PayloadOf(t))]

\* What scdk_user_grant_copy_from reads for an endpoint lies inside the
\* range of a grant that was made to that endpoint with the right to read,
\* is not revoked, and whose task is still there; what scdk_grant_resolve
\* makes of a kernel grant's token lies inside the range that grant was
\* created over.  A write access that scdk_validate_grant_access allows was
\* granted.  The offset and the length come from the caller and may be
\* anything.
AccessStaysInsideGrant ==
    \A t \in CurrentTokens, eps \in {{ep \in CurrentTokens : EndpointLive(ep)}} :
        LET g == issued[t].slot
            granted == g.base .. g.base + g.length - 1
        IN  \A offset \in Offsets, length \in Lengths :
            /\ \A ep \in eps :
                   LET read == scdk_user_grant_copy_from(ep, t, offset, length)
                   IN  read # {} => /\ issued[t].kind = "user"
                                    /\ g.target_endpoint = ep
                                    /\ Read \in g.rights
                                    /\ TaskLive(g.source_task)
                                    /\ read \subseteq granted
            /\ scdk_validate_grant_access(t, offset, length, {Write}) =>
                   Write \in g.rights /\ offset + length <= g.length
            /\ issued[t].kind = "kernel" =>
                   scdk_grant_resolve(t, {Read}, offset, length) \subseteq granted

\* A user-grant slot is unavailable only while it holds a grant whose create
\* returned a token: a create that fails on the capability table gives the
\* slot back.  (scdk_revoke_capability on that token, or the end of the
\* task, does not.)
SlotsHeldByGrants ==
    \A i \in UserIdx \ FreeUserGrants :
        \E t \in Tokens : issued[t] = [kind |-> "user", slot |-> user_grants[i]]

\* The grant tables hold what a create or their zero initialisation wrote.
GrTypeOK ==
    /\ user_grants \in [UserIdx ->
           [object_id : Ids \cup {Null}, source_task : Tokens \cup {Null},
            target_endpoint : Tokens \cup {Null}, base : Nat, length : Nat,
            rights : SUBSET Mask, revoked : BOOLEAN]]
    /\ grant_table \in [KernelIdx ->
           [object_id : Ids \cup {Null}, base : Nat, length : Nat, rights : SUBSET Mask]]
    /\ \A i \in ObjIdx : object_table[i].type = GrantType =>
           object_table[i].payload \in {UserSlot(u) : u \in UserIdx}
                                       \cup {KernelSlot(k) : k \in KernelIdx}
    /\ cap_generations \in [CapIdx -> Generations]
    /\ creates \in 0 .. MaxCreates

=============================================================================
