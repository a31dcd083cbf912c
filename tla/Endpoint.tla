------------------------------ MODULE Endpoint ------------------------------
(***************************************************************************)
(* Endpoints and the service registry (core/endpoint.c) on top of the      *)
(* object and capability tables they share with the rest of the kernel.    *)
(*                                                                         *)
(* Creating an endpoint takes three resources in turn: an endpoint slot,   *)
(* an object, a capability.  When the last is missing the slot is given    *)
(* back, but the object cannot be, and goes on pointing at the slot while  *)
(* the slot is handed to the next endpoint.                                *)
(*                                                                         *)
(* An object's payload pointer &endpoint_table[e] is the number e.         *)
(***************************************************************************)
EXTENDS Capability

CONSTANTS EndpointType,   \* SCDK_OBJ_ENDPOINT
          Send, Bind,     \* SCDK_RIGHT_SEND, SCDK_RIGHT_BIND
          Handlers,       \* handler functions (with their context)
          NoHandler,      \* the null handler
          Services,       \* service ids, SCDK_SERVICE_NONE excluded
          NoService,      \* SCDK_SERVICE_NONE
          MaxEndpoints,   \* SCDK_MAX_ENDPOINTS
          MaxServices     \* SCDK_MAX_SERVICES

EpIdx == 0 .. MaxEndpoints - 1
SvcIdx == 0 .. MaxServices - 1

ASSUME EndpointAssumption ==
    /\ EndpointType \in ObjTypes /\ Send \in Rights /\ Bind \in Rights
    /\ NoHandler \notin Handlers /\ NoService \notin Services
    /\ MaxEndpoints \in Nat /\ MaxServices \in Nat
    /\ EpIdx \subseteq Payloads

VARIABLES endpoint_table,  \* endpoint_table[e] of endpoint.c
          service_table,   \* service_table[s] of endpoint.c
          made  \* history: the handler each successful create was given,
                \* by the object it made

epVars == <<endpoint_table, service_table, made>>
allVars == <<vars, epVars>>

EmptyEndpoint == [object_id |-> Null, handler |-> NoHandler]
EmptyService == [service_id |-> NoService, endpoint |-> Null]

EpInit ==
    /\ Init
    /\ endpoint_table = [e \in EpIdx |-> EmptyEndpoint]
    /\ service_table = [s \in SvcIdx |-> EmptyService]
    /\ made = [id \in Ids |-> NoHandler]

-----------------------------------------------------------------------------
\* Mutant: slots in use are not skipped.
FreeEndpoints_all == EpIdx

FreeEndpoints == {e \in EpIdx : endpoint_table[e].object_id = Null}

\* scdk_endpoint_create, all three resources available.
EndpointCreated(e, o, h) ==
    LET id == object_make_id(o, next_generation(object_generations[o]))
    IN  /\ TakeObjectSlot(o, EndpointType, e)
        /\ \E c \in FreeCapSlots :
               /\ IsFirst(c, FreeCapSlots)
               /\ TakeCapSlot(c, object_table', id, {Send, Bind})
        /\ endpoint_table' = [endpoint_table EXCEPT ![e] =
                                  [object_id |-> id, handler |-> h]]
        /\ made' = [made EXCEPT ![id] = h]

\* Mutant: the slot is not given back.
EndpointCapExhausted_no_rollback(e, o, h) ==
    /\ FreeCapSlots = {}
    /\ TakeObjectSlot(o, EndpointType, e)
    /\ endpoint_table' = [endpoint_table EXCEPT ![e] =
           [object_id |-> object_make_id(o, object_generations'[o]),
            handler |-> h]]
    /\ UNCHANGED <<capVars, made>>

\* scdk_endpoint_create when scdk_cap_create fails: the slot is cleared
\* again, the object stays.
EndpointCapExhausted(e, o, h) ==
    /\ FreeCapSlots = {}
    /\ TakeObjectSlot(o, EndpointType, e)
    /\ endpoint_table' = [endpoint_table EXCEPT ![e] = EmptyEndpoint]
    /\ UNCHANGED <<capVars, made>>

scdk_endpoint_create(h) ==
    /\ \E e \in FreeEndpoints, o \in FreeObjectSlots :
           /\ IsFirst(e, FreeEndpoints)
           /\ IsFirst(o, FreeObjectSlots)
           /\ EndpointCreated(e, o, h) \/ EndpointCapExhausted(e, o, h)
    /\ UNCHANGED service_table

\* The handler scdk_endpoint_call runs for token t, NoHandler when it
\* returns an error instead.
scdk_endpoint_call(t) ==
    LET id == cap_table[t[1]].object_id
        e == object_table[id[1]].payload
    IN  IF /\ scdk_cap_check(t, {Send}, EndpointType)
           /\ ObjectFound(object_table, id)
           /\ endpoint_table[e].object_id = id
        THEN endpoint_table[e].handler
        ELSE NoHandler

\* Mutant: a name already taken is not refused.
scdk_service_register_twice(s, t) ==
    /\ scdk_cap_check(t, {Bind}, EndpointType)
    /\ \E i \in SvcIdx :
           /\ IsFirst(i, {j \in SvcIdx : service_table[j].service_id = NoService})
           /\ service_table' = [service_table EXCEPT ![i] =
                                    [service_id |-> s, endpoint |-> t]]
    /\ UNCHANGED <<vars, endpoint_table, made>>

scdk_service_register(s, t) ==
    /\ scdk_cap_check(t, {Bind}, EndpointType)
    /\ \A i \in SvcIdx : service_table[i].service_id # s
    /\ \E i \in SvcIdx :
           /\ IsFirst(i, {j \in SvcIdx : service_table[j].service_id = NoService})
           /\ service_table' = [service_table EXCEPT ![i] =
                                    [service_id |-> s, endpoint |-> t]]
    /\ UNCHANGED <<vars, endpoint_table, made>>

\* The token scdk_service_lookup returns, Null for an unknown name.  The
\* token is returned as it was registered, without checking it again.
scdk_service_lookup(s) ==
    IF \E i \in SvcIdx : service_table[i].service_id = s
    THEN service_table[CHOOSE i \in SvcIdx :
             IsFirst(i, {j \in SvcIdx : service_table[j].service_id = s})].endpoint
    ELSE Null

-----------------------------------------------------------------------------
(* The other users of the two tables: objects of other types, capabilities *)
(* for those and, with any rights, for endpoints that exist, revocations.  *)

OtherObject(type, p) ==
    type # EndpointType /\ scdk_object_create(type, p) /\ UNCHANGED epVars

OtherCap(id, r) ==
    /\ object_table[id[1]].type = EndpointType => made[id] # NoHandler
    /\ scdk_cap_create(id, r)
    /\ UNCHANGED epVars

RevokeCap(t) == scdk_cap_revoke(t) /\ UNCHANGED epVars

EpNext ==
    \/ \E h \in Handlers : scdk_endpoint_create(h)
    \/ \E s \in Services, t \in Tokens : scdk_service_register(s, t)
    \/ \E type \in ObjTypes, p \in Payloads \ EpIdx : OtherObject(type, p)
    \/ \E id \in Ids, r \in SUBSET Rights : OtherCap(id, r)
    \/ \E t \in Tokens : RevokeCap(t)

EpSpec == EpInit /\ [][EpNext]_allVars

-----------------------------------------------------------------------------
(* Properties                                                              *)

\* The tables of endpoint.c hold what a create, a registration or their zero
\* initialisation wrote, and those of Capability keep their types.
EpTypeOK ==
    /\ TypeOK
    /\ endpoint_table \in [EpIdx -> [object_id : Ids, handler : Handlers]
                                    \cup {EmptyEndpoint}]
    /\ service_table \in [SvcIdx -> [service_id : Services, endpoint : Tokens]
                                    \cup {EmptyService}]
    /\ made \in [Ids -> Handlers \cup {NoHandler}]

\* Every token that passes scdk_endpoint_call's rights check reaches the
\* handler its endpoint was created with, and no other, although leaked
\* objects point at slots that now hold other endpoints and cap slots are
\* reused for other objects.
CallReachesItsHandler ==
    \A t \in Tokens :
        scdk_cap_check(t, {Send}, EndpointType) =>
            /\ scdk_endpoint_call(t) # NoHandler
            /\ scdk_endpoint_call(t) = made[cap_table[t[1]].object_id]

\* Exactly the successful creates hold an endpoint slot: a create that fails
\* on the capability table gives its slot back, so only MaxEndpoints
\* endpoints, and not MaxEndpoints attempts, fill endpoint_table.
SlotsHeldByEndpoints ==
    \A id \in Ids \ {Null} :
        made[id] # NoHandler <=>
            \E e \in EpIdx : endpoint_table[e].object_id = id

\* Once a name is registered, lookups answer with the same token for ever:
\* no later registration takes a name over or shadows it.  (A name whose
\* endpoint was revoked therefore stays bound to the dead token.)
ServiceBindingPermanent ==
    [][\A s \in Services :
          scdk_service_lookup(s) # Null =>
              /\ scdk_service_lookup(s)' = scdk_service_lookup(s)
              /\ \A i, j \in SvcIdx : /\ service_table'[i].service_id = s
                                      /\ service_table'[j].service_id = s
                                      => i = j]_allVars

=============================================================================
