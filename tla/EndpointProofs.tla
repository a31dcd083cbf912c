--------------------------- MODULE EndpointProofs ---------------------------
(***************************************************************************)
(* Proofs about endpoints and the service registry, for every size of the  *)
(* four tables, every even generation modulus and all sets of handlers and *)
(* names.                                                                  *)
(***************************************************************************)
EXTENDS Endpoint, CapabilityProofs

(***************************************************************************)
(* The inductive invariant.                                                *)
(***************************************************************************)

\* A successful create left an object of the right type whose payload is the
\* slot that names it back.
MadeInv ==
    \A id \in Ids :
        made[id] # NoHandler =>
            LET e == object_table[id[1]].payload
            IN  /\ ObjectFound(object_table, id)
                /\ object_table[id[1]].type = EndpointType
                /\ e \in EpIdx
                /\ endpoint_table[e] = [object_id |-> id, handler |-> made[id]]

\* A slot in use belongs to a successful create.
HoldersInv ==
    \A e \in EpIdx :
        endpoint_table[e] # EmptyEndpoint => made[endpoint_table[e].object_id] # NoHandler

\* No capability was ever made for an endpoint object that leaked.
NoLeakedCaps ==
    \A i \in CapIdx :
        cap_table[i] # EmptyCap /\ cap_table[i].object_type = EndpointType =>
            made[cap_table[i].object_id] # NoHandler

\* A name is in the registry at most once.
NamesInv ==
    \A i, j \in SvcIdx :
        /\ service_table[i].service_id # NoService
        /\ service_table[i].service_id = service_table[j].service_id
        => i = j

EpIInv == IInv /\ EpTypeOK /\ MadeInv /\ HoldersInv /\ NoLeakedCaps /\ NamesInv

-----------------------------------------------------------------------------
(* The zero-initialised tables.                                            *)
LEMMA InitEpIInv == EpInit => EpIInv
<1> SUFFICES ASSUME EpInit PROVE EpIInv
  OBVIOUS
<1>1. IInv
  BY InitIInv DEF EpInit
<1>2. EpTypeOK
  BY <1>1 DEF EpInit, EpTypeOK, IInv
<1>3. MadeInv /\ HoldersInv /\ NamesInv
  BY DEF EpInit, MadeInv, HoldersInv, NamesInv, EmptyEndpoint, EmptyService
<1>4. NoLeakedCaps
  BY DEF EpInit, Init, NoLeakedCaps
<1> QED
  BY <1>1, <1>2, <1>3, <1>4 DEF EpIInv

(* A new object gets an id that no endpoint has, and leaves the others.    *)
LEMMA ObjectTaken ==
    ASSUME EpIInv, NEW o \in FreeObjectSlots, NEW type \in ObjTypes, NEW p \in Payloads,
           TakeObjectSlot(o, type, p)
    PROVE  LET g == next_generation(object_generations[o])
               id == object_make_id(o, g)
           IN  /\ id \in Ids /\ id # Null /\ id[1] = o /\ id[2] = g
               /\ made[id] = NoHandler
               /\ object_table'[o] = [type |-> type, generation |-> g, payload |-> p]
               /\ ObjectFound(object_table', id)
               /\ \A x \in Ids : ObjectFound(object_table, x) =>
                      /\ x[1] # o /\ ObjectFound(object_table', x)
                      /\ object_table'[x[1]] = object_table[x[1]]
<1> DEFINE g == next_generation(object_generations[o])
           id == object_make_id(o, g)
<1>1. o \in ObjIdx /\ object_table[o].type = NoType
  BY DEF FreeObjectSlots
<1>2. g \in Generations \ {0}
  BY <1>1, NextGeneration DEF EpIInv, IInv, TypeOK
<1>3. object_table' = [object_table EXCEPT ![o] =
          [type |-> type, generation |-> g, payload |-> p]]
  BY DEF TakeObjectSlot
<1> HIDE DEF g
<1>4. id \in Ids /\ id # Null /\ id[1] = o /\ id[2] = g
  BY <1>1, <1>2 DEF Ids, object_make_id, Null
<1>5. object_table'[o] = [type |-> type, generation |-> g, payload |-> p]
  BY <1>1, <1>3 DEF EpIInv, IInv, TypeOK
<1>6. ObjectFound(object_table', id)
  BY <1>1, <1>2, <1>4, <1>5, TypesAssumption DEF ObjectFound
<1>7. ASSUME NEW x \in Ids, ObjectFound(object_table, x)
      PROVE  /\ x[1] # o /\ ObjectFound(object_table', x)
             /\ object_table'[x[1]] = object_table[x[1]]
  <2>1. x[1] # o /\ x[1] \in ObjIdx
    BY <1>1, <1>7 DEF ObjectFound
  <2>2. object_table'[x[1]] = object_table[x[1]]
    BY <1>3, <2>1 DEF EpIInv, IInv, TypeOK
  <2> QED
    BY <1>7, <2>1, <2>2 DEF ObjectFound
<1>8. made[id] = NoHandler
  BY <1>4, <1>7 DEF EpIInv, MadeInv
<1> QED
  BY <1>4, <1>5, <1>6, <1>7, <1>8 DEF g

-----------------------------------------------------------------------------
(* scdk_endpoint_create                                                    *)

(* An object and a capability for it, made in one step, keep the tables.   *)
LEMMA ObjectAndCapIInv ==
    ASSUME EpIInv, NEW o \in FreeObjectSlots, NEW c \in FreeCapSlots, NEW e \in EpIdx,
           TakeObjectSlot(o, EndpointType, e),
           TakeCapSlot(c, object_table',
                       object_make_id(o, next_generation(object_generations[o])), {Send, Bind})
    PROVE  IInv'
<1> DEFINE g == next_generation(object_generations[o])
           id == object_make_id(o, g)
           h == next_generation(cap_generations[c])
           entry == [object_id |-> id, generation |-> g, object_type |-> EndpointType,
                     revoked |-> FALSE, rights |-> {Send, Bind}]
<1>1. o \in ObjIdx /\ c \in CapIdx /\ EndpointType \in ObjTypes /\ e \in Payloads
  BY EndpointAssumption DEF FreeObjectSlots, FreeCapSlots
<1>2. /\ id \in Ids /\ id # Null /\ id[1] = o /\ id[2] = g
      /\ object_table'[o] = [type |-> EndpointType, generation |-> g, payload |-> e]
      /\ ObjectFound(object_table', id)
      /\ \A x \in Ids : ObjectFound(object_table, x) =>
             ObjectFound(object_table', x) /\ object_table'[x[1]] = object_table[x[1]]
  BY <1>1, ObjectTaken
<1>3. g \in Generations \ {0} /\ h \in Generations \ {0}
  BY <1>1, NextGeneration DEF EpIInv, IInv, TypeOK
<1>4. /\ object_generations' = [object_generations EXCEPT ![o] = g]
      /\ object_table' = [object_table EXCEPT ![o] =
             [type |-> EndpointType, generation |-> g, payload |-> e]]
  BY DEF TakeObjectSlot
<1>5. /\ cap_generations' = [cap_generations EXCEPT ![c] = h]
      /\ cap_table' = [cap_table EXCEPT ![c] = entry]
      /\ age' = Aged(c)
  <2>1. object_table'[id[1]].generation = g /\ object_table'[id[1]].type = EndpointType
    BY <1>2
  <2> QED
    BY <2>1 DEF TakeCapSlot
<1>6. entry \in [object_id : Ids, generation : Generations \ {0}, object_type : ObjTypes,
                 revoked : BOOLEAN, rights : (SUBSET Rights) \ {{}}]
  BY <1>1, <1>2, <1>3, EndpointAssumption
<1>7. entry # EmptyCap /\ entry.revoked = FALSE
  BY <1>2 DEF EmptyCap
<1>8. AgeInv'
  <2> HIDE DEF entry
  <2> QED
    BY <1>5, <1>7, TakeCapSlotAge DEF EpIInv
<1>9. entry.object_id = id /\ entry.generation = id[2] /\ entry.object_type = EndpointType
  BY <1>2
<1> HIDE DEF g, h, entry, id
<1>10. TypeOK'
  <2>1. Aged(c) \in [Tokens -> 0 .. MaxAge]
    BY GenModAssumption DEF EpIInv, IInv, TypeOK, Aged, MaxAge, Lap
  <2>2. object_table' \in [ObjIdx -> [type : ObjTypes, generation : Generations \ {0},
                                      payload : Payloads] \cup {EmptyObject}]
    BY <1>1, <1>3, <1>4 DEF EpIInv, IInv, TypeOK
  <2>3. cap_table' \in [CapIdx -> [object_id : Ids, generation : Generations \ {0},
                                   object_type : ObjTypes, revoked : BOOLEAN,
                                   rights : (SUBSET Rights) \ {{}}] \cup {EmptyCap}]
    BY <1>1, <1>5, <1>6 DEF EpIInv, IInv, TypeOK
  <2> QED
    BY <1>1, <1>3, <1>4, <1>5, <2>1, <2>2, <2>3 DEF EpIInv, IInv, TypeOK
<1>11. ObjectsInv'
  BY <1>1, <1>3, <1>4 DEF EpIInv, IInv, TypeOK, ObjectsInv
<1>12. EntriesInv'
  <2> SUFFICES ASSUME NEW i \in CapIdx, cap_table'[i] # EmptyCap
               PROVE  /\ cap_generations'[i] # 0
                      /\ ObjectFound(object_table', cap_table'[i].object_id)
                      /\ cap_table'[i].generation = cap_table'[i].object_id[2]
                      /\ object_table'[cap_table'[i].object_id[1]].type =
                             cap_table'[i].object_type
    BY DEF EntriesInv, ObjectFound
  <2>1. CASE i = c
    <3>1. cap_table'[i] = entry /\ cap_generations'[i] = h
      BY <1>1, <1>5, <2>1 DEF EpIInv, IInv, TypeOK
    <3> QED
      BY <1>2, <1>3, <1>9, <3>1
  <2>2. CASE i # c
    <3>1. cap_table'[i] = cap_table[i] /\ cap_generations'[i] = cap_generations[i]
      BY <1>1, <1>5, <2>2 DEF EpIInv, IInv, TypeOK
    <3>2. /\ cap_generations[i] # 0
          /\ ObjectFound(object_table, cap_table[i].object_id)
          /\ cap_table[i].generation = cap_table[i].object_id[2]
          /\ object_table[cap_table[i].object_id[1]].type = cap_table[i].object_type
      BY <3>1 DEF EpIInv, IInv, EntriesInv
    <3>3. cap_table[i].object_id \in Ids
      BY <3>1 DEF EpIInv, IInv, TypeOK
    <3> QED
      BY <1>2, <3>1, <3>2, <3>3
  <2> QED
    BY <2>1, <2>2
<1> QED
  BY <1>8, <1>10, <1>11, <1>12 DEF IInv

(* All three resources were there.                                         *)
LEMMA CreatedEpIInv ==
    ASSUME EpIInv, NEW h \in Handlers, NEW e \in FreeEndpoints, NEW o \in FreeObjectSlots,
           EndpointCreated(e, o, h), UNCHANGED service_table
    PROVE  EpIInv'
<1> DEFINE g == next_generation(object_generations[o])
           id == object_make_id(o, g)
           slot == [object_id |-> id, handler |-> h]
<1>1. e \in EpIdx /\ endpoint_table[e].object_id = Null /\ EndpointType \in ObjTypes /\ e \in Payloads
  BY EndpointAssumption DEF FreeEndpoints
<1>2. /\ TakeObjectSlot(o, EndpointType, e)
      /\ endpoint_table' = [endpoint_table EXCEPT ![e] = slot]
      /\ made' = [made EXCEPT ![id] = h]
  BY DEF EndpointCreated
<1>3. PICK c \in FreeCapSlots : TakeCapSlot(c, object_table', id, {Send, Bind})
  BY DEF EndpointCreated
<1>4. /\ id \in Ids /\ id # Null /\ id[1] = o /\ made[id] = NoHandler
      /\ object_table'[o] = [type |-> EndpointType, generation |-> g, payload |-> e]
      /\ ObjectFound(object_table', id)
      /\ \A x \in Ids : ObjectFound(object_table, x) =>
             /\ x[1] # o /\ ObjectFound(object_table', x)
             /\ object_table'[x[1]] = object_table[x[1]]
  BY <1>1, <1>2, ObjectTaken
<1>5. IInv'
  BY <1>1, <1>2, <1>3, ObjectAndCapIInv
<1>6. c \in CapIdx /\ cap_table'[c].object_id = id
      /\ \A i \in CapIdx : i # c => cap_table'[i] = cap_table[i]
  <2>1. c \in CapIdx
    BY <1>3 DEF FreeCapSlots
  <2> HIDE DEF id
  <2> QED
    BY <1>3, <2>1 DEF TakeCapSlot, EpIInv, IInv, TypeOK
<1> HIDE DEF id, g
<1>7. slot.object_id = id /\ slot.handler = h /\ slot \in [object_id : Ids, handler : Handlers]
  BY <1>4
<1>8. EpTypeOK'
  <2>1. endpoint_table' \in [EpIdx -> [object_id : Ids, handler : Handlers] \cup {EmptyEndpoint}]
    <3> HIDE DEF slot
    <3> QED
      BY <1>1, <1>2, <1>7 DEF EpIInv, EpTypeOK
  <2>2. made' \in [Ids -> Handlers \cup {NoHandler}]
    BY <1>2, <1>4 DEF EpIInv, EpTypeOK
  <2> QED
    BY <1>5, <2>1, <2>2 DEF EpIInv, EpTypeOK, IInv
<1>9. /\ made'[id] = h /\ h # NoHandler
      /\ \A x \in Ids : x # id => made'[x] = made[x]
      /\ endpoint_table'[e] = slot
      /\ \A k \in EpIdx : k # e => endpoint_table'[k] = endpoint_table[k]
  <2> HIDE DEF slot
  <2> QED
    BY <1>1, <1>2, <1>4, EndpointAssumption DEF EpIInv, EpTypeOK
<1>10. MadeInv'
  <2> SUFFICES ASSUME NEW x \in Ids, made'[x] # NoHandler
               PROVE  /\ ObjectFound(object_table', x)
                      /\ object_table'[x[1]].type = EndpointType
                      /\ object_table'[x[1]].payload \in EpIdx
                      /\ endpoint_table'[object_table'[x[1]].payload] =
                             [object_id |-> x, handler |-> made'[x]]
    BY DEF MadeInv, ObjectFound
  <2>1. CASE x = id
    BY <1>1, <1>4, <1>9, <2>1
  <2>2. CASE x # id
    <3>1. made'[x] = made[x]
      BY <1>9, <2>2
    <3>2. /\ ObjectFound(object_table, x) /\ object_table[x[1]].type = EndpointType
          /\ object_table[x[1]].payload \in EpIdx
          /\ endpoint_table[object_table[x[1]].payload] = [object_id |-> x, handler |-> made[x]]
      BY <3>1 DEF EpIInv, MadeInv
    <3>3. x # Null
      BY <3>2 DEF ObjectFound
    <3>4. object_table[x[1]].payload # e
      BY <1>1, <3>2, <3>3
    <3> QED
      BY <1>4, <1>9, <3>1, <3>2, <3>4
  <2> QED
    BY <2>1, <2>2
<1>11. HoldersInv'
  <2> SUFFICES ASSUME NEW k \in EpIdx, endpoint_table'[k] # EmptyEndpoint
               PROVE  made'[endpoint_table'[k].object_id] # NoHandler
    BY DEF HoldersInv
  <2>1. CASE k = e
    BY <1>7, <1>9, <2>1
  <2>2. CASE k # e
    <3>1. endpoint_table'[k] = endpoint_table[k]
      BY <1>9, <2>2
    <3>2. made[endpoint_table[k].object_id] # NoHandler
      BY <3>1 DEF EpIInv, HoldersInv
    <3>3. endpoint_table[k].object_id \in Ids
      BY <3>1 DEF EpIInv, EpTypeOK, EmptyEndpoint
    <3> QED
      BY <1>4, <1>9, <3>1, <3>2, <3>3
  <2> QED
    BY <2>1, <2>2
<1>12. NoLeakedCaps'
  <2> SUFFICES ASSUME NEW i \in CapIdx, cap_table'[i] # EmptyCap,
                      cap_table'[i].object_type = EndpointType
               PROVE  made'[cap_table'[i].object_id] # NoHandler
    BY DEF NoLeakedCaps
  <2>1. CASE i = c
    BY <1>6, <1>9, <2>1
  <2>2. CASE i # c
    <3>1. cap_table'[i] = cap_table[i]
      BY <1>6, <2>2
    <3>2. made[cap_table[i].object_id] # NoHandler
      BY <3>1 DEF EpIInv, NoLeakedCaps
    <3>3. cap_table[i].object_id \in Ids
      BY <3>1 DEF EpIInv, IInv, TypeOK
    <3> QED
      BY <1>4, <1>9, <3>1, <3>2, <3>3
  <2> QED
    BY <2>1, <2>2
<1>13. NamesInv'
  BY DEF EpIInv, NamesInv
<1> QED
  BY <1>5, <1>8, <1>10, <1>11, <1>12, <1>13 DEF EpIInv

(* An object that is made without touching the endpoints: the endpoint     *)
(* whose capability could not be made, and objects of other kinds.         *)
LEMMA ObjectEpIInv ==
    ASSUME EpIInv, NEW o \in FreeObjectSlots, NEW type \in ObjTypes, NEW p \in Payloads,
           IsFirst(o, FreeObjectSlots), TakeObjectSlot(o, type, p),
           UNCHANGED <<capVars, epVars>>
    PROVE  EpIInv'
<1>1. IInv'
  <2>1. scdk_object_create(type, p)
    BY DEF scdk_object_create
  <2> QED
    BY <2>1, ObjectCreateIInv DEF EpIInv
<1>2. \A x \in Ids : ObjectFound(object_table, x) =>
          ObjectFound(object_table', x) /\ object_table'[x[1]] = object_table[x[1]]
  BY ObjectTaken
<1>3. EpTypeOK'
  BY <1>1 DEF EpIInv, EpTypeOK, IInv, epVars
<1>4. MadeInv'
  <2> SUFFICES ASSUME NEW x \in Ids, made[x] # NoHandler
               PROVE  /\ ObjectFound(object_table', x)
                      /\ object_table'[x[1]].type = EndpointType
                      /\ object_table'[x[1]].payload \in EpIdx
                      /\ endpoint_table[object_table'[x[1]].payload] =
                             [object_id |-> x, handler |-> made[x]]
    BY DEF MadeInv, ObjectFound, epVars
  <2>1. ObjectFound(object_table, x)
    BY DEF EpIInv, MadeInv
  <2> QED
    BY <1>2, <2>1 DEF EpIInv, MadeInv
<1>5. HoldersInv' /\ NamesInv'
  BY DEF EpIInv, HoldersInv, NamesInv, epVars
<1>6. NoLeakedCaps'
  BY DEF EpIInv, NoLeakedCaps, epVars, capVars
<1> QED
  BY <1>1, <1>3, <1>4, <1>5, <1>6 DEF EpIInv

(* The whole of scdk_endpoint_create.                                      *)
LEMMA EndpointCreateEpIInv ==
    ASSUME EpIInv, NEW h \in Handlers, scdk_endpoint_create(h)
    PROVE  EpIInv'
<1>1. PICK e \in FreeEndpoints, o \in FreeObjectSlots :
          /\ IsFirst(o, FreeObjectSlots)
          /\ EndpointCreated(e, o, h) \/ EndpointCapExhausted(e, o, h)
  BY DEF scdk_endpoint_create
<1>2. UNCHANGED service_table
  BY DEF scdk_endpoint_create
<1>3. CASE EndpointCreated(e, o, h)
  BY <1>2, <1>3, CreatedEpIInv
<1>4. CASE EndpointCapExhausted(e, o, h)
  <2>1. /\ TakeObjectSlot(o, EndpointType, e) /\ UNCHANGED <<capVars, made>>
        /\ endpoint_table' = [endpoint_table EXCEPT ![e] = EmptyEndpoint]
    BY <1>4 DEF EndpointCapExhausted
  <2>2. e \in EpIdx /\ endpoint_table[e].object_id = Null
    BY DEF FreeEndpoints
  <2>3. endpoint_table[e] = EmptyEndpoint
    <3> SUFFICES ASSUME endpoint_table[e] # EmptyEndpoint PROVE FALSE
      OBVIOUS
    <3>1. made[Null] # NoHandler /\ Null \in Ids
      BY <2>2 DEF EpIInv, HoldersInv, EpTypeOK
    <3> QED
      BY <3>1 DEF EpIInv, MadeInv, ObjectFound
  <2>4. endpoint_table' = endpoint_table
    BY <2>1, <2>2, <2>3 DEF EpIInv, EpTypeOK
  <2>5. EndpointType \in ObjTypes /\ e \in Payloads
    BY <2>2, EndpointAssumption
  <2> QED
    BY <1>1, <1>2, <2>1, <2>4, <2>5, ObjectEpIInv DEF epVars
<1> QED
  BY <1>1, <1>3, <1>4

-----------------------------------------------------------------------------
(* The other operations                                                    *)

(* A name is bound where no name was.                                      *)
LEMMA RegisterEpIInv ==
    ASSUME EpIInv, NEW s \in Services, NEW t \in Tokens, scdk_service_register(s, t)
    PROVE  EpIInv'
<1> DEFINE new == [service_id |-> s, endpoint |-> t]
<1>1. PICK i \in SvcIdx : service_table' = [service_table EXCEPT ![i] = new]
  BY DEF scdk_service_register
<1>2. /\ \A j \in SvcIdx : service_table[j].service_id # s
      /\ UNCHANGED <<vars, endpoint_table, made>>
  BY DEF scdk_service_register
<1>3. IInv' /\ MadeInv' /\ HoldersInv' /\ NoLeakedCaps'
  BY <1>2 DEF EpIInv, IInv, TypeOK, ObjectsInv, EntriesInv, AgeInv, ObjectFound, MadeInv,
              HoldersInv, NoLeakedCaps, vars
<1>4. new.service_id = s /\ new \in [service_id : Services, endpoint : Tokens]
  OBVIOUS
<1> HIDE DEF new
<1>5. EpTypeOK'
  BY <1>1, <1>2, <1>3, <1>4 DEF EpIInv, EpTypeOK, IInv
<1>6. NamesInv'
  <2>1. /\ service_table'[i] = new
        /\ \A j \in SvcIdx : j # i => service_table'[j] = service_table[j]
    BY <1>1 DEF EpIInv, EpTypeOK
  <2> QED
    BY <1>2, <1>4, <2>1 DEF EpIInv, NamesInv
<1> QED
  BY <1>3, <1>5, <1>6 DEF EpIInv

(* A capability made by other code.                                        *)
LEMMA OtherCapEpIInv ==
    ASSUME EpIInv, NEW id \in Ids, NEW r \in SUBSET Rights, OtherCap(id, r)
    PROVE  EpIInv'
<1>1. IInv'
  BY CapCreateIInv DEF EpIInv, OtherCap
<1>2. UNCHANGED objVars /\ UNCHANGED epVars
  BY DEF OtherCap, scdk_cap_create
<1>3. PICK c \in FreeCapSlots : TakeCapSlot(c, object_table, id, r)
  BY DEF OtherCap, scdk_cap_create
<1>4. EpTypeOK' /\ MadeInv' /\ HoldersInv' /\ NamesInv'
  BY <1>1, <1>2 DEF EpIInv, EpTypeOK, IInv, MadeInv, ObjectFound, HoldersInv, NamesInv,
                    objVars, epVars
<1>5. NoLeakedCaps'
  <2>1. c \in CapIdx
    BY DEF FreeCapSlots
  <2>2. /\ cap_table'[c].object_id = id /\ cap_table'[c].object_type = object_table[id[1]].type
        /\ \A i \in CapIdx : i # c => cap_table'[i] = cap_table[i]
    BY <1>3, <2>1 DEF TakeCapSlot, EpIInv, IInv, TypeOK
  <2>3. object_table[id[1]].type = EndpointType => made[id] # NoHandler
    BY DEF OtherCap
  <2> QED
    BY <1>2, <2>1, <2>2, <2>3 DEF EpIInv, NoLeakedCaps, epVars
<1> QED
  BY <1>1, <1>4, <1>5 DEF EpIInv

(* A revocation.                                                           *)
LEMMA RevokeCapEpIInv ==
    ASSUME EpIInv, NEW t \in Tokens, RevokeCap(t)
    PROVE  EpIInv'
<1>1. IInv'
  BY CapRevokeIInv DEF EpIInv, RevokeCap
<1>2. /\ UNCHANGED objVars /\ UNCHANGED epVars
      /\ cap_table' = [cap_table EXCEPT ![t[1]].revoked = TRUE]
  BY DEF RevokeCap, scdk_cap_revoke
<1>3. EpTypeOK' /\ MadeInv' /\ HoldersInv' /\ NamesInv'
  BY <1>1, <1>2 DEF EpIInv, EpTypeOK, IInv, MadeInv, ObjectFound, HoldersInv, NamesInv,
                    objVars, epVars
<1>4. NoLeakedCaps'
  <2>1. t[1] \in CapIdx /\ cap_table[t[1]] # EmptyCap
    BY DEF RevokeCap, scdk_cap_revoke, scdk_cap_lookup, validate_cap_slot, EmptyCap
  <2>2. /\ cap_table'[t[1]].object_id = cap_table[t[1]].object_id
        /\ cap_table'[t[1]].object_type = cap_table[t[1]].object_type
        /\ \A i \in CapIdx : i # t[1] => cap_table'[i] = cap_table[i]
    BY <1>2, <2>1 DEF EpIInv, IInv, TypeOK, EmptyCap
  <2> QED
    BY <1>2, <2>1, <2>2 DEF EpIInv, NoLeakedCaps, epVars
<1> QED
  BY <1>1, <1>3, <1>4 DEF EpIInv

(* Every step keeps the invariant.                                         *)
LEMMA NextEpIInv == EpIInv /\ [EpNext]_allVars => EpIInv'
<1> SUFFICES ASSUME EpIInv, [EpNext]_allVars PROVE EpIInv'
  OBVIOUS
<1>1. CASE \E h \in Handlers : scdk_endpoint_create(h)
  BY <1>1, EndpointCreateEpIInv
<1>2. CASE \E s \in Services, t \in Tokens : scdk_service_register(s, t)
  BY <1>2, RegisterEpIInv
<1>3. ASSUME NEW type \in ObjTypes, NEW p \in Payloads, OtherObject(type, p)
      PROVE  EpIInv'
  <2>1. PICK o \in FreeObjectSlots : IsFirst(o, FreeObjectSlots) /\ TakeObjectSlot(o, type, p)
    BY <1>3 DEF OtherObject, scdk_object_create
  <2>2. UNCHANGED <<capVars, epVars>>
    BY <1>3 DEF OtherObject, scdk_object_create
  <2> QED
    BY <2>1, <2>2, ObjectEpIInv
<1>4. CASE \E id \in Ids, r \in SUBSET Rights : OtherCap(id, r)
  BY <1>4, OtherCapEpIInv
<1>5. CASE \E t \in Tokens : RevokeCap(t)
  BY <1>5, RevokeCapEpIInv
<1>6. CASE UNCHANGED allVars
  <2>1. IInv'
    BY <1>6, NextIInv DEF EpIInv, allVars
  <2> QED
    BY <1>6, <2>1 DEF EpIInv, EpTypeOK, IInv, MadeInv, ObjectFound, HoldersInv, NoLeakedCaps,
                      NamesInv, allVars, vars, epVars
<1> QED
  BY <1>1, <1>2, <1>3, <1>4, <1>5, <1>6 DEF EpNext

(* The invariant holds in every reachable state.                           *)
THEOREM EpSpecIInv == EpSpec => []EpIInv
<1> QED
  BY InitEpIInv, NextEpIInv, PTL DEF EpSpec

-----------------------------------------------------------------------------
(* What follows                                                            *)

(* Type correctness of the endpoint and service tables, on top of that of  *)
(* the object and capability tables.                                       *)
THEOREM EndpointsTypeCorrect == EpSpec => []EpTypeOK
<1>1. EpIInv => EpTypeOK
  BY DEF EpIInv
<1> QED
  BY <1>1, EpSpecIInv, PTL

(* Every token that passes the rights check of scdk_endpoint_call reaches  *)
(* the handler its endpoint was created with.                              *)
THEOREM CallsReachTheirHandlers == EpSpec => []CallReachesItsHandler
<1>1. ASSUME EpIInv PROVE CallReachesItsHandler
  <2> SUFFICES ASSUME NEW t \in Tokens, scdk_cap_check(t, {Send}, EndpointType)
               PROVE  /\ scdk_endpoint_call(t) # NoHandler
                      /\ scdk_endpoint_call(t) = made[cap_table[t[1]].object_id]
    BY DEF CallReachesItsHandler
  <2> DEFINE id == cap_table[t[1]].object_id
             e == object_table[id[1]].payload
  <2>1. /\ t[1] \in CapIdx /\ cap_table[t[1]] # EmptyCap
        /\ cap_table[t[1]].object_type = EndpointType
    <3>1. EndpointType # NoType
      BY TypesAssumption, EndpointAssumption
    <3> QED
      BY <3>1 DEF scdk_cap_check, scdk_cap_lookup, validate_cap_slot, EmptyCap
  <2>2. id \in Ids /\ made[id] # NoHandler
    BY <1>1, <2>1 DEF EpIInv, IInv, TypeOK, NoLeakedCaps
  <2> HIDE DEF id
  <2>3. /\ ObjectFound(object_table, id)
        /\ endpoint_table[e] = [object_id |-> id, handler |-> made[id]]
    BY <1>1, <2>2 DEF EpIInv, MadeInv
  <2>4. endpoint_table[e].object_id = id /\ endpoint_table[e].handler = made[id]
    BY <2>3
  <2>5. scdk_endpoint_call(t) = made[id]
    BY <2>3, <2>4 DEF scdk_endpoint_call, id
  <2> QED
    BY <2>2, <2>5 DEF id
<1> QED
  BY <1>1, EpSpecIInv, PTL

(* Exactly the successful creates hold a slot of endpoint_table.           *)
THEOREM OnlyEndpointsHoldSlots == EpSpec => []SlotsHeldByEndpoints
<1>1. ASSUME EpIInv PROVE SlotsHeldByEndpoints
  <2> SUFFICES ASSUME NEW id \in Ids, id # Null
               PROVE  made[id] # NoHandler <=>
                          \E e \in EpIdx : endpoint_table[e].object_id = id
    BY DEF SlotsHeldByEndpoints
  <2>1. ASSUME made[id] # NoHandler
        PROVE  \E e \in EpIdx : endpoint_table[e].object_id = id
    <3> DEFINE e == object_table[id[1]].payload
    <3>1. e \in EpIdx /\ endpoint_table[e] = [object_id |-> id, handler |-> made[id]]
      BY <1>1, <2>1 DEF EpIInv, MadeInv
    <3> QED
      BY <3>1
  <2>2. ASSUME NEW e \in EpIdx, endpoint_table[e].object_id = id
        PROVE  made[id] # NoHandler
    <3>1. endpoint_table[e] # EmptyEndpoint
      BY <2>2 DEF EmptyEndpoint
    <3> QED
      BY <1>1, <2>2, <3>1 DEF EpIInv, HoldersInv
  <2> QED
    BY <2>1, <2>2
<1> QED
  BY <1>1, EpSpecIInv, PTL

(* The only entry with a name is the one a scan for the name stops at.     *)
LEMMA ScanFindsName ==
    ASSUME NEW table, NEW s, NEW i \in SvcIdx, table[i].service_id = s,
           \A j \in SvcIdx : table[j].service_id = s => j = i
    PROVE  (CHOOSE k \in SvcIdx : IsFirst(k, {j \in SvcIdx : table[j].service_id = s})) = i
<1>1. i \in Int
  BY EndpointAssumption DEF SvcIdx
<1>2. {j \in SvcIdx : table[j].service_id = s} = {i}
  OBVIOUS
<1>3. IsFirst(i, {i})
  BY <1>1 DEF IsFirst
<1>4. \A k \in SvcIdx : IsFirst(k, {i}) => k = i
  BY DEF IsFirst
<1> QED
  BY <1>2, <1>3, <1>4

(* A name stays bound to the token it was registered with.                 *)
THEOREM ServiceBindingsStay == EpSpec => ServiceBindingPermanent
<1> DEFINE Stays ==
        \A s \in Services :
            scdk_service_lookup(s) # Null =>
                /\ scdk_service_lookup(s)' = scdk_service_lookup(s)
                /\ \A i, j \in SvcIdx : /\ service_table'[i].service_id = s
                                        /\ service_table'[j].service_id = s
                                        => i = j
<1>1. ASSUME EpIInv, EpIInv', [EpNext]_allVars PROVE Stays
  <2> SUFFICES ASSUME NEW s \in Services, scdk_service_lookup(s) # Null
               PROVE  /\ scdk_service_lookup(s)' = scdk_service_lookup(s)
                      /\ \A i, j \in SvcIdx : /\ service_table'[i].service_id = s
                                              /\ service_table'[j].service_id = s
                                              => i = j
    OBVIOUS
  <2>1. s # NoService
    BY EndpointAssumption
  <2>2. PICK i \in SvcIdx : service_table[i].service_id = s
    BY DEF scdk_service_lookup
  <2>3. service_table'[i] = service_table[i]
    <3>1. CASE UNCHANGED service_table
      BY <3>1
    <3>2. ASSUME NEW n \in Services, NEW t \in Tokens, scdk_service_register(n, t)
          PROVE  service_table'[i] = service_table[i]
      <4>1. PICK k \in SvcIdx :
                /\ service_table[k].service_id = NoService
                /\ service_table' = [service_table EXCEPT ![k] =
                                         [service_id |-> n, endpoint |-> t]]
        BY <3>2 DEF scdk_service_register, IsFirst
      <4> QED
        BY <1>1, <2>1, <2>2, <4>1 DEF EpIInv, EpTypeOK
    <3>3. \/ UNCHANGED service_table
          \/ \E n \in Services, t \in Tokens : scdk_service_register(n, t)
      BY <1>1 DEF EpNext, allVars, epVars, scdk_endpoint_create, OtherObject, OtherCap, RevokeCap
    <3> QED
      BY <3>1, <3>2, <3>3
  <2>4. \A k \in SvcIdx : service_table[k].service_id = s => k = i
    BY <1>1, <2>1, <2>2 DEF EpIInv, NamesInv
  <2>5. \A k \in SvcIdx : service_table'[k].service_id = s => k = i
    BY <1>1, <2>1, <2>2, <2>3 DEF EpIInv, NamesInv
  <2>6. scdk_service_lookup(s) = service_table[i].endpoint
    <3>1. (CHOOSE k \in SvcIdx : IsFirst(k, {j \in SvcIdx : service_table[j].service_id = s})) = i
      BY <2>2, <2>4, ScanFindsName
    <3> QED
      BY <2>2, <3>1 DEF scdk_service_lookup
  <2>7. scdk_service_lookup(s)' = service_table'[i].endpoint
    <3>1. service_table'[i].service_id = s
      BY <2>2, <2>3
    <3>2. (CHOOSE k \in SvcIdx : IsFirst(k, {j \in SvcIdx : service_table'[j].service_id = s})) = i
      BY <2>5, <3>1, ScanFindsName
    <3>3. \E k \in SvcIdx : service_table'[k].service_id = s
      BY <3>1
    <3> QED
      BY <3>2, <3>3 DEF scdk_service_lookup, IsFirst
  <2> QED
    BY <2>3, <2>5, <2>6, <2>7
<1>2. EpSpec => [][Stays]_allVars
  <2> HIDE DEF Stays
  <2>1. EpIInv /\ EpIInv' /\ [EpNext]_allVars => [Stays]_allVars
    BY <1>1
  <2> QED
    BY <2>1, EpSpecIInv, PTL DEF EpSpec
<1> QED
  BY <1>2 DEF ServiceBindingPermanent, Stays

=============================================================================
