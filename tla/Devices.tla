------------------------------- MODULE Devices -------------------------------
(***************************************************************************)
(* The device manager (services/devmgr_service.c) over the object and      *)
(* capability tables.                                                      *)
(*                                                                         *)
(* A registration takes a device slot and a queue slot, then makes an      *)
(* object and a capability for each; the slots are filled only at the end. *)
(* One that fails on the way leaves its objects and its first capability   *)
(* behind, pointing at slots that the next registration gets.  The steps   *)
(* of a registration are not interleaved with other operations.            *)
(***************************************************************************)
EXTENDS Capability

CONSTANTS DeviceType, QueueType, EndpointType,  \* SCDK_OBJ_*
          Read, Write, Bind, RevokeRight, Send, \* SCDK_RIGHT_*
          MaxDevices, MaxQueues,                \* SCDK_DEVMGR_MAX_*
          Endpoint                              \* id of an endpoint that exists

DevIdx == 0 .. MaxDevices - 1
QueueIdx == 0 .. MaxQueues - 1

VARIABLES devices, queues,  \* the tables of devmgr_service.c
          reg,              \* the registration in progress
          issued            \* history: the pair of objects each successful
                            \* registration returned tokens for

devVars == <<devices, queues, reg, issued>>
allVars == <<vars, devVars>>

EmptyDevice == [object_id |-> Null, cap |-> Null, present |-> FALSE]
EmptyQueue == [object_id |-> Null, cap |-> Null, device_id |-> Null,
               bound_target |-> Null, present |-> FALSE]
NoReg == [pc |-> "idle", device |-> Null, device_cap |-> Null, queue |-> Null, queue_cap |-> Null]

\* One endpoint exists, with one token for it.
DevInit ==
    /\ object_table = [i \in ObjIdx |-> IF i = Endpoint[1]
           THEN [type |-> EndpointType, generation |-> 1, payload |-> NoPayload] ELSE EmptyObject]
    /\ object_generations = [i \in ObjIdx |-> IF i = Endpoint[1] THEN 1 ELSE 0]
    /\ cap_table = [i \in CapIdx |-> IF i = 0
           THEN [object_id |-> Endpoint, generation |-> 1, object_type |-> EndpointType,
                 revoked |-> FALSE, rights |-> {Send}] ELSE EmptyCap]
    /\ cap_generations = [i \in CapIdx |-> IF i = 0 THEN 1 ELSE 0]
    /\ age = [t \in Tokens |-> 0]
    /\ devices = [i \in DevIdx |-> EmptyDevice]
    /\ queues = [i \in QueueIdx |-> EmptyQueue]
    /\ reg = NoReg /\ issued = {}

-----------------------------------------------------------------------------
alloc_device_slot == {i \in DevIdx : ~devices[i].present}
alloc_queue_slot == {i \in QueueIdx : ~queues[i].present}

\* The token reaches the queue slot its object points at.
devmgr_queue_from_cap(t, required) ==
    LET id == cap_table[t[1]].object_id
        queue == queues[object_table[id[1]].payload]
    IN  /\ scdk_cap_check(t, required, QueueType)
        /\ queue.object_id = id /\ queue.present

\* The four acquisitions.  A failure ends the registration as it stands.
RegisterStarts ==
    /\ reg.pc = "idle" /\ alloc_device_slot # {} /\ alloc_queue_slot # {}
    /\ reg' = [NoReg EXCEPT !.pc = "device"]
    /\ UNCHANGED <<vars, devices, queues, issued>>

MakeObject(pc, next, field, type, slots) ==
    /\ reg.pc = pc
    /\ \/ \E o \in FreeObjectSlots, s \in slots :
              /\ IsFirst(o, FreeObjectSlots) /\ IsFirst(s, slots)
              /\ TakeObjectSlot(o, type, s)
              /\ reg' = [reg EXCEPT !.pc = next,
                                    ![field] = object_make_id(o, object_generations'[o])]
       \/ FreeObjectSlots = {} /\ reg' = NoReg /\ UNCHANGED objVars
    /\ UNCHANGED <<capVars, devices, queues, issued>>

MakeCap(pc, next, field, object, rights) ==
    /\ reg.pc = pc
    /\ \/ \E c \in FreeCapSlots :
              /\ IsFirst(c, FreeCapSlots)
              /\ TakeCapSlot(c, object_table, object, rights)
              /\ reg' = [reg EXCEPT !.pc = next,
                                    ![field] = cap_make_token(c, cap_generations'[c])]
       \/ FreeCapSlots = {} /\ reg' = NoReg /\ UNCHANGED capVars
    /\ UNCHANGED <<objVars, devices, queues, issued>>

MakeDevice == MakeObject("device", "devcap", "device", DeviceType, alloc_device_slot)
MakeDeviceCap == MakeCap("devcap", "queue", "device_cap", reg.device, {Read, Bind, RevokeRight})
MakeQueue == MakeObject("queue", "queuecap", "queue", QueueType, alloc_queue_slot)
MakeQueueCap == MakeCap("queuecap", "fill", "queue_cap", reg.queue, {Read, Write, Bind, RevokeRight})

\* Mutant: the slot does not learn its new object.
FilledQueue_keeps_object(old) ==
    [object_id |-> old.object_id, cap |-> reg.queue_cap, device_id |-> reg.device,
     bound_target |-> Null, present |-> TRUE]

FilledQueue(old) ==
    [object_id |-> reg.queue, cap |-> reg.queue_cap, device_id |-> reg.device,
     bound_target |-> Null, present |-> TRUE]

\* Both slots are filled, both tokens returned.
RegisterFills ==
    /\ reg.pc = "fill" /\ reg' = NoReg
    /\ \E d \in alloc_device_slot, q \in alloc_queue_slot :
           /\ IsFirst(d, alloc_device_slot) /\ IsFirst(q, alloc_queue_slot)
           /\ devices' = [devices EXCEPT ![d] = [object_id |-> reg.device,
                                                 cap |-> reg.device_cap, present |-> TRUE]]
           /\ queues' = [queues EXCEPT ![q] = FilledQueue(queues[q])]
    /\ issued' = issued \cup {<<reg.device, reg.queue>>}
    /\ UNCHANGED vars

devmgr_register_fake_device ==
    RegisterStarts \/ MakeDevice \/ MakeDeviceCap \/ MakeQueue \/ MakeQueueCap \/ RegisterFills

devmgr_bind_queue(t, target) ==
    /\ reg.pc = "idle"
    /\ scdk_cap_check(target, {Send}, EndpointType)
    /\ devmgr_queue_from_cap(t, {Bind})
    /\ LET q == object_table[cap_table[t[1]].object_id[1]].payload
       IN  queues' = [queues EXCEPT ![q].bound_target = target]
    /\ UNCHANGED <<vars, devices, reg, issued>>

RevokeCap(t) == reg.pc = "idle" /\ scdk_cap_revoke(t) /\ UNCHANGED devVars

DevNext ==
    \/ devmgr_register_fake_device
    \/ \E t, target \in HonouredTokens : devmgr_bind_queue(t, target)
    \/ \E t \in HonouredTokens : RevokeCap(t)

DevSpec == DevInit /\ [][DevNext]_allVars

-----------------------------------------------------------------------------
(* Properties                                                              *)

\* The types of the state.
DevTypeOK ==
    /\ devices \in [DevIdx -> [object_id : Ids, cap : Tokens, present : BOOLEAN]]
    /\ queues \in [QueueIdx -> [object_id : Ids, cap : Tokens, device_id : Ids,
                                bound_target : Tokens, present : BOOLEAN]]
    /\ cap_generations \in [CapIdx -> Generations]

\* A bind accepts a queue token only if a registration returned it, and then
\* reaches the queue of that registration's device; every returned queue can
\* be reached by a live token of its own, whatever failed registrations left
\* pointing at the same slot.
QueueTokensReachTheirQueue ==
    \A t \in Tokens :
        scdk_cap_check(t, {Bind}, QueueType) =>
            LET id == cap_table[t[1]].object_id
                queue == queues[object_table[id[1]].payload]
            IN  devmgr_queue_from_cap(t, {Bind}) <=> <<queue.device_id, id>> \in issued

\* Slots are taken in pairs, and only by registrations that returned their
\* tokens: whatever step one fails at, it gives both slots back.
SlotsHeldByRegistrations ==
    issued = {<<devices[i].object_id, queues[j].object_id>> :
                 i \in DevIdx \ alloc_device_slot, j \in QueueIdx \ alloc_queue_slot}
             \cap {<<queues[j].device_id, queues[j].object_id>> : j \in QueueIdx}
    /\ \A i \in DevIdx, j \in QueueIdx : i = j => devices[i].present = queues[j].present

=============================================================================
