----------------------------- MODULE Capability -----------------------------
(***************************************************************************)
(* The object table (core/object.c) and the capability table               *)
(* (core/capability.c) of the kernel.                                      *)
(*                                                                         *)
(* A 64-bit object id or capability token packs a 32-bit slot index and a  *)
(* 32-bit generation; here it is the pair <<index, generation>>, and the   *)
(* C value 0 is <<0, 0>>.  Generations are integers modulo GenMod, which   *)
(* is 2^32 in the kernel.  Rights are a set of right bits.  owner_core and *)
(* flags of an object are stored and never read back; they are left out.   *)
(*                                                                         *)
(* An operation that returns an error changes nothing; it is a stuttering  *)
(* step.  There is no operation that destroys an object.                   *)
(***************************************************************************)
EXTENDS Integers

CONSTANTS ObjTypes,    \* object types, SCDK_OBJ_NONE excluded
          NoType,      \* SCDK_OBJ_NONE
          Rights,      \* SCDK_RIGHT_* bits
          Payloads,    \* what an object's payload may point to
          NoPayload,   \* the payload of an unused slot
          MaxObjects,  \* SCDK_MAX_OBJECTS
          MaxCaps,     \* SCDK_MAX_CAPS
          GenMod       \* 2^32: generations are uint32_t

ASSUME TypesAssumption == NoType \notin ObjTypes
ASSUME PayloadAssumption == NoPayload \notin Payloads
ASSUME SizesAssumption == MaxObjects \in Nat /\ MaxCaps \in Nat
ASSUME GenModAssumption == GenMod \in Nat /\ GenMod >= 2 /\ GenMod % 2 = 0

VARIABLES object_table,        \* object_table[i] of object.c
          object_generations,  \* object_generations[i] of object.c
          cap_table,           \* cap_table[i] of capability.c
          cap_generations,     \* cap_generations[i] of capability.c
          age  \* history: for a token that was revoked, how many times the
               \* generation of its slot has been stepped since (the step of
               \* the revocation included, MaxAge standing for "many");
               \* 0 for a token never revoked

objVars == <<object_table, object_generations>>
capVars == <<cap_table, cap_generations, age>>
vars == <<object_table, object_generations, cap_table, cap_generations, age>>

ObjIdx == 0 .. MaxObjects - 1
CapIdx == 0 .. MaxCaps - 1
Generations == 0 .. GenMod - 1

object_make_id(index, generation) == <<index, generation>>
cap_make_token(index, generation) == <<index, generation>>
Null == <<0, 0>>

Ids == ObjIdx \X Generations
Tokens == CapIdx \X Generations

\* The longest run of generation steps in which no generation repeats: the
\* counter skips 0, so it takes GenMod - 1 different values.
Lap == GenMod - 1
MaxAge == 2 * Lap

EmptyObject == [type |-> NoType, generation |-> 0, payload |-> NoPayload]
EmptyCap == [object_id |-> Null, generation |-> 0, object_type |-> NoType,
             revoked |-> FALSE, rights |-> {}]

Init ==
    /\ object_table = [i \in ObjIdx |-> EmptyObject]
    /\ object_generations = [i \in ObjIdx |-> 0]
    /\ cap_table = [i \in CapIdx |-> EmptyCap]
    /\ cap_generations = [i \in CapIdx |-> 0]
    /\ age = [t \in Tokens |-> 0]

-----------------------------------------------------------------------------
(* Helpers of both tables.                                                 *)

\* Mutant: the counter is not reduced to its width.
next_generation_unbounded(g) == g + 1

\* generation + 1u in uint32_t arithmetic, with 0 skipped.
next_generation(g) == IF (g + 1) % GenMod = 0 THEN 1 ELSE (g + 1) % GenMod

\* The slot a first-fit scan stops at.
IsFirst(i, S) == i \in S /\ \A j \in S : i <= j

\* Mutant: the scan does not skip slots in use.
FreeObjectSlots_all == ObjIdx

FreeObjectSlots == {i \in ObjIdx : object_table[i].type = NoType}

FreeCapSlots ==
    {i \in CapIdx : \/ cap_table[i].object_id = Null
                    \/ cap_table[i].revoked}

-----------------------------------------------------------------------------
(* object.c                                                                *)

\* scdk_object_lookup(id, ...) == SCDK_OK when the table is objs.  The id
\* stored in an entry is the packing of its index and its generation.
ObjectFound(objs, id) ==
    /\ id # Null
    /\ id[1] \in ObjIdx
    /\ id[2] # 0
    /\ objs[id[1]].type # NoType
    /\ objs[id[1]].generation = id[2]

\* Fill object slot i.
TakeObjectSlot(i, type, payload) ==
    LET g == next_generation(object_generations[i])
    IN  /\ object_generations' = [object_generations EXCEPT ![i] = g]
        /\ object_table' = [object_table EXCEPT ![i] =
               [type |-> type, generation |-> g, payload |-> payload]]

scdk_object_create(type, payload) ==
    /\ \E i \in FreeObjectSlots :
           /\ IsFirst(i, FreeObjectSlots)
           /\ TakeObjectSlot(i, type, payload)
    /\ UNCHANGED capVars

-----------------------------------------------------------------------------
(* capability.c                                                            *)

\* The history after the generation of cap slot i is stepped once.
Aged(i) == [t \in Tokens |->
               IF t[1] = i /\ age[t] \in 1 .. MaxAge - 1 THEN age[t] + 1
                                                         ELSE age[t]]

\* Mutant: the generation of the token is not compared.
validate_cap_slot_any_generation(t) ==
    /\ t # Null
    /\ t[1] \in CapIdx
    /\ t[2] # 0
    /\ cap_table[t[1]].object_id # Null
    /\ ~cap_table[t[1]].revoked

validate_cap_slot(t) ==
    /\ t # Null
    /\ t[1] \in CapIdx
    /\ t[2] # 0
    /\ cap_generations[t[1]] = t[2]
    /\ cap_table[t[1]].object_id # Null
    /\ ~cap_table[t[1]].revoked

scdk_cap_lookup(t) ==
    /\ validate_cap_slot(t)
    /\ LET entry == cap_table[t[1]]
       IN  /\ ObjectFound(object_table, entry.object_id)
           /\ object_table[entry.object_id[1]].generation = entry.generation
           /\ object_table[entry.object_id[1]].type = entry.object_type

scdk_cap_check(t, required, expected) ==
    /\ required # {}
    /\ scdk_cap_lookup(t)
    /\ expected # NoType => cap_table[t[1]].object_type = expected
    /\ required \subseteq cap_table[t[1]].rights

\* Fill cap slot i with a capability for object id of table objs.
TakeCapSlot(i, objs, id, rights) ==
    /\ cap_generations' =
           [cap_generations EXCEPT ![i] = next_generation(@)]
    /\ cap_table' = [cap_table EXCEPT ![i] =
           [object_id |-> id, generation |-> objs[id[1]].generation,
            object_type |-> objs[id[1]].type, revoked |-> FALSE,
            rights |-> rights]]
    /\ age' = Aged(i)

scdk_cap_create(id, rights) ==
    /\ rights # {}
    /\ ObjectFound(object_table, id)
    /\ \E i \in FreeCapSlots :
           /\ IsFirst(i, FreeCapSlots)
           /\ TakeCapSlot(i, object_table, id, rights)
    /\ UNCHANGED objVars

\* Mutant: only the generation is stepped, the entry stays unrevoked.
scdk_cap_revoke_generation_only(t) ==
    /\ scdk_cap_lookup(t)
    /\ cap_generations' =
           [cap_generations EXCEPT ![t[1]] = next_generation(@)]
    /\ age' = [Aged(t[1]) EXCEPT ![t] = 1]
    /\ UNCHANGED <<objVars, cap_table>>

scdk_cap_revoke(t) ==
    /\ scdk_cap_lookup(t)
    /\ cap_table' = [cap_table EXCEPT ![t[1]].revoked = TRUE]
    /\ cap_generations' =
           [cap_generations EXCEPT ![t[1]] = next_generation(@)]
    /\ age' = [Aged(t[1]) EXCEPT ![t] = 1]
    /\ UNCHANGED objVars

-----------------------------------------------------------------------------
Next ==
    \/ \E type \in ObjTypes, p \in Payloads : scdk_object_create(type, p)
    \/ \E id \in Ids, r \in SUBSET Rights : scdk_cap_create(id, r)
    \/ \E t \in Tokens : scdk_cap_revoke(t)

Spec == Init /\ [][Next]_vars

-----------------------------------------------------------------------------
(* Properties                                                              *)

\* The tables hold what their C types allow: generations stay within
\* uint32_t, and an entry is either the zero-initialised one or was written
\* by a create.
TypeOK ==
    /\ object_table \in
           [ObjIdx -> [type : ObjTypes, generation : Generations \ {0},
                       payload : Payloads] \cup {EmptyObject}]
    /\ object_generations \in [ObjIdx -> Generations]
    /\ cap_table \in
           [CapIdx -> [object_id : Ids, generation : Generations \ {0},
                       object_type : ObjTypes, revoked : BOOLEAN,
                       rights : (SUBSET Rights) \ {{}}] \cup {EmptyCap}]
    /\ cap_generations \in [CapIdx -> Generations]
    /\ age \in [Tokens -> 0 .. MaxAge]

\* A token that was revoked is refused by every lookup and rights check, as
\* long as the generation of its slot has been stepped fewer than 2 * Lap
\* times since the revocation (2^33 - 2 in the kernel), whatever objects and
\* capabilities were created and revoked meanwhile and whoever now owns the
\* slot.  capability.c's revoke and create each step the generation; after
\* one lap, an odd number of steps, the old generation is back in a slot
\* that is revoked, and only after two laps in one that is in use.
RevokedTokenRefused ==
    \A t \in Tokens : age[t] \in 1 .. MaxAge - 1 => ~scdk_cap_lookup(t)

\* Revocation is the only thing that can make a lookup fail: an unrevoked
\* entry always names an existing object, of the type and generation that
\* were copied into the entry when it was made, so the two late checks of
\* scdk_cap_lookup never reject a current token.
LiveEntriesResolve ==
    \A i \in CapIdx \ FreeCapSlots :
        scdk_cap_lookup(cap_make_token(i, cap_generations[i]))

\* The objects that scdk_object_lookup finds and the tokens that
\* scdk_cap_lookup honours, read off the tables.
HonouredTokens == {t \in Tokens : scdk_cap_lookup(t)}
AbsObjects == [id \in {x \in Ids : ObjectFound(object_table, x)} |->
                  object_table[id[1]].type]
AbsGranted == [t \in HonouredTokens |->
                  [object |-> cap_table[t[1]].object_id,
                   rights |-> cap_table[t[1]].rights]]

Abs == INSTANCE CapabilityAbstract
         WITH Types <- ObjTypes, objects <- AbsObjects, granted <- AbsGranted

\* The tables implement the abstract capability store: a create makes one
\* token valid that was not, a revoke invalidates exactly one, and no
\* operation changes the object or the rights behind any other token, even
\* when slots are reused and generations wrap.
ImplementsAbstract == Abs!Spec

\* docs/invariants-m30.md:17 and capability.h state it without the bound on
\* generation steps: a revoked token fails every future lookup.
RevokedTokenNeverHonoured ==
    \A t \in Tokens : age[t] > 0 => ~scdk_cap_lookup(t)

=============================================================================
