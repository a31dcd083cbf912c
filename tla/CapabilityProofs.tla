-------------------------- MODULE CapabilityProofs --------------------------
(***************************************************************************)
(* Proofs about the object and capability tables, for every table size,    *)
(* every set of types, rights and payloads and every even generation       *)
(* modulus.                                                                *)
(***************************************************************************)
EXTENDS Capability, TLAPS

(***************************************************************************)
(* The inductive invariant.                                                *)
(***************************************************************************)

\* An object slot in use carries the generation of its slot.
ObjectsInv ==
    \A i \in ObjIdx :
        object_table[i] # EmptyObject =>
            object_table[i].generation = object_generations[i]

\* A cap entry that was ever written, revoked or not, names an object that
\* exists, with its type and generation; its slot's generation has left 0.
EntriesInv ==
    \A i \in CapIdx :
        cap_table[i] # EmptyCap =>
            /\ cap_generations[i] # 0
            /\ ObjectFound(object_table, cap_table[i].object_id)
            /\ cap_table[i].generation = cap_table[i].object_id[2]
            /\ object_table[cap_table[i].object_id[1]].type =
                   cap_table[i].object_type

\* Where the generation of a slot stands relative to a token revoked from
\* it: k laps have been completed since, and since creates and revokes of a
\* slot alternate, the slot is revoked after an odd number of steps.
AgeInv ==
    \A t \in Tokens :
        age[t] > 0 =>
            /\ t[2] # 0
            /\ cap_table[t[1]] # EmptyCap
            /\ age[t] < MaxAge =>
                 /\ \/ cap_generations[t[1]] = t[2] + age[t]
                    \/ cap_generations[t[1]] = t[2] + age[t] - Lap
                    \/ cap_generations[t[1]] = t[2] + age[t] - 2 * Lap
                 /\ age[t] % 2 = IF cap_table[t[1]].revoked THEN 1 ELSE 0

IInv == TypeOK /\ ObjectsInv /\ EntriesInv /\ AgeInv

-----------------------------------------------------------------------------
(* Stepping a generation stays in range, never yields 0, and adds one or   *)
(* wraps from the largest generation to 1.                                 *)
LEMMA NextGeneration ==
    ASSUME NEW g \in Generations
    PROVE  /\ next_generation(g) \in Generations \ {0}
           /\ next_generation(g) = IF g = Lap THEN 1 ELSE g + 1
<1>1. CASE g = Lap
  BY <1>1, GenModAssumption DEF Lap, next_generation, Generations
<1>2. CASE g # Lap
  <2>1. g + 1 \in 1 .. GenMod - 1
    BY <1>2, GenModAssumption DEF Lap, Generations
  <2>2. (g + 1) % GenMod = g + 1
    BY <2>1, GenModAssumption
  <2> QED
    BY <1>2, <2>1, <2>2, GenModAssumption DEF next_generation, Generations
<1> QED
  BY <1>1, <1>2

-----------------------------------------------------------------------------
(* Zero-initialised tables satisfy the inductive invariant.                *)
LEMMA InitIInv == Init => IInv
<1> SUFFICES ASSUME Init PROVE IInv
  OBVIOUS
<1>1. TypeOK
  <2>1. MaxAge \in Nat /\ 0 \in Generations
    BY GenModAssumption DEF MaxAge, Lap, Generations
  <2> QED
    BY <2>1 DEF Init, TypeOK
<1>2. ObjectsInv /\ EntriesInv
  BY DEF Init, ObjectsInv, EntriesInv
<1>3. AgeInv
  BY DEF Init, AgeInv
<1> QED
  BY <1>1, <1>2, <1>3 DEF IInv

(* scdk_object_create fills a slot no capability refers to.                *)
LEMMA ObjectCreateIInv ==
    ASSUME IInv, NEW type \in ObjTypes, NEW p \in Payloads,
           scdk_object_create(type, p)
    PROVE  IInv'
<1>1. PICK i \in FreeObjectSlots : TakeObjectSlot(i, type, p)
  BY DEF scdk_object_create
<1>2. i \in ObjIdx /\ object_table[i].type = NoType
  BY <1>1 DEF FreeObjectSlots
<1>3. UNCHANGED capVars
  BY DEF scdk_object_create
<1> DEFINE g == next_generation(object_generations[i])
<1>4. g \in Generations \ {0}
  BY <1>2, NextGeneration DEF IInv, TypeOK
<1>5. /\ object_generations' = [object_generations EXCEPT ![i] = g]
      /\ object_table' = [object_table EXCEPT ![i] =
             [type |-> type, generation |-> g, payload |-> p]]
  BY <1>1 DEF TakeObjectSlot
<1> HIDE DEF g
<1>6. TypeOK'
  BY <1>2, <1>3, <1>4, <1>5 DEF IInv, TypeOK, capVars
<1>7. ObjectsInv'
  BY <1>2, <1>4, <1>5 DEF IInv, TypeOK, ObjectsInv
<1>8. EntriesInv'
  BY <1>2, <1>3, <1>5
     DEF IInv, TypeOK, EntriesInv, ObjectFound, capVars
<1>9. AgeInv'
  BY <1>3 DEF IInv, AgeInv, capVars
<1> QED
  BY <1>6, <1>7, <1>8, <1>9 DEF IInv

(* One generation step of cap slot i keeps the distance between a revoked  *)
(* token and the slot's generation, modulo laps.                           *)
LEMMA AgedDistance ==
    ASSUME IInv, NEW i \in CapIdx, NEW t \in Tokens, t[1] = i,
           age[t] > 0, Aged(i)[t] < MaxAge
    PROVE  LET g == next_generation(cap_generations[i])
           IN  /\ age[t] < MaxAge
               /\ Aged(i)[t] = age[t] + 1
               /\ \/ g = t[2] + Aged(i)[t]
                  \/ g = t[2] + Aged(i)[t] - Lap
                  \/ g = t[2] + Aged(i)[t] - 2 * Lap
<1> DEFINE g == next_generation(cap_generations[i])
<1>1. /\ Lap \in Nat /\ Lap >= 1 /\ MaxAge = 2 * Lap
      /\ Generations = 0 .. Lap
  BY GenModAssumption DEF Lap, MaxAge, Generations
<1>2. age[t] \in 1 .. MaxAge /\ t[2] \in 0 .. Lap
  BY <1>1 DEF IInv, TypeOK, Tokens
<1>3. age[t] # MaxAge /\ Aged(i)[t] = age[t] + 1
  BY <1>1, <1>2 DEF Aged
<1>4. /\ t[2] # 0
      /\ \/ cap_generations[i] = t[2] + age[t]
         \/ cap_generations[i] = t[2] + age[t] - Lap
         \/ cap_generations[i] = t[2] + age[t] - 2 * Lap
  <2>1. age[t] > 0 /\ age[t] < MaxAge
    BY <1>1, <1>2, <1>3
  <2> QED
    BY <2>1 DEF IInv, AgeInv
<1>5. cap_generations[i] \in Generations
  BY DEF IInv, TypeOK
<1>6. g = IF cap_generations[i] = Lap THEN 1 ELSE cap_generations[i] + 1
  BY <1>5, NextGeneration
<1> HIDE DEF g
<1>7. \/ g = t[2] + (age[t] + 1)
      \/ g = t[2] + (age[t] + 1) - Lap
      \/ g = t[2] + (age[t] + 1) - 2 * Lap
  <2>1. cap_generations[i] \in 0 .. Lap
    BY <1>1, <1>5
  <2> DEFINE c == cap_generations[i]
             a == age[t]
             b == t[2]
  <2>2. /\ c \in 0 .. Lap /\ a \in 1 .. 2 * Lap - 1 /\ b \in 1 .. Lap
        /\ c = b + a \/ c = b + a - Lap \/ c = b + a - 2 * Lap
        /\ g = IF c = Lap THEN 1 ELSE c + 1
    BY <2>1, <1>1, <1>2, <1>3, <1>4, <1>6
  <2> HIDE DEF a, b, c
  <2>3. g = b + (a + 1) \/ g = b + (a + 1) - Lap \/ g = b + (a + 1) - 2 * Lap
    <3>1. CASE c = Lap
      BY <1>1, <2>2, <3>1
    <3>2. CASE c # Lap
      BY <1>1, <2>2, <3>2
    <3> QED
      BY <3>1, <3>2
  <2> QED
    BY <2>3 DEF a, b, c
<1> QED
  BY <1>1, <1>2, <1>3, <1>7 DEF g

(* Filling a cap slot that is empty or revoked keeps the ages.             *)
LEMMA TakeCapSlotAge ==
    ASSUME IInv, NEW i \in FreeCapSlots, NEW entry,
           entry # EmptyCap, entry.revoked = FALSE,
           cap_generations' =
               [cap_generations EXCEPT ![i] = next_generation(cap_generations[i])],
           cap_table' = [cap_table EXCEPT ![i] = entry],
           age' = Aged(i)
    PROVE  AgeInv'
<1> DEFINE g == next_generation(cap_generations[i])
<1> SUFFICES ASSUME NEW t \in Tokens, age'[t] > 0
             PROVE  /\ t[2] # 0
                    /\ cap_table'[t[1]] # EmptyCap
                    /\ age'[t] < MaxAge =>
                       /\ \/ cap_generations'[t[1]] = t[2] + age'[t]
                          \/ cap_generations'[t[1]] = t[2] + age'[t] - Lap
                          \/ cap_generations'[t[1]] = t[2] + age'[t] - 2 * Lap
                       /\ age'[t] % 2 =
                              IF cap_table'[t[1]].revoked THEN 1 ELSE 0
  BY DEF AgeInv
<1> HIDE DEF g
<1>1. /\ i \in CapIdx
      /\ cap_table[i].object_id = Null \/ cap_table[i].revoked
  BY DEF FreeCapSlots
<1>2. age[t] \in 0 .. MaxAge /\ age[t] > 0 /\ t[1] \in CapIdx
  <2>1. age[t] \in 0 .. MaxAge /\ t[1] \in CapIdx
    BY DEF IInv, TypeOK, Tokens
  <2> QED
    BY <2>1 DEF Aged
<1>3. t[2] # 0 /\ cap_table[t[1]] # EmptyCap
  BY <1>2 DEF IInv, AgeInv
<1>4. CASE t[1] # i
  <2>1. /\ age'[t] = age[t] /\ cap_table'[t[1]] = cap_table[t[1]]
        /\ cap_generations'[t[1]] = cap_generations[t[1]]
    BY <1>1, <1>2, <1>4 DEF Aged, IInv, TypeOK
  <2> QED
    BY <1>2, <1>3, <2>1 DEF IInv, AgeInv
<1>5. CASE t[1] = i
  <2>1. cap_table'[i] = entry /\ cap_generations'[i] = g
    BY <1>1 DEF IInv, TypeOK, g
  <2>2. ASSUME age'[t] < MaxAge
        PROVE  /\ \/ g = t[2] + age'[t]
                  \/ g = t[2] + age'[t] - Lap
                  \/ g = t[2] + age'[t] - 2 * Lap
               /\ age[t] < MaxAge /\ age'[t] = age[t] + 1
    BY <1>1, <1>2, <1>5, <2>2, AgedDistance DEF g
  <2>3. ASSUME age'[t] < MaxAge PROVE age'[t] % 2 = 0
    <3>1. cap_table[i].revoked
      <4>1. cap_table[i].object_id # Null
        BY <1>1, <1>3, <1>5 DEF IInv, EntriesInv, ObjectFound
      <4> QED
        BY <1>1, <4>1
    <3>2. age[t] % 2 = 1
      BY <1>2, <1>5, <2>2, <2>3, <3>1 DEF IInv, AgeInv
    <3> QED
      BY <1>2, <2>2, <2>3, <3>2
  <2> QED
    BY <1>3, <1>5, <2>1, <2>2, <2>3
<1> QED
  BY <1>4, <1>5

(* scdk_cap_create fills a slot that is empty or revoked.                  *)
LEMMA CapCreateIInv ==
    ASSUME IInv, NEW id \in Ids, NEW rights \in SUBSET Rights,
           scdk_cap_create(id, rights)
    PROVE  IInv'
<1>1. PICK i \in FreeCapSlots : TakeCapSlot(i, object_table, id, rights)
  BY DEF scdk_cap_create
<1>2. /\ i \in CapIdx
      /\ cap_table[i].object_id = Null \/ cap_table[i].revoked
  BY <1>1 DEF FreeCapSlots
<1>3. UNCHANGED objVars /\ ObjectFound(object_table, id) /\ rights # {}
  BY DEF scdk_cap_create
<1> DEFINE g == next_generation(cap_generations[i])
           entry == [object_id |-> id,
                     generation |-> object_table[id[1]].generation,
                     object_type |-> object_table[id[1]].type,
                     revoked |-> FALSE, rights |-> rights]
<1>4. g \in Generations \ {0}
  BY <1>2, NextGeneration DEF IInv, TypeOK
<1>5. /\ cap_generations' = [cap_generations EXCEPT ![i] = g]
      /\ cap_table' = [cap_table EXCEPT ![i] = entry]
      /\ age' = Aged(i)
  BY <1>1 DEF TakeCapSlot
<1>6. /\ entry.object_id = id
      /\ entry.generation = id[2] /\ entry.generation \in Generations \ {0}
      /\ entry.object_type = object_table[id[1]].type
      /\ entry.object_type \in ObjTypes
      /\ entry.revoked = FALSE /\ entry.rights = rights
      /\ entry \in [object_id : Ids, generation : Generations \ {0},
                    object_type : ObjTypes, revoked : BOOLEAN,
                    rights : (SUBSET Rights) \ {{}}]
  BY <1>3 DEF IInv, TypeOK, ObjectFound, EmptyObject, Ids
<1> HIDE DEF g, entry
<1>7. TypeOK'
  <2>1. Aged(i) \in [Tokens -> 0 .. MaxAge]
    BY GenModAssumption DEF IInv, TypeOK, Aged, MaxAge, Lap
  <2> QED
    BY <1>2, <1>3, <1>4, <1>5, <1>6, <2>1 DEF IInv, TypeOK, objVars
<1>8. ObjectsInv'
  BY <1>3 DEF IInv, ObjectsInv, objVars
<1>9. EntriesInv'
  BY <1>2, <1>3, <1>4, <1>5, <1>6
     DEF IInv, TypeOK, EntriesInv, ObjectFound, objVars
<1>10. AgeInv'
  <2>1. entry # EmptyCap
    BY <1>3, <1>6 DEF EmptyCap, ObjectFound
  <2> QED
    BY <1>1, <1>5, <1>6, <2>1, TakeCapSlotAge DEF g
<1> QED
  BY <1>7, <1>8, <1>9, <1>10 DEF IInv

(* scdk_cap_revoke marks a live slot and starts the age of one token.      *)
LEMMA CapRevokeIInv ==
    ASSUME IInv, NEW r \in Tokens, scdk_cap_revoke(r)
    PROVE  IInv'
<1> DEFINE i == r[1]
           g == next_generation(cap_generations[i])
<1>1. /\ i \in CapIdx /\ r[2] # 0 /\ cap_generations[i] = r[2]
      /\ cap_table[i].object_id # Null /\ ~cap_table[i].revoked
  BY DEF scdk_cap_revoke, scdk_cap_lookup, validate_cap_slot
<1>2. /\ cap_table[i] # EmptyCap
      /\ cap_table[i] \in
           [object_id : Ids, generation : Generations \ {0},
            object_type : ObjTypes, revoked : BOOLEAN,
            rights : (SUBSET Rights) \ {{}}]
  BY <1>1 DEF IInv, TypeOK, EmptyCap
<1>3. /\ UNCHANGED objVars
      /\ cap_table' = [cap_table EXCEPT ![i].revoked = TRUE]
      /\ cap_generations' = [cap_generations EXCEPT ![i] = g]
      /\ age' = [Aged(i) EXCEPT ![r] = 1]
  BY DEF scdk_cap_revoke
<1>4. /\ g \in Generations \ {0}
      /\ g = IF r[2] = Lap THEN 1 ELSE r[2] + 1
  BY <1>1, NextGeneration DEF IInv, TypeOK
<1> HIDE DEF g
<1>5. /\ cap_table'[i] # EmptyCap /\ cap_table'[i].revoked
      /\ cap_table'[i].object_id = cap_table[i].object_id
      /\ cap_table'[i].generation = cap_table[i].generation
      /\ cap_table'[i].object_type = cap_table[i].object_type
      /\ cap_generations'[i] = g
  BY <1>1, <1>2, <1>3 DEF IInv, TypeOK, EmptyCap
<1>6. \A j \in CapIdx : j # i => /\ cap_table'[j] = cap_table[j]
                                 /\ cap_generations'[j] = cap_generations[j]
  BY <1>3 DEF IInv, TypeOK
<1>7. TypeOK'
  <2>1. age' \in [Tokens -> 0 .. MaxAge]
    <3>1. Aged(i) \in [Tokens -> 0 .. MaxAge] /\ 1 \in 0 .. MaxAge
      BY GenModAssumption DEF IInv, TypeOK, Aged, MaxAge, Lap
    <3> QED
      BY <1>3, <3>1
  <2>2. cap_table' \in
           [CapIdx -> [object_id : Ids, generation : Generations \ {0},
                       object_type : ObjTypes, revoked : BOOLEAN,
                       rights : (SUBSET Rights) \ {{}}] \cup {EmptyCap}]
    BY <1>1, <1>2, <1>3 DEF IInv, TypeOK
  <2> QED
    BY <1>1, <1>3, <1>4, <2>1, <2>2 DEF IInv, TypeOK, objVars
<1>8. ObjectsInv'
  BY <1>3 DEF IInv, ObjectsInv, objVars
<1>9. EntriesInv'
  BY <1>1, <1>2, <1>3, <1>4, <1>5, <1>6
     DEF IInv, EntriesInv, ObjectFound, objVars
<1>10. AgeInv'
  <2> SUFFICES ASSUME NEW t \in Tokens, age'[t] > 0
               PROVE  /\ t[2] # 0
                      /\ cap_table'[t[1]] # EmptyCap
                      /\ age'[t] < MaxAge =>
                         /\ \/ cap_generations'[t[1]] = t[2] + age'[t]
                            \/ cap_generations'[t[1]] = t[2] + age'[t] - Lap
                            \/ cap_generations'[t[1]] = t[2] + age'[t] - 2 * Lap
                         /\ age'[t] % 2 =
                                IF cap_table'[t[1]].revoked THEN 1 ELSE 0
    BY DEF AgeInv
  <2>1. CASE t = r
    <3>1. age'[t] = 1
      BY <1>3, <2>1 DEF Aged
    <3>2. g = r[2] + 1 \/ g = r[2] + 1 - Lap
      BY <1>4, GenModAssumption DEF Lap
    <3> QED
      BY <1>1, <1>5, <2>1, <3>1, <3>2
  <2>2. CASE t # r
    <3>1. age'[t] = Aged(i)[t]
      BY <1>3, <2>2 DEF Aged
    <3>2. age[t] \in 0 .. MaxAge /\ age[t] > 0 /\ t[1] \in CapIdx
      <4>1. age[t] \in 0 .. MaxAge /\ t[1] \in CapIdx
        BY DEF IInv, TypeOK, Tokens
      <4> QED
        BY <3>1, <4>1 DEF Aged
    <3>3. t[2] # 0 /\ cap_table[t[1]] # EmptyCap
      BY <3>2 DEF IInv, AgeInv
    <3>4. CASE t[1] # i
      <4>1. /\ age'[t] = age[t] /\ cap_table'[t[1]] = cap_table[t[1]]
            /\ cap_generations'[t[1]] = cap_generations[t[1]]
        BY <1>6, <3>1, <3>2, <3>4 DEF Aged
      <4> QED
        BY <3>2, <3>3, <4>1 DEF IInv, AgeInv
    <3>5. CASE t[1] = i
      <4>1. ASSUME age'[t] < MaxAge
            PROVE  /\ \/ g = t[2] + age'[t]
                      \/ g = t[2] + age'[t] - Lap
                      \/ g = t[2] + age'[t] - 2 * Lap
                   /\ age[t] < MaxAge /\ age'[t] = age[t] + 1
        BY <1>1, <3>1, <3>2, <3>5, <4>1, AgedDistance DEF g
      <4>2. ASSUME age'[t] < MaxAge PROVE age'[t] % 2 = 1
        <5>1. age[t] % 2 = 0
          BY <1>1, <3>2, <3>5, <4>1, <4>2 DEF IInv, AgeInv
        <5> QED
          BY <3>2, <4>1, <4>2, <5>1
      <4> QED
        BY <1>5, <3>3, <3>5, <4>1, <4>2
    <3> QED
      BY <3>4, <3>5
  <2> QED
    BY <2>1, <2>2
<1> QED
  BY <1>7, <1>8, <1>9, <1>10 DEF IInv

(* Every operation of object.c and capability.c preserves the invariant.   *)
LEMMA NextIInv == IInv /\ [Next]_vars => IInv'
<1> SUFFICES ASSUME IInv, [Next]_vars PROVE IInv'
  OBVIOUS
<1>1. CASE \E type \in ObjTypes, p \in Payloads : scdk_object_create(type, p)
  BY <1>1, ObjectCreateIInv
<1>2. CASE \E id \in Ids, r \in SUBSET Rights : scdk_cap_create(id, r)
  BY <1>2, CapCreateIInv
<1>3. CASE \E t \in Tokens : scdk_cap_revoke(t)
  BY <1>3, CapRevokeIInv
<1>4. CASE UNCHANGED vars
  BY <1>4 DEF vars, IInv, TypeOK, ObjectsInv, EntriesInv, AgeInv, ObjectFound
<1> QED
  BY <1>1, <1>2, <1>3, <1>4 DEF Next

(* The inductive invariant holds in every reachable state.                 *)
THEOREM SpecIInv == Spec => []IInv
<1> QED
  BY InitIInv, NextIInv, PTL DEF Spec

-----------------------------------------------------------------------------
(* Type correctness: every table entry and generation stays within what    *)
(* object.c and capability.c declare.                                      *)
THEOREM TypeCorrect == Spec => []TypeOK
<1>1. IInv => TypeOK
  BY DEF IInv
<1> QED
  BY <1>1, SpecIInv, PTL

(* The object checks of scdk_cap_lookup never reject what                  *)
(* validate_cap_slot accepts.                                              *)
LEMMA LookupIsValidate ==
    ASSUME IInv, NEW t \in Tokens
    PROVE  scdk_cap_lookup(t) <=> validate_cap_slot(t)
<1> SUFFICES ASSUME validate_cap_slot(t) PROVE scdk_cap_lookup(t)
  BY DEF scdk_cap_lookup
<1>1. t[1] \in CapIdx /\ cap_table[t[1]] # EmptyCap
  BY DEF validate_cap_slot, EmptyCap
<1> QED
  BY <1>1 DEF IInv, EntriesInv, ObjectFound, scdk_cap_lookup

(* An unrevoked capability always resolves: nothing but its revocation     *)
(* makes scdk_cap_lookup fail for it.                                      *)
THEOREM LiveEntriesAlwaysResolve == Spec => []LiveEntriesResolve
<1>1. ASSUME IInv PROVE LiveEntriesResolve
  <2> SUFFICES ASSUME NEW i \in CapIdx, i \notin FreeCapSlots
               PROVE  scdk_cap_lookup(cap_make_token(i, cap_generations[i]))
    BY DEF LiveEntriesResolve
  <2> DEFINE t == <<i, cap_generations[i]>>
  <2>1. cap_table[i].object_id # Null /\ ~cap_table[i].revoked
    BY DEF FreeCapSlots
  <2>2. cap_table[i] # EmptyCap
    BY <2>1 DEF EmptyCap
  <2>3. cap_generations[i] # 0 /\ cap_generations[i] \in Generations
    BY <1>1, <2>2 DEF IInv, EntriesInv, TypeOK
  <2>4. t \in Tokens /\ validate_cap_slot(t)
    BY <2>1, <2>3 DEF validate_cap_slot, Null, Tokens
  <2> QED
    BY <1>1, <2>4, LookupIsValidate DEF cap_make_token
<1> QED
  BY <1>1, SpecIInv, PTL

(* A revoked token stays refused for two laps of its slot's generation     *)
(* counter, whatever happens to the slot meanwhile.                        *)
THEOREM RevokedTokensStayRefused == Spec => []RevokedTokenRefused
<1>1. ASSUME IInv PROVE RevokedTokenRefused
  <2> SUFFICES ASSUME NEW t \in Tokens, age[t] \in 1 .. MaxAge - 1,
                      validate_cap_slot(t)
               PROVE  FALSE
    BY <1>1, LookupIsValidate DEF RevokedTokenRefused
  <2>1. /\ Lap \in Nat /\ Lap % 2 = 1 /\ MaxAge = 2 * Lap
    BY GenModAssumption DEF Lap, MaxAge
  <2>2. cap_generations[t[1]] = t[2] /\ ~cap_table[t[1]].revoked
    BY DEF validate_cap_slot
  <2>3. /\ age[t] % 2 = 0
        /\ \/ cap_generations[t[1]] = t[2] + age[t]
           \/ cap_generations[t[1]] = t[2] + age[t] - Lap
           \/ cap_generations[t[1]] = t[2] + age[t] - 2 * Lap
    <3>1. age[t] > 0 /\ age[t] < MaxAge
      BY <2>1
    <3> QED
      BY <1>1, <2>2, <3>1 DEF IInv, AgeInv
  <2>4. t[2] \in Nat
    BY GenModAssumption DEF Tokens, Generations
  <2> QED
    BY <2>1, <2>2, <2>3, <2>4
<1> QED
  BY <1>1, SpecIInv, PTL

-----------------------------------------------------------------------------
(* The tables implement CapabilityAbstract.                                *)

(* Zero-initialised tables honour no token and know no object.             *)
LEMMA AbsInit == Init => Abs!Init
<1> SUFFICES ASSUME Init PROVE Abs!Init
  OBVIOUS
<1>1. {x \in Ids : ObjectFound(object_table, x)} = {}
  BY DEF Init, EmptyObject, ObjectFound
<1>2. HonouredTokens = {}
  BY DEF Init, EmptyCap, HonouredTokens, scdk_cap_lookup, validate_cap_slot
<1>3. AbsObjects = [id \in {} |-> id] /\ AbsGranted = [t \in {} |-> t]
  BY <1>1, <1>2 DEF AbsObjects, AbsGranted
<1> QED
  BY <1>3 DEF Abs!Init

(* scdk_object_create adds one object and touches no token.                *)
LEMMA AbsObjectCreate ==
    ASSUME IInv, IInv', NEW type \in ObjTypes, NEW p \in Payloads,
           scdk_object_create(type, p)
    PROVE  Abs!Next
<1>1. PICK i \in FreeObjectSlots : TakeObjectSlot(i, type, p)
  BY DEF scdk_object_create
<1>2. i \in ObjIdx /\ object_table[i].type = NoType
  BY <1>1 DEF FreeObjectSlots
<1>3. UNCHANGED capVars
  BY DEF scdk_object_create
<1> DEFINE g == next_generation(object_generations[i])
           id == <<i, g>>
           Found == {x \in Ids : ObjectFound(object_table, x)}
<1>4. g \in Generations \ {0} /\ id \in Ids /\ id[1] = i /\ id[2] = g
  BY <1>2, NextGeneration DEF IInv, TypeOK, Ids
<1>5. object_table' = [object_table EXCEPT ![i] =
             [type |-> type, generation |-> g, payload |-> p]]
  BY <1>1 DEF TakeObjectSlot
<1> HIDE DEF g
<1>6. id \notin Found
  BY <1>2, <1>4 DEF ObjectFound
<1>7. Found' = Found \cup {id}
  <2>1. ASSUME NEW x \in Ids, x[1] # i
        PROVE  ObjectFound(object_table', x) <=> ObjectFound(object_table, x)
    BY <1>5, <2>1 DEF IInv, TypeOK, ObjectFound
  <2>2. ASSUME NEW x \in Ids, x[1] = i
        PROVE  /\ ~ObjectFound(object_table, x)
               /\ ObjectFound(object_table', x) <=> x = id
    <3>1. object_table'[i].type = type /\ object_table'[i].generation = g
      BY <1>2, <1>5 DEF IInv, TypeOK
    <3>2. x = id <=> x[2] = g
      BY <2>2, <1>4 DEF Ids
    <3>3. x[2] = g => x # Null
      BY <1>4 DEF Null
    <3> QED
      BY <1>2, <1>4, <2>2, <3>1, <3>2, <3>3, TypesAssumption DEF ObjectFound
  <2> QED
    BY <1>4, <2>1, <2>2
<1>8. AbsObjects' = Abs!With(AbsObjects, id, type)
  <2>1. DOMAIN AbsObjects = Found /\ DOMAIN AbsObjects' = Found'
    BY DEF AbsObjects
  <2>2. AbsObjects'[id] = type
    BY <1>2, <1>4, <1>5, <1>7 DEF AbsObjects, IInv, TypeOK
  <2>3. ASSUME NEW x \in Found PROVE AbsObjects'[x] = AbsObjects[x]
    <3>1. x[1] # i /\ x[1] \in ObjIdx
      BY <1>2 DEF ObjectFound
    <3>2. object_table'[x[1]] = object_table[x[1]]
      BY <1>5, <3>1 DEF IInv, TypeOK
    <3> QED
      BY <1>7, <3>2 DEF AbsObjects
  <2> QED
    BY <1>6, <1>7, <2>1, <2>2, <2>3 DEF Abs!With, AbsObjects
<1>9. UNCHANGED AbsGranted
  <2>1. HonouredTokens' = HonouredTokens
    <3>1. ASSUME NEW t \in Tokens
          PROVE  scdk_cap_lookup(t)' <=> scdk_cap_lookup(t)
      <4>1. validate_cap_slot(t)' <=> validate_cap_slot(t)
        BY <1>3 DEF capVars, validate_cap_slot
      <4>2. scdk_cap_lookup(t) <=> validate_cap_slot(t)
        BY LookupIsValidate
      <4>3. scdk_cap_lookup(t)' <=> validate_cap_slot(t)'
        BY LookupIsValidate, PTL
      <4> QED
        BY <4>1, <4>2, <4>3
    <3> QED
      BY <3>1 DEF HonouredTokens
  <2> QED
    BY <1>3, <2>1 DEF AbsGranted, capVars
<1>10. Abs!NewObject(id, type)
  BY <1>6, <1>8, <1>9 DEF Abs!NewObject, AbsObjects
<1> QED
  BY <1>4, <1>10 DEF Abs!Next

(* scdk_cap_create makes one token valid that was not.                     *)
LEMMA AbsCapCreate ==
    ASSUME IInv, IInv', NEW id \in Ids, NEW rights \in SUBSET Rights,
           scdk_cap_create(id, rights)
    PROVE  Abs!Next
<1>1. PICK i \in FreeCapSlots : TakeCapSlot(i, object_table, id, rights)
  BY DEF scdk_cap_create
<1>2. /\ i \in CapIdx
      /\ cap_table[i].object_id = Null \/ cap_table[i].revoked
  BY <1>1 DEF FreeCapSlots
<1>3. UNCHANGED objVars /\ ObjectFound(object_table, id) /\ rights # {}
  BY DEF scdk_cap_create
<1> DEFINE g == next_generation(cap_generations[i])
           n == <<i, g>>
           c == [object |-> id, rights |-> rights]
<1>4. g \in Generations \ {0} /\ n \in Tokens /\ n[1] = i /\ n[2] = g
  BY <1>2, NextGeneration DEF IInv, TypeOK, Tokens
<1>5. /\ cap_generations'[i] = g
      /\ cap_table'[i].object_id = id /\ ~cap_table'[i].revoked
      /\ cap_table'[i].rights = rights
      /\ \A j \in CapIdx : j # i => /\ cap_table'[j] = cap_table[j]
                                    /\ cap_generations'[j] = cap_generations[j]
  BY <1>1, <1>2 DEF TakeCapSlot, IInv, TypeOK
<1> HIDE DEF g
<1>6. id # Null
  BY <1>3 DEF ObjectFound
<1>7. ASSUME NEW t \in Tokens
      PROVE  /\ scdk_cap_lookup(t) <=> validate_cap_slot(t)
             /\ scdk_cap_lookup(t)' <=> validate_cap_slot(t)'
  <2>1. scdk_cap_lookup(t) <=> validate_cap_slot(t)
    BY LookupIsValidate
  <2>2. scdk_cap_lookup(t)' <=> validate_cap_slot(t)'
    BY LookupIsValidate, PTL
  <2> QED
    BY <2>1, <2>2
<1>8. ASSUME NEW t \in Tokens, t[1] # i
      PROVE  validate_cap_slot(t)' <=> validate_cap_slot(t)
  BY <1>5, <1>8 DEF validate_cap_slot
<1>9. ASSUME NEW t \in Tokens, t[1] = i
      PROVE  /\ ~validate_cap_slot(t)
             /\ validate_cap_slot(t)' <=> t = n
  <2>1. ~validate_cap_slot(t)
    BY <1>2, <1>9 DEF validate_cap_slot
  <2>2. t = n <=> t[2] = g
    BY <1>4, <1>9 DEF Tokens
  <2>3. t[2] = g => t # Null
    BY <1>4 DEF Null
  <2> QED
    BY <1>2, <1>4, <1>5, <1>6, <1>9, <2>1, <2>2, <2>3 DEF validate_cap_slot
<1>10. n \notin HonouredTokens /\ HonouredTokens' = HonouredTokens \cup {n}
  BY <1>4, <1>7, <1>8, <1>9 DEF HonouredTokens
<1>11. AbsGranted' = Abs!With(AbsGranted, n, c)
  <2>1. DOMAIN AbsGranted = HonouredTokens /\ DOMAIN AbsGranted' = HonouredTokens'
    BY DEF AbsGranted
  <2>2. AbsGranted'[n] = c
    BY <1>4, <1>5, <1>10 DEF AbsGranted
  <2>3. ASSUME NEW t \in HonouredTokens PROVE AbsGranted'[t] = AbsGranted[t]
    <3>1. t \in Tokens /\ t[1] # i /\ t[1] \in CapIdx
      BY <1>7, <1>9 DEF HonouredTokens, Tokens
    <3> QED
      BY <1>5, <1>10, <3>1 DEF AbsGranted
  <2> QED
    BY <1>10, <2>1, <2>2, <2>3 DEF Abs!With, AbsGranted
<1>12. UNCHANGED AbsObjects
  BY <1>3 DEF AbsObjects, objVars, ObjectFound
<1>13. c \in Abs!Conveyed /\ c.object \in DOMAIN AbsObjects
  BY <1>3 DEF Abs!Conveyed, AbsObjects
<1>14. Abs!Grant(n, c)
  BY <1>10, <1>11, <1>12, <1>13 DEF Abs!Grant, AbsGranted
<1> QED
  BY <1>4, <1>13, <1>14 DEF Abs!Next

(* scdk_cap_revoke invalidates exactly the token it is given.              *)
LEMMA AbsCapRevoke ==
    ASSUME IInv, IInv', NEW r \in Tokens, scdk_cap_revoke(r)
    PROVE  Abs!Next
<1> DEFINE i == r[1]
<1>1. /\ i \in CapIdx /\ cap_generations[i] = r[2]
      /\ r \in HonouredTokens
  BY DEF scdk_cap_revoke, scdk_cap_lookup, validate_cap_slot, HonouredTokens
<1>2. /\ UNCHANGED objVars
      /\ cap_table'[i].revoked
      /\ \A j \in CapIdx : j # i => /\ cap_table'[j] = cap_table[j]
                                    /\ cap_generations'[j] = cap_generations[j]
  BY <1>1 DEF scdk_cap_revoke, IInv, TypeOK
<1>3. ASSUME NEW t \in Tokens
      PROVE  /\ scdk_cap_lookup(t) <=> validate_cap_slot(t)
             /\ scdk_cap_lookup(t)' <=> validate_cap_slot(t)'
  <2>1. scdk_cap_lookup(t) <=> validate_cap_slot(t)
    BY LookupIsValidate
  <2>2. scdk_cap_lookup(t)' <=> validate_cap_slot(t)'
    BY LookupIsValidate, PTL
  <2> QED
    BY <2>1, <2>2
<1>4. ASSUME NEW t \in Tokens, t[1] # i
      PROVE  validate_cap_slot(t)' <=> validate_cap_slot(t)
  BY <1>2, <1>4 DEF validate_cap_slot
<1>5. ASSUME NEW t \in Tokens, t[1] = i
      PROVE  /\ validate_cap_slot(t) => t = r
             /\ ~validate_cap_slot(t)'
  BY <1>1, <1>2, <1>5 DEF validate_cap_slot, Tokens
<1>6. HonouredTokens' = HonouredTokens \ {r}
  BY <1>3, <1>4, <1>5 DEF HonouredTokens
<1>7. AbsGranted' = Abs!Without(AbsGranted, r)
  <2>1. ASSUME NEW t \in HonouredTokens' PROVE AbsGranted'[t] = AbsGranted[t]
    <3>1. t \in Tokens /\ t[1] # i /\ t[1] \in CapIdx
      BY <1>3, <1>5, <1>6 DEF HonouredTokens, Tokens
    <3> QED
      BY <1>2, <1>6, <3>1 DEF AbsGranted
  <2> QED
    BY <1>6, <2>1 DEF Abs!Without, AbsGranted
<1>8. UNCHANGED AbsObjects
  BY <1>2 DEF AbsObjects, objVars, ObjectFound
<1>9. Abs!Revoke(r)
  BY <1>1, <1>7, <1>8 DEF Abs!Revoke, AbsGranted
<1> QED
  BY <1>9 DEF Abs!Next

(* Every behaviour of the tables, seen through what lookups answer, is a   *)
(* behaviour of the abstract capability store: creates and revokes affect  *)
(* exactly one token each, through any number of slot reuses and wraps.    *)
THEOREM TablesImplementAbstract == Spec => ImplementsAbstract
<1>1. IInv /\ IInv' /\ [Next]_vars => [Abs!Next]_(Abs!absVars)
  <2> SUFFICES ASSUME IInv, IInv', [Next]_vars
               PROVE  Abs!Next \/ UNCHANGED Abs!absVars
    OBVIOUS
  <2>1. CASE \E type \in ObjTypes, p \in Payloads : scdk_object_create(type, p)
    BY <2>1, AbsObjectCreate
  <2>2. CASE \E id \in Ids, r \in SUBSET Rights : scdk_cap_create(id, r)
    BY <2>2, AbsCapCreate
  <2>3. CASE \E t \in Tokens : scdk_cap_revoke(t)
    BY <2>3, AbsCapRevoke
  <2>4. CASE UNCHANGED vars
    BY <2>4 DEF vars, Abs!absVars, AbsObjects, AbsGranted, HonouredTokens,
                scdk_cap_lookup, validate_cap_slot, ObjectFound
  <2> QED
    BY <2>1, <2>2, <2>3, <2>4 DEF Next
<1> QED
  BY <1>1, AbsInit, SpecIInv, PTL DEF Spec, ImplementsAbstract, Abs!Spec

=============================================================================
