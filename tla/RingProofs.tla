----------------------------- MODULE RingProofs -----------------------------
(***************************************************************************)
(* Proofs about Ring, for every storage size, counter width and set of     *)
(* ring sizes that divide the counters' modulus.                           *)
(***************************************************************************)
EXTENDS Ring, IntegerLemmas

\* Every size in use divides the counters' modulus.
SizesDivide == \A n \in Sizes : n # 0 => CounterMod % n = 0

-----------------------------------------------------------------------------
(* Arithmetic                                                              *)

(* Reduction of a number below two moduli.                                 *)
LEMMA ModOnce ==
    ASSUME NEW x \in Nat, x < 2 * CounterMod
    PROVE  x % CounterMod = IF x < CounterMod THEN x ELSE x - CounterMod
<1>0. CounterMod \in Nat \ {0}
  BY RingAssumption
<1>1. CASE x < CounterMod
  BY <1>0, <1>1
<1>2. CASE x >= CounterMod
  <2>1. x - CounterMod \in 0 .. CounterMod - 1
    BY <1>0, <1>2
  <2> QED
    BY <1>0, <1>2, <2>1
<1> QED
  BY <1>0, <1>1, <1>2

(* Two counters less than E apart index different entries, also across the *)
(* wrap if E divides the modulus.                                          *)
LEMMA NearbyDifferAcrossWrap ==
    ASSUME NEW E \in Nat \ {0}, NEW M \in Nat, M % E = 0,
           NEW a \in 0 .. M - 1, NEW b \in M .. 2 * M - 1,
           a < b, b < a + E
    PROVE  a % E # (b - M) % E
<1> SUFFICES ASSUME a % E = (b - M) % E PROVE FALSE
  OBVIOUS
<1> DEFINE r == a % E
           c == b - M
<1>1. r \in Nat /\ c \in Nat /\ a \in Nat
  BY Division
<1>2. PICK p \in Int : a = E * p + r
  BY <1>1, Division
<1>3. PICK q \in Int : c = E * q + r
  <2>1. PICK q \in Int : c = E * q + (c % E)
    BY <1>1, Division
  <2> QED
    BY <2>1
<1>4. PICK m \in Int : M = E * m
  <2>1. PICK m \in Int : M = E * m + (M % E)
    BY Division
  <2>2. M = E * m
    BY <2>1
  <2> QED
    BY <2>2
<1> HIDE DEF r
<1>5. b - a = E * (m + q - p)
  BY <1>1, <1>2, <1>3, <1>4
<1>6. E * (m + q - p) <= 0 \/ E * (m + q - p) >= E
  BY Multiples
<1> QED
  BY <1>5, <1>6

-----------------------------------------------------------------------------
(* One queue of the ring: heads, tails and the storage between them.       *)

\* The number of entries, as a number.
LEMMA CountValue ==
    ASSUME NEW h \in Counters, NEW t \in Counters
    PROVE  queue_count(h, t) = IF h <= t THEN t - h ELSE t - h + CounterMod
<1>1. CASE h <= t
  BY <1>1, RingAssumption DEF queue_count, Counters
<1>2. CASE h > t
  <2>1. t - h + CounterMod \in 0 .. CounterMod - 1
    BY <1>2, RingAssumption DEF Counters
  <2>2. (t - h) % CounterMod = t - h + CounterMod
    BY <2>1, <1>2, RingAssumption DEF Counters
  <2> QED
    BY <1>2, <2>2 DEF queue_count, Counters
<1> QED
  BY <1>1, <1>2, RingAssumption DEF Counters

(* A counter steps by one or wraps to 0.                                   *)
LEMMA IncrementedValue ==
    ASSUME NEW c \in Counters
    PROVE  /\ Incremented(c) \in Counters
           /\ Incremented(c) = IF c = CounterMod - 1 THEN 0 ELSE c + 1
<1> DEFINE x == c + 1
<1>1. CounterMod \in Nat \ {0} /\ x \in Nat /\ x < 2 * CounterMod
  BY RingAssumption DEF Counters
<1> HIDE DEF x
<1>2. x % CounterMod = IF x < CounterMod THEN x ELSE x - CounterMod
  BY <1>1, ModOnce
<1>3. Incremented(c) = IF x < CounterMod THEN x ELSE x - CounterMod
  BY <1>2 DEF x, Incremented
<1> QED
  BY <1>1, <1>3 DEF x, Counters

(* Adding an entry at the tail counts one more, if the ring is not full.   *)
LEMMA CountAfterPut ==
    ASSUME NEW h \in Counters, NEW t \in Counters,
           queue_count(h, t) < MaxEntries
    PROVE  queue_count(h, Incremented(t)) = queue_count(h, t) + 1
<1>1. Incremented(t) \in Counters
  BY IncrementedValue
<1>2. queue_count(h, t) = IF h <= t THEN t - h ELSE t - h + CounterMod
  BY CountValue
<1>3. queue_count(h, Incremented(t)) =
          IF h <= Incremented(t) THEN Incremented(t) - h
                                 ELSE Incremented(t) - h + CounterMod
  BY <1>1, CountValue
<1>4. Incremented(t) = IF t = CounterMod - 1 THEN 0 ELSE t + 1
  BY IncrementedValue
<1> QED
  BY <1>2, <1>3, <1>4, RingAssumption DEF Counters

(* Taking the entry at the head counts one less, if there is one.          *)
LEMMA CountAfterTake ==
    ASSUME NEW h \in Counters, NEW t \in Counters, h # t
    PROVE  /\ queue_count(h, t) >= 1
           /\ queue_count(Incremented(h), t) = queue_count(h, t) - 1
<1>1. Incremented(h) \in Counters
  BY IncrementedValue
<1>2. queue_count(h, t) = IF h <= t THEN t - h ELSE t - h + CounterMod
  BY CountValue
<1>3. queue_count(Incremented(h), t) =
          IF Incremented(h) <= t THEN t - Incremented(h)
                                 ELSE t - Incremented(h) + CounterMod
  BY <1>1, CountValue
<1>4. Incremented(h) = IF h = CounterMod - 1 THEN 0 ELSE h + 1
  BY IncrementedValue
<1> QED
  BY <1>2, <1>3, <1>4, RingAssumption DEF Counters

(* The tail is the head moved on by the number of entries.                 *)
LEMMA TailPosition ==
    ASSUME NEW h \in Counters, NEW t \in Counters
    PROVE  /\ queue_count(h, t) \in 0 .. CounterMod - 1
           /\ t = IF h + queue_count(h, t) < CounterMod
                  THEN h + queue_count(h, t)
                  ELSE h + queue_count(h, t) - CounterMod
<1>1. queue_count(h, t) = IF h <= t THEN t - h ELSE t - h + CounterMod
  BY CountValue
<1> QED
  BY <1>1, RingAssumption DEF Counters

\* Where the k-th entry from head h is stored.
Position(h, k) == Index((h + k - 1) % CounterMod)

(* In a ring that is not full, no entry is stored where the next one goes. *)
LEMMA TailIsFree ==
    ASSUME entries \in 1 .. MaxEntries, CounterMod % entries = 0,
           NEW h \in Counters, NEW t \in Counters,
           queue_count(h, t) < entries,
           NEW k \in 1 .. queue_count(h, t)
    PROVE  Position(h, k) # Index(t)
<1>0. /\ queue_count(h, t) \in 0 .. CounterMod - 1
      /\ t = IF h + queue_count(h, t) < CounterMod
             THEN h + queue_count(h, t)
             ELSE h + queue_count(h, t) - CounterMod
  BY TailPosition
<1> DEFINE n == queue_count(h, t)
           a == h + k - 1
           b == h + n
<1>1. /\ n \in 0 .. CounterMod - 1 /\ n < entries
      /\ t = IF b < CounterMod THEN b ELSE b - CounterMod
  <2>1. h \in Int /\ CounterMod \in Int
    BY RingAssumption DEF Counters
  <2> QED
    BY <1>0, <2>1
<1>2. /\ entries \in Nat \ {0} /\ CounterMod \in Nat \ {0}
      /\ a \in Nat /\ b \in Nat /\ a < b /\ b < a + entries
      /\ a < 2 * CounterMod /\ b < 2 * CounterMod
  <2>1. n \in Nat /\ k \in 1 .. n
    BY <1>1
  <2> HIDE DEF n
  <2> QED
    BY <1>1, <2>1, RingAssumption DEF Counters
<1> HIDE DEF a, b, n
<1>3. a % CounterMod = IF a < CounterMod THEN a ELSE a - CounterMod
  BY <1>2, ModOnce
<1>4. CASE b < CounterMod
  <2>1. t = b /\ a % CounterMod = a
    BY <1>1, <1>2, <1>3, <1>4
  <2>2. a % entries # b % entries
    BY <1>2, NearbyDiffer
  <2> QED
    BY <2>1, <2>2 DEF Position, Index, a
<1>5. CASE b >= CounterMod /\ a < CounterMod
  <2>1. t = b - CounterMod /\ a % CounterMod = a
    BY <1>1, <1>2, <1>3, <1>5
  <2>2. a % entries # (b - CounterMod) % entries
    <3>1. a \in 0 .. CounterMod - 1 /\ b \in CounterMod .. 2 * CounterMod - 1
      BY <1>2, <1>5
    <3> QED
      BY <1>2, <3>1, NearbyDifferAcrossWrap
  <2> QED
    BY <2>1, <2>2 DEF Position, Index, a
<1>6. CASE a >= CounterMod
  <2> DEFINE c == a - CounterMod
             d == b - CounterMod
  <2>1. t = d /\ a % CounterMod = c
    BY <1>1, <1>2, <1>3, <1>6
  <2>2. c \in Nat /\ d \in Nat /\ c < d /\ d < c + entries
    BY <1>2, <1>6
  <2> HIDE DEF c, d
  <2>3. c % entries # d % entries
    BY <1>2, <2>2, NearbyDiffer
  <2> QED
    BY <2>1, <2>3 DEF Position, Index, a
<1> QED
  BY <1>2, <1>4, <1>5, <1>6

(* Positions lie in the storage.                                           *)
LEMMA IndexInSlots ==
    ASSUME entries \in 1 .. MaxEntries, NEW c \in Nat
    PROVE  Index(c) \in Slots
<1>1. c % entries \in 0 .. entries - 1
  OBVIOUS
<1> QED
  BY <1>1, RingAssumption DEF Index, Slots

(* So does the k-th position from a counter.                               *)
LEMMA PositionInSlots ==
    ASSUME entries \in 1 .. MaxEntries,
           NEW h \in Counters, NEW k \in Nat \ {0}
    PROVE  Position(h, k) \in Slots
<1> DEFINE a == h + k - 1
           c == a % CounterMod
<1>1. a \in Nat /\ CounterMod \in Nat \ {0}
  BY RingAssumption DEF Counters
<1> HIDE DEF a
<1>2. c \in Nat
  BY <1>1
<1> HIDE DEF c
<1>3. Index(c) \in Slots
  BY <1>2, IndexInSlots
<1> QED
  BY <1>3 DEF Position, a, c

-----------------------------------------------------------------------------
(* What the operations do to the contents of a queue.                      *)

(* The k-th entry is what is stored at the k-th position.                  *)
LEMMA ContentsValues ==
    ASSUME NEW s, NEW h \in Counters, NEW t \in Counters
    PROVE  /\ DOMAIN Contents(s, h, t) = 1 .. queue_count(h, t)
           /\ \A k \in 1 .. queue_count(h, t) :
                  Contents(s, h, t)[k] = s[Position(h, k)]
BY DEF Contents, Position

(* There are as many entries as queue_count says.                          *)
LEMMA ContentsLen ==
    ASSUME NEW s, NEW h \in Counters, NEW t \in Counters
    PROVE  Len(Contents(s, h, t)) = queue_count(h, t)
<1> DEFINE n == queue_count(h, t)
<1>1. n \in Nat
  BY TailPosition, RingAssumption
<1>2. Contents(s, h, t) = [k \in 1 .. n |-> s[Position(h, k)]]
  BY DEF Contents, Position
<1> HIDE DEF n
<1> QED
  BY <1>1, <1>2 DEF n

(* The entries form a sequence of what was stored.                         *)
LEMMA ContentsIsSeq ==
    ASSUME entries \in 1 .. MaxEntries, NEW D, NEW s \in [Slots -> D],
           NEW h \in Counters, NEW t \in Counters
    PROVE  /\ Contents(s, h, t) \in Seq(D)
           /\ Len(Contents(s, h, t)) = queue_count(h, t)
           /\ \A k \in 1 .. queue_count(h, t) :
                  Contents(s, h, t)[k] = s[Position(h, k)]
<1> DEFINE n == queue_count(h, t)
           f == [k \in 1 .. n |-> s[Position(h, k)]]
<1>1. n \in Nat
  BY TailPosition, RingAssumption
<1>2. Contents(s, h, t) = f
  BY DEF Contents, Position
<1>3. \A k \in 1 .. n : s[Position(h, k)] \in D
  <2>1. \A k \in 1 .. n : k \in Nat \ {0}
    BY <1>1
  <2> QED
    BY <2>1, PositionInSlots
<1> HIDE DEF n
<1>4. f \in Seq(D) /\ Len(f) = n
  BY <1>1, <1>3
<1> QED
  BY <1>2, <1>4 DEF n

(* Storing at the tail and moving it appends, when the ring is not full.   *)
LEMMA PutAppends ==
    ASSUME entries \in 1 .. MaxEntries, CounterMod % entries = 0,
           NEW D, NEW s \in [Slots -> D], NEW d \in D,
           NEW h \in Counters, NEW t \in Counters,
           queue_count(h, t) < entries
    PROVE  Contents([s EXCEPT ![Index(t)] = d], h, Incremented(t))
             = Append(Contents(s, h, t), d)
<1> DEFINE n == queue_count(h, t)
           s2 == [s EXCEPT ![Index(t)] = d]
           t2 == Incremented(t)
           old == Contents(s, h, t)
           new == Contents(s2, h, t2)
<1>1. t2 \in Counters /\ queue_count(h, t2) = n + 1 /\ n \in Nat
  <2>1. t2 \in Counters
    BY IncrementedValue
  <2>2. n \in 0 .. CounterMod - 1
    BY TailPosition
  <2>3. n < MaxEntries
    BY <2>2, RingAssumption
  <2>4. queue_count(h, t2) = n + 1
    BY <2>3, CountAfterPut
  <2> QED
    BY <2>1, <2>2, <2>4, RingAssumption
<1>2. s2 \in [Slots -> D]
  OBVIOUS
<1>3. /\ old \in Seq(D) /\ Len(old) = n
      /\ \A k \in 1 .. n : old[k] = s[Position(h, k)]
  <2>1. old \in Seq(D)
    BY ContentsIsSeq
  <2>2. Len(old) = n
    BY ContentsIsSeq
  <2>3. \A k \in 1 .. n : old[k] = s[Position(h, k)]
    BY ContentsIsSeq
  <2> QED
    BY <2>1, <2>2, <2>3
<1>4. /\ new \in Seq(D) /\ Len(new) = n + 1
      /\ \A k \in 1 .. n + 1 : new[k] = s2[Position(h, k)]
  <2> HIDE DEF s2, t2
  <2>1. new \in Seq(D)
    BY <1>1, <1>2, ContentsIsSeq
  <2>2. DOMAIN new = 1 .. queue_count(h, t2)
    BY <1>1, <1>2, ContentsValues
  <2>3. \A k \in 1 .. queue_count(h, t2) : new[k] = s2[Position(h, k)]
    BY <1>1, <1>2, ContentsValues
  <2> HIDE DEF new, n
  <2>4. Len(new) = queue_count(h, t2)
    BY <1>1, <2>1, <2>2
  <2> QED
    BY <1>1, <2>1, <2>3, <2>4
<1>5. \A k \in 1 .. n : new[k] = old[k]
  <2> SUFFICES ASSUME NEW k \in 1 .. n PROVE new[k] = old[k]
    OBVIOUS
  <2>1. Position(h, k) # Index(t)
    BY TailIsFree
  <2>2. Position(h, k) \in Slots
    <3>1. k \in Nat \ {0}
      BY <1>1
    <3> QED
      BY <3>1, PositionInSlots
  <2>3. s2[Position(h, k)] = s[Position(h, k)]
    BY <2>1, <2>2
  <2>4. k \in 1 .. n + 1
    BY <1>1
  <2> QED
    BY <1>3, <1>4, <2>3, <2>4
<1>6. new[n + 1] = d
  <2>1. Position(h, n + 1) = Index(t)
    <3> DEFINE b == h + ((n + 1) - 1)
    <3>0. /\ h \in Nat /\ CounterMod \in Nat /\ n \in 0 .. CounterMod - 1
          /\ h < CounterMod
      BY TailPosition, RingAssumption DEF Counters
    <3>1. t = IF h + n < CounterMod THEN h + n ELSE (h + n) - CounterMod
      <4>1. t = IF h + queue_count(h, t) < CounterMod
                THEN h + queue_count(h, t)
                ELSE h + queue_count(h, t) - CounterMod
        BY TailPosition
      <4> QED
        BY <3>0, <4>1
    <3> HIDE DEF n
    <3>2. b \in Nat /\ b < 2 * CounterMod /\ b = h + n
      BY <3>0
    <3>3. t = IF b < CounterMod THEN b ELSE b - CounterMod
      BY <3>0, <3>1, <3>2
    <3> HIDE DEF b
    <3>4. b % CounterMod = t
      BY <3>2, <3>3, ModOnce
    <3> QED
      BY <3>4 DEF Position, b
  <2>2. Index(t) \in Slots
    <3>1. t \in Nat
      BY RingAssumption DEF Counters
    <3> QED
      BY <3>1, IndexInSlots
  <2>3. n + 1 \in 1 .. n + 1
    BY <1>1
  <2> QED
    BY <1>4, <2>1, <2>2, <2>3
<1> HIDE DEF n, old, new
<1>7. new = Append(old, d)
  BY <1>1, <1>3, <1>4, <1>5, <1>6
<1> QED
  BY <1>7 DEF old, new

(* Moving the head past its entry takes the oldest entry off.              *)
LEMMA TakeRemovesHead ==
    ASSUME entries \in 1 .. MaxEntries, NEW D, NEW s \in [Slots -> D],
           NEW h \in Counters, NEW t \in Counters, h # t
    PROVE  /\ Contents(s, h, t) # <<>>
           /\ s[Index(h)] = Head(Contents(s, h, t))
           /\ Contents(s, Incremented(h), t) = Tail(Contents(s, h, t))
<1> DEFINE n == queue_count(h, t)
           h2 == Incremented(h)
           old == Contents(s, h, t)
           new == Contents(s, h2, t)
<1>1. /\ h2 \in Counters /\ n >= 1 /\ queue_count(h2, t) = n - 1
      /\ n \in 0 .. CounterMod - 1
      /\ h2 = IF h = CounterMod - 1 THEN 0 ELSE h + 1
  BY IncrementedValue, CountAfterTake, TailPosition
<1>2. /\ h \in Nat /\ h < CounterMod /\ CounterMod \in Nat \ {0}
      /\ h2 \in Nat /\ h2 < CounterMod /\ n \in Nat
  BY <1>1, RingAssumption DEF Counters
<1>3. /\ old \in Seq(D) /\ Len(old) = n
      /\ \A k \in 1 .. n : old[k] = s[Position(h, k)]
  <2>1. old \in Seq(D)
    BY ContentsIsSeq
  <2>2. Len(old) = n
    BY ContentsIsSeq
  <2>3. \A k \in 1 .. n : old[k] = s[Position(h, k)]
    BY ContentsIsSeq
  <2> QED
    BY <2>1, <2>2, <2>3
<1>4. /\ new \in Seq(D) /\ Len(new) = n - 1
      /\ \A k \in 1 .. n - 1 : new[k] = s[Position(h2, k)]
  <2>0. h2 \in Counters
    BY <1>1
  <2> HIDE DEF h2
  <2>1. new \in Seq(D)
    BY <2>0, ContentsIsSeq
  <2>2. DOMAIN new = 1 .. queue_count(h2, t)
    BY <2>0, ContentsValues, Zenon
  <2>3. \A k \in 1 .. queue_count(h2, t) : new[k] = s[Position(h2, k)]
    BY <2>0, ContentsValues, Zenon
  <2> HIDE DEF new, n
  <2>4. Len(new) = queue_count(h2, t)
    BY <1>1, <2>1, <2>2
  <2> QED
    BY <1>1, <2>1, <2>3, <2>4
<1> HIDE DEF n, old, new, h2
<1>5. Position(h, 1) = Index(h)
  <2>1. h + (1 - 1) = h /\ h % CounterMod = h
    BY <1>2
  <2> QED
    BY <2>1 DEF Position
<1>6. ASSUME NEW k \in 1 .. n - 1 PROVE Position(h2, k) = Position(h, k + 1)
  <2> DEFINE x == h2 + (k - 1)
             y == h + ((k + 1) - 1)
  <2>1. /\ x \in Nat /\ x < 2 * CounterMod /\ y \in Nat /\ y < 2 * CounterMod
        /\ x = y + 1 - 1 \/ x = y - CounterMod
        /\ k \in Nat
    BY <1>1, <1>2
  <2>2. x = y \/ x = y - CounterMod
    BY <1>2, <2>1
  <2> HIDE DEF x, y
  <2>3. /\ x % CounterMod = IF x < CounterMod THEN x ELSE x - CounterMod
        /\ y % CounterMod = IF y < CounterMod THEN y ELSE y - CounterMod
    BY <2>1, ModOnce
  <2>4. x % CounterMod = y % CounterMod
    BY <1>2, <2>1, <2>2, <2>3
  <2> QED
    BY <2>4 DEF Position, x, y
<1>7. old # <<>> /\ Head(old) = s[Index(h)]
  BY <1>1, <1>2, <1>3, <1>5
<1>8. new = Tail(old)
  <2>1. Tail(old) \in Seq(D) /\ Len(Tail(old)) = n - 1
    BY <1>1, <1>2, <1>3, <1>7
  <2>2. ASSUME NEW k \in 1 .. n - 1 PROVE new[k] = Tail(old)[k]
    <3>1. k + 1 \in 1 .. n /\ Tail(old)[k] = old[k + 1]
      BY <1>1, <1>2, <1>3, <1>7
    <3> QED
      BY <1>3, <1>4, <1>6, <3>1
  <2> QED
    BY <1>2, <1>4, <2>1, <2>2
<1> QED
  BY <1>7, <1>8 DEF old, new, h2

-----------------------------------------------------------------------------
(* The invariant: types, bounds, and a size that callers ask for.          *)

IInv == TypeOK /\ (entries # 0 => entries \in Sizes)

\* The counters of an unused slot agree, and 0 of 0 entries are in use.
LEMMA EmptyCount ==
    ASSUME NEW c \in Counters
    PROVE  queue_count(c, c) = 0
<1>1. queue_count(c, c) = IF c <= c THEN c - c ELSE c - c + CounterMod
  BY CountValue
<1> QED
  BY <1>1, RingAssumption DEF Counters

(* An unused slot satisfies the inductive invariant.                       *)
LEMMA InitIInv == Init => IInv
<1> SUFFICES ASSUME Init PROVE IInv
  OBVIOUS
<1>1. 0 \in Counters /\ 0 \in 0 .. MaxEntries
  BY RingAssumption DEF Counters
<1>2. queue_count(0, 0) = 0
  BY <1>1, EmptyCount
<1> QED
  BY <1>1, <1>2, RingAssumption DEF Init, IInv, TypeOK

(* Every operation of ring.c preserves it.                                 *)
LEMMA NextIInv == IInv /\ [Next]_vars => IInv'
<1> SUFFICES ASSUME IInv, [Next]_vars PROVE IInv'
  OBVIOUS
<1> USE DEF IInv, TypeOK
<1>1. ASSUME NEW n \in Sizes, NEW t \in Endpoints \cup {NoToken},
             scdk_ring_create(n, t)
      PROVE  IInv'
  <2>1. 0 \in Counters /\ queue_count(0, 0) = 0
    BY RingAssumption, EmptyCount DEF Counters
  <2>2. n \in 0 .. MaxEntries /\ 0 <= n
    BY <1>1, RingAssumption DEF scdk_ring_create
  <2> QED
    BY <1>1, <2>1, <2>2 DEF scdk_ring_create
<1>2. ASSUME NEW t \in Endpoints, scdk_ring_bind_target(t) PROVE IInv'
  BY <1>2 DEF scdk_ring_bind_target, sqVars, cqVars
<1>3. ASSUME NEW d \in Descs, scdk_ring_submit(d) PROVE IInv'
  <2>1. submit_tail' \in Counters
    BY <1>3, IncrementedValue DEF scdk_ring_submit
  <2>2. queue_count(submit_head', submit_tail') <= entries
    <3>1. queue_count(submit_head, submit_tail) \in Nat
      BY TailPosition, RingAssumption
    <3>2. queue_count(submit_head, submit_tail) < MaxEntries
      BY <1>3, <3>1, RingAssumption DEF scdk_ring_submit
    <3>3. queue_count(submit_head, Incremented(submit_tail))
            = queue_count(submit_head, submit_tail) + 1
      BY <3>2, CountAfterPut
    <3> QED
      BY <1>3, <3>1, <3>3, RingAssumption DEF scdk_ring_submit
  <2> QED
    BY <1>3, <2>1, <2>2 DEF scdk_ring_submit, ctlVars, cqVars
<1>4. ASSUME scdk_ring_consume PROVE IInv'
  <2>1. entries \in 1 .. MaxEntries
    BY <1>4, RingAssumption DEF scdk_ring_consume, ring_lookup
  <2>2. submit_head' \in Counters
    BY <1>4, IncrementedValue DEF scdk_ring_consume
  <2>3. queue_count(submit_head', submit_tail') <= entries
    <3>1. queue_count(submit_head, submit_tail) \in Nat
      BY TailPosition, RingAssumption
    <3>2. queue_count(Incremented(submit_head), submit_tail)
            = queue_count(submit_head, submit_tail) - 1
      BY <1>4, CountAfterTake DEF scdk_ring_consume
    <3> QED
      BY <1>4, <3>1, <3>2, RingAssumption DEF scdk_ring_consume
  <2>4. Index(submit_head) \in Slots
    BY <2>1, IndexInSlots, RingAssumption DEF Counters
  <2> QED
    BY <1>4, <2>2, <2>3, <2>4 DEF scdk_ring_consume, ctlVars, cqVars
<1>5. ASSUME NEW c \in Completions, scdk_ring_complete(c) PROVE IInv'
  <2>1. complete_tail' \in Counters
    BY <1>5, IncrementedValue DEF scdk_ring_complete
  <2>2. queue_count(complete_head', complete_tail') <= entries
    <3>1. queue_count(complete_head, complete_tail) \in Nat
      BY TailPosition, RingAssumption
    <3>2. queue_count(complete_head, complete_tail) < MaxEntries
      BY <1>5, <3>1, RingAssumption DEF scdk_ring_complete
    <3>3. queue_count(complete_head, Incremented(complete_tail))
            = queue_count(complete_head, complete_tail) + 1
      BY <3>2, CountAfterPut
    <3> QED
      BY <1>5, <3>1, <3>3, RingAssumption DEF scdk_ring_complete
  <2> QED
    BY <1>5, <2>1, <2>2 DEF scdk_ring_complete, ctlVars, sqVars
<1>6. ASSUME scdk_ring_poll PROVE IInv'
  <2>1. entries \in 1 .. MaxEntries
    BY <1>6, RingAssumption DEF scdk_ring_poll, ring_lookup
  <2>2. complete_head' \in Counters
    BY <1>6, IncrementedValue DEF scdk_ring_poll
  <2>3. queue_count(complete_head', complete_tail') <= entries
    <3>1. queue_count(complete_head, complete_tail) \in Nat
      BY TailPosition, RingAssumption
    <3>2. queue_count(Incremented(complete_head), complete_tail)
            = queue_count(complete_head, complete_tail) - 1
      BY <1>6, CountAfterTake DEF scdk_ring_poll
    <3> QED
      BY <1>6, <3>1, <3>2, RingAssumption DEF scdk_ring_poll
  <2>4. Index(complete_head) \in Slots
    BY <2>1, IndexInSlots, RingAssumption DEF Counters
  <2> QED
    BY <1>6, <2>2, <2>3, <2>4 DEF scdk_ring_poll, ctlVars, sqVars
<1>7. ASSUME NEW t \in Endpoints \cup {RingToken}, Revoke(t) PROVE IInv'
  BY <1>7 DEF Revoke, sqVars, cqVars
<1>8. CASE UNCHANGED vars
  BY <1>8 DEF vars, ctlVars, sqVars, cqVars
<1> QED
  BY <1>1, <1>2, <1>3, <1>4, <1>5, <1>6, <1>7, <1>8 DEF Next

(* The inductive invariant holds in every reachable state.                 *)
THEOREM SpecIInv == Spec => []IInv
<1> QED
  BY InitIInv, NextIInv, PTL DEF Spec

(* Counters stay in range and no queue exceeds the ring's size or the      *)
(* storage, for every storage size, counter width and set of sizes.        *)
THEOREM TypeCorrect == Spec => []TypeOK
<1>1. IInv => TypeOK
  BY DEF IInv
<1> QED
  BY <1>1, SpecIInv, PTL

-----------------------------------------------------------------------------
(* The ring implements RingQueues.                                         *)

SubmitQueue == Contents(sq, submit_head, submit_tail)
CompleteQueue == Contents(cq, complete_head, complete_tail)

(* A step that leaves the size alone reads the new counters and storage    *)
(* with the same index function.                                           *)
LEMMA ContentsPrimed ==
    ASSUME UNCHANGED entries
    PROVE  /\ SubmitQueue' = Contents(sq', submit_head', submit_tail')
           /\ CompleteQueue' = Contents(cq', complete_head', complete_tail')
BY DEF SubmitQueue, CompleteQueue, Contents, Index, queue_count

(* Equal counters mean an empty queue.                                     *)
LEMMA NoEntries ==
    ASSUME NEW s, NEW c \in Counters
    PROVE  Contents(s, c, c) = <<>>
<1>1. queue_count(c, c) = 0
  BY EmptyCount
<1> QED
  BY <1>1 DEF Contents

(* An unused ring is a pair of empty queues of capacity 0.                 *)
LEMMA QueuesInit == Init => Q!QInit
<1> SUFFICES ASSUME Init PROVE Q!QInit
  OBVIOUS
<1>1. 0 \in Counters
  BY RingAssumption DEF Counters
<1>2. Contents(sq, 0, 0) = <<>> /\ Contents(cq, 0, 0) = <<>>
  BY <1>1, NoEntries
<1> QED
  BY <1>2 DEF Init, Q!QInit

(* Every operation of ring.c is one on the queues, or leaves them alone.   *)
LEMMA QueueSteps ==
    ASSUME SizesDivide, IInv
    PROVE  /\ \A n \in Sizes, t \in Endpoints \cup {NoToken} :
                  scdk_ring_create(n, t) => Q!QCreate(n)
           /\ \A d \in Descs : scdk_ring_submit(d) => Q!QSubmit(d)
           /\ scdk_ring_consume => Q!QConsume
           /\ \A c \in Completions : scdk_ring_complete(c) => Q!QComplete(c)
           /\ scdk_ring_poll => Q!QPoll
           /\ UNCHANGED <<entries, sqVars, cqVars>> => UNCHANGED Q!queueVars
<1> USE DEF IInv, TypeOK
<1>1. ASSUME NEW n \in Sizes, NEW t \in Endpoints \cup {NoToken},
             scdk_ring_create(n, t)
      PROVE  Q!QCreate(n)
  <2>1. entries = 0 /\ 0 \in Counters
    BY <1>1, RingAssumption DEF scdk_ring_create, Counters
  <2>2. submit_head = submit_tail /\ complete_head = complete_tail
    <3>1. /\ queue_count(submit_head, submit_tail) \in Nat
          /\ queue_count(complete_head, complete_tail) \in Nat
      BY TailPosition, RingAssumption
    <3>2. /\ queue_count(submit_head, submit_tail) < 1
          /\ queue_count(complete_head, complete_tail) < 1
      BY <2>1, <3>1
    <3>3. submit_head # submit_tail =>
              queue_count(submit_head, submit_tail) >= 1
      BY CountAfterTake
    <3>4. complete_head # complete_tail =>
              queue_count(complete_head, complete_tail) >= 1
      BY CountAfterTake
    <3> QED
      BY <3>1, <3>2, <3>3, <3>4
  <2>3. SubmitQueue = <<>> /\ CompleteQueue = <<>>
    BY <2>2, NoEntries DEF SubmitQueue, CompleteQueue
  <2>4. SubmitQueue' = <<>> /\ CompleteQueue' = <<>>
    <3>1. /\ submit_head' = 0 /\ submit_tail' = 0
          /\ complete_head' = 0 /\ complete_tail' = 0
      BY <1>1 DEF scdk_ring_create
    <3>2. queue_count(0, 0) = 0
      BY <2>1, EmptyCount
    <3> QED
      BY <3>1, <3>2 DEF SubmitQueue, CompleteQueue, Contents, queue_count
  <2>5. entries' = n /\ UNCHANGED <<out_desc, out_completion>>
    BY <1>1 DEF scdk_ring_create
  <2> QED
    BY <2>1, <2>3, <2>4, <2>5 DEF Q!QCreate, SubmitQueue, CompleteQueue
<1>2. ASSUME UNCHANGED <<entries, sqVars>> PROVE UNCHANGED <<SubmitQueue, out_desc>>
  BY <1>2 DEF sqVars, SubmitQueue, Contents, Index, queue_count
<1>3. ASSUME UNCHANGED <<entries, cqVars>>
      PROVE  UNCHANGED <<CompleteQueue, out_completion>>
  BY <1>3 DEF cqVars, CompleteQueue, Contents, Index, queue_count
<1>4. ASSUME UNCHANGED <<entries, sqVars, cqVars>>
      PROVE  UNCHANGED Q!queueVars
  BY <1>2, <1>3, <1>4 DEF Q!queueVars, SubmitQueue, CompleteQueue
<1>5. ASSUME ring_lookup
      PROVE  /\ entries \in 1 .. MaxEntries
             /\ CounterMod % entries = 0
  BY <1>5, RingAssumption DEF ring_lookup, SizesDivide
<1>6. ASSUME NEW d \in Descs, scdk_ring_submit(d) PROVE Q!QSubmit(d)
  <2>1. UNCHANGED <<entries, cqVars, submit_head, out_desc>>
    BY <1>6 DEF scdk_ring_submit, ctlVars
  <2>2. queue_count(submit_head, submit_tail) < entries
    BY <1>6 DEF scdk_ring_submit
  <2>3. SubmitQueue' = Append(SubmitQueue, d)
    <3> DEFINE D == Descs \cup {Nothing}
    <3>1. d \in D /\ sq \in [Slots -> D]
      OBVIOUS
    <3>2. entries \in 1 .. MaxEntries /\ CounterMod % entries = 0
      BY <1>5, <1>6 DEF scdk_ring_submit
    <3>3. submit_head \in Counters /\ submit_tail \in Counters
      OBVIOUS
    <3> HIDE DEF D, IInv, TypeOK
    <3>4. Contents([sq EXCEPT ![Index(submit_tail)] = d],
                   submit_head, Incremented(submit_tail))
            = Append(Contents(sq, submit_head, submit_tail), d)
      BY <2>2, <3>1, <3>2, <3>3, PutAppends, Zenon
    <3> QED
      BY <1>6, <2>1, <3>4, ContentsPrimed DEF SubmitQueue, scdk_ring_submit
  <2>4. Len(SubmitQueue) < entries
    <3>1. Len(SubmitQueue) = queue_count(submit_head, submit_tail)
      BY ContentsLen DEF SubmitQueue
    <3> QED
      BY <2>2, <3>1
  <2> QED
    BY <1>3, <2>1, <2>3, <2>4 DEF Q!QSubmit, SubmitQueue, CompleteQueue
<1>7. ASSUME scdk_ring_consume PROVE Q!QConsume
  <2>1. UNCHANGED <<entries, cqVars, submit_tail, sq>>
    BY <1>7 DEF scdk_ring_consume, ctlVars
  <2>2. /\ SubmitQueue # <<>> /\ sq[Index(submit_head)] = Head(SubmitQueue)
        /\ Contents(sq, Incremented(submit_head), submit_tail)
             = Tail(SubmitQueue)
    <3>1. entries \in 1 .. MaxEntries /\ submit_head # submit_tail
      BY <1>5, <1>7 DEF scdk_ring_consume
    <3> QED
      BY <3>1, TakeRemovesHead DEF SubmitQueue
  <2>3. SubmitQueue' = Tail(SubmitQueue) /\ out_desc' = Head(SubmitQueue)
    BY <1>7, <2>1, <2>2, ContentsPrimed DEF scdk_ring_consume
  <2> QED
    BY <1>3, <2>1, <2>2, <2>3 DEF Q!QConsume, SubmitQueue, CompleteQueue
<1>8. ASSUME NEW c \in Completions, scdk_ring_complete(c) PROVE Q!QComplete(c)
  <2>1. UNCHANGED <<entries, sqVars, complete_head, out_completion>>
    BY <1>8 DEF scdk_ring_complete, ctlVars
  <2>2. queue_count(complete_head, complete_tail) < entries
    BY <1>8 DEF scdk_ring_complete
  <2>3. CompleteQueue' = Append(CompleteQueue, c)
    <3> DEFINE D == Completions \cup {Nothing}
    <3>1. c \in D /\ cq \in [Slots -> D]
      OBVIOUS
    <3>2. entries \in 1 .. MaxEntries /\ CounterMod % entries = 0
      BY <1>5, <1>8 DEF scdk_ring_complete
    <3>3. complete_head \in Counters /\ complete_tail \in Counters
      OBVIOUS
    <3> HIDE DEF D, IInv, TypeOK
    <3>4. Contents([cq EXCEPT ![Index(complete_tail)] = c],
                   complete_head, Incremented(complete_tail))
            = Append(Contents(cq, complete_head, complete_tail), c)
      BY <2>2, <3>1, <3>2, <3>3, PutAppends, Zenon
    <3> QED
      BY <1>8, <2>1, <3>4, ContentsPrimed DEF CompleteQueue, scdk_ring_complete
  <2>4. Len(CompleteQueue) < entries
    <3>1. Len(CompleteQueue) = queue_count(complete_head, complete_tail)
      BY ContentsLen DEF CompleteQueue
    <3> QED
      BY <2>2, <3>1
  <2> QED
    BY <1>2, <2>1, <2>3, <2>4 DEF Q!QComplete, SubmitQueue, CompleteQueue
<1>9. ASSUME scdk_ring_poll PROVE Q!QPoll
  <2>1. UNCHANGED <<entries, sqVars, complete_tail, cq>>
    BY <1>9 DEF scdk_ring_poll, ctlVars
  <2>2. /\ CompleteQueue # <<>> /\ cq[Index(complete_head)] = Head(CompleteQueue)
        /\ Contents(cq, Incremented(complete_head), complete_tail)
             = Tail(CompleteQueue)
    <3>1. entries \in 1 .. MaxEntries /\ complete_head # complete_tail
      BY <1>5, <1>9 DEF scdk_ring_poll
    <3> QED
      BY <3>1, TakeRemovesHead DEF CompleteQueue
  <2>3. CompleteQueue' = Tail(CompleteQueue) /\ out_completion' = Head(CompleteQueue)
    BY <1>9, <2>1, <2>2, ContentsPrimed DEF scdk_ring_poll
  <2> QED
    BY <1>2, <2>1, <2>2, <2>3 DEF Q!QPoll, SubmitQueue, CompleteQueue
<1> QED
  BY <1>1, <1>4, <1>6, <1>7, <1>8, <1>9

(* So the ring's next-state relation implements that of the queues.        *)
LEMMA QueuesNext ==
    ASSUME SizesDivide, IInv, [Next]_vars
    PROVE  [Q!QNext]_(Q!queueVars)
<1>1. ASSUME NEW t \in Endpoints, scdk_ring_bind_target(t)
      PROVE  UNCHANGED Q!queueVars
  BY <1>1, QueueSteps DEF scdk_ring_bind_target
<1>2. ASSUME NEW t \in Endpoints \cup {RingToken}, Revoke(t)
      PROVE  UNCHANGED Q!queueVars
  BY <1>2, QueueSteps DEF Revoke
<1>3. CASE UNCHANGED vars
  BY <1>3, QueueSteps DEF vars, ctlVars
<1> QED
  BY <1>1, <1>2, <1>3, QueueSteps DEF Next, Q!QNext

(* For ring sizes that divide the counters' modulus, the arrays with their *)
(* free-running counters are two bounded FIFO queues: nothing is lost,     *)
(* overwritten or reordered, through any number of counter wraps.          *)
THEOREM RingImplementsQueues ==
    ASSUME SizesDivide
    PROVE  Spec => ImplementsQueues
<1>1. IInv /\ [Next]_vars => [Q!QNext]_(Q!queueVars)
  BY QueuesNext
<1> QED
  BY <1>1, QueuesInit, SpecIInv, PTL DEF Spec, ImplementsQueues, Q!QSpec

=============================================================================
