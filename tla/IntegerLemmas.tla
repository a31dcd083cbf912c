--------------------------- MODULE IntegerLemmas ----------------------------
(***************************************************************************)
(* Multiples, quotients and remainders, for the proofs about ring counters *)
(* and page addresses.                                                     *)
(***************************************************************************)
EXTENDS Integers, TLAPS, WellFoundedInduction

(* A multiple of E that is not positive is at most 0, else at least E.     *)
LEMMA Multiples ==
    ASSUME NEW E \in Nat \ {0}, NEW j \in Int
    PROVE  E * j <= 0 \/ E * j >= E
<1>1. CASE j <= 0
  BY <1>1
<1>2. CASE j >= 1
  BY <1>2
<1> QED
  BY <1>1, <1>2

(* Division with remainder, with the quotient as a witness.                *)
LEMMA Division ==
    ASSUME NEW E \in Nat \ {0}, NEW x \in Nat
    PROVE  /\ x % E \in Nat /\ x % E < E
           /\ x \div E \in Nat
           /\ x = E * (x \div E) + (x % E)
           /\ \E q \in Int : x = E * q + (x % E)
<1>1. x % E \in Nat /\ x % E < E /\ x \div E \in Int
  OBVIOUS
<1>2. x = E * (x \div E) + (x % E)
  OBVIOUS
<1>3. x \div E >= 0
  <2> DEFINE q == x \div E
  <2>1. q \in Int /\ -q \in Int /\ E * q = x - (x % E) /\ E * (-q) = (x % E) - x
    BY <1>1, <1>2
  <2>2. E * q > -E
    BY <1>1, <2>1
  <2> HIDE DEF q
  <2>3. q >= 0
    <3> SUFFICES ASSUME q <= -1 PROVE FALSE
      BY <2>1
    <3>1. E * q <= -E
      BY <2>1
    <3> QED
      BY <2>1, <2>2, <3>1
  <2> QED
    BY <2>3 DEF q
<1>4. x \div E \in Nat
  BY <1>1, <1>3
<1>5. \E q \in Int : x = E * q + (x % E)
  BY <1>1, <1>2
<1> QED
  BY <1>1, <1>2, <1>4, <1>5

(* Quotient and remainder are unique.                                      *)
LEMMA DivisionUnique ==
    ASSUME NEW E \in Nat \ {0}, NEW q \in Nat, NEW r \in 0 .. E - 1
    PROVE  (E * q + r) \div E = q /\ (E * q + r) % E = r
<1> DEFINE x == E * q + r
           p == x \div E
           s == x % E
<1>1. x \in Nat
  OBVIOUS
<1>2. s \in Nat /\ s < E /\ p \in Nat /\ x = E * p + s
  BY <1>1, Division
<1> HIDE DEF p, s
<1>3. E * (q - p) = s - r /\ E * (p - q) = r - s
  BY <1>2
<1>4. /\ E * (q - p) <= 0 \/ E * (q - p) >= E
      /\ E * (p - q) <= 0 \/ E * (p - q) >= E
  BY <1>2, Multiples
<1>5. s = r
  BY <1>2, <1>3, <1>4
<1>6. q = p
  <2>1. E * (q - p) = 0
    BY <1>2, <1>3, <1>5
  <2> QED
    BY <1>2, <2>1
<1> QED
  BY <1>5, <1>6 DEF p, s

(* A multiple leaves no remainder.                                         *)
LEMMA MultipleMod ==
    ASSUME NEW E \in Nat \ {0}, NEW q \in Nat
    PROVE  (E * q) % E = 0
<1>1. 0 \in 0 .. E - 1 /\ E * q + 0 = E * q
  OBVIOUS
<1>2. (E * q + 0) % E = 0
  BY <1>1, DivisionUnique
<1> QED
  BY <1>1, <1>2

(* A remainder modulo M of a number below M is the number.                 *)
LEMMA SmallMod ==
    ASSUME NEW M \in Nat \ {0}, NEW x \in 0 .. M - 1
    PROVE  x % M = x
OBVIOUS

(* Two numbers less than E apart have different remainders.                *)
LEMMA NearbyDiffer ==
    ASSUME NEW E \in Nat \ {0}, NEW a \in Nat, NEW b \in Nat,
           a < b, b < a + E
    PROVE  a % E # b % E
<1> SUFFICES ASSUME a % E = b % E PROVE FALSE
  OBVIOUS
<1> DEFINE r == a % E
<1>1. r \in Nat
  BY Division
<1>2. PICK p \in Int : a = E * p + r
  BY Division
<1>3. PICK q \in Int : b = E * q + r
  <2>1. PICK q \in Int : b = E * q + (b % E)
    BY Division
  <2> QED
    BY <2>1
<1> HIDE DEF r
<1>4. b - a = E * (q - p)
  BY <1>1, <1>2, <1>3
<1>5. E * (q - p) <= 0 \/ E * (q - p) >= E
  BY Multiples
<1> QED
  BY <1>4, <1>5

(* A remainder may be taken before an addition.                            *)
LEMMA ModAdd ==
    ASSUME NEW E \in Nat \ {0}, NEW x \in Nat, NEW k \in Nat
    PROVE  ((x % E) + k) % E = (x + k) % E
<1> DEFINE p == x \div E
           y == (x % E) + k
           q == y \div E
           r == y % E
<1>1. p \in Nat /\ x = E * p + (x % E) /\ x % E \in Nat
  BY Division
<1>2. y \in Nat
  BY <1>1
<1>3. q \in Nat /\ y = E * q + r /\ r \in 0 .. E - 1
  <2> HIDE DEF y
  <2>1. /\ y % E \in Nat /\ y % E < E /\ y \div E \in Nat
        /\ y = E * (y \div E) + (y % E)
    BY <1>2, Division
  <2> HIDE DEF q
  <2>2. r \in 0 .. E - 1
    BY <2>1
  <2> QED
    BY <2>1, <2>2 DEF q
<1> DEFINE n == p + q
<1> HIDE DEF p, q, r
<1>4. x + k = E * p + y
  BY <1>1
<1> HIDE DEF y
<1>5. E * p + y = E * n + r /\ n \in Nat
  BY <1>1, <1>2, <1>3
<1> HIDE DEF n
<1>6. (E * n + r) % E = r
  BY <1>3, <1>5, DivisionUnique
<1> QED
  BY <1>4, <1>5, <1>6 DEF r, y

(* A set of numbers that is not empty has a least element.                 *)
LEMMA LeastNatural ==
    ASSUME NEW S \in SUBSET Nat, S # {}
    PROVE  \E m \in S : \A k \in S : m <= k
<1> DEFINE R == OpToRel(<, Nat)
<1>1. IsWellFoundedOn(R, Nat)
  BY NatLessThanWellFounded
<1>2. \A j, k \in Nat : j < k => <<j, k>> \in R
  BY DEF OpToRel
<1> HIDE DEF R
<1>3. PICK m \in S : \A k \in S : ~(<<k, m>> \in R)
  BY <1>1, WFMin
<1>4. \A k \in S : ~(k < m)
  BY <1>2, <1>3
<1> QED
  BY <1>4

=============================================================================
