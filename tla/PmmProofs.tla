----------------------------- MODULE PmmProofs ------------------------------
(***************************************************************************)
(* Proofs about Pmm, for every page size, address width, table size and    *)
(* every memory map the boot loader may hand over (MapsAssumption).        *)
(***************************************************************************)
EXTENDS Pmm, IntegerLemmas, FiniteSetTheorems, SequenceTheorems

-----------------------------------------------------------------------------
(* Alignment                                                               *)

(* Rounding down gives a page address at or below.                         *)
LEMMA AlignDown ==
    ASSUME NEW x \in Nat
    PROVE  align_down(x) \in Nat /\ align_down(x) <= x
<1> DEFINE q == x \div PageSize
           r == x % PageSize
<1>1. r \in Nat /\ q \in Nat /\ x = PageSize * q + r
  BY PmmAssumption, Division
<1>2. align_down(x) = q * PageSize
  BY DEF align_down
<1> HIDE DEF q, r
<1> QED
  BY <1>1, <1>2, PmmAssumption

(* Rounding up gives one at or above, if that does not wrap; a page        *)
(* address is left alone.                                                  *)
LEMMA AlignUp ==
    ASSUME NEW x \in Nat, x + PageSize <= AddrMod
    PROVE  /\ align_up(x) \in Nat /\ align_up(x) >= x
           /\ x % PageSize = 0 => align_up(x) = x
<1> DEFINE y == x + PageSize - 1
           q == y \div PageSize
           r == y % PageSize
<1>1. y \in 0 .. AddrMod - 1 /\ y \in Nat
  BY PmmAssumption
<1>2. y % AddrMod = y
  BY <1>1, PmmAssumption, SmallMod
<1>3. align_up(x) = q * PageSize
  BY <1>2 DEF align_up
<1>4. r \in Nat /\ r < PageSize /\ q \in Nat /\ y = PageSize * q + r
  BY <1>1, PmmAssumption, Division
<1>5. ASSUME x % PageSize = 0 PROVE q * PageSize = x
  <2> DEFINE p == x \div PageSize
  <2>1. p \in Nat /\ x = PageSize * p
    BY <1>5, PmmAssumption, Division
  <2> HIDE DEF p, q
  <2>2. y = PageSize * p + (PageSize - 1) /\ PageSize - 1 \in 0 .. PageSize - 1
    BY <2>1, PmmAssumption
  <2>3. y \div PageSize = p
    BY <2>1, <2>2, PmmAssumption, DivisionUnique
  <2> QED
    BY <2>1, <2>3, PmmAssumption DEF q
<1> HIDE DEF q, r
<1>6. q * PageSize \in Nat /\ q * PageSize >= x
  BY <1>4, PmmAssumption
<1> QED
  BY <1>3, <1>5, <1>6

-----------------------------------------------------------------------------
(* Entries of the map                                                      *)

\* An entry as MapsAssumption has it.
Sane(entry) ==
    /\ entry \in [base : 0 .. AddrMod - 1, length : 0 .. AddrMod - 1, usable : BOOLEAN]
    /\ entry.base + PageSize <= AddrMod \/ entry.base + entry.length >= AddrMod
    /\ entry.usable => entry.base % PageSize = 0 /\ entry.length % PageSize = 0

(* The entries scdk_pmm_init does not skip lie inside the address space,   *)
(* and what it takes of them lies inside them.                             *)
LEMMA NotSkipped ==
    ASSUME NEW entry, Sane(entry), ~Skipped(entry)
    PROVE  LET base == align_up(entry.base)
               end == align_down((entry.base + entry.length) % AddrMod)
           IN  /\ base \in Nat /\ end \in Nat /\ base < end
               /\ base >= entry.base /\ end <= entry.base + entry.length
               /\ entry.base \in Nat /\ entry.length \in Nat
               /\ entry.base + entry.length < AddrMod
               /\ entry.usable => base = entry.base /\ base % PageSize = 0
<1> DEFINE b == entry.base
           n == entry.length
           top == (b + n) % AddrMod
<1>1. b \in 0 .. AddrMod - 1 /\ n \in 0 .. AddrMod - 1 /\ AddrMod \in Nat \ {0}
  BY PmmAssumption DEF Sane
<1>2. /\ top >= b /\ align_up(b) < align_down(top)
  <2>1. top \in Nat
    BY <1>1
  <2>2. ~(top < b) /\ ~(align_down(top) <= align_up(b))
    BY DEF Skipped
  <2>3. ASSUME b + n < AddrMod PROVE b + PageSize <= AddrMod
    BY <1>1, <2>3, PmmAssumption DEF Sane
  <2>4. align_down(top) \in Nat
    BY <2>1, AlignDown
  <2>5. align_up(b) \in Int
    <3> DEFINE y == (b + PageSize - 1) % AddrMod
    <3>1. y \in Nat
      BY <1>1, PmmAssumption
    <3>2. y \div PageSize \in Int
      BY <3>1, PmmAssumption, Division
    <3>3. align_up(b) = (y \div PageSize) * PageSize
      BY DEF align_up
    <3> HIDE DEF y
    <3> QED
      BY <3>2, <3>3, PmmAssumption
  <2> QED
    BY <1>1, <2>1, <2>2, <2>4, <2>5
<1>3. b + n < AddrMod
  <2> SUFFICES ASSUME b + n >= AddrMod PROVE FALSE
    BY <1>1
  <2>1. b + n - AddrMod \in 0 .. AddrMod - 1 /\ b + n = AddrMod * 1 + (b + n - AddrMod)
    BY <1>1
  <2>2. top = b + n - AddrMod
    <3> DEFINE r == b + n - AddrMod
    <3>1. (AddrMod * 1 + r) % AddrMod = r
      <4> HIDE DEF r
      <4> QED
        BY <1>1, <2>1, DivisionUnique DEF r
    <3> QED
      BY <2>1, <3>1
  <2> QED
    BY <1>1, <1>2, <2>2
<1>4. top = b + n
  BY <1>1, <1>3, SmallMod
<1>5. b + PageSize <= AddrMod
  BY <1>1, <1>3, PmmAssumption DEF Sane
<1>6. align_up(b) \in Nat /\ align_up(b) >= b /\ (b % PageSize = 0 => align_up(b) = b)
  BY <1>1, <1>5, AlignUp
<1>7. align_down(top) \in Nat /\ align_down(top) <= b + n
  BY <1>1, <1>4, AlignDown
<1> QED
  BY <1>1, <1>2, <1>3, <1>6, <1>7 DEF Sane

(* What collect_usable_region takes of a usable entry: different pages of  *)
(* the entry, no more than fit on the stack.                               *)
LEMMA Collected ==
    ASSUME NEW entry, Sane(entry), ~Skipped(entry), entry.usable,
           free_pages \in 0 .. MaxPages
    PROVE  LET base == align_up(entry.base)
               end == align_down((entry.base + entry.length) % AddrMod)
               got == collect_usable_region(base, end)
           IN  /\ got \in Seq(0 .. AddrMod - 1) /\ Len(got) <= MaxPages - free_pages
               /\ \A k \in DOMAIN got :
                      got[k] \in PagesOf(entry) /\ got[k] + PageSize < AddrMod
               /\ \A k, l \in DOMAIN got : got[k] = got[l] => k = l
<1> DEFINE base == align_up(entry.base)
           end == align_down((entry.base + entry.length) % AddrMod)
           n == (end - base) \div PageSize
           room == MaxPages - free_pages
           m == IF n < room THEN n ELSE room
           page(k) == base + (k - 1) * PageSize
           got == collect_usable_region(base, end)
<1>1. /\ base \in Nat /\ end \in Nat /\ base < end
      /\ entry.base \in Nat /\ entry.length \in Nat /\ base = entry.base
      /\ end <= entry.base + entry.length /\ entry.base + entry.length < AddrMod
      /\ base % PageSize = 0
  BY NotSkipped
<1> HIDE DEF base, end
<1>2. n \in Nat /\ PageSize * n <= end - base
  <2>1. end - base \in Nat
    BY <1>1
  <2>2. /\ (end - base) % PageSize \in Nat /\ n \in Nat
        /\ end - base = PageSize * n + ((end - base) % PageSize)
    BY <2>1, PmmAssumption, Division
  <2> HIDE DEF n
  <2> QED
    BY <2>2, <1>1, PmmAssumption
<1>3. m \in Nat /\ m <= n /\ m <= room
  BY <1>2, PmmAssumption
<1>4. got = [k \in 1 .. m |-> page(k)]
  BY DEF collect_usable_region, n, room, m, page
<1> HIDE DEF n, room, m
<1>5. ASSUME NEW k \in 1 .. m
      PROVE  /\ page(k) \in Nat /\ page(k) >= base /\ page(k) + PageSize <= end
             /\ page(k) % PageSize = 0
  <2>1. k \in Nat /\ k - 1 \in Nat /\ n - k \in Nat
    BY <1>2, <1>3
  <2>2. (k - 1) * PageSize \in Nat /\ (k - 1) * PageSize + PageSize = PageSize * k
    BY <2>1, PmmAssumption
  <2>3. PageSize * k <= PageSize * n
    <3>1. PageSize * (n - k) \in Nat /\ PageSize * n = PageSize * k + PageSize * (n - k)
      BY <1>2, <2>1, PmmAssumption
    <3> QED
      BY <1>2, <2>1, <3>1, PmmAssumption
  <2>4. page(k) \in Nat /\ page(k) >= base /\ page(k) + PageSize <= end
    BY <1>1, <1>2, <2>2, <2>3, PmmAssumption
  <2>5. page(k) % PageSize = 0
    <3> DEFINE p == base \div PageSize
    <3>1. p \in Nat /\ base = PageSize * p
      <4>1. p \in Nat /\ base = PageSize * p + (base % PageSize)
        BY <1>1, PmmAssumption, Division
      <4> HIDE DEF p
      <4> QED
        BY <1>1, <4>1, PmmAssumption
    <3> HIDE DEF p
    <3>2. page(k) = PageSize * (p + (k - 1)) /\ p + (k - 1) \in Nat
      BY <2>1, <3>1, PmmAssumption
    <3> DEFINE q == p + (k - 1)
    <3> HIDE DEF q
    <3>3. (PageSize * q) % PageSize = 0
      BY <3>2, PmmAssumption, MultipleMod DEF q
    <3> QED
      BY <3>2, <3>3 DEF q
  <2> QED
    BY <2>4, <2>5
<1>6. ASSUME NEW k \in 1 .. m, NEW l \in 1 .. m, page(k) = page(l) PROVE k = l
  <2>1. k - l \in Int /\ l - k \in Int
    BY <1>3
  <2>2. (k - 1) * PageSize = (l - 1) * PageSize
    <3> DEFINE x == (k - 1) * PageSize
               y == (l - 1) * PageSize
    <3>1. x \in Int /\ y \in Int
      BY <1>3, PmmAssumption
    <3>2. base + x = base + y
      BY <1>6
    <3> HIDE DEF x, y
    <3>3. x = y
      BY <1>1, <3>1, <3>2
    <3> QED
      BY <3>3 DEF x, y
  <2>3. PageSize * (k - l) = 0
    BY <1>3, <2>2, PmmAssumption
  <2>4. (PageSize * (k - l) <= 0 \/ PageSize * (k - l) >= PageSize) /\ k \in Int /\ l \in Int
    BY <1>3, <2>1, PmmAssumption, Multiples
  <2> QED
    BY <2>1, <2>3, <2>4, PmmAssumption
<1>7. got \in Seq(0 .. AddrMod - 1) /\ Len(got) = m
  <2>1. \A k \in 1 .. m : page(k) \in 0 .. AddrMod - 1
    BY <1>1, <1>5, PmmAssumption
  <2> HIDE DEF page
  <2> QED
    BY <1>3, <1>4, <2>1
<1>8. ASSUME NEW k \in 1 .. m
      PROVE  got[k] \in PagesOf(entry) /\ got[k] + PageSize < AddrMod
  <2>1. got[k] = page(k)
    BY <1>4
  <2>2. /\ page(k) \in Nat /\ page(k) >= base /\ page(k) + PageSize <= end
        /\ page(k) % PageSize = 0
    BY <1>5
  <2> HIDE DEF page, got
  <2> QED
    BY <1>1, <2>1, <2>2, PmmAssumption DEF PagesOf
<1>9. ASSUME NEW k \in 1 .. m, NEW l \in 1 .. m, got[k] = got[l] PROVE k = l
  <2>1. got[k] = page(k) /\ got[l] = page(l)
    BY <1>4
  <2> QED
    BY <1>6, <1>9, <2>1
<1>10. DOMAIN got = 1 .. m
  BY <1>4
<1> HIDE DEF got
<1> QED
  BY <1>3, <1>7, <1>8, <1>9, <1>10 DEF got, base, end, room

(* A page that an entry does not touch does not overlap what is recorded   *)
(* of the entry.                                                           *)
LEMMA NoOverlap ==
    ASSUME NEW entry, Sane(entry), ~Skipped(entry),
           NEW region, NEW p \in 0 .. AddrMod - 1,
           region.base = align_up(entry.base),
           region.length = align_down((entry.base + entry.length) % AddrMod)
                             - align_up(entry.base),
           p % PageSize = 0, p + PageSize < AddrMod, p \notin PagesOf(entry)
    PROVE  ~page_overlaps_region(region, p)
<1> DEFINE base == align_up(entry.base)
           end == align_down((entry.base + entry.length) % AddrMod)
<1>1. /\ base \in Nat /\ end \in Nat /\ base < end
      /\ base >= entry.base /\ end <= entry.base + entry.length
      /\ entry.base \in Nat /\ entry.length \in Nat
      /\ entry.base + entry.length < AddrMod
  BY NotSkipped
<1>2. region.base = base /\ region.length = end - base
  OBVIOUS
<1> HIDE DEF base, end
<1>3. p + PageSize <= entry.base \/ p >= entry.base + entry.length
  BY <1>1, PmmAssumption DEF PagesOf
<1>4. (p + PageSize) % AddrMod = p + PageSize
  BY PmmAssumption, SmallMod
<1>5. (region.base + region.length) % AddrMod = end
  BY <1>1, <1>2, PmmAssumption, SmallMod
<1> QED
  BY <1>1, <1>2, <1>3, <1>4, <1>5, PmmAssumption DEF page_overlaps_region

-----------------------------------------------------------------------------
(* The inductive invariant                                                 *)

\* A page of a usable entry that the scan has reached.
Managed(p) ==
    /\ p + PageSize < AddrMod
    /\ \E j \in DOMAIN memmap :
           j < scanned /\ memmap[j].usable /\ p \in PagesOf(memmap[j])

Regions == [base : Int, length : Int]

\* What scdk_pmm_init records of an entry that is not usable.
RecordOf(region, entry) ==
    /\ ~entry.usable /\ ~Skipped(entry)
    /\ region.base = align_up(entry.base)
    /\ region.length = align_down((entry.base + entry.length) % AddrMod)
                         - align_up(entry.base)

ScanInv ==
    /\ memmap \in MemMaps /\ scanned \in 1 .. Len(memmap) + 1
    /\ usable_regions \in Seq(Regions) /\ Len(usable_regions) <= MaxRegions
    /\ reserved_regions \in Seq(Regions) /\ Len(reserved_regions) <= MaxRegions
    /\ \A i \in DOMAIN reserved_regions :
           \E j \in DOMAIN memmap : RecordOf(reserved_regions[i], memmap[j])
    /\ scanned <= Len(memmap) => held = {} /\ freed = {} /\ allocated_pages = 0

StackInv ==
    /\ page_stack \in Seq(0 .. AddrMod - 1)
    /\ \A i \in DOMAIN page_stack : Managed(page_stack[i])
    /\ \A p \in held \cup freed : Managed(p)
    /\ OneOwner

\* Every page in use is counted as allocated, and every managed page is free
\* or allocated.
CountInv ==
    /\ managed_pages \in 0 .. MaxPages /\ allocated_pages \in Nat
    /\ CountersAddUp
    /\ IsFiniteSet(held) /\ Cardinality(held) <= allocated_pages

PmmIInv == ScanInv /\ StackInv /\ CountInv /\ FreedPagesReturn

(* The entries of the map are sane.                                        *)
LEMMA MapEntries ==
    ASSUME memmap \in MemMaps
    PROVE  /\ memmap \in Seq([base : 0 .. AddrMod - 1, length : 0 .. AddrMod - 1,
                              usable : BOOLEAN])
           /\ DOMAIN memmap = 1 .. Len(memmap) /\ Len(memmap) \in Nat
           /\ \A i \in DOMAIN memmap : Sane(memmap[i])
           /\ \A i, j \in DOMAIN memmap :
                  memmap[i].usable /\ i # j => PagesOf(memmap[i]) \cap PagesOf(memmap[j]) = {}
<1>1. memmap \in Seq([base : 0 .. AddrMod - 1, length : 0 .. AddrMod - 1, usable : BOOLEAN])
  BY MapsAssumption
<1>2. DOMAIN memmap = 1 .. Len(memmap) /\ Len(memmap) \in Nat
  BY <1>1
<1>3. ASSUME NEW i \in DOMAIN memmap PROVE Sane(memmap[i])
  <2> DEFINE E == [base : 0 .. AddrMod - 1, length : 0 .. AddrMod - 1, usable : BOOLEAN]
  <2>1. memmap[i] \in E
    <3>1. memmap \in Seq(E)
      BY <1>1
    <3> HIDE DEF E
    <3> QED
      BY <3>1
  <2> QED
    BY <2>1, MapsAssumption DEF Sane
<1>4. \A i, j \in DOMAIN memmap :
          memmap[i].usable /\ i # j => PagesOf(memmap[i]) \cap PagesOf(memmap[j]) = {}
  BY MapsAssumption
<1> QED
  BY <1>1, <1>2, <1>3, <1>4

(* Before the scan.                                                        *)
LEMMA InitPmmIInv == PmmInit => PmmIInv
<1> SUFFICES ASSUME PmmInit PROVE PmmIInv
  OBVIOUS
<1>1. Len(memmap) \in Nat
  BY MapEntries DEF PmmInit
<1>2. ScanInv
  BY <1>1, PmmAssumption DEF PmmInit, ScanInv
<1>3. StackInv /\ FreedPagesReturn
  BY DEF PmmInit, StackInv, OneOwner, FreedPagesReturn
<1>4. IsFiniteSet({}) /\ Cardinality({}) = 0
  BY FS_EmptySet
<1>5. CountInv
  BY <1>4, PmmAssumption DEF PmmInit, CountInv, CountersAddUp, free_pages
<1> QED
  BY <1>2, <1>3, <1>5 DEF PmmIInv

(* A table of regions stays within its bound.                              *)
LEMMA RecordRegion ==
    ASSUME NEW regions \in Seq(Regions), Len(regions) <= MaxRegions,
           NEW base \in Int, NEW length \in Int
    PROVE  LET new == record_region(regions, base, length)
           IN  /\ new \in Seq(Regions) /\ Len(new) <= MaxRegions
               /\ \A i \in DOMAIN new : \/ i \in DOMAIN regions /\ new[i] = regions[i]
                                        \/ new[i] = [base |-> base, length |-> length]
<1> DEFINE r == [base |-> base, length |-> length]
<1>1. r \in Regions
  BY DEF Regions
<1> HIDE DEF r
<1>2. CASE Len(regions) >= MaxRegions
  BY <1>2 DEF record_region
<1>3. CASE ~(Len(regions) >= MaxRegions)
  <2>1. record_region(regions, base, length) = Append(regions, r)
    BY <1>3 DEF record_region, r
  <2>2. /\ Append(regions, r) \in Seq(Regions)
        /\ Len(Append(regions, r)) = Len(regions) + 1
        /\ \A i \in 1 .. Len(regions) + 1 :
               Append(regions, r)[i] = IF i = Len(regions) + 1 THEN r ELSE regions[i]
    BY <1>1
  <2> QED
    BY <1>3, <2>1, <2>2, PmmAssumption DEF r
<1> QED
  BY <1>2, <1>3

-----------------------------------------------------------------------------
(* scdk_pmm_init                                                           *)

(* Nobody owns a page before the scan is over.                             *)
LEMMA ScanOwners ==
    ASSUME PmmIInv, scdk_pmm_init
    PROVE  /\ held = {} /\ freed = {} /\ allocated_pages = 0
           /\ memmap' = memmap /\ held' = {} /\ freed' = {} /\ allocated_pages' = 0
           /\ FreedPagesReturn'
           /\ scanned \in Nat /\ scanned \in DOMAIN memmap /\ Sane(memmap[scanned])
           /\ Len(memmap) \in Nat
<1>1. /\ held = {} /\ freed = {} /\ allocated_pages = 0 /\ memmap' = memmap
      /\ held' = {} /\ freed' = {} /\ allocated_pages' = 0
  BY DEF PmmIInv, ScanInv, scdk_pmm_init
<1>2. FreedPagesReturn'
  BY <1>1 DEF FreedPagesReturn
<1>3. scanned \in Nat /\ scanned \in DOMAIN memmap /\ Len(memmap) \in Nat
  <2>1. memmap \in MemMaps /\ scanned \in 1 .. Len(memmap) + 1 /\ scanned <= Len(memmap)
    BY DEF PmmIInv, ScanInv, scdk_pmm_init
  <2>2. DOMAIN memmap = 1 .. Len(memmap) /\ Len(memmap) \in Nat
    BY <2>1, MapEntries
  <2> QED
    BY <2>1, <2>2
<1>4. Sane(memmap[scanned])
  BY <1>3, MapEntries DEF PmmIInv, ScanInv
<1> QED
  BY <1>1, <1>2, <1>3, <1>4

(* An entry that is skipped, or recorded as reserved, leaves the stack.    *)
LEMMA ScanOther ==
    ASSUME PmmIInv, scdk_pmm_init, scanned' = scanned + 1,
           UNCHANGED <<page_stack, managed_pages>>
    PROVE  StackInv' /\ CountInv' /\ scanned' \in 1 .. Len(memmap') + 1
<1>1. /\ held = {} /\ freed = {} /\ allocated_pages = 0 /\ memmap' = memmap
      /\ held' = {} /\ freed' = {} /\ allocated_pages' = 0
      /\ scanned \in Nat /\ scanned \in DOMAIN memmap /\ Len(memmap) \in Nat
  BY ScanOwners
<1>2. scanned' \in 1 .. Len(memmap') + 1
  BY <1>1 DEF scdk_pmm_init
<1>3. StackInv'
  <2>1. ASSUME NEW i \in DOMAIN page_stack PROVE Managed(page_stack[i])'
    <3> DEFINE p == page_stack[i]
    <3>1. p' = p
      OBVIOUS
    <3>2. Managed(p)
      BY DEF PmmIInv, StackInv
    <3> HIDE DEF p
    <3>3. memmap \in MemMaps
      BY DEF PmmIInv, ScanInv
    <3>4. \E j \in DOMAIN memmap' :
              j < scanned' /\ memmap'[j].usable /\ p \in PagesOf(memmap'[j])
      <4>1. DOMAIN memmap = 1 .. Len(memmap)
        BY <3>3, MapEntries
      <4> QED
        BY <1>1, <3>2, <4>1 DEF Managed
    <3> QED
      BY <3>1, <3>2, <3>4 DEF Managed, PagesOf, p
  <2> QED
    BY <1>1, <2>1 DEF PmmIInv, StackInv, OneOwner
<1>4. CountInv'
  BY <1>1 DEF PmmIInv, CountInv, CountersAddUp, free_pages
<1> QED
  BY <1>2, <1>3, <1>4

(* The case of a usable entry.                                             *)
LEMMA ScanUsableStep ==
    ASSUME PmmIInv, scdk_pmm_init, ~Skipped(memmap[scanned]), memmap[scanned].usable
    PROVE  PmmIInv'
<1> DEFINE entry == memmap[scanned]
           base == align_up(entry.base)
           end == align_down((entry.base + entry.length) % AddrMod)
           got == collect_usable_region(base, end)
<1>1. /\ held = {} /\ freed = {} /\ allocated_pages = 0 /\ memmap' = memmap
      /\ held' = {} /\ freed' = {} /\ allocated_pages' = 0 /\ FreedPagesReturn'
      /\ scanned \in Nat /\ scanned \in DOMAIN memmap /\ Sane(entry)
      /\ Len(memmap) \in Nat
  BY ScanOwners
<1>2. /\ usable_regions' = record_region(usable_regions, base, end - base)
      /\ page_stack' = page_stack \o got
      /\ managed_pages' = managed_pages + Len(got)
      /\ scanned' = Len(memmap) + 1 \/ scanned' = scanned + 1
      /\ reserved_regions' = reserved_regions
  BY DEF scdk_pmm_init, ScanUsable
<1>3. /\ memmap \in MemMaps /\ page_stack \in Seq(0 .. AddrMod - 1)
      /\ managed_pages = free_pages /\ free_pages \in 0 .. MaxPages
  BY <1>1 DEF PmmIInv, ScanInv, StackInv, CountInv, CountersAddUp, free_pages
<1>4. /\ got \in Seq(0 .. AddrMod - 1) /\ Len(got) <= MaxPages - free_pages
      /\ \A k \in DOMAIN got : got[k] \in PagesOf(entry) /\ got[k] + PageSize < AddrMod
      /\ \A k, l \in DOMAIN got : got[k] = got[l] => k = l
  BY <1>1, <1>3, Collected
<1>5. base \in Nat /\ end \in Nat
  BY <1>1, NotSkipped
<1> HIDE DEF base, end, got
<1>6. scanned' \in 1 .. Len(memmap') + 1 /\ scanned' > scanned /\ scanned' \in Nat
  BY <1>1, <1>2 DEF scdk_pmm_init
<1>7. ScanInv'
  <2>1. usable_regions' \in Seq(Regions) /\ Len(usable_regions') <= MaxRegions
    <3>1. usable_regions \in Seq(Regions) /\ Len(usable_regions) <= MaxRegions
      BY DEF PmmIInv, ScanInv
    <3>2. end - base \in Int /\ base \in Int
      BY <1>5
    <3> QED
      BY <1>2, <3>1, <3>2, RecordRegion
  <2> QED
    BY <1>1, <1>2, <1>3, <1>6, <2>1 DEF PmmIInv, ScanInv, RecordOf, Skipped, align_up, align_down
<1>8. /\ page_stack' \in Seq(0 .. AddrMod - 1)
      /\ Len(page_stack') = Len(page_stack) + Len(got)
      /\ DOMAIN page_stack' = 1 .. Len(page_stack) + Len(got)
      /\ DOMAIN page_stack = 1 .. Len(page_stack) /\ DOMAIN got = 1 .. Len(got)
      /\ Len(page_stack) \in Nat /\ Len(got) \in Nat
      /\ \A i \in 1 .. Len(page_stack) : page_stack'[i] = page_stack[i]
      /\ \A i \in 1 .. Len(page_stack) + Len(got) :
             i > Len(page_stack) => page_stack'[i] = got[i - Len(page_stack)]
  BY <1>2, <1>3, <1>4
<1>9. CountInv'
  <2>1. CountersAddUp' /\ managed_pages' \in 0 .. MaxPages
    BY <1>1, <1>2, <1>3, <1>4, <1>8, PmmAssumption DEF CountersAddUp, free_pages
  <2> QED
    BY <1>1, <2>1, FS_EmptySet DEF CountInv
<1>10. ASSUME NEW i \in 1 .. Len(page_stack)
       PROVE  /\ page_stack[i] + PageSize < AddrMod
              /\ \E j \in DOMAIN memmap : /\ j < scanned /\ memmap[j].usable
                                          /\ page_stack[i] \in PagesOf(memmap[j])
  BY <1>8 DEF PmmIInv, StackInv, Managed
<1>11. ASSUME NEW i \in 1 .. Len(page_stack), NEW k \in 1 .. Len(got)
       PROVE  page_stack[i] # got[k]
  <2>1. PICK j \in DOMAIN memmap : /\ j < scanned /\ memmap[j].usable
                                   /\ page_stack[i] \in PagesOf(memmap[j])
    BY <1>10
  <2>2. got[k] \in PagesOf(memmap[scanned])
    BY <1>4, <1>8
  <2>3. j # scanned
    BY <1>1, <2>1
  <2>4. PagesOf(memmap[scanned]) \cap PagesOf(memmap[j]) = {}
    BY <1>1, <1>3, <2>3, MapEntries
  <2> QED
    BY <2>1, <2>2, <2>4
<1>12. ASSUME NEW i \in DOMAIN page_stack' PROVE Managed(page_stack[i])'
  <2> SUFFICES /\ page_stack'[i] + PageSize < AddrMod
               /\ \E j \in DOMAIN memmap : /\ j < scanned' /\ memmap[j].usable
                                           /\ page_stack'[i] \in PagesOf(memmap[j])
    BY <1>1 DEF Managed, PagesOf
  <2>1. CASE i \in 1 .. Len(page_stack)
    <3>1. page_stack'[i] = page_stack[i]
      BY <1>8, <2>1
    <3>2. PICK j \in DOMAIN memmap : /\ j < scanned /\ memmap[j].usable
                                     /\ page_stack[i] \in PagesOf(memmap[j])
      BY <1>10, <2>1
    <3>3. j < scanned'
      <4>1. DOMAIN memmap = 1 .. Len(memmap)
        BY <1>3, MapEntries
      <4> QED
        BY <1>1, <1>6, <3>2, <4>1
    <3> QED
      BY <1>10, <2>1, <3>1, <3>2, <3>3
  <2>2. CASE i \notin 1 .. Len(page_stack)
    <3>1. i - Len(page_stack) \in 1 .. Len(got) /\ i > Len(page_stack)
      BY <1>8, <2>2
    <3>2. page_stack'[i] = got[i - Len(page_stack)]
      BY <1>8, <3>1
    <3> QED
      BY <1>1, <1>4, <1>6, <1>8, <3>1, <3>2
  <2> QED
    BY <2>1, <2>2
<1>13. ASSUME NEW i \in DOMAIN page_stack', NEW j \in DOMAIN page_stack',
              page_stack'[i] = page_stack'[j]
       PROVE  i = j
  <2> DEFINE n == Len(page_stack)
  <2>1. CASE i <= n /\ j <= n
    <3>1. page_stack'[i] = page_stack[i] /\ page_stack'[j] = page_stack[j]
      BY <1>8, <2>1
    <3>2. i \in DOMAIN page_stack /\ j \in DOMAIN page_stack
      BY <1>8, <2>1
    <3>3. \A x, y \in DOMAIN page_stack : page_stack[x] = page_stack[y] => x = y
      BY DEF PmmIInv, StackInv, OneOwner
    <3> QED
      BY <1>13, <3>1, <3>2, <3>3
  <2>2. CASE i <= n /\ j > n
    <3>1. page_stack'[i] = page_stack[i] /\ page_stack'[j] = got[j - n]
      BY <1>8, <2>2
    <3>2. i \in 1 .. n /\ j - n \in 1 .. Len(got)
      BY <1>8, <2>2
    <3> QED
      BY <1>11, <1>13, <3>1, <3>2
  <2>3. CASE i > n /\ j <= n
    <3>1. page_stack'[i] = got[i - n] /\ page_stack'[j] = page_stack[j]
      BY <1>8, <2>3
    <3>2. i - n \in 1 .. Len(got) /\ j \in 1 .. n
      BY <1>8, <2>3
    <3> QED
      BY <1>11, <1>13, <3>1, <3>2
  <2>4. CASE i > n /\ j > n
    <3>1. page_stack'[i] = got[i - n] /\ page_stack'[j] = got[j - n]
      BY <1>8, <2>4
    <3>2. i - n \in 1 .. Len(got) /\ j - n \in 1 .. Len(got)
      BY <1>8, <2>4
    <3>3. i - n = j - n
      BY <1>4, <1>8, <1>13, <3>1, <3>2
    <3> QED
      BY <1>8, <3>3
  <2> QED
    BY <1>8, <2>1, <2>2, <2>3, <2>4
<1>14. StackInv'
  BY <1>1, <1>8, <1>12, <1>13 DEF StackInv, OneOwner
<1> QED
  BY <1>1, <1>7, <1>9, <1>14 DEF PmmIInv

(* One entry of the map.                                                   *)
LEMMA ScanStep == PmmIInv /\ scdk_pmm_init => PmmIInv'
<1> SUFFICES ASSUME PmmIInv, scdk_pmm_init PROVE PmmIInv'
  OBVIOUS
<1> DEFINE entry == memmap[scanned]
           base == align_up(entry.base)
           end == align_down((entry.base + entry.length) % AddrMod)
<1>1. /\ memmap' = memmap /\ held' = {} /\ freed' = {} /\ allocated_pages' = 0
      /\ FreedPagesReturn' /\ scanned \in DOMAIN memmap /\ Sane(entry)
      /\ memmap \in MemMaps
  BY ScanOwners DEF PmmIInv, ScanInv
<1>2. CASE Skipped(entry)
  <2>1. scanned' = scanned + 1 /\ UNCHANGED <<usable_regions, reserved_regions, page_stack, managed_pages>>
    BY <1>2 DEF scdk_pmm_init
  <2>2. StackInv' /\ CountInv' /\ scanned' \in 1 .. Len(memmap') + 1
    BY <2>1, ScanOther
  <2>3. ScanInv'
    BY <1>1, <2>1, <2>2 DEF PmmIInv, ScanInv, RecordOf, Skipped, align_up, align_down
  <2> QED
    BY <1>1, <2>2, <2>3 DEF PmmIInv
<1>3. CASE ~Skipped(entry) /\ entry.usable
  BY <1>3, ScanUsableStep
<1>4. CASE ~Skipped(entry) /\ ~entry.usable
  <2>1. /\ scanned' = scanned + 1 /\ UNCHANGED <<usable_regions, page_stack, managed_pages>>
        /\ reserved_regions' = record_region(reserved_regions, base, end - base)
    BY <1>4 DEF scdk_pmm_init, ScanReserved
  <2>2. StackInv' /\ CountInv' /\ scanned' \in 1 .. Len(memmap') + 1
    BY <2>1, ScanOther
  <2>3. base \in Int /\ end - base \in Int
    BY <1>1, <1>4, NotSkipped
  <2>4. RecordOf([base |-> base, length |-> end - base], entry)
    BY <1>4 DEF RecordOf
  <2> HIDE DEF base, end
  <2>5. /\ reserved_regions' \in Seq(Regions) /\ Len(reserved_regions') <= MaxRegions
        /\ \A i \in DOMAIN reserved_regions' :
               \/ i \in DOMAIN reserved_regions /\ reserved_regions'[i] = reserved_regions[i]
               \/ reserved_regions'[i] = [base |-> base, length |-> end - base]
    <3>1. reserved_regions \in Seq(Regions) /\ Len(reserved_regions) <= MaxRegions
      BY DEF PmmIInv, ScanInv
    <3> QED
      BY <2>1, <2>3, <3>1, RecordRegion
  <2>6. \A i \in DOMAIN reserved_regions' :
            \E j \in DOMAIN memmap : RecordOf(reserved_regions'[i], memmap[j])
    BY <1>1, <2>4, <2>5 DEF PmmIInv, ScanInv
  <2>7. ScanInv'
    BY <1>1, <2>1, <2>2, <2>5, <2>6 DEF PmmIInv, ScanInv, RecordOf, Skipped, align_up, align_down
  <2> QED
    BY <1>1, <2>2, <2>7 DEF PmmIInv
<1> QED
  BY <1>2, <1>3, <1>4

-----------------------------------------------------------------------------
(* scdk_page_alloc and scdk_page_free                                      *)

(* After the scan the tables are fixed.                                    *)
LEMMA TablesFixed ==
    ASSUME PmmIInv, pmm_initialized, UNCHANGED <<tables, scanned>>
    PROVE  /\ ScanInv'
           /\ \A p : Managed(p) <=> /\ p + PageSize < AddrMod
                                    /\ \E j \in DOMAIN memmap' :
                                           /\ j < scanned' /\ memmap'[j].usable
                                           /\ p \in PagesOf(memmap'[j])
           /\ \A p : scdk_pmm_is_usable_page(p)' <=> scdk_pmm_is_usable_page(p)
<1>1. /\ memmap' = memmap /\ usable_regions' = usable_regions
      /\ reserved_regions' = reserved_regions /\ scanned' = scanned
  BY DEF tables
<1>2. memmap \in MemMaps /\ scanned \in 1 .. Len(memmap) + 1 /\ scanned > Len(memmap)
  BY DEF PmmIInv, ScanInv, pmm_initialized
<1>3. Len(memmap) \in Nat
  BY <1>2, MapEntries
<1>4. ScanInv'
  <2>1. ~(scanned' <= Len(memmap'))
    BY <1>1, <1>2, <1>3
  <2> QED
    BY <1>1, <2>1 DEF PmmIInv, ScanInv, RecordOf, Skipped, align_up, align_down
<1>5. \A p : Managed(p) <=> /\ p + PageSize < AddrMod
                            /\ \E j \in DOMAIN memmap' :
                                   /\ j < scanned' /\ memmap'[j].usable
                                   /\ p \in PagesOf(memmap'[j])
  BY <1>1 DEF Managed
<1>6. ASSUME NEW p PROVE scdk_pmm_is_usable_page(p)' <=> scdk_pmm_is_usable_page(p)
  BY <1>1 DEF scdk_pmm_is_usable_page, range_contains_page
<1> QED
  BY <1>4, <1>5, <1>6

(* A page of a usable entry overlaps no reserved region.                   *)
LEMMA ManagedNotReserved ==
    ASSUME PmmIInv, NEW p, Managed(p), NEW i \in DOMAIN reserved_regions
    PROVE  ~page_overlaps_region(reserved_regions[i], p)
<1>1. PICK j \in DOMAIN memmap : memmap[j].usable /\ p \in PagesOf(memmap[j])
  BY DEF Managed
<1>2. PICK k \in DOMAIN memmap : RecordOf(reserved_regions[i], memmap[k])
  BY DEF PmmIInv, ScanInv
<1>3. memmap \in MemMaps /\ j # k
  BY <1>1, <1>2 DEF RecordOf, PmmIInv, ScanInv
<1>4. Sane(memmap[k]) /\ PagesOf(memmap[j]) \cap PagesOf(memmap[k]) = {}
  BY <1>1, <1>3, MapEntries
<1>5. /\ p \in 0 .. AddrMod - 1 /\ p % PageSize = 0 /\ p + PageSize < AddrMod
      /\ p \notin PagesOf(memmap[k])
  BY <1>1, <1>4 DEF PagesOf, Managed
<1> QED
  BY <1>2, <1>4, <1>5, NoOverlap DEF RecordOf

(* The page on top of the stack changes hands.                             *)
LEMMA AllocStep == PmmIInv /\ scdk_page_alloc => PmmIInv'
<1> SUFFICES ASSUME PmmIInv, scdk_page_alloc PROVE PmmIInv'
  OBVIOUS
<1> DEFINE n == Len(page_stack)
           page == page_stack[n]
<1>1. /\ n > 0 /\ page_stack' = SubSeq(page_stack, 1, n - 1)
      /\ allocated_pages' = allocated_pages + 1
      /\ held' = held \cup {page} /\ freed' = freed \ {page}
      /\ pmm_initialized /\ UNCHANGED <<tables, scanned>>
  BY DEF scdk_page_alloc, free_pages
<1>2. /\ page_stack \in Seq(0 .. AddrMod - 1) /\ n \in Nat /\ DOMAIN page_stack = 1 .. n
      /\ n \in DOMAIN page_stack
  BY <1>1 DEF PmmIInv, StackInv
<1>3. /\ page_stack' \in Seq(0 .. AddrMod - 1) /\ Len(page_stack') = n - 1
      /\ DOMAIN page_stack' = 1 .. n - 1
      /\ \A i \in 1 .. n - 1 : page_stack'[i] = page_stack[i]
  <2>1. ASSUME NEW i \in 1 .. n - 1 PROVE page_stack[i] \in 0 .. AddrMod - 1
    <3>1. i \in 1 .. Len(page_stack)
      BY <1>2
    <3> QED
      BY <1>2, <3>1, ElementOfSeq
  <2> HIDE DEF n
  <2>2. /\ SubSeq(page_stack, 1, n - 1) \in Seq(0 .. AddrMod - 1)
        /\ Len(SubSeq(page_stack, 1, n - 1)) = IF 1 <= n - 1 THEN (n - 1) - 1 + 1 ELSE 0
        /\ \A i \in 1 .. (n - 1) - 1 + 1 :
               SubSeq(page_stack, 1, n - 1)[i] = page_stack[1 + i - 1]
    BY <1>2, <2>1, SubSeqProperties
  <2>3. Len(page_stack') = n - 1 /\ page_stack' \in Seq(0 .. AddrMod - 1)
    BY <1>1, <1>2, <2>2
  <2>4. ASSUME NEW i \in 1 .. n - 1 PROVE page_stack'[i] = page_stack[i]
    <3>1. i \in 1 .. (n - 1) - 1 + 1 /\ 1 + i - 1 = i
      BY <1>2
    <3> QED
      BY <1>1, <2>2, <3>1
  <2> QED
    BY <1>2, <2>3, <2>4
<1>4. /\ \A i, j \in DOMAIN page_stack : page_stack[i] = page_stack[j] => i = j
      /\ \A i \in DOMAIN page_stack : page_stack[i] \notin held
      /\ \A i \in DOMAIN page_stack : Managed(page_stack[i])
      /\ \A p \in held \cup freed : Managed(p)
  BY DEF PmmIInv, StackInv, OneOwner
<1>5. /\ ScanInv'
      /\ \A p : Managed(p) <=> /\ p + PageSize < AddrMod
                               /\ \E j \in DOMAIN memmap' :
                                      /\ j < scanned' /\ memmap'[j].usable
                                      /\ p \in PagesOf(memmap'[j])
      /\ \A p : scdk_pmm_is_usable_page(p)' <=> scdk_pmm_is_usable_page(p)
  BY <1>1, TablesFixed
<1>6. CountInv'
  <2>1. /\ managed_pages \in 0 .. MaxPages /\ allocated_pages \in Nat
        /\ managed_pages = n + allocated_pages /\ managed_pages' = managed_pages
        /\ IsFiniteSet(held) /\ Cardinality(held) <= allocated_pages
    BY <1>1 DEF PmmIInv, CountInv, CountersAddUp, free_pages, tables
  <2>2. page \notin held
    BY <1>2, <1>4
  <2>3. IsFiniteSet(held') /\ Cardinality(held') = Cardinality(held) + 1 /\ Cardinality(held) \in Nat
    BY <1>1, <2>1, <2>2, FS_AddElement, FS_CardinalityType
  <2> HIDE DEF n, page
  <2> QED
    BY <1>1, <1>2, <1>3, <2>1, <2>3 DEF CountInv, CountersAddUp, free_pages
<1>7. OneOwner'
  <2>1. \A i, j \in DOMAIN page_stack' : page_stack'[i] = page_stack'[j] => i = j
    BY <1>2, <1>3, <1>4
  <2>2. ASSUME NEW i \in DOMAIN page_stack' PROVE page_stack'[i] \notin held'
    <3>1. i \in DOMAIN page_stack /\ i # n /\ page_stack'[i] = page_stack[i]
      BY <1>2, <1>3
    <3> QED
      BY <1>1, <1>2, <1>4, <3>1
  <2> QED
    BY <2>1, <2>2 DEF OneOwner
<1>8. StackInv'
  <2>1. \A i \in DOMAIN page_stack' : Managed(page_stack'[i])
    BY <1>2, <1>3, <1>4
  <2>2. \A p \in held' \cup freed' : Managed(p)
    BY <1>1, <1>2, <1>4
  <2>3. \A i \in DOMAIN page_stack' : Managed(page_stack[i])'
    BY <2>1, <1>5 DEF Managed, PagesOf
  <2>4. \A p \in held' \cup freed' : Managed(p)'
    BY <2>2, <1>5 DEF Managed, PagesOf
  <2> QED
    BY <1>3, <1>7, <2>3, <2>4 DEF StackInv
<1>9. FreedPagesReturn'
  <2> SUFFICES ASSUME NEW p \in freed', scdk_pmm_is_usable_page(p)
               PROVE  \E i \in DOMAIN page_stack' : page_stack'[i] = p
    BY <1>5 DEF FreedPagesReturn, page_stack_contains
  <2>1. p \in freed /\ p # page
    BY <1>1
  <2>2. PICK i \in DOMAIN page_stack : page_stack[i] = p
    BY <2>1 DEF PmmIInv, FreedPagesReturn, page_stack_contains
  <2>3. i \in 1 .. n - 1
    BY <1>2, <2>1, <2>2
  <2> QED
    BY <1>3, <2>2, <2>3
<1> QED
  BY <1>5, <1>6, <1>8, <1>9 DEF PmmIInv

(* A page that comes back.                                                 *)
LEMMA FreeStep ==
    ASSUME NEW phys, PmmIInv, scdk_page_free(phys)
    PROVE  PmmIInv'
<1> DEFINE n == Len(page_stack)
<1>1. /\ phys \in held \cup freed /\ held' = held \ {phys} /\ freed' = freed \cup {phys}
      /\ pmm_initialized /\ UNCHANGED <<tables, scanned>>
  BY DEF scdk_page_free
<1>2. /\ page_stack \in Seq(0 .. AddrMod - 1) /\ n \in Nat /\ DOMAIN page_stack = 1 .. n
  BY DEF PmmIInv, StackInv
<1>3. /\ \A i, j \in DOMAIN page_stack : page_stack[i] = page_stack[j] => i = j
      /\ \A i \in DOMAIN page_stack : page_stack[i] \notin held
      /\ \A i \in DOMAIN page_stack : Managed(page_stack[i])
      /\ \A p \in held \cup freed : Managed(p)
      /\ \A p \in freed : page_stack_contains(p) \/ ~scdk_pmm_is_usable_page(p)
  BY DEF PmmIInv, StackInv, OneOwner, FreedPagesReturn
<1>4. /\ ScanInv'
      /\ \A p : Managed(p) <=> /\ p + PageSize < AddrMod
                               /\ \E j \in DOMAIN memmap' :
                                      /\ j < scanned' /\ memmap'[j].usable
                                      /\ p \in PagesOf(memmap'[j])
      /\ \A p : scdk_pmm_is_usable_page(p)' <=> scdk_pmm_is_usable_page(p)
  BY <1>1, TablesFixed
<1>5. /\ managed_pages \in 0 .. MaxPages /\ allocated_pages \in Nat
      /\ managed_pages = n + allocated_pages /\ managed_pages' = managed_pages
      /\ IsFiniteSet(held) /\ Cardinality(held) <= allocated_pages
  BY <1>1 DEF PmmIInv, CountInv, CountersAddUp, free_pages, tables
<1>6. /\ IsFiniteSet(held') /\ Cardinality(held) \in Nat
      /\ phys \in held => Cardinality(held') = Cardinality(held) - 1
      /\ phys \notin held => Cardinality(held') = Cardinality(held)
      /\ Cardinality(held') \in Nat
  BY <1>1, <1>5, FS_RemoveElement, FS_CardinalityType
<1>7. phys \in held => allocated_pages > 0
  BY <1>5, <1>6
<1>8. ASSUME NEW p \in held' \cup freed' PROVE Managed(p)'
  <2>1. Managed(p)
    BY <1>1, <1>3
  <2> QED
    BY <1>4, <2>1 DEF Managed, PagesOf
<1>9. CASE FreeAccepted(phys)
  <2>1. page_stack' = Append(page_stack, phys) /\ allocated_pages' = CountFreed
    BY <1>9 DEF scdk_page_free
  <2>2. phys \in held /\ \A i \in DOMAIN page_stack : page_stack[i] # phys
    BY <1>1, <1>3, <1>9 DEF FreeAccepted, page_stack_contains
  <2>3. allocated_pages' = allocated_pages - 1
    BY <1>7, <2>1, <2>2 DEF CountFreed
  <2>4. Managed(phys) /\ phys \in 0 .. AddrMod - 1
    BY <1>1, <1>3 DEF Managed, PagesOf
  <2>5. /\ page_stack' \in Seq(0 .. AddrMod - 1) /\ Len(page_stack') = n + 1
        /\ DOMAIN page_stack' = 1 .. n + 1 /\ page_stack'[n + 1] = phys
        /\ \A i \in 1 .. n : page_stack'[i] = page_stack[i]
    BY <1>2, <2>1, <2>4
  <2>6. CountInv'
    BY <1>5, <1>6, <1>7, <2>2, <2>3, <2>5 DEF CountInv, CountersAddUp, free_pages
  <2>7. OneOwner'
    <3>1. \A i, j \in DOMAIN page_stack' : page_stack'[i] = page_stack'[j] => i = j
      BY <1>2, <1>3, <2>2, <2>5
    <3>2. \A i \in DOMAIN page_stack' : page_stack'[i] \notin held'
      BY <1>1, <1>2, <1>3, <2>5
    <3> QED
      BY <3>1, <3>2 DEF OneOwner
  <2>8. \A i \in DOMAIN page_stack' : Managed(page_stack[i])'
    <3>1. \A i \in DOMAIN page_stack' : Managed(page_stack'[i])
      BY <1>2, <1>3, <2>4, <2>5
    <3> QED
      BY <1>4, <3>1 DEF Managed, PagesOf
  <2>9. FreedPagesReturn'
    <3> SUFFICES ASSUME NEW p \in freed', scdk_pmm_is_usable_page(p)
                 PROVE  \E i \in DOMAIN page_stack' : page_stack'[i] = p
      BY <1>4 DEF FreedPagesReturn, page_stack_contains
    <3>1. CASE p = phys
      BY <1>2, <2>5, <3>1
    <3>2. CASE p # phys
      <4>1. PICK i \in DOMAIN page_stack : page_stack[i] = p
        BY <1>1, <1>3, <3>2 DEF page_stack_contains
      <4> QED
        BY <1>2, <2>5, <4>1
    <3> QED
      BY <3>1, <3>2
  <2> QED
    BY <1>4, <1>8, <2>5, <2>6, <2>7, <2>8, <2>9 DEF PmmIInv, StackInv
<1>10. CASE ~FreeAccepted(phys)
  <2>1. page_stack' = page_stack /\ allocated_pages' = allocated_pages
    BY <1>10 DEF scdk_page_free
  <2>2. page_stack_contains(phys) \/ ~scdk_pmm_is_usable_page(phys)
    <3>1. CASE phys \in freed
      BY <1>3, <3>1
    <3>2. CASE phys \in held
      <4>1. free_pages < MaxPages
        BY <1>2, <1>5, <1>7, <3>2, PmmAssumption DEF free_pages
      <4>2. \A i \in DOMAIN reserved_regions : ~page_overlaps_region(reserved_regions[i], phys)
        BY <1>3, <3>2, ManagedNotReserved
      <4> QED
        BY <1>10, <4>1, <4>2 DEF FreeAccepted, scdk_pmm_is_reserved_page
    <3> QED
      BY <1>1, <3>1, <3>2
  <2>3. CountInv'
    BY <1>2, <1>5, <1>6, <2>1 DEF CountInv, CountersAddUp, free_pages
  <2>4. OneOwner'
    BY <1>1, <1>3, <2>1 DEF OneOwner
  <2>5. \A i \in DOMAIN page_stack' : Managed(page_stack[i])'
    BY <1>3, <1>4, <2>1 DEF Managed, PagesOf
  <2>6. FreedPagesReturn'
    BY <1>1, <1>3, <1>4, <2>1, <2>2 DEF FreedPagesReturn, page_stack_contains
  <2> QED
    BY <1>2, <1>4, <1>8, <2>1, <2>3, <2>4, <2>5, <2>6 DEF PmmIInv, StackInv
<1> QED
  BY <1>9, <1>10

-----------------------------------------------------------------------------
(* The theorem                                                             *)

(* The invariant says what the property says.                              *)
LEMMA PmmIInvImplies == PmmIInv => PagesAccountedFor
<1> SUFFICES ASSUME PmmIInv PROVE PagesAccountedFor
  OBVIOUS
<1>1. PmmTypeOK
  BY PmmAssumption DEF PmmIInv, ScanInv, StackInv, CountInv, CountersAddUp, PmmTypeOK, free_pages
<1>2. ASSUME NEW p, Managed(p) PROVE p \in OfKind(TRUE) \ OfKind(FALSE)
  <2>1. PICK j \in DOMAIN memmap : memmap[j].usable /\ p \in PagesOf(memmap[j])
    BY <1>2 DEF Managed
  <2>2. memmap \in MemMaps
    BY DEF PmmIInv, ScanInv
  <2>3. /\ \A i \in DOMAIN memmap : memmap[i].usable \in BOOLEAN
        /\ \A i \in DOMAIN memmap : i # j => PagesOf(memmap[j]) \cap PagesOf(memmap[i]) = {}
    BY <2>1, <2>2, MapEntries DEF Sane
  <2>4. memmap[j].usable = TRUE
    BY <2>1, <2>3
  <2>5. p \in OfKind(TRUE)
    BY <2>1, <2>4 DEF OfKind
  <2>6. ASSUME NEW i \in DOMAIN memmap, memmap[i].usable = FALSE
        PROVE  p \notin PagesOf(memmap[i])
    BY <2>1, <2>3, <2>4, <2>6
  <2>7. p \notin OfKind(FALSE)
    BY <2>6 DEF OfKind
  <2> QED
    BY <2>5, <2>7
<1>3. OnlyUsablePages
  BY <1>2 DEF PmmIInv, StackInv, OnlyUsablePages
<1> QED
  BY <1>1, <1>3 DEF PmmIInv, StackInv, CountInv, PagesAccountedFor

(* Every step keeps the invariant.                                         *)
LEMMA PmmNextIInv == PmmIInv /\ [PmmNext]_pmmVars => PmmIInv'
<1> SUFFICES ASSUME PmmIInv, [PmmNext]_pmmVars PROVE PmmIInv'
  OBVIOUS
<1>1. CASE scdk_pmm_init
  BY <1>1, ScanStep
<1>2. CASE scdk_page_alloc
  BY <1>2, AllocStep
<1>3. ASSUME NEW phys \in held \cup freed, scdk_page_free(phys) PROVE PmmIInv'
  BY <1>3, FreeStep
<1>4. CASE UNCHANGED pmmVars
  <2>1. ScanInv'
    BY <1>4 DEF pmmVars, tables, PmmIInv, ScanInv, RecordOf, Skipped, align_up, align_down
  <2>2. StackInv' /\ CountInv'
    BY <1>4 DEF pmmVars, tables, PmmIInv, StackInv, CountInv, Managed, PagesOf, OneOwner,
                CountersAddUp, free_pages
  <2>3. FreedPagesReturn'
    BY <1>4 DEF pmmVars, tables, PmmIInv, FreedPagesReturn, page_stack_contains,
                scdk_pmm_is_usable_page, range_contains_page
  <2> QED
    BY <2>1, <2>2, <2>3 DEF PmmIInv
<1> QED
  BY <1>1, <1>2, <1>3, <1>4 DEF PmmNext

(* For every map of the boot loader and all table sizes: only pages of     *)
(* usable entries are handed out, each to one owner, the counters add up,  *)
(* and pages that are freed can be handed out again.                       *)
THEOREM PagesAlwaysAccountedFor == PmmSpec => []PagesAccountedFor
<1>1. PmmInit => PmmIInv
  BY InitPmmIInv
<1>2. PmmIInv /\ [PmmNext]_pmmVars => PmmIInv'
  BY PmmNextIInv
<1>3. PmmIInv => PagesAccountedFor
  BY PmmIInvImplies
<1> QED
  BY <1>1, <1>2, <1>3, PTL DEF PmmSpec

=============================================================================
