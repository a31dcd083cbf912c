-------------------------------- MODULE Pmm ---------------------------------
(***************************************************************************)
(* The physical page allocator of mm/pmm.c: a stack of free pages filled   *)
(* once from the boot loader's memory map, and two bounded tables of       *)
(* regions that decide which pages may come back.                          *)
(*                                                                         *)
(* Addresses are bytes modulo AddrMod (2^64).  The map is any of MemMaps.  *)
(* held is what the callers own: they free pages they own, and may free    *)
(* one a second time.                                                      *)
(***************************************************************************)
EXTENDS Integers, Sequences, FiniteSets

CONSTANTS AddrMod, PageSize,
          MaxPages,     \* SCDK_PMM_MAX_PAGES
          MaxRegions,   \* SCDK_PMM_MAX_REGIONS
          MemMaps       \* sequences of [base, length, usable]

ASSUME PmmAssumption ==
    /\ AddrMod \in Nat \ {0} /\ PageSize \in Nat \ {0} /\ AddrMod % PageSize = 0
    /\ MaxPages \in Nat /\ MaxRegions \in Nat

\* The pages that an entry of the map touches.
PagesOf(entry) == {p \in 0 .. AddrMod - 1 : /\ p % PageSize = 0
                                            /\ p + PageSize > entry.base
                                            /\ p < entry.base + entry.length}

\* What the boot loader guarantees: usable entries are page-aligned and share
\* no page with another entry.  No entry lies inside the last page of the
\* address space.
ASSUME MapsAssumption ==
    \A m \in MemMaps :
        /\ m \in Seq([base : 0 .. AddrMod - 1, length : 0 .. AddrMod - 1, usable : BOOLEAN])
        /\ \A i \in DOMAIN m :
               /\ m[i].base + PageSize <= AddrMod \/ m[i].base + m[i].length >= AddrMod
               /\ m[i].usable => m[i].base % PageSize = 0 /\ m[i].length % PageSize = 0
        /\ \A i, j \in DOMAIN m :
               m[i].usable /\ i # j => PagesOf(m[i]) \cap PagesOf(m[j]) = {}

VARIABLES memmap, scanned,       \* the map and the loop index of scdk_pmm_init
          page_stack,            \* page_stack[0 .. free_pages - 1]
          managed_pages, allocated_pages,
          usable_regions, reserved_regions,
          held, freed            \* history: pages in use, pages given back

tables == <<memmap, usable_regions, reserved_regions, managed_pages>>
pmmVars == <<tables, scanned, page_stack, allocated_pages, held, freed>>

free_pages == Len(page_stack)
pmm_initialized == scanned > Len(memmap) /\ managed_pages # 0

PmmInit ==
    /\ memmap \in MemMaps /\ scanned = 1 /\ page_stack = <<>>
    /\ managed_pages = 0 /\ allocated_pages = 0
    /\ usable_regions = <<>> /\ reserved_regions = <<>>
    /\ held = {} /\ freed = {}

-----------------------------------------------------------------------------
(* Helpers                                                                 *)

align_up(value) == (((value + PageSize - 1) % AddrMod) \div PageSize) * PageSize
align_down(value) == (value \div PageSize) * PageSize

range_contains_page(region, phys) ==
    LET end == (region.base + region.length) % AddrMod
    IN  end >= region.base /\ phys >= region.base /\ (phys + PageSize) % AddrMod <= end

page_overlaps_region(region, phys) ==
    LET page_end == (phys + PageSize) % AddrMod
        region_end == (region.base + region.length) % AddrMod
    IN  \/ page_end < phys \/ region_end < region.base
        \/ phys < region_end /\ page_end > region.base

\* Beyond the limit the region is dropped without a sign.
record_region(regions, base, length) ==
    IF Len(regions) >= MaxRegions THEN regions
    ELSE Append(regions, [base |-> base, length |-> length])

\* The pages of a region that fit on the stack, lowest address first.
collect_usable_region(base, end) ==
    LET n == (end - base) \div PageSize
        room == MaxPages - free_pages
    IN  [k \in 1 .. IF n < room THEN n ELSE room |-> base + (k - 1) * PageSize]

scdk_pmm_is_usable_page(phys) ==
    \E i \in DOMAIN usable_regions : range_contains_page(usable_regions[i], phys)

scdk_pmm_is_reserved_page(phys) ==
    \/ \E i \in DOMAIN reserved_regions : page_overlaps_region(reserved_regions[i], phys)
    \/ ~scdk_pmm_is_usable_page(phys)

page_stack_contains(phys) == \E i \in DOMAIN page_stack : page_stack[i] = phys

-----------------------------------------------------------------------------
(* scdk_pmm_init: one step per entry of the map.                           *)

Skipped(entry) ==
    \/ entry.length = 0 \/ (entry.base + entry.length) % AddrMod < entry.base
    \/ align_down((entry.base + entry.length) % AddrMod) <= align_up(entry.base)

ScanUsable(base, end) ==
    LET got == collect_usable_region(base, end)
    IN  /\ usable_regions' = record_region(usable_regions, base, end - base)
        /\ page_stack' = page_stack \o got
        /\ managed_pages' = managed_pages + Len(got)
        /\ scanned' = IF Len(got) < (end - base) \div PageSize
                      THEN Len(memmap) + 1     \* break
                      ELSE scanned + 1
        /\ UNCHANGED reserved_regions

ScanReserved(base, end) ==
    /\ reserved_regions' = record_region(reserved_regions, base, end - base)
    /\ scanned' = scanned + 1
    /\ UNCHANGED <<usable_regions, page_stack, managed_pages>>

scdk_pmm_init ==
    /\ scanned <= Len(memmap)
    /\ LET entry == memmap[scanned]
           base == align_up(entry.base)
           end == align_down((entry.base + entry.length) % AddrMod)
       IN  \/ /\ Skipped(entry) /\ scanned' = scanned + 1
              /\ UNCHANGED <<usable_regions, reserved_regions, page_stack, managed_pages>>
           \/ ~Skipped(entry) /\ entry.usable /\ ScanUsable(base, end)
           \/ ~Skipped(entry) /\ ~entry.usable /\ ScanReserved(base, end)
    /\ UNCHANGED <<memmap, allocated_pages, held, freed>>

scdk_page_alloc ==
    /\ pmm_initialized /\ free_pages > 0
    /\ page_stack' = SubSeq(page_stack, 1, free_pages - 1)
    /\ allocated_pages' = allocated_pages + 1
    /\ held' = held \cup {page_stack[free_pages]}
    /\ freed' = freed \ {page_stack[free_pages]}
    /\ UNCHANGED <<tables, scanned>>

\* The tests of scdk_page_free, in the order of the code.
\* Mutant: no search of the stack.
FreeAccepted_twice(phys) ==
    /\ scdk_pmm_is_usable_page(phys) /\ ~scdk_pmm_is_reserved_page(phys)
    /\ free_pages < MaxPages

FreeAccepted(phys) ==
    /\ scdk_pmm_is_usable_page(phys) /\ ~scdk_pmm_is_reserved_page(phys)
    /\ ~page_stack_contains(phys)
    /\ free_pages < MaxPages

CountFreed == IF allocated_pages > 0 THEN allocated_pages - 1 ELSE 0

\* A free that is refused changes nothing; the caller has let go of the page.
scdk_page_free(phys) ==
    /\ pmm_initialized /\ phys \in held \cup freed
    /\ IF FreeAccepted(phys)
       THEN page_stack' = Append(page_stack, phys) /\ allocated_pages' = CountFreed
       ELSE UNCHANGED <<page_stack, allocated_pages>>
    /\ held' = held \ {phys} /\ freed' = freed \cup {phys}
    /\ UNCHANGED <<tables, scanned>>

PmmNext == scdk_pmm_init \/ scdk_page_alloc \/ \E phys \in held \cup freed : scdk_page_free(phys)

PmmSpec == PmmInit /\ [][PmmNext]_pmmVars

-----------------------------------------------------------------------------
(* Properties                                                              *)

OfKind(usable) == UNION {PagesOf(memmap[i]) :
                             i \in {j \in DOMAIN memmap : memmap[j].usable = usable}}

\* The types of the state: the stack stays within its array.
PmmTypeOK ==
    /\ page_stack \in Seq(0 .. AddrMod - 1) /\ free_pages <= MaxPages
    /\ managed_pages \in 0 .. MaxPages /\ allocated_pages \in 0 .. MaxPages
    /\ Len(usable_regions) <= MaxRegions /\ Len(reserved_regions) <= MaxRegions

\* Only pages of usable entries are ever handed out, never one that another
\* entry touches, also when the region tables are full.
OnlyUsablePages ==
    held \cup {page_stack[i] : i \in DOMAIN page_stack} \subseteq OfKind(TRUE) \ OfKind(FALSE)

\* A page has at most one owner: it is on the stack at most once and not
\* while somebody holds it, also after it was freed twice.
OneOwner ==
    /\ \A i, j \in DOMAIN page_stack : page_stack[i] = page_stack[j] => i = j
    /\ \A i \in DOMAIN page_stack : page_stack[i] \notin held

\* The counters add up: what is managed is free or allocated.
CountersAddUp == managed_pages = free_pages + allocated_pages

\* A page that was given back can be handed out again, and a second free
\* does not take it away.  The exception is a page whose region was dropped
\* from the full region table at boot: no free of it is accepted.
FreedPagesReturn ==
    \A p \in freed : page_stack_contains(p) \/ ~scdk_pmm_is_usable_page(p)

\* The invariant of the page allocator: the four statements above and types.
PagesAccountedFor ==
    PmmTypeOK /\ OnlyUsablePages /\ OneOwner /\ CountersAddUp /\ FreedPagesReturn

=============================================================================
