-------------------------------- MODULE Heap --------------------------------
(***************************************************************************)
(* The kernel heap of mm/heap.c: a list of blocks in address order that    *)
(* covers the committed part of the heap area, extended by whole pages.    *)
(*                                                                         *)
(* Sizes and addresses are in units of SCDK_HEAP_ALIGN bytes from          *)
(* SCDK_HEAP_BASE; a request is any number of units.  A header takes       *)
(* Header units.  Physical pages come from a pool that the rest of the     *)
(* kernel uses too; a mapping may be refused for want of a table page.     *)
(* live is what the callers own.                                           *)
(***************************************************************************)
EXTENDS Integers, Sequences, FiniteSets, SequencesExt

CONSTANTS Header, MinSplit,  \* heap_header_size, SCDK_HEAP_MIN_SPLIT
          PageUnits,         \* SCDK_PAGE_SIZE
          InitialPages,      \* SCDK_HEAP_INITIAL_PAGES
          HeapUnits,         \* SCDK_HEAP_SIZE
          Requests,          \* sizes asked for
          MaxPool            \* physical pages left

ASSUME HeapAssumption ==
    /\ {Header, MinSplit, PageUnits, InitialPages, HeapUnits, MaxPool} \subseteq Nat \ {0}
    /\ Requests \subseteq Nat \ {0} /\ HeapUnits % PageUnits = 0

VARIABLES list,             \* from heap_head to heap_tail
          heap_commit_end,
          heap_initialized,
          pool,             \* free physical pages
          mapped,           \* heap pages with a mapping
          live,             \* history: [ptr, size] of the callers' memory
          starved           \* history: an extension ran out of pages

heapVars == <<list, heap_commit_end, heap_initialized, pool, mapped, live, starved>>

Block(addr, size, isfree) == [addr |-> addr, size |-> size, free |-> isfree]
EndOf(b) == b.addr + Header + b.size
block_payload(b) == b.addr + Header

HpInit ==
    /\ list = <<>> /\ heap_commit_end = 0 /\ heap_initialized = FALSE
    /\ pool = MaxPool /\ mapped = {} /\ live = {} /\ starved = FALSE

-----------------------------------------------------------------------------
(* The block list                                                          *)

\* Mutant: blocks are merged without a look at the next one's flag.
block_coalesce_forward_any(l, i) ==
    IF i >= Len(l) \/ l[i + 1].addr # EndOf(l[i]) THEN l
    ELSE RemoveAt([l EXCEPT ![i].size = @ + Header + l[i + 1].size], i + 1)

block_coalesce_forward(l, i) ==
    IF i >= Len(l) \/ ~l[i + 1].free \/ l[i + 1].addr # EndOf(l[i]) THEN l
    ELSE RemoveAt([l EXCEPT ![i].size = @ + Header + l[i + 1].size], i + 1)

\* Merge block i with a free block in front of it.
coalesce_with_prev(l, i) == IF i > 1 /\ l[i - 1].free THEN block_coalesce_forward(l, i - 1) ELSE l

block_split(l, i, requested) ==
    IF l[i].size < requested + Header + MinSplit THEN l
    ELSE InsertAt([l EXCEPT ![i].size = requested], i + 1,
                  Block(block_payload(l[i]) + requested, l[i].size - requested - Header, TRUE))

\* 0 when there is none.
find_free_block(l, size) ==
    LET fits == {i \in DOMAIN l : l[i].free /\ l[i].size >= size}
    IN  IF fits = {} THEN 0 ELSE CHOOSE i \in fits : \A j \in fits : i <= j

-----------------------------------------------------------------------------
(* Extension                                                               *)

align_up_size(value, alignment) == ((value + alignment - 1) \div alignment) * alignment

commit_size(requested) ==
    LET aligned == align_up_size(Header + requested, PageUnits)
    IN  IF aligned < InitialPages * PageUnits THEN InitialPages * PageUnits ELSE aligned

CommitPages(requested) == LET first == heap_commit_end \div PageUnits
                          IN  first .. first + commit_size(requested) \div PageUnits - 1

Fits(requested) == heap_commit_end + commit_size(requested) <= HeapUnits

\* Mutant: a page that is mapped already counts as done.
MapPagesSucceeds_remaps(new) ==
    /\ Cardinality(new \ mapped) <= pool
    /\ pool' = pool - Cardinality(new \ mapped) /\ mapped' = mapped \cup new
    /\ UNCHANGED starved

\* map_heap_pages, three ways to end.  A page that is mapped already is
\* refused by the page tables.
MapPagesSucceeds(new) ==
    /\ new \cap mapped = {} /\ Cardinality(new) <= pool
    /\ pool' = pool - Cardinality(new) /\ mapped' = mapped \cup new
    /\ UNCHANGED starved

\* scdk_page_alloc fails after some pages: they stay mapped.
MapPagesStarves(new) ==
    /\ pool < Cardinality(new) /\ new \cap mapped = {}
    /\ pool' = 0
    /\ mapped' = mapped \cup {p \in new : Cardinality({q \in new : q < p}) < pool}
    /\ starved' = TRUE

\* scdk_vmm_map_page fails: the pages mapped so far are given back.
MapPagesRefused(new) == UNCHANGED <<pool, mapped, starved>>

\* The list with the new block.
extended(requested) ==
    LET l == Append(list, Block(heap_commit_end, commit_size(requested) - Header, TRUE))
    IN  coalesce_with_prev(l, Len(l))

\* heap_extend fails: what called it fails as well.
ExtendFails(requested) ==
    /\ \/ ~Fits(requested) /\ UNCHANGED <<pool, mapped, starved>>
       \/ Fits(requested) /\ (MapPagesStarves(CommitPages(requested))
                              \/ MapPagesRefused(CommitPages(requested)))
    /\ UNCHANGED <<list, heap_commit_end, heap_initialized, live>>

scdk_heap_init ==
    /\ ~heap_initialized
    /\ Fits(0) /\ MapPagesSucceeds(CommitPages(0))
    /\ list' = extended(0) /\ heap_commit_end' = commit_size(0)
    /\ heap_initialized' = TRUE
    /\ UNCHANGED live

scdk_heap_init_fails == ~heap_initialized /\ ExtendFails(0)

Take(l, i, requested) ==
    LET split == block_split(l, i, requested)
    IN  /\ list' = [split EXCEPT ![i].free = FALSE]
        /\ live' = live \cup {[ptr |-> block_payload(split[i]), size |-> requested]}

\* scdk_kalloc finds a block, or extends the heap first, or fails.
scdk_kalloc(requested) ==
    /\ heap_initialized /\ requested <= HeapUnits - Header
    /\ find_free_block(list, requested) # 0
    /\ Take(list, find_free_block(list, requested), requested)
    /\ UNCHANGED <<heap_commit_end, heap_initialized, pool, mapped, starved>>

scdk_kalloc_extends(requested) ==
    /\ heap_initialized /\ requested <= HeapUnits - Header
    /\ find_free_block(list, requested) = 0
    /\ Fits(requested) /\ MapPagesSucceeds(CommitPages(requested))
    /\ heap_commit_end' = heap_commit_end + commit_size(requested)
    /\ LET l == extended(requested) IN Take(l, find_free_block(l, requested), requested)
    /\ UNCHANGED heap_initialized

scdk_kalloc_fails(requested) ==
    /\ heap_initialized /\ requested <= HeapUnits - Header
    /\ find_free_block(list, requested) = 0
    /\ ExtendFails(requested)

\* The caller frees memory it owns.
scdk_kfree(m) ==
    LET i == CHOOSE k \in DOMAIN list : list[k].addr = m.ptr - Header
        l == block_coalesce_forward([list EXCEPT ![i].free = TRUE], i)
    IN  /\ heap_initialized /\ m.ptr < heap_commit_end
        /\ \E k \in DOMAIN list : list[k].addr = m.ptr - Header /\ ~list[k].free
        /\ list' = coalesce_with_prev(l, i)
        /\ live' = live \ {m}
        /\ UNCHANGED <<heap_commit_end, heap_initialized, pool, mapped, starved>>

\* The rest of the kernel takes and gives back pages.
OthersAllocate == pool > 0 /\ pool' = pool - 1
                  /\ UNCHANGED <<list, heap_commit_end, heap_initialized, mapped, live, starved>>
OthersFree == pool + Cardinality(mapped) < MaxPool /\ pool' = pool + 1
              /\ UNCHANGED <<list, heap_commit_end, heap_initialized, mapped, live, starved>>

HpNext ==
    \/ scdk_heap_init \/ scdk_heap_init_fails
    \/ \E r \in Requests : scdk_kalloc(r) \/ scdk_kalloc_extends(r) \/ scdk_kalloc_fails(r)
    \/ \E m \in live : scdk_kfree(m)
    \/ OthersAllocate \/ OthersFree

HpSpec == HpInit /\ [][HpNext]_heapVars

-----------------------------------------------------------------------------
(* Properties                                                              *)

\* The types of the state.
HpTypeOK ==
    /\ \A i \in DOMAIN list : list[i] \in [addr : 0 .. HeapUnits, size : 0 .. HeapUnits, free : BOOLEAN]
    /\ heap_commit_end \in 0 .. HeapUnits /\ pool \in 0 .. MaxPool
    /\ pool + Cardinality(mapped) <= MaxPool

\* The blocks cover the committed heap without gap or overlap, and all of it
\* is mapped.
BlocksTileTheHeap ==
    /\ \A i \in DOMAIN list : /\ (i = 1) => list[i].addr = 0
                              /\ (i > 1) => list[i].addr = EndOf(list[i - 1])
                              /\ (i = Len(list)) => EndOf(list[i]) = heap_commit_end
    /\ 0 .. heap_commit_end \div PageUnits - 1 \subseteq mapped

\* Free neighbours are always merged, so a request fails only if no run of
\* free space would do.
NoFreeNeighbours == \A i \in 1 .. Len(list) - 1 : ~(list[i].free /\ list[i + 1].free)

\* Everybody's memory is a used block of at least the size asked for; no two
\* owners share a unit, and every used block has an owner.
OwnersHaveTheirMemory ==
    /\ \A m \in live : \E i \in DOMAIN list :
           block_payload(list[i]) = m.ptr /\ ~list[i].free /\ list[i].size >= m.size
    /\ \A m, n \in live : m # n => m.ptr + m.size <= n.ptr \/ n.ptr + n.size <= m.ptr
    /\ \A i \in DOMAIN list : ~list[i].free => \E m \in live : m.ptr = block_payload(list[i])

\* Pages beyond the committed end are left over only by an extension that ran
\* out of pages.
StrayPages == {p \in mapped : p * PageUnits >= heap_commit_end}
StrayPagesOnlyWhenStarved == StrayPages # {} => starved

\* With pages left over, the heap never grows again, however many pages
\* become free: the next extension meets the old mappings.
StarvedHeapNeverGrows == [][StrayPages # {} => heap_commit_end' = heap_commit_end]_heapVars

\* The invariant of the heap: the block list tiles the committed heap with no
\* two free blocks side by side, every caller has its memory, and stray
\* mappings come only from extensions that ran out of pages.
HeapConsistent ==
    /\ HpTypeOK /\ BlocksTileTheHeap /\ NoFreeNeighbours
    /\ OwnersHaveTheirMemory /\ StrayPagesOnlyWhenStarved

=============================================================================
