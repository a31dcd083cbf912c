----------------------------- MODULE PageTables -----------------------------
(***************************************************************************)
(* The page-table manager of mm/vmm.c, the address spaces of               *)
(* mm/address_space.c and the range checks of ipc/user_ipc.c that walk the *)
(* tables.                                                                 *)
(*                                                                         *)
(* A virtual address is a page number and an offset.  A page number has    *)
(* Depth + 1 digits in base Fan, one per level (4 levels of 512 entries in *)
(* the kernel); the first digit, below or not below Fan / 2, says whether  *)
(* the address is a user's or the kernel's.  Tables live in physical       *)
(* pages; mapped pages are named by Frames.  Page 0 is never allocated and *)
(* stands for "not present".  Page identity does not matter, so an         *)
(* allocation takes the smallest free page.                                *)
(***************************************************************************)
EXTENDS Integers, FiniteSets

CONSTANTS Depth,      \* next_table calls of a walk (3 in the kernel)
          Fan,        \* entries of a table (512)
          Pages,      \* physical pages, the boot tables included
          Frames,     \* physical pages that callers map
          BootTables, \* the tables the boot loader left
          Boot,       \* the boot root
          UserBase,   \* first user page (SCDK_USER_VIRT_BASE)
          PageBytes,   \* bytes of a page
          MaxSpaces,  \* objects and capabilities left for address spaces
          None        \* nothing cached, nothing translated

VirtPages == 0 .. Fan ^ (Depth + 1) - 1
UserTop == (Fan \div 2) * Fan ^ Depth      \* SCDK_USER_VIRT_TOP, a page
UserPages == UserBase .. UserTop - 1
KernelPages == UserTop .. Fan ^ (Depth + 1) - 1
KernelSlots == Fan \div 2 .. Fan - 1       \* entries 256 .. 511 of a root

ASSUME PageTablesAssumption ==
    /\ Depth \in Nat /\ Fan \in Nat \ {0} /\ Fan % 2 = 0
    /\ Pages \subseteq Nat \ {0} /\ Frames \subseteq Nat \ Pages
    /\ Boot \in DOMAIN BootTables /\ DOMAIN BootTables \subseteq Pages

NotPresent == [to |-> 0, w |-> FALSE, u |-> FALSE, huge |-> FALSE]
EmptyTable == [i \in 0 .. Fan - 1 |-> NotPresent]
Present(entry) == entry.to # 0
Table(to, user) == [to |-> to, w |-> TRUE, u |-> user, huge |-> FALSE]

VARIABLES pt,      \* contents of the physical pages used as tables
          free,    \* free physical pages (the allocator of pmm.c)
          spaces,  \* roots of address-space objects
          caps,    \* those with a valid capability
          active,  \* active_cr3_phys
          tlb,     \* history: one translation the processor may have cached
          asked    \* history: what callers mapped, per root and for the kernel

ptVars == <<pt, free, spaces, caps, active, tlb, asked>>

PtInit ==
    /\ pt = [p \in Pages |-> IF p \in DOMAIN BootTables THEN BootTables[p] ELSE EmptyTable]
    /\ free = Pages \ DOMAIN BootTables
    /\ spaces = {} /\ caps = {} /\ active = Boot /\ tlb = None
    /\ asked = [r \in Pages \cup {0} |-> [v \in VirtPages |-> None]]

Least(S) == CHOOSE p \in S : \A q \in S : p <= q

-----------------------------------------------------------------------------
(* Walking the tables.  A walk is the memory it leaves, the table it has   *)
(* reached and its status.                                                 *)

\* pml4_index, pdpt_index, pd_index, pt_index
Index(v, level) == (v \div Fan ^ level) % Fan

next_table(walk, index, create, user) ==
    LET entry == walk.pt[walk.at][index]
    IN  IF ~Present(entry) /\ (~create \/ walk.free = {})
        THEN [walk EXCEPT !.status = IF create THEN "nomem" ELSE "noent"]
        ELSE IF ~Present(entry)
        THEN LET new == Least(walk.free)
             IN  [pt |-> [walk.pt EXCEPT ![walk.at][index] = Table(new, user), ![new] = EmptyTable],
                  free |-> walk.free \ {new}, at |-> new, status |-> "ok"]
        ELSE IF entry.huge THEN [walk EXCEPT !.status = "busy"]
        ELSE [walk EXCEPT !.at = entry.to]

leaf_table_for_root(root, v, create, user) ==
    LET walk[k \in 0 .. Depth] ==
            IF k = 0 THEN [pt |-> pt, free |-> free, at |-> root, status |-> "ok"]
            ELSE LET before == walk[k - 1]
                 IN  IF before.status # "ok" THEN before
                     ELSE next_table(before, Index(v, Depth - k + 1), create, user)
    IN  walk[Depth]

scdk_vmm_virt_to_phys_in_root(root, v) ==
    LET walk == leaf_table_for_root(root, v, FALSE, FALSE)
        entry == pt[walk.at][Index(v, 0)]
    IN  IF walk.status = "ok" /\ Present(entry)
        THEN [to |-> entry.to, w |-> entry.w, u |-> entry.u] ELSE None

\* Mutant: the cached translation stays.
invlpg_never(root, v) == UNCHANGED tlb

\* Only a translation of the active root can be in use.
invlpg(root, v) ==
    tlb' = IF root = active /\ tlb # None /\ tlb.virt = v THEN None ELSE tlb

\* History: a user page belongs to its root, a kernel page to all (root 0).
Record(root, v, target) ==
    asked' = [asked EXCEPT ![IF v \in KernelPages THEN 0 ELSE root][v] = target]

\* The walk may have allocated tables although the mapping is refused.
scdk_vmm_map_page_in_root(root, v, frame, w, u) ==
    LET walk == leaf_table_for_root(root, v, TRUE, u)
        done == walk.status = "ok" /\ ~Present(walk.pt[walk.at][Index(v, 0)])
    IN  /\ free' = walk.free
        /\ pt' = IF done THEN [walk.pt EXCEPT ![walk.at][Index(v, 0)] =
                                  [to |-> frame, w |-> w, u |-> u, huge |-> FALSE]]
                 ELSE walk.pt
        /\ IF done THEN invlpg(root, v) /\ Record(root, v, [to |-> frame, w |-> w, u |-> u])
           ELSE UNCHANGED <<tlb, asked>>

scdk_vmm_unmap_page_in_root(root, v) ==
    LET walk == leaf_table_for_root(root, v, FALSE, FALSE)
    IN  /\ walk.status = "ok" /\ Present(pt[walk.at][Index(v, 0)])
        /\ pt' = [pt EXCEPT ![walk.at][Index(v, 0)] = NotPresent]
        /\ invlpg(root, v) /\ Record(root, v, None)

\* Mutant: the whole root is copied.
RootOf_whole(current) == current

\* The kernel half of the active root and an empty user half.
RootOf(current) == [i \in 0 .. Fan - 1 |-> IF i \in KernelSlots THEN current[i] ELSE NotPresent]

\* write_cr3 empties the processor's cache.
scdk_vmm_activate_root(root) == active' = root /\ tlb' = None

-----------------------------------------------------------------------------
(* Address spaces (address_space.c) and kernel mappings.                   *)

\* scdk_vmm_create_root fills the page; it stays filled when no object is
\* left and the page is freed again.  When only the capability is refused,
\* the object and its root remain without a name.
scdk_address_space_create(object, cap) ==
    LET root == Least(free)
    IN  /\ free # {} /\ (cap => object) /\ (object => Cardinality(spaces) < MaxSpaces)
        /\ pt' = [pt EXCEPT ![root] = RootOf(pt[active])]
        /\ free' = IF object THEN free \ {root} ELSE free
        /\ spaces' = IF object THEN spaces \cup {root} ELSE spaces
        /\ caps' = IF cap THEN caps \cup {root} ELSE caps
        /\ UNCHANGED <<active, tlb, asked>>

\* scdk_revoke_capability of the only capability.
RevokeCap(root) == caps' = caps \ {root} /\ UNCHANGED <<pt, free, spaces, active, tlb, asked>>

validate_user_page(v) == v \in UserPages

\* lookup_aspace and check_map_rights: the capability conveys every right.
lookup_aspace(root) == root \in caps

scdk_address_space_map(root, v, frame, w) ==
    /\ lookup_aspace(root) /\ validate_user_page(v)
    /\ scdk_vmm_map_page_in_root(root, v, frame, w, TRUE)
    /\ UNCHANGED <<spaces, caps, active>>

scdk_address_space_unmap(root, v) ==
    /\ lookup_aspace(root) /\ validate_user_page(v)
    /\ scdk_vmm_unmap_page_in_root(root, v)
    /\ UNCHANGED <<free, spaces, caps, active>>

scdk_address_space_activate(root) ==
    /\ lookup_aspace(root) /\ scdk_vmm_activate_root(root)
    /\ UNCHANGED <<pt, free, spaces, caps, asked>>

BackToBootRoot == scdk_vmm_activate_root(Boot) /\ UNCHANGED <<pt, free, spaces, caps, asked>>

\* Kernel code maps kernel pages whichever root is active (heap.c), and user
\* pages in the boot root (the self-test).
ActivePages == KernelPages \cup (IF active = Boot THEN UserPages ELSE {})

scdk_vmm_map_page(v, frame) ==
    /\ v \in ActivePages
    /\ scdk_vmm_map_page_in_root(active, v, frame, TRUE, v \in UserPages)
    /\ UNCHANGED <<spaces, caps, active>>

scdk_vmm_unmap_page(v) ==
    /\ v \in ActivePages /\ scdk_vmm_unmap_page_in_root(active, v)
    /\ UNCHANGED <<free, spaces, caps, active>>

\* The processor caches a translation of the active root.
ProcessorCaches(v) ==
    /\ scdk_vmm_virt_to_phys_in_root(active, v) # None
    /\ tlb' = [virt |-> v, tr |-> scdk_vmm_virt_to_phys_in_root(active, v)]
    /\ UNCHANGED <<pt, free, spaces, caps, active, asked>>

PtNext ==
    \/ \E object, cap \in BOOLEAN : scdk_address_space_create(object, cap)
    \/ \E r \in caps : RevokeCap(r) \/ scdk_address_space_activate(r)
    \/ \E r \in caps, v \in VirtPages :
           \/ \E f \in Frames, w \in BOOLEAN : scdk_address_space_map(r, v, f, w)
           \/ scdk_address_space_unmap(r, v)
    \/ BackToBootRoot
    \/ \E v \in VirtPages : \/ \E f \in Frames : scdk_vmm_map_page(v, f)
                            \/ scdk_vmm_unmap_page(v)
                            \/ ProcessorCaches(v)

PtSpec == PtInit /\ [][PtNext]_ptVars

-----------------------------------------------------------------------------
(* user_ipc.c: is a range of user memory mapped?  Addresses are bytes      *)
(* modulo VirtMod, the size of the address space.                          *)

VirtMod == Fan ^ (Depth + 1) * PageBytes

\* Mutant: the wrap test is missing.
checked_user_end_wraps(ptr, size) ==
    LET last == (ptr + size - 1) % VirtMod
    IN  IF \/ ptr = 0 \/ size = 0
           \/ ptr < UserBase * PageBytes \/ last >= UserTop * PageBytes
        THEN None ELSE last

checked_user_end(ptr, size) ==
    LET last == (ptr + size - 1) % VirtMod
    IN  IF \/ ptr = 0 \/ size = 0 \/ ptr > VirtMod - 1 - (size - 1)
           \/ ptr < UserBase * PageBytes \/ last >= UserTop * PageBytes
        THEN None ELSE last

\* trans is the translation of the active root.
scdk_user_validate_range(trans, ptr, size, writable) ==
    LET last == checked_user_end(ptr, size)
        first == ptr \div PageBytes
    IN  /\ last # None
        /\ \A page \in {first} \cup first .. last \div PageBytes :
               trans[page] # None /\ trans[page].u /\ (writable => trans[page].w)

-----------------------------------------------------------------------------
(* Properties                                                              *)

Live == spaces \cup {Boot}
Translate(r) == [v \in VirtPages |-> scdk_vmm_virt_to_phys_in_root(r, v)]

\* The types of the state.
PtTypeOK ==
    /\ \A p \in Pages : \A i \in 0 .. Fan - 1 :
           pt[p][i] \in [to : Pages \cup Frames \cup {0}, w : BOOLEAN, u : BOOLEAN, huge : BOOLEAN]
    /\ free \subseteq Pages /\ caps \subseteq spaces /\ spaces \subseteq Pages \ free
    /\ active \in Live /\ DOMAIN BootTables \cap free = {}

\* A translation in any root returns what was mapped there, and nothing that
\* was mapped in another user half; what is mapped in the kernel half is
\* found in every root, also one created before or active at another time.
\* A walk that allocates tables and then fails changes no translation.
TablesHoldWhatWasMapped ==
    \A r \in Live : \A v \in UserPages \cup KernelPages :
        scdk_vmm_virt_to_phys_in_root(r, v) = asked[IF v \in KernelPages THEN 0 ELSE r][v]

\* The processor never uses a translation that the tables no longer hold.
TlbCoherent == tlb # None => tlb.tr = scdk_vmm_virt_to_phys_in_root(active, tlb.virt)

\* The processor asks for the user flag at every level, the kernel's checks
\* read it at the last: they agree.
UserFlagAtEveryLevel ==
    \A r \in Live : \A v \in VirtPages :
        LET tr == scdk_vmm_virt_to_phys_in_root(r, v)
            path[k \in 0 .. Depth] ==
                IF k = 0 THEN r ELSE pt[path[k - 1]][Index(v, Depth - k + 1)].to
        IN  (tr # None /\ tr.u) => \A k \in 0 .. Depth : pt[path[k]][Index(v, Depth - k)].u

\* scdk_user_validate_range accepts a range exactly if every byte of it,
\* counted without wrapping, lies on a user page with the access asked for.
RangeCheckIsExact ==
    \A trans \in {Translate(active)}, writable \in BOOLEAN :
        \A good \in {{a \in 0 .. VirtMod - 1 :
                        LET page == a \div PageBytes
                        IN  /\ page \in UserPages /\ trans[page] # None
                            /\ trans[page].u /\ (writable => trans[page].w)}} :
            \A ptr, size \in 0 .. VirtMod - 1 :
                scdk_user_validate_range(trans, ptr, size, writable) <=>
                    size > 0 /\ ptr .. ptr + size - 1 \subseteq good

\* The invariant of the page tables: types, contents and user bits.
TablesConsistent == PtTypeOK /\ TablesHoldWhatWasMapped /\ UserFlagAtEveryLevel

=============================================================================
