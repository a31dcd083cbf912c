------------------------------ MODULE MCMemory ------------------------------
(***************************************************************************)
(* The page allocator, the heap, the page tables and the initial RAM disk  *)
(* for model checking.  They have no variable in common, and every         *)
(* property speaks of one of them, so it is enough to let one of them move *)
(* at a time: the states add up instead of multiplying.                    *)
(***************************************************************************)
EXTENDS Pmm, Heap, PageTables, Initrd

VARIABLE part    \* the part that moves

\* Sixteen bytes of physical memory in pages of two.  Empty and wrapped
\* entries, reserved entries that end inside a page or at the top of memory,
\* usable memory in one to three pieces, more of it than fits on the stack or
\* more pieces than regions.
Usable(base, length) == [base |-> base, length |-> length, usable |-> TRUE]
Other(base, length) == [base |-> base, length |-> length, usable |-> FALSE]
MCMemMaps ==
    {<<Other(0, 3), Usable(4, 6), Other(10, 5)>>,
     <<Usable(2, 2), Other(4, 0), Usable(6, 6), Other(13, 2)>>,
     <<Other(15, 4), Usable(0, 4), Other(5, 2), Usable(8, 4), Usable(12, 2)>>,
     <<Usable(0, 2), Other(2, 2), Usable(4, 2), Other(6, 1), Usable(8, 4), Other(12, 2), Other(14, 1)>>,
     <<Other(0, 2)>>}

\* Three levels of two entries: pages 0 to 3 are the user's, 4 to 7 the
\* kernel's.  The boot loader left a root, a kernel table with a huge page in
\* its first entry, and nothing else.
MCBootTables ==
    [p \in {1, 2} |->
        IF p = 1 THEN [i \in 0 .. 1 |-> IF i = 1 THEN Table(2, FALSE) ELSE NotPresent]
        ELSE [i \in 0 .. 1 |-> IF i = 0 THEN [Table(99, FALSE) EXCEPT !.huge = TRUE]
                               ELSE NotPresent]]

\* Names that are prefixes of each other, with and without "./", one in a
\* subdirectory, one too long for a path.
MCNames == {<<"a">>, <<"a", "b", "a">>, <<".", "/", "a", "/", "b">>, <<"b">>,
            <<"a", "a", "a", "a", "a", "a">>, <<".", "/">>}
MCPrefixes == {<<>>, <<"a">>}
MCSizeFields == {<<0>>, <<0, 3, Blank>>, <<1, 0>>, <<9>>, <<Blank>>}
MCQueries == {<<"/">>, <<"/", "/">>, <<"/", "a">>, <<"/", "a", "/">>, <<"/", "a", "b">>,
              <<"/", "a", "/", "b">>, <<"/", "a", "/", "a">>, <<"/", "b">>}

\* A part that never moves has one initial state.
Init ==
    /\ part \in {"pmm", "heap", "tables", "initrd"}
    /\ PmmInit /\ HpInit /\ PtInit /\ RdInit
    /\ part # "pmm" => memmap = <<Other(0, 2)>>
    /\ part # "initrd" => image_size = 0

Next ==
    \/ part = "pmm" /\ PmmNext /\ UNCHANGED <<heapVars, ptVars, rdVars, part>>
    \/ part = "heap" /\ HpNext /\ UNCHANGED <<pmmVars, ptVars, rdVars, part>>
    \/ part = "tables" /\ PtNext /\ UNCHANGED <<pmmVars, heapVars, rdVars, part>>
    \/ part = "initrd" /\ RdNext /\ UNCHANGED <<pmmVars, heapVars, ptVars, part>>

Spec == Init /\ [][Next]_<<pmmVars, heapVars, ptVars, rdVars, part>>

=============================================================================
