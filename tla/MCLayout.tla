------------------------------ MODULE MCLayout ------------------------------
(***************************************************************************)
(* Small files for Layout: pages of two cells, up to two sections in any   *)
(* order, with gaps, overlaps and ends that are or are not whole pages.    *)
(***************************************************************************)
EXTENDS Layout

Data == {"READ", "WRITE"}
Code == {"READ", "EXECUTE"}

\* Sections with raw data that is shorter or longer than they are.
RawSections ==
    [virtualAddress : {0, 2, 3, 4}, virtualSize : 0..3, raw : {TRUE},
     rawSize : {1, 4}, perms : {Code}]

\* Sections that only exist in memory; the last one ends where 32 bits do.
MemorySections ==
    [virtualAddress : {2, 4, 6}, virtualSize : 1..2, raw : {FALSE},
     rawSize : {0}, perms : {Data}]

SectionTables ==
    {<<>>} \cup [1..1 -> RawSections]
    \cup {<<s, t>> : s \in RawSections, t \in RawSections \cup MemorySections}
    \cup {<<s, t>> : s \in MemorySections, t \in RawSections}

Fixup(offset) == [type |-> 10, offset |-> offset]
Pad == [type |-> 0, offset |-> 0]

Block(rva, entries) == [rva |-> rva, entries |-> entries]

\* No blocks; cells of two pages, one of them twice; an unknown type; a block
\* behind the one that ends the table.
RelocationTables ==
    {<<>>,
     <<Block(2, <<Fixup(0), Fixup(1)>>), Block(4, <<Fixup(1), Pad>>)>>,
     <<Block(2, <<Fixup(0), Fixup(0)>>)>>,
     <<Block(4, <<Fixup(0), [type |-> 3, offset |-> 0]>>)>>,
     <<Block(4, <<Fixup(0)>>), Block(0, <<>>), Block(2, <<Fixup(0)>>)>>}

\* A file with relocations has a section for them.
SmallFiles ==
    {f \in [imageBase : {100}, sections : SectionTables,
            relocations : RelocationTables] :
        f.relocations # <<>> =>
           \E i \in DOMAIN f.sections : f.sections[i].virtualSize # 0}

SmallBases == {20, 40}
=============================================================================
