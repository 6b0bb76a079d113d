------------------------------- MODULE Layout -------------------------------
(***************************************************************************)
(* The image of one PeFile: readSegments, which finds the extent of the    *)
(* sections, maps memory for all of them and reads them into it; then      *)
(* relocateFile and applySegmentPerms. One step is one turn of a loop.     *)
(*                                                                         *)
(* The unit of addresses is the cell, the 8 bytes one relocation changes.  *)
(* A cell holds a number; the cells of a section hold what the linker      *)
(* wrote, here the address it gave the cell itself, so that a relocated    *)
(* cell is right exactly when it holds its own address in the process.     *)
(* The memory of new PeSection[n] is taken to be zeroed; PeLoader has the  *)
(* other case.                                                             *)
(***************************************************************************)
EXTENDS Integers, Sequences, FiniteSets

CONSTANTS
    PageSize,  \* cells of a page
    RvaLimit,  \* 32 bit sums wrap at this many cells
    Bases,     \* the addresses mmap may return
    Files      \* the files: image base, section table, relocation blocks

Permissions == {"READ", "WRITE", "EXECUTE"}

SectionType ==
    [virtualAddress : 0..RvaLimit-1,
     virtualSize    : 0..RvaLimit-1,
     raw            : BOOLEAN,   \* pointerToRawData is not 0
     rawSize        : 0..RvaLimit-1,
     perms          : SUBSET Permissions]

\* A block of relocations is about one page, an entry about a cell of it.
BlockType == [rva     : 0..RvaLimit-1,
              entries : Seq([type : 0..15, offset : 0..PageSize-1])]

ASSUME LayoutAssumption ==
    /\ PageSize \in Nat \ {0}
    /\ RvaLimit \in Nat \ {0}
    /\ Bases \subseteq {b \in Nat \ {0} : b % PageSize = 0}
    /\ \A f \in Files :
          /\ f.imageBase \in Nat
          /\ f.sections \in Seq(SectionType)
          /\ f.relocations \in Seq(BlockType)
          \* The relocations lie in a section, or they would not be found.
          /\ f.relocations # <<>> =>
                \E i \in DOMAIN f.sections : f.sections[i].virtualSize # 0

VARIABLES
    file,        \* the file that is loaded
    stage,       \* "measure", "place", "relocate", "perms", "done", "failed"
    turn,        \* the index of the loop the stage is in
    start,       \* baselessStart
    end,         \* baselessEnd
    base,        \* where the allocation lies, 0 before mmap
    size,        \* PeSection::size
    pointer,     \* PeSection::pointer, 0 for nullptr
    memory,      \* the cells of the mapping
    protection,  \* the permissions of its pages
    process      \* "running", "aborted", or "undefined" once memory outside the
                 \* mapping was touched

vars == <<file, stage, turn, start, end, base, size, pointer, memory,
          protection, process>>

sections == file.sections

\* MUTANT: the start begins at -1 and no section is below it.
NoStartSigned == -1

\* SIZE_MAX, more than any virtual address.
NoStart == RvaLimit

Init ==
    /\ file \in Files
    /\ stage = "measure"
    /\ turn = 1
    /\ start = NoStart
    /\ end = 0
    /\ base = 0
    /\ size = [i \in DOMAIN sections |-> 0]
    /\ pointer = [i \in DOMAIN sections |-> 0]
    /\ memory = <<>>
    /\ protection = <<>>
    /\ process = "running"

In(name) == stage = name /\ process = "running"

Go(name) == stage' = name /\ turn' = 1

NextTurn == turn' = turn + 1 /\ UNCHANGED stage

-----------------------------------------------------------------------------
(* readSegments *)

Smaller(a, b) == IF a > b THEN b ELSE a
Larger(a, b)  == IF a < b THEN b ELSE a

\* MUTANT: the end of the last section counts, not the largest.
ExtentOfLast(section) ==
    /\ start' = Smaller(start, section.virtualAddress)
    /\ end' = (section.virtualAddress + section.virtualSize) % RvaLimit

\* The extent so far and the section; the 32 bit sum wraps.
Extent(section) ==
    /\ start' = Smaller(start, section.virtualAddress)
    /\ end' = Larger(end, (section.virtualAddress + section.virtualSize)
                              % RvaLimit)

\* The first loop: a section of virtual size 0 is passed over.
Measure ==
    /\ In("measure")
    /\ turn <= Len(sections)
    /\ IF sections[turn].virtualSize = 0
       THEN UNCHANGED <<start, end, size>>
       ELSE /\ size' = [size EXCEPT ![turn] = sections[turn].virtualSize]
            /\ Extent(sections[turn])
    /\ NextTurn
    /\ UNCHANGED <<file, base, pointer, memory, protection, process>>

\* The end is rounded up to a page, an end that is whole gets a page more.
\* Without any section the difference wraps around to a page and a byte.
AllocationSize ==
    IF start = NoStart THEN PageSize + 1
    ELSE ((end + PageSize) \div PageSize) * PageSize - start

\* What the kernel maps for it at an address: whole pages.
PagesAt(b) == b \div PageSize .. (b + AllocationSize - 1) \div PageSize
CellsAt(b) == b .. ((b + AllocationSize - 1) \div PageSize + 1) * PageSize - 1

Mapped == CellsAt(base)

\* MUTANT: what mmap returned is not looked at.
MapSegmentsUnchecked ==
    /\ In("measure")
    /\ turn > Len(sections)
    /\ \/ UNCHANGED <<base, memory, protection>>
       \/ /\ AllocationSize > 0
          /\ \E b \in Bases :
                /\ base' = b
                /\ memory' = [a \in CellsAt(b) |-> 0]
                /\ protection' = [p \in PagesAt(b) |-> {"READ", "WRITE"}]
    /\ Go("place")
    /\ UNCHANGED <<file, start, end, size, pointer, process>>

\* mmap, which refuses a size that has wrapped.
MapSegments ==
    /\ In("measure")
    /\ turn > Len(sections)
    /\ \/ Go("failed") /\ UNCHANGED <<base, memory, protection>>
       \/ /\ AllocationSize > 0
          /\ \E b \in Bases :
                /\ base' = b
                /\ memory' = [a \in CellsAt(b) |-> 0]
                /\ protection' = [p \in PagesAt(b) |-> {"READ", "WRITE"}]
          /\ Go("place")
    /\ UNCHANGED <<file, start, end, size, pointer, process>>

\* What the linker wrote in cell k of a section.
Word(section, k) == file.imageBase + section.virtualAddress + k

\* MUTANT: the raw data of a section is read as far as it goes.
RawLengthUnbounded(section, room) == section.rawSize

\* Raw data that is longer than the section, as it is padded to, is cut off.
RawLength(section, room) == Smaller(section.rawSize, room)

\* All sections move by the same distance.
SectionPointer(section) == base + (section.virtualAddress - start)

\* readFully into the mapping, which may fail.
ReadRaw(section, target, length) ==
    \/ Go("failed") /\ UNCHANGED <<memory, process>>
    \/ /\ target .. target + length - 1 \subseteq Mapped
       /\ memory' = [a \in Mapped |->
                        IF a \in target .. target + length - 1
                        THEN Word(section, a - target) ELSE memory[a]]
       /\ NextTurn
       /\ UNCHANGED process
    \/ /\ ~(target .. target + length - 1 \subseteq Mapped)
       /\ process' = "undefined"
       /\ UNCHANGED <<stage, turn, memory>>

\* The second loop: a section without raw data stays zero, as .bss does.
Place ==
    LET section == sections[turn]
        target  == SectionPointer(section)
    IN
    /\ In("place")
    /\ turn <= Len(sections)
    /\ \/ /\ size[turn] = 0
          /\ NextTurn
          /\ UNCHANGED <<pointer, memory, process>>
       \/ /\ size[turn] # 0
          /\ pointer' = [pointer EXCEPT ![turn] = target]
          /\ IF section.raw
             THEN ReadRaw(section, target, RawLength(section, size[turn]))
             ELSE NextTurn /\ UNCHANGED <<memory, process>>
    /\ UNCHANGED <<file, start, end, base, size, protection>>

Placed ==
    /\ In("place")
    /\ turn > Len(sections)
    /\ Go("relocate")
    /\ UNCHANGED <<file, start, end, base, size, pointer, memory, protection,
                   process>>

-----------------------------------------------------------------------------
(* resolveRva *)

\* The first section that contains an RVA, 0 when none does.
ResolveRvaSection(rva) ==
    LET containing == {i \in DOMAIN sections :
                         /\ sections[i].virtualAddress <= rva
                         /\ sections[i].virtualAddress + size[i] > rva}
    IN  IF containing = {} THEN 0
        ELSE CHOOSE i \in containing : \A j \in containing : i <= j

ResolveInSection(i, rva) == pointer[i] + rva - sections[i].virtualAddress

\* RVA 0 is a null pointer, also in a section that starts there.
ResolveRva(rva) ==
    LET i == ResolveRvaSection(rva) IN
    IF rva = 0 \/ i = 0 THEN 0 ELSE ResolveInSection(i, rva)

-----------------------------------------------------------------------------
(* relocateFile *)

\* MUTANT: the distance from the base of the mapping, not of the section.
SectionOffsetOfMapping(i) == base - file.imageBase

\* How far a section lies from where the linker put it.
SectionOffset(i) ==
    pointer[i] - (file.imageBase + sections[i].virtualAddress)

\* The entries of a block that name the cell at an address, of a section.
Naming(block, i, a) ==
    {e \in DOMAIN block.entries :
        /\ block.entries[e].type = 10
        /\ ResolveInSection(i, block.rva + block.entries[e].offset) = a}

UnknownType(block) ==
    \E e \in DOMAIN block.entries : block.entries[e].type \notin {0, 10}

\* A cell behind the section is changed as well, which only the end of the
\* mapping stops.
LeavesMapping(block, i) ==
    \E e \in DOMAIN block.entries :
       /\ block.entries[e].type = 10
       /\ ResolveInSection(i, block.rva + block.entries[e].offset) \notin Mapped

\* One block: every cell it names moves by the offset of its section. A block
\* outside the sections is an error, a type it does not know aborts.
RelocateBlock(block) ==
    LET i == ResolveRvaSection(block.rva) IN
    \/ /\ i = 0
       /\ Go("failed")
       /\ UNCHANGED <<memory, process>>
    \/ /\ i # 0
       /\ UnknownType(block)
       /\ process' = "aborted"
       /\ UNCHANGED <<stage, turn, memory>>
    \/ /\ i # 0
       /\ LeavesMapping(block, i)
       /\ process' = "undefined"
       /\ UNCHANGED <<stage, turn, memory>>
    \/ /\ i # 0
       /\ ~UnknownType(block)
       /\ ~LeavesMapping(block, i)
       /\ memory' = [a \in Mapped |->
              memory[a] + SectionOffset(i) * Cardinality(Naming(block, i, a))]
       /\ NextTurn
       /\ UNCHANGED process

\* The blocks follow each other up to one for RVA 0, or to the end.
Relocate ==
    /\ In("relocate")
    /\ IF turn <= Len(file.relocations) /\ file.relocations[turn].rva # 0
       THEN RelocateBlock(file.relocations[turn])
       ELSE Go("perms") /\ UNCHANGED <<memory, process>>
    /\ UNCHANGED <<file, start, end, base, size, pointer, protection>>

-----------------------------------------------------------------------------
(* applySegmentPerms *)

\* The pages a range of memory lies in.
Pages(from, length) ==
    IF length = 0 THEN {}
    ELSE from \div PageSize .. (from + length - 1) \div PageSize

\* MUTANT: permissions are added to what the pages have.
ProtectAdding(pages, perms) ==
    protection' = [p \in DOMAIN protection |->
                      IF p \in pages THEN perms \cup protection[p]
                      ELSE protection[p]]

\* mprotect
Protect(pages, perms) ==
    protection' = [p \in DOMAIN protection |->
                      IF p \in pages THEN perms ELSE protection[p]]

\* A section that does not start at a page is refused. So is one with pages
\* that are not mapped, unless the process has mapped something else there.
ApplyPerms ==
    LET pages == Pages(pointer[turn], size[turn]) IN
    /\ In("perms")
    /\ turn <= Len(sections)
    /\ \/ /\ pointer[turn] % PageSize = 0
          /\ pages \subseteq DOMAIN protection
          /\ Protect(pages, sections[turn].perms)
          /\ NextTurn
          /\ UNCHANGED process
       \/ /\ \/ pointer[turn] % PageSize # 0
             \/ ~(pages \subseteq DOMAIN protection)
          /\ Go("failed")
          /\ UNCHANGED <<protection, process>>
       \/ /\ pointer[turn] % PageSize = 0
          /\ ~(pages \subseteq DOMAIN protection)
          /\ process' = "undefined"
          /\ UNCHANGED <<stage, turn, protection>>
    /\ UNCHANGED <<file, start, end, base, size, pointer, memory>>

Loaded ==
    /\ In("perms")
    /\ turn > Len(sections)
    /\ Go("done")
    /\ UNCHANGED <<file, start, end, base, size, pointer, memory, protection,
                   process>>

-----------------------------------------------------------------------------

\* parsePeFile goes on, or fails.
Terminating ==
    /\ stage \in {"done", "failed"} \/ process # "running"
    /\ UNCHANGED vars

Next ==
    \/ Measure \/ MapSegments \/ Place \/ Placed \/ Relocate \/ ApplyPerms
    \/ Loaded \/ Terminating

Spec == Init /\ [][Next]_vars

-----------------------------------------------------------------------------
(* Properties *)

\* Every variable stays in its range, and the cells and pages that exist are
\* those of the mapping.
TypeOK ==
    /\ file \in Files
    /\ stage \in {"measure", "place", "relocate", "perms", "done", "failed"}
    /\ turn \in Nat \ {0}
    /\ start \in 0..RvaLimit
    /\ end \in 0..RvaLimit-1
    /\ base \in Bases \cup {0}
    /\ size \in [DOMAIN sections -> 0..RvaLimit-1]
    /\ pointer \in [DOMAIN sections -> Nat]
    /\ base # 0 => /\ memory \in [Mapped -> Int]
                   /\ protection \in [PagesAt(base) -> SUBSET Permissions]
    /\ process \in {"running", "aborted", "undefined"}

\* No section ends behind what 32 bits can count.
Fits == \A i \in DOMAIN sections :
           sections[i].virtualAddress + sections[i].virtualSize < RvaLimit

\* The RVAs a section occupies.
Rvas(i) == sections[i].virtualAddress ..
           sections[i].virtualAddress + sections[i].virtualSize - 1

Disjoint == \A i, j \in DOMAIN sections : i # j => Rvas(i) \cap Rvas(j) = {}

\* A section whose pointer is set lies in the mapping with all its cells, in
\* whatever order the sections come and however large the gaps between them.
PlacedInside ==
    Fits => \A i \in DOMAIN sections :
               pointer[i] # 0 =>
                  /\ pointer[i] >= base
                  /\ pointer[i] + size[i] <= base + AllocationSize

\* The blocks that have been processed.
BlocksDone ==
    IF stage = "relocate" THEN 1..turn-1
    ELSE {b \in DOMAIN file.relocations :
             \A c \in 1..b : file.relocations[c].rva # 0}

\* The entries of processed blocks that name an RVA.
EntriesNaming(rva) ==
    UNION {{b} \X {e \in DOMAIN file.relocations[b].entries :
                      LET block == file.relocations[b] IN
                      /\ block.entries[e].type = 10
                      /\ block.rva + block.entries[e].offset = rva}
           : b \in BlocksDone}

\* What cell k of a section holds in the image: its raw data or zero, moved by
\* the distance between the image and the address the linker gave it for each
\* entry of a processed block that names it.
CellOfImage(i, k) ==
    LET section == sections[i]
        rva == section.virtualAddress + k
    IN  (IF section.raw /\ k < section.rawSize THEN Word(section, k) ELSE 0)
        + (base - start - file.imageBase) * Cardinality(EntriesNaming(rva))

\* Once the sections are read every RVA of a section, but for RVA 0, resolves to
\* a cell that holds what the file says, and stays so through the relocations:
\* no section overwrites a part of another, none is read too far, and a cell is
\* moved as often as the table says and by the same distance wherever it lies.
ImageIsTheFile ==
    Fits /\ Disjoint /\ process = "running"
    /\ stage \in {"relocate", "perms", "done"} =>
       \A i \in DOMAIN sections : \A k \in 0..sections[i].virtualSize-1 :
          LET rva == sections[i].virtualAddress + k IN
          /\ rva # 0 => ResolveRva(rva) = pointer[i] + k
          /\ memory[pointer[i] + k] = CellOfImage(i, k)

\* Every relocation entry names a cell of the section its block starts in.
TargetsInSections ==
    \A b \in DOMAIN file.relocations : \A e \in DOMAIN file.relocations[b].entries :
       \A i \in DOMAIN sections :
          LET block == file.relocations[b] IN
          block.rva \in Rvas(i) => block.rva + block.entries[e].offset \in Rvas(i)

\* Nothing outside the mapping is touched while a well-formed file is loaded.
StaysInMapping == Fits /\ TargetsInSections => process # "undefined"

\* No two sections share a page.
PagesDisjoint ==
    \A i, j \in DOMAIN sections :
       i # j => Pages(sections[i].virtualAddress, sections[i].virtualSize)
                \cap Pages(sections[j].virtualAddress, sections[j].virtualSize)
                = {}

\* In a loaded image each page of a section has the permissions the section
\* asks for and no other, whatever the loader itself had to write there.
PermsAsAsked ==
    Fits /\ PagesDisjoint /\ stage = "done" =>
       \A i \in DOMAIN sections :
          \A p \in Pages(pointer[i], size[i]) : protection[p] = sections[i].perms

-----------------------------------------------------------------------------
(* The loops implement the stages of PeLoader: a stage goes on, fails or   *)
(* aborts there with what is mapped here.                                  *)

\* The stage of PeLoader that a loop belongs to. Placed is the step between
\* readSegments and relocateFile, where parseImports and parseExports run.
InPeLoader ==
    CASE stage = "measure" -> "segments"
      [] stage = "place"   -> IF turn > Len(sections) THEN "imports"
                              ELSE "segments"
      [] stage = "done"    -> "closeSource"
      [] stage = "failed"  -> "closeFile"
      [] OTHER             -> stage

\* The members that are set when the headers have been read from a path.
Parsed ==
    [fileType          |-> "TYPE_FILE",
     fileHandle        |-> "3",
     callback          |-> "nullptr",
     dataDirs          |-> "read",
     sectionCount      |-> IF sections # <<>> THEN "some" ELSE "none",
     sections          |-> "own",
     sectionAllocation |-> "nullptr",
     importCount       |-> "none",
     imports           |-> "nullptr",
     exportCount       |-> "none",
     exports           |-> "nullptr"]

\* PeLoader has the mapping from the end of readSegments on. What a malformed
\* file makes the loader do to its image ("undefined") it does not see.
Loader == INSTANCE PeLoader WITH
    Threads <- {"t"}, PeFiles <- {"f"}, Fds <- {"0", "3"}, Stdin <- "0",
    Requests <- {"path"}, HeapContents <- {"zeroed"}, NULL <- "nullptr",
    fds <- [d \in {"0", "3"} |-> IF d = "0" THEN "host" ELSE "f"],
    heap <- {<<"f", "PeFile">>, <<"f", "sections">>},
    images <- IF base = 0 \/ InPeLoader = "segments" THEN {} ELSE {"f"},
    pe <- [f \in {"f"} |-> Parsed],
    buffers <- [f \in {"f"} |-> 0],
    created <- {"f"},
    handle <- [t \in {"t"} |-> "nullptr"],
    pc <- [t \in {"t"} |-> InPeLoader],
    file <- [t \in {"t"} |-> "f"],
    request <- [t \in {"t"} |-> "path"],
    code <- [t \in {"t"} |-> IF stage = "failed" THEN "negative" ELSE "none"],
    process <- IF process = "aborted" THEN "aborted" ELSE "running"

\* Going through the sections, the blocks and the sections again does what the
\* three stages of PeLoader say: which exits there are, on what a file must
\* have for them, and that a readSegments that succeeds has mapped an image,
\* while one that fails may have.
StagesOfPeLoader ==
    [][\/ Placed \/ Loader!ReadSegments("t") \/ Loader!RelocateFile("t")
       \/ Loader!ApplySegmentPerms("t")]_(Loader!vars)

=============================================================================
