---------------------------- MODULE LayoutProofs ----------------------------
(***************************************************************************)
(* Proofs about Layout, for every page size, every file and every address  *)
(* mmap may return.                                                        *)
(***************************************************************************)
EXTENDS Layout, FiniteSetTheorems, WellFoundedInduction, TLAPS

\* Rounding up to a page loses nothing.
LEMMA RoundUp ==
    ASSUME NEW e \in Nat
    PROVE  /\ ((e + PageSize) \div PageSize) * PageSize \in Nat
           /\ ((e + PageSize) \div PageSize) * PageSize > e
BY LayoutAssumption, SMTT(30)

\* A 32 bit sum, which does not wrap when it fits.
LEMMA Sum ==
    ASSUME NEW a \in Nat
    PROVE  /\ a % RvaLimit \in 0..RvaLimit-1
           /\ a < RvaLimit => a % RvaLimit = a
BY LayoutAssumption, SMTT(30)

\* What a file may hold.
LEMMA FileTypes ==
    ASSUME TypeOK
    PROVE  /\ file.imageBase \in Nat
           /\ sections \in Seq(SectionType)
           /\ file.relocations \in Seq(BlockType)
BY LayoutAssumption DEF TypeOK, sections

\* The members of a section header.
LEMMA SectionTypes ==
    ASSUME TypeOK, NEW i \in DOMAIN sections
    PROVE  /\ sections[i] \in SectionType
           /\ sections[i].virtualAddress \in 0..RvaLimit-1
           /\ sections[i].virtualSize \in 0..RvaLimit-1
           /\ sections[i].rawSize \in 0..RvaLimit-1
           /\ sections[i].perms \in SUBSET Permissions
           /\ i \in 1..Len(sections)
<1>1. sections \in Seq(SectionType)
  BY FileTypes
<1>2. i \in 1..Len(sections) /\ sections[i] \in SectionType
  BY <1>1
<1> QED BY <1>2 DEF SectionType

\* A set of numbers that is not empty has a least one.
LEMMA Least ==
    ASSUME NEW S \in SUBSET Nat, S # {}
    PROVE  \E x \in S : \A y \in S : x <= y
<1> DEFINE R == OpToRel(<, Nat)
<1>1. PICK x \in S : \A y \in S : ~(<<y, x>> \in R)
  <2> HIDE DEF R
  <2>1. IsWellFoundedOn(R, Nat)
    BY NatLessThanWellFounded DEF R
  <2> QED BY <2>1, WFMin
<1>2. \A y \in S : ~(y < x)
  BY <1>1 DEF OpToRel
<1> QED BY <1>2

\* resolveRvaSection finds a section that contains the RVA.
LEMMA Resolves ==
    ASSUME TypeOK, NEW rva, ResolveRvaSection(rva) # 0
    PROVE  LET i == ResolveRvaSection(rva) IN
           /\ i \in DOMAIN sections
           /\ sections[i].virtualAddress <= rva
           /\ sections[i].virtualAddress + size[i] > rva
<1> DEFINE S == {i \in DOMAIN sections :
                    /\ sections[i].virtualAddress <= rva
                    /\ sections[i].virtualAddress + size[i] > rva}
<1>1. S # {} /\ ResolveRvaSection(rva) = CHOOSE i \in S : \A j \in S : i <= j
  BY DEF ResolveRvaSection
<1>2. S \in SUBSET Nat
  BY FileTypes
<1>3. \E i \in S : \A j \in S : i <= j
  BY <1>1, <1>2, Least
<1> HIDE DEF S
<1>4. ResolveRvaSection(rva) \in S
  BY <1>1, <1>3
<1> QED BY <1>4 DEF S

-----------------------------------------------------------------------------
(* The extent of the sections *)

\* A section that was measured lies between the start and the end found so far,
\* and one that was placed lies as far from the base as from the start. The sum
\* of a section that fits does not wrap.
Measured(i) ==
    size[i] # 0 =>
       /\ size[i] = sections[i].virtualSize
       /\ start <= sections[i].virtualAddress
       /\ Fits => sections[i].virtualAddress + sections[i].virtualSize <= end

Anchored(i) ==
    pointer[i] # 0 =>
       /\ stage # "measure"
       /\ size[i] # 0
       /\ pointer[i] = base + (sections[i].virtualAddress - start)

Extents ==
    /\ \A i \in DOMAIN sections : Measured(i) /\ Anchored(i)
    /\ stage = "measure" => base = 0

\* Before the first loop nothing is measured and nothing placed.
LEMMA ExtentsInit == Init => Extents
BY DEF Init, Extents, Measured, Anchored, sections

\* The first loop widens the extent by one section.
LEMMA ExtentsMeasure ==
    ASSUME TypeOK, Extents, Measure
    PROVE  Extents'
<1>1. sections' = sections /\ pointer' = pointer /\ stage = "measure"
  BY DEF Measure, In, sections
<1>2. Fits' <=> Fits
  BY <1>1 DEF Fits
<1>3. \A i \in DOMAIN sections : pointer[i] = 0
  BY <1>1 DEF Extents, Anchored
<1>4. turn \in DOMAIN sections
  BY FileTypes DEF Measure, TypeOK
<1>5. ASSUME NEW i \in DOMAIN sections
      PROVE  Measured(i)'
  <2>1. CASE sections[turn].virtualSize = 0
    BY <1>1, <1>2, <1>5, <2>1 DEF Measure, Extents, Measured
  <2>2. CASE sections[turn].virtualSize # 0
    <3>1. /\ size' = [size EXCEPT ![turn] = sections[turn].virtualSize]
          /\ start' = Smaller(start, sections[turn].virtualAddress)
          /\ end' = Larger(end, (sections[turn].virtualAddress
                                 + sections[turn].virtualSize) % RvaLimit)
      BY <2>2 DEF Measure, Extent
    <3> DEFINE sum == sections[turn].virtualAddress + sections[turn].virtualSize
    <3>2. /\ sections[turn].virtualAddress \in 0..RvaLimit-1
          /\ sum \in Nat
          /\ Fits => sum < RvaLimit
      BY <1>4, SectionTypes DEF Fits
    <3> HIDE DEF sum
    <3>3. sum % RvaLimit \in 0..RvaLimit-1 /\ (Fits => sum % RvaLimit = sum)
      BY <3>2, Sum
    <3>4. end' = Larger(end, sum % RvaLimit)
      BY <3>1 DEF sum
    <3>5. start \in Int /\ end \in Int
      BY LayoutAssumption DEF TypeOK
    <3>6. /\ start' <= start
          /\ start' <= sections[turn].virtualAddress
          /\ end' >= end
      BY <3>1, <3>2, <3>3, <3>4, <3>5, LayoutAssumption DEF Smaller, Larger
    <3>7. Fits => end' >= sum
      <4>1. end' >= sum % RvaLimit
        BY <3>3, <3>4, <3>5, LayoutAssumption DEF Larger
      <4> QED BY <3>3, <4>1
    <3>8. CASE i = turn
      BY <1>1, <1>2, <3>1, <3>6, <3>7, <3>8 DEF Measured, TypeOK, sum
    <3>9. CASE i # turn
      <4>1. size'[i] = size[i] /\ Measured(i)
        BY <1>5, <3>1, <3>9 DEF Extents, TypeOK
      <4>2. /\ start \in Int /\ start' \in Int /\ end \in Int /\ end' \in Int
            /\ sections[i].virtualAddress \in Int
            /\ sections[i].virtualSize \in Int
        BY <1>5, <3>1, <3>2, <3>3, <3>4, <3>5, SectionTypes, LayoutAssumption
           DEF Smaller, Larger
      <4> QED BY <1>1, <1>2, <3>6, <4>1, <4>2 DEF Measured
    <3> QED BY <3>8, <3>9
  <2> QED BY <2>1, <2>2
<1>6. base' = base
  BY DEF Measure
<1> QED BY <1>1, <1>3, <1>5, <1>6 DEF Extents, Anchored

\* mmap sets the base before anything is placed.
LEMMA ExtentsMap ==
    ASSUME Extents, MapSegments
    PROVE  Extents'
<1>1. /\ sections' = sections /\ pointer' = pointer /\ size' = size
      /\ start' = start /\ end' = end /\ stage = "measure"
  BY DEF MapSegments, In, sections
<1>2. \A i \in DOMAIN sections : pointer[i] = 0
  BY <1>1 DEF Extents, Anchored
<1>3. stage' = "measure" => base' = base
  BY DEF MapSegments, Go
<1> QED BY <1>1, <1>2, <1>3 DEF Extents, Measured, Anchored, Fits

\* The second loop places one section.
LEMMA ExtentsPlace ==
    ASSUME TypeOK, Extents, Place
    PROVE  Extents'
<1>1. /\ sections' = sections /\ size' = size /\ base' = base
      /\ start' = start /\ end' = end /\ stage = "place"
  BY DEF Place, In, sections
<1>2. stage' # "measure"
  BY <1>1 DEF Place, ReadRaw, Go, NextTurn
<1>3. \/ pointer' = pointer
      \/ /\ size[turn] # 0
         /\ pointer' = [pointer EXCEPT ![turn] = SectionPointer(sections[turn])]
  BY DEF Place
<1> QED
  BY <1>1, <1>2, <1>3 DEF Extents, Measured, Anchored, Fits, SectionPointer, TypeOK

\* The other steps change nothing the extents are about.
LEMMA ExtentsRest ==
    ASSUME Extents, Placed \/ Relocate \/ ApplyPerms \/ Loaded \/ UNCHANGED vars
    PROVE  Extents'
<1>1. /\ sections' = sections /\ size' = size /\ base' = base
      /\ start' = start /\ end' = end /\ pointer' = pointer
  BY DEF Placed, Relocate, ApplyPerms, Loaded, vars, sections
<1>2. stage # "measure" => stage' # "measure"
  BY DEF Placed, Relocate, RelocateBlock, ApplyPerms, Loaded, vars, Go, NextTurn
<1> QED BY <1>1, <1>2 DEF Extents, Measured, Anchored, Fits

\* What the extents are for: the place of a section that was measured lies in
\* the allocation.
LEMMA SectionInside ==
    ASSUME TypeOK, Extents, Fits, NEW i \in DOMAIN sections, size[i] # 0
    PROVE  /\ SectionPointer(sections[i]) \in Nat
           /\ SectionPointer(sections[i]) >= base
           /\ SectionPointer(sections[i]) + size[i] <= base + AllocationSize
<1>1. /\ size[i] = sections[i].virtualSize
      /\ start <= sections[i].virtualAddress
      /\ sections[i].virtualAddress + sections[i].virtualSize <= end
  BY DEF Extents, Measured
<1>2. /\ sections[i].virtualAddress \in 0..RvaLimit-1
      /\ sections[i].virtualSize \in 0..RvaLimit-1
      /\ start \in Nat /\ end \in Nat /\ base \in Nat
  BY SectionTypes, LayoutAssumption DEF TypeOK
<1>3. start # NoStart
  BY <1>1, <1>2, LayoutAssumption DEF NoStart
<1>4. /\ AllocationSize = ((end + PageSize) \div PageSize) * PageSize - start
      /\ ((end + PageSize) \div PageSize) * PageSize \in Nat
      /\ ((end + PageSize) \div PageSize) * PageSize > end
  BY <1>2, <1>3, RoundUp DEF AllocationSize
<1> HIDE DEF AllocationSize
<1> QED BY <1>1, <1>2, <1>4 DEF SectionPointer

\* So a section whose pointer is set lies there.
LEMMA ExtentsPlaceInside ==
    ASSUME TypeOK, Extents
    PROVE  PlacedInside
<1>1. \A i \in DOMAIN sections :
         pointer[i] # 0 => size[i] # 0 /\ pointer[i] = SectionPointer(sections[i])
  BY DEF Extents, Anchored, SectionPointer
<1> QED BY <1>1, SectionInside DEF PlacedInside

-----------------------------------------------------------------------------
(* Types *)

\* The cells of the mapping have addresses in Int.
LEMMA AllocationType ==
    ASSUME TypeOK
    PROVE  AllocationSize \in Int
<1>1. end \in Nat /\ start \in Int
  BY LayoutAssumption DEF TypeOK
<1>2. ((end + PageSize) \div PageSize) * PageSize \in Nat
  BY <1>1, RoundUp
<1> QED BY <1>1, <1>2, LayoutAssumption DEF AllocationSize

\* At first nothing is mapped.
LEMMA LayoutTypeInit == Init => TypeOK
BY LayoutAssumption DEF Init, TypeOK, NoStart, sections

\* The loop that measures.
LEMMA TypeMeasure ==
    ASSUME TypeOK, Extents, Measure
    PROVE  TypeOK'
<1>1. sections' = sections /\ file' = file /\ base' = base /\ base = 0
  BY DEF Measure, In, Extents, sections
<1>2. turn \in DOMAIN sections
  BY FileTypes DEF Measure, TypeOK
<1>3. size' \in [DOMAIN sections -> 0..RvaLimit-1]
  BY <1>2, SectionTypes DEF Measure, TypeOK
<1>4. start' \in 0..RvaLimit /\ end' \in 0..RvaLimit-1
  <2> DEFINE sum == sections[turn].virtualAddress + sections[turn].virtualSize
  <2>1. sections[turn].virtualAddress \in 0..RvaLimit-1 /\ sum \in Nat
    BY <1>2, SectionTypes
  <2> HIDE DEF sum
  <2>2. sum % RvaLimit \in 0..RvaLimit-1
    BY <2>1, Sum
  <2>3. \/ start' = start /\ end' = end
        \/ /\ start' = Smaller(start, sections[turn].virtualAddress)
           /\ end' = Larger(end, sum % RvaLimit)
    BY DEF Measure, Extent, sum
  <2> QED BY <2>1, <2>2, <2>3, LayoutAssumption DEF TypeOK, Smaller, Larger
<1> QED BY <1>1, <1>3, <1>4 DEF Measure, NextTurn, TypeOK

\* The mapping.
LEMMA TypeMap ==
    ASSUME TypeOK, MapSegments
    PROVE  TypeOK'
<1>1. /\ sections' = sections /\ file' = file /\ start' = start /\ end' = end
      /\ size' = size /\ pointer' = pointer /\ process' = process
      /\ AllocationSize' = AllocationSize
  BY DEF MapSegments, sections, AllocationSize
<1>2. CASE base' = base /\ memory' = memory /\ protection' = protection
  BY <1>1, <1>2 DEF MapSegments, Go, TypeOK, Mapped, CellsAt, PagesAt
<1>3. CASE \E b \in Bases :
              /\ base' = b
              /\ memory' = [a \in CellsAt(b) |-> 0]
              /\ protection' = [p \in PagesAt(b) |-> {"READ", "WRITE"}]
  <2>1. /\ base' \in Bases
        /\ memory' \in [CellsAt(base') -> Int]
        /\ protection' \in [PagesAt(base') -> SUBSET Permissions]
    BY <1>3 DEF Permissions
  <2>2. CellsAt(base') = Mapped' /\ PagesAt(base') = PagesAt(base)'
    BY <1>1 DEF Mapped, CellsAt, PagesAt
  <2>3. stage' \in {"place", "failed"} /\ turn' = 1
    BY DEF MapSegments, Go
  <2> QED BY <1>1, <2>1, <2>2, <2>3 DEF TypeOK
<1> QED BY <1>2, <1>3 DEF MapSegments

\* The mapping stays what it is while the extent and the base do.
LEMMA SameMapping ==
    ASSUME UNCHANGED <<start, end, base>>
    PROVE  Mapped' = Mapped /\ PagesAt(base)' = PagesAt(base)
BY DEF Mapped, CellsAt, PagesAt, AllocationSize

\* The loop that places.
LEMMA TypePlace ==
    ASSUME TypeOK, Extents, Place
    PROVE  TypeOK'
<1>1. /\ sections' = sections /\ file' = file /\ size' = size /\ base' = base
      /\ start' = start /\ end' = end /\ protection' = protection
  BY DEF Place, sections
<1>2. turn \in DOMAIN sections
  BY FileTypes DEF Place, TypeOK
<1>3. pointer' \in [DOMAIN sections -> Nat]
  <2>1. CASE size[turn] = 0
    BY <2>1 DEF Place, TypeOK
  <2>2. CASE size[turn] # 0
    <3>1. start <= sections[turn].virtualAddress
      BY <1>2, <2>2 DEF Extents, Measured
    <3>2. SectionPointer(sections[turn]) \in Nat
      BY <1>2, <3>1, SectionTypes, LayoutAssumption DEF SectionPointer, TypeOK
    <3> QED BY <2>2, <3>2 DEF Place, TypeOK
  <2> QED BY <2>1, <2>2
<1>4. base # 0 => memory' \in [Mapped -> Int]
  <2>1. CASE memory' = memory
    BY <2>1 DEF TypeOK
  <2>2. CASE memory' # memory
    <3> DEFINE target == SectionPointer(sections[turn])
               length == RawLength(sections[turn], size[turn])
    <3>1. memory' = [a \in Mapped |->
                        IF a \in target .. target + length - 1
                        THEN Word(sections[turn], a - target) ELSE memory[a]]
      BY <2>2 DEF Place, ReadRaw
    <3>2. \A a \in Int : Word(sections[turn], a - target) \in Int
      <4>1. /\ base \in Int /\ start \in Int /\ file.imageBase \in Int
            /\ sections[turn].virtualAddress \in Int
        BY <1>2, SectionTypes, FileTypes, LayoutAssumption DEF TypeOK
      <4>2. target \in Int
        BY <4>1 DEF SectionPointer
      <4> HIDE DEF target
      <4> QED BY <4>1, <4>2 DEF Word
    <3>3. Mapped \subseteq Int
      BY DEF Mapped, CellsAt
    <3> QED BY <3>1, <3>2, <3>3 DEF TypeOK
  <2> QED BY <2>1, <2>2
<1>5. /\ stage' \in {"place", "failed"} /\ turn' \in Nat \ {0}
      /\ process' \in {"running", "aborted", "undefined"}
  BY DEF Place, ReadRaw, Go, NextTurn, In, TypeOK
<1> QED BY <1>1, <1>3, <1>4, <1>5, SameMapping DEF TypeOK

\* A cell is named by finitely many entries.
LEMMA NamingType ==
    ASSUME TypeOK, NEW b \in DOMAIN file.relocations, NEW i, NEW a
    PROVE  Cardinality(Naming(file.relocations[b], i, a)) \in Nat
<1> DEFINE block == file.relocations[b]
<1>1. block.entries \in Seq([type : 0..15, offset : 0..PageSize-1])
  <2>1. b \in 1..Len(file.relocations) /\ file.relocations \in Seq(BlockType)
    BY FileTypes
  <2>2. block \in BlockType
    BY <2>1
  <2> HIDE DEF block
  <2> QED BY <2>2 DEF BlockType
<1>2. DOMAIN block.entries = 1..Len(block.entries) /\ Len(block.entries) \in Nat
  BY <1>1
<1>3. IsFiniteSet(DOMAIN block.entries)
  BY <1>2, FS_Interval
<1>4. Naming(block, i, a) \subseteq DOMAIN block.entries
  BY DEF Naming
<1> QED BY <1>3, <1>4, FS_Subset, FS_CardinalityType

\* The relocations.
LEMMA TypeRelocate ==
    ASSUME TypeOK, Relocate
    PROVE  TypeOK'
<1>1. /\ sections' = sections /\ file' = file /\ size' = size /\ base' = base
      /\ start' = start /\ end' = end /\ protection' = protection
      /\ pointer' = pointer
  BY DEF Relocate, sections
<1>2. base # 0 => memory' \in [Mapped -> Int]
  <2>1. CASE memory' = memory
    BY <2>1 DEF TypeOK
  <2>2. CASE memory' # memory
    <3> DEFINE block == file.relocations[turn]
               i == ResolveRvaSection(block.rva)
    <3>1. /\ turn \in DOMAIN file.relocations
          /\ i # 0
          /\ memory' = [a \in Mapped |-> memory[a] +
                          SectionOffset(i) * Cardinality(Naming(block, i, a))]
      BY <2>2, FileTypes DEF Relocate, RelocateBlock, TypeOK
    <3>2. i \in DOMAIN sections
      BY <3>1, Resolves
    <3>3. SectionOffset(i) \in Int
      <4> HIDE DEF i
      <4>1. sections[i].virtualAddress \in Int /\ file.imageBase \in Int
        BY <3>2, FileTypes, SectionTypes, LayoutAssumption
      <4>2. pointer[i] \in Int
        BY <3>2 DEF TypeOK
      <4> QED BY <4>1, <4>2 DEF SectionOffset
    <3>4. \A a : Cardinality(Naming(block, i, a)) \in Nat
      BY <3>1, NamingType
    <3> HIDE DEF block, i
    <3> QED BY <3>1, <3>3, <3>4 DEF TypeOK
  <2> QED BY <2>1, <2>2
<1>3. /\ stage' \in {"relocate", "perms", "failed"} /\ turn' \in Nat \ {0}
      /\ process' \in {"running", "aborted", "undefined"}
  BY DEF Relocate, RelocateBlock, Go, NextTurn, In, TypeOK
<1> QED BY <1>1, <1>2, <1>3, SameMapping DEF TypeOK

\* The permissions, and the steps from one loop to the next.
LEMMA TypeRest ==
    ASSUME TypeOK, ApplyPerms \/ Placed \/ Loaded \/ UNCHANGED vars
    PROVE  TypeOK'
<1>1. /\ sections' = sections /\ file' = file /\ size' = size /\ base' = base
      /\ start' = start /\ end' = end /\ memory' = memory /\ pointer' = pointer
  BY DEF ApplyPerms, Placed, Loaded, vars, sections
<1>2. base # 0 => protection' \in [PagesAt(base) -> SUBSET Permissions]
  <2>1. CASE protection' = protection
    BY <2>1 DEF TypeOK
  <2>2. CASE protection' # protection
    <3>1. /\ turn \in DOMAIN sections
          /\ \E pages : protection' =
                [p \in DOMAIN protection |->
                    IF p \in pages THEN sections[turn].perms ELSE protection[p]]
      <4>1. /\ turn \in DOMAIN sections
            /\ Protect(Pages(pointer[turn], size[turn]), sections[turn].perms)
        BY <2>2, FileTypes DEF ApplyPerms, Placed, Loaded, vars, TypeOK
      <4> QED BY <4>1 DEF Protect
    <3> QED BY <3>1, SectionTypes DEF TypeOK
  <2> QED BY <2>1, <2>2
<1>3. /\ stage' \in {"measure", "place", "relocate", "perms", "done", "failed"}
      /\ turn' \in Nat \ {0}
      /\ process' \in {"running", "aborted", "undefined"}
  BY DEF ApplyPerms, Placed, Loaded, vars, Go, NextTurn, In, TypeOK
<1> QED BY <1>1, <1>2, <1>3, SameMapping DEF TypeOK

-----------------------------------------------------------------------------

\* Every variable stays in its range, and the extents stay what they are.
THEOREM LayoutCorrect == Spec => [](TypeOK /\ Extents)
<1>1. Init => TypeOK /\ Extents
  BY LayoutTypeInit, ExtentsInit
<1>2. TypeOK /\ Extents /\ [Next]_vars => (TypeOK /\ Extents)'
  BY TypeMeasure, TypeMap, TypePlace, TypeRelocate, TypeRest,
     ExtentsMeasure, ExtentsMap, ExtentsPlace, ExtentsRest DEF Next, Terminating
<1> QED BY <1>1, <1>2, PTL DEF Spec

\* A section that fits is placed inside the allocation, whatever the order of
\* the section table and wherever mmap maps.
THEOREM SectionsLieInside == Spec => []PlacedInside
BY LayoutCorrect, ExtentsPlaceInside, PTL

-----------------------------------------------------------------------------
(* What is touched *)

\* The second loop has placed every section of a size before its turn.
AllPlaced ==
    /\ stage \in {"place", "relocate", "perms", "done"} => base # 0
    /\ \A i \in DOMAIN sections :
          /\ size[i] # 0
          /\ \/ stage = "place" /\ i < turn
             \/ stage \in {"relocate", "perms", "done"}
          => pointer[i] # 0

\* Each step keeps that.
LEMMA AllPlacedStep ==
    ASSUME TypeOK, Extents, AllPlaced, [Next]_vars
    PROVE  AllPlaced'
<1>1. CASE Measure
  BY <1>1 DEF Measure, In, NextTurn, AllPlaced
<1>2. CASE MapSegments
  <2>1. stage' \in {"failed", "place"} /\ turn' = 1 /\ sections' = sections
    BY <1>2 DEF MapSegments, Go, sections
  <2>2. stage' = "place" => base' # 0
    BY <1>2, LayoutAssumption DEF MapSegments, Go
  <2>3. \A i \in DOMAIN sections : ~(i < 1)
    BY FileTypes
  <2> QED BY <2>1, <2>2, <2>3 DEF AllPlaced
<1>3. CASE Place
  <2>1. /\ sections' = sections /\ size' = size /\ base' = base /\ stage = "place"
        /\ \/ stage' = "place" /\ turn' = turn + 1
           \/ stage' = "place" /\ turn' = turn
           \/ stage' = "failed"
    BY <1>3 DEF Place, In, ReadRaw, Go, NextTurn, sections
  <2>2. turn \in DOMAIN sections /\ DOMAIN sections = 1..Len(sections)
    BY <1>3, FileTypes DEF Place, TypeOK
  <2>3. size[turn] # 0 => pointer'[turn] # 0
    <3>1. CASE size[turn] # 0
      <4>1. /\ start <= sections[turn].virtualAddress
            /\ sections[turn].virtualAddress \in Int
            /\ start \in Int /\ base \in Nat /\ base # 0
        BY <2>1, <2>2, <3>1, SectionTypes, LayoutAssumption
           DEF Extents, Measured, TypeOK, AllPlaced
      <4>2. pointer'[turn] = base + (sections[turn].virtualAddress - start)
        BY <1>3, <2>2, <3>1 DEF Place, SectionPointer, TypeOK
      <4> QED BY <4>1, <4>2
    <3> QED BY <3>1
  <2>4. \A i \in DOMAIN sections : i # turn => pointer'[i] = pointer[i]
    BY <1>3, <2>2 DEF Place, TypeOK
  <2>5. \A i \in DOMAIN sections : i < turn + 1 => i < turn \/ i = turn
    BY <2>2
  <2> QED BY <2>1, <2>2, <2>3, <2>4, <2>5 DEF AllPlaced
<1>4. CASE Placed
  <2>1. \A i \in DOMAIN sections : i < turn
    BY <1>4, FileTypes DEF Placed, TypeOK
  <2> QED BY <1>4, <2>1 DEF Placed, In, Go, AllPlaced, sections
<1>5. CASE Relocate \/ ApplyPerms \/ Loaded \/ UNCHANGED vars
  <2>1. /\ sections' = sections /\ size' = size /\ base' = base
        /\ pointer' = pointer
    BY <1>5 DEF Relocate, ApplyPerms, Loaded, vars, sections
  <2>2. \/ stage' = stage /\ turn' = turn
        \/ /\ stage \in {"relocate", "perms"}
           /\ stage' \in {"relocate", "perms", "done", "failed"}
    BY <1>5 DEF Relocate, RelocateBlock, ApplyPerms, Loaded, vars, Go, NextTurn, In
  <2> QED BY <2>1, <2>2 DEF AllPlaced
<1> QED BY <1>1, <1>2, <1>3, <1>4, <1>5 DEF Next, Terminating

\* Whole pages hold the allocation.
LEMMA AllocationMapped ==
    ASSUME TypeOK, NEW a \in Int, base <= a, a < base + AllocationSize
    PROVE  a \in Mapped /\ a \div PageSize \in PagesAt(base)
<1>1. AllocationSize \in Int /\ base \in Nat
  BY AllocationType, LayoutAssumption DEF TypeOK
<1> DEFINE last == base + AllocationSize - 1
<1>2. last \in Nat /\ base <= a /\ a <= last
  BY <1>1
<1> HIDE DEF last
<1>3. ((last + PageSize) \div PageSize) * PageSize > last
  BY <1>2, RoundUp
<1>4. (last + PageSize) \div PageSize = last \div PageSize + 1
  BY <1>2, LayoutAssumption, SMTT(30)
<1>5. base \div PageSize <= a \div PageSize /\ a \div PageSize <= last \div PageSize
  BY <1>1, <1>2, LayoutAssumption, SMTT(30)
<1>6. /\ a \div PageSize \in Int /\ base \div PageSize \in Int
      /\ last \div PageSize \in Int
  BY <1>1, <1>2, LayoutAssumption, SMTT(30)
<1>7. a <= (last \div PageSize + 1) * PageSize - 1
  BY <1>2, <1>3, <1>4, <1>6, LayoutAssumption
<1>8. (last \div PageSize + 1) * PageSize - 1 \in Int
  BY <1>6, LayoutAssumption
<1>9. a \in Mapped
  BY <1>2, <1>7, <1>8 DEF Mapped, CellsAt, last
<1>10. a \div PageSize \in PagesAt(base)
  BY <1>5, <1>6 DEF PagesAt, last
<1> QED BY <1>9, <1>10

\* A cell of a section's place is mapped.
LEMMA SectionMapped ==
    ASSUME TypeOK, Extents, Fits, NEW i \in DOMAIN sections, size[i] # 0,
           NEW a \in SectionPointer(sections[i])
                     .. SectionPointer(sections[i]) + size[i] - 1
    PROVE  a \in Mapped /\ a \div PageSize \in PagesAt(base)
<1>1. /\ SectionPointer(sections[i]) \in Nat
      /\ SectionPointer(sections[i]) >= base
      /\ SectionPointer(sections[i]) + size[i] <= base + AllocationSize
  BY SectionInside
<1>2. size[i] \in Nat /\ base \in Nat /\ AllocationSize \in Int
  BY AllocationType, LayoutAssumption DEF TypeOK
<1>3. a \in Int /\ base <= a /\ a < base + AllocationSize
  BY <1>1, <1>2
<1> QED BY <1>3, AllocationMapped

\* The raw data of a section is read into its place.
LEMMA StaysPlace ==
    ASSUME TypeOK, Extents, Fits, Place
    PROVE  process' # "undefined"
<1> DEFINE section == sections[turn]
           target == SectionPointer(section)
           length == RawLength(section, size[turn])
<1> SUFFICES ASSUME process' = "undefined" PROVE FALSE
  OBVIOUS
<1>1. /\ turn \in DOMAIN sections
      /\ size[turn] # 0
      /\ ~(target .. target + length - 1 \subseteq Mapped)
  <2>1. process = "running"
    BY DEF Place, In
  <2>2. turn \in DOMAIN sections
    BY FileTypes DEF Place, TypeOK
  <2> HIDE DEF target, length
  <2>3. size[turn] # 0 /\ ReadRaw(section, target, length)
    BY <2>1 DEF Place, target, length
  <2> QED BY <2>1, <2>2, <2>3 DEF ReadRaw
<1>2. length \in Nat /\ length <= size[turn] /\ size[turn] \in Nat
  BY <1>1, SectionTypes, LayoutAssumption DEF RawLength, Smaller, TypeOK
<1>3. target \in Nat
  BY <1>1, SectionInside
<1> HIDE DEF target, length
<1>4. target .. target + length - 1 \subseteq target .. target + size[turn] - 1
  BY <1>2, <1>3
<1>5. target .. target + size[turn] - 1 \subseteq Mapped
  BY <1>1, SectionMapped DEF target
<1> QED BY <1>1, <1>4, <1>5

\* The cells a block names are cells of the section it starts in.
LEMMA StaysRelocate ==
    ASSUME TypeOK, Extents, AllPlaced, Fits, TargetsInSections, Relocate
    PROVE  process' # "undefined"
<1> DEFINE block == file.relocations[turn]
           i == ResolveRvaSection(block.rva)
<1> SUFFICES ASSUME process' = "undefined" PROVE FALSE
  OBVIOUS
<1>1. /\ stage = "relocate"
      /\ turn \in DOMAIN file.relocations
      /\ i # 0
      /\ LeavesMapping(block, i)
  BY FileTypes DEF Relocate, RelocateBlock, In, TypeOK
<1>2. PICK e \in DOMAIN block.entries :
             ResolveInSection(i, block.rva + block.entries[e].offset) \notin Mapped
  BY <1>1 DEF LeavesMapping
<1>3. /\ i \in DOMAIN sections
      /\ sections[i].virtualAddress <= block.rva
      /\ sections[i].virtualAddress + size[i] > block.rva
  BY <1>1, Resolves
<1>4. /\ block.rva \in Nat
      /\ block.entries[e].offset \in Nat
  <2>1. block \in BlockType
    BY <1>1, FileTypes
  <2> HIDE DEF block
  <2>2. /\ block.rva \in Nat
        /\ block.entries \in Seq([type : 0..15, offset : 0..PageSize-1])
    BY <2>1 DEF BlockType
  <2>3. ASSUME NEW S, NEW seq \in Seq(S), NEW k \in DOMAIN seq
        PROVE  seq[k] \in S
    BY <2>3
  <2>4. block.entries[e] \in [type : 0..15, offset : 0..PageSize-1]
    BY <1>2, <2>2, <2>3
  <2>5. block.entries[e].offset \in 0..PageSize-1
    BY <2>4
  <2> QED BY <2>2, <2>5, LayoutAssumption
<1>5. /\ sections[i].virtualAddress \in Nat /\ size[i] \in Nat /\ size[i] # 0
      /\ base \in Nat /\ start \in Nat
  BY <1>3, <1>4, SectionTypes, LayoutAssumption DEF TypeOK
<1>6. /\ size[i] = sections[i].virtualSize
      /\ pointer[i] = SectionPointer(sections[i])
  BY <1>1, <1>3, <1>5 DEF Extents, Measured, Anchored, AllPlaced, SectionPointer
<1> DEFINE target == block.rva + block.entries[e].offset
<1>7. block.rva \in Rvas(i)
  BY <1>3, <1>4, <1>5, <1>6 DEF Rvas
<1>8. target \in Rvas(i)
  BY <1>1, <1>2, <1>3, <1>7 DEF TargetsInSections
<1>9. ResolveInSection(i, target) \in SectionPointer(sections[i])
                                       .. SectionPointer(sections[i]) + size[i] - 1
  <2>1. SectionPointer(sections[i]) \in Nat
    BY <1>3, <1>5, SectionInside
  <2> HIDE DEF target, i
  <2> QED BY <1>5, <1>6, <1>8, <2>1 DEF ResolveInSection, Rvas
<1> QED BY <1>2, <1>3, <1>5, <1>9, SectionMapped

\* The pages of a section are pages of the mapping, so mprotect has them.
LEMMA StaysPerms ==
    ASSUME TypeOK, Extents, AllPlaced, Fits, ApplyPerms
    PROVE  process' # "undefined"
<1> DEFINE pages == Pages(pointer[turn], size[turn])
<1> SUFFICES ASSUME process' = "undefined" PROVE FALSE
  OBVIOUS
<1>1. /\ stage = "perms"
      /\ turn \in DOMAIN sections
      /\ ~(pages \subseteq DOMAIN protection)
  BY FileTypes DEF ApplyPerms, In, TypeOK
<1>2. DOMAIN protection = PagesAt(base)
  BY <1>1 DEF AllPlaced, TypeOK
<1>3. size[turn] # 0
  BY <1>1 DEF Pages
<1>4. pointer[turn] = SectionPointer(sections[turn])
  BY <1>1, <1>3 DEF Extents, Anchored, AllPlaced, SectionPointer
<1>5. /\ SectionPointer(sections[turn]) \in Nat
      /\ size[turn] \in Nat
  BY <1>1, <1>3, SectionInside, LayoutAssumption DEF TypeOK
<1> DEFINE from == SectionPointer(sections[turn])
           to   == from + size[turn] - 1
<1>6. from \in from..to /\ to \in from..to
  BY <1>3, <1>5
<1>7. from \div PageSize \in PagesAt(base) /\ to \div PageSize \in PagesAt(base)
  BY <1>1, <1>3, <1>6, SectionMapped
<1> HIDE DEF from
<1>8. from \div PageSize .. to \div PageSize \subseteq PagesAt(base)
  <2>1. ASSUME NEW lo \in Int, NEW hi \in Int, NEW m \in lo..hi, NEW n \in lo..hi
        PROVE  m..n \subseteq lo..hi
    BY <2>1
  <2>2. /\ base \div PageSize \in Int
        /\ (base + AllocationSize - 1) \div PageSize \in Int
    BY AllocationType, LayoutAssumption DEF TypeOK
  <2> QED BY <1>7, <2>1, <2>2 DEF PagesAt
<1>9. pages = from \div PageSize .. to \div PageSize
  BY <1>3, <1>4 DEF Pages, from
<1> QED BY <1>1, <1>2, <1>8, <1>9

\* Loading a file whose sections fit and whose relocations stay in their section
\* touches no memory outside the mapping.
THEOREM LoadingStaysInMapping == Spec => []StaysInMapping
<1> DEFINE IInv == TypeOK /\ Extents /\ AllPlaced /\ StaysInMapping
<1>1. Init => IInv
  BY LayoutTypeInit, ExtentsInit DEF Init, AllPlaced, StaysInMapping
<1>2. ASSUME IInv, [Next]_vars
      PROVE  IInv'
  <2>1. (TypeOK /\ Extents)'
    BY <1>2, TypeMeasure, TypeMap, TypePlace, TypeRelocate, TypeRest,
       ExtentsMeasure, ExtentsMap, ExtentsPlace, ExtentsRest
       DEF Next, Terminating
  <2>2. AllPlaced'
    BY <1>2, AllPlacedStep
  <2>3. file' = file
    BY <1>2 DEF Next, Measure, MapSegments, Place, Placed, Relocate, ApplyPerms,
       Loaded, Terminating, vars
  <2>4. (Fits' => Fits) /\ (TargetsInSections' => TargetsInSections)
    BY <2>3 DEF Fits, TargetsInSections, sections, Rvas
  <2>5. ASSUME Fits, TargetsInSections
        PROVE  process' # "undefined"
    <3>1. CASE Place
      BY <1>2, <2>5, <3>1, StaysPlace
    <3>2. CASE Relocate
      BY <1>2, <2>5, <3>2, StaysRelocate
    <3>3. CASE ApplyPerms
      BY <1>2, <2>5, <3>3, StaysPerms
    <3>4. CASE Measure \/ MapSegments \/ Placed \/ Loaded \/ UNCHANGED vars
      BY <1>2, <2>5, <3>4 DEF Measure, MapSegments, Placed, Loaded, vars,
         StaysInMapping
    <3> QED BY <1>2, <3>1, <3>2, <3>3, <3>4 DEF Next, Terminating
  <2> QED BY <2>1, <2>2, <2>4, <2>5 DEF StaysInMapping
<1>3. IInv => StaysInMapping
  OBVIOUS
<1> QED BY <1>1, <1>2, <1>3, PTL DEF Spec

-----------------------------------------------------------------------------
(* The permissions *)

\* The page of a cell: a page starts where it says, and cells in order lie in
\* pages in order.
LEMMA PageOrder ==
    ASSUME NEW a \in Nat, NEW b \in Nat
    PROVE  /\ a \div PageSize \in Nat
           /\ a <= b => a \div PageSize <= b \div PageSize
           /\ a < b /\ b % PageSize = 0 => a \div PageSize < b \div PageSize
<1>1. PageSize \in Nat \ {0}
  BY LayoutAssumption
<1>2. a \div PageSize \in Nat /\ b \div PageSize \in Nat
  BY <1>1, SMTT(30)
<1>3. a <= b => a \div PageSize <= b \div PageSize
  BY <1>1, SMTT(30)
<1>4. ASSUME a < b, b % PageSize = 0
      PROVE  a \div PageSize < b \div PageSize
  <2> DEFINE m == a \div PageSize
             n == b \div PageSize
  <2>1. m * PageSize <= a
    BY <1>1, SMTT(30)
  <2>2. b = n * PageSize
    BY <1>1, <1>4, SMTT(30)
  <2>3. a < (m + 1) * PageSize
    BY <1>1, SMTT(30)
  <2> HIDE DEF m, n
  <2>4. m \in Nat /\ n \in Nat
    BY <1>2 DEF m, n
  <2> SUFFICES ASSUME n <= m PROVE FALSE
    BY <2>4 DEF m, n
  <2>5. n * PageSize <= m * PageSize
    BY <1>1, <2>4, SMTT(30)
  <2>6. m * PageSize \in Nat /\ n * PageSize \in Nat
    BY <1>1, <2>4
  <2> QED BY <1>4, <2>1, <2>2, <2>5, <2>6
<1> QED BY <1>2, <1>3, <1>4

\* Sections that share no page share no cell.
LEMMA CellsApart ==
    ASSUME TypeOK, PagesDisjoint, NEW i \in DOMAIN sections,
           NEW j \in DOMAIN sections, i # j,
           sections[i].virtualSize # 0, sections[j].virtualSize # 0
    PROVE  \/ sections[i].virtualAddress + sections[i].virtualSize
                 <= sections[j].virtualAddress
           \/ sections[j].virtualAddress + sections[j].virtualSize
                 <= sections[i].virtualAddress
<1> DEFINE v == sections[i].virtualAddress
           w == sections[j].virtualAddress
           m == sections[i].virtualSize
           n == sections[j].virtualSize
<1>1. v \in Nat /\ w \in Nat /\ m \in Nat \ {0} /\ n \in Nat \ {0}
  BY SectionTypes, LayoutAssumption
<1>2. Pages(v, m) \cap Pages(w, n) = {}
  BY DEF PagesDisjoint
<1> HIDE DEF v, w, m, n
<1>3. ASSUME NEW c \in Nat, v <= c, c <= v + m - 1, w <= c, c <= w + n - 1
      PROVE  FALSE
  <2>1. v + m - 1 \in Nat /\ w + n - 1 \in Nat
    BY <1>1
  <2>2. /\ v \div PageSize <= c \div PageSize
        /\ c \div PageSize <= (v + m - 1) \div PageSize
        /\ w \div PageSize <= c \div PageSize
        /\ c \div PageSize <= (w + n - 1) \div PageSize
    BY <1>1, <1>3, <2>1, PageOrder
  <2>3. /\ v \div PageSize \in Nat /\ (v + m - 1) \div PageSize \in Nat
        /\ w \div PageSize \in Nat /\ (w + n - 1) \div PageSize \in Nat
        /\ c \div PageSize \in Nat
    BY <1>1, <1>3, <2>1, PageOrder
  <2>4. /\ c \div PageSize \in v \div PageSize .. (v + m - 1) \div PageSize
        /\ c \div PageSize \in w \div PageSize .. (w + n - 1) \div PageSize
    BY <2>2, <2>3
  <2>5. c \div PageSize \in Pages(v, m) \cap Pages(w, n)
    BY <1>1, <2>4 DEF Pages
  <2> QED BY <1>2, <2>5
<1>4. v + m <= w \/ w + n <= v
  BY <1>1, <1>3
<1> QED BY <1>4 DEF v, w, m, n

\* Two ranges of cells that start at a page and lie apart share no page.
LEMMA PagesApart ==
    ASSUME NEW a \in Nat, NEW b \in Nat, NEW m \in Nat \ {0}, NEW n \in Nat \ {0},
           a % PageSize = 0, b % PageSize = 0, a + m <= b \/ b + n <= a
    PROVE  Pages(a, m) \cap Pages(b, n) = {}
<1>1. /\ a + m - 1 \in Nat /\ b + n - 1 \in Nat
      /\ a + m - 1 < b \/ b + n - 1 < a
  OBVIOUS
<1>2. \/ (a + m - 1) \div PageSize < b \div PageSize
      \/ (b + n - 1) \div PageSize < a \div PageSize
  BY <1>1, PageOrder
<1>3. /\ a \div PageSize \in Nat /\ (a + m - 1) \div PageSize \in Nat
      /\ b \div PageSize \in Nat /\ (b + n - 1) \div PageSize \in Nat
  BY <1>1, PageOrder
<1>4. /\ Pages(a, m) = a \div PageSize .. (a + m - 1) \div PageSize
      /\ Pages(b, n) = b \div PageSize .. (b + n - 1) \div PageSize
  BY DEF Pages
<1> QED
  <2> DEFINE a1 == a \div PageSize
             a2 == (a + m - 1) \div PageSize
             b1 == b \div PageSize
             b2 == (b + n - 1) \div PageSize
  <2>1. /\ a1 \in Nat /\ a2 \in Nat /\ b1 \in Nat /\ b2 \in Nat
        /\ a2 < b1 \/ b2 < a1
        /\ Pages(a, m) = a1..a2 /\ Pages(b, n) = b1..b2
    BY <1>2, <1>3, <1>4
  <2> HIDE DEF a1, a2, b1, b2
  <2> QED BY <2>1

\* The third loop has protected every section before its turn.
Protected(i) ==
    size[i] # 0 =>
       /\ pointer[i] % PageSize = 0
       /\ Pages(pointer[i], size[i]) \subseteq DOMAIN protection
       /\ \A p \in Pages(pointer[i], size[i]) : protection[p] = sections[i].perms

PermsSoFar ==
    PagesDisjoint =>
       \A i \in DOMAIN sections :
          (stage = "perms" /\ i < turn) \/ stage = "done" => Protected(i)

\* A section that is protected takes no page from one before it.
LEMMA PermsStep ==
    ASSUME TypeOK, Extents, AllPlaced, PermsSoFar, ApplyPerms
    PROVE  PermsSoFar'
<1>1. /\ stage = "perms" /\ turn \in DOMAIN sections
      /\ sections' = sections /\ size' = size /\ pointer' = pointer
  BY FileTypes DEF ApplyPerms, In, TypeOK, sections
<1>2. CASE stage' = "perms" /\ turn' = turn /\ protection' = protection
  BY <1>1, <1>2 DEF PermsSoFar, PagesDisjoint, Protected
<1>3. CASE stage' = "failed"
  BY <1>3 DEF PermsSoFar
<1>4. CASE /\ stage' = "perms" /\ turn' = turn + 1
           /\ pointer[turn] % PageSize = 0
           /\ Pages(pointer[turn], size[turn]) \subseteq DOMAIN protection
           /\ Protect(Pages(pointer[turn], size[turn]), sections[turn].perms)
  <2> DEFINE pages == Pages(pointer[turn], size[turn])
  <2>1. protection' = [p \in DOMAIN protection |->
                         IF p \in pages THEN sections[turn].perms
                         ELSE protection[p]]
    BY <1>4 DEF Protect
  <2> SUFFICES ASSUME PagesDisjoint, NEW i \in DOMAIN sections, i < turn + 1
               PROVE  Protected(i)'
    BY <1>1, <1>4 DEF PermsSoFar, PagesDisjoint
  <2>2. CASE i = turn
    BY <1>1, <1>4, <2>1, <2>2 DEF Protected
  <2>3. CASE i # turn
    <3> SUFFICES ASSUME size[i] # 0 PROVE Protected(i)'
      BY <1>1 DEF Protected
    <3>1. i \in Nat /\ turn \in Nat
      BY FileTypes DEF TypeOK
    <3>2. Protected(i)
      BY <1>1, <2>3, <3>1 DEF PermsSoFar
    <3>3. Pages(pointer[i], size[i]) \cap pages = {}
      <4>1. CASE size[turn] = 0
        BY <4>1 DEF Pages
      <4>2. CASE size[turn] # 0
        <5>1. /\ size[i] = sections[i].virtualSize
              /\ size[turn] = sections[turn].virtualSize
              /\ pointer[i] = base + (sections[i].virtualAddress - start)
              /\ pointer[turn] = base + (sections[turn].virtualAddress - start)
          BY <1>1, <4>2 DEF Extents, Measured, Anchored, AllPlaced
        <5>2. /\ pointer[i] \in Nat /\ pointer[turn] \in Nat
              /\ size[i] \in Nat \ {0} /\ size[turn] \in Nat \ {0}
              /\ base \in Int /\ start \in Int
              /\ sections[i].virtualAddress \in Int
              /\ sections[turn].virtualAddress \in Int
          BY <1>1, <4>2, SectionTypes, LayoutAssumption DEF TypeOK
        <5>3. \/ sections[i].virtualAddress + size[i]
                    <= sections[turn].virtualAddress
              \/ sections[turn].virtualAddress + size[turn]
                    <= sections[i].virtualAddress
          BY <1>1, <2>3, <4>2, <5>1, CellsApart
        <5>4. \/ pointer[i] + size[i] <= pointer[turn]
              \/ pointer[turn] + size[turn] <= pointer[i]
          BY <5>1, <5>2, <5>3
        <5> QED BY <1>4, <3>2, <5>2, <5>4, PagesApart DEF Protected
      <4> QED BY <4>1, <4>2
    <3> QED BY <1>1, <2>1, <3>2, <3>3 DEF Protected
  <2> QED BY <2>2, <2>3
<1> QED BY <1>1, <1>2, <1>3, <1>4 DEF ApplyPerms, Go, NextTurn

\* The other steps protect nothing.
LEMMA PermsRest ==
    ASSUME TypeOK, PermsSoFar, [Next]_vars, ~ApplyPerms
    PROVE  PermsSoFar'
<1>1. CASE Measure \/ MapSegments \/ Place \/ Placed
  <2>1. stage' \notin {"perms", "done"}
    BY <1>1 DEF Measure, MapSegments, Place, ReadRaw, Placed, In, Go, NextTurn
  <2> QED BY <2>1 DEF PermsSoFar
<1>2. CASE Relocate
  <2>1. stage' = "perms" => turn' = 1
    BY <1>2 DEF Relocate, RelocateBlock, In, Go, NextTurn
  <2>2. stage' # "done" /\ sections' = sections
    BY <1>2 DEF Relocate, RelocateBlock, In, Go, NextTurn, sections
  <2>3. \A i \in DOMAIN sections : ~(i < 1)
    BY FileTypes
  <2> QED BY <2>1, <2>2, <2>3 DEF PermsSoFar
<1>3. CASE Loaded
  <2>1. /\ stage = "perms" /\ turn > Len(sections)
        /\ sections' = sections /\ size' = size /\ pointer' = pointer
        /\ protection' = protection
    BY <1>3 DEF Loaded, In, sections
  <2>2. \A i \in DOMAIN sections : i < turn
    BY <2>1, FileTypes DEF TypeOK
  <2> QED BY <2>1, <2>2 DEF PermsSoFar, PagesDisjoint, Protected
<1>4. CASE UNCHANGED vars
  BY <1>4 DEF PermsSoFar, PagesDisjoint, Protected, vars, sections
<1> QED BY <1>1, <1>2, <1>3, <1>4 DEF Next, Terminating

\* Whatever permissions the loader needed to write, and in whatever order the
\* sections come: each page of a loaded image has those its section asks for.
THEOREM LoadedAsAsked == Spec => []PermsAsAsked
<1> DEFINE IInv == TypeOK /\ Extents /\ AllPlaced /\ PermsSoFar
<1>1. Init => IInv
  BY LayoutTypeInit, ExtentsInit DEF Init, AllPlaced, PermsSoFar
<1>2. IInv /\ [Next]_vars => IInv'
  <2> SUFFICES ASSUME IInv, [Next]_vars PROVE IInv'
    OBVIOUS
  <2>1. (TypeOK /\ Extents)'
    BY TypeMeasure, TypeMap, TypePlace, TypeRelocate, TypeRest,
       ExtentsMeasure, ExtentsMap, ExtentsPlace, ExtentsRest
       DEF Next, Terminating
  <2> QED BY <2>1, AllPlacedStep, PermsStep, PermsRest
<1>3. IInv => PermsAsAsked
  BY DEF PermsSoFar, Protected, PermsAsAsked, Pages
<1> QED BY <1>1, <1>2, <1>3, PTL DEF Spec

-----------------------------------------------------------------------------
(* The image *)

\* The entries of one block that name an RVA.
NamedIn(b, rva) ==
    LET block == file.relocations[b] IN
    {e \in DOMAIN block.entries :
        block.entries[e].type = 10 /\ block.rva + block.entries[e].offset = rva}

\* What the file says of a cell before the relocations.
Raw(i, k) ==
    IF sections[i].raw /\ k < sections[i].rawSize THEN Word(sections[i], k) ELSE 0

\* The first loop has measured the sections before its turn and no other.
AllMeasured ==
    \A i \in DOMAIN sections :
       size[i] = IF stage = "measure" /\ i >= turn THEN 0
                 ELSE sections[i].virtualSize

\* The blocks before the turn are in the table, and none of them ends it.
BlocksInTurn ==
    stage = "relocate" =>
       \A c \in 1..turn-1 : /\ c \in DOMAIN file.relocations
                            /\ file.relocations[c].rva # 0

NamingFinite ==
    stage = "relocate" => \A rva \in Int : IsFiniteSet(EntriesNaming(rva))

\* The second loop fills a section without touching those that follow, and each
\* block moves the cells it names.
Filled ==
    Fits /\ Disjoint /\ process = "running" =>
       \A i \in DOMAIN sections : \A k \in 0..sections[i].virtualSize-1 :
          LET cell == SectionPointer(sections[i]) + k IN
          cell \in Mapped =>
             /\ stage = "place" => memory[cell] = IF i < turn THEN Raw(i, k) ELSE 0
             /\ stage \in {"relocate", "perms", "done"} =>
                   memory[cell] = CellOfImage(i, k)

ImageInv == AllMeasured /\ BlocksInTurn /\ NamingFinite /\ Filled

\* Two sections that are disjoint follow each other.
LEMMA SectionsApart ==
    ASSUME TypeOK, Disjoint, NEW i \in DOMAIN sections,
           NEW j \in DOMAIN sections, i # j,
           sections[i].virtualSize # 0, sections[j].virtualSize # 0
    PROVE  \/ sections[i].virtualAddress + sections[i].virtualSize
                 <= sections[j].virtualAddress
           \/ sections[j].virtualAddress + sections[j].virtualSize
                 <= sections[i].virtualAddress
<1> DEFINE v == sections[i].virtualAddress
           w == sections[j].virtualAddress
           m == sections[i].virtualSize
           n == sections[j].virtualSize
<1>1. v \in Nat /\ w \in Nat /\ m \in Nat \ {0} /\ n \in Nat \ {0}
  BY SectionTypes, LayoutAssumption
<1>2. (v .. v + m - 1) \cap (w .. w + n - 1) = {}
  BY DEF Disjoint, Rvas
<1> HIDE DEF v, w, m, n
<1>3. v \notin w .. w + n - 1 \/ w \notin v .. v + m - 1
  BY <1>1, <1>2
<1>4. v \in v .. v + m - 1 /\ w \in w .. w + n - 1
  BY <1>1
<1>5. v \notin w .. w + n - 1 /\ w \notin v .. v + m - 1
  BY <1>2, <1>4
<1>6. v + m <= w \/ w + n <= v
  BY <1>1, <1>5
<1> QED BY <1>6 DEF v, w, m, n

\* An RVA of a section resolves to that section.
LEMMA ResolvesTo ==
    ASSUME TypeOK, AllMeasured, stage # "measure", Disjoint,
           NEW i \in DOMAIN sections, NEW rva \in Rvas(i)
    PROVE  ResolveRvaSection(rva) = i
<1> DEFINE S == {j \in DOMAIN sections :
                    /\ sections[j].virtualAddress <= rva
                    /\ sections[j].virtualAddress + size[j] > rva}
<1>1. \A j \in DOMAIN sections : /\ size[j] = sections[j].virtualSize
                                 /\ sections[j].virtualAddress \in Nat
                                 /\ sections[j].virtualSize \in Nat
  BY SectionTypes, LayoutAssumption DEF AllMeasured
<1>2. rva \in Int
  BY <1>1 DEF Rvas
<1>3. \A j \in DOMAIN sections : j \in S <=> rva \in Rvas(j)
  BY <1>1, <1>2 DEF Rvas
<1>4. S = {i}
  BY <1>3 DEF Disjoint
<1>5. ResolveRvaSection(rva) = CHOOSE x \in {i} : \A y \in {i} : x <= y
  BY <1>4 DEF ResolveRvaSection
<1>6. i <= i
  BY FileTypes
<1> QED BY <1>5, <1>6

\* A block that is processed adds its own entries to those before.
LEMMA OneMoreBlock ==
    ASSUME TypeOK, NamingFinite, stage = "relocate", stage' = "relocate",
           turn' = turn + 1, file' = file, turn \in DOMAIN file.relocations,
           NEW rva \in Int
    PROVE  /\ IsFiniteSet(EntriesNaming(rva)')
           /\ Cardinality(EntriesNaming(rva)') =
                 Cardinality(EntriesNaming(rva)) + Cardinality(NamedIn(turn, rva))
<1> DEFINE old == EntriesNaming(rva)
           new == {turn} \X NamedIn(turn, rva)
<1>0. turn \in Nat \ {0}
  BY DEF TypeOK
<1>1. old = UNION {{b} \X NamedIn(b, rva) : b \in 1..turn-1}
  BY DEF EntriesNaming, BlocksDone, NamedIn
<1>2. EntriesNaming(rva)' = UNION {{b} \X NamedIn(b, rva) : b \in 1..turn}
  <2>1. EntriesNaming(rva)' =
           UNION {{b} \X NamedIn(b, rva) : b \in 1..(turn + 1)-1}
    BY DEF EntriesNaming, BlocksDone, NamedIn
  <2>2. (turn + 1) - 1 = turn
    BY <1>0
  <2> QED BY <2>1, <2>2
<1>3. EntriesNaming(rva)' = old \cup new /\ old \cap new = {}
  <2>1. 1..turn = (1..turn-1) \cup {turn} /\ turn \notin 1..turn-1
    BY <1>0
  <2> HIDE DEF old
  <2> QED BY <1>1, <1>2, <2>1
<1>4. IsFiniteSet(old)
  BY DEF NamingFinite
<1>5. IsFiniteSet(NamedIn(turn, rva))
  <2>1. turn \in 1..Len(file.relocations) /\ file.relocations \in Seq(BlockType)
    BY FileTypes
  <2>2. file.relocations[turn] \in BlockType
    BY <2>1
  <2>3. file.relocations[turn].entries
           \in Seq([type : 0..15, offset : 0..PageSize-1])
    BY <2>2 DEF BlockType
  <2>4. IsFiniteSet(DOMAIN file.relocations[turn].entries)
    BY <2>3, FS_Interval
  <2>5. NamedIn(turn, rva) \subseteq DOMAIN file.relocations[turn].entries
    BY DEF NamedIn
  <2> QED BY <2>4, <2>5, FS_Subset
<1>6. /\ IsFiniteSet(new)
      /\ Cardinality(new) = Cardinality(NamedIn(turn, rva))
  <2>1. IsFiniteSet({turn}) /\ Cardinality({turn}) = 1
    BY FS_Singleton
  <2>2. Cardinality(NamedIn(turn, rva)) \in Nat
    BY <1>5, FS_CardinalityType
  <2>3. /\ IsFiniteSet(new)
        /\ Cardinality(new) = 1 * Cardinality(NamedIn(turn, rva))
    BY <1>5, <2>1, FS_Product
  <2> QED BY <2>2, <2>3
<1> HIDE DEF old, new
<1>7. /\ IsFiniteSet(old \cup new)
      /\ Cardinality(old \cup new) =
            Cardinality(old) + Cardinality(new) - Cardinality(old \cap new)
  BY <1>4, <1>6, FS_Union
<1>8. Cardinality(old \cap new) = 0
  BY <1>3, FS_EmptySet
<1>9. Cardinality(old) \in Nat /\ Cardinality(new) \in Nat
  BY <1>4, <1>6, FS_CardinalityType
<1> QED BY <1>3, <1>6, <1>7, <1>8, <1>9 DEF old

\* Before mmap there is nothing; the mapping comes zeroed.
LEMMA ImageBefore ==
    ASSUME TypeOK, ImageInv, Measure \/ MapSegments
    PROVE  ImageInv'
<1>1. CASE Measure
  <2>1. /\ stage = "measure" /\ stage' = "measure" /\ turn' = turn + 1
        /\ sections' = sections /\ turn \in DOMAIN sections
        /\ DOMAIN sections = 1..Len(sections)
    BY <1>1, FileTypes DEF Measure, In, NextTurn, TypeOK, sections
  <2>2. size'[turn] = sections[turn].virtualSize
    <3>1. CASE sections[turn].virtualSize = 0
      <4>1. size' = size /\ turn >= turn
        BY <1>1, <3>1 DEF Measure, TypeOK
      <4> QED BY <2>1, <3>1, <4>1 DEF ImageInv, AllMeasured
    <3>2. CASE sections[turn].virtualSize # 0
      BY <1>1, <2>1, <3>2 DEF Measure, TypeOK
    <3> QED BY <3>1, <3>2
  <2>3. \A i \in DOMAIN sections : i # turn => size'[i] = size[i]
    BY <1>1, <2>1 DEF Measure, TypeOK
  <2>4. \A i \in DOMAIN sections : /\ i >= turn + 1 => i >= turn /\ i # turn
                                   /\ i >= turn /\ i # turn => i >= turn + 1
    BY <2>1 DEF TypeOK
  <2>5. AllMeasured'
    <3> SUFFICES ASSUME NEW i \in DOMAIN sections
                 PROVE  size'[i] = IF i >= turn + 1 THEN 0
                                   ELSE sections[i].virtualSize
      BY <2>1 DEF AllMeasured
    <3>1. CASE i = turn
      <4>1. ~(turn >= turn + 1)
        BY DEF TypeOK
      <4> QED BY <2>2, <3>1, <4>1
    <3>2. CASE i # turn
      BY <2>1, <2>3, <2>4, <3>2 DEF ImageInv, AllMeasured
    <3> QED BY <3>1, <3>2
  <2> QED BY <2>1, <2>5 DEF ImageInv, BlocksInTurn, NamingFinite, Filled
<1>2. CASE MapSegments
  <2>1. /\ stage = "measure" /\ turn > Len(sections) /\ stage' \in {"failed", "place"}
        /\ sections' = sections /\ size' = size /\ turn' = 1
    BY <1>2 DEF MapSegments, In, Go, sections
  <2>2. AllMeasured'
    <3>1. \A i \in DOMAIN sections : ~(i >= turn)
      BY <2>1, FileTypes DEF TypeOK
    <3> QED BY <2>1, <3>1 DEF ImageInv, AllMeasured
  <2>3. Filled'
    <3>1. CASE stage' = "failed"
      BY <3>1 DEF Filled
    <3>2. CASE stage' = "place"
      <4>1. memory' = [a \in Mapped' |-> 0]
        BY <1>2, <3>2 DEF MapSegments, Go, Mapped, CellsAt, AllocationSize
      <4>2. \A i \in DOMAIN sections : ~(i < 1)
        BY FileTypes
      <4> QED BY <2>1, <3>2, <4>1, <4>2 DEF Filled
    <3> QED BY <2>1, <3>1, <3>2
  <2> QED BY <2>1, <2>2, <2>3 DEF ImageInv, BlocksInTurn, NamingFinite
<1> QED BY <1>1, <1>2

\* What a turn of the second loop stores lies in its section.
LEMMA ImagePlace ==
    ASSUME TypeOK, Extents, ImageInv, Place
    PROVE  ImageInv'
<1>1. /\ stage = "place" /\ turn \in DOMAIN sections
      /\ sections' = sections /\ file' = file /\ size' = size /\ base' = base
      /\ start' = start /\ end' = end
      /\ stage' \in {"place", "failed"}
  BY FileTypes DEF Place, In, ReadRaw, Go, NextTurn, TypeOK, sections
<1>2. Mapped' = Mapped /\ Mapped \subseteq Int
  BY <1>1, SameMapping DEF Mapped, CellsAt
<1>3. AllMeasured' /\ BlocksInTurn' /\ NamingFinite'
  BY <1>1 DEF ImageInv, AllMeasured, BlocksInTurn, NamingFinite
<1>4. Filled'
  <2> SUFFICES ASSUME Fits, Disjoint, process' = "running", stage' = "place",
                      NEW i \in DOMAIN sections,
                      NEW k \in 0..sections[i].virtualSize-1,
                      SectionPointer(sections[i]) + k \in Mapped
               PROVE  memory'[SectionPointer(sections[i]) + k] =
                         IF i < turn' THEN Raw(i, k) ELSE 0
    BY <1>1, <1>2 DEF Filled, Fits, Disjoint, Rvas, SectionPointer, Raw, Word
  <2> DEFINE section == sections[turn]
             target  == SectionPointer(section)
             length  == RawLength(section, size[turn])
             cell    == SectionPointer(sections[i]) + k
  <2>1. memory[cell] = IF i < turn THEN Raw(i, k) ELSE 0
    BY <1>1 DEF ImageInv, Filled, Place, In
  <2>2. /\ \A j \in DOMAIN sections : /\ size[j] = sections[j].virtualSize
                                      /\ sections[j].virtualAddress \in Int
                                      /\ sections[j].virtualSize \in Nat
                                      /\ sections[j].rawSize \in Nat
        /\ base \in Int /\ start \in Int
        /\ i \in Int /\ turn \in Int
    <3>1. \A j \in DOMAIN sections : size[j] = sections[j].virtualSize
      BY <1>1 DEF ImageInv, AllMeasured
    <3>2. base \in Int /\ start \in Int
      BY LayoutAssumption DEF TypeOK
    <3>3. i \in Int /\ turn \in Int
      BY FileTypes DEF TypeOK
    <3>4. \A j \in DOMAIN sections : /\ sections[j].virtualAddress \in Int
                                     /\ sections[j].virtualSize \in Nat
                                     /\ sections[j].rawSize \in Nat
      BY SectionTypes, LayoutAssumption
    <3> QED BY <3>1, <3>2, <3>3, <3>4
  <2>3. k \in Nat /\ k < sections[i].virtualSize
    BY <2>2
  <2>4. target \in Int /\ cell = target
           + (sections[i].virtualAddress - section.virtualAddress) + k
    BY <1>1, <2>2, <2>3 DEF SectionPointer
  <2>5. length \in Nat /\ length <= section.virtualSize
        /\ length = IF section.rawSize > section.virtualSize
                    THEN section.virtualSize ELSE section.rawSize
    BY <1>1, <2>2 DEF RawLength, Smaller
  <2>6. \/ turn' = turn /\ FALSE
        \/ turn' = turn + 1
    BY <1>1, <2>2 DEF Place, ReadRaw, Go, NextTurn
  <2>7. \/ memory' = memory /\ (size[turn] = 0 \/ ~section.raw)
        \/ /\ section.raw
           /\ memory' = [a \in Mapped |->
                           IF a \in target .. target + length - 1
                           THEN Word(section, a - target) ELSE memory[a]]
    BY DEF Place, ReadRaw, Go, NextTurn
  <2>8. CASE i = turn
    <3>1. cell = target + k /\ section.virtualSize # 0
      BY <2>2, <2>3, <2>4, <2>8
    <3>2. CASE memory' = memory /\ ~section.raw
      BY <2>1, <2>2, <2>6, <2>8, <3>2 DEF Raw
    <3>3. CASE /\ section.raw
               /\ memory' = [a \in Mapped |->
                               IF a \in target .. target + length - 1
                               THEN Word(section, a - target) ELSE memory[a]]
      <4>1. cell \in target .. target + length - 1 <=> k < section.rawSize
        <5> HIDE DEF target, length, cell
        <5> QED BY <1>1, <2>2, <2>3, <2>4, <2>5, <2>8, <3>1
      <4>2. cell - target = k
        <5> HIDE DEF target, cell
        <5> QED BY <2>3, <2>4, <3>1
      <4>3. memory'[cell] = IF k < section.rawSize THEN Word(section, k)
                            ELSE memory[cell]
        <5> HIDE DEF target, length
        <5> QED BY <3>3, <4>1, <4>2
      <4> QED BY <2>1, <2>2, <2>6, <2>8, <3>3, <4>3 DEF Raw
    <3> QED BY <1>1, <2>2, <2>7, <3>1, <3>2, <3>3
  <2>9. CASE i # turn
    <3>1. memory'[cell] = memory[cell]
      <4>1. CASE memory' = memory
        BY <4>1
      <4>2. CASE memory' = [a \in Mapped |->
                              IF a \in target .. target + length - 1
                              THEN Word(section, a - target) ELSE memory[a]]
        <5>1. cell \notin target .. target + length - 1
          <6>1. CASE section.virtualSize = 0
            <7> HIDE DEF target, length, cell
            <7> QED BY <1>1, <2>2, <2>4, <2>5, <6>1
          <6>2. CASE section.virtualSize # 0
            <7>1. \/ sections[i].virtualAddress + sections[i].virtualSize
                        <= section.virtualAddress
                  \/ section.virtualAddress + section.virtualSize
                        <= sections[i].virtualAddress
              BY <1>1, <2>2, <2>3, <2>9, <6>2, SectionsApart
            <7> HIDE DEF target, length, cell
            <7> QED BY <1>1, <2>2, <2>3, <2>4, <2>5, <7>1
          <6> QED BY <6>1, <6>2
        <5> HIDE DEF target, length
        <5> QED BY <4>2, <5>1
      <4> QED BY <2>7, <4>1, <4>2
    <3> QED BY <2>1, <2>2, <2>6, <2>9, <3>1
  <2> QED BY <2>8, <2>9
<1> QED BY <1>3, <1>4 DEF ImageInv
\* A cell of the file is a number.
LEMMA RawType ==
    ASSUME TypeOK, NEW i \in DOMAIN sections, NEW k \in Int
    PROVE  Raw(i, k) \in Int
<1>1. sections[i].virtualAddress \in Int /\ file.imageBase \in Int
  BY FileTypes, SectionTypes, LayoutAssumption
<1> QED BY <1>1 DEF Raw, Word

\* Before the first block nothing has moved.
LEMMA ImagePlaced ==
    ASSUME TypeOK, ImageInv, Placed
    PROVE  ImageInv'
<1>1. /\ stage = "place" /\ stage' = "relocate" /\ turn' = 1
      /\ turn > Len(sections) /\ process = "running"
      /\ sections' = sections /\ file' = file /\ size' = size /\ base' = base
      /\ start' = start /\ end' = end /\ memory' = memory
  BY DEF Placed, In, Go, sections
<1>2. AllMeasured'
  BY <1>1 DEF ImageInv, AllMeasured
<1>3. 1..turn'-1 = {}
  BY <1>1
<1>4. BlocksInTurn'
  BY <1>3 DEF BlocksInTurn
<1>5. \A rva : EntriesNaming(rva)' = {}
  BY <1>1, <1>3 DEF EntriesNaming, BlocksDone
<1>6. NamingFinite'
  BY <1>5, FS_EmptySet DEF NamingFinite
<1>7. Filled'
  <2> SUFFICES ASSUME Fits, Disjoint,
                      NEW i \in DOMAIN sections,
                      NEW k \in 0..sections[i].virtualSize-1,
                      SectionPointer(sections[i]) + k \in Mapped
               PROVE  memory[SectionPointer(sections[i]) + k]
                         = CellOfImage(i, k)'
    BY <1>1, SameMapping
       DEF Filled, Fits, Disjoint, Rvas, SectionPointer
  <2>1. i < turn /\ k \in Int
    BY <1>1, FileTypes DEF TypeOK
  <2>2. memory[SectionPointer(sections[i]) + k] = Raw(i, k)
    BY <1>1, <2>1 DEF ImageInv, Filled
  <2>3. CellOfImage(i, k)' = Raw(i, k) + (base - start - file.imageBase) * 0
    BY <1>1, <1>5, FS_EmptySet DEF CellOfImage, Raw, Word
  <2>4. Raw(i, k) \in Int
    BY <2>1, RawType
  <2>5. base - start - file.imageBase \in Int
    BY FileTypes, LayoutAssumption DEF TypeOK
  <2> QED BY <2>2, <2>3, <2>4, <2>5
<1> QED BY <1>2, <1>4, <1>6, <1>7 DEF ImageInv

\* An element of a sequence.
LEMMA Element ==
    ASSUME NEW S, NEW q \in Seq(S), NEW e \in DOMAIN q
    PROVE  q[e] \in S
OBVIOUS

\* A block moves a cell once for each of its entries that names it.
LEMMA BlockMoves ==
    ASSUME TypeOK, Extents, AllPlaced, stage = "relocate",
           turn \in DOMAIN file.relocations,
           ResolveRvaSection(file.relocations[turn].rva) # 0,
           NEW rva \in Int
    PROVE  LET block == file.relocations[turn]
               s == ResolveRvaSection(block.rva)
           IN /\ SectionOffset(s) = base - start - file.imageBase
              /\ Naming(block, s, base + (rva - start)) = NamedIn(turn, rva)
<1> DEFINE block == file.relocations[turn]
           s == ResolveRvaSection(block.rva)
<1>1. s \in DOMAIN sections /\ size[s] # 0
  <2>1. /\ s \in DOMAIN sections
        /\ sections[s].virtualAddress <= block.rva
        /\ sections[s].virtualAddress + size[s] > block.rva
    BY Resolves
  <2>2. block.rva \in Int
    <3>1. turn \in 1..Len(file.relocations) /\ file.relocations \in Seq(BlockType)
      BY FileTypes
    <3>2. block \in BlockType
      BY <3>1
    <3> HIDE DEF block
    <3> QED BY <3>2, LayoutAssumption DEF BlockType
  <2>3. sections[s].virtualAddress \in Int
    BY <2>1, SectionTypes, LayoutAssumption
  <2> HIDE DEF block, s
  <2> QED BY <2>1, <2>2, <2>3
<1>2. /\ pointer[s] = base + (sections[s].virtualAddress - start)
      /\ sections[s].virtualAddress \in Int
      /\ base \in Int /\ start \in Int /\ file.imageBase \in Int
  <2>1. pointer[s] # 0
    BY <1>1 DEF AllPlaced
  <2>2. sections[s].virtualAddress \in Int
    BY <1>1, SectionTypes, LayoutAssumption
  <2> HIDE DEF s
  <2> QED BY <1>1, <2>1, <2>2, FileTypes, LayoutAssumption
          DEF Extents, Anchored, TypeOK
<1>3. \A e \in DOMAIN block.entries : block.rva + block.entries[e].offset \in Int
  <2>1. turn \in 1..Len(file.relocations) /\ file.relocations \in Seq(BlockType)
    BY FileTypes
  <2>2. block \in BlockType
    BY <2>1
  <2> HIDE DEF block
  <2>3. block.rva \in Int
    BY <2>2, LayoutAssumption DEF BlockType
  <2> SUFFICES ASSUME NEW e \in DOMAIN block.entries
               PROVE  block.entries[e].offset \in Int
    BY <2>3
  <2>4. block.entries \in Seq([type : 0..15, offset : 0..PageSize-1])
    BY <2>2 DEF BlockType
  <2>5. block.entries[e] \in [type : 0..15, offset : 0..PageSize-1]
    BY <2>4, Element
  <2>6. block.entries[e].offset \in 0..PageSize-1
    BY <2>5
  <2> QED BY <2>6, LayoutAssumption
<1> HIDE DEF s
<1>4. \A r \in Int : ResolveInSection(s, r) = base + (r - start)
  BY <1>2 DEF ResolveInSection
<1>5. \A r \in Int : base + (r - start) = base + (rva - start) <=> r = rva
  BY <1>2
<1>6. \A e \in DOMAIN block.entries :
         ResolveInSection(s, block.rva + block.entries[e].offset)
             = base + (rva - start)
         <=> block.rva + block.entries[e].offset = rva
  <2> HIDE DEF block
  <2> QED BY <1>3, <1>4, <1>5
<1>7. Naming(block, s, base + (rva - start)) = NamedIn(turn, rva)
  BY <1>6 DEF Naming, NamedIn
<1>8. SectionOffset(s) = base - start - file.imageBase
  BY <1>2 DEF SectionOffset
<1> QED BY <1>7, <1>8 DEF s

\* Each block moves the cells it names; at the end of the table all have moved.
LEMMA ImageRelocate ==
    ASSUME TypeOK, Extents, AllPlaced, ImageInv, Relocate
    PROVE  ImageInv'
<1>1. /\ stage = "relocate" /\ process = "running"
      /\ sections' = sections /\ file' = file /\ size' = size /\ base' = base
      /\ start' = start /\ end' = end
      /\ stage' \in {"relocate", "perms", "failed"}
  BY DEF Relocate, RelocateBlock, In, Go, NextTurn, sections
<1>2. AllMeasured'
  BY <1>1 DEF ImageInv, AllMeasured
<1>3. Mapped' = Mapped
  BY <1>1, SameMapping
<1>4. CASE stage' = "failed" \/ process' # "running"
  <2>1. stage' = "failed" \/ (stage' = "relocate" /\ turn' = turn)
    BY <1>1, <1>4 DEF Relocate, RelocateBlock, Go, NextTurn
  <2>2. Filled'
    BY <1>4 DEF Filled
  <2>3. BlocksInTurn'
    BY <1>1, <2>1 DEF ImageInv, BlocksInTurn
  <2>4. NamingFinite'
    BY <1>1, <2>1 DEF ImageInv, NamingFinite, EntriesNaming, BlocksDone
  <2> QED BY <1>2, <2>2, <2>3, <2>4 DEF ImageInv
<1>5. CASE stage' = "perms"
  <2>1. /\ memory' = memory
        /\ ~(turn <= Len(file.relocations) /\ file.relocations[turn].rva # 0)
    BY <1>5, <1>1 DEF Relocate, RelocateBlock, Go, NextTurn
  <2>2. BlocksDone' = BlocksDone
    <3>1. BlocksDone = 1..turn-1
      BY <1>1 DEF BlocksDone
    <3>2. BlocksDone' = {b \in DOMAIN file.relocations :
                           \A c \in 1..b : file.relocations[c].rva # 0}
      BY <1>1, <1>5 DEF BlocksDone
    <3>3. \A c \in 1..turn-1 : /\ c \in DOMAIN file.relocations
                               /\ file.relocations[c].rva # 0
      BY <1>1 DEF ImageInv, BlocksInTurn
    <3>4. turn \in Nat \ {0} /\ DOMAIN file.relocations = 1..Len(file.relocations)
          /\ Len(file.relocations) \in Nat
      BY FileTypes DEF TypeOK
    <3>5. ASSUME NEW b \in 1..turn-1
          PROVE  b \in BlocksDone'
      <4>1. \A c \in 1..b : c \in 1..turn-1
        BY <3>4
      <4> QED BY <3>2, <3>3, <4>1
    <3>6. ASSUME NEW b \in BlocksDone'
          PROVE  b \in 1..turn-1
      <4>1. b \in 1..Len(file.relocations)
        BY <3>2, <3>4
      <4>2. ~(turn \in 1..b)
        <5>1. turn \in 1..b => /\ turn <= Len(file.relocations)
                               /\ file.relocations[turn].rva # 0
          BY <3>2, <3>4, <4>1
        <5> QED BY <2>1, <5>1
      <4> QED BY <3>4, <4>1, <4>2
    <3> QED BY <3>1, <3>5, <3>6
  <2>3. \A rva : EntriesNaming(rva)' = EntriesNaming(rva)
    BY <1>1, <2>2 DEF EntriesNaming
  <2>4. \A i \in DOMAIN sections : \A k : CellOfImage(i, k)' = CellOfImage(i, k)
    BY <1>1, <2>3 DEF CellOfImage, Word
  <2>5. Filled'
    BY <1>1, <1>3, <1>5, <2>1, <2>4
       DEF ImageInv, Filled, Fits, Disjoint, Rvas, SectionPointer
  <2> QED BY <1>2, <1>5, <2>5 DEF ImageInv, BlocksInTurn, NamingFinite
<1>6. CASE stage' = "relocate" /\ process' = "running"
  <2> DEFINE block == file.relocations[turn]
             s == ResolveRvaSection(block.rva)
             distance == base - start - file.imageBase
  <2>1. /\ turn <= Len(file.relocations) /\ block.rva # 0
        /\ s # 0 /\ turn' = turn + 1
        /\ memory' = [a \in Mapped |->
              memory[a] + SectionOffset(s) * Cardinality(Naming(block, s, a))]
    BY <1>6, <1>1 DEF Relocate, RelocateBlock, Go, NextTurn
  <2>2. turn \in DOMAIN file.relocations
    BY <2>1, FileTypes DEF TypeOK
  <2>3. BlocksInTurn'
    <3>1. \A c \in 1..turn'-1 : c \in 1..turn-1 \/ c = turn
      BY <2>1 DEF TypeOK
    <3> QED BY <1>1, <2>1, <2>2, <3>1 DEF ImageInv, BlocksInTurn
  <2>4. \A rva \in Int :
           /\ IsFiniteSet(EntriesNaming(rva)')
           /\ Cardinality(EntriesNaming(rva)') =
                 Cardinality(EntriesNaming(rva)) + Cardinality(NamedIn(turn, rva))
    BY <1>1, <1>6, <2>1, <2>2, OneMoreBlock DEF ImageInv
  <2>5. NamingFinite'
    BY <2>4 DEF NamingFinite
  <2>6. Filled'
    <3> SUFFICES ASSUME Fits, Disjoint,
                        NEW i \in DOMAIN sections,
                        NEW k \in 0..sections[i].virtualSize-1,
                        SectionPointer(sections[i]) + k \in Mapped
                 PROVE  memory'[SectionPointer(sections[i]) + k]
                           = CellOfImage(i, k)'
      BY <1>1, <1>3, <1>6
         DEF Filled, Fits, Disjoint, Rvas, SectionPointer
    <3>0. k \in Int /\ sections[i].virtualAddress \in Int
      BY SectionTypes, LayoutAssumption DEF TypeOK
    <3> PICK rva \in Int : rva = sections[i].virtualAddress + k
      BY <3>0
    <3> DEFINE cell == SectionPointer(sections[i]) + k
               n    == Cardinality(EntriesNaming(rva))
               m    == Cardinality(NamedIn(turn, rva))
    <3>1. /\ base \in Int /\ start \in Int /\ file.imageBase \in Int /\ k \in Int
          /\ sections[i].virtualAddress \in Int
      BY SectionTypes, FileTypes, LayoutAssumption DEF TypeOK
    <3>2. rva \in Int /\ distance \in Int /\ cell = base + (rva - start)
      BY <3>1 DEF SectionPointer
    <3>3. memory[cell] = Raw(i, k) + distance * n
      BY <1>1 DEF ImageInv, Filled, CellOfImage, Raw
    <3> HIDE DEF distance, cell
    <3>4. SectionOffset(s) = distance /\ Naming(block, s, cell) = NamedIn(turn, rva)
      BY <1>1, <2>1, <2>2, <3>2, BlockMoves DEF distance
    <3>5. memory'[cell] = memory[cell] + distance * m
      <4>1. cell \in Mapped
        BY DEF cell
      <4> HIDE DEF s, block
      <4> QED BY <2>1, <3>4, <4>1
    <3>6. CellOfImage(i, k)' = Raw(i, k) + distance * Cardinality(EntriesNaming(rva)')
      BY <1>1 DEF CellOfImage, Raw, Word, distance
    <3>7. Cardinality(EntriesNaming(rva)') = n + m
      BY <2>4, <3>2
    <3>8. Raw(i, k) \in Int
      BY <3>1, RawType
    <3>9. n \in Nat /\ m \in Nat
      <4>1. IsFiniteSet(EntriesNaming(rva))
        BY <1>1, <3>2 DEF ImageInv, NamingFinite
      <4>2. Naming(block, s, cell) = NamedIn(turn, rva)
        BY <3>4
      <4>3. m \in Nat
        BY <2>2, <4>2, NamingType
      <4> QED BY <4>1, <4>3, FS_CardinalityType
    <3> HIDE DEF n, m
    <3>10. distance * (n + m) = distance * n + distance * m
      BY <3>2, <3>9
    <3>11. distance * n \in Int /\ distance * m \in Int
      BY <3>2, <3>9
    <3>12. memory'[cell] = CellOfImage(i, k)'
      BY <3>3, <3>5, <3>6, <3>7, <3>8, <3>10, <3>11
    <3> QED BY <3>12 DEF cell
  <2> QED BY <1>2, <2>3, <2>5, <2>6 DEF ImageInv
<1> QED BY <1>1, <1>4, <1>5, <1>6

\* The permissions change no cell.
LEMMA ImageRest ==
    ASSUME TypeOK, ImageInv, ApplyPerms \/ Loaded \/ UNCHANGED vars
    PROVE  ImageInv'
<1>1. /\ sections' = sections /\ file' = file /\ size' = size /\ base' = base
      /\ start' = start /\ end' = end /\ memory' = memory
  BY DEF ApplyPerms, Loaded, vars, sections
<1>2. Mapped' = Mapped
  BY <1>1, SameMapping
<1>3. CASE UNCHANGED vars
  <2>1. \A rva : EntriesNaming(rva)' = EntriesNaming(rva)
    BY <1>3 DEF EntriesNaming, BlocksDone, vars
  <2>2. \A i, k : CellOfImage(i, k)' = CellOfImage(i, k)
    BY <1>1, <2>1 DEF CellOfImage, Word
  <2>3. Filled'
    BY <1>1, <1>2, <1>3, <2>2
       DEF vars, ImageInv, Filled, Fits, Disjoint, Rvas, SectionPointer, Raw, Word
  <2> QED BY <1>1, <1>3, <2>1, <2>3
          DEF vars, ImageInv, AllMeasured, BlocksInTurn, NamingFinite
<1>4. CASE ApplyPerms \/ Loaded
  <2>1. /\ stage = "perms" /\ process = "running"
        /\ stage' \in {"perms", "done", "failed"}
    BY <1>4 DEF ApplyPerms, Loaded, In, Go, NextTurn
  <2>2. \A rva : EntriesNaming(rva)' = EntriesNaming(rva)
    BY <1>1, <2>1 DEF EntriesNaming, BlocksDone
  <2>3. \A i, k : CellOfImage(i, k)' = CellOfImage(i, k)
    BY <1>1, <2>2 DEF CellOfImage, Word
  <2>4. Filled'
    BY <1>1, <1>2, <2>1, <2>3
       DEF ImageInv, Filled, Fits, Disjoint, Rvas, SectionPointer, Raw, Word
  <2> QED BY <1>1, <2>1, <2>4
          DEF ImageInv, AllMeasured, BlocksInTurn, NamingFinite
<1> QED BY <1>3, <1>4

\* The cells of a section lie in the mapping, so what is stored there and moved
\* there is the image; and its RVAs resolve to them, as no other section has one.
LEMMA ImageShown ==
    ASSUME TypeOK, Extents, AllPlaced, ImageInv
    PROVE  ImageIsTheFile
<1> SUFFICES ASSUME Fits, Disjoint, process = "running",
                    stage \in {"relocate", "perms", "done"},
                    NEW i \in DOMAIN sections,
                    NEW k \in 0..sections[i].virtualSize-1
             PROVE  LET rva == sections[i].virtualAddress + k IN
                    /\ rva # 0 => ResolveRva(rva) = pointer[i] + k
                    /\ memory[pointer[i] + k] = CellOfImage(i, k)
  BY DEF ImageIsTheFile
<1> DEFINE rva == sections[i].virtualAddress + k
<1>1. /\ sections[i].virtualAddress \in Nat /\ sections[i].virtualSize \in Nat
      /\ k \in Nat /\ k < sections[i].virtualSize
      /\ base \in Nat /\ start \in Nat
      /\ pointer[i] \in Nat
  BY SectionTypes, LayoutAssumption DEF TypeOK
<1>2. size[i] = sections[i].virtualSize /\ size[i] # 0
  BY <1>1 DEF ImageInv, AllMeasured
<1>3. pointer[i] # 0 /\ pointer[i] = SectionPointer(sections[i])
  BY <1>2 DEF AllPlaced, Extents, Anchored, SectionPointer
<1>4. pointer[i] + k \in Mapped
  <2>1. pointer[i] + k \in pointer[i] .. pointer[i] + size[i] - 1
    BY <1>1, <1>2
  <2> QED BY <1>2, <1>3, <2>1, SectionMapped
<1>5. memory[pointer[i] + k] = CellOfImage(i, k)
  BY <1>3, <1>4 DEF ImageInv, Filled
<1>6. rva # 0 => ResolveRva(rva) = pointer[i] + k
  <2>1. rva \in Rvas(i)
    BY <1>1 DEF Rvas
  <2>2. ResolveRvaSection(rva) = i
    BY <2>1, ResolvesTo DEF ImageInv
  <2>3. i # 0
    BY SectionTypes
  <2>4. ResolveInSection(i, rva) = pointer[i] + k
    BY <1>1 DEF ResolveInSection
  <2> HIDE DEF rva
  <2> QED BY <2>2, <2>3, <2>4 DEF ResolveRva
<1> QED BY <1>5, <1>6

\* Whatever the file, its sections and its relocation table: an image whose
\* sections are read is the file, moved as the table says.
THEOREM ImageIsFromFile == Spec => []ImageIsTheFile
<1> DEFINE IInv == TypeOK /\ Extents /\ AllPlaced /\ ImageInv
<1>1. Init => IInv
  <2> SUFFICES ASSUME Init PROVE IInv
    OBVIOUS
  <2>1. TypeOK /\ Extents
    BY LayoutTypeInit, ExtentsInit
  <2>2. AllPlaced /\ BlocksInTurn /\ NamingFinite /\ Filled
    BY DEF Init, AllPlaced, BlocksInTurn, NamingFinite, Filled
  <2>3. AllMeasured
    <3>1. \A i \in DOMAIN sections : i >= 1
      BY <2>1, FileTypes
    <3> QED BY <3>1 DEF Init, AllMeasured, sections
  <2> QED BY <2>1, <2>2, <2>3 DEF ImageInv
<1>2. IInv /\ [Next]_vars => IInv'
  <2> SUFFICES ASSUME IInv, [Next]_vars PROVE IInv'
    OBVIOUS
  <2>1. (TypeOK /\ Extents)'
    BY TypeMeasure, TypeMap, TypePlace, TypeRelocate, TypeRest,
       ExtentsMeasure, ExtentsMap, ExtentsPlace, ExtentsRest
       DEF Next, Terminating
  <2>2. ImageInv'
    BY ImageBefore, ImagePlace, ImagePlaced, ImageRelocate, ImageRest
       DEF Next, Terminating
  <2> QED BY <2>1, <2>2, AllPlacedStep
<1>3. IInv => ImageIsTheFile
  BY ImageShown
<1> QED BY <1>1, <1>2, <1>3, PTL DEF Spec

-----------------------------------------------------------------------------
(* The stages of PeLoader *)

\* What PeLoader does not see: the loop variables, the extent, the cells and the
\* permissions of the image.
LEMMA SameView ==
    ASSUME Parsed' = Parsed, InPeLoader' = InPeLoader,
           base' = 0 <=> base = 0,
           stage' = "failed" <=> stage = "failed",
           process' = "aborted" <=> process = "aborted"
    PROVE  UNCHANGED Loader!vars
BY DEF Loader!vars

\* An error return of a stage.
LEMMA FailsInPeLoader ==
    ASSUME stage # "failed", stage' = "failed", process = "running",
           process' = "running"
    PROVE  Loader!FailWith("t", "negative")
<1>1. InPeLoader' = "closeFile"
  BY DEF InPeLoader
<1> QED BY <1>1 DEF Loader!FailWith, Loader!Goto

\* Going on from one stage to the next.
LEMMA ContinuesInPeLoader ==
    ASSUME NEW label, stage # "failed", stage' # "failed", InPeLoader' = label,
           process = "running", process' = "running"
    PROVE  Loader!Continue("t", label)
BY DEF Loader!Continue, Loader!Goto

\* What a file that has sections, or relocations, is to PeLoader.
LEMMA CountedInPeLoader ==
    /\ [f \in {"f"} |-> Parsed]["f"].sections = "own"
    /\ [f \in {"f"} |-> Parsed]["f"].sectionCount =
          IF sections # <<>> THEN "some" ELSE "none"
    /\ [f \in {"f"} |-> Parsed]["f"].dataDirs = "read"
BY DEF Parsed

LEMMA RelocationsResolve ==
    ASSUME TypeOK, file.relocations # <<>>
    PROVE  Loader!MayResolve("f")
<1>1. sections # <<>>
  <2>1. \E i \in DOMAIN sections : sections[i].virtualSize # 0
    BY LayoutAssumption DEF TypeOK, sections
  <2> QED BY <2>1
<1> QED BY <1>1, CountedInPeLoader DEF Loader!MayResolve

-----------------------------------------------------------------------------

\* readSegments: mmap and each turn of the second loop may end it.
LEMMA StageMap ==
    ASSUME TypeOK, Extents, MapSegments
    PROVE  Loader!ReadSegments("t") \/ UNCHANGED Loader!vars
<1>1. /\ stage = "measure" /\ process = "running" /\ process' = "running"
      /\ InPeLoader = "segments" /\ base = 0
      /\ Parsed' = Parsed
  BY DEF MapSegments, In, InPeLoader, Parsed, Extents, sections
<1>2. CASE stage' = "failed"
  <2>1. base' = base
    BY <1>2 DEF MapSegments, Go
  <2>2. Loader!FailWith("t", "negative")
    BY <1>1, <1>2, FailsInPeLoader
  <2> QED BY <1>1, <2>1, <2>2 DEF Loader!ReadSegments, Loader!At,
             Loader!hostVars, Loader!callVars
<1>3. CASE stage' # "failed"
  <2>1. stage' = "place" /\ turn' = 1 /\ base' # 0 /\ sections' = sections
    <3>1. base' \in Bases
      BY <1>3 DEF MapSegments, Go
    <3> QED BY <1>3, <3>1, LayoutAssumption DEF MapSegments, Go, sections
  <2>2. CASE InPeLoader' = "segments"
    <3>1. UNCHANGED Loader!vars
      BY <1>1, <1>3, <2>2 DEF Loader!vars
    <3> QED BY <3>1
  <2>3. CASE InPeLoader' # "segments"
    <3>1. InPeLoader' = "imports"
      BY <2>1, <2>3 DEF InPeLoader
    <3>2. Loader!Continue("t", "imports")
      BY <1>1, <1>3, <3>1, ContinuesInPeLoader
    <3> QED BY <1>1, <2>1, <3>1, <3>2, CountedInPeLoader
            DEF Loader!ReadSegments, Loader!At, Loader!hostVars, Loader!callVars
  <2> QED BY <2>2, <2>3
<1> QED BY <1>2, <1>3

LEMMA StagePlace ==
    ASSUME TypeOK, AllPlaced, Place
    PROVE  Loader!ReadSegments("t") \/ UNCHANGED Loader!vars
<1>1. /\ stage = "place" /\ process = "running" /\ turn <= Len(sections)
      /\ base # 0 /\ base' = base /\ sections' = sections
      /\ InPeLoader = "segments" /\ Parsed' = Parsed
  <2>1. /\ stage = "place" /\ process = "running" /\ turn <= Len(sections)
        /\ base # 0 /\ base' = base /\ file' = file
    BY DEF Place, In, AllPlaced
  <2>2. turn \in Nat /\ Len(sections) \in Nat
    BY FileTypes DEF TypeOK
  <2>3. ~(turn > Len(sections))
    BY <2>1, <2>2
  <2> QED BY <2>1, <2>3 DEF InPeLoader, Parsed, sections
<1>2. sections # <<>>
  BY <1>1, FileTypes DEF TypeOK
<1>3. CASE stage' = "failed"
  <2>1. process' = "running"
    BY <1>1, <1>3 DEF Place, ReadRaw, NextTurn
  <2>2. Loader!FailWith("t", "negative") /\ InPeLoader' = "closeFile"
    BY <1>1, <1>3, <2>1, FailsInPeLoader DEF InPeLoader
  <2> QED BY <1>1, <1>2, <2>1, <2>2, CountedInPeLoader
          DEF Loader!ReadSegments, Loader!At, Loader!hostVars, Loader!callVars
<1>4. CASE stage' # "failed"
  <2>1. stage' = "place" /\ process' # "aborted"
    BY <1>1, <1>4 DEF Place, ReadRaw, NextTurn, Go
  <2>2. CASE InPeLoader' = "segments"
    BY <1>1, <1>4, <2>1, <2>2, SameView
  <2>3. CASE InPeLoader' # "segments"
    <3>1. InPeLoader' = "imports"
      BY <2>1, <2>3 DEF InPeLoader
    <3>2. process' = "running"
      BY <1>1, <2>1, <3>1 DEF Place, ReadRaw, InPeLoader
    <3>3. Loader!Continue("t", "imports")
      BY <1>1, <1>4, <3>1, <3>2, ContinuesInPeLoader
    <3> QED BY <1>1, <3>1, <3>2, <3>3, CountedInPeLoader
            DEF Loader!ReadSegments, Loader!At, Loader!hostVars, Loader!callVars
  <2> QED BY <2>2, <2>3
<1> QED BY <1>3, <1>4

\* relocateFile: only a block of a file that has sections fails or aborts.
LEMMA StageRelocate ==
    ASSUME TypeOK, AllPlaced, Relocate
    PROVE  Loader!RelocateFile("t") \/ UNCHANGED Loader!vars
<1>1. /\ stage = "relocate" /\ process = "running"
      /\ base # 0 /\ base' = base
      /\ InPeLoader = "relocate" /\ Parsed' = Parsed
  BY DEF Relocate, In, InPeLoader, Parsed, AllPlaced, sections
<1>2. CASE stage' = "perms"
  <2>1. process' = "running" /\ InPeLoader' = "perms"
    BY <1>1, <1>2 DEF Relocate, RelocateBlock, NextTurn, Go, InPeLoader
  <2>2. Loader!Continue("t", "perms")
    BY <1>1, <1>2, <2>1, ContinuesInPeLoader
  <2> QED BY <1>1, <2>1, <2>2 DEF Loader!RelocateFile, Loader!At,
             Loader!resVars, Loader!hostVars, Loader!callVars
<1>3. CASE stage' # "perms"
  <2>1. /\ file.relocations # <<>>
        /\ RelocateBlock(file.relocations[turn])
    <3>1. /\ turn <= Len(file.relocations)
          /\ RelocateBlock(file.relocations[turn])
      BY <1>3 DEF Relocate, Go
    <3> QED BY <3>1, FileTypes DEF TypeOK
  <2>2. Loader!MayResolve("f")
    BY <2>1, RelocationsResolve
  <2>3. CASE stage' = "failed"
    <3>1. process' = "running" /\ InPeLoader' = "closeFile"
      BY <1>1, <2>1, <2>3 DEF RelocateBlock, NextTurn, InPeLoader
    <3>2. Loader!FailWith("t", "negative")
      BY <1>1, <2>3, <3>1, FailsInPeLoader
    <3> QED BY <1>1, <2>2, <3>1, <3>2 DEF Loader!RelocateFile, Loader!At,
               Loader!resVars, Loader!hostVars, Loader!callVars
  <2>4. CASE stage' # "failed"
    <3>1. stage' = "relocate" /\ InPeLoader' = "relocate"
      BY <1>1, <2>1, <2>4 DEF RelocateBlock, NextTurn, Go, InPeLoader
    <3>2. CASE process' = "aborted"
      <4>1. Loader!Stop("aborted")
        BY <1>1, <3>1, <3>2 DEF Loader!Stop
      <4> QED BY <1>1, <2>2, <3>1, <4>1 DEF Loader!RelocateFile, Loader!At,
                 Loader!resVars, Loader!hostVars, Loader!callVars
    <3>3. CASE process' # "aborted"
      BY <1>1, <3>1, <3>3, SameView
    <3> QED BY <3>2, <3>3
  <2> QED BY <2>3, <2>4
<1> QED BY <1>2, <1>3

\* applySegmentPerms: it may fail for a file that has sections.
LEMMA StagePerms ==
    ASSUME TypeOK, AllPlaced, ApplyPerms \/ Loaded
    PROVE  Loader!ApplySegmentPerms("t") \/ UNCHANGED Loader!vars
<1>1. /\ stage = "perms" /\ process = "running"
      /\ base # 0 /\ base' = base
      /\ InPeLoader = "perms" /\ Parsed' = Parsed
  BY DEF ApplyPerms, Loaded, In, InPeLoader, Parsed, AllPlaced, sections
<1>2. CASE ApplyPerms /\ stage' = "failed"
  <2>1. /\ process' = "running" /\ InPeLoader' = "closeFile"
        /\ turn <= Len(sections)
    BY <1>1, <1>2 DEF ApplyPerms, NextTurn, InPeLoader
  <2>2. sections # <<>>
    BY <2>1, FileTypes DEF TypeOK
  <2>3. Loader!FailWith("t", "negative")
    BY <1>1, <1>2, <2>1, FailsInPeLoader
  <2> QED BY <1>1, <2>1, <2>2, <2>3, CountedInPeLoader
          DEF Loader!ApplySegmentPerms, Loader!At, Loader!resVars,
              Loader!hostVars, Loader!callVars
<1>3. CASE ApplyPerms /\ stage' # "failed"
  <2>1. stage' = "perms" /\ process' # "aborted" /\ InPeLoader' = "perms"
    BY <1>1, <1>3 DEF ApplyPerms, NextTurn, Go, InPeLoader
  <2> QED BY <1>1, <2>1, SameView
<1>4. CASE Loaded
  <2>1. stage' = "done" /\ process' = "running" /\ InPeLoader' = "closeSource"
    BY <1>1, <1>4 DEF Loaded, Go, InPeLoader
  <2>2. Loader!Continue("t", "closeSource")
    BY <1>1, <2>1, ContinuesInPeLoader
  <2> QED BY <1>1, <2>1, <2>2, CountedInPeLoader
          DEF Loader!ApplySegmentPerms, Loader!At, Loader!resVars,
              Loader!hostVars, Loader!callVars
<1> QED BY <1>2, <1>3, <1>4

\* Before the mapping, and in steps that only stutter, PeLoader sees nothing.
LEMMA StageRest ==
    ASSUME Measure \/ Terminating \/ UNCHANGED vars
    PROVE  UNCHANGED Loader!vars
<1>1. UNCHANGED <<file, base, process, stage>>
  BY DEF Measure, Terminating, NextTurn, vars
<1>2. Parsed' = Parsed
  BY <1>1 DEF Parsed, sections
<1>3. InPeLoader' = InPeLoader
  <2>1. CASE stage = "measure"
    BY <1>1, <2>1 DEF InPeLoader
  <2>2. CASE stage # "measure"
    <3>1. turn' = turn
      BY <2>2 DEF Measure, In, Terminating, vars
    <3> QED BY <1>1, <3>1 DEF InPeLoader, sections
  <2> QED BY <2>1, <2>2
<1> QED BY <1>1, <1>2, <1>3, SameView

\* Loading the sections of any file, wherever the kernel maps it, goes through
\* the three stages of PeLoader or does what PeLoader does not see.
THEOREM LayoutIsStages == Spec => StagesOfPeLoader
<1> DEFINE IInv == TypeOK /\ Extents /\ AllPlaced
           Stages == \/ Placed \/ Loader!ReadSegments("t")
                     \/ Loader!RelocateFile("t") \/ Loader!ApplySegmentPerms("t")
<1>1. Init => IInv
  BY LayoutTypeInit, ExtentsInit DEF Init, AllPlaced
<1>2. IInv /\ [Next]_vars => IInv'
  BY TypeMeasure, TypeMap, TypePlace, TypeRelocate, TypeRest,
     ExtentsMeasure, ExtentsMap, ExtentsPlace, ExtentsRest, AllPlacedStep
     DEF Next, Terminating
<1>3. IInv /\ [Next]_vars => [Stages]_(Loader!vars)
  <2> SUFFICES ASSUME IInv, [Next]_vars PROVE Stages \/ UNCHANGED Loader!vars
    OBVIOUS
  <2>1. CASE MapSegments
    BY <2>1, StageMap
  <2>2. CASE Place
    BY <2>2, StagePlace
  <2>3. CASE Relocate
    BY <2>3, StageRelocate
  <2>4. CASE ApplyPerms \/ Loaded
    BY <2>4, StagePerms
  <2>5. CASE Measure \/ Terminating \/ UNCHANGED vars
    BY <2>5, StageRest
  <2> QED BY <2>1, <2>2, <2>3, <2>4, <2>5 DEF Next
<1> QED BY <1>1, <1>2, <1>3, PTL DEF Spec, StagesOfPeLoader

-----------------------------------------------------------------------------
(* Loading comes to an end *)

SectionsIn    == Len(sections)
RelocationsIn == Len(file.relocations)

\* How many turns and changes of stage are before the loops at most.
StepsLeft ==
    CASE process # "running" -> 0
      [] In("measure")  -> (SectionsIn - turn) + 2 * SectionsIn
                           + RelocationsIn + 5
      [] In("place")    -> (SectionsIn - turn) + SectionsIn + RelocationsIn + 4
      [] In("relocate") -> (RelocationsIn - turn) + SectionsIn + 3
      [] In("perms")    -> (SectionsIn - turn) + 2
      [] OTHER          -> 0

\* Every step of the loops leaves fewer of them.
LoadingMovesOn == [][StepsLeft' < StepsLeft]_vars

\* No loop goes beyond its table.
TurnInTable ==
    /\ stage \in {"measure", "place", "perms"} => turn <= SectionsIn + 1
    /\ stage = "relocate" => turn <= RelocationsIn + 1

\* The tables of a file have a length, which stays what it is.
LEMMA TableLengths ==
    ASSUME TypeOK
    PROVE  /\ SectionsIn \in Nat
           /\ RelocationsIn \in Nat
           /\ turn \in Nat \ {0}
           /\ UNCHANGED file => UNCHANGED <<SectionsIn, RelocationsIn>>
BY FileTypes DEF SectionsIn, RelocationsIn, sections, TypeOK

\* What the steps of a loop make of its stage and turn.
LEMMA LoopStep ==
    ASSUME TypeOK, Next, ~Terminating
    PROVE  /\ process = "running"
           /\ file' = file
           /\ \/ process' # "running" /\ UNCHANGED <<stage, turn>>
              \/ stage' = "failed"
              \/ /\ stage \in {"measure", "place", "perms"}
                 /\ turn <= SectionsIn
                 /\ NextTurn
              \/ stage = "relocate" /\ turn <= RelocationsIn /\ NextTurn
              \/ stage = "measure" /\ Go("place")
              \/ stage = "place" /\ Go("relocate")
              \/ stage = "relocate" /\ Go("perms")
              \/ stage = "perms" /\ Go("done")
<1>1. CASE Measure \/ MapSegments
  BY <1>1 DEF Measure, MapSegments, In, Go, SectionsIn
<1>2. CASE Place \/ Placed
  BY <1>2 DEF Place, Placed, ReadRaw, In, Go, SectionsIn
<1>3. CASE Relocate
  BY <1>3 DEF Relocate, RelocateBlock, In, Go, RelocationsIn
<1>4. CASE ApplyPerms \/ Loaded
  BY <1>4 DEF ApplyPerms, Loaded, In, Go, SectionsIn
<1> QED BY <1>1, <1>2, <1>3, <1>4 DEF Next

\* Reading, relocating and protecting the sections takes three turns for each
\* of them, one for each block of relocations and four steps from loop to loop:
\* no malformed table makes the loader go round for ever.
THEOREM LoadingEnds == Spec => LoadingMovesOn /\ [](StepsLeft \in Nat)
<1> DEFINE IInv == TypeOK /\ Extents /\ TurnInTable
<1>1. Init => IInv
  <2>1. Init => TypeOK /\ Extents
    BY LayoutTypeInit, ExtentsInit
  <2>2. Init => TurnInTable
    BY <2>1, TableLengths DEF Init, TurnInTable
  <2> QED BY <2>1, <2>2
<1>2. IInv /\ [Next]_vars => TypeOK' /\ Extents'
  BY TypeMeasure, TypeMap, TypePlace, TypeRelocate, TypeRest,
     ExtentsMeasure, ExtentsMap, ExtentsPlace, ExtentsRest DEF Next, Terminating
<1>3. ASSUME IInv, [Next]_vars
      PROVE  TurnInTable' /\ (StepsLeft' < StepsLeft \/ UNCHANGED vars)
  <2>1. CASE UNCHANGED vars
    BY <1>3, <2>1, TableLengths DEF vars, TurnInTable
  <2>2. CASE Next /\ ~Terminating
    <3>1. /\ SectionsIn \in Nat
          /\ RelocationsIn \in Nat
          /\ turn \in Nat \ {0}
          /\ UNCHANGED <<SectionsIn, RelocationsIn>>
      BY <1>3, <2>2, TableLengths, LoopStep
    <3>2. stage \in {"measure", "place", "relocate", "perms"}
      BY <2>2 DEF Next, Measure, MapSegments, Place, Placed, Relocate,
         ApplyPerms, Loaded, In
    <3>3. TurnInTable'
      BY <1>3, <2>2, <3>1, LoopStep DEF TurnInTable, Go, NextTurn
    <3>4. StepsLeft' < StepsLeft
      BY <1>3, <2>2, <3>1, <3>2, LoopStep
         DEF StepsLeft, In, Go, NextTurn, TurnInTable
    <3> QED BY <3>3, <3>4
  <2> QED BY <1>3, <2>1, <2>2 DEF Terminating
<1>4. IInv => StepsLeft \in Nat
  <2> SUFFICES ASSUME IInv PROVE StepsLeft \in Nat OBVIOUS
  <2>1. SectionsIn \in Nat /\ RelocationsIn \in Nat /\ turn \in Nat \ {0}
    BY TableLengths
  <2> QED BY <2>1 DEF StepsLeft, In, TurnInTable
<1>5. IInv /\ [Next]_vars => TurnInTable' /\ [StepsLeft' < StepsLeft]_vars
  BY <1>3
<1> QED BY <1>1, <1>2, <1>4, <1>5, PTL DEF Spec, LoadingMovesOn

=============================================================================
