---------------------------- MODULE HeadersProofs ----------------------------
(***************************************************************************)
(* Proofs about Headers, for structures of any size, any number of data    *)
(* directories and whatever a file says of itself.                         *)
(*                                                                         *)
(* A property of the headers is about the bytes stored, which depend on    *)
(* where each read began. So the invariant ties the position of the stream *)
(* to what is left of the optional header: the two run out together,       *)
(* however the reads are split.                                            *)
(***************************************************************************)
EXTENDS Headers, TLAPS

\* A read in progress is of the structure in turn.
ReadInTurn ==
    /\ position \in Nat
    /\ wanted # Source!Nothing =>
          /\ stage \in Structs \cup {"optional"}
          /\ wanted = Amount
          /\ whole \/ stage = "optional"
          /\ stage = "PeSectionHeader" => SectionsLeft

Early == {"DosHeader", "seek", "PeHeader", "magic"}

\* What is left of the optional header is between the position and the table.
OptionalInTurn ==
    /\ turn \in Members
    /\ remaining \in 1..(peHeader.optional - SizeOf["magic"])
    /\ position = TableAt - remaining
    /\ \A k \in Members : k >= turn => members[k] = <<>>
    /\ (\A j \in 1..(turn - 1) : IsWhole(j)) => position = OptionalAt + Offset(turn)

\* A table that starts at p is where the format puts it.
TableStartsAt(p) ==
    /\ peHeader.optional <= Offset(3 + DirCount)
    /\ \A k \in Members : IsWhole(k)
    => p = TableAt

\* The section headers read so far are consecutive and end at the position.
SectionInTurn ==
    /\ Len(table) = turn - 1
    /\ turn <= peHeader.sections + 1
    /\ IF table = <<>> THEN TableStartsAt(position)
       ELSE /\ TableStartsAt(table[1][1])
            /\ position = table[1][1] + Len(table) * SizeOf["PeSectionHeader"]
            /\ \A i \in 1..Len(table) :
                  table[i] = Source!From(
                     table[1][1] + (i - 1) * SizeOf["PeSectionHeader"],
                     SizeOf["PeSectionHeader"])

StageInv ==
    /\ stage \in Early => members = [k \in Members |-> <<>>]
    /\ stage \in Early \cup {"optional"} => table = <<>>
    /\ stage = "magic" =>
          position = OptionalAt /\ peHeader.optional >= SizeOf["magic"]
    /\ stage = "optional" => OptionalInTurn
    /\ stage = "PeSectionHeader" => SectionInTurn
    /\ stored => stage = "segments"

HeadersInv ==
    TypeOK /\ ReadInTurn /\ StageInv
    /\ HeaderStaysInside /\ MembersInPlace /\ TableIsTheFile

-----------------------------------------------------------------------------
(* Sizes and offsets *)

LEMMA Smallest ==
    ASSUME NEW a \in Int, NEW b \in Int
    PROVE  Min({a, b}) = IF a <= b THEN a ELSE b
<1>1. \E x \in {a, b} : \A y \in {a, b} : x <= y
  OBVIOUS
<1>2. Min({a, b}) \in {a, b} /\ \A y \in {a, b} : Min({a, b}) <= y
  BY <1>1 DEF Min
<1> QED BY <1>2

LEMMA Largest ==
    ASSUME NEW a \in Int, NEW b \in Int
    PROVE  Max({a, b}) = IF a >= b THEN a ELSE b
<1>1. \E x \in {a, b} : \A y \in {a, b} : x >= y
  OBVIOUS
<1>2. Max({a, b}) \in {a, b} /\ \A y \in {a, b} : Max({a, b}) >= y
  BY <1>1 DEF Max
<1> QED BY <1>2

\* What fits in a word is not changed by it.
LEMMA NoWrap == ASSUME NEW a \in Nat, a < Word PROVE a % Word = a
BY HeadersAssumption

\* Each structure has a size.
LEMMA Sizes ==
    /\ {SizeOf["DosHeader"], SizeOf["PeHeader"], SizeOf["magic"], SizeOf["std"],
        SizeOf["win"], SizeOf["PeDataDir"], SizeOf["PeSectionHeader"]}
       \subseteq Nat \ {0}
BY HeadersAssumption DEF Structs

\* The members before one that is before k.
LEMMA MembersBefore ==
    ASSUME NEW k \in Members, NEW m \in Members, m < k
    PROVE  1..(m - 1) \subseteq Members \ {k}
BY HeadersAssumption DEF Members

\* The members follow each other.
LEMMA NextOffset ==
    ASSUME NEW k \in Members
    PROVE  /\ MemberSize(k) \in Nat \ {0}
           /\ Offset(k) \in Nat /\ Offset(k) >= SizeOf["magic"]
           /\ Offset(k + 1) = Offset(k) + MemberSize(k)
<1> DEFINE d == SizeOf["PeDataDir"]
<1>1. k \in Nat \ {0} /\ DirCount \in Nat
  BY HeadersAssumption DEF Members
<1>2. CASE k \in {1, 2}
  BY <1>2, Sizes DEF Offset, MemberSize
<1>3. CASE k >= 3
  <2> DEFINE n == k - 3
  <2>1. n \in Nat /\ d \in Nat \ {0}
    BY <1>1, <1>3, Sizes
  <2>2. n * d \in Nat /\ (n + 1) * d = n * d + d
    <3> HIDE DEF n, d
    <3> QED BY <2>1
  <2>3. Offset(k) = SizeOf["magic"] + (SizeOf["std"] + SizeOf["win"] + n * d)
    BY <1>1, <1>3 DEF Offset
  <2>4. Offset(k + 1) =
           SizeOf["magic"] + (SizeOf["std"] + SizeOf["win"] + (n + 1) * d)
    <3>1. (k + 1) - 3 = n + 1 /\ k + 1 # 1 /\ k + 1 # 2
      BY <1>1, <1>3
    <3> QED BY <3>1 DEF Offset
  <2>5. MemberSize(k) = d
    BY <1>1, <1>3 DEF MemberSize
  <2> HIDE DEF n, d
  <2> QED BY <2>1, <2>2, <2>3, <2>4, <2>5, Sizes
<1> QED BY <1>1, <1>2, <1>3

\* What a read asks for.
LEMMA AmountType ==
    ASSUME TypeOK, StageInv, stage \in Structs \cup {"optional"}
    PROVE  /\ Amount \in Nat
           /\ stage = "optional" =>
                 Amount = IF remaining <= MemberSize(turn) THEN remaining
                          ELSE MemberSize(turn)
<1>1. CASE stage = "optional"
  <2>1. remaining \in Nat /\ MemberSize(turn) \in Nat
    BY <1>1, HeadersAssumption, NextOffset DEF TypeOK, StageInv, OptionalInTurn
  <2> QED BY <1>1, <2>1, Smallest DEF Amount
<1>2. CASE stage # "optional"
  BY <1>2, HeadersAssumption DEF Amount
<1> QED BY <1>1, <1>2

\* A read that delivers stores the bytes behind the position.
LEMMA Delivery ==
    ASSUME HeadersInv, Source!Deliver, stage \in Structs \cup {"optional"}
    PROVE  \E n \in Nat :
              /\ n <= Amount
              /\ stage # "optional" => n = Amount
              /\ bytes' = Source!From(position, n)
              /\ bytes' \in Seq(Nat)
              /\ Len(bytes') = n
              /\ position' = position + n
              /\ wanted' = Source!Nothing
<1>1. /\ Amount \in Nat /\ position \in Nat
      /\ wanted = Amount
      /\ whole \/ stage = "optional"
  BY AmountType DEF HeadersInv, ReadInTurn, Source!Deliver
<1>2. PICK n \in 0..wanted :
         /\ whole => n = wanted
         /\ bytes' = Source!From(position, n)
         /\ position' = position + n
  BY DEF Source!Deliver
<1>3. n \in Nat /\ n <= Amount /\ (stage # "optional" => n = Amount)
  BY <1>1, <1>2
<1>4. bytes' \in Seq(Nat) /\ Len(bytes') = n
  BY <1>1, <1>2, <1>3 DEF Source!From
<1>5. wanted' = Source!Nothing
  BY DEF Source!Deliver
<1> QED BY <1>2, <1>3, <1>4, <1>5

\* What the file says of itself is counted in naturals, its sizes in 16 bits.
LEMMA FileSays ==
    ASSUME TypeOK
    PROVE  /\ peHeader.peOff \in Nat /\ peHeader.sections \in Nat
           /\ peHeader.optional \in Nat /\ peHeader.optional < Word
<1>1. /\ peHeader.peOff \in PeOffs \cup {0}
      /\ peHeader.sections \in SectionCounts \cup {0}
      /\ peHeader.optional \in OptionalSizes \cup {0}
  BY DEF TypeOK
<1>2. PeOffs \cup {0} \subseteq Nat /\ SectionCounts \cup {0} \subseteq Nat
  BY HeadersAssumption
<1>3. OptionalSizes \cup {0} \subseteq 0..(Word - 1)
  BY HeadersAssumption
<1>4. peHeader.optional \in 0..(Word - 1) /\ Word \in Nat
  BY <1>1, <1>3, HeadersAssumption
<1>5. peHeader.peOff \in Nat /\ peHeader.sections \in Nat
  BY <1>1, <1>2
<1> QED BY <1>4, <1>5

\* How much of a member a header has.
LEMMA PresentIs ==
    ASSUME TypeOK, NEW k \in Members
    PROVE  LET rest == peHeader.optional - Offset(k) IN
           Present(k) = IF rest <= 0 THEN 0
                        ELSE IF MemberSize(k) <= rest THEN MemberSize(k)
                        ELSE rest
<1> DEFINE rest == peHeader.optional - Offset(k)
<1>1. MemberSize(k) \in Nat /\ rest \in Int
  <2>1. peHeader.optional \in Nat
    BY FileSays
  <2>2. MemberSize(k) \in Nat /\ Offset(k) \in Nat
    BY NextOffset
  <2> QED BY <2>1, <2>2
<1> HIDE DEF rest
<1>2. Min({MemberSize(k), rest}) =
         IF MemberSize(k) <= rest THEN MemberSize(k) ELSE rest
  BY <1>1, Smallest
<1>3. Min({MemberSize(k), rest}) \in Int
  BY <1>1, <1>2
<1>4. Max({0, Min({MemberSize(k), rest})}) =
         IF 0 >= Min({MemberSize(k), rest}) THEN 0
         ELSE Min({MemberSize(k), rest})
  BY <1>3, Largest
<1> QED BY <1>1, <1>2, <1>4 DEF Present, rest

-----------------------------------------------------------------------------
(* The steps *)

LEMMA HeadersInit == Init => HeadersInv
<1> SUFFICES ASSUME Init PROVE HeadersInv
  OBVIOUS
<1>1. TypeOK
  <2>1. members \in [Members -> Seq(Nat)] /\ table \in Seq(Seq(Nat))
    BY DEF Init
  <2>2. remaining \in 0..(Word - 1)
    BY HeadersAssumption DEF Init
  <2>3. peHeader \in [peOff : PeOffs \cup {0}, optional : OptionalSizes \cup {0},
                      sections : SectionCounts \cup {0}]
    BY DEF Init
  <2>4. stage \in Stages /\ peAt \in Nat /\ turn \in Nat \ {0}
    BY DEF Init, Stages
  <2>5. stored \in BOOLEAN
    BY DEF Init
  <2> QED BY <2>1, <2>2, <2>3, <2>4, <2>5 DEF TypeOK
<1>2. ReadInTurn /\ StageInv
  BY DEF Init, Source!Init, Source!Nothing, ReadInTurn, StageInv, Early
<1> QED BY <1>1, <1>2
        DEF Init, HeadersInv, HeaderStaysInside, MembersInPlace, TableIsTheFile

\* A step that leaves what was read alone keeps where it belongs.
LEMMA SamePlaces ==
    ASSUME UNCHANGED <<peHeader, peAt, members>>
    PROVE  /\ OptionalAt' = OptionalAt /\ TableAt' = TableAt
           /\ \A k : Offset(k)' = Offset(k) /\ MemberSize(k)' = MemberSize(k)
           /\ \A k : IsWhole(k)' <=> IsWhole(k)
<1>1. OptionalAt' = OptionalAt /\ TableAt' = TableAt
  BY DEF OptionalAt, TableAt
<1>2. \A k : Offset(k)' = Offset(k) /\ MemberSize(k)' = MemberSize(k)
  BY DEF Offset, MemberSize
<1>3. \A k : Present(k)' = Present(k)
  BY <1>2 DEF Present
<1> QED BY <1>1, <1>2, <1>3 DEF IsWhole

\* A step that leaves what was read alone keeps what is said of it.
LEMMA SameBytes ==
    ASSUME HeadersInv, UNCHANGED <<peHeader, peAt, members>>
    PROVE  HeaderStaysInside' /\ MembersInPlace'
<1>1. members' = members
  OBVIOUS
<1>2. HeaderStaysInside'
  BY <1>1, SamePlaces DEF HeadersInv, HeaderStaysInside
<1>3. MembersInPlace'
  BY <1>1, SamePlaces DEF HeadersInv, MembersInPlace, Source!From
<1> QED BY <1>2, <1>3

\* So does one that has read no member yet.
LEMMA NoBytes ==
    ASSUME members' = [k \in Members |-> <<>>]
    PROVE  HeaderStaysInside' /\ MembersInPlace'
BY DEF HeaderStaysInside, MembersInPlace

\* A step that leaves the position and what was read alone keeps what is said of
\* the stage.
LEMMA SameStage ==
    ASSUME StageInv,
           UNCHANGED <<stage, position, peHeader, peAt, turn, remaining, members,
                       table, stored>>
    PROVE  StageInv'
<1>1. UNCHANGED <<stage, position, peHeader, turn, remaining, members, table,
                  stored>>
  OBVIOUS
<1>2. UNCHANGED <<peHeader, peAt, members>>
  OBVIOUS
<1>3. OptionalInTurn => OptionalInTurn'
  BY <1>1, <1>2, SamePlaces DEF OptionalInTurn
<1>4. SectionInTurn => SectionInTurn'
  <2>1. position' = position /\ table' = table
    BY <1>1
  <2>2. TableStartsAt(position) => TableStartsAt(position)'
    BY <2>1, <1>1, <1>2, SamePlaces DEF TableStartsAt
  <2>3. TableStartsAt(table[1][1]) => TableStartsAt(table[1][1])'
    BY <2>1, <1>1, <1>2, SamePlaces DEF TableStartsAt
  <2> QED BY <1>1, <2>2, <2>3 DEF SectionInTurn, Source!From
<1>5. stage \in Early => members' = [k \in Members |-> <<>>]
  BY <1>1 DEF StageInv
<1>6. stage = "magic" => position' = OptionalAt'
  BY <1>1, <1>2, SamePlaces DEF StageInv
<1> QED BY <1>1, <1>3, <1>4, <1>5, <1>6 DEF StageInv

LEMMA ReadKeeps == HeadersInv /\ Read => HeadersInv'
<1> SUFFICES ASSUME HeadersInv, Read PROVE HeadersInv'
  OBVIOUS
<1>1. position' = position /\ wanted' = Amount /\ UNCHANGED <<stage, parseVars>>
  BY DEF Read, Source!Ask
<1>2. Amount' = Amount
  BY <1>1 DEF parseVars, Amount, MemberSize
<1>3. TypeOK' /\ TableIsTheFile'
  <2>1. TypeOK'
    BY <1>1 DEF HeadersInv, parseVars, TypeOK
  <2>2. TableIsTheFile'
    BY <1>1, SamePlaces DEF HeadersInv, parseVars, TableIsTheFile, Source!From
  <2> QED BY <2>1, <2>2
<1>4. StageInv'
  BY <1>1, SameStage DEF HeadersInv, parseVars
<1>5. ReadInTurn'
  BY <1>1, <1>2 DEF Read, HeadersInv, ReadInTurn, parseVars, SectionsLeft
<1> QED BY <1>1, <1>3, <1>4, <1>5, SameBytes DEF HeadersInv, parseVars

LEMMA FailsKeeps == HeadersInv /\ ReadFails => HeadersInv'
<1> SUFFICES ASSUME HeadersInv, ReadFails PROVE HeadersInv'
  OBVIOUS
<1>1. /\ wanted # Source!Nothing /\ wanted' = Source!Nothing
      /\ stage' = "failed"
      /\ UNCHANGED parseVars
  BY DEF ReadFails, Source!Refuse
<1>2. stage \in Structs \cup {"optional"} => position' \in Nat
  BY AmountType DEF ReadFails, Source!Refuse, HeadersInv, ReadInTurn
<1>3. UNCHANGED <<peHeader, peAt, members>> /\ UNCHANGED <<remaining, turn, table, stored>>
  BY <1>1 DEF parseVars
<1>4. TypeOK'
  BY <1>1, <1>3 DEF HeadersInv, TypeOK, Stages
<1>5. ReadInTurn'
  BY <1>1, <1>2 DEF ReadFails, Source!Refuse, HeadersInv, ReadInTurn
<1>6. StageInv' /\ TableIsTheFile'
  BY <1>1, <1>3 DEF HeadersInv, StageInv, Early, ReadInTurn, Structs, TableIsTheFile
<1> QED BY <1>3, <1>4, <1>5, <1>6, SameBytes DEF HeadersInv

\* Up to the magic of the optional header no member and no section is read.
LEMMA EarlyKeeps ==
    HeadersInv /\ (ReadDosHeader \/ SeekPeHeader \/ ReadPeHeader) => HeadersInv'
<1> SUFFICES ASSUME HeadersInv, ReadDosHeader \/ SeekPeHeader \/ ReadPeHeader
             PROVE  HeadersInv'
  OBVIOUS
<1>1. /\ stage \in {"DosHeader", "seek", "PeHeader"}
      /\ stage' \in {"seek", "PeHeader", "magic", "failed"}
      /\ UNCHANGED <<remaining, turn, members, table, stored>>
  BY DEF ReadDosHeader, SeekPeHeader, ReadPeHeader, Delivered, parseVars
<1>2. members = [k \in Members |-> <<>>] /\ table = <<>> /\ ~stored
  BY <1>1 DEF HeadersInv, StageInv, Early
<1>3. /\ position' \in Nat /\ wanted' = Source!Nothing
      /\ stage' = "magic" =>
            /\ position' = position + SizeOf["PeHeader"]
            /\ peAt' = position
            /\ peHeader'.optional >= SizeOf["magic"]
  <2>1. CASE ReadDosHeader
    BY <2>1, <1>1, Delivery DEF ReadDosHeader, Delivered, Structs, HeadersInv, ReadInTurn
  <2>2. CASE SeekPeHeader
    <3>1. peHeader.peOff \in Nat
      BY FileSays DEF HeadersInv
    <3> QED BY <2>2, <3>1 DEF SeekPeHeader, Source!Seek, HeadersInv, ReadInTurn
  <2>3. CASE ReadPeHeader
    <3>1. stage = "PeHeader" /\ Source!Deliver /\ peAt' = position
      BY <2>3 DEF ReadPeHeader, Delivered
    <3>2. PICK n \in Nat : /\ stage # "optional" => n = Amount
                           /\ position' = position + n
                           /\ wanted' = Source!Nothing
      BY <3>1, Delivery DEF Structs
    <3>3. n = SizeOf["PeHeader"] /\ position \in Nat
      BY <3>1, <3>2 DEF Amount, HeadersInv, ReadInTurn
    <3>4. stage' = "magic" => peHeader'.optional >= SizeOf["magic"]
      BY <2>3 DEF ReadPeHeader, Accepts, HeadersInv, TypeOK
    <3> QED BY <3>1, <3>2, <3>3, <3>4
  <2> QED BY <2>1, <2>2, <2>3
<1>4. TypeOK'
  <2>1. peAt' \in Nat
    BY DEF ReadDosHeader, SeekPeHeader, ReadPeHeader, parseVars, HeadersInv, TypeOK,
       ReadInTurn
  <2>2. peHeader' \in [peOff : PeOffs \cup {0}, optional : OptionalSizes \cup {0},
                       sections : SectionCounts \cup {0}]
    BY DEF ReadDosHeader, SeekPeHeader, ReadPeHeader, parseVars, HeadersInv, TypeOK
  <2> QED BY <1>1, <2>1, <2>2 DEF HeadersInv, TypeOK, Stages
<1>5. ReadInTurn'
  BY <1>3 DEF ReadInTurn
<1>6. stage' = "magic" => position' = OptionalAt'
  BY <1>3 DEF OptionalAt
<1>7. StageInv' /\ TableIsTheFile'
  BY <1>1, <1>2, <1>3, <1>6 DEF StageInv, Early, TableIsTheFile
<1> QED BY <1>1, <1>2, <1>4, <1>5, <1>7, NoBytes DEF HeadersInv

\* The optional header is read from behind its magic, if any of it is left.
LEMMA MagicKeeps == HeadersInv /\ ReadMagic => HeadersInv'
<1> SUFFICES ASSUME HeadersInv, ReadMagic PROVE HeadersInv'
  OBVIOUS
<1> DEFINE left == peHeader.optional - SizeOf["magic"]
<1>1. /\ stage = "magic" /\ Source!Deliver
      /\ UNCHANGED <<peHeader, peAt, members, table, stored>>
  BY DEF ReadMagic, Delivered
<1>2. /\ members = [k \in Members |-> <<>>] /\ table = <<>> /\ ~stored
      /\ position = OptionalAt /\ peHeader.optional >= SizeOf["magic"]
  BY <1>1 DEF HeadersInv, StageInv, Early
<1>3. left \in Nat /\ left < Word /\ left % Word = left
  <2>1. SizeOf["magic"] \in Nat /\ peHeader.optional \in Nat
    BY FileSays, Sizes DEF HeadersInv
  <2>2. left \in Nat /\ left < Word
    BY <1>2, <2>1, FileSays, HeadersAssumption DEF HeadersInv
  <2> QED BY <2>2, NoWrap
<1>4. position' = position + SizeOf["magic"] /\ wanted' = Source!Nothing
  BY <1>1, Delivery DEF Structs, Amount
<1>5. position' \in Nat /\ position' = TableAt - left /\ TableAt \in Nat
  <2>1. peAt \in Nat /\ peHeader.optional \in Nat
    BY FileSays DEF HeadersInv, TypeOK
  <2>2. SizeOf["PeHeader"] \in Nat /\ SizeOf["magic"] \in Nat
    BY Sizes
  <2>3. /\ OptionalAt \in Nat
        /\ TableAt = OptionalAt + peHeader.optional
    BY <2>1, <2>2 DEF OptionalAt, TableAt
  <2>4. position' = OptionalAt + SizeOf["magic"]
    BY <1>2, <1>4
  <2> QED BY <1>2, <2>1, <2>2, <2>3, <2>4
<1>6. \/ /\ stage' = "optional" /\ turn' = 1 /\ remaining' = left /\ left > 0
      \/ /\ stage' = "PeSectionHeader" /\ turn' = 1 /\ remaining' = left
         /\ left = 0
      \/ stage' = "segments" /\ UNCHANGED <<remaining, turn>>
  <2>1. 1 \in Members
    BY HeadersAssumption DEF Members
  <2> QED BY <1>3, <2>1 DEF ReadMagic, GotoMember
<1>7. TypeOK'
  <2>1. turn' \in Nat \ {0} /\ stage' \in Stages
    BY <1>6 DEF HeadersInv, TypeOK, Stages
  <2>2. remaining' \in 0..(Word - 1)
    <3>1. left \in 0..(Word - 1)
      BY <1>3, HeadersAssumption
    <3>2. remaining' = left \/ remaining' = remaining
      BY <1>6
    <3> HIDE DEF left
    <3> QED BY <3>1, <3>2 DEF HeadersInv, TypeOK
  <2> QED BY <1>1, <2>1, <2>2 DEF HeadersInv, TypeOK
<1>8. CASE stage' = "optional"
  <2>1. OptionalInTurn'
    <3>1. OptionalAt' = OptionalAt /\ TableAt' = TableAt
      BY <1>1, SamePlaces
    <3>2. 1 \in Members /\ Offset(1) = SizeOf["magic"]
      BY HeadersAssumption, Sizes DEF Members, Offset
    <3>3. turn' = 1 /\ remaining' = left /\ left \in Nat /\ left > 0
      BY <1>3, <1>6, <1>8
    <3>4. position' = OptionalAt' + Offset(turn')
      BY <1>2, <1>4, <3>1, <3>2, <3>3
    <3>5. remaining' \in 1..(peHeader'.optional - SizeOf["magic"])
      BY <1>1, <3>3
    <3>6. \A k \in Members : members'[k] = <<>>
      BY <1>1, <1>2
    <3> QED BY <1>5, <3>1, <3>2, <3>3, <3>4, <3>5, <3>6 DEF OptionalInTurn
  <2> QED BY <1>1, <1>2, <1>4, <1>5, <1>7, <1>8, <2>1, NoBytes
          DEF HeadersInv, StageInv, ReadInTurn, Early, TableIsTheFile
<1>9. CASE stage' = "PeSectionHeader"
  <2>1. SectionInTurn'
    <3>1. TableAt' = TableAt /\ peHeader'.sections \in Nat
      BY <1>1, SamePlaces, FileSays DEF HeadersInv
    <3>2. turn' = 1 /\ position' = TableAt' /\ table' = <<>>
      BY <1>1, <1>2, <1>3, <1>5, <1>6, <1>9, <3>1
    <3> QED BY <3>1, <3>2 DEF SectionInTurn, TableStartsAt
  <2> QED BY <1>1, <1>2, <1>4, <1>5, <1>7, <1>9, <2>1, NoBytes
          DEF HeadersInv, StageInv, ReadInTurn, Early, TableIsTheFile
<1>10. CASE stage' = "segments"
  BY <1>1, <1>2, <1>4, <1>5, <1>7, <1>10, NoBytes
     DEF HeadersInv, StageInv, ReadInTurn, Early, TableIsTheFile
<1> QED BY <1>6, <1>8, <1>9, <1>10

\* A member that is read takes its bytes from behind the position, and what is
\* left of the header shrinks by as many.
LEMMA MemberRead ==
    ASSUME HeadersInv, ReadOptionalHeader
    PROVE  /\ OptionalInTurn /\ UNCHANGED <<peHeader, peAt, table, stored>>
           /\ \E n \in Nat :
                 /\ n <= remaining /\ n <= MemberSize(turn)
                 /\ members' = [members EXCEPT ![turn] = Source!From(position, n)]
                 /\ Source!From(position, n) \in Seq(Nat)
                 /\ position' = position + n /\ position' \in Nat
                 /\ wanted' = Source!Nothing
                 /\ remaining' = remaining - n
                 /\ remaining' \in 0..(Word - 1)
           /\ \/ /\ stage' = "optional" /\ turn' = turn + 1
                 /\ turn + 1 \in Members /\ remaining' > 0
              \/ /\ stage' = "PeSectionHeader" /\ turn' = 1
                 /\ turn + 1 \notin Members \/ remaining' <= 0
<1>1. stage = "optional" /\ Source!Deliver
  BY DEF ReadOptionalHeader, Delivered
<1>2. OptionalInTurn
  BY <1>1 DEF HeadersInv, StageInv
<1>3. PICK n \in Nat : /\ n <= Amount
                       /\ bytes' = Source!From(position, n)
                       /\ bytes' \in Seq(Nat) /\ Len(bytes') = n
                       /\ position' = position + n
                       /\ wanted' = Source!Nothing
  BY <1>1, Delivery
<1>4. /\ remaining \in Nat /\ remaining <= peHeader.optional
      /\ MemberSize(turn) \in Nat
  BY <1>2, NextOffset, Sizes, FileSays DEF OptionalInTurn, HeadersInv
<1>5. n <= remaining /\ n <= MemberSize(turn)
  BY <1>1, <1>3, <1>4, AmountType DEF HeadersInv
<1>6. remaining' = remaining - n /\ remaining' \in 0..(Word - 1)
  <2>1. remaining - n \in Nat /\ remaining - n < Word
    BY <1>3, <1>4, <1>5, FileSays, HeadersAssumption DEF HeadersInv
  <2>2. remaining' = (remaining - n) % Word
    BY <1>3 DEF ReadOptionalHeader, Left
  <2>3. remaining' = remaining - n
    BY <2>1, <2>2, NoWrap
  <2> QED BY <2>1, <2>3, HeadersAssumption
<1>7. \/ /\ stage' = "optional" /\ turn' = turn + 1
         /\ turn + 1 \in Members /\ remaining' > 0
      \/ /\ stage' = "PeSectionHeader" /\ turn' = 1
         /\ turn + 1 \notin Members \/ remaining' <= 0
  BY <1>6 DEF ReadOptionalHeader, GotoMember
<1>8. position' \in Nat
  BY <1>3 DEF HeadersInv, ReadInTurn
<1> QED BY <1>2, <1>3, <1>5, <1>6, <1>7, <1>8 DEF ReadOptionalHeader

\* As long as every member before it was whole, a member is where the format
\* puts it, and so is what follows it.
LEMMA OptionalKeeps == HeadersInv /\ ReadOptionalHeader => HeadersInv'
<1> SUFFICES ASSUME HeadersInv, ReadOptionalHeader PROVE HeadersInv'
  OBVIOUS
<1>0. PICK k \in Members : k = turn
  BY MemberRead DEF OptionalInTurn
<1>1. /\ OptionalInTurn /\ UNCHANGED <<peHeader, peAt, table, stored>>
      /\ \/ /\ stage' = "optional" /\ turn' = k + 1
            /\ k + 1 \in Members /\ remaining' > 0
         \/ /\ stage' = "PeSectionHeader" /\ turn' = 1
            /\ k + 1 \notin Members \/ remaining' <= 0
  BY <1>0, MemberRead
<1>2. PICK n \in Nat :
         /\ n <= remaining /\ n <= MemberSize(k)
         /\ members' = [members EXCEPT ![k] = Source!From(position, n)]
         /\ Source!From(position, n) \in Seq(Nat)
         /\ position' = position + n /\ position' \in Nat
         /\ wanted' = Source!Nothing
         /\ remaining' = remaining - n
         /\ remaining' \in 0..(Word - 1)
  BY <1>0, MemberRead
<1>3. /\ n <= remaining /\ n <= MemberSize(k)
      /\ position' = position + n /\ remaining' = remaining - n
  BY <1>2
<1>4. /\ k \in Members /\ k \in Nat \ {0} /\ k + 1 \in Nat \ {0}
      /\ remaining \in Nat /\ remaining > 0 /\ position \in Nat
      /\ TableAt \in Nat /\ OptionalAt \in Nat
      /\ position = TableAt - remaining
      /\ TableAt = OptionalAt + peHeader.optional
      /\ MemberSize(k) \in Nat /\ Offset(k) \in Nat
      /\ Offset(k + 1) = Offset(k) + MemberSize(k)
      /\ peHeader.optional \in Nat /\ SizeOf["magic"] \in Nat
      /\ remaining <= peHeader.optional - SizeOf["magic"]
      /\ DirCount \in Nat /\ k <= 2 + DirCount
  <2>1. peAt \in Nat /\ peHeader.optional \in Nat
    BY FileSays DEF HeadersInv, TypeOK
  <2>2. OptionalAt \in Nat /\ TableAt \in Nat
    BY <2>1, Sizes DEF OptionalAt, TableAt
  <2>3. k \in Members /\ position = TableAt - remaining /\ remaining > 0
        /\ remaining \in Nat /\ position \in Nat
    BY <1>0, <1>1, Sizes, <2>1 DEF OptionalInTurn, HeadersInv, ReadInTurn
  <2>4. k \in Nat \ {0} /\ k + 1 \in Nat \ {0}
    BY <2>3, HeadersAssumption DEF Members
  <2>5. SizeOf["magic"] \in Nat /\ remaining <= peHeader.optional - SizeOf["magic"]
    BY <1>0, <1>1, <2>1, Sizes DEF OptionalInTurn
  <2>6. DirCount \in Nat /\ k <= 2 + DirCount
    BY <2>3, HeadersAssumption DEF Members
  <2> QED BY <2>1, <2>2, <2>3, <2>4, <2>5, <2>6, NextOffset DEF TableAt
<1>5. TypeOK'
  <2>1. members' \in [Members -> Seq(Nat)]
    BY <1>2 DEF HeadersInv, TypeOK
  <2>2. stage' \in Stages /\ turn' \in Nat \ {0}
    BY <1>1, <1>4 DEF Stages
  <2> QED BY <1>1, <1>2, <2>1, <2>2 DEF HeadersInv, TypeOK
<1>6. ReadInTurn'
  BY <1>2 DEF ReadInTurn
<1>7. /\ OptionalAt' = OptionalAt /\ TableAt' = TableAt
      /\ \A j : Offset(j)' = Offset(j) /\ MemberSize(j)' = MemberSize(j)
      /\ \A j : Present(j)' = Present(j)
  <2>1. OptionalAt' = OptionalAt /\ TableAt' = TableAt
    BY <1>1 DEF OptionalAt, TableAt
  <2>2. \A j : Offset(j)' = Offset(j) /\ MemberSize(j)' = MemberSize(j)
    BY DEF Offset, MemberSize
  <2> QED BY <1>1, <2>1, <2>2 DEF Present
<1>8. /\ Len(members'[k]) = n /\ members'[k] = Source!From(position, n)
      /\ \A j \in Members \ {k} : members'[j] = members[j]
  BY <1>2, <1>4 DEF HeadersInv, TypeOK, Source!From
<1>9. \A j \in Members \ {k} : IsWhole(j)' <=> IsWhole(j)
  BY <1>7, <1>8 DEF IsWhole
<1>10. 1..(k - 1) \subseteq Members \ {k}
  BY <1>4, HeadersAssumption DEF Members
<1>11. (\A j \in 1..(k - 1) : IsWhole(j)') => position = OptionalAt + Offset(k)
  BY <1>0, <1>1, <1>9, <1>10 DEF OptionalInTurn
\* A member that ends before the header does is behind the one before it.
<1>12. (\A j \in 1..k : IsWhole(j)') /\ remaining' > 0 =>
          position' = OptionalAt + Offset(k + 1)
  <2> SUFFICES ASSUME \A j \in 1..k : IsWhole(j)', remaining' > 0
               PROVE  position' = OptionalAt + Offset(k + 1)
    OBVIOUS
  <2>1. position = OptionalAt + Offset(k)
    BY <1>4, <1>11
  <2>2. n = Present(k)
    <3>1. IsWhole(k)' /\ Present(k)' = Present(k)
      BY <1>4, <1>7
    <3> QED BY <1>8, <3>1 DEF IsWhole
  <2>3. peHeader.optional - Offset(k) = remaining
    BY <1>4, <2>1, FileSays DEF HeadersInv
  <2>4. n = MemberSize(k)
    <3>1. Present(k) = IF MemberSize(k) <= remaining THEN MemberSize(k)
                       ELSE remaining
      BY <1>4, <2>3, PresentIs DEF HeadersInv
    <3> QED BY <1>2, <1>4, <2>2, <3>1
  <2> QED BY <1>3, <1>4, <2>1, <2>4
<1>13. HeaderStaysInside'
  <2>1. \A i \in 1..n : members'[k][i] = position + i - 1
    BY <1>8 DEF Source!From
  <2>2. position >= OptionalAt + SizeOf["magic"] /\ position + n <= TableAt
    BY <1>4, <1>3
  <2>3. \A i \in 1..n :
           members'[k][i] \in (OptionalAt + SizeOf["magic"])..(TableAt - 1)
    BY <1>4, <2>1, <2>2
  <2> QED BY <1>7, <1>8, <2>3 DEF HeadersInv, HeaderStaysInside
<1>14. MembersInPlace'
  <2> SUFFICES ASSUME NEW m \in Members, members'[m] # <<>>,
                      \A j \in 1..(m - 1) : IsWhole(j)'
               PROVE  members'[m] =
                         Source!From(OptionalAt + Offset(m), Len(members'[m]))
    BY <1>7 DEF MembersInPlace, Source!From
  <2>1. CASE m = k
    BY <1>8, <1>11, <2>1
  <2>2. CASE m # k
    <3>1. members'[m] = members[m] /\ m < k
      <4>1. members[m] = members'[m]
        BY <1>8, <2>2
      <4>2. m \in Nat /\ k \in Nat
        BY HeadersAssumption DEF Members
      <4>3. ~(m >= k)
        BY <1>0, <1>1, <4>1 DEF OptionalInTurn
      <4> QED BY <4>1, <4>2, <4>3
    <3>2. 1..(m - 1) \subseteq Members \ {k}
      BY <3>1, MembersBefore
    <3> QED BY <1>9, <3>1, <3>2 DEF HeadersInv, MembersInPlace
  <2> QED BY <2>1, <2>2
<1>15. table = <<>> /\ ~stored
  BY DEF HeadersInv, StageInv, Early, ReadOptionalHeader, Delivered
<1>16. CASE stage' = "optional"
  <2>1. OptionalInTurn'
    <3>1. turn' = k + 1 /\ k + 1 \in Members /\ remaining' > 0
      BY <1>1, <1>16
    <3>2. remaining' \in 1..(peHeader'.optional - SizeOf["magic"])
      <4>1. remaining' \in 1..(peHeader.optional - SizeOf["magic"])
        BY <1>4, <1>3, <3>1
      <4> QED BY <1>1, <4>1
    <3>3. position' = TableAt' - remaining'
      <4>1. position' = TableAt - remaining'
        BY <1>3, <1>4
      <4> QED BY <1>7, <4>1
    <3>4. \A m \in Members : m >= k + 1 => members'[m] = <<>>
      <4>1. \A m \in Members : m \in Int /\ (m >= k => members[m] = <<>>)
        BY <1>0, <1>1, <1>4 DEF OptionalInTurn, Members
      <4>2. \A m \in Members \ {k} : members'[m] = members[m]
        BY <1>8
      <4>3. k \in Int
        BY <1>4
      <4> SUFFICES ASSUME NEW m \in Members, m >= k + 1
                   PROVE  members'[m] = <<>>
        OBVIOUS
      <4>4. m >= k /\ m # k
        BY <4>1, <4>3
      <4> QED BY <4>1, <4>2, <4>4
    <3>5. (\A j \in 1..k : IsWhole(j)') => position' = OptionalAt' + Offset(k + 1)
      BY <1>7, <1>12, <3>1
    <3>6. turn' - 1 = k
      BY <1>4, <3>1
    <3> QED BY <1>7, <3>1, <3>2, <3>3, <3>4, <3>5, <3>6 DEF OptionalInTurn
  <2> QED BY <1>1, <1>5, <1>6, <1>13, <1>14, <1>15, <1>16, <2>1
          DEF HeadersInv, StageInv, Early, TableIsTheFile
<1>17. CASE stage' = "PeSectionHeader"
  <2>1. TableStartsAt(position)'
    <3> SUFFICES ASSUME peHeader.optional <= Offset(3 + DirCount),
                        \A j \in Members : IsWhole(j)'
                 PROVE  position' = TableAt
      <4>1. Offset(3 + DirCount)' = Offset(3 + DirCount)
        BY <1>7
      <4>2. peHeader' = peHeader /\ TableAt' = TableAt
        BY <1>1, <1>7
      <4> QED BY <4>1, <4>2 DEF TableStartsAt
    <3>1. CASE remaining' = 0
      BY <1>3, <1>4, <3>1
    <3>2. CASE remaining' > 0
      <4>1. k = 2 + DirCount
        <5>1. k + 1 \notin Members
          BY <1>1, <1>2, <1>17, <3>2
        <5> QED BY <1>4, <5>1 DEF Members
      <4>2. position' = OptionalAt + Offset(3 + DirCount)
        <5>1. k + 1 = 3 + DirCount /\ 1..k \subseteq Members
          BY <1>4, <4>1, HeadersAssumption DEF Members
        <5> QED BY <1>12, <3>2, <5>1
      <4>3. Offset(3 + DirCount) \in Nat
        <5>1. k + 1 = 3 + DirCount
          BY <1>4, <4>1
        <5> QED BY <1>4, <5>1
      <4> QED BY <1>4, <1>3, <3>2, <4>2, <4>3
    <3> QED BY <1>2, <3>1, <3>2
  <2>2. SectionInTurn'
    <3>1. turn' = 1 /\ table' = <<>> /\ peHeader'.sections \in Nat
      BY <1>1, <1>15, <1>17, FileSays DEF HeadersInv
    <3>2. Len(table') = 0 /\ Len(table') = turn' - 1
      BY <3>1
    <3>3. turn' <= peHeader'.sections + 1
      BY <3>1
    <3> QED BY <2>1, <3>1, <3>2, <3>3 DEF SectionInTurn
  <2> QED BY <1>1, <1>5, <1>6, <1>13, <1>14, <1>15, <1>17, <2>2
          DEF HeadersInv, StageInv, Early, TableIsTheFile
<1> QED BY <1>1, <1>16, <1>17

\* A section header that was read has its first byte somewhere in the file.
LEMMA FirstByte ==
    ASSUME TypeOK, SectionInTurn, table # <<>>
    PROVE  Len(table) \in Nat \ {0} /\ table[1][1] \in Nat
<1> DEFINE S == SizeOf["PeSectionHeader"]
<1>1. table \in Seq(Seq(Nat)) /\ S \in Nat \ {0}
  BY Sizes DEF TypeOK
<1>2. Len(table) \in Nat \ {0}
  BY <1>1
<1>3. table[1] = Source!From(table[1][1] + (1 - 1) * S, S)
  BY <1>2 DEF SectionInTurn
<1>4. table[1] \in Seq(Nat) /\ 1 \in DOMAIN table[1]
  <2>1. table[1] \in Seq(Nat)
    BY <1>1, <1>2
  <2>2. DOMAIN table[1] = 1..S
    BY <1>3 DEF Source!From
  <2> QED BY <1>1, <2>1, <2>2
<1> QED BY <1>2, <1>4

\* Each section header is read from behind the one before.
LEMMA SectionKeeps == HeadersInv /\ ReadSection => HeadersInv'
<1> SUFFICES ASSUME HeadersInv, ReadSection PROVE HeadersInv'
  OBVIOUS
<1> DEFINE S == SizeOf["PeSectionHeader"]
<1>1. /\ stage = "PeSectionHeader" /\ Source!Deliver
      /\ table' = Append(table, bytes') /\ turn' = turn + 1
      /\ UNCHANGED <<stage, peHeader, peAt, remaining, members, stored>>
  BY DEF ReadSection, Delivered
<1>2. SectionInTurn /\ ~stored /\ turn <= peHeader.sections
  BY <1>1 DEF HeadersInv, StageInv, ReadInTurn, Source!Deliver, SectionsLeft
<1>3. /\ bytes' = Source!From(position, S) /\ bytes' \in Seq(Nat) /\ Len(bytes') = S
      /\ position' = position + S /\ wanted' = Source!Nothing
  BY <1>1, Delivery DEF Structs, Amount
<1>4. /\ S \in Nat \ {0} /\ position \in Nat /\ turn \in Nat \ {0}
      /\ table \in Seq(Seq(Nat)) /\ peHeader.sections \in Nat
      /\ Len(table) = turn - 1
  BY <1>2, FileSays, Sizes DEF HeadersInv, ReadInTurn, TypeOK, SectionInTurn
<1>5. /\ Len(table') = Len(table) + 1 /\ table'[Len(table) + 1] = bytes'
      /\ table' \in Seq(Seq(Nat)) /\ table' # <<>>
      /\ \A i \in 1..Len(table) : table'[i] = table[i]
  BY <1>1, <1>3, <1>4
<1>6. TypeOK'
  BY <1>1, <1>4, <1>5 DEF HeadersInv, TypeOK
<1>7. \A p : TableStartsAt(p) =>
         (/\ peHeader'.optional <= Offset(3 + DirCount)'
          /\ \A k \in Members : IsWhole(k)'
          => p = TableAt')
  BY <1>1, SamePlaces DEF TableStartsAt
<1>8. ASSUME table = <<>> PROVE SectionInTurn'
  <2>1. Len(table) = 0 /\ Len(table') = 1 /\ table'[1] = bytes'
    BY <1>5, <1>8
  <2>2. table'[1][1] = position
    BY <1>3, <1>4, <2>1 DEF Source!From
  <2>3. TableStartsAt(table[1][1])'
    BY <1>2, <1>7, <1>8, <2>2 DEF SectionInTurn, TableStartsAt
  <2>4. position' = table'[1][1] + Len(table') * S
    BY <1>3, <1>4, <2>1, <2>2
  <2>5. \A i \in 1..Len(table') :
           table'[i] = Source!From(table'[1][1] + (i - 1) * S, S)
    <3>1. table'[1][1] + (1 - 1) * S = position
      BY <1>4, <2>2
    <3>2. table'[1] = Source!From(table'[1][1] + (1 - 1) * S, S)
      BY <1>3, <2>1, <3>1
    <3> QED BY <2>1, <3>2
  <2>6. /\ table' # <<>> /\ Len(table') = turn' - 1
        /\ turn' <= peHeader'.sections + 1
    BY <1>1, <1>2, <1>4, <1>5
  <2> QED BY <2>3, <2>4, <2>5, <2>6 DEF SectionInTurn, Source!From
<1>9. ASSUME table # <<>> PROVE SectionInTurn'
  <2> DEFINE N == Len(table)
             first == table[1][1]
  <2>1. /\ N \in Nat \ {0} /\ first \in Nat
        /\ TableStartsAt(first)
        /\ position = first + N * S
        /\ \A i \in 1..N : table[i] = Source!From(first + (i - 1) * S, S)
    <3>1. /\ TableStartsAt(first) /\ position = first + N * S
          /\ \A i \in 1..N : table[i] = Source!From(first + (i - 1) * S, S)
      BY <1>2, <1>9 DEF SectionInTurn
    <3>2. N \in Nat \ {0} /\ first \in Nat
      BY <1>2, <1>9, FirstByte DEF HeadersInv
    <3> QED BY <3>1, <3>2
  <2>2. table'[1][1] = first
    <3>1. 1 \in 1..N
      BY <2>1
    <3>2. table'[1] = table[1]
      BY <1>5, <3>1
    <3> QED BY <3>2
  <2>3. TableStartsAt(table[1][1])'
    BY <1>7, <2>1, <2>2 DEF TableStartsAt
  <2>4. position' = first + (N + 1) * S
    <3>1. (N + 1) * S = N * S + S /\ N * S \in Nat
      <4>1. N \in Nat /\ S \in Nat
        BY <1>4, <2>1
      <4> HIDE DEF N, S
      <4> QED BY <4>1
    <3>2. position' = position + S /\ position = first + N * S
      BY <1>3, <2>1
    <3>3. first \in Nat /\ S \in Nat
      BY <1>4, <2>1
    <3> HIDE DEF N, S, first
    <3> QED BY <3>1, <3>2, <3>3
  <2>5. \A i \in 1..(N + 1) : table'[i] = Source!From(first + (i - 1) * S, S)
    <3>1. table'[N + 1] = Source!From(first + ((N + 1) - 1) * S, S)
      <4>1. table'[N + 1] = Source!From(position, S)
        BY <1>3, <1>5
      <4>2. (N + 1) - 1 = N
        BY <2>1
      <4> QED BY <2>1, <4>1, <4>2
    <3>2. \A i \in 1..N : table'[i] = Source!From(first + (i - 1) * S, S)
      BY <1>5, <2>1
    <3>3. N \in Nat
      BY <2>1
    <3> HIDE DEF N, S, first
    <3> QED BY <3>1, <3>2, <3>3
  <2>6. /\ table' # <<>> /\ Len(table') = N + 1 /\ Len(table') = turn' - 1
        /\ turn' <= peHeader'.sections + 1
    BY <1>1, <1>2, <1>4, <1>5
  <2> QED BY <2>2, <2>3, <2>4, <2>5, <2>6 DEF SectionInTurn, Source!From
<1>10. StageInv' /\ ReadInTurn' /\ TableIsTheFile'
  BY <1>1, <1>2, <1>3, <1>4, <1>8, <1>9
     DEF StageInv, Early, ReadInTurn, TableIsTheFile
<1> QED BY <1>1, <1>6, <1>10, SameBytes DEF HeadersInv

\* The table that is stored is all that was read.
LEMMA StoreKeeps == HeadersInv /\ StoreSections => HeadersInv'
<1> SUFFICES ASSUME HeadersInv, StoreSections PROVE HeadersInv'
  OBVIOUS
<1>1. /\ stage = "PeSectionHeader" /\ stage' = "segments" /\ stored'
      /\ turn > peHeader.sections
      /\ UNCHANGED <<position, wanted, whole, peHeader, peAt, remaining, turn,
                     members, table>>
  BY FileSays
     DEF StoreSections, SectionsLeft, streamVars, HeadersInv, TypeOK
<1>2. SectionInTurn
  BY <1>1 DEF HeadersInv, StageInv
<1>3. Len(table) = peHeader.sections
  BY <1>1, <1>2, FileSays DEF HeadersInv, TypeOK, SectionInTurn
<1>4. TypeOK'
  <2>1. stored' \in BOOLEAN
    BY DEF StoreSections
  <2> QED BY <1>1, <2>1 DEF HeadersInv, TypeOK, Stages
<1>5. TableIsTheFile
  <2> SUFFICES ASSUME stored PROVE FALSE
    BY DEF TableIsTheFile
  <2> QED BY <1>1 DEF HeadersInv, StageInv
<1>6. TableIsTheFile'
  <2>1. CASE table = <<>>
    <3>1. Len(table') = peHeader'.sections /\ table' = <<>> /\ Len(table') = 0
      BY <1>1, <1>3, <2>1
    <3> QED BY <3>1 DEF TableIsTheFile
  <2>2. CASE table # <<>>
    <3> DEFINE S == SizeOf["PeSectionHeader"]
    <3>1. /\ TableStartsAt(table[1][1])
          /\ \A i \in 1..Len(table) :
                table[i] = Source!From(table[1][1] + (i - 1) * S, S)
      BY <1>2, <2>2 DEF SectionInTurn
    <3>2. table[1][1] + (1 - 1) * S = table[1][1]
      BY <1>2, <2>2, FirstByte, Sizes DEF HeadersInv
    <3>3. (/\ peHeader.optional <= Offset(3 + DirCount)
           /\ \A k \in Members : IsWhole(k)
           => table[1][1] + (1 - 1) * S = TableAt)'
      BY <1>1, <3>1, <3>2, SamePlaces DEF TableStartsAt
    <3> QED BY <1>1, <1>3, <3>1, <3>3 DEF TableIsTheFile, Source!From
  <2> QED BY <2>1, <2>2
<1>7. StageInv' /\ ReadInTurn'
  <2>1. wanted' = wanted /\ wanted = Source!Nothing
    BY <1>1 DEF StoreSections, HeadersInv, ReadInTurn
  <2>2. StageInv'
    BY <1>1 DEF StageInv, Early
  <2> QED BY <1>1, <2>1, <2>2 DEF HeadersInv, ReadInTurn
<1> QED BY <1>1, <1>4, <1>6, <1>7, SameBytes DEF HeadersInv

LEMMA DoneKeeps == HeadersInv /\ (Done \/ UNCHANGED vars) => HeadersInv'
<1> SUFFICES ASSUME HeadersInv, UNCHANGED vars PROVE HeadersInv'
  BY DEF Done
<1>1. /\ UNCHANGED <<position, wanted, whole, stage, peHeader, peAt, remaining,
                     turn, members, table, stored>>
  BY DEF vars, streamVars, parseVars
<1>2. TypeOK' /\ TableIsTheFile'
  <2>1. TypeOK'
    BY <1>1 DEF HeadersInv, TypeOK
  <2>2. TableIsTheFile'
    BY <1>1, SamePlaces DEF HeadersInv, TableIsTheFile, Source!From
  <2> QED BY <2>1, <2>2
<1>3. StageInv'
  BY <1>1, SameStage DEF HeadersInv
<1>4. ReadInTurn'
  <2>1. Amount' = Amount /\ (SectionsLeft' <=> SectionsLeft)
    BY <1>1 DEF Amount, MemberSize, SectionsLeft
  <2> QED BY <1>1, <2>1 DEF HeadersInv, ReadInTurn
<1> QED BY <1>1, <1>2, <1>3, <1>4, SameBytes DEF HeadersInv

\* The invariant holds in every reachable state; the theorems are read off it.
LEMMA HeadersCorrect == Spec => []HeadersInv
<1>1. HeadersInv /\ [Next]_vars => HeadersInv'
  BY ReadKeeps, FailsKeeps, EarlyKeeps, MagicKeeps, OptionalKeeps, SectionKeeps,
     StoreKeeps, DoneKeeps DEF Next, Step
<1> QED BY <1>1, HeadersInit, PTL DEF Spec

\* Every variable stays in its range; what is left of the optional header, a
\* 16 bit number, never wraps.
THEOREM HeaderTypes == Spec => []TypeOK
<1>1. HeadersInv => TypeOK
  BY DEF HeadersInv
<1> QED BY <1>1, HeadersCorrect, PTL

\* No byte behind the optional header is stored in one of its members, whatever
\* sizes a file names and however the reads are split.
THEOREM OptionalHeaderStaysInside == Spec => []HeaderStaysInside
<1>1. HeadersInv => HeaderStaysInside
  BY DEF HeadersInv
<1> QED BY <1>1, HeadersCorrect, PTL

\* A member holds the bytes the format gives it, unless a read before it fell
\* short.
THEOREM MembersAreInPlace == Spec => []MembersInPlace
<1>1. HeadersInv => MembersInPlace
  BY DEF HeadersInv
<1> QED BY <1>1, HeadersCorrect, PTL

\* A section table that is stored is whole, and is the file's.
THEOREM TableIsFromFile == Spec => []TableIsTheFile
<1>1. HeadersInv => TableIsTheFile
  BY DEF HeadersInv
<1> QED BY <1>1, HeadersCorrect, PTL

-----------------------------------------------------------------------------
(* The stages of PeLoader *)

\* What PeLoader sees of a stage: its label, whether the table is stored, and
\* whether the parse has failed.
LEMMA SameView ==
    ASSUME stored' = stored, Parsed' = Parsed, InPeLoader' = InPeLoader,
           stage' = "failed" <=> stage = "failed"
    PROVE  UNCHANGED Loader!vars
BY DEF Loader!vars

\* An error return of a stage, of any of those on the way.
LEMMA FailsInPeLoader ==
    ASSUME stage # "failed", stage' = "failed", stored' = stored, Parsed' = Parsed
    PROVE  /\ Loader!FailWith("t", "negative")
           /\ Loader!ReadFails("t")
<1>1. InPeLoader' = "closeFile"
  BY DEF InPeLoader
<1>2. Parsed.fileType = "TYPE_FILE"
  BY DEF Parsed
<1>3. Loader!FailWith("t", "negative")
  BY <1>1 DEF Loader!FailWith, Loader!Goto
<1> QED BY <1>2, <1>3 DEF Loader!ReadFails

\* Going on from one stage to the next.
LEMMA ContinuesInPeLoader ==
    ASSUME NEW label, stage # "failed", stage' # "failed", InPeLoader' = label
    PROVE  Loader!Continue("t", label)
BY DEF Loader!Continue, Loader!Goto

\* Every stage has an error exit.
LEMMA ErrorExit ==
    ASSUME stage \in {"DosHeader", "PeHeader", "magic", "optional",
                      "PeSectionHeader"},
           stage' = "failed", stored' = stored, Parsed' = Parsed
    PROVE  \/ Loader!ReadDosHeader("t") \/ Loader!ReadPeHeader("t")
           \/ Loader!ReadMagic("t") \/ Loader!ParsePeHeaders("t")
<1>1. Loader!FailWith("t", "negative") /\ Loader!ReadFails("t")
  BY FailsInPeLoader
<1>2. CASE stage = "DosHeader"
  BY <1>1, <1>2 DEF InPeLoader, Loader!ReadDosHeader, Loader!At, Loader!resVars,
                    Loader!hostVars, Loader!callVars
<1>3. CASE stage = "PeHeader"
  BY <1>1, <1>3 DEF InPeLoader, Loader!ReadPeHeader, Loader!At, Loader!resVars,
                    Loader!hostVars, Loader!callVars
<1>4. CASE stage = "magic"
  BY <1>1, <1>4 DEF InPeLoader, Loader!ReadMagic, Loader!At, Loader!resVars,
                    Loader!hostVars, Loader!callVars
<1>5. CASE stage \in {"optional", "PeSectionHeader"}
  BY <1>1, <1>5 DEF InPeLoader, Loader!ParsePeHeaders, Loader!At,
                    Loader!hostVars, Loader!callVars
<1> QED BY <1>2, <1>3, <1>4, <1>5

\* The members that reading the headers sets.
Recorded(dirs, n, array) ==
    [fileType          |-> "TYPE_FILE",
     fileHandle        |-> "3",
     callback          |-> "nullptr",
     dataDirs          |-> dirs,
     sectionCount      |-> n,
     sections          |-> array,
     sectionAllocation |-> "nullptr",
     importCount       |-> "none",
     imports           |-> "nullptr",
     exportCount       |-> "none",
     exports           |-> "nullptr"]

\* Storing the section table is the other exit of parsePeHeaders.
LEMMA TableStored ==
    ASSUME TypeOK, ~stored, StoreSections
    PROVE  Loader!ParsePeHeaders("t")
<1>1. /\ stage = "PeSectionHeader" /\ stage' = "segments" /\ stored'
      /\ peHeader' = peHeader /\ members' = members
  BY DEF StoreSections
<1>2. Loader!Continue("t", "segments")
  BY <1>1, ContinuesInPeLoader DEF InPeLoader
<1>3. Loader!HeadersRead("t")
  <2> DEFINE n == IF peHeader.sections > 0 THEN "some" ELSE "none"
             dirs == IF \E k \in Members \ {1, 2} : members[k] # <<>>
                     THEN "read" ELSE "zeroed"
  <2>1. n \in Loader!Counts /\ dirs \in {"read", Parsed.dataDirs}
    BY DEF Loader!Counts, Parsed
  <2>2. Parsed' = [Parsed EXCEPT !.dataDirs = dirs, !.sectionCount = n,
                                 !.sections = "own"]
    <3>1. Parsed' = Recorded(dirs, n, "own")
      BY <1>1 DEF Parsed, Recorded
    <3>2. PICK d, c, p : Parsed = Recorded(d, c, p)
      BY DEF Parsed, Recorded
    <3> HIDE DEF dirs, n
    <3>3. [Parsed EXCEPT !.dataDirs = dirs] = Recorded(dirs, c, p)
      BY <3>2 DEF Recorded
    <3>4. [Recorded(dirs, c, p) EXCEPT !.sectionCount = n] = Recorded(dirs, n, p)
      BY DEF Recorded
    <3>5. [Recorded(dirs, n, p) EXCEPT !.sections = "own"] = Recorded(dirs, n, "own")
      BY DEF Recorded
    <3> QED BY <3>1, <3>3, <3>4, <3>5
  <2>3. [f \in {"f"} |-> Parsed'] =
           [[f \in {"f"} |-> Parsed] EXCEPT !["f"].dataDirs = dirs,
                                           !["f"].sectionCount = n,
                                           !["f"].sections = "own"]
    <3> DEFINE g == [f \in {"f"} |-> Parsed]
    <3> QED BY <2>2 DEF Parsed
  <2> HIDE DEF n, dirs
  <2> QED BY <1>1, <1>2, <2>1, <2>3 DEF Loader!HeadersRead
<1> QED BY <1>1, <1>3 DEF InPeLoader, Loader!ParsePeHeaders, Loader!At,
                         Loader!hostVars, Loader!callVars

\* Each step reads a structure within a stage, or takes one of its exits.
LEMMA StageStep ==
    ASSUME HeadersInv, [Next]_vars
    PROVE  [\/ Loader!ReadDosHeader("t") \/ Loader!ReadPeHeader("t")
            \/ Loader!ReadMagic("t") \/ Loader!ParsePeHeaders("t")]_(Loader!vars)
<1>1. TypeOK /\ StageInv /\ ReadInTurn /\ (stored => stage = "segments")
  BY DEF HeadersInv, StageInv
<1>2. CASE Read \/ Done \/ UNCHANGED vars
  <2>1. UNCHANGED <<stage, peHeader, members, stored>>
    BY <1>2 DEF Read, Done, vars, parseVars
  <2> QED BY <2>1, SameView DEF Parsed, InPeLoader
<1>3. CASE ReadFails
  <2>1. /\ stage \in Structs \cup {"optional"} /\ stage' = "failed"
        /\ UNCHANGED <<peHeader, members, stored>>
    BY <1>1, <1>3 DEF ReadFails, Source!Refuse, ReadInTurn, parseVars
  <2>2. stage \in {"DosHeader", "PeHeader", "magic", "optional",
                   "PeSectionHeader"}
    BY <1>1, <2>1 DEF Structs, TypeOK, Stages
  <2> QED BY <2>1, <2>2, ErrorExit DEF Parsed
<1>4. CASE ReadDosHeader
  <2>1. /\ stage = "DosHeader" /\ stage' \in {"seek", "failed"}
        /\ UNCHANGED <<members, stored>> /\ ~stored
    BY <1>1, <1>4 DEF ReadDosHeader, Delivered
  <2>2. Parsed' = Parsed
    BY <2>1 DEF Parsed
  <2>3. CASE stage' = "seek"
    BY <2>1, <2>2, <2>3, SameView DEF InPeLoader
  <2> QED BY <2>1, <2>2, <2>3, ErrorExit
<1>5. CASE SeekPeHeader
  <2>1. /\ stage = "seek" /\ stage' = "PeHeader"
        /\ UNCHANGED <<peHeader, members, stored>>
    BY <1>5 DEF SeekPeHeader, parseVars
  <2>2. Parsed' = Parsed
    BY <2>1 DEF Parsed
  <2>3. Loader!Continue("t", "peHeader")
    BY <2>1, ContinuesInPeLoader DEF InPeLoader
  <2> QED BY <2>1, <2>2, <2>3 DEF InPeLoader, Loader!ReadDosHeader, Loader!At,
             Loader!resVars, Loader!hostVars, Loader!callVars
<1>6. CASE ReadPeHeader
  <2>1. /\ stage = "PeHeader" /\ stage' \in {"magic", "failed"}
        /\ UNCHANGED <<members, stored>> /\ ~stored
    BY <1>1, <1>6 DEF ReadPeHeader, Delivered
  <2>2. Parsed' = Parsed
    BY <2>1 DEF Parsed
  <2>3. CASE stage' = "magic"
    <3>1. Loader!Continue("t", "magic")
      BY <2>1, <2>3, ContinuesInPeLoader DEF InPeLoader
    <3> QED BY <2>1, <2>2, <3>1 DEF InPeLoader, Loader!ReadPeHeader, Loader!At,
               Loader!resVars, Loader!hostVars, Loader!callVars
  <2> QED BY <2>1, <2>2, <2>3, ErrorExit
<1>7. CASE ReadMagic
  <2>1. /\ stage = "magic"
        /\ stage' \in {"optional", "PeSectionHeader", "segments"}
        /\ UNCHANGED <<peHeader, members, stored>>
    BY <1>7 DEF ReadMagic, Delivered, GotoMember
  <2>2. Parsed' = Parsed
    BY <2>1 DEF Parsed
  <2>3. Parsed.fileType = "TYPE_FILE"
    BY DEF Parsed
  <2>4. CASE stage' = "segments"
    <3>1. Loader!Continue("t", "segments")
      BY <2>1, <2>4, ContinuesInPeLoader DEF InPeLoader
    <3> QED BY <2>1, <2>2, <3>1 DEF InPeLoader, Loader!ReadMagic, Loader!At,
               Loader!resVars, Loader!hostVars, Loader!callVars
  <2>5. CASE stage' # "segments"
    <3>1. Loader!Continue("t", "headers")
      BY <2>1, <2>5, ContinuesInPeLoader DEF InPeLoader
    <3> QED BY <2>1, <2>2, <2>3, <3>1 DEF InPeLoader, Loader!ReadMagic,
               Loader!At, Loader!resVars, Loader!hostVars, Loader!callVars
  <2> QED BY <2>4, <2>5
<1>8. CASE ReadOptionalHeader \/ ReadSection
  <2>1. /\ stage \in {"optional", "PeSectionHeader"}
        /\ stage' \in {"optional", "PeSectionHeader"}
        /\ UNCHANGED stored /\ ~stored
    BY <1>1, <1>8
       DEF ReadOptionalHeader, ReadSection, Delivered, GotoMember
  <2>2. Parsed' = Parsed
    BY <2>1 DEF Parsed
  <2> QED BY <2>1, <2>2, SameView DEF InPeLoader
<1>9. CASE StoreSections
  <2>1. ~stored
    BY <1>1, <1>9 DEF StoreSections
  <2> QED BY <1>1, <1>9, <2>1, TableStored
<1> QED BY <1>2, <1>3, <1>4, <1>5, <1>6, <1>7, <1>8, <1>9 DEF Next, Step

\* Reading one structure at a time is one of the four stages or no step of
\* PeLoader, for structures of every size: what is stored before the table is
\* stays out of sight.
THEOREM HeadersAreStages == Spec => StagesOfPeLoader
<1>1. Spec => []HeadersInv
  BY HeadersCorrect
<1>2. HeadersInv /\ [Next]_vars =>
         [\/ Loader!ReadDosHeader("t") \/ Loader!ReadPeHeader("t")
          \/ Loader!ReadMagic("t") \/ Loader!ParsePeHeaders("t")]_(Loader!vars)
  BY StageStep
<1> QED BY <1>1, <1>2, PTL DEF Spec, StagesOfPeLoader

-----------------------------------------------------------------------------
(* The parse comes to an end *)

\* The stages are passed in this order.
StagesLeft ==
    [name \in Stages |->
        CASE name = "DosHeader"       -> 6
          [] name = "seek"            -> 5
          [] name = "PeHeader"        -> 4
          [] name = "magic"           -> 3
          [] name = "optional"        -> 2
          [] name = "PeSectionHeader" -> 1
          [] OTHER                    -> 0]

\* The structures a stage has yet to read at most, behind the one in turn.
StructsLeft ==
    CASE stage = "optional"        -> 2 + DirCount - turn
      [] stage = "PeSectionHeader" -> peHeader.sections + 1 - turn
      [] OTHER                     -> 0

\* Each of them is asked for and then delivered.
StepsLeft == 2 * StructsLeft + (IF wanted = Source!Nothing THEN 1 ELSE 0)

\* A step ends its stage or leaves fewer steps of it.
ParseMovesOn ==
    [][\/ StagesLeft[stage'] < StagesLeft[stage]
       \/ stage' = stage /\ StepsLeft' < StepsLeft]_vars

\* No read is repeated, not even one that delivered nothing: whatever sizes a
\* file names and wherever it ends, the parse is over after as many reads as
\* there are structures in the loader's headers and in the section table.
THEOREM ParseIsFinite == Spec => ParseMovesOn /\ [](StepsLeft \in Nat)
<1> DEFINE MovesOn == \/ StagesLeft[stage'] < StagesLeft[stage]
                      \/ stage' = stage /\ StepsLeft' < StepsLeft
<1>1. HeadersInv => StepsLeft \in Nat
  <2> SUFFICES ASSUME HeadersInv PROVE StepsLeft \in Nat OBVIOUS
  <2>1. /\ turn \in Nat /\ DirCount \in Nat /\ peHeader.sections \in Nat
        /\ stage = "optional" => turn \in Members
        /\ stage = "PeSectionHeader" => turn <= peHeader.sections + 1
    BY FileSays, HeadersAssumption
       DEF HeadersInv, TypeOK, StageInv, OptionalInTurn, SectionInTurn
  <2> QED BY <2>1 DEF StepsLeft, StructsLeft, Members
<1>2. ASSUME HeadersInv, Step PROVE MovesOn
  <2>1. /\ turn \in Nat /\ DirCount \in Nat /\ peHeader.sections \in Nat
        /\ stage \in Stages
    BY <1>2, FileSays, HeadersAssumption DEF HeadersInv, TypeOK
  <2>2. CASE Read
    <3>1. /\ wanted = Source!Nothing /\ wanted' # Source!Nothing
          /\ UNCHANGED <<stage, turn, peHeader>>
      <4>1. Amount \in Nat
        BY <1>2, <2>2, AmountType DEF Read, HeadersInv
      <4> QED BY <2>2, <4>1 DEF Read, Source!Ask, Source!Nothing, parseVars
    <3> QED BY <2>1, <3>1 DEF StepsLeft, StructsLeft
  <2>3. CASE ReadFails
    <3>1. stage \in Structs \cup {"optional"} /\ stage' = "failed"
      BY <1>2, <2>3 DEF ReadFails, Source!Refuse, HeadersInv, ReadInTurn
    <3> QED BY <2>1, <3>1 DEF StagesLeft, Stages, Structs
  <2>4. CASE ReadDosHeader \/ SeekPeHeader
    BY <2>4 DEF ReadDosHeader, SeekPeHeader, Delivered, StagesLeft, Stages
  <2>5. CASE ReadPeHeader
    <3>1. stage = "PeHeader" /\ stage' \in {"magic", "failed"}
      BY <2>5 DEF ReadPeHeader, Delivered
    <3> QED BY <3>1 DEF StagesLeft, Stages
  <2>6. CASE ReadMagic
    <3>1. /\ stage = "magic"
          /\ stage' \in {"optional", "PeSectionHeader", "segments"}
      BY <2>6 DEF ReadMagic, Delivered, GotoMember
    <3> QED BY <3>1 DEF StagesLeft, Stages
  <2>7. CASE ReadOptionalHeader
    <3>1. /\ stage = "optional"
          /\ \/ stage' = "PeSectionHeader"
             \/ stage' = "optional" /\ turn' = turn + 1
      BY <2>7 DEF ReadOptionalHeader, Delivered, GotoMember
    <3>2. CASE stage' = "PeSectionHeader"
      BY <3>1, <3>2 DEF StagesLeft, Stages
    <3>3. CASE stage' = "optional" /\ turn' = turn + 1
      <4>1. wanted # Source!Nothing /\ wanted' = Source!Nothing
        BY <2>7 DEF ReadOptionalHeader, Delivered, Source!Deliver
      <4> QED BY <2>1, <3>1, <3>3, <4>1 DEF StepsLeft, StructsLeft
    <3> QED BY <3>1, <3>2, <3>3
  <2>8. CASE ReadSection
    <3>1. /\ stage = "PeSectionHeader" /\ turn' = turn + 1
          /\ UNCHANGED <<stage, peHeader>>
          /\ wanted # Source!Nothing /\ wanted' = Source!Nothing
      BY <2>8 DEF ReadSection, Delivered, Source!Deliver
    <3> QED BY <2>1, <3>1 DEF StepsLeft, StructsLeft
  <2>9. CASE StoreSections
    BY <2>9 DEF StoreSections, StagesLeft, Stages
  <2> QED BY <1>2, <2>2, <2>3, <2>4, <2>5, <2>6, <2>7, <2>8, <2>9 DEF Step
<1>3. HeadersInv /\ [Next]_vars => [MovesOn]_vars
  BY <1>2 DEF Next, Done
<1> QED BY <1>1, <1>3, HeadersCorrect, PTL DEF ParseMovesOn, Spec

=============================================================================
