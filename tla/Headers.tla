------------------------------- MODULE Headers -------------------------------
(***************************************************************************)
(* The headers of a PE file on a path: parsePeFile up to readSegments, and *)
(* parsePeHeaders, as a client of the stream of bytes that include/io.h    *)
(* promises. The file may be a FIFO, end anywhere and change meanwhile: a  *)
(* seek may fail, a read may fail, and a read that does not want all of it *)
(* may deliver less.                                                       *)
(*                                                                         *)
(* A byte is the position it comes from. The sizes of the structures of    *)
(* include/pefile.h are constants, so that small ones can be checked.      *)
(***************************************************************************)
EXTENDS Integers, Sequences, FiniteSetsExt

CONSTANTS
    SizeOf,          \* sizeof each structure of include/pefile.h
    DirCount,        \* the length of PeFile::dataDirs
    Word,            \* where uint16_t wraps
    PeOffs,          \* what DosHeader::peOff may be
    OptionalSizes,   \* what PeHeader::sizeOfOptionalHeader may be
    SectionCounts    \* what PeHeader::numberOfSections may be

Structs == {"DosHeader", "PeHeader", "magic", "std", "win", "PeDataDir",
            "PeSectionHeader"}

ASSUME HeadersAssumption ==
    /\ SizeOf \in [Structs -> Nat \ {0}]
    /\ DirCount \in Nat
    /\ Word \in Nat \ {0}
    /\ PeOffs \cup SectionCounts \subseteq Nat
    /\ OptionalSizes \subseteq 0..(Word - 1)

VARIABLES
    position, wanted, whole, bytes, answer,   \* the stream
    stage,       \* what parsePeFile does next: a structure it reads, a seek, or
                 \* where it went
    peHeader,    \* the headers read so far: peOff, optional, sections
    peAt,        \* where the PE header was read: history, for the properties
    remaining,   \* remainingHeader, a uint16_t
    turn,        \* the member of the optional header, or the section, in turn
    members,     \* the bytes stored in each member of the optional header
    table,       \* the bytes of each section header read
    stored       \* the section table was stored in the PeFile

streamVars == <<position, wanted, whole, bytes, answer>>
parseVars == <<peHeader, peAt, remaining, turn, members, table, stored>>
vars == <<streamVars, stage, parseVars>>

Source == INSTANCE ByteStream WITH Offsets <- PeOffs, Lengths <- Nat

\* std, win and the data directories, in the order they are read.
Members == 1..(2 + DirCount)

\* MUTANT: the members of `headers` are read in the other order.
MemberSizeSwapped(k) ==
    SizeOf[IF k = 1 THEN "win" ELSE IF k = 2 THEN "std" ELSE "PeDataDir"]

MemberSize(k) ==
    SizeOf[IF k = 1 THEN "std" ELSE IF k = 2 THEN "win" ELSE "PeDataDir"]

Stages == {"DosHeader", "seek", "PeHeader", "magic", "optional",
           "PeSectionHeader", "segments", "failed"}

Init ==
    /\ Source!Init
    /\ stage = "DosHeader"
    /\ peHeader = [peOff |-> 0, optional |-> 0, sections |-> 0]
    /\ peAt = 0
    /\ remaining = 0
    /\ turn = 1
    /\ members = [k \in Members |-> <<>>]
    /\ table = <<>>
    /\ stored = FALSE

-----------------------------------------------------------------------------
(* Reading *)

\* readFully asks for a structure, readOptionalHeader for what is left of it.
Amount ==
    IF stage = "optional" THEN Min({remaining, MemberSize(turn)})
    ELSE SizeOf[stage]

\* MUTANT: the last section is left out.
SectionsLeftButOne == turn < peHeader.sections

SectionsLeft == turn <= peHeader.sections

\* The call of readFully, or of readPartially in readOptionalHeader.
Read ==
    /\ stage \in Structs \cup {"optional"}
    /\ stage = "PeSectionHeader" => SectionsLeft
    /\ Source!Ask(position, Amount)
    /\ whole' = (stage # "optional")
    /\ UNCHANGED <<stage, parseVars>>

\* A read that failed, or that fell short of the structure it wanted.
ReadFails ==
    /\ Source!Refuse
    /\ stage' = "failed"
    /\ UNCHANGED parseVars

Delivered(at) == stage = at /\ Source!Deliver

-----------------------------------------------------------------------------
(* parsePeFile *)

ReadDosHeader ==
    /\ Delivered("DosHeader")
    /\ \/ \E offset \in PeOffs :
             /\ stage' = "seek"
             /\ peHeader' = [peHeader EXCEPT !.peOff = offset]
       \/ stage' = "failed" /\ UNCHANGED peHeader
    /\ UNCHANGED <<peAt, remaining, turn, members, table, stored>>

\* fileSeek answers -errno, which is not the -1 that is tested for.
SeekPeHeader ==
    /\ stage = "seek"
    /\ Source!Seek(peHeader.peOff)
    /\ stage' = "PeHeader"
    /\ UNCHANGED parseVars

\* MUTANT: an optional header without room for its magic is accepted.
AcceptsAny(optional) == TRUE

Accepts(optional) == optional >= SizeOf["magic"]

\* A wrong magic fails, and so does an optional header without room for one.
ReadPeHeader ==
    /\ Delivered("PeHeader")
    /\ peAt' = position
    /\ \/ \E optional \in OptionalSizes, sections \in SectionCounts :
             /\ Accepts(optional)
             /\ stage' = "magic"
             /\ peHeader' = [peHeader EXCEPT !.optional = optional,
                                             !.sections = sections]
       \/ stage' = "failed" /\ UNCHANGED peHeader
    /\ UNCHANGED <<remaining, turn, members, table, stored>>

\* MUTANT: a read that delivers nothing is tried again.
GotoMemberRetrying(k, left) ==
    IF k \in Members /\ left > 0
    THEN stage' = "optional" /\ turn' = IF left = remaining THEN turn ELSE k
    ELSE stage' = "PeSectionHeader" /\ turn' = 1

\* What follows member k - 1: the next one, if any of it is left.
GotoMember(k, left) ==
    IF k \in Members /\ left > 0
    THEN stage' = "optional" /\ turn' = k
    ELSE stage' = "PeSectionHeader" /\ turn' = 1

\* PE32+ goes on in parsePeHeaders. Any other format sets result to EIO, which
\* is positive, and goes on to readSegments.
ReadMagic ==
    /\ Delivered("magic")
    /\ \/ LET left == (peHeader.optional - SizeOf["magic"]) % Word IN
             remaining' = left /\ GotoMember(1, left)
       \/ stage' = "segments" /\ UNCHANGED <<remaining, turn>>
    /\ UNCHANGED <<peHeader, peAt, members, table, stored>>

-----------------------------------------------------------------------------
(* parsePeHeaders *)

\* MUTANT: what was asked for is subtracted, not what was transferred.
LeftSigned(transferred) == remaining - MemberSize(turn)

\* *remaining -= transferred
Left(transferred) == (remaining - transferred) % Word

\* The next member of the optional header, if any of it is left.
ReadOptionalHeader ==
    /\ Delivered("optional")
    /\ members' = [members EXCEPT ![turn] = bytes']
    /\ remaining' = Left(Len(bytes'))
    /\ GotoMember(turn + 1, remaining')
    /\ UNCHANGED <<peHeader, peAt, table, stored>>

\* MUTANT: the array is stored before it is filled.
ReadSectionStoring ==
    /\ Delivered("PeSectionHeader")
    /\ table' = Append(table, bytes')
    /\ turn' = turn + 1
    /\ stored' = TRUE
    /\ UNCHANGED <<stage, peHeader, peAt, remaining, members>>

\* A section header, all of it or the array is deleted again.
ReadSection ==
    /\ Delivered("PeSectionHeader")
    /\ table' = Append(table, bytes')
    /\ turn' = turn + 1
    /\ UNCHANGED <<stage, peHeader, peAt, remaining, members, stored>>

\* The sections are stored once all of them were read.
StoreSections ==
    /\ stage = "PeSectionHeader"
    /\ ~SectionsLeft
    /\ stored' = TRUE
    /\ stage' = "segments"
    /\ UNCHANGED <<streamVars, peHeader, peAt, remaining, turn, members, table>>

-----------------------------------------------------------------------------

Step ==
    \/ Read \/ ReadFails
    \/ ReadDosHeader \/ SeekPeHeader \/ ReadPeHeader \/ ReadMagic
    \/ ReadOptionalHeader \/ ReadSection \/ StoreSections

Done == stage \in {"segments", "failed"} /\ UNCHANGED vars

Next == Step \/ Done

\* A read of a file that can be read returns, and the parser does not wait.
Spec == Init /\ [][Next]_vars /\ WF_vars(Step)

-----------------------------------------------------------------------------
(* Properties *)

\* Where the format puts member k, counted from the start of the optional
\* header, and where it puts the section table.
Offset(k) ==
    SizeOf["magic"] +
    CASE k = 1 -> 0
      [] k = 2 -> SizeOf["std"]
      [] OTHER -> SizeOf["std"] + SizeOf["win"] + (k - 3) * SizeOf["PeDataDir"]
OptionalAt == peAt + SizeOf["PeHeader"]
TableAt == OptionalAt + peHeader.optional

\* How much of member k a header of the size the file names has.
Present(k) == Max({0, Min({MemberSize(k), peHeader.optional - Offset(k)})})
IsWhole(k) == Len(members[k]) = Present(k)

\* Every variable stays in its range; what is left of the header never turns
\* negative.
TypeOK ==
    /\ stage \in Stages
    /\ peHeader \in [peOff : PeOffs \cup {0}, optional : OptionalSizes \cup {0},
                     sections : SectionCounts \cup {0}]
    /\ peAt \in Nat
    /\ remaining \in 0..(Word - 1)
    /\ turn \in Nat \ {0}
    /\ members \in [Members -> Seq(Nat)]
    /\ table \in Seq(Seq(Nat))
    /\ stored \in BOOLEAN

\* No byte behind the optional header is stored in one of its members, however
\* short the header is and however the reads are split: remainingHeader does
\* not wrap, and a member the header does not reach stays as it was.
HeaderStaysInside ==
    \A k \in Members : \A i \in 1..Len(members[k]) :
       members[k][i] \in (OptionalAt + SizeOf["magic"])..(TableAt - 1)

\* A member holds the bytes the format gives it, as far as the header has them,
\* unless a read before it fell short.
MembersInPlace ==
    \A k \in Members :
       members[k] # <<>> /\ (\A j \in 1..(k - 1) : IsWhole(j)) =>
          members[k] = Source!From(OptionalAt + Offset(k), Len(members[k]))

\* A table that is stored has every section, each header whole and behind the
\* one before; and it is the table that follows the optional header, if that
\* has no more than the loader knows and none of its reads fell short.
TableIsTheFile ==
    stored =>
       LET At(i) == table[1][1] + (i - 1) * SizeOf["PeSectionHeader"] IN
       /\ Len(table) = peHeader.sections
       /\ \A i \in 1..Len(table) :
             table[i] = Source!From(At(i), SizeOf["PeSectionHeader"])
       /\ /\ peHeader.optional <= Offset(3 + DirCount)
          /\ \A k \in Members : IsWhole(k)
          => table = <<>> \/ At(1) = TableAt

\* Reading the headers ends, at the end of the file too, where a read of the
\* optional header delivers nothing for ever.
ParseEnds == <>(stage \in {"segments", "failed"})

-----------------------------------------------------------------------------
(* PeLoader has these stages by their outcomes: one thread, on a path, in     *)
(* memory that was zeroed.                                                    *)

InPeLoader ==
    CASE stage \in {"DosHeader", "seek"} -> "dosHeader"
      [] stage = "PeHeader" -> "peHeader"
      [] stage \in {"optional", "PeSectionHeader"} -> "headers"
      [] stage = "failed" -> "closeFile"
      [] OTHER -> stage

Parsed ==
    [fileType          |-> "TYPE_FILE",
     fileHandle        |-> "3",
     callback          |-> "nullptr",
     dataDirs          |-> IF stored /\ \E k \in Members \ {1, 2} :
                                            members[k] # <<>>
                           THEN "read" ELSE "zeroed",
     sectionCount      |-> IF stored /\ peHeader.sections > 0 THEN "some"
                           ELSE "none",
     sections          |-> IF stored THEN "own" ELSE "nullptr",
     sectionAllocation |-> "nullptr",
     importCount       |-> "none",
     imports           |-> "nullptr",
     exportCount       |-> "none",
     exports           |-> "nullptr"]

Loader == INSTANCE PeLoader WITH
    Threads <- {"t"}, PeFiles <- {"f"}, Fds <- {"0", "3"}, Stdin <- "0",
    Requests <- {"path"}, HeapContents <- {"zeroed"}, NULL <- "nullptr",
    fds <- [d \in {"0", "3"} |-> IF d = "0" THEN "host" ELSE "f"],
    heap <- {<<"f", "PeFile">>} \cup
            (IF stored THEN {<<"f", "sections">>} ELSE {}),
    images <- {},
    pe <- [f \in {"f"} |-> Parsed],
    buffers <- [f \in {"f"} |-> 0],
    created <- {"f"},
    handle <- [t \in {"t"} |-> "nullptr"],
    pc <- [t \in {"t"} |-> InPeLoader],
    file <- [t \in {"t"} |-> "f"],
    request <- [t \in {"t"} |-> "path"],
    code <- [t \in {"t"} |-> IF stage = "failed" THEN "negative" ELSE "none"],
    process <- "running"

\* Reading the headers one structure at a time does what the four stages of
\* PeLoader say: which exits there are, and that the section table is stored
\* with its block or not at all.
StagesOfPeLoader ==
    [][\/ Loader!ReadDosHeader("t") \/ Loader!ReadPeHeader("t")
       \/ Loader!ReadMagic("t") \/ Loader!ParsePeHeaders("t")]_(Loader!vars)

=============================================================================
