-------------------------- MODULE PeLoaderHeapProofs --------------------------
(***************************************************************************)
(* Proofs about the heap blocks and the image of a PeFile, for the same    *)
(* instances as PeLoaderProofs, on whose theorems they rest.               *)
(*                                                                         *)
(* What a PeFile records of its blocks is what it has (BlocksTracked), so  *)
(* cleanup, which knows nothing else, deletes what there is: no block      *)
(* outlives its PeFile but the one the code forgets (HeapReclaimed). The   *)
(* same invariant gives that a file the host holds is whole                *)
(* (PublishedIsUsable).                                                    *)
(***************************************************************************)
EXTENDS PeLoaderProofs

\* Before the first call there are no blocks.
LEMMA BlocksInit == Init => BlocksTracked
BY LoaderAssumption DEF Init, BlocksTracked, BlocksRecorded, StagesDone, InUse,
   ZeroedPeFile, BeforeImports, AfterSegments

\* A thread that works on f leaves the blocks and the record of the others
\* alone.
LEMMA OtherBlocks ==
    ASSUME TypeOK, Exclusive, BlocksTracked, NEW t \in Threads,
           NEW f \in PeFiles,
           {file[t], handle[t], file'[t], handle'[t]} \subseteq {f, NULL},
           \A u \in Threads \ {t} : /\ f \notin {file[u], handle[u]}
                                    /\ file'[u] = file[u]
                                    /\ handle'[u] = handle[u]
                                    /\ pc'[u] = pc[u],
           \A g \in PeFiles \ {f} : pe'[g] = pe[g],
           \A g \in PeFiles \ {f}, kind \in Blocks :
              <<g, kind>> \in heap' <=> <<g, kind>> \in heap,
           images \subseteq images' \cup {f},
           heap' \subseteq created' \X Blocks,
           BlocksRecorded(f)',
           StagesDone(t)'
    PROVE  BlocksTracked'
<1>1. ASSUME NEW g \in PeFiles \ {f} PROVE BlocksRecorded(g)'
  <2>1. InUse(g)' <=> InUse(g)
    BY LoaderAssumption DEF InUse
  <2>2. BlocksRecorded(g)
    BY DEF BlocksTracked
  <2> QED BY <2>1, <2>2 DEF BlocksRecorded, Blocks
<1>2. ASSUME NEW u \in Threads \ {t} PROVE StagesDone(u)'
  <2>1. StagesDone(u)
    BY DEF BlocksTracked
  <2>2. /\ pc[u] # "idle" => file[u] \in PeFiles \ {f}
        /\ handle[u] # NULL => handle[u] \in PeFiles \ {f}
    BY DEF Exclusive, TypeOK
  <2>3. \A g \in PeFiles \ {f} : g \in images => g \in images'
    OBVIOUS
  <2> QED BY <2>1, <2>2, <2>3 DEF StagesDone, BeforeImports, AfterSegments
<1> QED BY <1>1, <1>2 DEF BlocksTracked

\* The PeFile of a call, and what a step of that call leaves as it is.
LEMMA CallAlone ==
    ASSUME TypeOK, Exclusive, NEW t \in Threads, pc[t] # "idle"
    PROVE  /\ file[t] \in PeFiles
           /\ handle[t] \in {file[t], NULL}
           /\ \A u \in Threads \ {t} : file[t] \notin {file[u], handle[u]}
<1>1. file[t] \in PeFiles
  BY CallFile
<1>2. handle[t] \in {file[t], NULL}
  BY DEF Exclusive
<1> QED BY <1>1, <1>2, WorksAlone

\* A step that deletes and allocates nothing, and writes no member that names a
\* block, keeps the record as far as the stage it goes on to may rely on it.
LEMMA BlocksFrame ==
    ASSUME TypeOK, Exclusive, BlocksTracked, NEW t \in Threads,
           pc[t] # "idle",
           UNCHANGED <<heap, created, file, handle>>,
           images \subseteq images',
           \A g \in PeFiles \ {file[t]} : pe'[g] = pe[g],
           pe'[file[t]].importCount = pe[file[t]].importCount,
           pe'[file[t]].exports = pe[file[t]].exports,
           pe'[file[t]].sections = pe[file[t]].sections,
           NEW l \in Labels \ {"idle"},
           pc' = [pc EXCEPT ![t] = l],
           l \in BeforeImports => pc[t] \in BeforeImports,
           l \in AfterSegments => \/ pc[t] \in AfterSegments
                                  \/ file[t] \in images',
           l = "publish" => pe'[file[t]].fileType = "TYPE_CLOSED"
    PROVE  BlocksTracked'
<1>1. PICK f \in PeFiles :
         /\ f = file[t]
         /\ handle[t] \in {f, NULL}
         /\ \A u \in Threads \ {t} : f \notin {file[u], handle[u]}
  BY CallAlone
<1>2. pc'[t] = l /\ \A u \in Threads \ {t} : pc'[u] = pc[u]
  BY DEF TypeOK
<1>3. BlocksRecorded(f) /\ InUse(f) /\ InUse(f)'
  BY <1>1 DEF BlocksTracked, InUse
<1>4. BlocksRecorded(f)'
  BY <1>1, <1>3 DEF BlocksRecorded
<1>5. StagesDone(t)'
  BY <1>1, <1>2 DEF BlocksTracked, StagesDone
<1> QED BY <1>1, <1>2, <1>4, <1>5, OtherBlocks DEF BlocksTracked

\* The source is opened and closed without a block.
LEMMA BlocksSource ==
    ASSUME TypeOK, Exclusive, SourceTracked, BlocksTracked, NEW t \in Threads,
           \/ OpenFile(t) \/ OpenMemory(t) \/ RejectOptions(t)
           \/ CloseSource(t) \/ CleanupFile(t)
    PROVE  BlocksTracked'
<1> DEFINE f == file[t]
<1> USE DEF resVars, hostVars, callVars, FailWith, Continue, Goto, At, Labels,
            BeforeImports, AfterSegments
<1>1. CASE OpenFile(t)
  <2>1. f \in PeFiles
    BY <1>1, CallFile DEF OpenFile
  <2>2. PICK d : pe' = [pe EXCEPT ![f].fileType = "TYPE_FILE",
                                  ![f].fileHandle = d]
    BY <1>1 DEF OpenFile
  <2>3. PICK l \in {"dosHeader", "closeFile"} : pc' = [pc EXCEPT ![t] = l]
    BY <1>1 DEF OpenFile
  <2>4. /\ \A g \in PeFiles \ {f} : pe'[g] = pe[g]
        /\ pe'[f].importCount = pe[f].importCount
        /\ pe'[f].exports = pe[f].exports
        /\ pe'[f].sections = pe[f].sections
    BY <2>1, <2>2 DEF TypeOK, PeFileType
  <2>5. UNCHANGED <<heap, created, file, handle, images>> /\ pc[t] = "source"
    BY <1>1 DEF OpenFile
  <2> QED BY <2>3, <2>4, <2>5, BlocksFrame
<1>2. CASE OpenMemory(t)
  <2>1. f \in PeFiles
    BY <1>2, CallFile DEF OpenMemory
  <2>2. PICK v : pe' = [pe EXCEPT ![f].fileType = "TYPE_BUFFER",
                                  ![f].callback = v]
    BY <1>2 DEF OpenMemory
  <2>3. /\ \A g \in PeFiles \ {f} : pe'[g] = pe[g]
        /\ pe'[f].importCount = pe[f].importCount
        /\ pe'[f].exports = pe[f].exports
        /\ pe'[f].sections = pe[f].sections
    BY <2>1, <2>2 DEF TypeOK, PeFileType
  <2>4. /\ UNCHANGED <<heap, created, file, handle, images>>
        /\ pc[t] = "source"
        /\ pc' = [pc EXCEPT ![t] = "dosHeader"]
    BY <1>2 DEF OpenMemory
  <2> QED BY <2>3, <2>4, BlocksFrame
<1>3. CASE RejectOptions(t)
  BY <1>3, BlocksFrame DEF RejectOptions
<1>4. CASE CloseSource(t) \/ CleanupFile(t)
  <2>1. f \in PeFiles
    BY <1>4, CallFile DEF CloseSource, CleanupFile
  <2>2. CloseFile(f)
    BY <1>4 DEF CloseSource, CleanupFile
  <2>3. pe' \in {pe, [pe EXCEPT ![f].fileType = "TYPE_CLOSED"]}
    BY <2>2 DEF CloseFile, GiveBack
  <2>4. /\ \A g \in PeFiles \ {f} : pe'[g] = pe[g]
        /\ pe'[f].importCount = pe[f].importCount
        /\ pe'[f].exports = pe[f].exports
        /\ pe'[f].sections = pe[f].sections
    BY <2>1, <2>3 DEF TypeOK, PeFileType
  <2>5. UNCHANGED <<heap, created, file, handle, images>>
    BY <1>4 DEF CloseSource, CleanupFile
  <2>6. CASE CloseSource(t)
    <3>1. pe[f].fileType \in {"TYPE_FILE", "TYPE_BUFFER"}
      BY <2>6 DEF CloseSource, SourceTracked, SourceIsOpen, Reading
    <3>2. pe'[f].fileType = "TYPE_CLOSED"
      BY <2>1, <2>2, <3>1 DEF CloseFile, GiveBack, Reads, Indeterminate,
         TypeOK, PeFileType
    <3>3. pc[t] = "closeSource" /\ pc' = [pc EXCEPT ![t] = "publish"]
      BY <2>6 DEF CloseSource
    <3> QED BY <2>4, <2>5, <3>2, <3>3, BlocksFrame
  <2>7. CASE CleanupFile(t)
    <3>1. pc[t] = "closeFile" /\ pc' = [pc EXCEPT ![t] = "release"]
      BY <2>7 DEF CleanupFile
    <3> QED BY <2>4, <2>5, <3>1, BlocksFrame
  <2> QED BY <1>4, <2>6, <2>7
<1> QED BY <1>1, <1>2, <1>3, <1>4

\* The stages up to the relocation that allocate nothing but the image.
LEMMA BlocksStage ==
    ASSUME TypeOK, Exclusive, BlocksTracked, NEW t \in Threads,
           \/ ReadDosHeader(t) \/ ReadPeHeader(t) \/ ReadMagic(t)
           \/ ReadSegments(t) \/ RelocateFile(t) \/ ApplySegmentPerms(t)
    PROVE  BlocksTracked'
<1> USE DEF resVars, hostVars, callVars, FailWith, ReadFails, Continue, Stop,
            Goto, At
<1>1. UNCHANGED <<heap, created, file, handle, pe>> /\ pc[t] # "idle"
  BY DEF ReadDosHeader, ReadPeHeader, ReadMagic, ReadSegments, RelocateFile,
     ApplySegmentPerms
<1>2. images' \in {images, images \cup {file[t]}}
  BY DEF ReadDosHeader, ReadPeHeader, ReadMagic, ReadSegments, RelocateFile,
     ApplySegmentPerms
<1>3. PICK l \in Labels \ {"idle", "publish"} :
         /\ pc' = [pc EXCEPT ![t] = l]
         /\ l \in BeforeImports => pc[t] \in BeforeImports
         /\ l \in AfterSegments => \/ pc[t] \in AfterSegments
                                   \/ file[t] \in images'
  <2>1. CASE ReadDosHeader(t) \/ ReadPeHeader(t) \/ ReadMagic(t)
    BY <2>1 DEF ReadDosHeader, ReadPeHeader, ReadMagic, AbortAtEndOfBuffer,
       Labels, BeforeImports, AfterSegments, TypeOK
  <2>2. CASE ReadSegments(t)
    BY <2>2 DEF ReadSegments, Labels, BeforeImports, AfterSegments, TypeOK
  <2>3. CASE RelocateFile(t) \/ ApplySegmentPerms(t)
    BY <2>3 DEF RelocateFile, ApplySegmentPerms, Labels, BeforeImports,
       AfterSegments, TypeOK
  <2> QED BY <2>1, <2>2, <2>3
<1> QED BY <1>1, <1>2, <1>3, BlocksFrame

\* A stage that stores a table allocates the block it stores.
LEMMA BlocksTable ==
    ASSUME TypeOK, Exclusive, BlocksTracked, NEW t \in Threads,
           ParsePeHeaders(t) \/ ParseImports(t) \/ ParseExports(t)
    PROVE  BlocksTracked'
<1> USE DEF hostVars, callVars, FailWith, ReadFails, Continue, Stop, Goto, At
<1>1. /\ UNCHANGED <<created, file, handle, images>>
      /\ pc[t] \in {"headers", "imports", "exports"}
  BY DEF ParsePeHeaders, ParseImports, ParseExports
<1>2. PICK f \in PeFiles :
         /\ f = file[t]
         /\ handle[t] \in {f, NULL}
         /\ \A u \in Threads \ {t} : f \notin {file[u], handle[u]}
  BY <1>1, CallAlone
<1>3. BlocksRecorded(f) /\ StagesDone(t) /\ f \in created
  BY <1>2, LoaderAssumption DEF BlocksTracked, Exclusive
<1>4. InUse(f) /\ InUse(f)'
  BY <1>2, <1>1 DEF InUse
<1>5. ASSUME UNCHANGED <<pe, heap>> PROVE BlocksTracked'
  <2>1. PICK l \in Labels \ {"idle", "publish"} :
           /\ pc' = [pc EXCEPT ![t] = l]
           /\ l \in BeforeImports => pc[t] \in BeforeImports
           /\ l \in AfterSegments => pc[t] \in AfterSegments
    <3>1. CASE ParsePeHeaders(t)
      <4>1. /\ pc[t] = "headers"
            /\ \/ pc' = [pc EXCEPT ![t] = "closeFile"]
               \/ pc' = [pc EXCEPT ![t] = "segments"]
        BY <3>1 DEF ParsePeHeaders, HeadersRead
      <4> QED BY <4>1 DEF Labels, BeforeImports, AfterSegments
    <3>2. CASE ParseImports(t) \/ ParseExports(t)
      BY <3>2 DEF ParseImports, ParseExports, Labels, BeforeImports,
         AfterSegments, TypeOK
    <3> QED BY <3>1, <3>2
  <2> QED BY <1>1, <1>5, <2>1, BlocksFrame
\* The blocks and members of f change together, and nothing else does.
<1>6. ASSUME NEW kinds \in SUBSET Blocks,
             heap' = heap \cup ({f} \X kinds),
             \A g \in PeFiles \ {f} : pe'[g] = pe[g],
             \A u \in Threads \ {t} : pc'[u] = pc[u],
             BlocksRecorded(f)',
             StagesDone(t)'
      PROVE  BlocksTracked'
  <2>1. heap' \subseteq created' \X Blocks
    BY <1>1, <1>3, <1>6 DEF BlocksTracked
  <2>2. \A g \in PeFiles \ {f}, kind \in Blocks :
           <<g, kind>> \in heap' <=> <<g, kind>> \in heap
    BY <1>6
  <2> QED BY <1>1, <1>2, <1>6, <2>1, <2>2, OtherBlocks
<1>7. CASE ParsePeHeaders(t) /\ ~UNCHANGED <<pe, heap>>
  <2>1. HeadersRead(t)
    BY <1>7 DEF ParsePeHeaders
  <2>2. PICK dirs, n :
           pe' = [pe EXCEPT ![f].dataDirs = dirs, ![f].sectionCount = n,
                            ![f].sections = "own"]
    <3>1. f = file[t]
      BY <1>2
    <3> QED BY ONLY <2>1, <3>1, Zenon DEF HeadersRead
  <2>3. heap' = heap \cup ({f} \X {"sections"})
    BY <1>2, <2>1 DEF HeadersRead
  <2>4. pc[t] = "headers" /\ pc' = [pc EXCEPT ![t] = "segments"]
    BY <1>7, <2>1 DEF ParsePeHeaders, HeadersRead
  <2>5. /\ \A g \in PeFiles \ {f} : pe'[g] = pe[g]
        /\ pe'[f].importCount = pe[f].importCount
        /\ pe'[f].exports = pe[f].exports
        /\ pe'[f].sections = "own"
    BY <1>2, <2>2 DEF TypeOK, PeFileType
  <2>6. BlocksRecorded(f)'
    <3>1. \A kind : <<f, kind>> \in heap' <=> \/ <<f, kind>> \in heap
                                              \/ kind = "sections"
      BY <2>3
    <3> QED BY <1>3, <1>4, <2>5, <3>1 DEF BlocksRecorded
  <2>7. StagesDone(t)'
    BY <1>2, <1>1, <1>3, <2>4, <2>5 DEF StagesDone, BeforeImports, AfterSegments, TypeOK
  <2>8. \A u \in Threads \ {t} : pc'[u] = pc[u]
    BY <2>4 DEF TypeOK
  <2>9. {"sections"} \in SUBSET Blocks
    BY DEF Blocks
  <2> QED BY <1>6, <2>3, <2>5, <2>6, <2>7, <2>8, <2>9
<1>8. CASE ParseImports(t) /\ ~UNCHANGED <<pe, heap>>
  <2>1. /\ pc[t] = "imports"
        /\ pc' = [pc EXCEPT ![t] = "exports"]
    BY <1>8 DEF ParseImports
  <2>2. PICK n \in Counts, kinds \in SUBSET Blocks :
           /\ heap' = heap \cup ({f} \X kinds)
           /\ pe' = [pe EXCEPT ![f].importCount = n, ![f].imports = "own"]
           /\ kinds \subseteq {"noImports", "imports", "functions"}
           /\ n = "some" <=> "imports" \in kinds
           /\ "functions" \in kinds => "imports" \in kinds
    <3>1. \/ /\ heap' = heap \cup ({f} \X {"noImports"})
             /\ pe' = [pe EXCEPT ![f].importCount = "none", ![f].imports = "own"]
          \/ /\ \/ heap' = heap \cup ({f} \X {"imports"})
                \/ heap' = heap \cup ({f} \X {"imports", "functions"})
             /\ pe' = [pe EXCEPT ![f].importCount = "some", ![f].imports = "own"]
      BY <1>2, <1>8 DEF ParseImports
    <3>2. /\ {"noImports"} \in SUBSET Blocks
          /\ {"imports"} \in SUBSET Blocks
          /\ {"imports", "functions"} \in SUBSET Blocks
          /\ "none" \in Counts
          /\ "some" \in Counts
      BY DEF Counts, Blocks
    <3>3. CASE /\ heap' = heap \cup ({f} \X {"noImports"})
               /\ pe' = [pe EXCEPT ![f].importCount = "none",
                                   ![f].imports = "own"]
      BY <3>2, <3>3
    <3>4. CASE /\ heap' = heap \cup ({f} \X {"imports"})
               /\ pe' = [pe EXCEPT ![f].importCount = "some",
                                   ![f].imports = "own"]
      BY <3>2, <3>4
    <3>5. CASE /\ heap' = heap \cup ({f} \X {"imports", "functions"})
               /\ pe' = [pe EXCEPT ![f].importCount = "some",
                                   ![f].imports = "own"]
      BY <3>2, <3>5
    <3> QED BY <3>1, <3>3, <3>4, <3>5
  <2>3. /\ \A g \in PeFiles \ {f} : pe'[g] = pe[g]
        /\ pe'[f].importCount = n
        /\ pe'[f].exports = pe[f].exports
        /\ pe'[f].sections = pe[f].sections
    BY <1>2, <2>2 DEF TypeOK, PeFileType
  <2>4. pe[f].importCount # "some"
    BY <1>2, <1>3, <2>1 DEF StagesDone, BeforeImports
  <2>5. BlocksRecorded(f)'
    <3>1. \A kind : <<f, kind>> \in heap' <=> \/ <<f, kind>> \in heap
                                              \/ kind \in kinds
      BY <2>2
    <3> QED BY <1>3, <1>4, <2>2, <2>3, <2>4, <3>1 DEF BlocksRecorded
  <2>6. StagesDone(t)'
    BY <1>1, <1>3, <2>1, <2>3 DEF StagesDone, BeforeImports, AfterSegments, TypeOK
  <2>7. \A u \in Threads \ {t} : pc'[u] = pc[u]
    BY <2>1 DEF TypeOK
  <2> QED BY <1>6, <2>2, <2>3, <2>5, <2>6, <2>7
<1>9. CASE ParseExports(t) /\ ~UNCHANGED <<pe, heap>>
  <2>1. /\ pc[t] = "exports"
        /\ pc' = [pc EXCEPT ![t] = "relocate"]
        /\ heap' = heap \cup ({f} \X {"exports"})
    BY <1>2, <1>9 DEF ParseExports
  <2>2. PICK n : pe' = [pe EXCEPT ![f].exportCount = n, ![f].exports = "own"]
    BY <1>2, <1>9 DEF ParseExports
  <2>3. /\ \A g \in PeFiles \ {f} : pe'[g] = pe[g]
        /\ pe'[f].importCount = pe[f].importCount
        /\ pe'[f].exports = "own"
        /\ pe'[f].sections = pe[f].sections
    BY <1>2, <2>2 DEF TypeOK, PeFileType
  <2>4. BlocksRecorded(f)'
    <3>1. \A kind : <<f, kind>> \in heap' <=> \/ <<f, kind>> \in heap
                                              \/ kind = "exports"
      BY <2>1
    <3> QED BY <1>3, <1>4, <2>3, <3>1 DEF BlocksRecorded
  <2>5. StagesDone(t)'
    BY <1>1, <1>3, <2>1, <2>3 DEF StagesDone, BeforeImports, AfterSegments, TypeOK
  <2>6. \A u \in Threads \ {t} : pc'[u] = pc[u]
    BY <2>1 DEF TypeOK
  <2>7. {"exports"} \in SUBSET Blocks
    BY DEF Blocks
  <2> QED BY <1>6, <2>1, <2>3, <2>4, <2>5, <2>6, <2>7
<1> QED BY <1>5, <1>7, <1>8, <1>9

\* cleanup deletes every block it finds recorded, and the call ends without a
\* PeFile.
LEMMA BlocksRelease ==
    ASSUME TypeOK, Exclusive, BlocksTracked, NEW t \in Threads, Release(t)
    PROVE  BlocksTracked'
<1> USE DEF hostVars, callVars, Continue, Stop, Goto, At
<1>1. PICK f \in PeFiles :
         /\ f = file[t]
         /\ handle[t] \in {f, NULL}
         /\ \A u \in Threads \ {t} : f \notin {file[u], handle[u]}
  BY CallAlone DEF Release
<1>2. BlocksRecorded(f) /\ StagesDone(t) /\ created' = created
  BY <1>1 DEF BlocksTracked, Release
<1>3. CASE process' # "running"
  <2>1. UNCHANGED <<heap, images, pe, handle, file, pc>> /\ pc[t] = "release"
    BY <1>3 DEF Release
  <2>2. pc' = [pc EXCEPT ![t] = "release"]
    BY <2>1 DEF TypeOK
  <2>3. "release" \in Labels \ {"idle"}
        /\ "release" \notin BeforeImports \cup AfterSegments
    BY DEF Labels, BeforeImports, AfterSegments
  <2> QED BY <1>2, <2>1, <2>2, <2>3, BlocksFrame
<1>4. CASE process' = "running"
  <2>1. PICK count \in Reads(pe[f].importCount, Counts),
             imports \in Reads(pe[f].imports, {"nullptr", "garbage"}),
             exports \in Reads(pe[f].exports, {"nullptr", "garbage"}),
             image \in Reads(pe[f].sectionAllocation, {"nullptr", "garbage"}),
             sections \in Reads(pe[f].sections, {"nullptr", "garbage"}) :
           LET blocks == Deleted(f, count, exports, sections) IN
           /\ blocks \subseteq heap
           /\ heap' = heap \ blocks
           /\ images' = IF image = "own" THEN images \ {f} ELSE images
           /\ pe' = [pe EXCEPT ![f] = ZeroedPeFile]
           /\ handle' = [handle EXCEPT ![t] = NULL]
           /\ file' = [file EXCEPT ![t] = NULL]
           /\ pc' = [pc EXCEPT ![t] = "idle"]
    BY <1>1, <1>4 DEF Release
  <2> DEFINE blocks == Deleted(f, count, exports, sections)
  <2>2. blocks \subseteq {f} \X Blocks
    BY DEF Deleted, Blocks
  <2>3. /\ <<f, "PeFile">> \in blocks
        /\ <<f, "imports">> \in heap => <<f, "imports">> \in blocks
        /\ <<f, "functions">> \in heap => <<f, "functions">> \in blocks
        /\ <<f, "exports">> \in heap => <<f, "exports">> \in blocks
        /\ <<f, "sections">> \in heap => <<f, "sections">> \in blocks
    <3>1. /\ pe[f].importCount = "some" => count = "some"
          /\ pe[f].exports = "own" => exports = "own"
          /\ pe[f].sections = "own" => sections = "own"
      BY DEF Reads, Indeterminate
    <3> QED BY <1>2, <3>1 DEF Deleted, BlocksRecorded
  <2>4. /\ file'[t] = NULL
        /\ handle'[t] = NULL
        /\ pc'[t] = "idle"
        /\ \A u \in Threads \ {t} : /\ file'[u] = file[u]
                                    /\ handle'[u] = handle[u]
                                    /\ pc'[u] = pc[u]
    BY <2>1 DEF TypeOK
  <2>5. pe'[f] = ZeroedPeFile /\ \A g \in PeFiles \ {f} : pe'[g] = pe[g]
    BY <1>1, <2>1 DEF TypeOK
  <2>6. ~InUse(f)'
    BY <1>1, <2>4, LoaderAssumption DEF InUse
  <2>7. BlocksRecorded(f)'
    <3>1. \A kind \in {"PeFile", "imports", "functions", "exports", "sections"} :
             <<f, kind>> \notin heap'
      BY <2>1, <2>3
    <3> QED BY <2>5, <2>6, <3>1 DEF BlocksRecorded, ZeroedPeFile
  <2>8. StagesDone(t)'
    BY <2>4 DEF StagesDone, BeforeImports, AfterSegments
  <2>9. /\ heap' \subseteq created' \X Blocks
        /\ \A g \in PeFiles \ {f}, kind \in Blocks :
              <<g, kind>> \in heap' <=> <<g, kind>> \in heap
    BY <1>2, <2>1, <2>2 DEF BlocksTracked
  <2>10. images \subseteq images' \cup {f}
    BY <2>1
  <2>11. {file[t], handle[t], file'[t], handle'[t]} \subseteq {f, NULL}
    BY <1>1, <2>4
  <2> QED BY <1>1, <2>4, <2>5, <2>7, <2>8, <2>9, <2>10, <2>11, OtherBlocks
<1> QED BY <1>3, <1>4

\* The open returns a file with everything in place.
LEMMA BlocksPublish ==
    ASSUME TypeOK, Exclusive, BlocksTracked, NEW t \in Threads, Publish(t)
    PROVE  BlocksTracked'
<1> USE DEF resVars, Goto, At
<1>1. PICK f \in PeFiles :
         /\ f = file[t]
         /\ handle[t] \in {f, NULL}
         /\ \A u \in Threads \ {t} : f \notin {file[u], handle[u]}
  BY CallAlone DEF Publish
<1>2. BlocksRecorded(f) /\ StagesDone(t) /\ pc[t] = "publish"
  BY <1>1 DEF BlocksTracked, Publish
<1>3. UNCHANGED <<heap, images, pe, created>>
  BY DEF Publish
<1>4. /\ file'[t] = NULL
      /\ handle'[t] = f
      /\ pc'[t] = "idle"
      /\ \A u \in Threads \ {t} : /\ file'[u] = file[u]
                                  /\ handle'[u] = handle[u]
                                  /\ pc'[u] = pc[u]
  BY <1>1 DEF Publish, TypeOK
<1>5. InUse(f) /\ InUse(f)'
  BY <1>1, <1>4 DEF InUse
<1>6. BlocksRecorded(f)'
  BY <1>2, <1>3, <1>5 DEF BlocksRecorded
<1>7. StagesDone(t)'
  BY <1>1, <1>2, <1>3, <1>4 DEF StagesDone, BeforeImports, AfterSegments
<1>8. {file[t], handle[t], file'[t], handle'[t]} \subseteq {f, NULL}
  BY <1>1, <1>4
<1> QED BY <1>1, <1>3, <1>4, <1>6, <1>7, <1>8, OtherBlocks DEF BlocksTracked

\* Every step of the library keeps the record of the blocks true.
LEMMA BlocksStep ==
    ASSUME TypeOK, Exclusive, SourceTracked, BlocksTracked, NEW t \in Threads,
           Step(t)
    PROVE  BlocksTracked'
BY BlocksSource, BlocksStage, BlocksTable, BlocksRelease, BlocksPublish DEF Step

\* So does a call: a new PeFile names no block, whatever its memory held.
LEMMA BlocksCall ==
    ASSUME TypeOK, Exclusive, BlocksTracked, NEW t \in Threads, Call(t)
    PROVE  BlocksTracked'
<1> USE DEF resVars, hostVars, callVars, Goto, At
<1>1. CASE RejectVersion(t)
  BY <1>1 DEF RejectVersion, BlocksTracked, BlocksRecorded, StagesDone, InUse
<1>2. ASSUME NEW r \in Requests, NEW f \in PeFiles, OpenEx(t, r, f)
      PROVE  BlocksTracked'
  <2>1. \A u \in Threads : f \notin {file[u], handle[u]}
    BY <1>2, LoaderAssumption DEF OpenEx, Exclusive
  <2>2. /\ heap' = heap \cup {<<f, "PeFile">>}
        /\ created' = created \cup {f}
        /\ UNCHANGED <<handle, images>>
        /\ handle[t] = NULL
        /\ file[t] = NULL
    BY <1>2 DEF OpenEx, Exclusive
  <2>3. \A kind : <<f, kind>> \notin heap
    BY <1>2 DEF OpenEx, BlocksTracked
  <2>4. /\ file'[t] = f
        /\ pc'[t] = "source"
        /\ \A u \in Threads \ {t} : /\ file'[u] = file[u]
                                    /\ handle'[u] = handle[u]
                                    /\ pc'[u] = pc[u]
    BY <1>2 DEF OpenEx, TypeOK
  <2>5. /\ pe'[f].importCount # "some"
        /\ pe'[f].exports # "own"
        /\ pe'[f].sections # "own"
        /\ \A g \in PeFiles \ {f} : pe'[g] = pe[g]
    BY <1>2 DEF OpenEx, TypeOK, NewPeFile, ZeroedPeFile, IndeterminatePeFile,
       Indeterminate
  <2>6. InUse(f)'
    BY <2>4 DEF InUse
  <2>7. BlocksRecorded(f)'
    BY <2>2, <2>3, <2>5, <2>6 DEF BlocksRecorded
  <2>8. StagesDone(t)'
    BY <2>4, <2>5 DEF StagesDone, AfterSegments
  <2>9. {file[t], handle[t], file'[t], handle'[t]} \subseteq {f, NULL}
    BY <2>2, <2>4
  <2>10. /\ heap' \subseteq created' \X Blocks
         /\ \A g \in PeFiles \ {f}, kind \in Blocks :
               <<g, kind>> \in heap' <=> <<g, kind>> \in heap
    BY <2>2 DEF BlocksTracked, Blocks
  <2> QED BY <2>1, <2>2, <2>4, <2>5, <2>7, <2>8, <2>9, <2>10, OtherBlocks
<1>3. CASE PeloaderClose(t)
  <2>1. PICK f \in PeFiles : f = handle[t] /\ file[t] = NULL
    BY <1>3 DEF PeloaderClose, TypeOK, Exclusive
  <2>2. \A u \in Threads \ {t} : f \notin {file[u], handle[u]}
    BY <2>1, WorksAlone
  <2>3. UNCHANGED <<heap, created, pe, images, handle>>
    BY <1>3 DEF PeloaderClose
  <2>4. /\ file'[t] = f
        /\ pc'[t] = "closeFile"
        /\ \A u \in Threads \ {t} : file'[u] = file[u] /\ pc'[u] = pc[u]
    BY <1>3, <2>1 DEF PeloaderClose, TypeOK
  <2>5. InUse(f) /\ InUse(f)'
    BY <2>1, <2>4 DEF InUse
  <2>6. BlocksRecorded(f)'
    BY <2>3, <2>5 DEF BlocksTracked, BlocksRecorded
  <2>7. StagesDone(t)'
    BY <2>4 DEF StagesDone, BeforeImports, AfterSegments
  <2>8. {file[t], handle[t], file'[t], handle'[t]} \subseteq {f, NULL}
    BY <2>1, <2>3, <2>4
  <2> QED BY <2>2, <2>3, <2>4, <2>6, <2>7, <2>8, OtherBlocks DEF BlocksTracked
<1> QED BY <1>1, <1>2, <1>3 DEF Call

\* The host's own descriptors are no blocks.
LEMMA BlocksHost ==
    ASSUME BlocksTracked,
           \/ \E d \in Fds : HostOpens(d) \/ HostCloses(d)
           \/ Terminating
           \/ UNCHANGED vars
    PROVE  BlocksTracked'
<1>1. UNCHANGED <<heap, created, pe, images, handle, file, pc>>
  BY DEF HostOpens, HostCloses, Terminating, vars, hostVars, callVars
<1> QED BY <1>1 DEF BlocksTracked, BlocksRecorded, StagesDone, InUse

\* What a PeFile records of its blocks is what it has, between any two steps.
THEOREM BlocksAreTracked == Spec => []BlocksTracked
<1>1. /\ TypeOK /\ Exclusive /\ SourceTracked /\ BlocksTracked
      /\ [Next]_vars
      => BlocksTracked'
  BY BlocksStep, BlocksCall, BlocksHost DEF Next
<1> QED BY <1>1, BlocksInit, TypeCorrect, SourceIsTracked, PTL DEF Spec

\* No block but the array of an empty import directory outlives its PeFile.
THEOREM HeapIsReclaimed == Spec => []HeapReclaimed
<1>1. BlocksTracked => HeapReclaimed
  <2> SUFFICES ASSUME BlocksTracked, NEW f \in PeFiles, NEW kind \in Blocks,
                      <<f, kind>> \in heap, ~InUse(f), kind # "noImports"
               PROVE  FALSE
    BY DEF HeapReclaimed
  <2>1. BlocksRecorded(f) /\ pe[f] = ZeroedPeFile
    BY DEF BlocksTracked, BlocksRecorded
  <2> QED BY <2>1 DEF BlocksRecorded, ZeroedPeFile, Blocks
<1> QED BY <1>1, BlocksAreTracked, PTL

\* A file the host holds has its object, its tables and its image, and no other
\* variable holds it.
THEOREM PublishedFileIsUsable == Spec => []PublishedIsUsable
<1>1. TypeOK /\ Exclusive /\ BlocksTracked => PublishedIsUsable
  <2> SUFFICES ASSUME TypeOK, Exclusive, BlocksTracked, NEW t \in Threads,
                      NEW f \in PeFiles, f = handle[t], file[t] = NULL
               PROVE  /\ <<f, "PeFile">> \in heap
                      /\ f \in images
                      /\ pe[f].fileType = "TYPE_CLOSED"
                      /\ pe[f].importCount = "some" => <<f, "imports">> \in heap
                      /\ pe[f].exports = "own" => <<f, "exports">> \in heap
                      /\ pe[f].sections = "own" => <<f, "sections">> \in heap
                      /\ \A u \in Threads \ {t} : f \notin {handle[u], file[u]}
    BY DEF PublishedIsUsable, TypeOK
  <2>1. BlocksRecorded(f) /\ InUse(f)
    BY DEF BlocksTracked, InUse
  <2>2. StagesDone(t) /\ pc[t] = "idle" /\ handle[t] # NULL
    BY LoaderAssumption DEF BlocksTracked, Exclusive
  <2>3. \A u \in Threads \ {t} : f \notin {handle[u], file[u]}
    BY WorksAlone
  <2> QED BY <2>1, <2>2, <2>3 DEF BlocksRecorded, StagesDone
<1> QED BY <1>1, TypeCorrect, BlocksAreTracked, PTL

-----------------------------------------------------------------------------
(* What harm needs *)

\* A count that a stage wrote comes with its array.
CountsHaveArrays ==
    \A f \in PeFiles :
       /\ pe[f].sectionCount = "some" => pe[f].sections = "own"
       /\ pe[f].importCount = "some" => pe[f].imports = "own"

\* A PeFile is new without any count, whatever its memory held.
LEMMA NewCounts ==
    ASSUME NEW p \in {ZeroedPeFile, IndeterminatePeFile}
    PROVE  p.sectionCount # "some" /\ p.importCount # "some"
BY DEF ZeroedPeFile, IndeterminatePeFile, Indeterminate

\* A stage writes a count together with its array.
LEMMA CountsStep ==
    ASSUME TypeOK, Exclusive, CountsHaveArrays, NEW t \in Threads, Step(t)
    PROVE  CountsHaveArrays'
<1> USE DEF resVars, hostVars, callVars, CountsHaveArrays, TypeOK, PeFileType
<1>1. PICK f \in PeFiles : f = file[t]
  BY CallFile DEF Step, At, OpenFile, OpenMemory, RejectOptions, ReadDosHeader,
     ReadPeHeader, ReadMagic, ParsePeHeaders, ReadSegments, ParseImports,
     ParseExports, RelocateFile, ApplySegmentPerms, CloseSource, Publish,
     CleanupFile, Release
<1>2. CASE OpenFile(t)
  <2>1. PICK d \in Fds \cup {NoFd} :
           pe' = [pe EXCEPT ![f].fileType = "TYPE_FILE", ![f].fileHandle = d]
    BY <1>1, <1>2 DEF OpenFile
  <2> QED BY <2>1
<1>3. CASE OpenMemory(t)
  <2>1. PICK v \in {"own", "nullptr"} :
           pe' = [pe EXCEPT ![f].fileType = "TYPE_BUFFER", ![f].callback = v]
    BY <1>1, <1>3 DEF OpenMemory
  <2> QED BY <2>1
<1>4. CASE ParsePeHeaders(t)
  <2>1. CASE pe' = pe
    BY <2>1
  <2>2. CASE HeadersRead(t)
    <3>1. PICK dirs \in {"read", pe[f].dataDirs}, n \in Counts :
             pe' = [pe EXCEPT ![f].dataDirs = dirs, ![f].sectionCount = n,
                              ![f].sections = "own"]
      BY <1>1, <2>2 DEF HeadersRead
    <3> QED BY <3>1
  <2> QED BY <1>4, <2>1, <2>2 DEF ParsePeHeaders
<1>5. CASE ParseImports(t) \/ ParseExports(t)
  <2>1. CASE pe' = pe
    BY <2>1
  <2>2. ASSUME NEW n \in Counts,
               pe' = [pe EXCEPT ![f].importCount = n, ![f].imports = "own"]
        PROVE  CountsHaveArrays'
    BY <2>2
  <2>3. ASSUME NEW n \in Counts,
               pe' = [pe EXCEPT ![f].exportCount = n, ![f].exports = "own"]
        PROVE  CountsHaveArrays'
    BY <2>3
  <2> QED BY <1>1, <1>5, <2>1, <2>2, <2>3 DEF ParseImports, ParseExports, Counts
<1>6. CASE CloseSource(t) \/ CleanupFile(t)
  <2>1. pe' \in {pe, [pe EXCEPT ![f].fileType = "TYPE_CLOSED"]}
    BY <1>1, <1>6 DEF CloseSource, CleanupFile, CloseFile, GiveBack
  <2> QED BY <2>1
<1>7. CASE Release(t)
  <2>1. pe' \in {pe, [pe EXCEPT ![f] = ZeroedPeFile]}
    BY <1>1, <1>7 DEF Release
  <2>2. \A g \in PeFiles : pe'[g] \in {pe[g], ZeroedPeFile}
    BY <2>1
  <2> QED BY <2>2, NewCounts
<1>8. CASE \/ RejectOptions(t) \/ ReadDosHeader(t) \/ ReadPeHeader(t)
           \/ ReadMagic(t) \/ ReadSegments(t) \/ RelocateFile(t)
           \/ ApplySegmentPerms(t) \/ Publish(t)
  <2>1. pe' = pe
    BY <1>8 DEF RejectOptions, ReadDosHeader, ReadPeHeader, ReadMagic,
       ReadSegments, RelocateFile, ApplySegmentPerms, Publish
  <2> QED BY <2>1
<1> QED BY <1>2, <1>3, <1>4, <1>5, <1>6, <1>7, <1>8 DEF Step

\* A new PeFile counts nothing, and nothing else outside the stages writes one.
LEMMA CountsRest ==
    ASSUME TypeOK, CountsHaveArrays, [Next]_vars, \A t \in Threads : ~Step(t)
    PROVE  CountsHaveArrays'
<1>1. ASSUME NEW t \in Threads, RejectVersion(t) \/ PeloaderClose(t)
      PROVE  CountsHaveArrays'
  BY <1>1 DEF RejectVersion, PeloaderClose, resVars, CountsHaveArrays
<1>2. ASSUME NEW t \in Threads, NEW r \in Requests, NEW f \in PeFiles,
             OpenEx(t, r, f)
      PROVE  CountsHaveArrays'
  <2>1. PICK p \in {ZeroedPeFile, IndeterminatePeFile} :
           pe' = [pe EXCEPT ![f] = p]
    BY <1>2 DEF OpenEx, NewPeFile
  <2>2. \A g \in PeFiles : pe'[g] \in {pe[g], p}
    BY <2>1 DEF TypeOK
  <2> QED BY <2>2, NewCounts DEF CountsHaveArrays
<1>3. CASE \/ \E d \in Fds : HostOpens(d) \/ HostCloses(d)
           \/ Terminating
           \/ UNCHANGED vars
  BY <1>3 DEF HostOpens, HostCloses, Terminating, vars, CountsHaveArrays
<1> QED BY <1>1, <1>2, <1>3 DEF Next, Call

\* A stage that does harm over a member has relied on one nobody wrote.
LEMMA HarmStep ==
    ASSUME TypeOK, Exclusive, BlocksTracked, CountsHaveArrays,
           NEW t \in Threads, Step(t), process' \in {"undefined", "mismatched"}
    PROVE  HarmHasCause'
<1> USE DEF FailWith, ReadFails, Continue, Stop, Goto, At
<1>1. PICK f \in PeFiles : f = file[t]
  BY CallFile DEF Step, OpenFile, OpenMemory, RejectOptions, ReadDosHeader,
     ReadPeHeader, ReadMagic, ParsePeHeaders, ReadSegments, ParseImports,
     ParseExports, RelocateFile, ApplySegmentPerms, CloseSource, Publish,
     CleanupFile, Release
<1>2. CASE \/ OpenFile(t) \/ OpenMemory(t) \/ RejectOptions(t)
           \/ ReadDosHeader(t) \/ ReadPeHeader(t) \/ ReadMagic(t)
           \/ ParsePeHeaders(t) \/ Publish(t)
  BY <1>2 DEF OpenFile, OpenMemory, RejectOptions, ReadDosHeader, ReadPeHeader,
     ReadMagic, AbortAtEndOfBuffer, ParsePeHeaders, HeadersRead, Publish
<1>3. CASE ReadSegments(t) \/ ApplySegmentPerms(t)
  <2>1. /\ UNCHANGED <<pc, pe, file>>
        /\ pc[t] \in {"segments", "perms"}
        /\ GarbageSections(f) \/ MayBeUnsized(f)
    BY <1>1, <1>3 DEF ReadSegments, ApplySegmentPerms, resVars, callVars
  <2>2. CASE MayBeUnsized(f)
    <3>1. MayBeUnsized(f)'
      BY <2>1, <2>2 DEF MayBeUnsized
    <3> QED BY <1>1, <2>1, <3>1 DEF HarmHasCause
  <2>3. CASE GarbageSections(f)
    <3>1. pe[f].sectionCount = Indeterminate
      BY <2>3 DEF GarbageSections, CountsHaveArrays, Reads
    <3>2. "sectionCount" \in ReliesOn(pc[t])
      BY <2>1 DEF ReliesOn
    <3> QED BY <1>1, <2>1, <3>1, <3>2 DEF HarmHasCause
  <2> QED BY <2>1, <2>2, <2>3
<1>4. CASE ParseImports(t) \/ ParseExports(t) \/ RelocateFile(t)
  <2>1. /\ UNCHANGED <<pc, pe, file>>
        /\ pc[t] \in {"imports", "exports", "relocate"}
        /\ MayMislead(f)
    BY <1>1, <1>4 DEF ParseImports, ParseExports, RelocateFile, resVars, callVars
  <2>2. "dataDirs" \in ReliesOn(pc[t])
    BY <2>1 DEF ReliesOn
  <2> QED BY <1>1, <2>1, <2>2 DEF MayMislead, HarmHasCause
<1>5. CASE CloseSource(t) \/ CleanupFile(t)
  <2>1. /\ "garbage" \in Reads(pe[f].callback, {"nullptr", "garbage"})
        /\ pe' = [pe EXCEPT ![f].fileType = "TYPE_CLOSED"]
    BY <1>1, <1>5 DEF CloseSource, CleanupFile, CloseFile, GiveBack
  <2>2. pe[f].callback = Indeterminate
    BY <2>1 DEF Reads, TypeOK, PeFileType, Pointers, Indeterminate
  <2>3. pe'[f].callback = Indeterminate
    BY <2>1, <2>2 DEF TypeOK, PeFileType
  <2>4. pc'[t] \in {"publish", "release"} /\ file' = file
    BY <1>5 DEF CloseSource, CleanupFile, TypeOK, callVars
  <2>5. "callback" \in ReliesOn(pc'[t])
    BY <2>4 DEF ReliesOn
  <2> QED BY <1>1, <2>3, <2>4, <2>5 DEF HarmHasCause
<1>6. CASE Release(t)
  <2>1. UNCHANGED <<pc, pe, file>> /\ pc[t] = "release"
    BY <1>6 DEF Release, callVars
  <2>2. {"importCount", "imports", "exports", "sections", "sectionAllocation"}
           \subseteq ReliesOn(pc'[t])
    BY <2>1 DEF ReliesOn
  <2>3. CASE Indeterminate \in {pe[f].importCount, pe[f].imports, pe[f].exports,
                               pe[f].sections, pe[f].sectionAllocation}
    BY <1>1, <2>1, <2>2, <2>3 DEF HarmHasCause
  <2>4. CASE Indeterminate \notin {pe[f].importCount, pe[f].imports,
                                  pe[f].exports, pe[f].sections,
                                  pe[f].sectionAllocation}
    <3>1. /\ Reads(pe[f].importCount, Counts) = {pe[f].importCount}
          /\ Reads(pe[f].imports, {"nullptr", "garbage"}) = {pe[f].imports}
          /\ Reads(pe[f].exports, {"nullptr", "garbage"}) = {pe[f].exports}
          /\ Reads(pe[f].sections, {"nullptr", "garbage"}) = {pe[f].sections}
          /\ Reads(pe[f].sectionAllocation, {"nullptr", "garbage"})
                = {pe[f].sectionAllocation}
      BY <2>4 DEF Reads
    <3>2. /\ pe[f].importCount = "some" => pe[f].imports = "own"
          /\ "garbage" \notin {pe[f].exports, pe[f].sectionAllocation,
                               pe[f].sections}
      BY <2>4 DEF CountsHaveArrays, TypeOK, PeFileType, Pointers, Indeterminate
    <3>3. BlocksRecorded(f) /\ <<f, "PeFile">> \in heap
      BY <1>1 DEF BlocksTracked, BlocksRecorded, InUse
    <3>4. Deleted(f, pe[f].importCount, pe[f].exports, pe[f].sections)
             \subseteq heap
      BY <3>3 DEF Deleted, BlocksRecorded
    <3>5. process' = "mismatched" /\ pe[f].exports = "own"
      BY <1>1, <1>6, <3>1, <3>2, <3>4 DEF Release
    <3> QED BY <1>1, <2>1, <3>5 DEF HarmHasCause
  <2> QED BY <2>3, <2>4
<1> QED BY <1>2, <1>3, <1>4, <1>5, <1>6 DEF Step

\* Nothing runs once harm was done, and only a stage does harm.
LEMMA HarmRest ==
    ASSUME HarmHasCause, [Next]_vars,
           process' \in {"undefined", "mismatched"},
           \A t \in Threads : ~(process = "running" /\ Step(t))
    PROVE  HarmHasCause'
<1>1. ASSUME NEW t \in Threads, Call(t) \/ Step(t)
      PROVE  FALSE
  BY <1>1 DEF Call, RejectVersion, OpenEx, PeloaderClose, Step, At, OpenFile,
     OpenMemory, RejectOptions, ReadDosHeader, ReadPeHeader, ReadMagic,
     ParsePeHeaders, ReadSegments, ParseImports, ParseExports, RelocateFile,
     ApplySegmentPerms, CloseSource, Publish, CleanupFile, Release
<1>2. UNCHANGED vars
  BY <1>1 DEF Next, HostOpens, HostCloses, Terminating
<1> QED BY <1>2 DEF vars, HarmHasCause, MayBeUnsized

\* Whatever memory holds, whatever options are passed and whichever stage fails,
\* the loader's bookkeeping comes to harm over members nobody wrote and over the
\* array of exports, and over nothing else.
THEOREM HarmAlwaysHasCause == Spec => []HarmHasCause
<1>1. Init => CountsHaveArrays /\ HarmHasCause
  BY NewCounts DEF Init, CountsHaveArrays, HarmHasCause
<1>2. TypeOK /\ Exclusive /\ CountsHaveArrays /\ [Next]_vars
      => CountsHaveArrays'
  BY CountsStep, CountsRest
<1>3. /\ TypeOK /\ Exclusive /\ BlocksTracked
      /\ CountsHaveArrays /\ HarmHasCause
      /\ [Next]_vars
      => HarmHasCause'
  <2>1. ASSUME process' \notin {"undefined", "mismatched"}
        PROVE  HarmHasCause'
    BY <2>1 DEF HarmHasCause
  <2> QED BY <2>1, HarmStep, HarmRest
<1> QED BY <1>1, <1>2, <1>3, TypeCorrect, BlocksAreTracked, PTL DEF Spec

-----------------------------------------------------------------------------
(* Images *)

\* An image mapping, once made, exists for the rest of the process: cleanup
\* unmaps what sectionAllocation says, and nothing ever stores it there.
ImagesKept == [][images \subseteq images']_vars

\* No PeFile has the address of its image.
ImagesUnnamed == \A f \in PeFiles : pe[f].sectionAllocation # "own"

\* The member is written when the PeFile is new and by nothing else.
LEMMA UnnamedStep ==
    ASSUME TypeOK, Exclusive, ImagesUnnamed, NEW t \in Threads, Step(t)
    PROVE  ImagesUnnamed'
<1>1. PICK f \in PeFiles : f = file[t]
  BY CallFile DEF Step, At, OpenFile, OpenMemory, RejectOptions, ReadDosHeader,
     ReadPeHeader, ReadMagic, ParsePeHeaders, ReadSegments, ParseImports,
     ParseExports, RelocateFile, ApplySegmentPerms, CloseSource, Publish,
     CleanupFile, Release
<1> USE DEF ImagesUnnamed, TypeOK, PeFileType
<1>2. CASE OpenFile(t)
  <2>1. PICK d :
           pe' = [pe EXCEPT ![f].fileType = "TYPE_FILE", ![f].fileHandle = d]
    BY <1>1, <1>2 DEF OpenFile
  <2> QED BY <2>1
<1>3. CASE OpenMemory(t)
  <2>1. PICK v :
           pe' = [pe EXCEPT ![f].fileType = "TYPE_BUFFER", ![f].callback = v]
    BY <1>1, <1>3 DEF OpenMemory
  <2> QED BY <2>1
<1>4. CASE ParsePeHeaders(t)
  <2>1. CASE pe' = pe
    BY <2>1
  <2>2. CASE HeadersRead(t)
    <3>1. PICK dirs, n :
             pe' = [pe EXCEPT ![f].dataDirs = dirs, ![f].sectionCount = n,
                              ![f].sections = "own"]
      <4>1. f = file[t]
        BY <1>1
      <4> QED BY ONLY <2>2, <4>1, Zenon DEF HeadersRead
    <3> QED BY <3>1
  <2> QED BY <1>4, <2>1, <2>2 DEF ParsePeHeaders
<1>5. CASE ParseImports(t) \/ ParseExports(t)
  <2>1. CASE pe' = pe
    BY <2>1
  <2>2. ASSUME NEW n,
               pe' = [pe EXCEPT ![f].importCount = n, ![f].imports = "own"]
        PROVE  ImagesUnnamed'
    BY <2>2
  <2>3. ASSUME NEW n,
               pe' = [pe EXCEPT ![f].exportCount = n, ![f].exports = "own"]
        PROVE  ImagesUnnamed'
    BY <2>3
  <2> QED BY <1>1, <1>5, <2>1, <2>2, <2>3 DEF ParseImports, ParseExports
<1>6. CASE CloseSource(t) \/ CleanupFile(t)
  <2>1. pe' \in {pe, [pe EXCEPT ![f].fileType = "TYPE_CLOSED"]}
    BY <1>1, <1>6 DEF CloseSource, CleanupFile, CloseFile, GiveBack
  <2> QED BY <2>1
<1>7. CASE Release(t)
  <2>1. pe' \in {pe, [pe EXCEPT ![f] = ZeroedPeFile]}
    BY <1>1, <1>7 DEF Release
  <2> QED BY <2>1 DEF ZeroedPeFile
<1>8. CASE \/ RejectOptions(t) \/ ReadDosHeader(t) \/ ReadPeHeader(t)
           \/ ReadMagic(t) \/ ReadSegments(t) \/ RelocateFile(t)
           \/ ApplySegmentPerms(t) \/ Publish(t)
  <2>1. pe' = pe
    BY <1>8 DEF RejectOptions, ReadDosHeader, ReadPeHeader, ReadMagic,
       ReadSegments, RelocateFile, ApplySegmentPerms, Publish, resVars
  <2> QED BY <2>1
<1> QED BY <1>2, <1>3, <1>4, <1>5, <1>6, <1>7, <1>8 DEF Step

\* A call sets it to zero, or leaves in it what the memory held.
LEMMA UnnamedRest ==
    ASSUME TypeOK, ImagesUnnamed, [Next]_vars,
           \A t \in Threads : ~Step(t)
    PROVE  ImagesUnnamed' /\ images' = images
<1> USE DEF resVars, hostVars, callVars
<1>1. ASSUME NEW t \in Threads, RejectVersion(t) \/ PeloaderClose(t)
      PROVE  ImagesUnnamed' /\ images' = images
  BY <1>1 DEF RejectVersion, PeloaderClose, ImagesUnnamed
<1>2. ASSUME NEW t \in Threads, NEW r \in Requests, NEW f \in PeFiles,
             OpenEx(t, r, f)
      PROVE  ImagesUnnamed' /\ images' = images
  <2>1. PICK p \in {ZeroedPeFile, IndeterminatePeFile} :
           pe' = [pe EXCEPT ![f] = p]
    BY <1>2 DEF OpenEx, NewPeFile
  <2>2. p.sectionAllocation # "own"
    BY DEF ZeroedPeFile, IndeterminatePeFile, Indeterminate
  <2> QED BY <1>2, <2>1, <2>2 DEF ImagesUnnamed, TypeOK, OpenEx
<1>3. CASE \/ \E d \in Fds : HostOpens(d) \/ HostCloses(d)
           \/ Terminating
           \/ UNCHANGED vars
  BY <1>3 DEF HostOpens, HostCloses, Terminating, vars, ImagesUnnamed
<1> QED BY <1>1, <1>2, <1>3 DEF Next, Call

\* Every image outlives its PeFile, also when the open failed or the file was
\* closed: what the run about CleanupReleasesImage shows of one file is true of
\* all of them.
THEOREM ImagesAreKept == Spec => ImagesKept
<1>1. Init => ImagesUnnamed
  BY DEF Init, ImagesUnnamed, ZeroedPeFile
<1>2. TypeOK /\ Exclusive /\ ImagesUnnamed /\ [Next]_vars => ImagesUnnamed'
  BY UnnamedStep, UnnamedRest
<1>3. ASSUME TypeOK, Exclusive, ImagesUnnamed, [Next]_vars
      PROVE  images \subseteq images'
  <2>1. ASSUME NEW t \in Threads, Step(t) PROVE images \subseteq images'
    <3>1. CASE Release(t)
      <4>1. file[t] \in PeFiles
        BY <3>1, CallFile, <1>3 DEF Release, At
      <4>2. "own" \notin Reads(pe[file[t]].sectionAllocation,
                               {"nullptr", "garbage"})
        BY <1>3, <4>1 DEF Reads, ImagesUnnamed
      <4> QED BY <3>1, <4>2 DEF Release
    <3>2. CASE ~Release(t)
      BY <2>1, <3>2 DEF Step, OpenFile, OpenMemory, RejectOptions,
         ReadDosHeader, ReadPeHeader, ReadMagic, ParsePeHeaders, ReadSegments,
         ParseImports, ParseExports, RelocateFile, ApplySegmentPerms,
         CloseSource, Publish, CleanupFile, resVars
    <3> QED BY <3>1, <3>2
  <2> QED BY <1>3, <2>1, UnnamedRest
<1>4. TypeOK /\ Exclusive /\ ImagesUnnamed /\ [Next]_vars
      => [images \subseteq images']_vars
  BY <1>3
<1> QED BY <1>1, <1>2, <1>4, TypeCorrect, PTL DEF Spec, ImagesKept

=============================================================================
