-------------------------- MODULE PeLoaderHostProofs --------------------------
(***************************************************************************)
(* Proofs of what the host sees of PeLoader when it passes options that    *)
(* name a source: descriptors are closed by their owner only, and each     *)
(* thread's PeFile* goes through the states of PeHandle.                   *)
(*                                                                         *)
(* Options without a source are excepted because cleanup then closes what  *)
(* the memory of the PeFile happens to say, and because EINVAL comes back  *)
(* positive, which public/peloader.h does not have.                        *)
(***************************************************************************)
EXTENDS PeLoaderHeapProofs

\* The kinds of PeLoaderOpen that name a source, or are refused before anything
\* is allocated.
SourcedRequests == {"path", "buffer", "plainBuffer", "unknownVersion"}

-----------------------------------------------------------------------------
(* Descriptors of the host *)

\* The PeFile of a call that is to run closeFile has a descriptor of its own,
\* or one that could not be opened, or none.
OwnsDescriptor(t) ==
    LET f == file[t] IN
    pc[t] \in Reading \cup {"closeFile"} =>
       \/ pe[f].fileType \in {"TYPE_BUFFER", "TYPE_CLOSED"}
       \/ /\ pe[f].fileType = "TYPE_FILE"
          /\ \/ pe[f].fileHandle = NoFd
             \/ pe[f].fileHandle \in Fds /\ fds[pe[f].fileHandle] = f

\* A call that has no source yet was given options that name one.
NamesSource(t) == pc[t] = "source" => request[t] \in SourcedRequests

DescriptorsOwned == \A t \in Threads : OwnsDescriptor(t) /\ NamesSource(t)

\* A step of one thread takes no descriptor from the PeFile of another.
LEMMA OtherDescriptors ==
    ASSUME TypeOK, Exclusive, DescriptorsOwned, NEW t \in Threads,
           NEW f \in PeFiles,
           \A u \in Threads \ {t} : /\ f # file[u]
                                    /\ file'[u] = file[u]
                                    /\ request'[u] = request[u]
                                    /\ pc'[u] = pc[u],
           \A g \in PeFiles \ {f} : pe'[g] = pe[g],
           \A d \in Fds, g \in PeFiles \ {f} : fds[d] = g => fds'[d] = g,
           OwnsDescriptor(t)',
           NamesSource(t)'
    PROVE  DescriptorsOwned'
<1>1. ASSUME NEW u \in Threads \ {t} PROVE OwnsDescriptor(u)' /\ NamesSource(u)'
  <2>1. pc[u] # "idle" => file[u] \in PeFiles \ {f}
    BY DEF Exclusive, TypeOK
  <2>2. OwnsDescriptor(u) /\ NamesSource(u)
    BY DEF DescriptorsOwned
  <2> QED BY <2>1, <2>2 DEF OwnsDescriptor, NamesSource, Reading
<1> QED BY <1>1 DEF DescriptorsOwned

\* closeFile takes a descriptor from its own PeFile only.
LEMMA ClosesOwn ==
    ASSUME TypeOK, Exclusive, DescriptorsOwned, NEW t \in Threads,
           CloseSource(t) \/ CleanupFile(t),
           NEW d \in Fds, fds'[d] # fds[d]
    PROVE  fds[d] = file[t]
<1>1. PICK f \in PeFiles : f = file[t]
  BY CallFile DEF CloseSource, CleanupFile, At
<1>2. GiveBack(f, "TYPE_CLOSED")
  BY <1>1 DEF CloseSource, CleanupFile, CloseFile
<1>3. OwnsDescriptor(t) /\ pc[t] \in Reading \cup {"closeFile"}
  BY DEF DescriptorsOwned, CloseSource, CleanupFile, At, Reading
<1>4. \/ pe[f].fileType \in {"TYPE_BUFFER", "TYPE_CLOSED"}
      \/ /\ pe[f].fileType = "TYPE_FILE"
         /\ \/ pe[f].fileHandle = NoFd
            \/ pe[f].fileHandle \in Fds /\ fds[pe[f].fileHandle] = f
  BY <1>1, <1>3 DEF OwnsDescriptor
<1>5. Indeterminate \notin {pe[f].fileType, pe[f].fileHandle}
         \/ pe[f].fileType \in {"TYPE_BUFFER", "TYPE_CLOSED"}
  BY <1>4, LoaderAssumption DEF NoFd, Indeterminate
<1>6. CASE pe[f].fileType \in {"TYPE_BUFFER", "TYPE_CLOSED"}
  BY <1>2, <1>6 DEF GiveBack, Reads, Indeterminate
<1>7. CASE pe[f].fileType = "TYPE_FILE" /\ pe[f].fileHandle # Indeterminate
  <2>1. fds' = [e \in Fds |-> IF e = pe[f].fileHandle THEN "free" ELSE fds[e]]
    BY <1>2, <1>7 DEF GiveBack, Reads, Indeterminate
  <2>2. pe[f].fileHandle = d
    BY <2>1 DEF TypeOK
  <2> QED BY <1>1, <1>4, <1>7, <2>2, LoaderAssumption DEF NoFd
<1> QED BY <1>4, <1>5, <1>6, <1>7

\* The steps of the library keep it so.
LEMMA OwnedStep ==
    ASSUME TypeOK, Exclusive, DescriptorsOwned, NEW t \in Threads, Step(t)
    PROVE  DescriptorsOwned'
<1> USE DEF resVars, hostVars, callVars, FailWith, ReadFails, Continue, Stop,
            Goto, At
<1>1. PICK f \in PeFiles : f = file[t]
  BY CallFile DEF Step, OpenFile, OpenMemory, RejectOptions, ReadDosHeader,
     ReadPeHeader, ReadMagic, ParsePeHeaders, ReadSegments, ParseImports,
     ParseExports, RelocateFile, ApplySegmentPerms, CloseSource, Publish,
     CleanupFile, Release
<1>2. \A u \in Threads \ {t} : f # file[u]
  BY <1>1, WorksAlone
<1>3. OwnsDescriptor(t) /\ NamesSource(t)
  BY DEF DescriptorsOwned
<1>4. CASE OpenFile(t)
  <2>1. PICK d \in Fds \cup {NoFd}, l \in {"dosHeader", "closeFile"} :
           /\ pe' = [pe EXCEPT ![f].fileType = "TYPE_FILE",
                               ![f].fileHandle = d]
           /\ pc' = [pc EXCEPT ![t] = l]
           /\ d # NoFd => fds[d] = "free" /\ fds' = [fds EXCEPT ![d] = f]
           /\ d = NoFd => fds' = fds
    BY <1>1, <1>4, LoaderAssumption DEF OpenFile
  <2>2. UNCHANGED <<file, request>>
    BY <1>4 DEF OpenFile
  <2>3. /\ pe'[f].fileType = "TYPE_FILE"
        /\ pe'[f].fileHandle = d
        /\ \A g \in PeFiles \ {f} : pe'[g] = pe[g]
    BY <2>1 DEF TypeOK, PeFileType
  <2>4. d # NoFd => d \in Fds /\ fds'[d] = f
    BY <2>1 DEF TypeOK
  <2>5. pc'[t] = l /\ \A u \in Threads \ {t} : pc'[u] = pc[u]
    BY <2>1 DEF TypeOK
  <2>6. OwnsDescriptor(t)' /\ NamesSource(t)'
    BY <1>1, <2>2, <2>3, <2>4, <2>5 DEF OwnsDescriptor, NamesSource
  <2>7. \A e \in Fds, g \in PeFiles \ {f} : fds[e] = g => fds'[e] = g
    BY <2>1, LoaderAssumption DEF TypeOK
  <2> QED BY <1>2, <2>2, <2>3, <2>5, <2>6, <2>7, OtherDescriptors
<1>5. CASE OpenMemory(t)
  <2>1. PICK v : pe' = [pe EXCEPT ![f].fileType = "TYPE_BUFFER",
                                  ![f].callback = v]
    BY <1>1, <1>5 DEF OpenMemory
  <2>2. UNCHANGED <<file, request, fds>> /\ pc' = [pc EXCEPT ![t] = "dosHeader"]
    BY <1>5 DEF OpenMemory
  <2>3. /\ pe'[f].fileType = "TYPE_BUFFER"
        /\ \A g \in PeFiles \ {f} : pe'[g] = pe[g]
    BY <2>1 DEF TypeOK, PeFileType
  <2>4. pc'[t] = "dosHeader" /\ \A u \in Threads \ {t} : pc'[u] = pc[u]
    BY <2>2 DEF TypeOK
  <2>5. OwnsDescriptor(t)' /\ NamesSource(t)'
    BY <1>1, <2>2, <2>3, <2>4 DEF OwnsDescriptor, NamesSource
  <2> QED BY <1>2, <2>2, <2>3, <2>4, <2>5, OtherDescriptors
<1>6. CASE RejectOptions(t)
  BY <1>3, <1>6 DEF RejectOptions, NamesSource, SourcedRequests
<1>7. CASE \/ ReadDosHeader(t) \/ ReadPeHeader(t) \/ ReadMagic(t)
           \/ ParsePeHeaders(t) \/ ReadSegments(t) \/ ParseImports(t)
           \/ ParseExports(t) \/ RelocateFile(t) \/ ApplySegmentPerms(t)
  <2>1. UNCHANGED <<fds, file, request>> /\ pc[t] \in Reading
    BY <1>7 DEF ReadDosHeader, ReadPeHeader, ReadMagic, ParsePeHeaders,
       ReadSegments, ParseImports, ParseExports, RelocateFile,
       ApplySegmentPerms, Reading
  <2>2. PICK l \in Reading \cup {"closeFile"} : pc' = [pc EXCEPT ![t] = l]
    <3>1. CASE ReadDosHeader(t) \/ ReadPeHeader(t) \/ ReadMagic(t)
      BY <3>1 DEF ReadDosHeader, ReadPeHeader, ReadMagic, AbortAtEndOfBuffer,
         Reading, TypeOK
    <3>2. CASE ParsePeHeaders(t)
      BY <3>2 DEF ParsePeHeaders, HeadersRead, Reading, TypeOK
    <3>3. CASE ReadSegments(t)
      BY <3>3 DEF ReadSegments, Reading, TypeOK
    <3>4. CASE ParseImports(t) \/ ParseExports(t)
      BY <3>4 DEF ParseImports, ParseExports, Reading, TypeOK
    <3>5. CASE RelocateFile(t) \/ ApplySegmentPerms(t)
      BY <3>5 DEF RelocateFile, ApplySegmentPerms, Reading, TypeOK
    <3> QED BY <1>7, <3>1, <3>2, <3>3, <3>4, <3>5
  <2>3. /\ pe'[f].fileType = pe[f].fileType
        /\ pe'[f].fileHandle = pe[f].fileHandle
        /\ \A g \in PeFiles \ {f} : pe'[g] = pe[g]
    <3>1. CASE pe' = pe
      BY <3>1
    <3>2. ASSUME NEW dirs, NEW n,
                 pe' = [pe EXCEPT ![f].dataDirs = dirs, ![f].sectionCount = n,
                                  ![f].sections = "own"]
          PROVE  /\ pe'[f].fileType = pe[f].fileType
                 /\ pe'[f].fileHandle = pe[f].fileHandle
                 /\ \A g \in PeFiles \ {f} : pe'[g] = pe[g]
      BY <3>2 DEF TypeOK, PeFileType
    <3>3. ASSUME NEW n,
                 \/ pe' = [pe EXCEPT ![f].importCount = n, ![f].imports = "own"]
                 \/ pe' = [pe EXCEPT ![f].exportCount = n, ![f].exports = "own"]
          PROVE  /\ pe'[f].fileType = pe[f].fileType
                 /\ pe'[f].fileHandle = pe[f].fileHandle
                 /\ \A g \in PeFiles \ {f} : pe'[g] = pe[g]
      BY <3>3 DEF TypeOK, PeFileType
    <3>4. CASE ParsePeHeaders(t)
      <4>1. pe' = pe \/ HeadersRead(t)
        BY <3>4 DEF ParsePeHeaders
      <4> QED BY <1>1, <3>1, <3>2, <4>1 DEF HeadersRead
    <3>5. CASE ParseImports(t)
      BY <1>1, <3>1, <3>3, <3>5 DEF ParseImports
    <3>6. CASE ParseExports(t)
      BY <1>1, <3>1, <3>3, <3>6 DEF ParseExports
    <3>7. CASE \/ ReadDosHeader(t) \/ ReadPeHeader(t) \/ ReadMagic(t)
               \/ ReadSegments(t) \/ RelocateFile(t) \/ ApplySegmentPerms(t)
      <4>1. pe' = pe
        BY <3>7 DEF ReadDosHeader, ReadPeHeader, ReadMagic, ReadSegments,
           RelocateFile, ApplySegmentPerms
      <4> QED BY <3>1, <4>1
    <3> QED BY <1>7, <3>4, <3>5, <3>6, <3>7
  <2>4. pc'[t] = l /\ \A u \in Threads \ {t} : pc'[u] = pc[u]
    BY <2>2 DEF TypeOK
  <2>5. OwnsDescriptor(t)' /\ NamesSource(t)'
    BY <1>1, <1>3, <2>1, <2>3, <2>4 DEF OwnsDescriptor, NamesSource, Reading
  <2> QED BY <1>2, <2>1, <2>3, <2>4, <2>5, OtherDescriptors
<1>8. CASE CloseSource(t) \/ CleanupFile(t)
  <2>1. \A d \in Fds, g \in PeFiles \ {f} : fds[d] = g => fds'[d] = g
    BY <1>1, <1>8, ClosesOwn
  <2>2. UNCHANGED <<file, request>>
    BY <1>8 DEF CloseSource, CleanupFile
  <2>3. /\ pc'[t] \in {"publish", "release"}
        /\ \A u \in Threads \ {t} : pc'[u] = pc[u]
    BY <1>8 DEF CloseSource, CleanupFile, TypeOK
  <2>4. \A g \in PeFiles \ {f} : pe'[g] = pe[g]
    BY <1>1, <1>8 DEF CloseSource, CleanupFile, CloseFile, GiveBack, TypeOK
  <2>5. OwnsDescriptor(t)' /\ NamesSource(t)'
    BY <2>3 DEF OwnsDescriptor, NamesSource, Reading
  <2> QED BY <1>2, <2>1, <2>2, <2>3, <2>4, <2>5, OtherDescriptors
<1>9. CASE Publish(t) \/ Release(t)
  <2>1. fds' = fds
    BY <1>9 DEF Publish, Release
  <2>2. /\ pc'[t] \in {"idle", "release"}
        /\ \A u \in Threads \ {t} : /\ pc'[u] = pc[u]
                                    /\ file'[u] = file[u]
                                    /\ request'[u] = request[u]
    BY <1>9 DEF Publish, Release, TypeOK
  <2>3. \A g \in PeFiles \ {f} : pe'[g] = pe[g]
    BY <1>1, <1>9 DEF Publish, Release, TypeOK
  <2>4. OwnsDescriptor(t)' /\ NamesSource(t)'
    BY <2>2 DEF OwnsDescriptor, NamesSource, Reading
  <2> QED BY <1>2, <2>1, <2>2, <2>3, <2>4, OtherDescriptors
<1> QED BY <1>4, <1>5, <1>6, <1>7, <1>8, <1>9 DEF Step

\* So do the calls, as long as the options name a source.
LEMMA OwnedCall ==
    ASSUME Requests \subseteq SourcedRequests,
           TypeOK, Exclusive, BlocksTracked, DescriptorsOwned,
           NEW t \in Threads, Call(t)
    PROVE  DescriptorsOwned'
<1> USE DEF resVars, hostVars, callVars, Goto, At
<1>1. CASE RejectVersion(t)
  BY <1>1 DEF RejectVersion, DescriptorsOwned, OwnsDescriptor, NamesSource
<1>2. ASSUME NEW r \in Requests, NEW f \in PeFiles, OpenEx(t, r, f)
      PROVE  DescriptorsOwned'
  <2>1. \A u \in Threads : f \notin {file[u], handle[u]}
    BY <1>2, LoaderAssumption DEF OpenEx, Exclusive
  <2>2. /\ pc'[t] = "source"
        /\ request'[t] = r
        /\ \A u \in Threads \ {t} : /\ pc'[u] = pc[u]
                                    /\ file'[u] = file[u]
                                    /\ request'[u] = request[u]
    BY <1>2 DEF OpenEx, TypeOK
  <2>3. fds' = fds /\ \A g \in PeFiles \ {f} : pe'[g] = pe[g]
    BY <1>2 DEF OpenEx, TypeOK
  <2>4. OwnsDescriptor(t)' /\ NamesSource(t)'
    BY <2>2 DEF OwnsDescriptor, NamesSource, Reading
  <2> QED BY <2>1, <2>2, <2>3, <2>4, OtherDescriptors
<1>3. CASE PeloaderClose(t)
  <2>1. PICK f \in PeFiles : f = handle[t] /\ pc[t] = "idle"
    BY <1>3, LoaderAssumption DEF PeloaderClose, TypeOK
  <2>2. pe[f].fileType = "TYPE_CLOSED"
    BY <2>1, LoaderAssumption DEF BlocksTracked, StagesDone
  <2>3. UNCHANGED <<fds, pe, request>>
    BY <1>3 DEF PeloaderClose
  <2>4. /\ pc'[t] = "closeFile"
        /\ file'[t] = f
        /\ \A u \in Threads \ {t} : pc'[u] = pc[u] /\ file'[u] = file[u]
    BY <1>3, <2>1 DEF PeloaderClose, TypeOK
  <2>5. OwnsDescriptor(t)' /\ NamesSource(t)'
    BY <2>2, <2>3, <2>4 DEF OwnsDescriptor, NamesSource
  <2>6. \A u \in Threads \ {t} : f # file[u]
    BY <2>1, WorksAlone
  <2> QED BY <2>3, <2>4, <2>5, <2>6, OtherDescriptors
<1> QED BY <1>1, <1>2, <1>3 DEF Call

\* The host opens descriptors that are free and closes its own.
LEMMA OwnedHost ==
    ASSUME TypeOK, Exclusive, DescriptorsOwned,
           \/ \E d \in Fds : HostOpens(d) \/ HostCloses(d)
           \/ Terminating
           \/ UNCHANGED vars
    PROVE  DescriptorsOwned'
<1>1. UNCHANGED <<pe, file, pc, request>>
  BY DEF HostOpens, HostCloses, Terminating, vars, hostVars, callVars
<1>2. \A d \in Fds, f \in PeFiles : fds[d] = f => fds'[d] = f
  BY LoaderAssumption DEF HostOpens, HostCloses, Terminating, vars, TypeOK
<1>3. \A t \in Threads : pc[t] \in Reading \cup {"closeFile"} =>
                            file[t] \in PeFiles
  BY DEF Exclusive, TypeOK, Reading
<1> QED BY <1>1, <1>2, <1>3 DEF DescriptorsOwned, OwnsDescriptor, NamesSource

\* A descriptor that is open changes hands by a step of its owner only.
LEMMA OwnerStep ==
    ASSUME TypeOK, Exclusive, DescriptorsOwned, [Next]_vars,
           NEW d \in Fds, fds[d] # "free", fds'[d] # fds[d]
    PROVE  \/ fds[d] = "host" /\ HostCloses(d)
           \/ \E t \in Threads : /\ fds[d] = file[t]
                                 /\ CloseSource(t) \/ CleanupFile(t)
<1>1. ASSUME NEW t \in Threads, Step(t)
      PROVE  fds[d] = file[t] /\ (CloseSource(t) \/ CleanupFile(t))
  <2>1. \/ OpenFile(t) \/ CloseSource(t) \/ CleanupFile(t)
    BY <1>1 DEF Step, OpenMemory, RejectOptions, ReadDosHeader, ReadPeHeader,
       ReadMagic, ParsePeHeaders, ReadSegments, ParseImports, ParseExports,
       RelocateFile, ApplySegmentPerms, Publish, Release, resVars
  <2>2. ~OpenFile(t)
    BY DEF OpenFile, TypeOK
  <2> QED BY <2>1, <2>2, ClosesOwn
<1>2. ASSUME NEW t \in Threads, Call(t) PROVE FALSE
  BY <1>2 DEF Call, RejectVersion, OpenEx, PeloaderClose, resVars
<1>3. ASSUME NEW e \in Fds, HostOpens(e) \/ HostCloses(e)
      PROVE  fds[d] = "host" /\ HostCloses(d)
  BY <1>3 DEF HostOpens, HostCloses, TypeOK
<1>4. ASSUME Terminating \/ UNCHANGED vars PROVE FALSE
  BY <1>4 DEF Terminating, vars
<1> QED BY <1>1, <1>2, <1>3, <1>4 DEF Next

\* In every reachable state, a PeFile that is to close a descriptor has it open.
LEMMA DescriptorsAreOwned ==
    ASSUME Requests \subseteq SourcedRequests
    PROVE  Spec => []DescriptorsOwned
<1>1. Init => DescriptorsOwned
  BY DEF Init, DescriptorsOwned, OwnsDescriptor, NamesSource, Reading
<1>2. /\ TypeOK /\ Exclusive /\ BlocksTracked /\ DescriptorsOwned
      /\ [Next]_vars
      => DescriptorsOwned'
  BY OwnedStep, OwnedCall, OwnedHost DEF Next
<1> QED BY <1>1, <1>2, TypeCorrect, BlocksAreTracked, PTL DEF Spec

\* A descriptor is closed by its owner only, whichever stage fails and whatever
\* the memory of a PeFile held, if the options name a source: cleanup closes
\* neither a descriptor of the host nor that of an open on another thread.
THEOREM OwnersCloseDescriptors ==
    ASSUME Requests \subseteq SourcedRequests
    PROVE  Spec => ClosedByOwner
<1>1. /\ TypeOK /\ Exclusive /\ DescriptorsOwned
      /\ [Next]_vars
      => [\A d \in Fds : fds[d] # "free" /\ fds'[d] # fds[d] =>
             \/ fds[d] = "host" /\ HostCloses(d)
             \/ \E t \in Threads : /\ fds[d] = file[t]
                                   /\ CloseSource(t) \/ CleanupFile(t)]_vars
  BY OwnerStep
<1> QED BY <1>1, TypeCorrect, DescriptorsAreOwned, PTL DEF Spec, ClosedByOwner

-----------------------------------------------------------------------------
(* The promise of public/peloader.h *)

\* An open that goes to cleanup has a negative answer to give.
FailureIsNegative ==
    \A t \in Threads :
       pc[t] \in {"closeFile", "release"} /\ handle[t] = NULL =>
          code[t] = "negative"

\* What the host sees of the other threads does not change.
LEMMA OtherHandles ==
    ASSUME NEW t \in Threads, NEW state, NEW answer,
           \A u \in Threads \ {t} : /\ file'[u] = file[u]
                                    /\ handle'[u] = handle[u]
                                    /\ pc'[u] = pc[u]
                                    /\ code'[u] = code[u],
           HandleState(t)' = state, HandleAnswer(t)' = answer
    PROVE  /\ [u \in Threads |-> HandleState(u)]'
                 = [[u \in Threads |-> HandleState(u)] EXCEPT ![t] = state]
           /\ [u \in Threads |-> HandleAnswer(u)]'
                 = [[u \in Threads |-> HandleAnswer(u)] EXCEPT ![t] = answer]
BY DEF HandleState, HandleAnswer

\* A step inside a call that neither answers it nor moves the PeFile is seen by
\* nobody, unless it stops the process.
LEMMA InsideCall ==
    ASSUME TypeOK, Exclusive, FailureIsNegative, NEW t \in Threads,
           process = "running", pc[t] # "idle",
           UNCHANGED <<file, handle>>,
           \A u \in Threads \ {t} : pc'[u] = pc[u] /\ code'[u] = code[u],
           pc'[t] # "idle",
           \/ code'[t] = code[t]
           \/ handle[t] = NULL /\ code'[t] = "negative",
           \/ pc'[t] \notin {"closeFile", "release"}
           \/ pc[t] \in {"closeFile", "release"} /\ code'[t] = code[t]
           \/ code'[t] = "negative"
    PROVE  [Promise!Next]_(Promise!hvars) /\ FailureIsNegative'
<1>1. FailureIsNegative'
  BY DEF FailureIsNegative
<1>2. /\ [u \in Threads |-> HandleState(u)]' = [u \in Threads |-> HandleState(u)]
      /\ [u \in Threads |-> HandleAnswer(u)]' = [u \in Threads |-> HandleAnswer(u)]
  BY DEF HandleState, HandleAnswer
<1>3. CASE process' = "running"
  BY <1>1, <1>2, <1>3 DEF Promise!hvars
<1>4. CASE process' # "running"
  BY <1>1, <1>2, <1>4 DEF Promise!Next, Promise!Stop
<1> QED BY <1>3, <1>4

\* Every step of the library is a return of the promise or is not seen.
LEMMA PromiseStep ==
    ASSUME TypeOK, Exclusive, DescriptorsOwned, FailureIsNegative,
           NEW t \in Threads, Step(t)
    PROVE  [Promise!Next]_(Promise!hvars) /\ FailureIsNegative'
<1> USE DEF resVars, hostVars, callVars, FailWith, ReadFails, Continue, Stop,
            Goto, At
<1>1. CASE OpenFile(t) \/ OpenMemory(t)
  BY <1>1, InsideCall DEF OpenFile, OpenMemory, TypeOK, Exclusive
<1>2. CASE RejectOptions(t)
  <2>1. request[t] = "unknownMode" => FALSE
    BY <1>2 DEF RejectOptions, DescriptorsOwned, NamesSource, SourcedRequests
  <2>2. request[t] \in {"nullPath", "nullBuffer"} => FALSE
    BY <1>2 DEF RejectOptions, DescriptorsOwned, NamesSource, SourcedRequests
  <2> QED BY <1>2, <2>1, <2>2 DEF RejectOptions
<1>3. CASE ReadDosHeader(t) \/ ReadPeHeader(t) \/ ReadMagic(t)
  BY <1>3, InsideCall DEF ReadDosHeader, ReadPeHeader, ReadMagic,
     AbortAtEndOfBuffer, TypeOK, Exclusive
<1>4. CASE ParsePeHeaders(t)
  <2>1. /\ UNCHANGED <<file, handle>>
        /\ process = "running"
        /\ pc[t] = "headers"
        /\ \/ /\ pc' = [pc EXCEPT ![t] = "closeFile"]
              /\ code' = [code EXCEPT ![t] = "negative"]
           \/ pc' = [pc EXCEPT ![t] = "segments"] /\ code' = code
    BY <1>4 DEF ParsePeHeaders, HeadersRead
  <2> QED BY <2>1, InsideCall DEF TypeOK, Exclusive
<1>5. CASE ReadSegments(t)
  BY <1>5, InsideCall DEF ReadSegments, TypeOK, Exclusive
<1>6. CASE ParseImports(t) \/ ParseExports(t)
  <2>1. /\ UNCHANGED <<file, handle>>
        /\ process = "running"
        /\ pc[t] \in {"imports", "exports"}
        /\ \/ pc' = pc /\ code' = code
           \/ /\ pc' = [pc EXCEPT ![t] = "closeFile"]
              /\ code' = [code EXCEPT ![t] = "negative"]
           \/ pc' = [pc EXCEPT ![t] = "exports"] /\ code' = code
           \/ pc' = [pc EXCEPT ![t] = "relocate"] /\ code' = code
    BY <1>6 DEF ParseImports, ParseExports
  <2> QED BY <2>1, InsideCall DEF TypeOK, Exclusive
<1>7. CASE RelocateFile(t) \/ ApplySegmentPerms(t)
  BY <1>7, InsideCall DEF RelocateFile, ApplySegmentPerms, TypeOK, Exclusive
<1>8. CASE CloseSource(t) \/ CleanupFile(t)
  BY <1>8, InsideCall DEF CloseSource, CleanupFile, TypeOK, Exclusive
<1>9. CASE Publish(t)
  <2>1. process = "running" /\ process' = "running" /\ pc[t] = "publish"
    BY <1>9 DEF Publish
  <2>2. file[t] \in PeFiles /\ handle[t] = NULL
    BY <2>1, CallFile DEF Exclusive
  <2>3. HandleState(t) = "opening"
    BY <2>2, LoaderAssumption DEF HandleState
  <2>4. /\ pc'[t] = "idle"
        /\ file'[t] = NULL
        /\ handle'[t] = file[t]
        /\ code'[t] = "zero"
        /\ \A u \in Threads \ {t} : /\ file'[u] = file[u]
                                    /\ handle'[u] = handle[u]
                                    /\ pc'[u] = pc[u]
                                    /\ code'[u] = code[u]
    BY <1>9 DEF Publish, TypeOK
  <2>5. HandleState(t)' = "open" /\ HandleAnswer(t)' = "zero"
    BY <2>2, <2>4, LoaderAssumption DEF HandleState, HandleAnswer
  <2>6. Promise!Succeed(t)
    BY <2>1, <2>3, <2>4, <2>5, OtherHandles DEF Promise!Succeed, Promise!Move
  <2>7. FailureIsNegative'
    BY <2>4 DEF FailureIsNegative
  <2> QED BY <2>6, <2>7 DEF Promise!Next, Promise!Return
<1>10. CASE Release(t)
  <2>1. process = "running" /\ pc[t] = "release" /\ code' = code
    BY <1>10 DEF Release
  <2>2. file[t] \in PeFiles /\ handle[t] \in {file[t], NULL}
    BY <2>1, CallAlone
  <2>3. CASE process' # "running"
    <3>1. UNCHANGED <<file, handle, pc>>
      BY <1>10, <2>1, <2>3 DEF Release
    <3> QED BY <2>1, <3>1, InsideCall
  <2>4. CASE process' = "running"
    <3>1. /\ file' = [file EXCEPT ![t] = NULL]
          /\ handle' = [handle EXCEPT ![t] = NULL]
          /\ pc' = [pc EXCEPT ![t] = "idle"]
      BY <1>10, <2>4 DEF Release
    <3>2. /\ pc'[t] = "idle"
          /\ file'[t] = NULL
          /\ handle'[t] = NULL
          /\ \A u \in Threads \ {t} : /\ file'[u] = file[u]
                                      /\ handle'[u] = handle[u]
                                      /\ pc'[u] = pc[u]
                                      /\ code'[u] = code[u]
      BY <2>1, <3>1 DEF TypeOK
    <3>3. HandleState(t)' = "empty" /\ HandleAnswer(t)' = code[t]
      BY <2>1, <3>2 DEF HandleState, HandleAnswer
    <3>4. ASSUME handle[t] = NULL PROVE Promise!Next
      <4>1. HandleState(t) = "opening" /\ code[t] = "negative"
        BY <2>1, <2>2, <3>4, LoaderAssumption
           DEF HandleState, FailureIsNegative
      <4>2. Promise!Fail(t)
        BY <2>1, <2>4, <3>2, <3>3, <4>1, OtherHandles
           DEF Promise!Fail, Promise!Move
      <4> QED BY <4>2 DEF Promise!Next, Promise!Return
    <3>5. ASSUME handle[t] = file[t] PROVE Promise!Next
      <4>1. HandleState(t) = "closing" /\ HandleAnswer(t) = code[t]
        BY <2>2, <3>5, LoaderAssumption DEF HandleState, HandleAnswer
      <4>2. [u \in Threads |-> HandleAnswer(u)]'
               = [u \in Threads |-> HandleAnswer(u)]
        BY <3>2, <3>3, <4>1 DEF HandleAnswer
      <4>3. Promise!Closed(t)
        BY <2>1, <2>4, <3>2, <3>3, <4>1, <4>2, OtherHandles
           DEF Promise!Closed, Promise!Move
      <4> QED BY <4>3 DEF Promise!Next, Promise!Return
    <3>6. FailureIsNegative'
      BY <2>1, <3>2 DEF FailureIsNegative
    <3> QED BY <2>2, <3>4, <3>5, <3>6
  <2> QED BY <2>3, <2>4
<1> QED BY <1>1, <1>2, <1>3, <1>4, <1>5, <1>6, <1>7, <1>8, <1>9, <1>10 DEF Step

\* Every call of the host is a call of the promise.
LEMMA PromiseCall ==
    ASSUME TypeOK, Exclusive, FailureIsNegative, NEW t \in Threads, Call(t)
    PROVE  [Promise!Next]_(Promise!hvars) /\ FailureIsNegative'
<1> USE DEF resVars, hostVars, callVars, Goto, At
<1>1. process = "running" /\ process' = "running"
  BY DEF Call, RejectVersion, OpenEx, PeloaderClose
<1>2. CASE RejectVersion(t)
  <2>1. /\ UNCHANGED <<file, handle, pc>>
        /\ pc[t] = "idle"
        /\ handle[t] = NULL
        /\ file[t] = NULL
    BY <1>2 DEF RejectVersion, Exclusive
  <2>2. code'[t] = "negative" /\ \A u \in Threads \ {t} : code'[u] = code[u]
    BY <1>2 DEF RejectVersion, TypeOK
  <2>3. /\ HandleState(t) = "empty"
        /\ HandleState(t)' = "empty"
        /\ HandleAnswer(t)' = "negative"
    BY <2>1, <2>2 DEF HandleState, HandleAnswer
  <2>4. Promise!Reject(t)
    BY <1>1, <2>1, <2>2, <2>3, OtherHandles DEF Promise!Reject, Promise!Move
  <2>5. FailureIsNegative'
    BY <2>1, <2>2 DEF FailureIsNegative
  <2> QED BY <2>4, <2>5 DEF Promise!Next
<1>3. ASSUME NEW r \in Requests, NEW f \in PeFiles, OpenEx(t, r, f)
      PROVE  [Promise!Next]_(Promise!hvars) /\ FailureIsNegative'
  <2>1. handle' = handle /\ handle[t] = NULL /\ file[t] = NULL /\ f # NULL
    BY <1>3, LoaderAssumption DEF OpenEx, Exclusive
  <2>2. /\ pc'[t] = "source"
        /\ file'[t] = f
        /\ \A u \in Threads \ {t} : /\ file'[u] = file[u]
                                    /\ pc'[u] = pc[u]
                                    /\ code'[u] = code[u]
    BY <1>3 DEF OpenEx, TypeOK
  <2>3. /\ HandleState(t) = "empty"
        /\ HandleState(t)' = "opening"
        /\ HandleAnswer(t)' = "none"
    BY <2>1, <2>2 DEF HandleState, HandleAnswer
  <2>4. Promise!Call(t)
    BY <1>1, <2>1, <2>2, <2>3, OtherHandles DEF Promise!Call, Promise!Move
  <2>5. FailureIsNegative'
    BY <2>1, <2>2 DEF FailureIsNegative
  <2> QED BY <2>4, <2>5 DEF Promise!Next
<1>4. CASE PeloaderClose(t)
  <2>1. /\ UNCHANGED <<handle, code>>
        /\ handle[t] # NULL
        /\ file[t] = NULL
        /\ pc[t] = "idle"
    BY <1>4 DEF PeloaderClose, Exclusive
  <2>2. /\ pc'[t] = "closeFile"
        /\ file'[t] = handle[t]
        /\ \A u \in Threads \ {t} : file'[u] = file[u] /\ pc'[u] = pc[u]
    BY <1>4 DEF PeloaderClose, TypeOK
  <2>3. /\ HandleState(t) = "open"
        /\ HandleState(t)' = "closing"
        /\ HandleAnswer(t)' = HandleAnswer(t)
    BY <2>1, <2>2 DEF HandleState, HandleAnswer
  <2>4. [u \in Threads |-> HandleAnswer(u)]' = [u \in Threads |-> HandleAnswer(u)]
    BY <2>1, <2>2 DEF HandleAnswer
  <2>5. Promise!Close(t)
    BY <1>1, <2>1, <2>2, <2>3, <2>4, OtherHandles DEF Promise!Close, Promise!Move
  <2>6. FailureIsNegative'
    BY <2>1, <2>2 DEF FailureIsNegative
  <2> QED BY <2>5, <2>6 DEF Promise!Next
<1> QED BY <1>2, <1>3, <1>4 DEF Call

\* The rest of the host is not seen.
LEMMA PromiseHost ==
    ASSUME FailureIsNegative,
           \/ \E d \in Fds : HostOpens(d) \/ HostCloses(d)
           \/ Terminating
           \/ UNCHANGED vars
    PROVE  [Promise!Next]_(Promise!hvars) /\ FailureIsNegative'
<1>1. UNCHANGED <<handle, file, pc, code, process>>
  BY DEF HostOpens, HostCloses, Terminating, vars, hostVars, callVars
<1>2. /\ [u \in Threads |-> HandleState(u)]' = [u \in Threads |-> HandleState(u)]
      /\ [u \in Threads |-> HandleAnswer(u)]' = [u \in Threads |-> HandleAnswer(u)]
  BY <1>1 DEF HandleState, HandleAnswer
<1> QED BY <1>1, <1>2 DEF Promise!hvars, FailureIsNegative

\* The loader implements the safety of PeHandle: each of its steps is a step of
\* the promise or is not seen, if the options name a source.
THEOREM LoaderKeepsPromise ==
    ASSUME Requests \subseteq SourcedRequests
    PROVE  Spec => PromiseKept
<1>1. Init => FailureIsNegative /\ Promise!Init
  <2> SUFFICES ASSUME Init PROVE FailureIsNegative /\ Promise!Init
    OBVIOUS
  <2>1. FailureIsNegative
    BY DEF Init, FailureIsNegative
  <2>2. \A t \in Threads : HandleState(t) = "empty" /\ HandleAnswer(t) = "none"
    BY DEF Init, HandleState, HandleAnswer
  <2> QED BY <2>1, <2>2 DEF Init, Promise!Init
<1>2. /\ TypeOK /\ Exclusive /\ DescriptorsOwned /\ FailureIsNegative
      /\ [Next]_vars
      => [Promise!Next]_(Promise!hvars) /\ FailureIsNegative'
  BY PromiseStep, PromiseCall, PromiseHost DEF Next
<1> QED BY <1>1, <1>2, TypeCorrect, DescriptorsAreOwned, PTL
        DEF Spec, PromiseKept

=============================================================================
