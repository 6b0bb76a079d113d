--------------------------- MODULE PeLoaderProofs ---------------------------
(***************************************************************************)
(* Proofs about PeLoader, for every set of threads, PeFiles, descriptors   *)
(* and kinds of request, and for memory that arrives with any contents.    *)
(*                                                                         *)
(* The bookkeeping of the loader is sound because of two facts that hold   *)
(* between any two steps: a PeFile has at most one thread (Exclusive), and *)
(* what a PeFile records of its source is what it has open                 *)
(* (SourceTracked).  Each is shown to be kept by the steps of the library, *)
(* by the calls into it and by the rest of the host, in that order.        *)
(***************************************************************************)
EXTENDS PeLoader, TLAPS

\* A PeFile in zeroed memory has the members of include/internal.h.
LEMMA ZeroedType == ZeroedPeFile \in PeFileType
BY LoaderAssumption
   DEF ZeroedPeFile, PeFileType, FileTypes, Counts, Pointers, Indeterminate, NoFd

\* So has a new PeFile, whatever its memory held.
LEMMA NewType == ASSUME NEW contents PROVE NewPeFile(contents) \in PeFileType
<1>1. IndeterminatePeFile \in PeFileType
  BY DEF IndeterminatePeFile, ZeroedPeFile, PeFileType, FileTypes, Counts,
         Pointers, Indeterminate, NoFd
<1> QED BY <1>1, ZeroedType DEF NewPeFile

\* The ranges of the members the stages write, and that an EXCEPT which
\* keeps each member in its range keeps the PeFile in PeFileType.
LEMMA MemberTypes ==
    ASSUME NEW p \in [PeFiles -> PeFileType], NEW f \in PeFiles, NEW v
    PROVE  /\ v \in FileTypes =>
                 [p EXCEPT ![f].fileType = v] \in [PeFiles -> PeFileType]
           /\ v \in Fds \cup {NoFd} =>
                 [p EXCEPT ![f].fileHandle = v] \in [PeFiles -> PeFileType]
           /\ v \in Pointers =>
                 /\ [p EXCEPT ![f].callback = v] \in [PeFiles -> PeFileType]
                 /\ [p EXCEPT ![f].sections = v] \in [PeFiles -> PeFileType]
                 /\ [p EXCEPT ![f].imports = v] \in [PeFiles -> PeFileType]
                 /\ [p EXCEPT ![f].exports = v] \in [PeFiles -> PeFileType]
           /\ v \in Counts =>
                 /\ [p EXCEPT ![f].sectionCount = v] \in [PeFiles -> PeFileType]
                 /\ [p EXCEPT ![f].importCount = v] \in [PeFiles -> PeFileType]
                 /\ [p EXCEPT ![f].exportCount = v] \in [PeFiles -> PeFileType]
           /\ v \in {"read", "zeroed", Indeterminate} =>
                 [p EXCEPT ![f].dataDirs = v] \in [PeFiles -> PeFileType]
<1>1. ASSUME v \in FileTypes
      PROVE  [p EXCEPT ![f].fileType = v] \in [PeFiles -> PeFileType]
  BY <1>1 DEF PeFileType
<1>2. ASSUME v \in Fds \cup {NoFd}
      PROVE  [p EXCEPT ![f].fileHandle = v] \in [PeFiles -> PeFileType]
  BY <1>2 DEF PeFileType
<1>3. ASSUME v \in Pointers
      PROVE  [p EXCEPT ![f].callback = v] \in [PeFiles -> PeFileType]
  BY <1>3 DEF PeFileType
<1>4. ASSUME v \in Pointers
      PROVE  [p EXCEPT ![f].sections = v] \in [PeFiles -> PeFileType]
  BY <1>4 DEF PeFileType
<1>5. ASSUME v \in Pointers
      PROVE  [p EXCEPT ![f].imports = v] \in [PeFiles -> PeFileType]
  BY <1>5 DEF PeFileType
<1>6. ASSUME v \in Pointers
      PROVE  [p EXCEPT ![f].exports = v] \in [PeFiles -> PeFileType]
  BY <1>6 DEF PeFileType
<1>7. ASSUME v \in Counts
      PROVE  [p EXCEPT ![f].sectionCount = v] \in [PeFiles -> PeFileType]
  BY <1>7 DEF PeFileType
<1>8. ASSUME v \in Counts
      PROVE  [p EXCEPT ![f].importCount = v] \in [PeFiles -> PeFileType]
  BY <1>8 DEF PeFileType
<1>9. ASSUME v \in Counts
      PROVE  [p EXCEPT ![f].exportCount = v] \in [PeFiles -> PeFileType]
  BY <1>9 DEF PeFileType
<1>10. ASSUME v \in {"read", "zeroed", Indeterminate}
       PROVE  [p EXCEPT ![f].dataDirs = v] \in [PeFiles -> PeFileType]
  BY <1>10 DEF PeFileType
<1> QED BY <1>1, <1>2, <1>3, <1>4, <1>5, <1>6, <1>7, <1>8, <1>9, <1>10

\* Before the first call no thread has a PeFile.
LEMMA TypeInit == Init => TypeOK /\ Exclusive
<1> SUFFICES ASSUME Init PROVE TypeOK /\ Exclusive OBVIOUS
<1>1. TypeOK
  BY ZeroedType, LoaderAssumption DEF Init, TypeOK, Labels
<1>2. Exclusive
  BY DEF Init, Exclusive
<1> QED BY <1>1, <1>2

\* A call works on a PeFile of the bound.
LEMMA CallFile ==
    ASSUME TypeOK, Exclusive, NEW t \in Threads, pc[t] # "idle"
    PROVE  file[t] \in PeFiles
BY DEF TypeOK, Exclusive

\* The members a stage writes keep the type of pe.
LEMMA PeStep ==
    ASSUME TypeOK, Exclusive, NEW t \in Threads, Step(t)
    PROVE  pe' \in [PeFiles -> PeFileType]
<1> DEFINE f == file[t]
           PeType == [PeFiles -> PeFileType]
<1>1. pe \in PeType
  BY DEF TypeOK
<1>2. f \in PeFiles
  BY CallFile DEF Step, At, OpenFile, OpenMemory, RejectOptions, ReadDosHeader,
     ReadPeHeader, ReadMagic, ParsePeHeaders, ReadSegments, ParseImports,
     ParseExports, RelocateFile, ApplySegmentPerms, CloseSource, Publish,
     CleanupFile, Release
<1>3. CASE OpenFile(t)
  <2>1. PICK d \in Fds \cup {NoFd} :
           pe' = [pe EXCEPT ![f].fileType = "TYPE_FILE", ![f].fileHandle = d]
    BY <1>3 DEF OpenFile
  <2> DEFINE p == [pe EXCEPT ![f].fileType = "TYPE_FILE"]
  <2>2. p \in PeType
    BY <1>1, <1>2, MemberTypes DEF FileTypes
  <2>3. [p EXCEPT ![f].fileHandle = d] \in PeType
    BY <1>2, <2>2, MemberTypes
  <2> QED BY <1>1, <1>2, <2>1, <2>3 DEF PeFileType
<1>4. CASE OpenMemory(t)
  <2>1. PICK v \in Pointers :
           pe' = [pe EXCEPT ![f].fileType = "TYPE_BUFFER", ![f].callback = v]
    BY <1>4 DEF OpenMemory, Pointers
  <2> DEFINE p == [pe EXCEPT ![f].fileType = "TYPE_BUFFER"]
  <2>2. p \in PeType
    BY <1>1, <1>2, MemberTypes DEF FileTypes
  <2>3. [p EXCEPT ![f].callback = v] \in PeType
    BY <1>2, <2>2, MemberTypes
  <2> QED BY <1>1, <1>2, <2>1, <2>3 DEF PeFileType
<1>5. CASE ParsePeHeaders(t)
  <2>1. CASE UNCHANGED pe
    BY <1>1, <2>1
  <2>2. CASE HeadersRead(t)
    <3>1. PICK dirs \in {"read", pe[f].dataDirs}, n \in Counts :
             pe' = [pe EXCEPT ![f].dataDirs = dirs, ![f].sectionCount = n,
                              ![f].sections = "own"]
      BY <2>2 DEF HeadersRead
    <3> DEFINE p == [pe EXCEPT ![f].dataDirs = dirs]
               q == [p EXCEPT ![f].sectionCount = n]
    <3>2. dirs \in {"read", "zeroed", Indeterminate}
      BY <1>1, <1>2 DEF PeFileType
    <3>3. p \in PeType
      BY <1>1, <1>2, <3>2, MemberTypes
    <3>4. q \in PeType
      BY <1>2, <3>3, MemberTypes
    <3>5. [q EXCEPT ![f].sections = "own"] \in PeType
      BY <1>2, <3>4, MemberTypes DEF Pointers
    <3> QED BY <1>1, <1>2, <3>1, <3>5 DEF PeFileType
  <2> QED BY <1>5, <2>1, <2>2 DEF ParsePeHeaders
<1>6. CASE ParseImports(t)
  <2>1. CASE UNCHANGED pe
    BY <1>1, <2>1
  <2>2. ASSUME NEW n \in Counts,
               pe' = [pe EXCEPT ![f].importCount = n, ![f].imports = "own"]
        PROVE  pe' \in PeType
    <3> DEFINE p == [pe EXCEPT ![f].importCount = n]
    <3>1. p \in PeType
      BY <1>1, <1>2, MemberTypes
    <3>2. [p EXCEPT ![f].imports = "own"] \in PeType
      BY <1>2, <3>1, MemberTypes DEF Pointers
    <3> QED BY <1>1, <1>2, <2>2, <3>2 DEF PeFileType
  <2> QED BY <1>6, <2>1, <2>2 DEF ParseImports, Counts
<1>7. CASE ParseExports(t)
  <2>1. CASE UNCHANGED pe
    BY <1>1, <2>1
  <2>2. ASSUME NEW n \in Counts,
               pe' = [pe EXCEPT ![f].exportCount = n, ![f].exports = "own"]
        PROVE  pe' \in PeType
    <3> DEFINE p == [pe EXCEPT ![f].exportCount = n]
    <3>1. p \in PeType
      BY <1>1, <1>2, MemberTypes
    <3>2. [p EXCEPT ![f].exports = "own"] \in PeType
      BY <1>2, <3>1, MemberTypes DEF Pointers
    <3> QED BY <1>1, <1>2, <2>2, <3>2 DEF PeFileType
  <2> QED BY <1>7, <2>1, <2>2 DEF ParseExports
<1>8. CASE CloseSource(t) \/ CleanupFile(t)
  <2>1. pe' = pe \/ pe' = [pe EXCEPT ![f].fileType = "TYPE_CLOSED"]
    BY <1>8 DEF CloseSource, CleanupFile, CloseFile, GiveBack
  <2>2. [pe EXCEPT ![f].fileType = "TYPE_CLOSED"] \in PeType
    BY <1>1, <1>2, MemberTypes DEF FileTypes
  <2> QED BY <1>1, <2>1, <2>2
<1>9. CASE Release(t)
  <2>1. pe' = pe \/ pe' = [pe EXCEPT ![f] = ZeroedPeFile]
    BY <1>9 DEF Release
  <2> QED BY <1>1, <1>2, <2>1, ZeroedType
<1>10. CASE \/ RejectOptions(t) \/ ReadDosHeader(t) \/ ReadPeHeader(t)
            \/ ReadMagic(t) \/ ReadSegments(t) \/ RelocateFile(t)
            \/ ApplySegmentPerms(t) \/ Publish(t)
  BY <1>1, <1>10 DEF RejectOptions, ReadDosHeader, ReadPeHeader, ReadMagic,
     ReadSegments, RelocateFile, ApplySegmentPerms, Publish, resVars
<1> HIDE DEF PeType, f
<1> QED BY <1>3, <1>4, <1>5, <1>6, <1>7, <1>8, <1>9, <1>10 DEF Step

\* The labels and codes a stage may leave a call with.
LEMMA ControlTypes ==
    ASSUME TypeOK, NEW t \in Threads
    PROVE  /\ \A l \in Labels : Goto(t, l) => pc' \in [Threads -> Labels]
           /\ \A a \in {"negative", "positive"} :
                 FailWith(t, a) =>
                    /\ pc' \in [Threads -> Labels]
                    /\ code' \in [Threads -> {"none", "zero", "negative",
                                              "positive"}]
                    /\ process' = process
           /\ ReadFails(t) => FailWith(t, "negative")
           /\ \A l \in Labels :
                 Continue(t, l) => /\ pc' \in [Threads -> Labels]
                                   /\ UNCHANGED <<code, process>>
           /\ \A how \in {"aborted", "undefined", "mismatched"} :
                 Stop(how) => process' = how /\ UNCHANGED <<pc, code>>
BY DEF TypeOK, Goto, FailWith, ReadFails, Continue, Stop, Labels

\* A step of the library keeps every variable in its range.
LEMMA TypeStep ==
    ASSUME TypeOK, Exclusive, NEW t \in Threads, Step(t) PROVE TypeOK'
<1>1. pe' \in [PeFiles -> PeFileType]
  BY PeStep
<1>2. file[t] \in PeFiles
  BY CallFile DEF Step, At, OpenFile, OpenMemory, RejectOptions, ReadDosHeader,
     ReadPeHeader, ReadMagic, ParsePeHeaders, ReadSegments, ParseImports,
     ParseExports, RelocateFile, ApplySegmentPerms, CloseSource, Publish,
     CleanupFile, Release
<1> USE DEF resVars, hostVars, callVars
<1>3. CASE OpenFile(t)
  BY <1>1, <1>2, <1>3, ControlTypes DEF OpenFile, TypeOK, Labels
<1>4. CASE OpenMemory(t)
  BY <1>1, <1>2, <1>4, ControlTypes DEF OpenMemory, TypeOK, Labels
<1>5. CASE RejectOptions(t)
  BY <1>1, <1>2, <1>5, ControlTypes DEF RejectOptions, TypeOK, Labels
<1>6. CASE ReadDosHeader(t) \/ ReadPeHeader(t) \/ ReadMagic(t)
  BY <1>1, <1>2, <1>6, ControlTypes
     DEF ReadDosHeader, ReadPeHeader, ReadMagic, AbortAtEndOfBuffer, TypeOK, Labels
<1>7. CASE ParsePeHeaders(t)
  <2>1. heap' = heap \/ heap' = heap \cup {<<file[t], "sections">>}
    BY <1>7 DEF ParsePeHeaders, HeadersRead
  <2>2. ReadFails(t) \/ Continue(t, "segments")
    BY <1>7 DEF ParsePeHeaders, HeadersRead
  <2>3. UNCHANGED <<fds, images, buffers, hostVars, callVars>>
    BY <1>7 DEF ParsePeHeaders
  <2> QED BY <1>1, <1>2, <2>1, <2>2, <2>3, ControlTypes DEF TypeOK, Labels, Blocks
<1>8. CASE ReadSegments(t)
  BY <1>1, <1>2, <1>8, ControlTypes DEF ReadSegments, TypeOK, Labels
<1>9. CASE ParseImports(t)
  <2>1. \/ heap' = heap
        \/ heap' = heap \cup {<<file[t], "noImports">>}
        \/ heap' = heap \cup {<<file[t], "imports">>}
        \/ heap' = heap \cup {<<file[t], "imports">>, <<file[t], "functions">>}
    BY <1>9 DEF ParseImports
  <2>2. Continue(t, "exports") \/ Stop("undefined")
    BY <1>9 DEF ParseImports
  <2>3. UNCHANGED <<fds, images, buffers, hostVars, callVars>>
    BY <1>9 DEF ParseImports
  <2> QED BY <1>1, <1>2, <2>1, <2>2, <2>3, ControlTypes DEF TypeOK, Labels, Blocks
<1>10. CASE ParseExports(t)
  <2>1. heap' = heap \/ heap' = heap \cup {<<file[t], "exports">>}
    BY <1>10 DEF ParseExports
  <2>2. \/ Continue(t, "relocate")
        \/ FailWith(t, "negative")
        \/ Stop("undefined")
    BY <1>10 DEF ParseExports
  <2>3. UNCHANGED <<fds, images, buffers, hostVars, callVars>>
    BY <1>10 DEF ParseExports
  <2> QED BY <1>1, <1>2, <2>1, <2>2, <2>3, ControlTypes DEF TypeOK, Labels, Blocks
<1>11. CASE RelocateFile(t) \/ ApplySegmentPerms(t)
  BY <1>1, <1>2, <1>11, ControlTypes
     DEF RelocateFile, ApplySegmentPerms, TypeOK, Labels
<1>12. CASE CloseSource(t) \/ CleanupFile(t)
  BY <1>1, <1>2, <1>12, ControlTypes
     DEF CloseSource, CleanupFile, CloseFile, GiveBack, TypeOK, Labels
<1>13. CASE Publish(t)
  BY <1>1, <1>2, <1>13, ControlTypes DEF Publish, TypeOK, Labels
<1>14. CASE Release(t)
  <2>1. heap' \subseteq heap /\ images' \subseteq images
    BY <1>14 DEF Release
  <2>2. /\ handle' \in {handle, [handle EXCEPT ![t] = NULL]}
        /\ file' \in {file, [file EXCEPT ![t] = NULL]}
        /\ request' \in {request, [request EXCEPT ![t] = "none"]}
        /\ UNCHANGED <<fds, buffers, created>>
    BY <1>14 DEF Release
  <2>3. Continue(t, "idle") \/ Stop("undefined") \/ Stop("mismatched")
    BY <1>14 DEF Release
  <2>4. /\ pc' \in [Threads -> Labels]
        /\ code' = code
        /\ process' \in {"running", "aborted", "undefined", "mismatched"}
    BY <2>3, ControlTypes DEF TypeOK, Labels
  <2> QED BY <1>1, <2>1, <2>2, <2>4 DEF TypeOK
<1> QED BY <1>3, <1>4, <1>5, <1>6, <1>7, <1>8, <1>9, <1>10, <1>11, <1>12,
        <1>13, <1>14 DEF Step

\* So does a call into it.
LEMMA TypeCall ==
    ASSUME TypeOK, Exclusive, NEW t \in Threads, Call(t) PROVE TypeOK'
<1> USE DEF resVars, hostVars, callVars
<1>1. CASE RejectVersion(t)
  BY <1>1 DEF RejectVersion, TypeOK
<1>2. ASSUME NEW r \in Requests, NEW f \in PeFiles, OpenEx(t, r, f) PROVE TypeOK'
  <2>1. pe' \in [PeFiles -> PeFileType]
    BY <1>2, NewType DEF OpenEx, TypeOK
  <2> QED BY <1>2, <2>1, ControlTypes DEF OpenEx, TypeOK, Labels, Blocks
<1>3. CASE PeloaderClose(t)
  BY <1>3, ControlTypes DEF PeloaderClose, TypeOK, Labels
<1> QED BY <1>1, <1>2, <1>3 DEF Call

\* The host's own descriptors, and the end.
LEMMA TypeHost ==
    ASSUME TypeOK,
           \/ \E d \in Fds : HostOpens(d) \/ HostCloses(d)
           \/ Terminating
           \/ UNCHANGED vars
    PROVE  TypeOK'
BY DEF HostOpens, HostCloses, Terminating, vars, hostVars, callVars, TypeOK

\* A stage of parsePeFile stays in the call, an error sends the call to cleanup.
LEMMA ExclusiveStep ==
    ASSUME TypeOK, Exclusive, NEW t \in Threads, Step(t) PROVE Exclusive'
<1> USE DEF resVars, hostVars, callVars, FailWith, ReadFails, Continue, Stop,
            Goto, At
<1>1. ASSUME UNCHANGED <<hostVars, callVars>>,
             handle[t] = NULL, pc[t] # "idle",
             pc' = pc \/ \E l \in Labels \ {"idle"} : pc' = [pc EXCEPT ![t] = l]
      PROVE  Exclusive'
  BY <1>1 DEF Exclusive, TypeOK
<1>2. CASE CleanupFile(t)
  BY <1>2 DEF CleanupFile, CloseFile, GiveBack, Exclusive, TypeOK
<1>3. CASE Publish(t)
  BY <1>3, LoaderAssumption DEF Publish, Exclusive, TypeOK
<1>4. CASE Release(t)
  BY <1>4, LoaderAssumption DEF Release, Exclusive, TypeOK
<1>5. CASE OpenFile(t) \/ OpenMemory(t) \/ RejectOptions(t)
  BY <1>1, <1>5 DEF OpenFile, OpenMemory, RejectOptions, Exclusive, Labels
<1>6. CASE ReadDosHeader(t) \/ ReadPeHeader(t) \/ ReadMagic(t) \/ ReadSegments(t)
  BY <1>1, <1>6 DEF ReadDosHeader, ReadPeHeader, ReadMagic, ReadSegments,
     AbortAtEndOfBuffer, Exclusive, Labels
<1>7. CASE ParsePeHeaders(t) \/ ParseImports(t) \/ ParseExports(t)
  BY <1>1, <1>7 DEF ParsePeHeaders, HeadersRead, ParseImports, ParseExports,
     Exclusive, Labels
<1>8. CASE RelocateFile(t) \/ ApplySegmentPerms(t) \/ CloseSource(t)
  BY <1>1, <1>8 DEF RelocateFile, ApplySegmentPerms, CloseSource, Exclusive, Labels
<1> QED BY <1>2, <1>3, <1>4, <1>5, <1>6, <1>7, <1>8 DEF Step

\* An open takes a PeFile nobody has, a close the one of its own variable.
LEMMA ExclusiveCall ==
    ASSUME TypeOK, Exclusive, NEW t \in Threads, Call(t) PROVE Exclusive'
<1> USE DEF resVars, hostVars, callVars, Goto, At
<1>1. CASE RejectVersion(t)
  BY <1>1 DEF RejectVersion, Exclusive
<1>2. ASSUME NEW r \in Requests, NEW f \in PeFiles, OpenEx(t, r, f)
      PROVE  Exclusive'
  BY <1>2, LoaderAssumption DEF OpenEx, Exclusive, TypeOK
<1>3. CASE PeloaderClose(t)
  BY <1>3 DEF PeloaderClose, Exclusive, TypeOK
<1> QED BY <1>1, <1>2, <1>3 DEF Call

\* The host's own descriptors belong to no PeFile.
LEMMA ExclusiveHost ==
    ASSUME Exclusive,
           \/ \E d \in Fds : HostOpens(d) \/ HostCloses(d)
           \/ Terminating
           \/ UNCHANGED vars
    PROVE  Exclusive'
BY DEF HostOpens, HostCloses, Terminating, vars, hostVars, callVars, Exclusive

\* Every variable stays in its range, and every call has a PeFile of its own.
THEOREM TypeCorrect == Spec => [](TypeOK /\ Exclusive)
<1>1. TypeOK /\ Exclusive /\ [Next]_vars => TypeOK' /\ Exclusive'
  BY TypeStep, TypeCall, TypeHost, ExclusiveStep, ExclusiveCall, ExclusiveHost
     DEF Next
<1> QED BY <1>1, TypeInit, PTL DEF Spec

\* No PeFile is in two calls, nor in a call and in the variable of another thread.
THEOREM CallsAreAlone == Spec => []Exclusive
BY TypeCorrect, PTL

-----------------------------------------------------------------------------
(* Calls come to an end *)

\* How many steps a call has before it at most, from the stage it is in.
StepsLeft ==
    [label \in Labels |->
        CASE label = "source"      -> 14
          [] label = "dosHeader"   -> 13
          [] label = "peHeader"    -> 12
          [] label = "magic"       -> 11
          [] label = "headers"     -> 10
          [] label = "segments"    -> 9
          [] label = "imports"     -> 8
          [] label = "exports"     -> 7
          [] label = "relocate"    -> 6
          [] label = "perms"       -> 5
          [] label = "closeSource" -> 4
          [] label = "publish"     -> 3
          [] label = "closeFile"   -> 2
          [] label = "release"     -> 1
          [] label = "idle"        -> 0]

\* A step of a call brings it nearer to its end or stops the process, and no
\* other thread moves it.
CallsMoveOn ==
    [][\A t \in Threads : pc[t] # "idle" =>
          \/ pc'[t] = pc[t] /\ (Step(t) => process' # "running")
          \/ StepsLeft[pc'[t]] < StepsLeft[pc[t]]]_vars

\* Its values.
LEMMA StepsLeftAt ==
    /\ StepsLeft["source"] = 14
    /\ StepsLeft["dosHeader"] = 13
    /\ StepsLeft["peHeader"] = 12
    /\ StepsLeft["magic"] = 11
    /\ StepsLeft["headers"] = 10
    /\ StepsLeft["segments"] = 9
    /\ StepsLeft["imports"] = 8
    /\ StepsLeft["exports"] = 7
    /\ StepsLeft["relocate"] = 6
    /\ StepsLeft["perms"] = 5
    /\ StepsLeft["closeSource"] = 4
    /\ StepsLeft["publish"] = 3
    /\ StepsLeft["closeFile"] = 2
    /\ StepsLeft["release"] = 1
    /\ StepsLeft["idle"] = 0
BY DEF StepsLeft, Labels

\* Every stage goes on to a later one: none is tried again.
LEMMA StepMovesOn ==
    ASSUME TypeOK, NEW t \in Threads, Step(t)
    PROVE  /\ pc[t] # "idle"
           /\ \/ UNCHANGED pc /\ process' # "running"
              \/ \E l \in Labels : /\ StepsLeft[l] < StepsLeft[pc[t]]
                                   /\ pc' = [pc EXCEPT ![t] = l]
<1> USE DEF FailWith, ReadFails, Continue, Stop, Goto, At
<1>1. CASE OpenFile(t) \/ OpenMemory(t) \/ RejectOptions(t)
  <2>1. /\ pc[t] = "source"
        /\ \/ pc' = [pc EXCEPT ![t] = "closeFile"]
           \/ pc' = [pc EXCEPT ![t] = "dosHeader"]
    BY <1>1 DEF OpenFile, OpenMemory, RejectOptions
  <2> QED BY <2>1, StepsLeftAt DEF Labels
<1>2. CASE ReadDosHeader(t) \/ ReadPeHeader(t) \/ ReadMagic(t)
  <2>1. \/ /\ pc[t] = "dosHeader"
           /\ \/ pc' = [pc EXCEPT ![t] = "closeFile"]
              \/ pc' = [pc EXCEPT ![t] = "peHeader"]
        \/ /\ pc[t] = "peHeader"
           /\ \/ pc' = [pc EXCEPT ![t] = "closeFile"]
              \/ pc' = [pc EXCEPT ![t] = "magic"]
              \/ UNCHANGED pc /\ process' # "running"
        \/ /\ pc[t] = "magic"
           /\ \/ pc' = [pc EXCEPT ![t] = "closeFile"]
              \/ pc' = [pc EXCEPT ![t] = "headers"]
              \/ pc' = [pc EXCEPT ![t] = "segments"]
    BY <1>2 DEF ReadDosHeader, ReadPeHeader, ReadMagic, AbortAtEndOfBuffer
  <2> QED BY <2>1, StepsLeftAt DEF Labels
<1>3. CASE ParsePeHeaders(t)
  <2>1. /\ pc[t] = "headers"
        /\ \/ pc' = [pc EXCEPT ![t] = "closeFile"]
           \/ pc' = [pc EXCEPT ![t] = "segments"]
    BY <1>3 DEF ParsePeHeaders, HeadersRead
  <2> QED BY <2>1, StepsLeftAt DEF Labels
<1>4. CASE ReadSegments(t)
  <2>1. /\ pc[t] = "segments"
        /\ \/ pc' = [pc EXCEPT ![t] = "closeFile"]
           \/ pc' = [pc EXCEPT ![t] = "imports"]
           \/ UNCHANGED pc /\ process' # "running"
    BY <1>4 DEF ReadSegments
  <2> QED BY <2>1, StepsLeftAt DEF Labels
<1>5. CASE ParseImports(t)
  <2>1. /\ pc[t] = "imports"
        /\ \/ pc' = [pc EXCEPT ![t] = "exports"]
           \/ UNCHANGED pc /\ process' # "running"
    BY <1>5 DEF ParseImports
  <2> QED BY <2>1, StepsLeftAt DEF Labels
<1>6. CASE ParseExports(t)
  <2>1. /\ pc[t] = "exports"
        /\ \/ pc' = [pc EXCEPT ![t] = "closeFile"]
           \/ pc' = [pc EXCEPT ![t] = "relocate"]
           \/ UNCHANGED pc /\ process' # "running"
    BY <1>6 DEF ParseExports
  <2> QED BY <2>1, StepsLeftAt DEF Labels
<1>7. CASE RelocateFile(t) \/ ApplySegmentPerms(t)
  <2>1. \/ /\ pc[t] = "relocate"
           /\ \/ pc' = [pc EXCEPT ![t] = "closeFile"]
              \/ pc' = [pc EXCEPT ![t] = "perms"]
              \/ UNCHANGED pc /\ process' # "running"
        \/ /\ pc[t] = "perms"
           /\ \/ pc' = [pc EXCEPT ![t] = "closeFile"]
              \/ pc' = [pc EXCEPT ![t] = "closeSource"]
              \/ UNCHANGED pc /\ process' # "running"
    BY <1>7 DEF RelocateFile, ApplySegmentPerms
  <2> QED BY <2>1, StepsLeftAt DEF Labels
<1>8. CASE CloseSource(t) \/ CleanupFile(t) \/ Publish(t)
  <2>1. \/ pc[t] = "closeSource" /\ pc' = [pc EXCEPT ![t] = "publish"]
        \/ pc[t] = "closeFile" /\ pc' = [pc EXCEPT ![t] = "release"]
        \/ pc[t] = "publish" /\ pc' = [pc EXCEPT ![t] = "idle"]
    BY <1>8 DEF CloseSource, CleanupFile, Publish
  <2> QED BY <2>1, StepsLeftAt DEF Labels
<1>9. CASE Release(t)
  <2>1. /\ pc[t] = "release"
        /\ \/ pc' = [pc EXCEPT ![t] = "idle"]
           \/ UNCHANGED pc /\ process' # "running"
    BY <1>9 DEF Release
  <2> QED BY <2>1, StepsLeftAt DEF Labels
<1> QED BY <1>1, <1>2, <1>3, <1>4, <1>5, <1>6, <1>7, <1>8, <1>9 DEF Step

\* A call is over after 14 steps of its own at most, whatever the other threads
\* do: an open that fails at the last stage still has cleanup before it, and
\* cleanup leads nowhere but out of the call.
THEOREM CallsEnd == Spec => CallsMoveOn
<1>1. ASSUME TypeOK, Exclusive, [Next]_vars, NEW t \in Threads, pc[t] # "idle"
      PROVE  \/ pc'[t] = pc[t] /\ (Step(t) => process' # "running")
             \/ StepsLeft[pc'[t]] < StepsLeft[pc[t]]
  <2>1. CASE Step(t)
    <3>1. CASE UNCHANGED pc /\ process' # "running"
      BY <3>1
    <3>2. ASSUME NEW l \in Labels, StepsLeft[l] < StepsLeft[pc[t]],
                 pc' = [pc EXCEPT ![t] = l]
          PROVE  StepsLeft[pc'[t]] < StepsLeft[pc[t]]
      <4>1. pc'[t] = l
        BY <1>1, <3>2 DEF TypeOK
      <4> QED BY <3>2, <4>1
    <3> QED BY <1>1, <2>1, <3>1, <3>2, StepMovesOn
  <2>2. ASSUME NEW u \in Threads \ {t}, Step(u) PROVE pc'[t] = pc[t]
    BY <1>1, <2>2, StepMovesOn DEF TypeOK
  <2>3. ASSUME NEW u \in Threads, Call(u) PROVE pc'[t] = pc[t]
    BY <1>1, <2>3 DEF Call, RejectVersion, OpenEx, PeloaderClose, Goto, At,
       TypeOK
  <2>4. CASE \/ \E d \in Fds : HostOpens(d) \/ HostCloses(d)
             \/ Terminating
             \/ UNCHANGED vars
    <3>1. pc' = pc
      BY <2>4 DEF HostOpens, HostCloses, Terminating, vars
    <3> QED BY <2>1, <3>1
  <2> QED BY <1>1, <2>1, <2>2, <2>3, <2>4 DEF Next
<1>2. TypeOK /\ Exclusive /\ [Next]_vars
      => [\A t \in Threads : pc[t] # "idle" =>
             \/ pc'[t] = pc[t] /\ (Step(t) => process' # "running")
             \/ StepsLeft[pc'[t]] < StepsLeft[pc[t]]]_vars
  BY <1>1
<1> QED BY <1>2, TypeCorrect, PTL DEF Spec, CallsMoveOn

-----------------------------------------------------------------------------
(* The source of a PeFile *)

\* Before the first call nothing is open.
LEMMA SourceInit == Init => SourceTracked
BY LoaderAssumption DEF Init, SourceTracked, SourceIsOpen, SourceRecorded,
   ZeroedPeFile, Reading

\* What is recorded of the source does not change between opening and closing.
LEMMA SourceFrame ==
    ASSUME TypeOK, Exclusive, SourceTracked, NEW t \in Threads,
           pc[t] \in Reading,
           UNCHANGED <<fds, buffers, file, handle>>,
           \A f \in PeFiles : /\ pe'[f].fileType = pe[f].fileType
                              /\ pe'[f].fileHandle = pe[f].fileHandle
                              /\ pe'[f].callback = pe[f].callback,
           \/ pc' = pc
           \/ \E l \in Reading \cup {"closeFile"} : pc' = [pc EXCEPT ![t] = l]
    PROVE  SourceTracked'
<1>1. \A u \in Threads : pc[u] \in Reading => file[u] \in PeFiles
  BY DEF Exclusive, TypeOK, Reading
<1>2. \A u \in Threads, f \in PeFiles : HoldsSource(u, f) => HoldsSource(u, f)'
  BY DEF HoldsSource, TypeOK
<1>3. \A u \in Threads : pc'[u] \in Reading => pc[u] \in Reading
  BY DEF TypeOK
<1>4. \A u \in Threads : SourceIsOpen(u)'
  BY <1>1, <1>3 DEF SourceTracked, SourceIsOpen
<1>5. \A f \in PeFiles : SourceRecorded(f)'
  BY <1>2 DEF SourceTracked, SourceRecorded
<1> QED BY <1>4, <1>5 DEF SourceTracked

\* Only the thread that works on a PeFile can hold its source.
LEMMA SourceHolder ==
    ASSUME TypeOK, Exclusive, NEW t \in Threads, NEW u \in Threads,
           NEW f \in PeFiles, f \in {file[t], handle[t]}, HoldsSource(u, f)
    PROVE  u = t
BY LoaderAssumption DEF Exclusive, HoldsSource

\* What a call has not opened, or has given back, is held by no descriptor and
\* by no lent buffer.
LEMMA NothingHeld ==
    ASSUME TypeOK, Exclusive, SourceTracked, NEW t \in Threads,
           NEW f \in PeFiles, f \in {file[t], handle[t]}, ~HoldsSource(t, f)
    PROVE  buffers[f] = 0 /\ \A d \in Fds : fds[d] # f
<1>1. \A u \in Threads : ~HoldsSource(u, f)
  BY SourceHolder
<1> QED BY <1>1 DEF SourceTracked, SourceRecorded

\* A thread that works on f leaves what is recorded of the others alone.
LEMMA OtherSources ==
    ASSUME TypeOK, Exclusive, SourceTracked, NEW t \in Threads,
           NEW f \in PeFiles,
           \A u \in Threads \ {t} : /\ f # file[u]
                                    /\ file'[u] = file[u]
                                    /\ handle'[u] = handle[u]
                                    /\ pc'[u] = pc[u],
           file[t] \in {f, NULL},
           \A g \in PeFiles \ {f} : pe'[g] = pe[g] /\ buffers'[g] = buffers[g],
           \A d \in Fds, g \in PeFiles \ {f} : fds'[d] = g => fds[d] = g,
           SourceIsOpen(t)',
           SourceRecorded(f)'
    PROVE  SourceTracked'
<1>1. ASSUME NEW u \in Threads \ {t} PROVE SourceIsOpen(u)'
  <2>1. pc[u] \in Reading => file[u] \in PeFiles \ {f}
    BY DEF Exclusive, TypeOK, Reading
  <2> QED BY <2>1 DEF SourceTracked, SourceIsOpen
<1>2. ASSUME NEW g \in PeFiles \ {f} PROVE SourceRecorded(g)'
  <2>1. \A u \in Threads : HoldsSource(u, g) => HoldsSource(u, g)'
    BY LoaderAssumption DEF HoldsSource
  <2> QED BY <2>1 DEF SourceTracked, SourceRecorded
<1> QED BY <1>1, <1>2 DEF SourceTracked

\* The thread that works on a PeFile works on it alone.
LEMMA WorksAlone ==
    ASSUME TypeOK, Exclusive, NEW t \in Threads, NEW u \in Threads \ {t},
           NEW f \in PeFiles, f \in {file[t], handle[t]}
    PROVE  f \notin {file[u], handle[u]}
BY LoaderAssumption DEF Exclusive

\* openFile records the descriptor it got, and no other descriptor is the
\* PeFile's.
LEMMA OpenFileSource ==
    ASSUME TypeOK, Exclusive, SourceTracked, NEW t \in Threads, OpenFile(t)
    PROVE  SourceTracked'
<1> DEFINE f == file[t]
<1> USE DEF hostVars, callVars, FailWith, Continue, Goto, At
<1>1. f \in PeFiles
  BY CallFile DEF OpenFile
<1>2. handle[t] = NULL /\ buffers[f] = 0 /\ \A d \in Fds : fds[d] # f
  BY <1>1, NothingHeld DEF OpenFile, HoldsSource, Reading, Exclusive
<1>3. UNCHANGED <<file, handle, buffers>>
  BY DEF OpenFile
<1>4. PICK d \in Fds \cup {NoFd}, l \in {"dosHeader", "closeFile"} :
         /\ pe' = [pe EXCEPT ![f].fileType = "TYPE_FILE", ![f].fileHandle = d]
         /\ pc' = [pc EXCEPT ![t] = l]
         /\ d # NoFd => l = "dosHeader" /\ fds' = [fds EXCEPT ![d] = f]
         /\ d = NoFd => fds' = fds
  BY LoaderAssumption DEF OpenFile
<1>5. /\ pe'[f].fileType = "TYPE_FILE"
      /\ pe'[f].fileHandle = d
      /\ \A g \in PeFiles \ {f} : pe'[g] = pe[g]
  BY <1>1, <1>4 DEF TypeOK, PeFileType
<1>6. \A e \in Fds : fds'[e] = f => e = d /\ d # NoFd
  BY <1>2, <1>4 DEF TypeOK
<1>7. d # NoFd => HoldsSource(t, f)'
  BY <1>2, <1>3, <1>4 DEF HoldsSource, Reading, TypeOK
<1>8. SourceRecorded(f)'
  BY <1>2, <1>3, <1>5, <1>6, <1>7 DEF SourceRecorded, Indeterminate
<1>9. SourceIsOpen(t)'
  BY <1>3, <1>5 DEF SourceIsOpen
<1>10. \A g \in PeFiles \ {f}, e \in Fds : fds'[e] = g => fds[e] = g
  BY <1>4 DEF TypeOK
<1>11. \A u \in Threads \ {t} : f # file[u] /\ pc'[u] = pc[u]
  BY <1>1, <1>4, WorksAlone DEF TypeOK
<1> QED BY <1>1, <1>3, <1>5, <1>8, <1>9, <1>10, <1>11, OtherSources

\* openMemory records the callback of the buffer it was lent.
LEMMA OpenMemorySource ==
    ASSUME TypeOK, Exclusive, SourceTracked, NEW t \in Threads, OpenMemory(t)
    PROVE  SourceTracked'
<1> DEFINE f == file[t]
           own == IF request[t] = "buffer" THEN "own" ELSE "nullptr"
<1> USE DEF hostVars, callVars, Continue, Goto, At
<1>1. f \in PeFiles
  BY CallFile DEF OpenMemory
<1>2. handle[t] = NULL /\ buffers[f] = 0 /\ \A d \in Fds : fds[d] # f
  BY <1>1, NothingHeld DEF OpenMemory, HoldsSource, Reading, Exclusive
<1>3. UNCHANGED <<file, handle, fds>> /\ pc' = [pc EXCEPT ![t] = "dosHeader"]
  BY DEF OpenMemory
<1>4. pe' = [pe EXCEPT ![f].fileType = "TYPE_BUFFER", ![f].callback = own]
  BY DEF OpenMemory
<1>5. /\ pe'[f].fileType = "TYPE_BUFFER"
      /\ pe'[f].callback = own
      /\ \A g \in PeFiles \ {f} : pe'[g] = pe[g]
  BY <1>1, <1>4 DEF TypeOK, PeFileType
<1>6. /\ buffers'[f] = IF own = "own" THEN 1 ELSE 0
      /\ \A g \in PeFiles \ {f} : buffers'[g] = buffers[g]
  BY <1>1, <1>2 DEF OpenMemory, TypeOK
<1>7. HoldsSource(t, f)'
  BY <1>2, <1>3 DEF HoldsSource, Reading, TypeOK
<1>8. SourceRecorded(f)'
  BY <1>2, <1>3, <1>5, <1>6, <1>7 DEF SourceRecorded, Indeterminate
<1>9. SourceIsOpen(t)'
  BY <1>3, <1>5 DEF SourceIsOpen
<1>10. \A u \in Threads \ {t} : f # file[u] /\ pc'[u] = pc[u]
  BY <1>1, <1>3, WorksAlone DEF TypeOK
<1> QED BY <1>1, <1>3, <1>5, <1>6, <1>8, <1>9, <1>10, OtherSources

\* closeFile, called by parsePeFile or by cleanup: whatever the PeFile had open
\* is given back, and it records that it has nothing open any more.
LEMMA GiveBackSource ==
    ASSUME TypeOK, Exclusive, SourceTracked, NEW t \in Threads,
           CloseSource(t) \/ CleanupFile(t)
    PROVE  SourceTracked'
<1> USE DEF hostVars, callVars, Goto, At
<1>1. PICK f \in PeFiles : f = file[t]
  BY CallFile DEF CloseSource, CleanupFile
<1>2. UNCHANGED <<file, handle>> /\ CloseFile(f)
  BY <1>1 DEF CloseSource, CleanupFile
<1>3. /\ pc' = [pc EXCEPT ![t] = pc'[t]]
      /\ pc'[t] \notin Reading
      /\ \A u \in Threads \ {t} : pc'[u] = pc[u]
  BY DEF CloseSource, CleanupFile, Reading, TypeOK
<1>4. SourceRecorded(f)
  BY <1>1 DEF SourceTracked
<1>5. \A g \in PeFiles \ {f} :
         /\ pe'[g] = pe[g]
         /\ buffers'[g] = buffers[g]
         /\ \A d \in Fds : fds'[d] = g => fds[d] = g
  BY <1>1, <1>2, LoaderAssumption DEF CloseFile, GiveBack, TypeOK
<1>6. SourceRecorded(f)'
  <2>1. CASE pe[f].fileType = "TYPE_FILE"
    <3>1. /\ fds' = [e \in Fds |-> IF e \in Reads(pe[f].fileHandle, {e})
                                   THEN fds'[e] ELSE fds[e]]
          /\ pe'[f].fileType = "TYPE_CLOSED"
          /\ buffers' = buffers
      BY <1>1, <1>2, <2>1 DEF CloseFile, GiveBack, Reads, TypeOK, PeFileType,
         Indeterminate, FileTypes
    <3>2. \A d \in Fds : fds'[d] # f
      BY <1>1, <1>2, <1>4, <2>1, LoaderAssumption DEF SourceRecorded,
         CloseFile, GiveBack, Reads, Indeterminate, TypeOK
    <3> QED BY <1>4, <2>1, <3>1, <3>2 DEF SourceRecorded, Indeterminate
  <2>2. CASE pe[f].fileType = "TYPE_BUFFER"
    <3>1. pe'[f].fileType = "TYPE_CLOSED" /\ fds' = fds
      BY <1>1, <1>2, <2>2 DEF CloseFile, GiveBack, Reads, TypeOK, PeFileType,
         Indeterminate, FileTypes
    <3>2. buffers'[f] = 0
      BY <1>1, <1>2, <1>4, <2>2 DEF SourceRecorded, CloseFile, GiveBack, Reads,
         Indeterminate, TypeOK
    <3> QED BY <1>4, <2>2, <3>1, <3>2 DEF SourceRecorded, Indeterminate
  <2>3. CASE pe[f].fileType \notin {"TYPE_FILE", "TYPE_BUFFER"}
    <3>1. buffers[f] = 0 /\ \A d \in Fds : fds[d] # f
      BY <1>4, <2>3 DEF SourceRecorded
    <3>2. \A d \in Fds : fds'[d] # f
      BY <1>1, <1>2, <3>1, LoaderAssumption DEF CloseFile, GiveBack, TypeOK
    <3>3. buffers'[f] = 0
      BY <1>1, <1>2, <1>4, <2>3, <3>1 DEF SourceRecorded, CloseFile, GiveBack,
         Reads, TypeOK
    <3>4. /\ pe'[f].fileType \in {pe[f].fileType, "TYPE_CLOSED"}
          /\ pe'[f].callback = pe[f].callback
      BY <1>1, <1>2 DEF CloseFile, GiveBack, TypeOK, PeFileType
    <3> QED BY <1>4, <2>3, <3>2, <3>3, <3>4 DEF SourceRecorded, Indeterminate
  <2> QED BY <2>1, <2>2, <2>3
<1>7. SourceIsOpen(t)'
  BY <1>3 DEF SourceIsOpen
<1>8. \A u \in Threads \ {t} : f # file[u]
  BY <1>1, WorksAlone
<1> QED BY <1>1, <1>2, <1>3, <1>5, <1>6, <1>7, <1>8, OtherSources

\* The end of a call, which holds no source any more.
LEMMA ReturnSource ==
    ASSUME TypeOK, Exclusive, SourceTracked, NEW t \in Threads,
           Publish(t) \/ Release(t)
    PROVE  SourceTracked'
<1> USE DEF resVars, hostVars, callVars, Goto, At, Continue, Stop
<1>1. PICK f \in PeFiles : f = file[t]
  BY CallFile DEF Publish, Release
<1>2. buffers[f] = 0 /\ \A d \in Fds : fds[d] # f
  BY <1>1, NothingHeld DEF Publish, Release, HoldsSource, Reading
<1>3. UNCHANGED <<fds, buffers>> /\ pe' \in {pe, [pe EXCEPT ![f] = ZeroedPeFile]}
  BY <1>1 DEF Publish, Release
<1>4. SourceRecorded(f)'
  <2>1. \/ pe'[f] = pe[f]
        \/ pe'[f].fileType = "TYPE_FILE" /\ pe'[f].callback # "own"
    BY <1>1, <1>3 DEF ZeroedPeFile, TypeOK
  <2>2. SourceRecorded(f)
    BY <1>1, <1>2 DEF SourceTracked, SourceRecorded
  <2> QED BY <1>2, <1>3, <2>1, <2>2 DEF SourceRecorded
<1>5. /\ pc'[t] \notin Reading
      /\ \A u \in Threads \ {t} : /\ f # file[u]
                                  /\ file'[u] = file[u]
                                  /\ handle'[u] = handle[u]
                                  /\ pc'[u] = pc[u]
  BY <1>1, WorksAlone DEF Publish, Release, Reading, TypeOK
<1>6. \A g \in PeFiles \ {f} : pe'[g] = pe[g]
  BY <1>3 DEF TypeOK
<1>7. SourceIsOpen(t)'
  BY <1>5 DEF SourceIsOpen
<1> QED BY <1>1, <1>3, <1>4, <1>5, <1>6, <1>7, OtherSources

\* Every stage keeps the record of the source true.
LEMMA SourceStep ==
    ASSUME TypeOK, Exclusive, SourceTracked, NEW t \in Threads, Step(t)
    PROVE  SourceTracked'
<1> DEFINE f == file[t]
<1> USE DEF resVars, hostVars, callVars, FailWith, ReadFails, Continue, Stop,
            Goto, At
<1>1. CASE RejectOptions(t)
  <2>1. f \in PeFiles
    BY <1>1, CallFile DEF RejectOptions
  <2>2. buffers[f] = 0 /\ \A d \in Fds : fds[d] # f
    BY <1>1, <2>1, NothingHeld DEF RejectOptions, HoldsSource, Reading
  <2>3. UNCHANGED <<resVars, file, handle>> /\ pc' = [pc EXCEPT ![t] = "closeFile"]
    BY <1>1 DEF RejectOptions
  <2>4. SourceRecorded(f)'
    BY <2>1, <2>2, <2>3 DEF SourceRecorded, SourceTracked
  <2>5. SourceIsOpen(t)'
    BY <2>3 DEF SourceIsOpen, Reading, TypeOK
  <2>6. \A u \in Threads \ {t} : f # file[u] /\ pc'[u] = pc[u]
    BY <2>1, <2>3, WorksAlone DEF TypeOK
  <2> QED BY <2>1, <2>3, <2>4, <2>5, <2>6, OtherSources
<1>2. CASE ReadDosHeader(t) \/ ReadPeHeader(t) \/ ReadMagic(t) \/ ReadSegments(t)
  BY <1>2, SourceFrame DEF ReadDosHeader, ReadPeHeader, ReadMagic,
     ReadSegments, AbortAtEndOfBuffer, Reading
<1>3. CASE ParsePeHeaders(t) \/ ParseImports(t) \/ ParseExports(t)
  <2>1. f \in PeFiles /\ pc[t] \in Reading
    BY <1>3, CallFile DEF ParsePeHeaders, ParseImports, ParseExports, Reading
  <2>2. \A g \in PeFiles : /\ pe'[g].fileType = pe[g].fileType
                           /\ pe'[g].fileHandle = pe[g].fileHandle
                           /\ pe'[g].callback = pe[g].callback
    <3>1. CASE ParsePeHeaders(t)
      <4>1. CASE pe' = pe
        BY <4>1
      <4>2. ASSUME NEW dirs, NEW n,
                   pe' = [pe EXCEPT ![f].dataDirs = dirs,
                                    ![f].sectionCount = n,
                                    ![f].sections = "own"]
            PROVE  \A g \in PeFiles : /\ pe'[g].fileType = pe[g].fileType
                                      /\ pe'[g].fileHandle = pe[g].fileHandle
                                      /\ pe'[g].callback = pe[g].callback
        BY <2>1, <4>2 DEF TypeOK, PeFileType
      <4> QED BY <3>1, <4>1, <4>2 DEF ParsePeHeaders, HeadersRead
    <3>2. CASE ParseImports(t)
      <4>1. CASE pe' = pe
        BY <4>1
      <4>2. ASSUME NEW n,
                   pe' = [pe EXCEPT ![f].importCount = n, ![f].imports = "own"]
            PROVE  \A g \in PeFiles : /\ pe'[g].fileType = pe[g].fileType
                                      /\ pe'[g].fileHandle = pe[g].fileHandle
                                      /\ pe'[g].callback = pe[g].callback
        BY <2>1, <4>2 DEF TypeOK, PeFileType
      <4> QED BY <3>2, <4>1, <4>2 DEF ParseImports
    <3>3. CASE ParseExports(t)
      <4>1. CASE pe' = pe
        BY <4>1
      <4>2. ASSUME NEW n,
                   pe' = [pe EXCEPT ![f].exportCount = n, ![f].exports = "own"]
            PROVE  \A g \in PeFiles : /\ pe'[g].fileType = pe[g].fileType
                                      /\ pe'[g].fileHandle = pe[g].fileHandle
                                      /\ pe'[g].callback = pe[g].callback
        BY <2>1, <4>2 DEF TypeOK, PeFileType
      <4> QED BY <3>3, <4>1, <4>2 DEF ParseExports
    <3> QED BY <1>3, <3>1, <3>2, <3>3
  <2>3. UNCHANGED <<fds, buffers, file, handle>>
    BY <1>3 DEF ParsePeHeaders, ParseImports, ParseExports
  <2>4. \/ pc' = pc
        \/ \E l \in Reading \cup {"closeFile"} : pc' = [pc EXCEPT ![t] = l]
    BY <1>3 DEF ParsePeHeaders, HeadersRead, ParseImports, ParseExports, Reading
  <2> QED BY <2>1, <2>2, <2>3, <2>4, SourceFrame
<1>4. CASE RelocateFile(t) \/ ApplySegmentPerms(t)
  BY <1>4, SourceFrame DEF RelocateFile, ApplySegmentPerms, Reading
<1> QED BY <1>1, <1>2, <1>3, <1>4, OpenFileSource, OpenMemorySource,
           GiveBackSource, ReturnSource DEF Step

\* So does a call: the memory of a new PeFile names no source it owns, and a
\* variable holds a file whose source is closed.
LEMMA SourceCall ==
    ASSUME TypeOK, Exclusive, SourceTracked, NEW t \in Threads, Call(t)
    PROVE  SourceTracked'
<1> USE DEF resVars, hostVars, callVars, Goto, At
<1>1. CASE RejectVersion(t)
  BY <1>1 DEF RejectVersion, SourceTracked, SourceIsOpen, SourceRecorded, HoldsSource
<1>2. ASSUME NEW r \in Requests, NEW f \in PeFiles, OpenEx(t, r, f)
      PROVE  SourceTracked'
  <2>1. \A u \in Threads : f \notin {file[u], handle[u]}
    BY <1>2, LoaderAssumption DEF OpenEx, Exclusive
  <2>2. buffers[f] = 0 /\ \A d \in Fds : fds[d] # f
    BY <2>1 DEF SourceTracked, SourceRecorded, HoldsSource
  <2>3. \A g \in PeFiles \ {f} : pe'[g] = pe[g]
    BY <1>2 DEF OpenEx, TypeOK
  <2>4. pe'[f].callback # "own"
    BY <1>2 DEF OpenEx, TypeOK, NewPeFile, ZeroedPeFile, IndeterminatePeFile,
       Indeterminate
  <2>5. SourceRecorded(f)'
    BY <1>2, <2>2, <2>4 DEF OpenEx, SourceRecorded
  <2>6. SourceIsOpen(t)'
    BY <1>2 DEF OpenEx, SourceIsOpen, Reading, TypeOK
  <2>7. file[t] = NULL /\ UNCHANGED <<fds, buffers, handle>>
    BY <1>2 DEF OpenEx, Exclusive
  <2>8. \A u \in Threads \ {t} : file'[u] = file[u] /\ pc'[u] = pc[u]
    BY <1>2 DEF OpenEx, TypeOK
  <2> QED BY <2>1, <2>3, <2>5, <2>6, <2>7, <2>8, OtherSources
<1>3. CASE PeloaderClose(t)
  <2> DEFINE f == handle[t]
  <2>1. f \in PeFiles /\ file[t] = NULL
    BY <1>3 DEF PeloaderClose, TypeOK, Exclusive
  <2>2. buffers[f] = 0 /\ \A d \in Fds : fds[d] # f
    BY <1>3, <2>1, NothingHeld DEF PeloaderClose, HoldsSource
  <2>3. UNCHANGED <<fds, buffers, pe, handle>>
    BY <1>3 DEF PeloaderClose
  <2>4. SourceRecorded(f)'
    BY <2>1, <2>2, <2>3 DEF SourceTracked, SourceRecorded
  <2>5. SourceIsOpen(t)'
    BY <1>3 DEF PeloaderClose, SourceIsOpen, Reading, TypeOK
  <2>6. \A u \in Threads \ {t} : f # file[u] /\ file'[u] = file[u] /\ pc'[u] = pc[u]
    BY <1>3, <2>1, WorksAlone DEF PeloaderClose, TypeOK
  <2> QED BY <2>1, <2>3, <2>4, <2>5, <2>6, OtherSources
<1> QED BY <1>1, <1>2, <1>3 DEF Call

\* The host opens descriptors that are free and closes its own.
LEMMA SourceHost ==
    ASSUME TypeOK, SourceTracked,
           \/ \E d \in Fds : HostOpens(d) \/ HostCloses(d)
           \/ Terminating
           \/ UNCHANGED vars
    PROVE  SourceTracked'
<1>1. UNCHANGED <<pe, buffers, handle, file, pc>>
  BY DEF HostOpens, HostCloses, Terminating, vars, hostVars, callVars
<1>2. \A d \in Fds, f \in PeFiles : fds'[d] = f => fds[d] = f
  BY LoaderAssumption DEF HostOpens, HostCloses, Terminating, vars, TypeOK
<1> QED BY <1>1, <1>2 DEF SourceTracked, SourceIsOpen, SourceRecorded, HoldsSource

\* The record of the source is true in every reachable state; the theorem below
\* is read off from it.
THEOREM SourceIsTracked == Spec => []SourceTracked
<1>1. /\ TypeOK /\ Exclusive /\ SourceTracked
      /\ [Next]_vars
      => SourceTracked'
  BY SourceStep, SourceCall, SourceHost DEF Next
<1> QED BY <1>1, SourceInit, TypeCorrect, PTL DEF Spec

\* A PeFile has a descriptor or a lent buffer only during the open that has yet to
\* give it back, once.
THEOREM SourceIsReleased == Spec => []SourceReleased
<1>1. TypeOK /\ SourceTracked => SourceReleased
  BY LoaderAssumption DEF SourceTracked, SourceRecorded, SourceReleased,
     HoldsSource, GivesBack, Opening, Reading
<1> QED BY <1>1, TypeCorrect, SourceIsTracked, PTL

=============================================================================
