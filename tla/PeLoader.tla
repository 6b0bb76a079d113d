------------------------------ MODULE PeLoader ------------------------------
(***************************************************************************)
(* The life of a PeFile: peloader_openEx, the stages of parsePeFile it     *)
(* runs, the error exit of each stage, cleanup and peloader_close, called  *)
(* by several host threads over the resources of one process: descriptors, *)
(* heap blocks, image mappings and the buffers the host lends.             *)
(*                                                                         *)
(* One step of a thread is one call the loader makes (a read, an           *)
(* allocation, an mmap, one of the parse functions); what a PE file holds  *)
(* is the choice between the outcomes of that step. Contents of the image  *)
(* are left to the modules about the layout and the symbols.               *)
(*                                                                         *)
(* `new PeFile` and `new PeSection[n]` do not initialise their members. A  *)
(* member nobody has written holds zero or is Indeterminate, and reading   *)
(* an Indeterminate member may give any value.                             *)
(***************************************************************************)

EXTENDS Integers

CONSTANTS
    Threads,      \* host threads that call the library
    PeFiles,      \* one for each PeFile ever allocated: bounds the opens
    Fds,          \* descriptor numbers of the process
    Stdin,        \* descriptor number 0, which the host has open
    Requests,     \* the kinds of PeLoaderOpen the host may pass
    HeapContents, \* what fresh heap memory may hold: "zeroed", "indeterminate"
    NULL          \* nullptr in a PeFile* variable

Indeterminate == "indeterminate"
NoFd          == "-1"

RequestKinds ==
    {"path",             \* PELOADER_OPEN_FILE, a path
     "nullPath",         \* PELOADER_OPEN_FILE, no path
     "buffer",           \* PELOADER_OPEN_MEMORY, a buffer and a callback
     "plainBuffer",      \* PELOADER_OPEN_MEMORY, a buffer without a callback
     "nullBuffer",       \* PELOADER_OPEN_MEMORY, no buffer or no length
     "unknownMode",      \* any other mode
     "unknownVersion"}   \* options->version is not PELOADER_OPTIONS_VERSION

ASSUME LoaderAssumption ==
    /\ Stdin \in Fds
    /\ {NoFd, Indeterminate} \cap Fds = {}
    /\ {"free", "host", NULL} \cap PeFiles = {}
    /\ Requests \subseteq RequestKinds
    /\ HeapContents \subseteq {"zeroed", Indeterminate}

FileTypes == {"TYPE_FILE", "TYPE_BUFFER", "TYPE_CLOSED"}
Counts    == {"none", "some"}
Pointers  == {"nullptr", "own", Indeterminate}
Blocks    == {"PeFile", "sections", "imports", "noImports", "functions",
              "exports"}
Labels    == {"idle", "source", "dosHeader", "peHeader", "magic", "headers",
              "segments", "imports", "exports", "relocate", "perms",
              "closeSource", "publish", "closeFile", "release"}

VARIABLES
    fds,      \* who has each descriptor open: "free", "host" or a PeFile
    heap,     \* the live heap blocks, <<PeFile, kind>>
    images,   \* the PeFiles whose image mapping exists
    pe,       \* the members of each PeFile
    buffers,  \* each PeFile's lent buffers whose free callback is yet to run
    created,  \* the PeFiles allocated so far
    handle,   \* each thread's PeFile* variable
    pc,       \* the stage of the call each thread is in
    file,     \* the PeFile that call works on
    request,  \* the options that call was given
    code,     \* the pending or last return code of each thread
    process   \* "running", "aborted", or how undefined behaviour did harm,
              \* nothing being said of it from there on: "undefined", over a
              \* pointer or a count; "mismatched", by the delete of an array
              \* as an object

resVars  == <<fds, heap, images, pe, buffers>>
hostVars == <<handle, created>>
callVars == <<file, request>>
vars == <<fds, heap, images, pe, buffers, created, handle, pc, file, request,
          code, process>>

-----------------------------------------------------------------------------
(* Memory *)

\* The values reading a member may give, v being what was last written to it.
Reads(v, S) == IF v = Indeterminate THEN S ELSE {v}

PeFileType ==
    [fileType          : FileTypes \cup {Indeterminate},
     fileHandle        : Fds \cup {NoFd, Indeterminate},
     callback          : Pointers,
     dataDirs          : {"read", "zeroed", Indeterminate},
     sectionCount      : Counts \cup {Indeterminate},
     sections          : Pointers,
     sectionAllocation : Pointers,
     importCount       : Counts \cup {Indeterminate},
     imports           : Pointers,
     exportCount       : Counts \cup {Indeterminate},
     exports           : Pointers]

\* A PeFile in memory that is all zeroes: the enumerator TYPE_FILE is 0.
ZeroedPeFile ==
    [fileType          |-> "TYPE_FILE",
     fileHandle        |-> Stdin,
     callback          |-> "nullptr",
     dataDirs          |-> "zeroed",
     sectionCount      |-> "none",
     sections          |-> "nullptr",
     sectionAllocation |-> "nullptr",
     importCount       |-> "none",
     imports           |-> "nullptr",
     exportCount       |-> "none",
     exports           |-> "nullptr"]

\* A PeFile in recycled memory.
IndeterminatePeFile == [member \in DOMAIN ZeroedPeFile |-> Indeterminate]

\* What `new PeFile` leaves in the object.
NewPeFile(contents) ==
    IF contents = "zeroed" THEN ZeroedPeFile ELSE IndeterminatePeFile

Init ==
    /\ fds = [d \in Fds |-> IF d = Stdin THEN "host" ELSE "free"]
    /\ heap = {}
    /\ images = {}
    /\ pe = [f \in PeFiles |-> ZeroedPeFile]
    /\ buffers = [f \in PeFiles |-> 0]
    /\ created = {}
    /\ handle = [t \in Threads |-> NULL]
    /\ pc = [t \in Threads |-> "idle"]
    /\ file = [t \in Threads |-> NULL]
    /\ request = [t \in Threads |-> "none"]
    /\ code = [t \in Threads |-> "none"]
    /\ process = "running"

-----------------------------------------------------------------------------
(* Control *)

At(t, label) == process = "running" /\ pc[t] = label

Goto(t, label) == pc' = [pc EXCEPT ![t] = label]

\* An error return of a stage: peloader_openEx goes on to cleanup.
FailWith(t, answer) ==
    /\ Goto(t, "closeFile")
    /\ code' = [code EXCEPT ![t] = answer]
    /\ UNCHANGED process

Continue(t, label) == Goto(t, label) /\ UNCHANGED <<code, process>>

\* abort(), or undefined behaviour that did harm.
Stop(how) == process' = how /\ UNCHANGED <<pc, code>>

\* The file is a buffer whose read position is its very end: bufferPointer
\* refuses to give a pointer and aborts.
AbortAtEndOfBuffer(f) == pe[f].fileType = "TYPE_BUFFER" /\ Stop("aborted")

\* readFully on a path: the file is too short, or read() fails. A buffer never
\* runs short, readPartially fills the rest with the same bytes again.
ReadFails(t) ==
    /\ pe[file[t]].fileType = "TYPE_FILE"
    /\ FailWith(t, "negative")

-----------------------------------------------------------------------------
(* Opening *)

\* options->version is checked before anything is allocated.
RejectVersion(t) ==
    /\ At(t, "idle")
    /\ handle[t] = NULL
    /\ "unknownVersion" \in Requests
    /\ code' = [code EXCEPT ![t] = "negative"]
    /\ UNCHANGED <<resVars, hostVars, callVars, pc, process>>

\* MUTANT: *result is stored before the file is parsed.
OpenExPublishing(t, r, f) ==
    /\ At(t, "idle")
    /\ handle[t] = NULL
    /\ r # "unknownVersion"
    /\ f \notin created
    /\ created' = created \cup {f}
    /\ heap' = heap \cup {<<f, "PeFile">>}
    /\ pe' = [pe EXCEPT ![f] = ZeroedPeFile]
    /\ handle' = [handle EXCEPT ![t] = f]
    /\ file' = [file EXCEPT ![t] = f]
    /\ request' = [request EXCEPT ![t] = r]
    /\ code' = [code EXCEPT ![t] = "none"]
    /\ Goto(t, "source")
    /\ UNCHANGED <<fds, images, buffers, process>>

\* auto file = new PeFile, with whatever the memory held before.
OpenEx(t, r, f) ==
    /\ At(t, "idle")
    /\ handle[t] = NULL
    /\ r # "unknownVersion"
    /\ f \notin created
    /\ created' = created \cup {f}
    /\ heap' = heap \cup {<<f, "PeFile">>}
    /\ \E contents \in HeapContents :
          pe' = [pe EXCEPT ![f] = NewPeFile(contents)]
    /\ file' = [file EXCEPT ![t] = f]
    /\ request' = [request EXCEPT ![t] = r]
    /\ code' = [code EXCEPT ![t] = "none"]
    /\ Goto(t, "source")
    /\ UNCHANGED <<fds, images, buffers, handle, process>>

\* MUTANT: openFile stores the error in the descriptor.
OpenFileErrno(t) ==
    LET f == file[t] IN
    /\ At(t, "source")
    /\ request[t] = "path"
    /\ pe' = [pe EXCEPT ![f].fileType = "TYPE_FILE", ![f].fileHandle = "-errno"]
    /\ FailWith(t, "negative")
    /\ UNCHANGED <<fds, heap, images, buffers, hostVars, callVars>>

\* openFile: a descriptor, or -1 when open() fails.
OpenFile(t) ==
    LET f == file[t] IN
    /\ At(t, "source")
    /\ request[t] = "path"
    /\ \/ \E d \in Fds :
             /\ fds[d] = "free"
             /\ fds' = [fds EXCEPT ![d] = f]
             /\ pe' = [pe EXCEPT ![f].fileType = "TYPE_FILE",
                                 ![f].fileHandle = d]
             /\ Continue(t, "dosHeader")
       \/ /\ pe' = [pe EXCEPT ![f].fileType = "TYPE_FILE",
                              ![f].fileHandle = NoFd]
          /\ FailWith(t, "negative")
          /\ UNCHANGED fds
    /\ UNCHANGED <<heap, images, buffers, hostVars, callVars>>

\* openMemory: the buffer and its callback are recorded, nothing is copied.
OpenMemory(t) ==
    LET f == file[t] IN
    /\ At(t, "source")
    /\ request[t] \in {"buffer", "plainBuffer"}
    /\ pe' = [pe EXCEPT
                ![f].fileType = "TYPE_BUFFER",
                ![f].callback = IF request[t] = "buffer" THEN "own"
                                ELSE "nullptr"]
    /\ buffers' = [buffers EXCEPT ![f] = IF request[t] = "buffer" THEN @ + 1
                                         ELSE @]
    /\ Continue(t, "dosHeader")
    /\ UNCHANGED <<fds, heap, images, hostVars, callVars>>

\* Options that name no source: EINVAL, positive, when the mode is known.
RejectOptions(t) ==
    /\ At(t, "source")
    /\ \/ request[t] \in {"nullPath", "nullBuffer"} /\ FailWith(t, "positive")
       \/ request[t] = "unknownMode" /\ FailWith(t, "negative")
    /\ UNCHANGED <<resVars, hostVars, callVars>>

-----------------------------------------------------------------------------
(* parsePeFile *)

\* The DOS header, its magic, and the seek to the PE header. fileSeek reports
\* a failing lseek64 as -errno, which is not the -1 that is tested for: only a
\* buffer can fail to seek.
ReadDosHeader(t) ==
    /\ At(t, "dosHeader")
    /\ \/ ReadFails(t)
       \/ FailWith(t, "negative")
       \/ Continue(t, "peHeader")
    /\ UNCHANGED <<resVars, hostVars, callVars>>

\* MUTANT: a PE header that cannot be read is looked for again.
ReadPeHeaderAgain(t) ==
    /\ At(t, "peHeader")
    /\ Continue(t, "dosHeader") \/ Continue(t, "magic")
    /\ UNCHANGED <<resVars, hostVars, callVars>>

\* The PE header, its magic and the size of the optional header.
ReadPeHeader(t) ==
    /\ At(t, "peHeader")
    /\ \/ ReadFails(t)
       \/ AbortAtEndOfBuffer(file[t])
       \/ FailWith(t, "negative")
       \/ Continue(t, "magic")
    /\ UNCHANGED <<resVars, hostVars, callVars>>

\* The magic of the optional header. Any other format than PE32+ sets result
\* to EIO, which is positive and not seen as an error: the headers stay unread
\* and the parse goes on. A buffer is read without advancing, so its magic is
\* the first half of PE_MAGIC, never PE32_PLUS_MAGIC.
ReadMagic(t) ==
    /\ At(t, "magic")
    /\ \/ ReadFails(t)
       \/ pe[file[t]].fileType = "TYPE_FILE" /\ Continue(t, "headers")
       \/ Continue(t, "segments")
    /\ UNCHANGED <<resVars, hostVars, callVars>>

\* The optional header, which may be truncated so that some data directories
\* stay unread, and every section header.
HeadersRead(t) ==
    LET f == file[t] IN
    /\ \E dirs \in {"read", pe[f].dataDirs}, n \in Counts :
          pe' = [pe EXCEPT ![f].dataDirs = dirs,
                           ![f].sectionCount = n,
                           ![f].sections = "own"]
    /\ heap' = heap \cup {<<f, "sections">>}
    /\ Continue(t, "segments")

\* MUTANT: the section array is stored before it is filled, and still deleted
\* when a section header cannot be read.
ParsePeHeadersEarly(t) ==
    /\ At(t, "headers")
    /\ \/ /\ ReadFails(t)
          /\ pe' = [pe EXCEPT ![file[t]].sections = "own"]
          /\ UNCHANGED heap
       \/ HeadersRead(t)
    /\ UNCHANGED <<fds, images, buffers, hostVars, callVars>>

\* parsePeHeaders: the section array is deleted again when a section header
\* cannot be read, and stored when all of them were.
ParsePeHeaders(t) ==
    /\ At(t, "headers")
    /\ \/ ReadFails(t) /\ UNCHANGED <<pe, heap>>
       \/ HeadersRead(t)
    /\ UNCHANGED <<fds, images, buffers, hostVars, callVars>>

\* Walking the section array when the count or the array was never set.
GarbageSections(f) ==
    /\ "some" \in Reads(pe[f].sectionCount, Counts)
    /\ pe[f].sections # "own"

\* A section of virtual size 0, whose size is what its memory held before.
MayBeUnsized(f) ==
    /\ pe[f].sections = "own"
    /\ pe[f].sectionCount = "some"
    /\ Indeterminate \in HeapContents

\* readSegments: an anonymous mapping, then the raw data of each section. The
\* mapping's address is stored in the sections, never in sectionAllocation.
ReadSegments(t) ==
    LET f == file[t] IN
    /\ At(t, "segments")
    /\ \/ FailWith(t, "negative") /\ UNCHANGED images
       \/ /\ images' = images \cup {f}
          /\ \/ pe[f].sectionCount = "some" /\ FailWith(t, "negative")
             \/ "none" \in Reads(pe[f].sectionCount, Counts)
                   /\ Continue(t, "imports")
             \/ pe[f].sections = "own" /\ Continue(t, "imports")
             \/ GarbageSections(f) /\ Stop("undefined")
             \/ MayBeUnsized(f) /\ Stop("undefined")
    /\ UNCHANGED <<fds, heap, pe, buffers, hostVars, callVars>>

\* Whether a data directory may resolve to a table inside a section, and
\* whether one that was never read may resolve to anything else.
MayResolve(f) == pe[f].sectionCount = "some" /\ pe[f].dataDirs # "zeroed"
MayMislead(f) ==
    /\ pe[f].dataDirs = Indeterminate
    /\ "some" \in Reads(pe[f].sectionCount, Counts)

\* parseImports: nothing is stored when there is no import directory. An array
\* is allocated even for a directory without descriptors ("noImports"); a
\* module without an import table has no array of functions.
ParseImports(t) ==
    LET f == file[t] IN
    /\ At(t, "imports")
    /\ \/ Continue(t, "exports") /\ UNCHANGED <<pe, heap>>
       \/ /\ MayResolve(f)
          /\ \/ /\ heap' = heap \cup {<<f, "noImports">>}
                /\ pe' = [pe EXCEPT ![f].importCount = "none",
                                    ![f].imports = "own"]
             \/ /\ \E blocks \in {{"imports"}, {"imports", "functions"}} :
                      heap' = heap \cup ({f} \X blocks)
                /\ pe' = [pe EXCEPT ![f].importCount = "some",
                                    ![f].imports = "own"]
          /\ Continue(t, "exports")
       \/ MayMislead(f) /\ Stop("undefined") /\ UNCHANGED <<pe, heap>>
    /\ UNCHANGED <<fds, images, buffers, hostVars, callVars>>

\* parseExports: nothing is stored when there is no export directory; a
\* negative number of entries is refused.
ParseExports(t) ==
    LET f == file[t] IN
    /\ At(t, "exports")
    /\ \/ Continue(t, "relocate") /\ UNCHANGED <<pe, heap>>
       \/ /\ MayResolve(f)
          /\ FailWith(t, "negative")
          /\ UNCHANGED <<pe, heap>>
       \/ /\ MayResolve(f)
          /\ heap' = heap \cup {<<f, "exports">>}
          /\ \E n \in Counts :
                pe' = [pe EXCEPT ![f].exportCount = n, ![f].exports = "own"]
          /\ Continue(t, "relocate")
       \/ MayMislead(f) /\ Stop("undefined") /\ UNCHANGED <<pe, heap>>
    /\ UNCHANGED <<fds, images, buffers, hostVars, callVars>>

\* relocateFile: a block outside every section is an error, a relocation type
\* it does not know aborts the process.
RelocateFile(t) ==
    LET f == file[t] IN
    /\ At(t, "relocate")
    /\ \/ Continue(t, "perms")
       \/ MayResolve(f) /\ FailWith(t, "negative")
       \/ MayResolve(f) /\ Stop("aborted")
       \/ MayMislead(f) /\ Stop("undefined")
    /\ UNCHANGED <<resVars, hostVars, callVars>>

\* applySegmentPerms: mprotect refuses a section that is not page aligned.
ApplySegmentPerms(t) ==
    LET f == file[t] IN
    /\ At(t, "perms")
    /\ \/ "none" \in Reads(pe[f].sectionCount, Counts)
             /\ Continue(t, "closeSource")
       \/ pe[f].sections = "own" /\ Continue(t, "closeSource")
       \/ pe[f].sectionCount = "some" /\ FailWith(t, "negative")
       \/ (GarbageSections(f) \/ MayBeUnsized(f)) /\ Stop("undefined")
    /\ UNCHANGED <<resVars, hostVars, callVars>>

-----------------------------------------------------------------------------
(* Closing *)

\* Give the descriptor or the buffer back and mark the file. A type nobody wrote
\* may be any of the three, or none of them, which aborts.
GiveBack(f, mark) ==
    \E type \in Reads(pe[f].fileType, FileTypes \cup {"other"}) :
       \/ /\ type = "TYPE_FILE"
          /\ \E d \in Reads(pe[f].fileHandle, Fds \cup {NoFd}) :
                fds' = [e \in Fds |-> IF e = d THEN "free" ELSE fds[e]]
          /\ pe' = [pe EXCEPT ![f].fileType = mark]
          /\ UNCHANGED <<buffers, process>>
       \/ /\ type = "TYPE_BUFFER"
          /\ \E callback \in Reads(pe[f].callback, {"nullptr", "garbage"}) :
                /\ buffers' = [buffers EXCEPT ![f] =
                                   IF callback = "own" THEN @ - 1 ELSE @]
                /\ process' = IF callback = "garbage" THEN "undefined"
                              ELSE process
          /\ pe' = [pe EXCEPT ![f].fileType = mark]
          /\ UNCHANGED fds
       \/ type = "TYPE_CLOSED" /\ UNCHANGED <<pe, fds, buffers, process>>
       \/ /\ type = "other"
          /\ process' = "aborted"
          /\ UNCHANGED <<pe, fds, buffers>>

\* MUTANT: the file is not marked closed.
CloseFileAgain(f) == GiveBack(f, pe[f].fileType)

\* closeFile: the source is given back once, whoever calls it again.
CloseFile(f) == GiveBack(f, "TYPE_CLOSED")

\* MUTANT: parsePeFile returns without closing the source.
CloseSourceSkipped(t) ==
    /\ At(t, "closeSource")
    /\ Goto(t, "publish")
    /\ UNCHANGED <<resVars, hostVars, callVars, code, process>>

\* The last stage of parsePeFile: the source is not needed any more.
CloseSource(t) ==
    /\ At(t, "closeSource")
    /\ CloseFile(file[t])
    /\ Goto(t, "publish")
    /\ UNCHANGED <<heap, images, hostVars, callVars, code>>

\* *result = file; return 0
Publish(t) ==
    /\ At(t, "publish")
    /\ handle' = [handle EXCEPT ![t] = file[t]]
    /\ file' = [file EXCEPT ![t] = NULL]
    /\ code' = [code EXCEPT ![t] = "zero"]
    /\ Goto(t, "idle")
    /\ request' = [request EXCEPT ![t] = "none"]
    /\ UNCHANGED <<resVars, created, process>>

\* peloader_close, called on a variable that holds an open file.
PeloaderClose(t) ==
    /\ At(t, "idle")
    /\ handle[t] # NULL
    /\ file' = [file EXCEPT ![t] = handle[t]]
    /\ Goto(t, "closeFile")
    /\ UNCHANGED <<resVars, hostVars, request, code, process>>

\* The first thing cleanup does.
CleanupFile(t) ==
    /\ At(t, "closeFile")
    /\ CloseFile(file[t])
    /\ Goto(t, "release")
    /\ UNCHANGED <<heap, images, hostVars, callVars, code>>

\* MUTANT: the functions of the import modules are not deleted.
DeletedWithoutFunctions(f, count, exports, sections) ==
    {<<f, "PeFile">>}
    \cup (IF count = "some" THEN {<<f, "imports">>} ELSE {})
    \cup (IF exports = "own" THEN {<<f, "exports">>} ELSE {})
    \cup (IF sections = "own" THEN {<<f, "sections">>} ELSE {})

\* The blocks cleanup deletes, given what it reads in the members.
Deleted(f, count, exports, sections) ==
    {<<f, "PeFile">>}
    \cup (IF count = "some"
          THEN {<<f, "imports">>} \cup (heap \cap {<<f, "functions">>}) ELSE {})
    \cup (IF exports = "own" THEN {<<f, "exports">>} ELSE {})
    \cup (IF sections = "own" THEN {<<f, "sections">>} ELSE {})

\* The rest of cleanup, and the return of the call that ran it: every member
\* that is read is followed, a pointer to a block that is not live is harmful.
\* The array of exports comes from `new PeExportedFunction[count]` and goes by
\* `delete`, not `delete[]`, which is undefined: the heap takes the block back
\* all the same, or comes to harm.
\* peloader_close stores nullptr in the variable that held the file.
Release(t) ==
    LET f == file[t]
        Ptrs == {"nullptr", "garbage"}
    IN
    /\ At(t, "release")
    /\ \E count \in Reads(pe[f].importCount, Counts),
          imports \in Reads(pe[f].imports, Ptrs),
          exports \in Reads(pe[f].exports, Ptrs),
          image \in Reads(pe[f].sectionAllocation, Ptrs),
          sections \in Reads(pe[f].sections, Ptrs) :
          LET blocks == Deleted(f, count, exports, sections)
              harmful == \/ count = "some" /\ imports # "own"
                         \/ "garbage" \in {exports, image, sections}
                         \/ ~(blocks \subseteq heap)
          IN
          \/ /\ harmful
             /\ Stop("undefined")
             /\ UNCHANGED <<heap, images, pe, handle, callVars>>
          \/ /\ ~harmful
             /\ exports = "own"
             /\ Stop("mismatched")
             /\ UNCHANGED <<heap, images, pe, handle, callVars>>
          \/ /\ ~harmful
             /\ heap' = heap \ blocks
             /\ images' = IF image = "own" THEN images \ {f} ELSE images
             /\ pe' = [pe EXCEPT ![f] = ZeroedPeFile]
             /\ handle' = [handle EXCEPT ![t] = NULL]
             /\ file' = [file EXCEPT ![t] = NULL]
             /\ request' = [request EXCEPT ![t] = "none"]
             /\ Continue(t, "idle")
    /\ UNCHANGED <<fds, buffers, created>>

-----------------------------------------------------------------------------
(* The rest of the host *)

HostOpens(d) ==
    /\ process = "running"
    /\ fds[d] = "free"
    /\ fds' = [fds EXCEPT ![d] = "host"]
    /\ UNCHANGED <<heap, images, pe, buffers, hostVars, pc, callVars, code,
                   process>>

HostCloses(d) ==
    /\ process = "running"
    /\ fds[d] = "host"
    /\ fds' = [fds EXCEPT ![d] = "free"]
    /\ UNCHANGED <<heap, images, pe, buffers, hostVars, pc, callVars, code,
                   process>>

-----------------------------------------------------------------------------

\* A step of the library, inside a call of thread t.
Step(t) ==
    \/ OpenFile(t) \/ OpenMemory(t) \/ RejectOptions(t)
    \/ ReadDosHeader(t) \/ ReadPeHeader(t) \/ ReadMagic(t) \/ ParsePeHeaders(t)
    \/ ReadSegments(t) \/ ParseImports(t) \/ ParseExports(t)
    \/ RelocateFile(t) \/ ApplySegmentPerms(t) \/ CloseSource(t) \/ Publish(t)
    \/ CleanupFile(t) \/ Release(t)

\* A call of the host into the library.
Call(t) ==
    \/ RejectVersion(t)
    \/ \E r \in Requests, f \in PeFiles : OpenEx(t, r, f)
    \/ PeloaderClose(t)

\* The process is gone, or every PeFile of the bound was opened and closed.
Terminating ==
    /\ \/ process # "running"
       \/ /\ created = PeFiles
          /\ \A t \in Threads : pc[t] = "idle" /\ handle[t] = NULL
    /\ UNCHANGED vars

Next ==
    \/ \E t \in Threads : Call(t) \/ Step(t)
    \/ \E d \in Fds : HostOpens(d) \/ HostCloses(d)
    \/ Terminating

\* The library neither waits nor blocks, so a call that was made runs on as
\* long as its thread is scheduled. Nothing obliges the host to call.
Spec == Init /\ [][Next]_vars /\ \A t \in Threads : WF_vars(Step(t))

-----------------------------------------------------------------------------
(* Properties *)

\* Every variable stays in its range: include/io.h and include/internal.h.
TypeOK ==
    /\ fds \in [Fds -> {"free", "host"} \cup PeFiles]
    /\ heap \subseteq PeFiles \X Blocks
    /\ images \subseteq PeFiles
    /\ pe \in [PeFiles -> PeFileType]
    /\ buffers \in [PeFiles -> Int]
    /\ created \subseteq PeFiles
    /\ handle \in [Threads -> PeFiles \cup {NULL}]
    /\ pc \in [Threads -> Labels]
    /\ file \in [Threads -> PeFiles \cup {NULL}]
    /\ request \in [Threads -> Requests \cup {"none"}]
    /\ code \in [Threads -> {"none", "zero", "negative", "positive"}]
    /\ process \in {"running", "aborted", "undefined", "mismatched"}

\* A thread is inside an open of f that has yet to close the source.
Opening(t, f) == file[t] = f /\ handle[t] # f

\* A thread that has yet to give the source of f back, in the open of f.
GivesBack(t, f) == Opening(t, f) /\ pc[t] \notin {"publish", "release"}

\* A source outlives no call that was given it, whichever stage failed: a
\* descriptor a PeFile owns is closed, and the callback of a buffer has run,
\* when the open has returned; and once, although closeFile runs both at the end
\* of parsePeFile and in cleanup.
SourceReleased ==
    \A f \in PeFiles :
       /\ \A d \in Fds : fds[d] = f => \E t \in Threads : GivesBack(t, f)
       /\ buffers[f] \in {0, 1}
       /\ buffers[f] = 1 => \E t \in Threads : GivesBack(t, f)

\* A descriptor is closed by its owner only: when the number of a PeFile was
\* closed and has gone to the host, or to the PeFile of another thread, cleanup
\* does not close it a second time.
ClosedByOwner ==
    [][\A d \in Fds : fds[d] # "free" /\ fds'[d] # fds[d] =>
          \/ fds[d] = "host" /\ HostCloses(d)
          \/ \E t \in Threads : /\ fds[d] = file[t]
                                /\ CloseSource(t) \/ CleanupFile(t)]_vars

\* The live PeFiles are those in use: one a call works on, or one a host
\* variable holds.
InUse(f) == \E t \in Threads : f \in {file[t], handle[t]}

\* No stage, in success or in failure, leaves a heap block behind once cleanup
\* deleted its PeFile. The array of an import directory without descriptors is
\* excepted: cleanup keys on importCount and does not delete it.
HeapReclaimed ==
    \A f \in PeFiles, kind \in Blocks :
       <<f, kind>> \in heap =>
          \/ InUse(f)
          \/ kind = "noImports"

\* A file the host holds is whole: its object, the tables its members point to
\* and its image exist, its source is closed, and no other variable holds it.
PublishedIsUsable ==
    \A t \in Threads :
       LET f == handle[t] IN
       f # NULL /\ file[t] = NULL =>
          /\ <<f, "PeFile">> \in heap
          /\ f \in images
          /\ pe[f].fileType = "TYPE_CLOSED"
          /\ pe[f].importCount = "some" => <<f, "imports">> \in heap
          /\ pe[f].exports = "own" => <<f, "exports">> \in heap
          /\ pe[f].sections = "own" => <<f, "sections">> \in heap
          /\ \A u \in Threads \ {t} : f \notin {handle[u], file[u]}

\* source/PeLoader.cpp: "Cleans up all resources associated with the provided
\* PeFile", of a PeFile whose open failed at any stage: no pointer is followed
\* and no array is walked that was never set.
DefinedBehaviour == process # "undefined"

\* The members each stage relies on, and those a close that went on to it did.
ReliesOn(stage) ==
    CASE stage \in {"segments", "perms"} -> {"sectionCount", "sections"}
      [] stage \in {"imports", "exports", "relocate"} ->
           {"dataDirs", "sectionCount"}
      [] stage = "publish" -> {"callback"}
      [] stage = "release" ->
           {"callback", "importCount", "imports", "exports", "sections",
            "sectionAllocation"}
      [] OTHER -> {}

\* Undefined behaviour in the loader's bookkeeping has one of two causes: a stage
\* relies on a member, of the PeFile or of a section, that nobody wrote, or
\* cleanup deletes an array of exports. Members the stages did write lead to no
\* block that is not there or is deleted twice, whichever of them failed.
HarmHasCause ==
    process \in {"undefined", "mismatched"} =>
       \E t \in Threads :
          \/ \E member \in ReliesOn(pc[t]) :
                pe[file[t]][member] = Indeterminate
          \/ pc[t] \in {"segments", "perms"} /\ MayBeUnsized(file[t])
          \/ /\ process = "mismatched"
             /\ pc[t] = "release"
             /\ pe[file[t]].exports = "own"

\* The stages in which a PeFile has its source open.
Reading == {"dosHeader", "peHeader", "magic", "headers", "segments", "imports",
            "exports", "relocate", "perms", "closeSource"}

\* The one call that is to give the source of f back.
HoldsSource(t, f) ==
    file[t] = f /\ handle[t] = NULL /\ pc[t] \in Reading \cup {"closeFile"}

\* Who works on which PeFile: a call has one, which no other thread has, and a
\* variable that holds a file is only worked on by its own close.
Exclusive ==
    /\ \A t \in Threads : pc[t] = "idle" <=> file[t] = NULL
    /\ \A t \in Threads : {file[t], handle[t]} \subseteq created \cup {NULL}
    /\ \A t \in Threads : \/ handle[t] = NULL
                           \/ pc[t] = "idle"
                           \/ /\ pc[t] \in {"closeFile", "release"}
                              /\ handle[t] = file[t]
    /\ \A t, u \in Threads :
          t # u => {file[t], handle[t]} \cap {file[u], handle[u]} \subseteq {NULL}

\* A stage that reads the source has it open.
SourceIsOpen(t) ==
    pc[t] \in Reading => pe[file[t]].fileType \in {"TYPE_FILE", "TYPE_BUFFER"}

\* What f records of its source is true: a descriptor it has open is the one it
\* recorded, a callback that is yet to run the one it recorded, and the call
\* that is to give them back exists.
SourceRecorded(f) ==
    /\ \A d \in Fds : fds[d] = f => /\ pe[f].fileType = "TYPE_FILE"
                                   /\ pe[f].fileHandle = d
                                   /\ \E t \in Threads : HoldsSource(t, f)
    /\ buffers[f] # 0 => /\ buffers[f] = 1
                         /\ pe[f].fileType = "TYPE_BUFFER"
                         /\ pe[f].callback = "own"
                         /\ \E t \in Threads : HoldsSource(t, f)
    /\ pe[f].callback = "own" =>
          /\ pe[f].fileType # Indeterminate
          /\ pe[f].fileType = "TYPE_BUFFER" => buffers[f] = 1

SourceTracked ==
    /\ \A t \in Threads : SourceIsOpen(t)
    /\ \A f \in PeFiles : SourceRecorded(f)

\* What f records of its blocks is true: cleanup finds each of them, but for the
\* array of an import directory without descriptors.
BlocksRecorded(f) ==
    /\ InUse(f) <=> <<f, "PeFile">> \in heap
    /\ pe[f].importCount = "some" <=> <<f, "imports">> \in heap
    /\ <<f, "functions">> \in heap => <<f, "imports">> \in heap
    /\ pe[f].exports = "own" <=> <<f, "exports">> \in heap
    /\ pe[f].sections = "own" <=> <<f, "sections">> \in heap
    /\ ~InUse(f) => pe[f] = ZeroedPeFile

\* The stages that may still count imports, and those that have the image.
BeforeImports == {"source", "dosHeader", "peHeader", "magic", "headers",
                  "segments", "imports"}
AfterSegments == {"imports", "exports", "relocate", "perms", "closeSource",
                  "publish"}

\* What the stages behind it have made of the PeFile of a call, or of the one
\* the host holds.
StagesDone(t) ==
    /\ pc[t] \in BeforeImports => pe[file[t]].importCount # "some"
    /\ pc[t] \in AfterSegments => file[t] \in images
    /\ pc[t] = "publish" => pe[file[t]].fileType = "TYPE_CLOSED"
    /\ pc[t] = "idle" /\ handle[t] # NULL =>
          handle[t] \in images /\ pe[handle[t]].fileType = "TYPE_CLOSED"

BlocksTracked ==
    /\ heap \subseteq created \X Blocks
    /\ \A f \in PeFiles : BlocksRecorded(f)
    /\ \A t \in Threads : StagesDone(t)

\* public/peloader.h of an open: "This reads the sections into memory, finds any
\* imports and exports it has and processes the relocations".
OpenedMeansLoaded ==
    \A t \in Threads : handle[t] # NULL => pe[handle[t]].sections = "own"

\* source/PeLoader.cpp: "Cleans up all resources associated with the provided
\* PeFile."
CleanupReleasesImage == \A f \in images : InUse(f)

-----------------------------------------------------------------------------
(* The calls of the loader implement the promise of public/peloader.h. *)

HandleState(t) ==
    IF handle[t] # NULL
    THEN IF file[t] = NULL THEN "open" ELSE "closing"
    ELSE IF file[t] = NULL THEN "empty" ELSE "opening"

HandleAnswer(t) ==
    IF pc[t] = "idle" \/ handle[t] # NULL THEN code[t] ELSE "none"

Promise == INSTANCE PeHandle WITH
    state <- [t \in Threads |-> HandleState(t)],
    answer <- [t \in Threads |-> HandleAnswer(t)],
    alive <- process = "running"

\* A call of the host answers as the header says, and returns unless the process
\* stops underneath it.
HandleSpec == Promise!HandleSpec

\* Every step of the loader is a step of the promise: an open answers once and
\* stores a file only with 0, whatever the other threads do meanwhile.
PromiseKept == Promise!Init /\ [][Promise!Next]_(Promise!hvars)

=============================================================================
