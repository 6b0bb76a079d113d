# A TLA+ model of peloader

peloader loads a Windows PE32+ library into a Linux process: it maps the
sections of a file, applies the relocations, and lets the host bind the
library's imports and look up its exports. It is one C++ library
(`source/PeLoader.cpp`, `source/io.cpp`) with a C interface
(`public/peloader.h`) and a Java binding over it. This directory holds a model
of the library and of the binding in TLA+, TLC runs over small instances of it,
and theorems about it that TLAPS has checked for every instance.

Paths in this document are relative to the repository.

- [The system](#the-system): components, state, operations, interactions
- [The modules](#the-modules): which module models what, and how
- [The runs](#the-runs): what TLC checks, bounds, fairness
- [The proofs](#the-proofs): what is proved, from what, along which argument
- [What was found](#what-was-found)
- [What is not modelled](#what-is-not-modelled)
- [Plan](#plan)

## The system

| Component | State | Operations | Correct when |
|---|---|---|---|
| Lifecycle of a PeFile (`PeLoader.cpp:52-72, 492-622`) | the `PeFile` object, its heap blocks, its image mapping, the host's `PeFile*` | `peloader_open`, `peloader_openEx`, the stages of `parsePeFile`, `cleanup`, `peloader_close` | every resource taken is given back once, whichever stage fails; an open answers once and stores a file only with 0 |
| Byte source (`io.cpp`, `io.h`) | a `File`: closed, a descriptor, or a lent buffer with an offset | `openFile`, `openMemory`, `fileSeek`, `readPartially`, `readFully`, `closeFile` | a read delivers the bytes that follow its position, all of them or an error, and ends |
| Headers of a file (`PeLoader.cpp:144-205, 492-553`, `pefile.h`) | the headers in the `PeFile`, what is left of the optional header | `readOptionalHeader`, `parsePeHeaders`, the reads and the seek of `parsePeFile` | every member holds the bytes the format gives it, however short the optional header and the reads are; the section table is stored whole or not at all |
| Section layout and relocation (`PeLoader.cpp:32-142, 207-270, 400-484`) | the section table, the mapping, page permissions | `readSegments`, `resolveRva`, `relocateFile`, `applySegmentPerms` | every section lies in the mapping, holds what the file says moved by one distance, and ends with the permissions it asks for |
| Import and export tables (`PeLoader.cpp:286-390, 642-793`) | arrays of imported and exported functions, the import table in the image | `parseImports`, `parseExports`, `peloader_import`, `_export`, `_modules`, `_imports`, `_exports` | a bound address reaches the slot its symbol denotes and no other; lookups answer what the tables say |
| Java binding (`bindings/java`) | a `PeFileImpl` around a `PeFile*` | `PeLoader.open`, `bindImport`, `export`, lists, `close` | an object that is not closed has its own file; a list is what its file lists |

How they interact: all calls are synchronous and the library starts no thread,
so whatever concurrency there is comes from host threads that call it on
*different* files, and from the rest of the process and of the machine. The
threads share the descriptor table, the heap and the address space. The open
reads the file through the byte source; closes it at the end of `parsePeFile`;
and closes it again in `cleanup`, in every error exit and in `peloader_close`.
The one callback is the host's `PeFileFreeCallback`, which `closeFile` calls
for a lent buffer. The image is memory the loader writes (relocations, import
slots) and the code in it reads.

What is hard about it:

- **Partial failure.** Each of nine stages may fail with what the earlier ones
  allocated in place. `cleanup` finds it only through members that the stages
  store late, and the object is not initialised to begin with.
- **Double release.** `closeFile` runs twice on every file, `delete[] sections`
  is in two places, and a descriptor number that was closed may be someone
  else's by the second time.
- **Delivery.** `read()` transfers what it likes, and the file may change
  between two calls.
- **Boundaries.** The extent of the sections, the page rounding, raw data
  longer than its section, unsigned differences, tables read by another
  table's length.
- **Lifetime across the binding.** A Java object keeps the address of its file
  after the file is closed, and the heap gives that address to another file.
- **Order.** Sections are written, then relocated, then protected; imports are
  bound after that, one call at a time, by ordinal or name, with `-1` for none.

`PROJECT.json` lists each hazard at its line under "hazards", with the
properties that would catch it going wrong.

## The modules

| Module | Models | Composes |
|---|---|---|
| `PeHandle` | the abstract promise of `public/peloader.h` to the owner of a `PeFile*` | |
| `PeLoader` | the lifecycle of PeFiles, several threads, one process | implements `PeHandle` |
| `ByteStream` | the abstract promise of a `File` to a reader | |
| `FileIo` | the byte source, one system call or memcpy per step | implements `ByteStream` for a path |
| `Headers` | the reads of `parsePeFile` and `parsePeHeaders`, a structure at a time | client of `ByteStream`; implements four stages of `PeLoader` |
| `Layout` | the section layout, relocation and protection of one image | implements three stages of `PeLoader` |
| `Symbols` | import and export tables and the calls on them | implements two stages of `PeLoader` |
| `JavaBinding` | the Java objects around PeFiles, several Java threads | client of `PeHandle` |
| `MCPeLoader`, `MCHeaders`, `MCLayout`, `MCSymbols`, `MCJavaBinding` | small instances for TLC | |
| `PeLoaderProofs`, `PeLoaderHeapProofs`, `PeLoaderHostProofs` | theorems about `PeLoader`: exclusion and the source; the heap; the rest of the process and the promise of `PeHandle` | |
| `FileIoProofs`, `HeadersProofs`, `LayoutProofs`, `SymbolsProofs`, `JavaBindingProofs` | theorems about these modules | |

The data that one module abstracts is the subject of another. `PeLoader` has
the nine stages with every exit and every resource, and for what a file holds
the choice between those exits. The other modules have the contents, for one
PeFile and without failing allocations: `Headers` has what the first four
stages read, over the promise of `ByteStream`, which `FileIo` implements with
single reads; `Layout` and `Symbols` have the five stages after them. Each of
the three states under `StagesOfPeLoader` that its steps are those stages, so
that no exit of a stage is missing from `PeLoader`. `PeLoader` implements
`PeHandle`, which is what the Java binding sees of the library. "map" in
`PROJECT.json` gives the lines for each definition.

### PeLoader

A thread has a program counter `pc[t]` that names the call inside
`peloader_openEx`, `parsePeFile` or `cleanup` it makes next; one step is one
such call with what follows it up to the next. `pe[f]` is the `PeFile` object:
its file type, descriptor and callback, `importCount`, `exports`,
`sectionAllocation` and `sections`. Only the members that `cleanup`, `closeFile`
or a stage branches on are kept, with the values they tell apart. `fds`, `heap`,
`images` and `buffers` are the resources themselves, so that what a PeFile
*records* and what *exists* can disagree. `HostOpens` and `HostCloses` are the
rest of the process reusing descriptor numbers.

`new PeFile` and `new PeSection[n]` leave their members unwritten. A member
holds zero or is `Indeterminate`; reading an indeterminate one goes either way,
and following it makes `process` "undefined". `HeapContents` says which memory
an instance has: a glibc heap gives zeroed memory from the system and old
contents after a free.

`process = "undefined"` stands for undefined behaviour in the loader's *own
bookkeeping* that goes by a value: a pointer that was never set, a block deleted
twice. `cleanup` also deletes the array of exports, which comes from `new[]`
(`PeLoader.cpp:370`), with a plain `delete` (`PeLoader.cpp:64`): undefined on
every file with exports, whatever the memory held. `Release` goes both ways
there: the heap takes the block back, as common ones do, or the process is
"mismatched" and nothing is said of it any more. `DefinedBehaviour` and the run
`unset_members` are about the first kind, `HarmHasCause` is about both. What a
malformed file makes the loader do to its image is not part of it; where that
is decided by contents, `Layout` and `Symbols` have it.

### FileIo

A byte is the position it comes from. `Transfer` is one `read()` of any length
up to what was asked for, `EndOfFile` one that returns 0, `ReadError` one that
fails, `Copy` one memcpy from the buffer, which does not advance
`memFile.offset`; `Resize` is another process. `bufferPointer` aborts at the end
of the buffer, and so does the model. `size_t` wraps at `Word`. Seeks succeed or
fail as `lseek64` may; a seek in a buffer is refused behind its end.

### Headers

`stage` is the structure that `parsePeFile` reads next and `turn` the member of
the optional header, or the section, of the two loops of `parsePeHeaders`. A read
is `Read`, the call, and then one of the outcomes of `ByteStream`: `Deliver` or
`Refuse`. A byte is the position it comes from, so that "this member holds those
bytes of the file" can be said without contents; `members` and `table` are the
bytes stored. `peHeader` is what the file says of itself, any of a set.
`peAt`, where the PE header was found, is history for the properties. The sizes of the
structures are constants. `remaining` is a `uint16_t` and wraps at `Word`.

The file is a path: a buffer's read position does not advance, which is the
finding `io_memory`, and leaves nothing to say of the headers of one. It may be a
FIFO, where `lseek64` fails, and may change while it is read.

### Layout

`turn` is the loop variable and `stage` the loop: `Measure` and `Place` are one
turn of the two loops of `readSegments`, `MapSegments` the `mmap` between them,
`Relocate` one block, `ApplyPerms` one `mprotect`. The unit of addresses is a
cell of 8 bytes, what one relocation changes; a page is `PageSize` cells and a
32 bit sum wraps at `RvaLimit`. A cell's content is the address the linker gave
that cell, so the relocated image is right exactly when cells hold their own
address.

Not modelled here: relocations that are not aligned to 8 bytes or that straddle
a section, and sections of virtual size 0 in memory that is not zeroed
(`PeLoader` has those, as `MayBeUnsized`). A read past the mapping and a
relocation past it make `process` "undefined".

### Symbols

`slots` is the import table in the image, `imports` and `exports` are the arrays
of `include/internal.h`. `ParseExports` reads what it likes from `Behind` for
ordinals behind the end of their table. `PeloaderImport` is the whole handler:
its refusals, the comparison with a null name, the write and its fault when the
table lies in a read-only section. `calls` records the history of binds for the
properties and for nothing else.

The import tables of two descriptors are taken to be different memory, and the
RVAs of names to resolve; a missing import table is an empty one.

### JavaBinding

`PeHandle` is instantiated with one variable for each *address* the heap may
give a PeFile: `state[a]` is the life of the file at `a`, and once it is
"empty" again `a` may be given to the next file. `pointer[o]` is
`PeFileImpl::pointer`, set by `Wrap`, the constructor, and never cleared:
`Natives.peloader_close` lends the library a copy. An open is `Open`, an outcome
(`OpenSucceeds`, `OpenFails`) and `Wrap`, so that other threads open and close in
between; a list is `Count` and `Fill`, the two calls of the library. A call on an
address without an open file is undefined behaviour, `alive` = FALSE.

`harm` says how the process ended. The library may stop in any call on a file
that is sound, as `Stop` of `PeHandle` allows: `"library"`. An open may abort
(`PeLoader.cpp:450`), an open that fails and a close run `cleanup` over unwritten
members and an array of exports (`PeLoader.cpp:52-72`), and these are
`CallStops`; a bind may compare with a null name or write to a read-only slot
(`PeLoader.cpp:689, 699`), which `GoesWrong` has, in every method. What the
binding does wrong by itself is `"dangling"`, a call on an address without a
file; `"overrun"`, a list that is longer than its array; and `"nameless"`, a
module's null name that `modules` follows.

The host may close an object twice, or use it after or while it is closed.
`misused` and `ended` remember that, for the properties: Java's `PeFile` says
nothing about threads or a second `close`, so the properties tell a host that
keeps the discipline from one that does not.

## The runs

Every passing run explores the whole state space of its instance, with deadlock
checked. A specification that may stop has a `Terminating` action, so that the
model cannot stop anywhere else.

| Run | Question | Properties | Result |
|---|---|---|---|
| `lifecycle` | does each call of two threads that open and close files and buffers return, as `PeHandle` promises, with any stage failing? is a published file whole, a descriptor closed by its owner only? | `TypeOK` `PublishedIsUsable` `ClosedByOwner` `HandleSpec` | hold |
| `lifecycle_heap` | in memory with any contents and with refused options too: is everything given back, and once? what does undefined behaviour need? are the inductive invariants true? | `Exclusive` `SourceTracked` `SourceReleased` `BlocksTracked` `HeapReclaimed` `HarmHasCause` | hold |
| `io_reads` | are reads exact under short transfers, errors and a file that changes? | `TypeOK` `NoOverrun` `SourceInBounds` `ReadIsExact` `ShortReadMeansEnd` `ReadsEnd` `StreamSpec` | hold |
| `headers` | do the headers hold what the file has, for every size it may state and every way the reads may be split? | `TypeOK` `HeaderStaysInside` `MembersInPlace` `TableIsTheFile` `ParseEnds` `StagesOfPeLoader` | hold |
| `layout` | is the image the file, inside its mapping, with its permissions? are its exits those of `PeLoader`? | `TypeOK` `PlacedInside` `ImageIsTheFile` `StaysInMapping` `PermsAsAsked` `StagesOfPeLoader` | hold |
| `symbols` | do binds and lookups do what the header says? does the parser leave what `PeLoader` counts on? | `TypeOK` `LastBindWins` `ImportAnswers` `ListedIsBindable` `NamedExportsResolve` `StagesOfPeLoader` | hold |
| `java` | does an object have its own file while addresses are reused, and are lists whole? is what it hands to the library sound? | `TypeOK` `OwnsItsFile` `NoFileLost` `BindingHarmNeedsMisuse` `ListsAreWhole` | hold |
| `open_not_loaded` | is an opened file a loaded file? | `OpenedMeansLoaded` | violated |
| `image_leak` | does `cleanup` release the image? | `CleanupReleasesImage` | violated |
| `unset_members` | is memory that is not zeroed harmless? | `DefinedBehaviour` | violated |
| `io_memory` | does a read of a buffer that is too small fail? | `TooSmallIsError` | violated |
| `absent_name` | may a name be absent? | `LookupsAreDefined` | violated |

### Bounds

- *Threads, PeFiles, descriptors* (`MCPeLoader`): two threads with two PeFiles,
  in any assignment, so that a PeFile is used after another was deleted and by
  either thread. Threads share nothing but the descriptor table. `PeFiles`
  bounds the opens, each PeFile being allocated once; a fresh one carries nothing
  over. `lifecycle_heap` has two descriptors, so that both files and the host
  have one at a time, and memory of any contents. `lifecycle` has one, which is
  closed, taken over by the host or the other thread and closed again: liveness
  is checked without symmetry, and is dear.
- *Requests*: `lifecycle` passes what the header calls valid, and a wrong
  version, which is refused at once; the others that are refused read unwritten memory
  in `closeFile` and are in `lifecycle_heap`.
- *FileIo*: sources of up to 4 bytes, with offsets before, at and behind the
  end, and lengths of none, some, all and more of them; a read of 4 can be split
  in every way.
- *Headers*: structures of 2 bytes, the second member of the optional header of
  3, two data directories of 1. Stated sizes of the optional header are below its
  magic, its magic alone, cut in the middle of each kind of member, at their ends,
  all that is known, and more; zero to two sections; the PE header at one of two
  places. Each of the reads may be split in every way and end early.
- *Layout*: pages of 2 cells, RVAs below 8, so that a sum wraps; up to two
  sections of 0 to 3 cells at any of six places, in and out of order, apart,
  touching, overlapping and on a shared page, with raw data shorter and longer
  than they are; and five relocation tables, with a cell moved twice, blocks of
  two pages, an unknown type, a block outside the sections and one behind the
  end of the table.
- *Symbols*: up to two descriptors, of the same, of another and of no name, over
  six tables by name, by ordinal, of both, with an entry twice; every export
  directory of up to two addresses, named or not, with every ordinal table.
  `MaxCalls` = 2 binds, so that one can undo another.
- *JavaBinding*: two threads, three objects and two addresses, so that an address
  is given out again while a closed object still has it and both addresses may
  be in use; files that list nothing, and lists with a null name.

`SYMMETRY` is used only in runs without liveness: over threads, PeFiles,
descriptors but for 0, the addresses the host binds, and the objects and
addresses of `JavaBinding`, which nothing orders.

### Preconditions

`PlacedInside` and `StaysInMapping` hold for files whose sections end below
2^32 (`Fits`) and, for the latter, whose relocations name cells of the section
their block starts in (`TargetsInSections`); `ImageIsTheFile` and
`PermsAsAsked` also ask that sections share no cell and no page. A linker
writes such files. Files outside of these conditions are in the run and reach
"undefined", or an image that is not the file. `ListedIsBindable` excepts
modules with a function by ordinal before one by name, which is the finding of
`absent_name`; `NamedExportsResolve` excepts ordinal tables that do not count
up, which the TODO at `PeLoader.cpp:364` is about.

`TableIsTheFile` says for every file that the section headers are whole and
consecutive; that they start where the optional header ends it says for headers
of at most the size the loader knows, read without a short read, since the
loader neither skips the rest of a longer one nor seeks to the table.
`MembersInPlace` is about members whose predecessors are whole, for the same
reason.

`StagesOfPeLoader` of `Layout` is about files whose relocations, if there are
any, lie in a section with a size (`LayoutAssumption`): `relocateFile` looks them
up by their RVA and has nothing to do otherwise. That of `Symbols` is about files
with sections, where the tables are looked up in the same way.

`OwnsItsFile` and `ListsAreWhole` ask that the host misused no object so
far; `NoFileLost` asks nothing. `BindingHarmNeedsMisuse` is about what the binding
hands to the library, a `PeFile*` or an array: not about a host that closes an
object twice, nor about what the library does to a sound file. `OwnsItsFile` and
`ListsAreWhole` say nothing once the process is harmed in a call.

`HarmHasCause` excepts two things and names them: members that nobody wrote,
which is the finding of `unset_members`, and the delete of an array of exports.
It asks for such a cause where the harm is done, so in zeroed memory it leaves
the exports and a section without a size. A PeFile in memory that
is not zeroed keeps one such member to its end, as nothing writes
`sectionAllocation`, and the property then says nothing of its last stage;
`BlocksTracked` and `HeapReclaimed` still do.

`ImageIsTheFile` is about what relocation does to the sections. Between placing
and relocating them the loader also writes `unboundImport` into each import slot
(`parseImports`, `PeLoader.cpp:333`); these cells are left out, as the import
tables are in `Symbols`, apart from the image (see [Plan](#plan)).

`ReadIsExact` takes the start of a read of a buffer to be the offset as it
stands, which no read moves on: that consecutive reads return the same bytes is
in `io_memory` by its cause, and under "What was found".

### Fairness

`PeLoader` has `WF_vars(Step(t))` for each thread and nothing for `Call`, the
host or the environment: inside a call the library neither waits, locks nor
blocks, so a thread that is scheduled makes its next step; nobody is obliged to
call. `FileIo` has `WF_vars(ReadStep)` for the same reason: a `read()` of a
regular file returns. A FIFO or a device, where `read()` may wait for ever, is
outside of the claim. `Headers` has `WF_vars(Step)`, on the strength of what
`io_reads` shows of a read. `Layout`, `Symbols` and `JavaBinding` state no
liveness: each step of `Layout` but a stutter lowers a natural number
(`LoadingEnds`), `Symbols` parses a table in one step, and `JavaBinding` has no
loop.

`PeHandle` owes an answer only to a call in progress (`WF` on `Return`), and
`ByteStream` only to a read in progress, so what the two refinements show is
that a call ends in every way the loader can go.

## The proofs

All are for any number of threads, PeFiles, descriptors, Java objects and calls,
any set of requests, any heap contents, and any set of files of the record types
in `include/pefile.h`, whatever the length of a file, of a read or of a table.

| Theorem | Says |
|---|---|
| `PeLoaderProofs!TypeCorrect`, `CallsAreAlone` | `[](TypeOK /\ Exclusive)`, `[]Exclusive` |
| `PeLoaderProofs!SourceIsTracked`, `SourceIsReleased` | `[]SourceTracked`, `[]SourceReleased`: a descriptor is closed, and the callback of a buffer has run once, before the open returns |
| `PeLoaderProofs!CallsEnd` | `CallsMoveOn`: a call is over after 14 steps of its own |
| `PeLoaderHeapProofs!BlocksAreTracked`, `HeapIsReclaimed` | `[]BlocksTracked`, `[]HeapReclaimed` |
| `PeLoaderHeapProofs!PublishedFileIsUsable` | `[]PublishedIsUsable` |
| `PeLoaderHeapProofs!HarmAlwaysHasCause` | `[]HarmHasCause`: harm comes of members nobody wrote, or of the delete of an array of exports, in memory with any contents |
| `PeLoaderHeapProofs!ImagesAreKept` | `ImagesKept`: no step unmaps an image |
| `PeLoaderHostProofs!OwnersCloseDescriptors` | `ClosedByOwner`: no step closes a descriptor of the host or of another PeFile, if every request names a path or a buffer |
| `PeLoaderHostProofs!LoaderKeepsPromise` | the initial states and steps of `PeLoader` are those of `PeHandle`, for such requests |
| `FileIoProofs!IoTypes`, `ReadsDoNotOverrun`, `CopiesStayInSource`, `ReadsAreExact`, `ShortReadsMeetTheEnd` | the five safety properties of `FileIo` |
| `FileIoProofs!ReadsAreFinite` | `ReadMovesOn`: each step of a read ends it or leaves less of it |
| `FileIoProofs!PathIsAStream` | the initial states and steps of a path are those of `ByteStream` |
| `HeadersProofs!HeaderTypes`, `OptionalHeaderStaysInside`, `MembersAreInPlace`, `TableIsFromFile` | `[]TypeOK`, `[]HeaderStaysInside`, `[]MembersInPlace`, `[]TableIsTheFile` |
| `HeadersProofs!HeadersAreStages` | `StagesOfPeLoader`: a step of `Headers` is one of the four stages of `PeLoader` or a stutter |
| `HeadersProofs!ParseIsFinite` | `ParseMovesOn`: each step ends its stage or lowers a natural number |
| `LayoutProofs!LayoutCorrect` | `[](TypeOK /\ Extents)` |
| `LayoutProofs!SectionsLieInside`, `LoadingStaysInMapping` | `[]PlacedInside`, `[]StaysInMapping` |
| `LayoutProofs!LoadedAsAsked`, `ImageIsFromFile` | `[]PermsAsAsked`, `[]ImageIsTheFile` |
| `LayoutProofs!LayoutIsStages` | `StagesOfPeLoader`: a step of `Layout` is `readSegments`, `relocateFile` or `applySegmentPerms` of `PeLoader`, the gap where the tables are parsed, or a stutter |
| `LayoutProofs!LoadingEnds` | `LoadingMovesOn`: each step lowers a natural number |
| `SymbolsProofs!SymbolTypes`, `LastBindStays`, `AnswersAreTrue`, `ListedCanBeBound`, `NamesResolve` | the five invariants of `Symbols` |
| `SymbolsProofs!SymbolsAreStages` | `StagesOfPeLoader`: a step of `Symbols` is `parseImports` or `parseExports` of `PeLoader` or a stutter |
| `JavaBindingProofs!BindingTypes`, `ObjectOwnsItsFile`, `FilesAreNotLost`, `BindingHarmIsMisuse`, `ListsAreComplete` | `[]TypeOK`, `[]OwnsItsFile`, `[]NoFileLost`, `[]BindingHarmNeedsMisuse`, `[]ListsAreWhole` |

Assumptions, each named in the module that declares the constants and evaluated
by TLC in its runs: `LoaderAssumption` (descriptor 0 is a descriptor, the marker
values are not PeFiles or descriptors), `LayoutAssumption` (positive sizes,
page-aligned non-null bases, relocations that lie in a section), `IoAssumption` and `HeadersAssumption` (lengths and
sizes are naturals, sizes fit in 16 bits), `SymbolAssumption` (the tables of a
file are sequences, an entry has a name or an ordinal), `BindingAssumption` (the
lists of a file are sequences). Two theorems about `PeLoader` assume more, in
their statement: requests with a source. Without that the statement is false, as
"What was found" shows.

**PeLoader: the source.** `TypeOK` alone is not inductive: a step of one thread
could write the PeFile of another. `Exclusive` adds who works on which PeFile: a
call has one, no other thread has it in a call or in its variable, and only its
own close works on a file the host holds. With it, `SourceTracked` is inductive:
what a PeFile records of its source (its type, its descriptor, its callback) is
true of `fds` and `buffers`, and one call exists that is to give it back. The
second half is needed because `SourceReleased` is about what exists while
`closeFile` sees only what is recorded; the case that takes work is the second
`closeFile`, where the record says closed and the invariant gives that nothing
is held. In zeroed and in unzeroed memory alike: a `File` whose type was never
written may be anything, but then the PeFile owns nothing yet. Each lemma
`...Step`, `...Call`, `...Host` takes one part of `Next`, with a step per action.

**PeLoader: the heap.** `BlocksTracked` ties the blocks that exist to the members
that record them and to the stages that are done, so that what the loops of
`cleanup` walk is what there is to delete; `HeapReclaimed` and
`PublishedIsUsable` follow. So does what harm needs (`HarmHasCause`): a member that
was written names a block that is there, and a count that was written comes with
the array it counts (`CountsHaveArrays`), so a stage that harms the process
relies on another member (`HarmStep`), or is the delete of an array of exports.
After the harm nothing moves (`HarmRest`).

That no image is unmapped (`ImagesKept`) is what `cleanup` does with a member
that nothing sets: the invariant `ImagesUnnamed` says that no PeFile ever holds
its mapping in `sectionAllocation`, so the leak that `image_leak` shows of one
file is that of all of them.

**PeLoader: its host.** A descriptor the loader closes is its own: a PeFile with a
source has a descriptor that is open for it (`DescriptorsOwned`), which a step
closes once and by the thread that works on that PeFile; `Exclusive` gives that
there is one such thread (`OwnerStep`). For the promise of `PeHandle`, a step of
`PeLoader` maps to a step of the handle or to a stutter; what takes an invariant
is that a call answers a negative number only when it failed
(`FailureIsNegative`), and that the positive error of a missing source does not
occur.

**FileIo.** `ReadIsExact` is about the end of a read, so the invariant says what
each step of the loop has: for a path, that the bytes stored are those from the
start of the read to the offset of the descriptor (`OnPath`); for a buffer, that
the offset is where the read starts, and that what was stored is the whole read
if the buffer has it (`InMemory`). The step
mapping to `ByteStream` uses the same: a transfer that the loop goes on after is
a stutter, the end of the loop delivers all that was transferred, an error or an
end of the file under `readFully` refuses, with the position behind the bytes
that are not reported.

**Headers.** The invariant ties the position in the file to what is left of the
optional header (`OptionalInTurn`), to the section that is read (`SectionInTurn`)
and to where the table starts. The 16 bit count of what is left cannot wrap as
each read is limited to it. For the mapping to the stages of `PeLoader` it gives
that the table is not stored before the last stage, so that what is read until
then changes nothing `PeLoader` sees.

**Layout.** `PlacedInside` is about the final extent, and is proved from
`Extents`: while the first loop runs, the running minimum and maximum cover the
sections measured so far, and after it the allocation covers them all; sizes
agree with the table; every set pointer has the one distance from its virtual
address. Arithmetic on `\div` is in one lemma, `RoundUp`. `StaysInMapping` needs
`AllPlaced` as well: from the relocations on, each section that has a size has
its pointer, so that an RVA that resolves does so into the mapping; the choice
of the first section in `ResolveRvaSection` is justified by `Least`, the least
element of a nonempty set of naturals.

`PermsAsAsked` is kept by a loop that may protect a page twice, so the invariant
`PermsSoFar` says of each section before the turn that its pages are mapped and
have its permissions. A later section leaves them alone: both start at a page,
sections that share no page in the file share no cell (`CellsApart`), and ranges
of cells that follow each other and start at a page share no page in the mapping
(`PagesApart`), wherever `mmap` put it.

`ImageIsTheFile` counts, for each cell, the relocation entries that name it. The
invariant `Filled` says what every cell of a section holds in each loop. A turn
of the second loop stores in one section, and `SectionsApart` keeps the others;
a block of relocations moves every cell by the one distance all sections have
(`BlockMoves`), as often as the block names it (`OneMoreBlock`, with the
cardinalities of `FiniteSetTheorems`), whichever section the entry is in. That an
RVA resolves to its own section (`ResolvesTo`) needs sections that do not overlap.

**The stages of PeLoader.** The mapping takes `stage` to the program counter and
what has been stored to the members and blocks. A turn of a loop that goes on is
a stutter; the last turn, a refusal and an abort are the stage. The work is in
the conditions under which `PeLoader` has an exit: `relocateFile` fails or aborts
only if a data directory can resolve, hence the assumption on relocations; an
array of `Symbols` comes with its count and its blocks, or with none. What a
malformed file makes the loader do to its image is an outcome `PeLoader` leaves
out, as said above.

**Termination.** What can be proved of it here is that no step leads back. For
each of the four programs with a loop or a chain of stages there is a number that
a step lowers unless it leaves the stage or the call: the stages a call has
before it (`CallsMoveOn`), the structures still to be read (`ParseMovesOn`), the
turns and blocks still to come (`LoadingMovesOn`; the relocation table is a finite sequence of blocks, as one of
size or address 0 ends the loop at `PeLoader.cpp:415` and any other moves on by its size), the bytes of a read that are
not stored yet (`ReadMovesOn`, where a resize of the file by someone else takes
no step of the read). That these are natural numbers takes an invariant: no loop
goes beyond its table and no read beyond its length. Together with the liveness
TLC checks, which says that a step is always possible, that is the end of every
call.

**Symbols.** `Denotes` says which slot the documentation means; the code has loops
that stop at the first match. `Denoted` shows that they agree, from `FirstOf`:
what `SelectInSeq` returns is the least of the matches. An import then changes
the one slot it denotes, and `LastBoundAppend` shows that the history does the
same: an appended call is the last for the slot it denotes and changes nothing
for the others. `ListedCanBeBound` needs that an entry has a name or an ordinal
and never both (`NameOrOrdinal`); `NamesResolve` needs no more of the ordinals
behind the end of the table than that they come after those of the names.

**JavaBinding.** An address can go to another file after a close. A file that
exists is at the pointer of the object it was opened for, or in the call that is
to make that object (`Placed`), so no file is lost; and as long as nothing was
misused, each object that is not closed has its own file open at its pointer
(`Kept`), so a list counted in one call is as long in the next and no pointer
dangles. Where the library stops inside a call (`GoesWrong`, `CallStops`) nothing
but `alive` and `harm` changes.

Only model-checked: `ReadsEnd`, `ParseEnds` and the fairness half of `HandleSpec`
and `StreamSpec`, as the prover has no liveness and no `ENABLED`. Of these, that
a loop gets nearer to its end is proved; that it takes its steps, and does not
block between two of them, is not. Every safety and action property the runs
check and hold is proved.

## What was found

With a run (kind, line and quotation are under "findings" in `PROJECT.json`):

- **A file that is not PE32+ opens with 0** (`PeLoader.cpp:523`): the error is
  positive, the test is for negative ones, the next stage overwrites it.
- **The image is never unmapped** (`PeLoader.cpp:267`): `sectionAllocation` is
  not stored anywhere. `ImagesAreKept` proves it of every image.
- **Members nobody wrote are read** (`PeLoader.cpp:570`): in memory that is not
  zeroed, failing opens and the close of a file without imports or exports walk
  and delete what the memory held.
- **Reads of a buffer repeat** (`io.cpp:146`): the offset does not advance, so a
  read that is too long, and every second read, returns the same bytes again.
  The magic of the optional header is then read as the first bytes of the PE
  header, so a file in memory is never loaded and, if the memory of its PeFile
  was zero, opens with 0.
- **A name compared with null** (`PeLoader.cpp:689`): looking an import up by
  name on a module with a function by ordinal before it.

Seen while modelling, without a run of their own:

- `peloader_openEx` returns `EINVAL`, not `-EINVAL`, for a null path or buffer
  (`PeLoader.cpp:576, 588`); the model has code "positive" there.
- When `open()` fails, `cleanup` closes descriptor -1 before
  `return -errno` (`PeLoader.cpp:579-581`): the error answered is that of the
  `close`, EBADF, whatever the reason was. The model has one negative error.
- `fileSeek` answers `-errno` (`io.cpp:101`), its comment says "-1 on error"
  (`io.cpp:95`) and its caller tests for that (`PeLoader.cpp:502`). On a FIFO
  the PE header is read from behind the DOS header; `Headers` has that path.
- An optional header longer than the members the loader knows is not skipped,
  though the sections are said to be "right after the PE header"
  (`PeLoader.cpp:186`): the table is then read from the rest of it. `Headers` has
  such files, and `TableIsTheFile` excepts them in its last part.
- `numberOfRvaAndSizes` is not looked at: sixteen directories are read if the
  optional header is as long.
- In zeroed memory a refused open (`PeLoader.cpp:575, 587, 598`) closes
  descriptor 0: type 0 is `TYPE_FILE`. `ClosedByOwner` is therefore checked
  for valid requests.
- The array for an import directory without descriptors is not deleted, as
  `cleanup` tests `importCount` (`PeLoader.cpp:55`): excepted in
  `HeapReclaimed`.
- `peloader_import` writes after `applySegmentPerms` (`PeLoader.cpp:699`) and
  faults when the import table is in a read-only section.
- `cleanup` deletes the array of exports as one object: `delete` at
  `PeLoader.cpp:64`, `new PeExportedFunction[count]` at `PeLoader.cpp:370`. It is
  undefined on every file with an export directory; the arrays of imports and
  sections go by `delete[]`. `Release` has both outcomes, and `HarmHasCause`
  excepts it by name.
- `PeFileImpl.close` keeps its pointer (`Natives.java:41-49`): a second `close`
  frees the file again or, when the heap has given its address away, closes the file of
  another object. In `java` this is a misuse, which `OwnsItsFile` and
  `BindingHarmNeedsMisuse` tell apart.
- `modules()` follows a null name (`PeFileImpl.java:89`), which the library gives
  a module whose name resolves to no section (`PeLoader.cpp:302`): `harm` is then
  "nameless".
- `peloader_close` on a variable that holds null follows it
  (`PeLoader.cpp:619`); the model calls it on files that are open.
- An extent that is a whole number of pages gets one page more
  (`PeLoader.cpp:226`); a file without any section maps a page and a byte.

## What is not modelled

- `PeSymbol.java`, the accessors of a symbol's fields, and the loading of the
  library in `Natives`; the helper for reflection and the Java test program.
  They hold no state of the system.
- Headers in a buffer, as said above; the values in the headers other than
  the sizes and counts, which decide nothing until the tables are followed.
- Allocation failure: `new` throws through the C interface, and `cleanup` would
  not run. The model has no such outcome.
- Two threads on *one* PeFile. Nothing in the library or its documentation
  allows it.
- Code in the image, calling conventions, the test programs and build files.

## Plan

Done: every module of the table above with its runs, and the theorems above.
Left:

1. A buffer as the source of `Headers`: it needs a promise of its own beside
   `ByteStream`, as reads of a buffer repeat.
2. `Symbols` over the image of `Layout`: the import table is read from cells that
   were relocated, and written to by `peloader_import` after the permissions are
   set, which decides whether that write faults.
