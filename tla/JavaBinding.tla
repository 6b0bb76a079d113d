----------------------------- MODULE JavaBinding -----------------------------
(***************************************************************************)
(* The Java binding as a client of the promise in PeHandle: a PeFileImpl   *)
(* is a record around a copy of a PeFile*, which nothing clears when the   *)
(* file is closed, while the heap may give its address to the next file.   *)
(* Several Java threads open files, bind and look up symbols, list modules *)
(* and symbols in two calls of the library, and close.                     *)
(*                                                                         *)
(* The host may do anything; `misused` remembers that it closed an object  *)
(* twice, or called one after or during its close. The library may take    *)
(* the process down in any call, as Stop of PeHandle says; `harm` tells    *)
(* that from what the binding itself hands to the library.                 *)
(***************************************************************************)
EXTENDS Integers, Sequences

CONSTANTS
    Threads,     \* Java threads
    Objects,     \* one for each PeFileImpl ever made: bounds the opens
    Addresses,   \* where the heap may place a PeFile
    Files,       \* what a PE file may list, for each kind in Lists
    NULL         \* MemorySegment.NULL

Lists == {"modules", "symbols"}
None  == "none"

Harms ==
    {"none",
     "dangling",   \* the library followed a PeFile* to no file
     "overrun",    \* the library wrote behind an array of the binding
     "nameless",   \* the binding followed the null name of a module
     "library"}    \* the library stopped on a file that is there: a null name
                   \* compared, a read-only slot written, an abort, members
                   \* nobody wrote, the array of exports deleted as an object

ASSUME BindingAssumption ==
    /\ {NULL, None} \cap (Objects \cup Addresses) = {}
    /\ \A f \in Files : DOMAIN f = Lists
    /\ \A f \in Files, k \in Lists :
          f[k] \in Seq({f[k][i] : i \in DOMAIN f[k]})

VARIABLES
    state, answer, alive,   \* the library: PeHandle, with an address for each
                            \* PeFile*; alive until the process is harmed
    harm,       \* how: one of Harms
    owner,      \* the object the file at each address was opened for
    contents,   \* what that file lists
    bound,      \* the object that file's imports were last bound through
    pointer,    \* PeFileImpl::pointer
    call,       \* the call each thread is in
    list,       \* the list each thread was given last
    ended,      \* the objects close was called on
    misused

libraryVars == <<state, answer, alive, harm>>
fileVars == <<owner, contents, bound>>
hostVars == <<ended, misused>>
vars == <<libraryVars, fileVars, pointer, call, list, hostVars>>

Library == INSTANCE PeHandle WITH Threads <- Addresses

\* file is the PeFile the library works on, cell the PeFile* it was lent.
Idle == [at |-> "idle", object |-> None, file |-> None, cell |-> NULL,
         kind |-> None, count |-> 0]

Init ==
    /\ Library!Init
    /\ harm = "none"
    /\ owner = [a \in Addresses |-> None]
    /\ contents = [a \in Addresses |-> [k \in Lists |-> <<>>]]
    /\ bound = [a \in Addresses |-> None]
    /\ pointer = [o \in Objects |-> None]
    /\ call = [t \in Threads |-> Idle]
    /\ list = [t \in Threads |-> <<>>]
    /\ ended = {}
    /\ misused = FALSE

Return(t) == call' = [call EXCEPT ![t] = Idle]

\* The process is harmed inside a call.
Harm(how) ==
    /\ Library!Stop
    /\ harm' = how
    /\ UNCHANGED <<fileVars, call, list>>

-----------------------------------------------------------------------------
(* PeLoaderImpl.open *)

\* peloader_open gets a fresh cell, and allocates.
Open(t, o, a) ==
    /\ call[t] = Idle
    /\ pointer[o] = None
    /\ \A u \in Threads : call[u].object # o
    /\ Library!Call(a)
    /\ owner' = [owner EXCEPT ![a] = o]
    /\ call' = [call EXCEPT ![t].at = "opening", ![t].object = o,
                            ![t].file = a]
    /\ UNCHANGED <<harm, contents, bound, pointer, list, hostVars>>

\* MUTANT: one cell is kept for all calls.
StoredShared(t, a) ==
    [u \in Threads |-> IF call[u].at \in {"opening", "opened"}
                       THEN [call[u] EXCEPT !.cell = a] ELSE call[u]]

\* *result = file, in the cell of this call.
Stored(t, a) == [call EXCEPT ![t].cell = a]

OpenSucceeds(t) ==
    LET a == call[t].file IN
    /\ call[t].at = "opening"
    /\ Library!Succeed(a)
    /\ \E f \in Files : contents' = [contents EXCEPT ![a] = f]
    /\ bound' = [bound EXCEPT ![a] = None]
    /\ call' = [Stored(t, a) EXCEPT ![t].at = "opened"]
    /\ UNCHANGED <<harm, owner, pointer, list, hostVars>>

\* MUTANT: a result below 0 is not looked at.
ThrowUnchecked(t) == call' = [call EXCEPT ![t].at = "opened"]

\* result < 0 is an IOException, and no object is made.
Throw(t) == Return(t)

OpenFails(t) ==
    LET a == call[t].file IN
    /\ call[t].at = "opening"
    /\ Library!Fail(a)
    /\ owner' = [owner EXCEPT ![a] = None]
    /\ Throw(t)
    /\ UNCHANGED <<harm, contents, bound, pointer, list, hostVars>>

\* new PeFileImpl(pointer.get(ADDRESS, 0))
Wrap(t) ==
    /\ alive
    /\ call[t].at = "opened"
    /\ pointer' = [pointer EXCEPT ![call[t].object] = call[t].cell]
    /\ Return(t)
    /\ UNCHANGED <<libraryVars, fileVars, list, hostVars>>

-----------------------------------------------------------------------------
(* PeFileImpl *)

\* The host calls a method of o, which it must not do once o is closed.
Enter(t, o) ==
    /\ alive
    /\ call[t] = Idle
    /\ pointer[o] # None
    /\ misused' = (misused \/ o \in ended)
    /\ UNCHANGED <<pointer, ended>>

\* A PeFile* leads to a file that is open.
IsOpen(a) == a \in Addresses /\ state[a] = "open"

\* A call of the library on the PeFile* at a goes wrong: there is no file, or the
\* library stops on the one there is.
GoesWrong(a) ==
    \/ ~IsOpen(a) /\ Harm("dangling")
    \/ IsOpen(a) /\ Harm("library")

\* The import is bound, or there is none and an UnsatisfiedLinkError is thrown.
BindImport(t, o) ==
    LET a == pointer[o] IN
    /\ Enter(t, o)
    /\ \/ /\ IsOpen(a)
          /\ bound' \in {bound, [bound EXCEPT ![a] = o]}
          /\ UNCHANGED <<libraryVars, owner, contents, call, list>>
       \/ GoesWrong(a)

\* The library writes the address of the export into the host's symbol.
Export(t, o) ==
    LET a == pointer[o] IN
    /\ Enter(t, o)
    /\ \/ IsOpen(a) /\ UNCHANGED <<libraryVars, fileVars, call, list>>
       \/ GoesWrong(a)

\* MUTANT: one entry less is allocated.
AllocatedShort(count) == count - 1

\* MUTANT: one entry more is allocated, as for a terminator.
AllocatedTerminated(count) == count + 1

\* arena.allocate(layout, count)
Allocated(count) == count

\* modules, imports and exports count first. An empty list is returned at once; a
\* count below 0 throws and changes nothing.
Count(t, o, kind) ==
    LET a == pointer[o]
        count == Len(contents[a][kind])
    IN
    /\ Enter(t, o)
    /\ \/ /\ IsOpen(a) /\ count = 0
          /\ list' = [list EXCEPT ![t] = <<>>]
          /\ UNCHANGED <<libraryVars, fileVars, call>>
       \/ /\ IsOpen(a) /\ count > 0
          /\ call' = [call EXCEPT ![t] =
                         [Idle EXCEPT !.at = "filling", !.object = o, !.file = a,
                                      !.kind = kind, !.count = Allocated(count)]]
          /\ UNCHANGED <<libraryVars, fileVars, list>>
       \/ GoesWrong(a)

\* And fill what they allocated, which arrives zeroed, in a second call. The
\* library writes as many entries as it has; modules follows each pointer.
Fill(t) ==
    LET c == call[t]
        entries == contents[c.file][c.kind]
        items == [i \in 1..c.count |->
                     IF i <= Len(entries) THEN entries[i] ELSE NULL]
        fits == Len(entries) <= c.count
        follows == c.kind = "modules" => \A i \in 1..c.count : items[i] # NULL
    IN
    /\ alive
    /\ c.at = "filling"
    /\ \/ /\ IsOpen(c.file) /\ fits /\ follows
          /\ list' = [list EXCEPT ![t] = items]
          /\ Return(t)
          /\ UNCHANGED <<libraryVars, fileVars>>
       \/ IsOpen(c.file) /\ ~fits /\ Harm("overrun")
       \/ IsOpen(c.file) /\ fits /\ ~follows /\ Harm("nameless")
       \/ GoesWrong(c.file)
    /\ UNCHANGED <<pointer, hostVars>>

\* Natives.peloader_close gets a cell of its own with a copy of the pointer.
Close(t, o) ==
    LET a == pointer[o] IN
    /\ alive
    /\ call[t] = Idle
    /\ a # None
    /\ misused' = \/ misused
                  \/ o \in ended
                  \/ \E u \in Threads : call[u].object = o
    /\ ended' = ended \cup {o}
    /\ \/ /\ Library!Close(a)
          /\ call' = [call EXCEPT ![t].at = "closing", ![t].object = o,
                                  ![t].file = a]
          /\ UNCHANGED <<harm, fileVars, list>>
       \/ ~IsOpen(a) /\ Harm("dangling")
    /\ UNCHANGED pointer

\* The cell is cleared and the PeFile deleted; the pointer of o stays.
CloseReturns(t) ==
    LET a == call[t].file IN
    /\ call[t].at = "closing"
    /\ Library!Closed(a)
    /\ owner' = [owner EXCEPT ![a] = None]
    /\ Return(t)
    /\ UNCHANGED <<harm, contents, bound, pointer, list, hostVars>>

\* The library stops in a stage of the open, or in the cleanup that a failed open
\* and a close end with: no result is seen.
CallStops(t) ==
    /\ call[t].at \in {"opening", "closing"}
    /\ Harm("library")
    /\ UNCHANGED <<pointer, hostVars>>

-----------------------------------------------------------------------------

\* The process is gone, or every object of the bound was made and closed.
Terminating ==
    /\ alive => ended = Objects
    /\ UNCHANGED vars

Next ==
    \/ \E t \in Threads :
          \/ \E o \in Objects :
                \/ \E a \in Addresses : Open(t, o, a)
                \/ BindImport(t, o) \/ Export(t, o) \/ Close(t, o)
                \/ \E kind \in Lists : Count(t, o, kind)
          \/ OpenSucceeds(t) \/ OpenFails(t) \/ Wrap(t)
          \/ Fill(t) \/ CloseReturns(t) \/ CallStops(t)
    \/ Terminating

Spec == Init /\ [][Next]_vars

-----------------------------------------------------------------------------
(* Properties *)

\* Every variable stays in its range; a PeFileImpl has a pointer, as its
\* @NotNull says.
TypeOK ==
    /\ state \in [Addresses -> Library!States]
    /\ answer \in [Addresses -> Library!Answers]
    /\ alive \in BOOLEAN
    /\ harm \in Harms
    /\ alive <=> harm = "none"
    /\ owner \in [Addresses -> Objects \cup {None}]
    /\ contents \in [Addresses -> Files \cup {[k \in Lists |-> <<>>]}]
    /\ bound \in [Addresses -> Objects \cup {None}]
    /\ pointer \in [Objects -> Addresses \cup {None}]
    /\ \A t \in Threads :
          /\ call[t].at \in {"idle", "opening", "opened", "filling", "closing"}
          /\ call[t].at = "idle" => call[t] = Idle
    /\ ended \subseteq Objects
    /\ misused \in BOOLEAN

\* As long as the host closes each object once and last, an object that is not
\* closed has its own file: open, at its pointer, bound through no other
\* object, whichever addresses the heap has given out again.
OwnsItsFile ==
    ~misused =>
       \A o \in Objects \ ended :
          pointer[o] # None =>
             /\ IsOpen(pointer[o])
             /\ owner[pointer[o]] = o
             /\ bound[pointer[o]] \in {o, None}

\* No file is lost: one that exists belongs to the object around its address,
\* or to the call that is about to make that object. Misuse does not change it.
NoFileLost ==
    \A a \in Addresses :
       state[a] # "empty" =>
          \/ pointer[owner[a]] = a
          \/ \E t \in Threads : /\ call[t].at \in {"opening", "opened"}
                                /\ call[t].object = owner[a]

\* What the binding hands to the library is sound unless the host misused an
\* object: each PeFile* leads to a file that is open, and no list is longer than
\* the array that was allocated for it when it was counted.
BindingHarmNeedsMisuse == harm \in {"dangling", "overrun"} => misused

\* A list that took two calls has what the file of its object lists, all of it
\* and nothing else, unless the host misused an object.
ListsAreWhole ==
    [][\A t \in Threads :
          call[t].at = "filling" /\ call'[t] = Idle /\ ~misused =>
             LET a == pointer[call[t].object] IN
             /\ owner[a] = call[t].object
             /\ list'[t] = contents[a][call[t].kind]]_vars

=============================================================================
