------------------------------- MODULE FileIo -------------------------------
(***************************************************************************)
(* The File of include/io.h and its operations in source/io.cpp: seeking,  *)
(* reading and closing a path or a buffer. One step is one system call or  *)
(* one memcpy; the loop of readPartially runs until the length is reached, *)
(* read() returns 0 or read() fails. The file behind a path may be made    *)
(* longer or shorter by someone else between two system calls.             *)
(*                                                                         *)
(* A byte is the position it comes from, so that a buffer holds the right  *)
(* bytes when it holds consecutive positions.                              *)
(***************************************************************************)
EXTENDS Integers, Sequences, FiniteSetsExt

CONSTANTS
    Backends,   \* which of "TYPE_FILE", "TYPE_BUFFER" are opened
    MaxSize,    \* bound on the size of the source
    Offsets,    \* the offsets callers seek to
    Lengths     \* the lengths callers read

ASSUME IoAssumption ==
    /\ Backends \subseteq {"TYPE_FILE", "TYPE_BUFFER"}
    /\ MaxSize \in Nat \ {0}
    /\ Offsets \subseteq Nat
    /\ Lengths \subseteq Nat

VARIABLES
    backend,   \* how the File was opened
    fileType,  \* its type now
    size,      \* the size of the file, or memFile.length
    offset,    \* the descriptor's offset, or memFile.offset
    pc,        \* "idle", "reading" (in readPartially) or "aborted"
    start,     \* where the caller expects the read to begin
    length,    \* the length of the read
    fully,     \* the read was asked for by readFully
    buffer,    \* the bytes the read has stored so far
    answer     \* what the last call returned

readVars == <<start, length, fully, buffer>>
vars == <<backend, fileType, size, offset, pc, start, length, fully, buffer,
          answer>>

\* size_t wraps; its width is abstracted to the least that tells a wrap.
Word == 4 * MaxSize

\* The n bytes from position p on.
Bytes(p, n) == [i \in 1..n |-> p + i - 1]

\* openFile and openMemory, which refuses an empty buffer.
Init ==
    /\ backend \in Backends
    /\ fileType = backend
    /\ size \in 0..MaxSize
    /\ backend = "TYPE_BUFFER" => size > 0
    /\ offset = 0
    /\ pc = "idle"
    /\ start = 0
    /\ length = 0
    /\ fully = FALSE
    /\ buffer = <<>>
    /\ answer = "none"

-----------------------------------------------------------------------------
(* Seeking *)

\* MUTANT: a buffer is positioned anywhere.
SeekSucceedsAnywhere(o) ==
    /\ fileType # "TYPE_CLOSED"
    /\ offset' = o

\* fileSeek: a path may be positioned behind its end, a buffer at its end.
SeekSucceeds(o) ==
    /\ fileType # "TYPE_CLOSED"
    /\ fileType = "TYPE_BUFFER" => o <= size
    /\ offset' = o

\* lseek64 may fail for reasons of its own.
SeekFails(o) ==
    /\ fileType = "TYPE_BUFFER" => o > size
    /\ answer' = "error"
    /\ UNCHANGED offset

FileSeek(o) ==
    /\ pc = "idle"
    /\ \/ SeekSucceeds(o) /\ answer' = "ok"
       \/ SeekFails(o)
    /\ buffer' = <<>>
    /\ UNCHANGED <<backend, fileType, size, pc, start, length, fully>>

-----------------------------------------------------------------------------
(* Reading *)

\* The call of readPartially, by itself or by readFully.
Begin(from, n, all) ==
    /\ pc' = "reading"
    /\ start' = from
    /\ length' = n
    /\ fully' = all
    /\ buffer' = <<>>
    /\ answer' = "none"

\* readPartially and the readFully without an offset.
ReadPartially(n) ==
    /\ pc = "idle"
    /\ Begin(offset, n, FALSE)
    /\ UNCHANGED <<backend, fileType, size, offset>>

ReadFully(n) ==
    /\ pc = "idle"
    /\ Begin(offset, n, TRUE)
    /\ UNCHANGED <<backend, fileType, size, offset>>

\* MUTANT: the result of fileSeek is not looked at.
ReadFullyAtUnchecked(o, n) ==
    /\ pc = "idle"
    /\ offset' \in {o, offset}
    /\ Begin(o, n, TRUE)
    /\ UNCHANGED <<backend, fileType, size>>

\* readFully with an offset: nothing is read when the seek fails.
ReadFullyAt(o, n) ==
    /\ pc = "idle"
    /\ \/ SeekSucceeds(o) /\ Begin(o, n, TRUE)
       \/ SeekFails(o) /\ buffer' = <<>> /\ UNCHANGED <<pc, start, length, fully>>
    /\ UNCHANGED <<backend, fileType, size>>

\* Another turn of the loop.
MoreToRead == pc = "reading" /\ Len(buffer) < length

\* The return of readPartially, and of readFully, which wants all of it.
Return(got) ==
    /\ pc' = "idle"
    /\ answer' = IF fully /\ Len(got) # length THEN "error" ELSE "ok"
    /\ buffer' = got
    /\ UNCHANGED <<backend, fileType, size, start, length, fully>>

\* MUTANT: a transfer of any length ends the read.
TransferOnce ==
    /\ MoreToRead
    /\ fileType = "TYPE_FILE"
    /\ \E n \in 1..Min({length - Len(buffer), size - offset}) :
          /\ Return(buffer \o Bytes(offset, n))
          /\ offset' = offset + n

\* MUTANT: every system call asks for the whole length again.
TransferLength ==
    /\ MoreToRead
    /\ fileType = "TYPE_FILE"
    /\ \E n \in 1..Min({length, size - offset}) :
          /\ buffer' = buffer \o Bytes(offset, n)
          /\ offset' = offset + n
    /\ UNCHANGED <<backend, fileType, size, pc, start, length, fully, answer>>

\* read() stores as many bytes as it likes and advances the descriptor.
Transfer ==
    /\ MoreToRead
    /\ fileType = "TYPE_FILE"
    /\ \E n \in 1..Min({length - Len(buffer), size - offset}) :
          /\ buffer' = buffer \o Bytes(offset, n)
          /\ offset' = offset + n
    /\ UNCHANGED <<backend, fileType, size, pc, start, length, fully, answer>>

\* read() returns 0, which ends the loop.
EndOfFile ==
    /\ MoreToRead
    /\ fileType = "TYPE_FILE"
    /\ offset >= size
    /\ Return(buffer)
    /\ UNCHANGED offset

\* read() fails, EINTR included, or the File is closed: what was stored so far
\* is not reported.
ReadError ==
    /\ MoreToRead
    /\ fileType \in {"TYPE_FILE", "TYPE_CLOSED"}
    /\ pc' = "idle"
    /\ answer' = "error"
    /\ UNCHANGED <<backend, fileType, size, offset, readVars>>

BufferRemaining == (size - offset) % Word

\* MUTANT: the copy starts at the start of the buffer.
CopyFromStart ==
    /\ MoreToRead
    /\ fileType = "TYPE_BUFFER"
    /\ BufferRemaining > 0
    /\ LET n == Min({length - Len(buffer), BufferRemaining}) IN
          buffer' = buffer \o Bytes(0, n)
    /\ UNCHANGED <<backend, fileType, size, offset, pc, start, length, fully,
                   answer>>

\* MUTANT: what was copied does not count as transferred.
CopyUncounted ==
    /\ MoreToRead
    /\ fileType = "TYPE_BUFFER"
    /\ BufferRemaining > 0
    /\ UNCHANGED vars

\* memcpy from the buffer; memFile.offset stays where it is.
Copy ==
    /\ MoreToRead
    /\ fileType = "TYPE_BUFFER"
    /\ BufferRemaining > 0
    /\ LET n == Min({length - Len(buffer), BufferRemaining}) IN
          buffer' = buffer \o Bytes(offset, n)
    /\ UNCHANGED <<backend, fileType, size, offset, pc, start, length, fully,
                   answer>>

\* bufferPointer aborts when nothing remains.
Abort ==
    /\ MoreToRead
    /\ fileType = "TYPE_BUFFER"
    /\ BufferRemaining = 0
    /\ pc' = "aborted"
    /\ UNCHANGED <<backend, fileType, size, offset, readVars, answer>>

\* The loop has reached the length.
EndOfRead ==
    /\ pc = "reading"
    /\ Len(buffer) >= length
    /\ Return(buffer)
    /\ UNCHANGED offset

-----------------------------------------------------------------------------

\* closeFile; the resource itself is the subject of PeLoader.
CloseFile ==
    /\ pc = "idle"
    /\ fileType' = "TYPE_CLOSED"
    /\ UNCHANGED <<backend, size, offset, pc, readVars, answer>>

\* Someone else writes to the file, or truncates it.
Resize(s) ==
    /\ fileType = "TYPE_FILE"
    /\ size' = s
    /\ UNCHANGED <<backend, fileType, offset, pc, readVars, answer>>

\* A step of a read in progress.
ReadStep ==
    Transfer \/ EndOfFile \/ ReadError \/ Copy \/ Abort \/ EndOfRead

Call ==
    \/ \E o \in Offsets : FileSeek(o)
    \/ \E n \in Lengths : ReadPartially(n) \/ ReadFully(n)
    \/ \E o \in Offsets, n \in Lengths : ReadFullyAt(o, n)
    \/ CloseFile

Next ==
    \/ Call
    \/ ReadStep
    \/ \E s \in 0..MaxSize : Resize(s)
    \/ pc = "aborted" /\ UNCHANGED vars

\* A system call on a regular file returns, and a memcpy ends.
Spec == Init /\ [][Next]_vars /\ WF_vars(ReadStep)

-----------------------------------------------------------------------------
(* Properties *)

\* Every variable stays in its range.
TypeOK ==
    /\ backend \in Backends
    /\ fileType \in {backend, "TYPE_CLOSED"}
    /\ size \in 0..MaxSize
    /\ offset \in Nat
    /\ pc \in {"idle", "reading", "aborted"}
    /\ start \in Nat
    /\ length \in Lengths \cup {0}
    /\ fully \in BOOLEAN
    /\ buffer \in Seq(0..(MaxSize - 1))
    /\ answer \in {"none", "ok", "error"}

\* A read never stores behind the length its caller has room for, however the
\* kernel splits it.
NoOverrun == Len(buffer) <= length

\* A memcpy never reads behind the end of the lent buffer: size - offset does
\* not wrap, because fileSeek refuses what bufferRemaining relies on.
SourceInBounds ==
    fileType = "TYPE_BUFFER" => \A i \in 1..Len(buffer) : buffer[i] < size

\* A read that succeeds stored the bytes that follow its start, in order and
\* without a gap, whatever the kernel and other writers did between two system
\* calls; of a buffer this holds for a read that fits behind its start.
ReadIsExact ==
    answer = "ok" /\ (backend = "TYPE_FILE" \/ start + length <= size) =>
       buffer = Bytes(start, Len(buffer))

\* A read of a path that succeeds with less than it was asked for met the end
\* of the file: a short transfer is not taken for the end.
ShortReadMeansEnd ==
    [][/\ backend = "TYPE_FILE"
       /\ pc = "reading"
       /\ answer' = "ok"
       /\ Len(buffer') < length
       => offset >= size]_vars

\* A read returns, unless bufferPointer aborts.
ReadsEnd == pc = "reading" ~> pc # "reading"

\* source/io.cpp: "Reads length bytes from a file and returns an error code if
\* the file is too small."
TooSmallIsError ==
    answer = "ok" /\ fully /\ pc = "idle" => start + Len(buffer) <= size

-----------------------------------------------------------------------------
(* A path implements the stream that include/io.h promises. A buffer does    *)
(* not, its reads do not advance, and is mapped to a stream nobody reads.    *)

IfPath(path, otherwise) == IF backend = "TYPE_FILE" THEN path ELSE otherwise

Stream == INSTANCE ByteStream WITH
    position <- IfPath(IF pc = "reading" THEN start ELSE offset, 0),
    wanted <- IfPath(IF pc = "reading" THEN length ELSE -1, -1),
    whole <- IfPath(fully, FALSE),
    bytes <- IfPath(IF answer = "ok" THEN buffer ELSE <<>>, <<>>),
    answer <- IfPath(answer, "none")

StreamSpec == Stream!StreamSpec

=============================================================================
