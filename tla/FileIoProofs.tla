---------------------------- MODULE FileIoProofs ----------------------------
(***************************************************************************)
(* Proofs about FileIo, for sources of any size and any offsets and        *)
(* lengths.                                                                *)
(*                                                                         *)
(* A read is right because of where its turns leave off: on a path the     *)
(* descriptor stands behind what was stored (OnPath); in a buffer, whose   *)
(* offset stays, the first copy is all of a read that fits (InMemory).     *)
(***************************************************************************)
EXTENDS FileIo, SequenceTheorems, TLAPS

\* A read of a path in progress has stored what lies between its start and the
\* descriptor's offset.
OnPath ==
    backend = "TYPE_FILE" =>
       /\ pc # "aborted"
       /\ pc = "reading" =>
             /\ offset = start + Len(buffer)
             /\ buffer = Bytes(start, Len(buffer))

\* A buffer is positioned inside itself; a read in progress starts there.
InMemory ==
    backend = "TYPE_BUFFER" =>
       /\ fileType = "TYPE_BUFFER" => offset <= size
       /\ pc = "reading" =>
             /\ offset = start
             /\ buffer # <<>> /\ start + length <= size =>
                   Len(buffer) = length /\ buffer = Bytes(start, length)

IoInv ==
    /\ TypeOK /\ NoOverrun /\ SourceInBounds /\ ReadIsExact
    /\ OnPath /\ InMemory
    /\ pc = "reading" => answer = "none"

-----------------------------------------------------------------------------
(* Bytes and sizes *)

LEMMA Smallest ==
    ASSUME NEW a \in Int, NEW b \in Int
    PROVE  Min({a, b}) = IF a <= b THEN a ELSE b
<1>1. \E x \in {a, b} : \A y \in {a, b} : x <= y
  OBVIOUS
<1>2. Min({a, b}) \in {a, b} /\ \A y \in {a, b} : Min({a, b}) <= y
  BY <1>1 DEF Min
<1> QED BY <1>2

\* Bytes that follow bytes.
LEMMA MoreBytes ==
    ASSUME NEW p \in Nat, NEW m \in Nat, NEW n \in Nat
    PROVE  /\ Bytes(p, m) \o Bytes(p + m, n) = Bytes(p, m + n)
           /\ Len(Bytes(p, n)) = n
           /\ \A i \in 1..n : Bytes(p, n)[i] = p + i - 1
<1>1. /\ Bytes(p, m) \in Seq(Nat) /\ Len(Bytes(p, m)) = m
      /\ Bytes(p + m, n) \in Seq(Nat) /\ Len(Bytes(p + m, n)) = n
      /\ Len(Bytes(p, n)) = n
  BY DEF Bytes
<1>2. Bytes(p, m + n) \in Seq(Nat) /\ Len(Bytes(p, m + n)) = m + n
  BY DEF Bytes
<1>3. /\ Bytes(p, m) \o Bytes(p + m, n) \in Seq(Nat)
      /\ Len(Bytes(p, m) \o Bytes(p + m, n)) = m + n
      /\ \A i \in 1..(m + n) : (Bytes(p, m) \o Bytes(p + m, n))[i] =
             IF i <= m THEN Bytes(p, m)[i] ELSE Bytes(p + m, n)[i - m]
  <2> DEFINE a == Bytes(p, m)
             b == Bytes(p + m, n)
  <2>1. a \in Seq(Nat) /\ b \in Seq(Nat) /\ Len(a) = m /\ Len(b) = n
    BY <1>1
  <2> HIDE DEF a, b
  <2>2. /\ a \o b \in Seq(Nat) /\ Len(a \o b) = Len(a) + Len(b)
        /\ \A i \in 1..(Len(a) + Len(b)) :
              (a \o b)[i] = IF i <= Len(a) THEN a[i] ELSE b[i - Len(a)]
    BY <2>1, ConcatProperties
  <2>3. /\ a \o b \in Seq(Nat) /\ Len(a \o b) = m + n
        /\ \A i \in 1..(m + n) :
              (a \o b)[i] = IF i <= m THEN a[i] ELSE b[i - m]
    BY <2>1, <2>2
  <2> QED BY <2>3 DEF a, b
<1>4. Bytes(p, m) \o Bytes(p + m, n) = Bytes(p, m + n)
  <2>1. \A i \in 1..(m + n) : (Bytes(p, m) \o Bytes(p + m, n))[i] = p + i - 1
    BY <1>3 DEF Bytes
  <2>2. \A i \in 1..(m + n) : Bytes(p, m + n)[i] = p + i - 1
    BY DEF Bytes
  <2> DEFINE a == Bytes(p, m) \o Bytes(p + m, n)
             b == Bytes(p, m + n)
  <2>3. /\ a \in Seq(Nat) /\ b \in Seq(Nat) /\ Len(a) = m + n /\ Len(b) = m + n
        /\ \A i \in 1..(m + n) : a[i] = b[i]
    BY <1>2, <1>3, <2>1, <2>2
  <2> HIDE DEF a, b
  <2>4. a = b
    BY <2>3, SeqEqual
  <2> QED BY <2>4 DEF a, b
<1> QED BY <1>1, <1>4 DEF Bytes

\* Appending bytes of the source to a buffer.
LEMMA Store ==
    ASSUME NEW b \in Seq(0..(MaxSize - 1)), NEW p \in Nat, NEW n \in Nat,
           NEW s \in 0..MaxSize, p + n <= s
    PROVE  /\ b \o Bytes(p, n) \in Seq(0..(MaxSize - 1))
           /\ Len(b \o Bytes(p, n)) = Len(b) + n
           /\ \A i \in 1..(Len(b) + n) :
                 \/ (b \o Bytes(p, n))[i] < s
                 \/ i <= Len(b) /\ (b \o Bytes(p, n))[i] = b[i]
<1>1. Bytes(p, n) \in Seq(0..(MaxSize - 1)) /\ Len(Bytes(p, n)) = n
  BY IoAssumption DEF Bytes
<1>2. \A i \in 1..n : Bytes(p, n)[i] < s
  BY DEF Bytes
<1>3. /\ b \o Bytes(p, n) \in Seq(0..(MaxSize - 1))
      /\ Len(b \o Bytes(p, n)) = Len(b) + n
      /\ \A i \in 1..(Len(b) + n) : (b \o Bytes(p, n))[i] =
             IF i <= Len(b) THEN b[i] ELSE Bytes(p, n)[i - Len(b)]
  <2> DEFINE c == Bytes(p, n)
  <2>1. c \in Seq(0..(MaxSize - 1)) /\ Len(c) = n
    BY <1>1
  <2> HIDE DEF c
  <2>2. /\ b \o c \in Seq(0..(MaxSize - 1)) /\ Len(b \o c) = Len(b) + Len(c)
        /\ \A i \in 1..(Len(b) + Len(c)) :
              (b \o c)[i] = IF i <= Len(b) THEN b[i] ELSE c[i - Len(b)]
    BY <2>1, ConcatProperties
  <2>3. /\ b \o c \in Seq(0..(MaxSize - 1)) /\ Len(b \o c) = Len(b) + n
        /\ \A i \in 1..(Len(b) + n) :
              (b \o c)[i] = IF i <= Len(b) THEN b[i] ELSE c[i - Len(b)]
    BY <2>1, <2>2
  <2> QED BY <2>3 DEF c
<1>4. ASSUME NEW i \in 1..(Len(b) + n)
      PROVE  \/ (b \o Bytes(p, n))[i] < s
             \/ i <= Len(b) /\ (b \o Bytes(p, n))[i] = b[i]
  <2>1. CASE i <= Len(b)
    BY <1>3, <2>1
  <2>2. CASE ~(i <= Len(b))
    <3>1. PICK j \in 1..n : j = i - Len(b)
      BY <2>2
    <3>2. (b \o Bytes(p, n))[i] = Bytes(p, n)[j]
      BY <1>3, <2>2, <3>1
    <3>3. Bytes(p, n)[j] < s
      BY <1>2
    <3> QED BY <3>2, <3>3
  <2> QED BY <2>1, <2>2
<1> QED BY <1>3, <1>4

\* What remains of a buffer does not wrap.
LEMMA Remaining ==
    ASSUME IoInv, fileType = "TYPE_BUFFER"
    PROVE  BufferRemaining = size - offset /\ BufferRemaining \in Nat
<1>1. offset <= size /\ offset \in Nat /\ size \in 0..MaxSize
  BY DEF IoInv, TypeOK, InMemory
<1>2. size - offset \in Nat /\ size - offset < Word /\ Word \in Nat \ {0}
  BY <1>1, IoAssumption DEF Word
<1>3. \A a \in Nat, w \in Nat \ {0} : a < w => a % w = a
  OBVIOUS
<1> QED BY <1>2, <1>3 DEF BufferRemaining

-----------------------------------------------------------------------------
(* The steps *)

LEMMA IoInit == Init => IoInv
<1> SUFFICES ASSUME Init PROVE IoInv
  OBVIOUS
<1>1. TypeOK
  <2>1. fully \in BOOLEAN
    BY DEF Init
  <2>2. buffer \in Seq(0..(MaxSize - 1))
    BY DEF Init
  <2> QED BY <2>1, <2>2 DEF Init, TypeOK
<1>2. OnPath /\ InMemory /\ NoOverrun /\ SourceInBounds /\ ReadIsExact
  BY IoAssumption
     DEF Init, OnPath, InMemory, NoOverrun, SourceInBounds, ReadIsExact
<1> QED BY <1>1, <1>2 DEF Init, IoInv

\* A File that is not being read may be positioned and closed.
LEMMA SeekKeeps == ASSUME IoInv, NEW o \in Offsets, FileSeek(o) PROVE IoInv'
<1>1. /\ pc = "idle" /\ buffer' = <<>> /\ answer' \in {"ok", "error"}
      /\ UNCHANGED <<backend, fileType, size, pc, start, length, fully>>
  BY DEF FileSeek, SeekFails
<1>2. /\ offset' \in Nat
      /\ backend = "TYPE_BUFFER" /\ fileType = "TYPE_BUFFER" => offset' <= size
  BY IoAssumption
     DEF FileSeek, SeekSucceeds, SeekFails, IoInv, TypeOK, InMemory
<1>3. TypeOK'
  BY <1>1, <1>2 DEF IoInv, TypeOK
<1>4. NoOverrun' /\ SourceInBounds' /\ ReadIsExact'
  <2>1. length \in Nat /\ Len(buffer') = 0 /\ Bytes(start, 0) = <<>>
    BY <1>1, IoAssumption DEF IoInv, TypeOK, Bytes
  <2> QED BY <1>1, <2>1 DEF NoOverrun, SourceInBounds, ReadIsExact, Bytes
<1>5. OnPath' /\ InMemory'
  BY <1>1, <1>2 DEF OnPath, InMemory, IoInv
<1> QED BY <1>1, <1>3, <1>4, <1>5 DEF IoInv

LEMMA CloseKeeps == IoInv /\ CloseFile => IoInv'
<1> SUFFICES ASSUME IoInv, CloseFile PROVE IoInv'
  OBVIOUS
<1>1. /\ pc = "idle" /\ fileType' = "TYPE_CLOSED"
      /\ UNCHANGED <<backend, size, offset, pc, start, length, fully, buffer, answer>>
  BY DEF CloseFile, readVars
<1>2. TypeOK'
  BY <1>1 DEF IoInv, TypeOK
<1> QED BY <1>1, <1>2
        DEF IoInv, NoOverrun, SourceInBounds, ReadIsExact, OnPath, InMemory, Bytes

LEMMA ResizeKeeps == ASSUME IoInv, NEW s \in 0..MaxSize, Resize(s) PROVE IoInv'
<1>1. /\ fileType = "TYPE_FILE" /\ backend = "TYPE_FILE" /\ size' = s
      /\ UNCHANGED <<backend, fileType, offset, pc, start, length, fully, buffer,
                     answer>>
  BY IoAssumption DEF Resize, readVars, IoInv, TypeOK
<1>2. TypeOK'
  BY <1>1 DEF IoInv, TypeOK
<1> QED BY <1>1, <1>2
        DEF IoInv, NoOverrun, SourceInBounds, ReadIsExact, OnPath, InMemory, Bytes

\* A read begins where its caller expects it to, with nothing stored.
LEMMA BeginKeeps ==
    ASSUME IoInv, NEW from \in Nat, NEW n \in Lengths, NEW all \in BOOLEAN,
           Begin(from, n, all), offset' = from,
           fileType = "TYPE_BUFFER" => from <= size,
           UNCHANGED <<backend, fileType, size>>
    PROVE  IoInv'
<1>1. /\ pc' = "reading" /\ start' = from /\ length' = n /\ fully' = all
      /\ buffer' = <<>> /\ answer' = "none" /\ n \in Nat
  BY IoAssumption DEF Begin
<1>2. TypeOK'
  <2>1. fully' \in BOOLEAN
    BY <1>1
  <2> QED BY <1>1, <2>1 DEF IoInv, TypeOK
<1>3. Bytes(from, 0) = <<>> /\ Len(buffer') = 0
  BY <1>1 DEF Bytes
<1>4. OnPath' /\ InMemory'
  BY <1>1, <1>3 DEF OnPath, InMemory, Bytes
<1> QED BY <1>1, <1>2, <1>3, <1>4
        DEF IoInv, NoOverrun, SourceInBounds, ReadIsExact

LEMMA AskKeeps ==
    ASSUME IoInv, NEW n \in Lengths,
           \/ ReadPartially(n) \/ ReadFully(n)
           \/ \E o \in Offsets : ReadFullyAt(o, n)
    PROVE  IoInv'
<1>1. CASE ReadPartially(n)
  BY <1>1, BeginKeeps DEF ReadPartially, IoInv, TypeOK, InMemory
<1>2. CASE ReadFully(n)
  BY <1>2, BeginKeeps DEF ReadFully, IoInv, TypeOK, InMemory
<1>3. ASSUME NEW o \in Offsets, ReadFullyAt(o, n) PROVE IoInv'
  <2>1. CASE SeekSucceeds(o) /\ Begin(o, n, TRUE)
    BY <1>3, <2>1, BeginKeeps, IoAssumption DEF ReadFullyAt, SeekSucceeds
  <2>2. CASE /\ SeekFails(o) /\ buffer' = <<>>
             /\ UNCHANGED <<pc, start, length, fully>>
    <3>1. FileSeek(o)
      BY <1>3, <2>2 DEF ReadFullyAt, FileSeek
    <3> QED BY <3>1, SeekKeeps
  <2> QED BY <1>3, <2>1, <2>2 DEF ReadFullyAt
<1> QED BY <1>1, <1>2, <1>3

\* A transfer is stored behind the last one, and fits.
LEMMA TransferKeeps == IoInv /\ Transfer => IoInv'
<1> SUFFICES ASSUME IoInv, Transfer PROVE IoInv'
  OBVIOUS
<1> DEFINE m == Len(buffer)
<1>1. /\ pc = "reading" /\ fileType = "TYPE_FILE" /\ backend = "TYPE_FILE"
      /\ m < length
      /\ UNCHANGED <<backend, fileType, size, pc, start, length, fully, answer>>
  BY IoAssumption DEF Transfer, MoreToRead, IoInv, TypeOK
<1>2. /\ m \in Nat /\ length \in Nat /\ size \in 0..MaxSize /\ size \in Nat
      /\ offset \in Nat /\ start \in Nat /\ buffer \in Seq(0..(MaxSize - 1))
      /\ offset = start + m /\ buffer = Bytes(start, m) /\ answer = "none"
  BY <1>1, IoAssumption DEF IoInv, TypeOK, OnPath
<1>3. PICK n \in Nat : /\ n <= length - m /\ offset + n <= size
                       /\ buffer' = buffer \o Bytes(offset, n)
                       /\ offset' = offset + n
  <2>1. PICK n \in 1..Min({length - m, size - offset}) :
           buffer' = buffer \o Bytes(offset, n) /\ offset' = offset + n
    BY DEF Transfer
  <2>2. Min({length - m, size - offset}) =
           IF length - m <= size - offset THEN length - m ELSE size - offset
    BY <1>2, Smallest
  <2>3. n \in Nat /\ n <= length - m /\ offset + n <= size
    BY <1>2, <2>2
  <2> QED BY <2>1, <2>3
<1>4. /\ buffer' \in Seq(0..(MaxSize - 1)) /\ Len(buffer') = m + n
      /\ buffer' = Bytes(start, m + n)
  <2>1. buffer' \in Seq(0..(MaxSize - 1)) /\ Len(buffer') = m + n
    BY <1>2, <1>3, Store
  <2>2. Bytes(start, m) \o Bytes(start + m, n) = Bytes(start, m + n)
    <3>1. start \in Nat /\ m \in Nat /\ n \in Nat
      BY <1>2
    <3> HIDE DEF m
    <3> QED BY <3>1, MoreBytes
  <2> QED BY <1>2, <1>3, <2>1, <2>2
<1>5. TypeOK'
  BY <1>1, <1>2, <1>3, <1>4 DEF IoInv, TypeOK
<1>6. OnPath' /\ InMemory'
  <2>1. offset' = start' + Len(buffer') /\ buffer' = Bytes(start, Len(buffer'))
    <3>1. Len(buffer') = m + n /\ buffer' = Bytes(start, m + n) /\ start' = start
      BY <1>1, <1>4
    <3>2. offset' = (start + m) + n /\ start \in Nat /\ m \in Nat
      BY <1>2, <1>3
    <3> HIDE DEF m
    <3> QED BY <3>1, <3>2
  <2> QED BY <1>1, <2>1 DEF OnPath, InMemory, Bytes
<1>7. NoOverrun'
  BY <1>1, <1>2, <1>3, <1>4 DEF NoOverrun
<1> QED BY <1>1, <1>2, <1>5, <1>6, <1>7 DEF IoInv, SourceInBounds, ReadIsExact

\* A copy takes all that is left of the read or of the buffer.
LEMMA CopyKeeps == IoInv /\ Copy => IoInv'
<1> SUFFICES ASSUME IoInv, Copy PROVE IoInv'
  OBVIOUS
<1> DEFINE m == Len(buffer)
           n == Min({length - m, BufferRemaining})
<1>1. /\ pc = "reading" /\ fileType = "TYPE_BUFFER" /\ backend = "TYPE_BUFFER"
      /\ m < length /\ buffer' = buffer \o Bytes(offset, n)
      /\ UNCHANGED <<backend, fileType, size, offset, pc, start, length, fully,
                     answer>>
  BY IoAssumption DEF Copy, MoreToRead, IoInv, TypeOK
<1>2. /\ m \in Nat /\ length \in Nat /\ size \in 0..MaxSize /\ size \in Nat
      /\ offset \in Nat /\ offset = start /\ offset <= size
      /\ buffer \in Seq(0..(MaxSize - 1)) /\ answer = "none"
  BY <1>1, IoAssumption DEF IoInv, TypeOK, InMemory
<1>3. /\ n \in Nat /\ n <= length - m /\ offset + n <= size
      /\ length - m <= size - offset => n = length - m
  <2>1. BufferRemaining = size - offset
    BY <1>1, Remaining
  <2>2. n = IF length - m <= size - offset THEN length - m ELSE size - offset
    BY <1>2, <2>1, Smallest
  <2> QED BY <1>1, <1>2, <2>2
<1> HIDE DEF n
<1>4. /\ buffer' \in Seq(0..(MaxSize - 1)) /\ Len(buffer') = m + n
      /\ \A i \in 1..(m + n) :
            \/ buffer'[i] < size
            \/ i <= m /\ buffer'[i] = buffer[i]
  <2>1. /\ buffer \in Seq(0..(MaxSize - 1)) /\ offset \in Nat /\ n \in Nat
        /\ size \in 0..MaxSize /\ offset + n <= size
    BY <1>2, <1>3
  <2>2. /\ buffer \o Bytes(offset, n) \in Seq(0..(MaxSize - 1))
        /\ Len(buffer \o Bytes(offset, n)) = m + n
        /\ \A i \in 1..(m + n) :
              \/ (buffer \o Bytes(offset, n))[i] < size
              \/ i <= m /\ (buffer \o Bytes(offset, n))[i] = buffer[i]
    BY <2>1, Store
  <2> QED BY <1>1, <2>2
<1>5. TypeOK'
  BY <1>1, <1>4 DEF IoInv, TypeOK
<1>6. SourceInBounds'
  <2>1. \A i \in 1..m : buffer[i] < size
    BY <1>1 DEF IoInv, SourceInBounds
  <2>2. \A i \in 1..(m + n) : buffer'[i] < size
    BY <1>2, <1>3, <1>4, <2>1
  <2> QED BY <1>1, <1>4, <2>2 DEF SourceInBounds
<1>7. InMemory'
  <2> SUFFICES ASSUME start + length <= size
               PROVE  Len(buffer') = length /\ buffer' = Bytes(start, length)
    BY <1>1, <1>2 DEF InMemory, Bytes
  <2>1. m = 0 /\ buffer = <<>>
    BY <1>1, <1>2 DEF IoInv, InMemory
  <2>2. n = length
    BY <1>2, <1>3, <2>1
  <2>3. Bytes(start, 0) = <<>>
    BY DEF Bytes
  <2>4. Bytes(start, 0) \o Bytes(start, n) = Bytes(start, n)
    <3>1. start \in Nat /\ n \in Nat /\ 0 \in Nat
      BY <1>2, <1>3
    <3>2. start + 0 = start /\ 0 + n = n
      BY <3>1
    <3>3. Bytes(start, 0) \o Bytes(start + 0, n) = Bytes(start, 0 + n)
      BY <3>1, MoreBytes, Zenon
    <3> QED BY <3>2, <3>3
  <2> QED BY <1>1, <1>2, <1>4, <2>1, <2>2, <2>3, <2>4
<1>8. NoOverrun' /\ OnPath'
  BY <1>1, <1>2, <1>3, <1>4 DEF NoOverrun, OnPath
<1> QED BY <1>1, <1>2, <1>5, <1>6, <1>7, <1>8 DEF IoInv, ReadIsExact

\* A read that returns has what it stored, or an error.
LEMMA ReturnKeeps ==
    ASSUME IoInv, pc = "reading", Return(buffer), UNCHANGED offset,
           Len(buffer) >= length \/ fileType = "TYPE_FILE"
    PROVE  IoInv'
<1>1. /\ pc' = "idle" /\ answer' \in {"ok", "error"}
      /\ UNCHANGED <<backend, fileType, size, offset, start, length, fully, buffer>>
  BY DEF Return
<1>2. TypeOK'
  BY <1>1 DEF IoInv, TypeOK
<1>3. ReadIsExact'
  <2>1. CASE backend = "TYPE_FILE"
    BY <1>1, <2>1 DEF IoInv, OnPath, ReadIsExact, Bytes
  <2>2. CASE backend = "TYPE_BUFFER"
    <3>1. Len(buffer) = length /\ length \in Nat
      BY <2>2, IoAssumption DEF IoInv, TypeOK, NoOverrun
    <3>2. start + length <= size => buffer = Bytes(start, Len(buffer))
      <4>1. CASE buffer = <<>>
        BY <4>1 DEF Bytes
      <4>2. CASE buffer # <<>>
        BY <2>2, <3>1, <4>2 DEF IoInv, InMemory
      <4> QED BY <4>1, <4>2
    <3> QED BY <1>1, <2>2, <3>2 DEF ReadIsExact, Bytes
  <2> QED BY <2>1, <2>2, IoAssumption DEF IoInv, TypeOK
<1>4. NoOverrun' /\ SourceInBounds' /\ OnPath' /\ InMemory'
  BY <1>1 DEF IoInv, NoOverrun, SourceInBounds, OnPath, InMemory
<1> QED BY <1>1, <1>2, <1>3, <1>4 DEF IoInv

\* A read that fails or aborts reports nothing.
LEMMA BreakKeeps == IoInv /\ (ReadError \/ Abort) => IoInv'
<1> SUFFICES ASSUME IoInv, ReadError \/ Abort PROVE IoInv'
  OBVIOUS
<1>1. /\ \/ pc' = "idle" /\ answer' = "error"
         \/ /\ pc' = "aborted" /\ answer' = "none"
            /\ backend = "TYPE_BUFFER"
      /\ UNCHANGED <<backend, fileType, size, offset, start, length, fully, buffer>>
  BY IoAssumption
     DEF ReadError, Abort, MoreToRead, readVars, IoInv, TypeOK
<1>2. TypeOK'
  BY <1>1 DEF IoInv, TypeOK
<1> QED BY <1>1, <1>2
        DEF IoInv, NoOverrun, SourceInBounds, ReadIsExact, OnPath, InMemory

LEMMA IoStep == IoInv /\ [Next]_vars => IoInv'
<1> SUFFICES ASSUME IoInv, [Next]_vars PROVE IoInv'
  OBVIOUS
<1>1. CASE Call
  BY <1>1, SeekKeeps, AskKeeps, CloseKeeps DEF Call
<1>2. CASE ReadStep
  <2>1. CASE EndOfFile \/ EndOfRead
    BY <2>1, ReturnKeeps DEF EndOfFile, EndOfRead, MoreToRead
  <2> QED BY <1>2, <2>1, TransferKeeps, CopyKeeps, BreakKeeps DEF ReadStep
<1>3. CASE UNCHANGED vars
  <2>1. UNCHANGED <<backend, fileType, size, offset, pc, start, length, fully,
                    buffer, answer>>
    BY <1>3 DEF vars
  <2> QED BY <2>1 DEF IoInv, TypeOK, NoOverrun, SourceInBounds, ReadIsExact, OnPath,
                      InMemory, Bytes
<1> QED BY <1>1, <1>2, <1>3, ResizeKeeps DEF Next

\* The invariant holds in every reachable state; the theorems are read off it.
LEMMA IoCorrect == Spec => []IoInv
BY IoInit, IoStep, PTL DEF Spec

\* Every variable stays in its range.
THEOREM IoTypes == Spec => []TypeOK
<1>1. IoInv => TypeOK
  BY DEF IoInv
<1> QED BY <1>1, IoCorrect, PTL

\* A read never stores behind the length its caller has room for, however the
\* kernel splits it.
THEOREM ReadsDoNotOverrun == Spec => []NoOverrun
<1>1. IoInv => NoOverrun
  BY DEF IoInv
<1> QED BY <1>1, IoCorrect, PTL

\* A memcpy never reads behind the end of the lent buffer.
THEOREM CopiesStayInSource == Spec => []SourceInBounds
<1>1. IoInv => SourceInBounds
  BY DEF IoInv
<1> QED BY <1>1, IoCorrect, PTL

\* A read that succeeds stored the bytes that follow its start, of a path
\* always and of a buffer if they are there.
THEOREM ReadsAreExact == Spec => []ReadIsExact
<1>1. IoInv => ReadIsExact
  BY DEF IoInv
<1> QED BY <1>1, IoCorrect, PTL

\* A read of a path that succeeds with less than it was asked for met the end of
\* the file.
THEOREM ShortReadsMeetTheEnd == Spec => ShortReadMeansEnd
<1>1. ASSUME IoInv, [Next]_vars, backend = "TYPE_FILE", pc = "reading",
             answer' = "ok", Len(buffer') < length
      PROVE  offset >= size
  <2>1. answer = "none"
    BY <1>1 DEF IoInv
  <2>2. CASE EndOfFile
    BY <2>2 DEF EndOfFile
  <2>3. CASE EndOfRead
    <3>1. Len(buffer) >= length /\ Len(buffer) < length /\ length \in Nat
          /\ Len(buffer) \in Nat
      BY <1>1, <2>3, IoAssumption DEF EndOfRead, Return, IoInv, TypeOK
    <3> QED BY <3>1
  <2>4. CASE Call
    BY <1>1, <2>4
       DEF Call, FileSeek, ReadPartially, ReadFully, ReadFullyAt, CloseFile
  <2>5. CASE Transfer \/ ReadError \/ Copy \/ Abort
    BY <1>1, <2>1, <2>5 DEF Transfer, ReadError, Copy, Abort
  <2>6. CASE (\E s \in 0..MaxSize : Resize(s)) \/ UNCHANGED vars
    BY <1>1, <2>1, <2>6 DEF Resize, vars
  <2> QED BY <1>1, <2>2, <2>3, <2>4, <2>5, <2>6 DEF Next, ReadStep
<1>2. IoInv /\ [Next]_vars =>
         [/\ backend = "TYPE_FILE"
          /\ pc = "reading"
          /\ answer' = "ok"
          /\ Len(buffer') < length
          => offset >= size]_vars
  BY <1>1
<1> QED BY <1>2, IoCorrect, PTL DEF Spec, ShortReadMeansEnd

\* Each step of a read ends it, or leaves less to read of a length that stays
\* what it is. Someone who resizes the file gets no further with the read.
ReadMovesOn ==
    [][pc = "reading" =>
          \/ pc' # "reading"
          \/ /\ length' = length /\ Len(buffer) < Len(buffer')
             /\ Len(buffer') <= length
          \/ \E s \in 0..MaxSize : Resize(s)]_vars

\* A transfer and a copy store a byte at least.
LEMMA StoresMore ==
    ASSUME IoInv, Transfer \/ Copy
    PROVE  Len(buffer) < Len(buffer')
<1> DEFINE m == Len(buffer)
<1>1. /\ m \in Nat /\ length \in Nat /\ size \in Nat /\ offset \in Nat
      /\ m < length /\ buffer \in Seq(0..(MaxSize - 1))
  BY IoAssumption DEF IoInv, TypeOK, Transfer, Copy, MoreToRead
<1>2. PICK n \in Nat \ {0} : buffer' = buffer \o Bytes(offset, n)
  <2>1. CASE Transfer
    <3> DEFINE most == Min({length - m, size - offset})
    <3>1. PICK n \in 1..most : buffer' = buffer \o Bytes(offset, n)
      BY <2>1 DEF Transfer
    <3>2. most \in Int
      BY <1>1, Smallest
    <3> HIDE DEF most
    <3>3. n \in Nat \ {0}
      BY <3>2
    <3> QED BY <3>1, <3>3
  <2>2. CASE Copy
    <3> DEFINE n == Min({length - m, BufferRemaining})
    <3>1. BufferRemaining \in Nat \ {0}
      BY <2>2, Remaining DEF Copy
    <3>2. n \in Nat \ {0}
      BY <1>1, <3>1, Smallest
    <3>3. buffer' = buffer \o Bytes(offset, n)
      BY <2>2 DEF Copy
    <3> QED BY <3>2, <3>3
  <2> QED BY <2>1, <2>2
<1>3. Bytes(offset, n) \in Seq(Int) /\ Len(Bytes(offset, n)) = n
  BY <1>1 DEF Bytes
<1>4. buffer \in Seq(Int)
  <2>1. 0..(MaxSize - 1) \subseteq Int
    OBVIOUS
  <2> QED BY <1>1, <2>1, SeqMonotonic
<1>5. Len(buffer') = m + n
  BY <1>2, <1>3, <1>4, ConcatProperties
<1> QED BY <1>1, <1>5

\* A read makes as many system calls as it has bytes at most, and one that ends
\* it, however short the transfers are and whoever resizes the file.
THEOREM ReadsAreFinite == Spec => ReadMovesOn
<1>1. ASSUME IoInv, [Next]_vars, pc = "reading", pc' = "reading",
             ~UNCHANGED vars, ~\E s \in 0..MaxSize : Resize(s)
      PROVE  /\ length' = length
             /\ Len(buffer) < Len(buffer')
             /\ Len(buffer') <= length
  <2>1. Transfer \/ Copy
    BY <1>1 DEF Next, Call, FileSeek, ReadPartially, ReadFully, ReadFullyAt,
       CloseFile, ReadStep, EndOfFile, ReadError, Abort, EndOfRead, Return
  <2>2. length' = length
    BY <2>1 DEF Transfer, Copy
  <2>3. NoOverrun'
    BY <1>1, IoStep DEF IoInv
  <2> QED BY <1>1, <2>1, <2>2, <2>3, StoresMore DEF NoOverrun
<1>2. IoInv /\ [Next]_vars =>
         [pc = "reading" =>
             \/ pc' # "reading"
             \/ /\ length' = length /\ Len(buffer) < Len(buffer')
                /\ Len(buffer') <= length
             \/ \E s \in 0..MaxSize : Resize(s)]_vars
  BY <1>1
<1> QED BY <1>2, IoCorrect, PTL DEF Spec, ReadMovesOn

-----------------------------------------------------------------------------
(* A path as a stream *)

\* What the reader of a path sees, in the variables of ByteStream.
At == IF pc = "reading" THEN start ELSE offset
Asked == IF pc = "reading" THEN length ELSE -1
Got == IF answer = "ok" THEN buffer ELSE <<>>

\* A seek, and a positioned read whose seek fails, are seeks of the stream.
LEMMA StreamSeeks ==
    ASSUME IoInv, backend = "TYPE_FILE", NEW o \in Offsets, FileSeek(o)
    PROVE  Stream!Next
<1>1. /\ pc = "idle" /\ pc' = pc /\ backend' = backend /\ fully' = fully
      /\ buffer' = <<>>
      /\ \/ offset' = o /\ answer' = "ok"
         \/ offset' = offset /\ answer' = "error"
  BY DEF FileSeek, SeekSucceeds, SeekFails
<1>2. Stream!Seek(o)
  BY <1>1 DEF Stream!Seek, Stream!Nothing, IfPath
<1> QED BY <1>2 DEF Stream!Next

\* The call of a read asks the stream.
LEMMA StreamAsks ==
    ASSUME IoInv, backend = "TYPE_FILE", pc = "idle", NEW n \in Lengths,
           NEW from \in Offsets \cup {offset}, NEW all \in BOOLEAN,
           Begin(from, n, all), backend' = backend
    PROVE  Stream!Next
<1>1. Stream!Ask(from, n)
  <2>1. /\ pc' = "reading" /\ start' = from /\ length' = n /\ fully' = all
        /\ buffer' = <<>> /\ answer' = "none"
    BY DEF Begin
  <2>2. IfPath(fully, FALSE)' \in BOOLEAN
    BY <2>1 DEF IfPath
  <2> QED BY <2>1, <2>2 DEF Stream!Ask, Stream!Nothing, IfPath
<1>2. from \in Offsets \cup {IfPath(At, 0)}
  BY DEF IfPath, At
<1> QED BY <1>1, <1>2 DEF Stream!Next, At

\* The return of a read delivers what was stored, or refuses.
LEMMA StreamReturns ==
    ASSUME IoInv, backend = "TYPE_FILE", pc = "reading",
           \/ Return(buffer)
           \/ pc' = "idle" /\ answer' = "error" /\ fully' = fully /\ backend' = backend,
           UNCHANGED offset
    PROVE  Stream!Next
<1>1. /\ pc' = "idle" /\ offset' = offset /\ backend' = backend /\ fully' = fully
      /\ \/ answer' = "error"
         \/ /\ answer' = "ok" /\ buffer' = buffer
            /\ fully => Len(buffer) = length
  BY DEF Return
<1>2. /\ Len(buffer) \in 0..length /\ offset = start + Len(buffer)
      /\ buffer = Bytes(start, Len(buffer))
  BY IoAssumption DEF IoInv, TypeOK, NoOverrun, OnPath
<1>3. length # -1
  BY IoAssumption DEF IoInv, TypeOK
<1>4. CASE answer' = "error"
  <2>1. Stream!Refuse
    BY <1>1, <1>2, <1>3, <1>4 DEF Stream!Refuse, Stream!Nothing, IfPath
  <2> QED BY <2>1 DEF Stream!Next
<1>5. CASE answer' = "ok" /\ buffer' = buffer /\ (fully => Len(buffer) = length)
  <2>1. Stream!Deliver
    BY <1>1, <1>2, <1>3, <1>5
       DEF Stream!Deliver, Stream!Nothing, Stream!From, Bytes, IfPath
  <2> QED BY <2>1 DEF Stream!Next
<1> QED BY <1>1, <1>4, <1>5

\* The other steps are not seen.
LEMMA StreamStutters ==
    ASSUME backend' = backend,
           backend = "TYPE_FILE" =>
              At' = At /\ Asked' = Asked /\ Got' = Got
              /\ fully' = fully /\ answer' = answer
    PROVE  UNCHANGED Stream!svars
BY DEF Stream!svars, IfPath, At, Asked, Got

LEMMA StreamStep == IoInv /\ [Next]_vars => [Stream!Next]_(Stream!svars)
<1> SUFFICES ASSUME IoInv, [Next]_vars PROVE [Stream!Next]_(Stream!svars)
  OBVIOUS
<1>1. backend' = backend
  BY DEF Next, Call, ReadStep, FileSeek, ReadPartially, ReadFully, ReadFullyAt,
     CloseFile, Transfer, EndOfFile, ReadError, Copy, Abort, EndOfRead, Return,
     Resize, vars
<1>2. CASE backend # "TYPE_FILE"
  BY <1>1, <1>2, StreamStutters
<1> SUFFICES ASSUME backend = "TYPE_FILE" PROVE [Stream!Next]_(Stream!svars)
  BY <1>2
<1>3. fileType # "TYPE_BUFFER" /\ pc # "aborted"
  BY DEF IoInv, TypeOK, OnPath
<1>4. CASE Call
  <2>1. ASSUME NEW n \in Lengths, ReadPartially(n) \/ ReadFully(n)
        PROVE  Stream!Next
    BY <1>1, <2>1, StreamAsks DEF ReadPartially, ReadFully
  <2>2. ASSUME NEW o \in Offsets, NEW n \in Lengths, ReadFullyAt(o, n)
        PROVE  Stream!Next
    <3>1. CASE Begin(o, n, TRUE)
      BY <1>1, <2>2, <3>1, StreamAsks DEF ReadFullyAt
    <3>2. CASE /\ SeekFails(o) /\ buffer' = <<>>
               /\ UNCHANGED <<pc, start, length, fully>>
      <4>1. FileSeek(o)
        BY <2>2, <3>2 DEF ReadFullyAt, FileSeek
      <4> QED BY <4>1, StreamSeeks
    <3> QED BY <2>2, <3>1, <3>2 DEF ReadFullyAt
  <2>3. CASE CloseFile
    BY <1>1, <2>3, StreamStutters DEF CloseFile, readVars, At, Asked, Got
  <2> QED BY <1>4, <2>1, <2>2, <2>3, StreamSeeks DEF Call
<1>5. CASE EndOfFile \/ EndOfRead \/ ReadError
  BY <1>1, <1>5, StreamReturns
     DEF EndOfFile, EndOfRead, ReadError, MoreToRead, readVars
<1>6. CASE Transfer
  <2>1. answer = "none"
    BY <1>6 DEF Transfer, MoreToRead, IoInv
  <2> QED BY <1>1, <1>6, <2>1, StreamStutters
          DEF Transfer, MoreToRead, At, Asked, Got
<1>7. CASE \/ \E s \in 0..MaxSize : Resize(s)
           \/ UNCHANGED vars
  BY <1>1, <1>7, StreamStutters DEF Resize, readVars, vars, At, Asked, Got
<1>8. ~Copy /\ ~Abort
  BY <1>3 DEF Copy, Abort
<1> QED BY <1>3, <1>4, <1>5, <1>6, <1>7, <1>8 DEF Next, ReadStep

\* A path implements the safety of ByteStream: each system call is a step of the
\* stream or is not seen.
THEOREM PathIsAStream == Spec => Stream!Init /\ [][Stream!Next]_(Stream!svars)
<1>1. Init => Stream!Init
  BY DEF Init, Stream!Init, Stream!Nothing, IfPath
<1> QED BY <1>1, StreamStep, IoCorrect, PTL DEF Spec

=============================================================================
