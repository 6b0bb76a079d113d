----------------------------- MODULE ByteStream -----------------------------
(***************************************************************************)
(* What include/io.h promises a reader of a File: a read answers with the  *)
(* bytes that follow the position it starts at, in order and without a     *)
(* gap, and leaves the position behind the last of them; or it fails. The  *)
(* number of system calls a read takes is not visible here.                *)
(***************************************************************************)
EXTENDS Integers, Sequences

CONSTANTS Offsets,   \* where a reader may seek to
          Lengths    \* how much a reader may ask for

VARIABLES position,  \* the position of the stream
          wanted,    \* how much the read in progress asked for, Nothing if none
          whole,     \* that read wants all of it or an error
          bytes,     \* the positions the bytes of the last answer come from
          answer     \* "none", "ok" or "error"

svars == <<position, wanted, whole, bytes, answer>>

Nothing == -1

\* The n bytes from position p on.
From(p, n) == [i \in 1..n |-> p + i - 1]

Init ==
    /\ position = 0
    /\ wanted = Nothing
    /\ whole = FALSE
    /\ bytes = <<>>
    /\ answer = "none"

Seek(o) ==
    /\ wanted = Nothing
    /\ bytes' = <<>>
    /\ \/ position' = o /\ answer' = "ok"
       \/ position' = position /\ answer' = "error"
    /\ UNCHANGED <<wanted, whole>>

\* A read at the position, or at an offset the reader names; the latter may
\* fail before anything is read.
Ask(p, n) ==
    /\ wanted = Nothing
    /\ position' = p
    /\ wanted' = n
    /\ whole' \in BOOLEAN
    /\ bytes' = <<>>
    /\ answer' = "none"

Deliver ==
    /\ wanted # Nothing
    /\ \E n \in 0..wanted :
          /\ whole => n = wanted
          /\ bytes' = From(position, n)
          /\ position' = position + n
    /\ wanted' = Nothing
    /\ answer' = "ok"
    /\ UNCHANGED whole

Refuse ==
    /\ wanted # Nothing
    /\ \E n \in 0..wanted : position' = position + n
    /\ wanted' = Nothing
    /\ bytes' = <<>>
    /\ answer' = "error"
    /\ UNCHANGED whole

Next ==
    \/ \E o \in Offsets : Seek(o)
    \/ \E n \in Lengths : \E p \in Offsets \cup {position} : Ask(p, n)
    \/ Deliver \/ Refuse

StreamSpec == Init /\ [][Next]_svars /\ WF_svars(Deliver \/ Refuse)

=============================================================================
