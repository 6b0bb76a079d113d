------------------------------ MODULE MCSymbols ------------------------------
(***************************************************************************)
(* Small files for Symbols: import directories of up to two modules over a *)
(* few tables, and every export directory of up to two addresses.          *)
(***************************************************************************)
EXTENDS Symbols

Ordinal(n) == [top |-> TRUE, value |-> n]
Name(n)    == [top |-> FALSE, value |-> n]

\* Tables by name, by ordinal, of both, and with an entry that comes twice.
Tables ==
    {<<>>, <<Name("a"), Name("b")>>, <<Name("a"), Name("a")>>,
     <<Name("b"), Ordinal(1)>>, <<Ordinal(1), Name("a")>>,
     <<Ordinal(2), Ordinal(1)>>}

First ==
    [name : {"m"}, table : Tables, writable : {TRUE}]
    \cup [name : {"m"}, table : {<<Name("a"), Name("b")>>}, writable : {FALSE}]

\* A second module: of the same name, of another name, and without a name.
Second == [name : {"m", "n", NULL}, table : {<<Name("a")>>}, writable : {TRUE}]

SmallImportDirs ==
    {<<>>} \cup [1..1 -> First] \cup {<<d, e>> : d \in First, e \in Second}

\* The names of a directory of n addresses, of which the first m are named.
ExportDir(n, m) ==
    [base : {1}, negative : {FALSE}, addresses : {SubSeq(<<"e", "f">>, 1, n)},
     names : [1..m -> {"a", "b"}], ordinals : [1..m -> 0..n-1]]

NoExports ==
    [base |-> 1, negative |-> FALSE, addresses |-> <<>>, names |-> <<>>,
     ordinals |-> <<>>]

Refused == [NoExports EXCEPT !.negative = TRUE]

SmallExportDirs ==
    {NoExports, Refused}
    \cup UNION {ExportDir(n, m) : n \in 1..2, m \in 0..2}

\* Imports and exports do not touch each other: each is varied for itself.
SmallFiles ==
    [imports : SmallImportDirs, exports : {NoExports}]
    \cup [imports : {<<>>}, exports : SmallExportDirs]

\* The addresses the host binds are alike.
Symmetry == Permutations(Addresses)
=============================================================================
