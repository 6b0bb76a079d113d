--------------------------- MODULE MCJavaBinding ---------------------------
(***************************************************************************)
(* A small instance of JavaBinding for TLC.                                *)
(***************************************************************************)
EXTENDS JavaBinding, TLC

\* Lists of different lengths; a symbol without a name is imported by ordinal,
\* a module without a name has an RVA that resolves nowhere.
SmallFiles ==
    {[modules |-> <<>>, symbols |-> <<"f">>],
     [modules |-> <<"m">>, symbols |-> <<"f", NULL>>],
     [modules |-> <<"m", NULL>>, symbols |-> <<>>]}

Symmetry == Permutations(Threads) \cup Permutations(Objects)
            \cup Permutations(Addresses)
=============================================================================
