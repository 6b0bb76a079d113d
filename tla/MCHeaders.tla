----------------------------- MODULE MCHeaders -----------------------------
(***************************************************************************)
(* A small instance of Headers for TLC: structures of a few bytes, in the  *)
(* order of their sizes.                                                   *)
(***************************************************************************)
EXTENDS Headers, TLC

SmallSizes ==
    "DosHeader" :> 2 @@ "PeHeader" :> 2 @@ "magic" :> 2 @@ "std" :> 2 @@
    "win" :> 3 @@ "PeDataDir" :> 1 @@ "PeSectionHeader" :> 2
=============================================================================
