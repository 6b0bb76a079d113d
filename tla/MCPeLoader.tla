----------------------------- MODULE MCPeLoader -----------------------------
(***************************************************************************)
(* Small instances of PeLoader for TLC.                                    *)
(***************************************************************************)
EXTENDS PeLoader, TLC

\* Requests that follow the comments of PeLoaderOpen, and one that is refused
\* before a PeFile is allocated.
ValidRequests == {"path", "buffer", "plainBuffer", "unknownVersion"}

\* Both sources, and both ways to be refused after `new PeFile`.
MixedRequests == {"path", "buffer", "nullPath", "unknownMode"}

\* Descriptor 0 is the host's, the others are alike; so are the PeFiles.
Symmetry == Permutations(Threads) \cup Permutations(PeFiles)
            \cup Permutations(Fds \ {Stdin})
=============================================================================
