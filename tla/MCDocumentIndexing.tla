------------------------- MODULE MCDocumentIndexing -------------------------
(***************************************************************************)
(* TLC instances of DocumentIndexing.                                      *)
(***************************************************************************)
EXTENDS DocumentIndexing, TLC

\* None of these is distinguished from the others of its kind.
Symmetry ==
  Permutations(Identities) \cup Permutations(Reindexes)
    \cup Permutations(Workers) \cup Permutations(Tokens)
=============================================================================
