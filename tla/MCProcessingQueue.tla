--------------------------- MODULE MCProcessingQueue ---------------------------
(***************************************************************************)
(* Small instances of ProcessingQueue for TLC.                             *)
(***************************************************************************)
EXTENDS ProcessingQueue, TLC

CONSTANTS d1, d2, i1, i2, c1, c2, k1, k2, k3, t1

\* Files and request slots are interchangeable.
FileSymmetry == Permutations(Keys) \cup Permutations(Clients) \cup Permutations(Docs)
=============================================================================
