--------------------------- MODULE MCPageReaders ---------------------------
(* Writers and one reader on a small deployment.                           *)
EXTENDS PageReaders, TLC

Symmetric == Permutations(Workers)
=============================================================================
