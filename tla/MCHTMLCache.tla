---------------------------- MODULE MCHTMLCache ----------------------------
(* Two pages of different lengths: under a budget of one byte only the      *)
(* short one is ever cached, under two they push each other out, and       *)
(* under three they share the cache.                                       *)
EXTENDS HTMLCache, TLC

MCSize == "note" :> 1 @@ "post" :> 2
MCSizes == [s \in Slugs |-> MCSize[s]]
Symmetric == Permutations(Visitors)
=============================================================================
