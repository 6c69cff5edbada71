-------------------------- MODULE MCPageLifecycle --------------------------
(* A small deployment for TLC: see README.md for the bounds of each run.   *)
EXTENDS PageLifecycle, TLC

Symmetric == Permutations(Workers)
=============================================================================
