------------------------------ MODULE MCLogin -------------------------------
(* Two logins from two tabs while the provider goes from a key that is     *)
(* understood to one in any form.                                          *)
EXTENDS Login

MCPublications == {f \in [1..2 -> Forms] : f[1] = "good"}
=============================================================================
