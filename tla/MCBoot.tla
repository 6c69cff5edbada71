------------------------------- MODULE MCBoot -------------------------------
(* Every environment for one process alone, and the pairs of valid ones     *)
(* that meet on one file.                                                  *)
EXTENDS Boot, TLC

CONSTANTS p1, p2

Off == [cmd |-> "none", mode |-> "all", auth |-> "token", driver |-> "mem", path |-> TRUE,
        token |-> TRUE, oidc |-> FALSE, s3 |-> FALSE]
Admin == [Off EXCEPT !.cmd = "server", !.driver = "s3compat", !.s3 = TRUE]
Login == [Admin EXCEPT !.auth = "oidc", !.oidc = TRUE, !.token = FALSE, !.mode = "admin"]
Serve == [Admin EXCEPT !.mode = "serve", !.path = FALSE, !.token = FALSE]
Seed == [Admin EXCEPT !.cmd = "seed"]

Alone == {p1 :> e @@ p2 :> Off :
              e \in {e \in Environments : e.cmd = "server" \/ (e.cmd = "seed" /\ e.path)}}
Pairs == {p1 :> Login @@ p2 :> Admin, p1 :> Login @@ p2 :> Seed,
          p1 :> Admin @@ p2 :> Serve, p1 :> Seed @@ p2 :> Seed}
MCFleets == Alone \cup Pairs
Admins == {p1 :> Admin @@ p2 :> Admin}
=============================================================================
