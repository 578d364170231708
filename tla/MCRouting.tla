----------------------------- MODULE MCRouting -----------------------------
(***************************************************************************)
(* Routing for two users, one of whom owns c1: two requests at a time over *)
(* two configurations and one connection.                                 *)
(***************************************************************************)
EXTENDS Routing

CONSTANTS u1, u2, k1, k2, c1, r1, r2

MCUsers == {u1, u2}
MCConfigs == {k1, k2}
MCConnections == {c1}
MCConnectionOwner == [c \in MCConnections |-> u1]
MCRequests == {r1, r2}

=============================================================================
