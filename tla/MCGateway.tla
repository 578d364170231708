----------------------------- MODULE MCGateway -----------------------------
(***************************************************************************)
(* Gateway for a member who owns c1 and reaches c2 while it is public: one *)
(* request, along two routes that are saved anew meanwhile, to the other   *)
(* connection or to the same one twice, in a world that spends the windows *)
(* and edits the connections at any moment.                                *)
(***************************************************************************)
EXTENDS Gateway, TLC

CONSTANTS c1, c2, r1

MCConnections == {c1, c2}
MCRequests == {r1}
MCOwn == {c1}
TwoRoutes == { 1 :> c2 @@ 2 :> c1, 1 :> c2 @@ 2 :> c2 }

=============================================================================
