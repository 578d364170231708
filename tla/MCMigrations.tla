---------------------------- MODULE MCMigrations ----------------------------
(***************************************************************************)
(* Migrations for three gateways and three files, of which the first may   *)
(* run again: one release, an older and a newer release together, a file   *)
(* that was changed, and a file added between two others.                  *)
(***************************************************************************)
EXTENDS Migrations

CONSTANTS g1, g2, g3, a, b, none

MCGateways == {g1, g2, g3}

Release(s1, s2, s3) == <<s1, s2, s3>>
Deploy(x, y, z) == [g \in MCGateways |-> IF g = g1 THEN x ELSE IF g = g2 THEN y ELSE z]

MCDeployments ==
  LET whole == Release(a, a, a) IN
  {Deploy(whole, whole, whole),
   Deploy(Release(a, a, none), whole, whole),
   Deploy(Release(a, b, a), whole, whole),
   Deploy(Release(a, none, a), whole, whole)}

=============================================================================
