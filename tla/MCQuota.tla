------------------------------ MODULE MCQuota ------------------------------
(***************************************************************************)
(* Quota on a small instance: the owner of a public connection has two     *)
(* calls in flight on it while its limits change to ones that two or three *)
(* requests fit, and while it is private, disabled or deleted.  A minute   *)
(* is four ticks of half a second and a day two minutes, so the clock      *)
(* crosses minutes and a day within the bound, and Retry-After has more    *)
(* than one value.                                                         *)
(***************************************************************************)
EXTENDS Quota

CONSTANTS bob, c1, p1, p2

MCOwner == [c \in {c1} |-> bob]

Public(m, d) == [enabled |-> TRUE, public |-> TRUE, perMinute |-> m, perDay |-> d]

MCPolicies ==
  {Public(1, 3), Public(2, 2),
   [Public(1, 3) EXCEPT !.public = FALSE], [Public(1, 3) EXCEPT !.enabled = FALSE]}

=============================================================================
