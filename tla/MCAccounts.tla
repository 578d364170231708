----------------------------- MODULE MCAccounts -----------------------------
(***************************************************************************)
(* Accounts with the configured administrator and two users, either of     *)
(* whom may be made an administrator and create the other, three sessions  *)
(* and two requests at once: enough for a login, a change and a second     *)
(* change or login of the same user to overlap.                            *)
(***************************************************************************)
EXTENDS Accounts, TLC

CONSTANTS root, user, third, temporary, chosen, other, k1, r1, r2, s1, s2, s3

MCUsers == {root, user, third}
MCPasswords == {temporary, chosen, other}
MCSessions == {s1, s2, s3}
MCKeys == {k1}
MCRequests == {r1, r2}

Alike ==
  Permutations({user, third}) \cup Permutations(MCRequests) \cup Permutations(MCSessions)

=============================================================================
