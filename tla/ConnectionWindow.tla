-------------------------- MODULE ConnectionWindow --------------------------
(***************************************************************************)
(* Connections and one user's share of their quotas, as the callers of     *)
(* reserve_connection_requests see them                                    *)
(* (db/migrations/0011_public_connection_limits.sql 16-52): how each may   *)
(* be used, and how much its window still grants.  Quota implements this   *)
(* atomic view; of its two windows the one that binds is kept, and its end *)
(* may come at any time.                                                   *)
(***************************************************************************)
EXTENDS Integers

CONSTANTS
  Connections,    \* connections.id
  Own,            \* the connections the user owns
  Admin,          \* whether the user is an administrator
  Limit           \* requests a window grants on a public connection

VARIABLES
  setting,        \* connection -> how it may be used
  room            \* connection -> requests its window still grants the user

Settings == {"public", "private", "disabled"}

\* A private connection is open to its owner and to administrators; a public
\* one is metered for all, its owner included.
Unmetered(c) == setting[c] = "private" /\ (c \in Own \/ Admin)
Metered(c) == setting[c] = "public"

\* The four outcomes of a reservation of one request.
Granted(c) == Metered(c) /\ room[c] > 0 /\ room' = [room EXCEPT ![c] = @ - 1]
GrantedFreely(c) == Unmetered(c) /\ UNCHANGED room
Limited(c) == Metered(c) /\ room[c] = 0 /\ UNCHANGED room
Inaccessible(c) == ~Metered(c) /\ ~Unmetered(c) /\ UNCHANGED room

\* PATCH or DELETE /api/connections/[id].
Edited(c) == \E s \in Settings : setting' = [setting EXCEPT ![c] = s]

\* Every caller of the function spends the same window.
SpentElsewhere(c) == Granted(c)

\* A minute or a day ends.
WindowEnded(c) == room' = [room EXCEPT ![c] = Limit]

=============================================================================
