---------------------------- MODULE QuotaRules ----------------------------
(***************************************************************************)
(* What a reservation of requests on a provider connection is judged by:   *)
(* who may use the connection, the minute and the UTC day a moment falls   *)
(* in, and the verdict of reserve_connection_requests                      *)
(* (db/migrations/0011_public_connection_limits.sql) for given counts.     *)
(* Constant-level: the atomic specification, the row-locking one and the   *)
(* components that call the function share it.                             *)
(*                                                                         *)
(* Time is counted in ticks, TicksPerSecond of them to a second, so that   *)
(* rounding a delay up to whole seconds is visible.                        *)
(***************************************************************************)
EXTENDS Integers

CONSTANTS
  Users,          \* users.id
  Admins,         \* the users whose role is 'admin'
  Connections,    \* connections.id
  Owner,          \* connections.owner_user_id
  Policies,       \* the settings an owner may give a connection
  Amounts,        \* requests asked for in one call (1 or 2 in the code)
  TicksPerSecond,
  MinuteTicks,    \* ticks in a minute window
  MinutesPerDay   \* minute windows in a day window

Policy == [enabled : BOOLEAN, public : BOOLEAN,
           perMinute : Nat \ {0}, perDay : Nat \ {0}]

ASSUME QuotaAssumption ==
  /\ Users # {} /\ Connections # {} /\ Amounts # {} /\ Policies # {}
  /\ Admins \subseteq Users
  /\ Owner \in [Connections -> Users]
  /\ Policies \subseteq Policy
  /\ Amounts \subseteq {1, 2}
  /\ TicksPerSecond \in Nat \ {0}
  /\ MinuteTicks \in Nat \ {0}
  /\ MinutesPerDay \in Nat \ {0}

\* Each (connection, user) pair has its own row in connection_quotas.
Accounts == Connections \X Users

Calls == [user : Users, connection : Connections, amount : Amounts]

\* What the registers of a caller that is not calling hold; never read.
AnyCall == CHOOSE k \in Calls : TRUE

Account(k) == <<k.connection, k.user>>

DayTicks == MinutesPerDay * MinuteTicks
Minute(t) == t \div MinuteTicks
Day(t)    == t \div DayTicks

MinuteEnd(t) == (Minute(t) + 1) * MinuteTicks
DayEnd(t)    == (Day(t) + 1) * DayTicks

SecondsRoundedDown(t, end) ==   \* a mutant: floor for ceil
  IF end - t < TicksPerSecond THEN 1 ELSE (end - t) \div TicksPerSecond

\* greatest(1, ceil(end - t)) in seconds, for an end that lies after t.
SecondsUntil(t, end) == 1 + (end - t - 1) \div TicksPerSecond

\* A user may use a connection that is enabled and public, its own, or any
\* when it is an administrator.
MayUse(policy, c, u) ==
  /\ policy.enabled
  /\ policy.public \/ Owner[c] = u \/ u \in Admins

Inaccessible == -1
Granted      == 0

(***************************************************************************)
(* The verdict at moment t on n more requests, given what the account has  *)
(* spent in the day and the minute t falls in: the day is judged first, so *)
(* a positive answer names the window that keeps the caller waiting        *)
(* longest.                                                                *)
(***************************************************************************)
Verdict(policy, spentMinute, spentDay, t, n) ==
  IF spentDay + n > policy.perDay THEN SecondsUntil(t, DayEnd(t))
  ELSE IF spentMinute + n > policy.perMinute THEN SecondsUntil(t, MinuteEnd(t))
  ELSE Granted

=============================================================================
