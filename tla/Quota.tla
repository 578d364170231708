------------------------------- MODULE Quota -------------------------------
(***************************************************************************)
(* reserve_connection_requests as PostgreSQL runs it                       *)
(* (db/migrations/0011_public_connection_limits.sql 16-52): several        *)
(* callers, the gateway's requests and the control plane's probes, are     *)
(* inside the function at once.  It takes a share lock on the connection,  *)
(* then creates or locks the account's row in connection_quotas, reads the *)
(* clock again, judges, writes the row and commits.  Between those steps   *)
(* other callers move, the clock runs and the owner edits or deletes the   *)
(* connection.                                                             *)
(*                                                                         *)
(* One action is one stretch of the function between two waits.  Locks are *)
(* not separate variables: who holds one follows from the phases.          *)
(***************************************************************************)
EXTENDS QuotaRules

CONSTANTS
  Callers,        \* calls of the function that may be in flight at once
  Horizon         \* bound on the clock, in ticks

ASSUME HorizonAssumption == Horizon \in Nat

Minutes == 0 .. Minute(Horizon)
Days    == 0 .. Day(Horizon)

\* A row of connection_quotas; present is FALSE until an INSERT commits.
Rows == [present : BOOLEAN, minute : Minutes, day : Days,
         minuteUsed : Nat, dayUsed : Nat]

FreshRow(t) == [present |-> TRUE, minute |-> Minute(t), day |-> Day(t),
                minuteUsed |-> 0, dayUsed |-> 0]
NoRow == [present |-> FALSE, minute |-> 0, day |-> 0,
          minuteUsed |-> 0, dayUsed |-> 0]

VARIABLES
  now,            \* the database's clock
  live,           \* connections that have not been deleted
  policy,         \* connection -> its settings
  quota,          \* account -> its committed row
  phase,          \* caller -> how far its call has come
  call,           \* caller -> its arguments
  began,          \* caller -> the clock when it called
  provider,       \* caller -> the settings it read under the share lock
  row,            \* caller -> the quota row it holds locked
  checked,        \* caller -> the clock it read once it held the row
  answer,         \* caller -> what it was told
  \* history: requests granted to an account in each minute and day
  minuteSpent, daySpent

locals == <<phase, call, began, provider, row, checked, answer>>
ledger == <<minuteSpent, daySpent>>
vars == <<now, live, policy, quota, phase, call, began, provider, row,
          checked, answer, minuteSpent, daySpent>>

Phases == {"idle", "called", "sharing", "locked", "answered"}

AnyPolicy == CHOOSE s \in Policies : TRUE

TypeOK ==
  /\ now \in 0 .. Horizon
  /\ live \subseteq Connections
  /\ policy \in [Connections -> Policies]
  /\ quota \in [Accounts -> Rows]
  /\ phase \in [Callers -> Phases]
  /\ call \in [Callers -> Calls]
  /\ began \in [Callers -> 0 .. Horizon]
  /\ provider \in [Callers -> Policies]
  /\ row \in [Callers -> Rows]
  /\ checked \in [Callers -> 0 .. Horizon]
  /\ answer \in [Callers -> Int]
  /\ minuteSpent \in [Accounts -> [Minutes -> Nat]]
  /\ daySpent \in [Accounts -> [Days -> Nat]]

Init ==
  /\ now = 0
  /\ live = Connections
  /\ policy \in [Connections -> Policies]
  /\ quota = [a \in Accounts |-> NoRow]
  /\ phase = [p \in Callers |-> "idle"]
  /\ call = [p \in Callers |-> AnyCall]
  /\ began = [p \in Callers |-> 0]
  /\ provider = [p \in Callers |-> AnyPolicy]
  /\ row = [p \in Callers |-> NoRow]
  /\ checked = [p \in Callers |-> 0]
  /\ answer = [p \in Callers |-> Granted]
  /\ minuteSpent = [a \in Accounts |-> [m \in Minutes |-> 0]]
  /\ daySpent = [a \in Accounts |-> [d \in Days |-> 0]]

-----------------------------------------------------------------------------
(* Who holds which lock. *)

\* FOR SHARE on the connection, from the first SELECT to the commit.
SharesConnection(p, c) ==
  phase[p] \in {"sharing", "locked"} /\ call[p].connection = c

\* The unique-key entry being inserted, or FOR UPDATE on the row.
HoldsRow(p, a) == phase[p] = "locked" /\ Account(call[p]) = a

-----------------------------------------------------------------------------
(* The function. *)

Call(p, k) ==
  /\ phase[p] = "idle"
  /\ phase' = [phase EXCEPT ![p] = "called"]
  /\ call' = [call EXCEPT ![p] = k]
  /\ began' = [began EXCEPT ![p] = now]
  /\ UNCHANGED <<now, live, policy, quota, provider, row, checked, answer, ledger>>

\* SELECT ... FOR SHARE: not found, private, or on to the quota row.
ShareConnection(p) ==
  LET c == call[p].connection
      found == c \in live /\ MayUse(policy[c], c, call[p].user)
  IN  /\ phase[p] = "called"
      /\ IF found /\ policy[c].public
         THEN /\ phase' = [phase EXCEPT ![p] = "sharing"]
              /\ provider' = [provider EXCEPT ![p] = policy[c]]
              /\ UNCHANGED <<began, answer>>
         ELSE /\ phase' = [phase EXCEPT ![p] = "answered"]
              /\ answer' = [answer EXCEPT ![p] = IF found THEN Granted ELSE Inaccessible]
              /\ began' = [began EXCEPT ![p] = 0]
              /\ UNCHANGED provider
      /\ UNCHANGED <<now, live, policy, quota, call, row, checked, ledger>>

LockQuotaUnserialized(p) ==   \* a mutant: SELECT without FOR UPDATE
  /\ phase[p] = "sharing"
  /\ phase' = [phase EXCEPT ![p] = "locked"]
  /\ row' = [row EXCEPT ![p] = IF quota[Account(call[p])].present
                               THEN quota[Account(call[p])] ELSE FreshRow(began[p])]
  /\ checked' = [checked EXCEPT ![p] = now]
  /\ UNCHANGED <<now, live, policy, quota, call, began, provider, answer, ledger>>

LockQuotaUpgrading(p) ==   \* a mutant: FOR UPDATE on the connection as well
  /\ phase[p] = "sharing"
  /\ \A q \in Callers \ {p} : ~SharesConnection(q, call[p].connection)
  /\ phase' = [phase EXCEPT ![p] = "locked"]
  /\ row' = [row EXCEPT ![p] = IF quota[Account(call[p])].present
                               THEN quota[Account(call[p])] ELSE FreshRow(began[p])]
  /\ checked' = [checked EXCEPT ![p] = now]
  /\ UNCHANGED <<now, live, policy, quota, call, began, provider, answer, ledger>>

\* INSERT ... ON CONFLICT DO NOTHING, SELECT ... FOR UPDATE, and the clock
\* read that follows: both statements wait for whoever holds the row.
LockQuota(p) ==
  LET a == Account(call[p])
  IN  /\ phase[p] = "sharing"
      /\ \A q \in Callers : ~HoldsRow(q, a)
      /\ phase' = [phase EXCEPT ![p] = "locked"]
      /\ row' = [row EXCEPT ![p] = IF quota[a].present THEN quota[a]
                                                       ELSE FreshRow(began[p])]
      /\ checked' = [checked EXCEPT ![p] = now]
      /\ UNCHANGED <<now, live, policy, quota, call, began, provider, answer, ledger>>

UsedTodayKept(r, t) == r.dayUsed   \* a mutant: no reset at the day rollover

\* Counts of an earlier window do not bind.
UsedThisMinute(r, t) == IF r.minute # Minute(t) THEN 0 ELSE r.minuteUsed
UsedToday(r, t)      == IF r.day # Day(t) THEN 0 ELSE r.dayUsed

Updated(r, t, n) ==
  [present |-> TRUE, minute |-> Minute(t), day |-> Day(t),
   minuteUsed |-> UsedThisMinute(r, t) + n, dayUsed |-> UsedToday(r, t) + n]

Charged(spent, a, w, n) == [spent EXCEPT ![a][w] = @ + n]

\* The comparisons, the UPDATE when there is room, RETURN and the commit. A
\* refusal commits as well, and with it the row an INSERT created.  The
\* function's variables end with it.
Decide(p) ==
  LET a == Account(call[p])
      n == call[p].amount
      t == checked[p]
      r == row[p]
      v == Verdict(provider[p], UsedThisMinute(r, t), UsedToday(r, t), t, n)
  IN  /\ phase[p] = "locked"
      /\ phase' = [phase EXCEPT ![p] = "answered"]
      /\ answer' = [answer EXCEPT ![p] = v]
      /\ quota' = [quota EXCEPT ![a] = IF v = Granted THEN Updated(r, t, n) ELSE r]
      /\ minuteSpent' = IF v = Granted THEN Charged(minuteSpent, a, Minute(t), n)
                                       ELSE minuteSpent
      /\ daySpent' = IF v = Granted THEN Charged(daySpent, a, Day(t), n) ELSE daySpent
      /\ began' = [began EXCEPT ![p] = 0]
      /\ provider' = [provider EXCEPT ![p] = AnyPolicy]
      /\ row' = [row EXCEPT ![p] = NoRow]
      /\ checked' = [checked EXCEPT ![p] = 0]
      /\ UNCHANGED <<now, live, policy, call>>

\* The answer is taken, or the call is cancelled (the client went away, the
\* server stopped) and rolled back: its locks go, an uncommitted row with them.
Leave(p) ==
  /\ phase[p] # "idle"
  /\ phase' = [phase EXCEPT ![p] = "idle"]
  /\ call' = [call EXCEPT ![p] = AnyCall]
  /\ began' = [began EXCEPT ![p] = 0]
  /\ provider' = [provider EXCEPT ![p] = AnyPolicy]
  /\ row' = [row EXCEPT ![p] = NoRow]
  /\ checked' = [checked EXCEPT ![p] = 0]
  /\ answer' = [answer EXCEPT ![p] = Granted]
  /\ UNCHANGED <<now, live, policy, quota, ledger>>

-----------------------------------------------------------------------------
(* The rest of the system. *)

EditConnectionUnderShare(c) ==   \* a mutant: the SELECT takes no FOR SHARE
  /\ c \in live
  /\ \E s \in Policies : policy' = [policy EXCEPT ![c] = s]
  /\ UNCHANGED <<now, live, quota, locals, ledger>>

\* PATCH /api/connections/[id] and the enabled flag of /api/providers/[id]:
\* an UPDATE waits until nobody shares the row.
EditConnection(c) ==
  /\ c \in live
  /\ \A p \in Callers : ~SharesConnection(p, c)
  /\ \E s \in Policies : policy' = [policy EXCEPT ![c] = s]
  /\ UNCHANGED <<now, live, quota, locals, ledger>>

\* DELETE /api/connections/[id]; the quota rows go by ON DELETE CASCADE.
DeleteConnection(c) ==
  /\ c \in live
  /\ \A p \in Callers : ~SharesConnection(p, c)
  /\ live' = live \ {c}
  /\ quota' = [a \in Accounts |-> IF a[1] = c THEN NoRow ELSE quota[a]]
  /\ UNCHANGED <<now, policy, locals, ledger>>

Tick ==
  /\ now < Horizon
  /\ now' = now + 1
  /\ UNCHANGED <<live, policy, quota, locals, ledger>>

Step(p) == ShareConnection(p) \/ LockQuota(p) \/ Decide(p)

Next ==
  \/ \E p \in Callers :
       \/ \E k \in Calls : Call(p, k)
       \/ ShareConnection(p)
       \/ LockQuota(p)
       \/ Decide(p)
       \/ Leave(p)
  \/ \E c \in Connections : EditConnection(c) \/ DeleteConnection(c)
  \/ Tick

Spec == Init /\ [][Next]_vars

\* PostgreSQL runs every statement it can run, and serves the waiters on a row
\* in turn, so a caller that can lock the row again and again gets it.
FairSpec ==
  /\ Spec
  /\ \A p \in Callers : /\ WF_vars(ShareConnection(p))
                        /\ SF_vars(LockQuota(p))
                        /\ WF_vars(Decide(p))

-----------------------------------------------------------------------------
(* Properties. *)

Spent(spent, a, w) == IF w \in DOMAIN spent[a] THEN spent[a][w] ELSE 0

(***************************************************************************)
(* The row and the ledger agree: the row of a live connection counts       *)
(* exactly what was granted in its minute and its day, and nothing was     *)
(* granted in a later one.  A lost update, a missed rollover or a second   *)
(* row for the same account would break it.  (0011 32-50)                  *)
(***************************************************************************)
RowsCountGrants ==
  \A a \in Accounts :
    LET q == quota[a]
        minute == IF q.present THEN q.minute ELSE -1
        day == IF q.present THEN q.day ELSE -1
    IN  a[1] \in live =>
          /\ \A m \in Minutes : m >= minute =>
               minuteSpent[a][m] = IF m = minute THEN q.minuteUsed ELSE 0
          /\ \A d \in Days : d >= day =>
               daySpent[a][d] = IF d = day THEN q.dayUsed ELSE 0

(***************************************************************************)
(* No grant ever takes an account over the limits of the connection as     *)
(* they stand when it commits, whatever the other callers, the clock and   *)
(* the owner did since the call began ("lowered limit applies              *)
(* immediately", tests/sql/public-connection-limits.sql).                  *)
(***************************************************************************)
GrantsWithinLimits ==
  [][\A a \in Accounts :
       /\ \A m \in Minutes : minuteSpent'[a][m] # minuteSpent[a][m] =>
            minuteSpent'[a][m] <= policy[a[1]].perMinute
       /\ \A d \in Days : daySpent'[a][d] # daySpent[a][d] =>
            daySpent'[a][d] <= policy[a[1]].perDay]_vars

(***************************************************************************)
(* A Retry-After is neither early nor late: a caller that waits that long  *)
(* would be let in if nobody else spends in between, and one that waits a  *)
(* second less would not.  Only an amount that fits the limits at all has  *)
(* such a moment.  (0011 41-46)                                            *)
(***************************************************************************)
RetryAfterIsExact ==
  [][\A p \in Callers :
       LET a == Account(call[p])
           n == call[p].amount
           s == policy[a[1]]
           At(seconds) == checked[p] + seconds * TicksPerSecond
           VerdictAt(t) == Verdict(s, Spent(minuteSpent, a, Minute(t)),
                                   Spent(daySpent, a, Day(t)), t, n)
       IN  /\ phase[p] = "locked" /\ phase'[p] = "answered"
           /\ answer'[p] > 0
           /\ n <= s.perMinute
           /\ n <= s.perDay
           => /\ VerdictAt(At(answer'[p])) = Granted
              /\ VerdictAt(At(answer'[p] - 1)) # Granted]_vars

(***************************************************************************)
(* What makes the two facts above inductive: while a call is past its      *)
(* first SELECT the settings it read are the connection's settings, the    *)
(* row it locked is the account's row and its alone, and no row is from a  *)
(* window later than the clock its holder read.                            *)
(***************************************************************************)
SettingsHeld ==
  \A p \in Callers : phase[p] \in {"sharing", "locked"} =>
    LET c == call[p].connection
    IN  /\ c \in live
        /\ provider[p] = policy[c]
        /\ policy[c].public
        /\ MayUse(policy[c], c, call[p].user)

RowHeld ==
  \A p \in Callers : phase[p] = "locked" =>
    LET a == Account(call[p])
    IN  /\ row[p] = IF quota[a].present THEN quota[a] ELSE FreshRow(began[p])
        /\ \A q \in Callers : HoldsRow(q, a) => q = p

ClocksOrdered ==
  /\ \A a \in Accounts : quota[a].minute <= Minute(now) /\ quota[a].day <= Day(now)
  /\ \A p \in Callers : began[p] <= now
  /\ \A p \in Callers : phase[p] = "locked" =>
       /\ began[p] <= checked[p]
       /\ checked[p] <= now
       /\ quota[Account(call[p])].minute <= Minute(checked[p])
       /\ quota[Account(call[p])].day <= Day(checked[p])

IInv == TypeOK /\ SettingsHeld /\ RowHeld /\ ClocksOrdered /\ RowsCountGrants

\* The function refines one atomic step on the ledger: however the calls
\* overlap, each answer is the verdict of an instant of its own call.
Atomic == INSTANCE AtomicQuota WITH
  phase <- [p \in Callers |-> IF phase[p] \in {"called", "sharing", "locked"}
                              THEN "asked" ELSE phase[p]]

RefinesAtomicQuota == Atomic!Spec

(***************************************************************************)
(* A call does not hang: with the waiters on a row served in turn it is    *)
(* answered, or its caller gives up.  (0011 26-51: no lock is taken in two *)
(* orders.)                                                                *)
(***************************************************************************)
CallsReturn ==
  \A p \in Callers : phase[p] = "called" ~> phase[p] \in {"answered", "idle"}

=============================================================================
