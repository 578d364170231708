---------------------------- MODULE QuotaProofs ----------------------------
(***************************************************************************)
(* Quota, for any callers, users, connections, policies, amounts and       *)
(* window lengths: IInv is inductive, no grant exceeds the limits in       *)
(* force, and the row-locking function refines the atomic one.             *)
(***************************************************************************)
EXTENDS Quota, TLAPS

-----------------------------------------------------------------------------
(* Windows, verdicts and rows. *)

\* Amounts and limits are numbers (0011 1-2, 16).
LEMMA ConstantTypes ==
  /\ \A n \in Amounts : n \in Nat
  /\ \A s \in Policies : s.perMinute \in Nat /\ s.perDay \in Nat
<1>1. \A n \in Amounts : n \in Nat
  BY QuotaAssumption
<1>2. \A s \in Policies : s.perMinute \in Nat /\ s.perDay \in Nat
  BY QuotaAssumption DEF Policy
<1> QED
  BY <1>1, <1>2

\* A later moment is never in an earlier window.
LEMMA WindowsAdvance ==
  ASSUME NEW t \in Nat, NEW u \in Nat, t <= u
  PROVE  /\ Minute(t) \in Nat /\ Minute(t) <= Minute(u)
         /\ Day(t) \in Nat    /\ Day(t) <= Day(u)
<1>1. /\ MinuteTicks \in Nat \ {0}
      /\ DayTicks \in Nat \ {0}
  BY QuotaAssumption DEF DayTicks
<1>2. ASSUME NEW k \in Nat \ {0}
      PROVE  t \div k \in Nat /\ t \div k <= u \div k
  OBVIOUS
<1> QED
  BY <1>1, <1>2 DEF Minute, Day

\* The clock's windows are windows of the ledger.
LEMMA WindowsInRange ==
  ASSUME NEW t \in 0 .. Horizon
  PROVE  Minute(t) \in Minutes /\ Day(t) \in Days
<1>1. t \in Nat /\ Horizon \in Nat /\ t <= Horizon
  BY HorizonAssumption
<1> QED
  BY <1>1, WindowsAdvance DEF Minutes, Days

\* A verdict is a number: granted, or the seconds to wait.
LEMMA VerdictIsInteger ==
  ASSUME NEW s \in Policies, NEW m \in Nat, NEW d \in Nat,
         NEW t \in 0 .. Horizon, NEW n \in Amounts
  PROVE  Verdict(s, m, d, t, n) \in Int
<1>1. ASSUME NEW x \in Int PROVE SecondsUntil(t, x) \in Int
  BY <1>1, QuotaAssumption DEF SecondsUntil
<1>2. MinuteEnd(t) \in Int /\ DayEnd(t) \in Int
  BY QuotaAssumption, WindowsAdvance, HorizonAssumption DEF MinuteEnd, DayEnd, DayTicks
<1> QED
  BY <1>1, <1>2 DEF Verdict, Granted

\* A window ends after every moment in it, so the wait is at least a second.
LEMMA WaitIsPositive ==
  ASSUME NEW t \in Nat
  PROVE  /\ SecondsUntil(t, MinuteEnd(t)) \in Nat \ {0}
         /\ SecondsUntil(t, DayEnd(t)) \in Nat \ {0}
<1>1. /\ MinuteTicks \in Nat \ {0}
      /\ DayTicks \in Nat \ {0}
  BY QuotaAssumption DEF DayTicks
<1>2. ASSUME NEW k \in Nat \ {0}
      PROVE  (t \div k + 1) * k \in Nat /\ t < (t \div k + 1) * k
  <2>1. t \div k \in Nat /\ t < k * (t \div k) + k
    OBVIOUS
  <2>2. (t \div k + 1) * k = k * (t \div k) + k
    BY <2>1
  <2> QED
    BY <2>1, <2>2
<1>3. /\ MinuteEnd(t) \in Nat /\ t < MinuteEnd(t)
      /\ DayEnd(t) \in Nat /\ t < DayEnd(t)
  BY <1>1, <1>2 DEF MinuteEnd, DayEnd, Minute, Day
<1>4. ASSUME NEW x \in Nat, t < x PROVE SecondsUntil(t, x) \in Nat \ {0}
  <2>1. x - t - 1 \in Nat /\ TicksPerSecond \in Nat \ {0}
    BY <1>4, QuotaAssumption
  <2> QED
    BY <2>1 DEF SecondsUntil
<1> QED
  BY <1>3, <1>4

\* What a grant means: the request fits both limits.
LEMMA GrantFits ==
  ASSUME NEW s \in Policies, NEW m \in Nat, NEW d \in Nat,
         NEW t \in 0 .. Horizon, NEW n \in Amounts,
         Verdict(s, m, d, t, n) = Granted
  PROVE  m + n <= s.perMinute /\ d + n <= s.perDay
<1>1. t \in Nat
  BY HorizonAssumption
<1>2. /\ SecondsUntil(t, MinuteEnd(t)) > 0
      /\ SecondsUntil(t, DayEnd(t)) > 0
  BY <1>1, WaitIsPositive
<1>3. /\ m + n \in Nat /\ d + n \in Nat
      /\ s.perMinute \in Nat /\ s.perDay \in Nat
  BY ConstantTypes
<1> QED
  BY <1>2, <1>3 DEF Verdict, Granted

\* Fresh and updated quota rows are rows (0011 32-33, 47-50).
LEMMA RowTypes ==
  /\ NoRow \in Rows
  /\ \A t \in 0 .. Horizon : FreshRow(t) \in Rows
  /\ \A r \in Rows, t \in 0 .. Horizon, n \in Amounts :
       /\ UsedThisMinute(r, t) \in Nat
       /\ UsedToday(r, t) \in Nat
       /\ Updated(r, t, n) \in Rows
<1>1. NoRow \in Rows
  BY HorizonAssumption, WindowsAdvance DEF NoRow, Rows, Minutes, Days
<1>2. \A t \in 0 .. Horizon : FreshRow(t) \in Rows
  BY WindowsInRange DEF FreshRow, Rows
<1>3. ASSUME NEW r \in Rows, NEW t \in 0 .. Horizon, NEW n \in Amounts
      PROVE  /\ UsedThisMinute(r, t) \in Nat
             /\ UsedToday(r, t) \in Nat
             /\ Updated(r, t, n) \in Rows
  <2>1. UsedThisMinute(r, t) \in Nat /\ UsedToday(r, t) \in Nat
    BY DEF Rows, UsedThisMinute, UsedToday
  <2>2. n \in Nat
    BY ConstantTypes
  <2> QED
    BY <2>1, <2>2, WindowsInRange DEF Updated, Rows
<1> QED
  BY <1>1, <1>2, <1>3

\* What the registers of an idle caller hold has the right type.
LEMMA Defaults ==
  /\ AnyCall \in Calls
  /\ AnyPolicy \in Policies
<1>1. PICK u \in Users, c \in Connections, n \in Amounts : TRUE
  BY QuotaAssumption
<1>2. [user |-> u, connection |-> c, amount |-> n] \in Calls
  BY DEF Calls
<1> QED
  BY <1>2, QuotaAssumption DEF AnyCall, AnyPolicy

\* The arguments of a call name an account.
LEMMA CallTypes ==
  ASSUME NEW k \in Calls
  PROVE  /\ k.user \in Users /\ k.connection \in Connections /\ k.amount \in Amounts
         /\ Account(k) \in Accounts /\ Account(k)[1] = k.connection
BY DEF Calls, Account, Accounts

-----------------------------------------------------------------------------
(* The inductive invariant. *)

\* Before any call there is no row, no lock and nothing granted.
THEOREM InitEstablishesIInv == Init => IInv
<1> SUFFICES ASSUME Init PROVE IInv
  OBVIOUS
<1>1. 0 \in 0 .. Horizon /\ Minute(0) \in Nat /\ Day(0) \in Nat
  BY HorizonAssumption, WindowsAdvance
<1>2. TypeOK
  BY <1>1, RowTypes, Defaults DEF Init, TypeOK, Phases, Granted
<1>3. SettingsHeld /\ RowHeld
  BY DEF Init, SettingsHeld, RowHeld
<1>4. ClocksOrdered
  BY <1>1 DEF Init, ClocksOrdered, NoRow
<1>5. RowsCountGrants
  BY DEF Init, RowsCountGrants, NoRow, Minutes, Days
<1> QED
  BY <1>2, <1>3, <1>4, <1>5 DEF IInv

\* A new call.
LEMMA CallPreservesIInv ==
  ASSUME IInv, NEW p \in Callers, NEW k \in Calls, Call(p, k)
  PROVE  IInv'
<1> USE DEF IInv
<1>1. TypeOK'
  BY DEF TypeOK, Call, Phases, ledger
<1>2. SettingsHeld'
  BY DEF TypeOK, Call, SettingsHeld, MayUse
<1>3. RowHeld'
  BY DEF TypeOK, Call, RowHeld, HoldsRow, FreshRow
<1>4. ClocksOrdered'
  BY DEF TypeOK, Call, ClocksOrdered
<1>5. RowsCountGrants'
  BY DEF TypeOK, Call, RowsCountGrants, ledger
<1> QED
  BY <1>1, <1>2, <1>3, <1>4, <1>5

\* The SELECT ... FOR SHARE: the settings read are those in force.
LEMMA ShareConnectionPreservesIInv ==
  ASSUME IInv, NEW p \in Callers, ShareConnection(p)
  PROVE  IInv'
<1> USE DEF IInv
<1>0. 0 \in 0 .. Horizon /\ 0 <= now
  BY HorizonAssumption DEF TypeOK
<1>1. TypeOK'
  <2>1. phase' \in [Callers -> Phases] /\ began' \in [Callers -> 0 .. Horizon]
    BY <1>0 DEF TypeOK, ShareConnection, Phases
  <2>2. provider' \in [Callers -> Policies]
    BY CallTypes DEF TypeOK, ShareConnection
  <2>3. answer' \in [Callers -> Int]
    BY DEF TypeOK, ShareConnection, Granted, Inaccessible
  <2> QED
    BY <2>1, <2>2, <2>3 DEF TypeOK, ShareConnection, ledger
<1>2. SettingsHeld'
  BY DEF TypeOK, ShareConnection, SettingsHeld, MayUse
<1>3. RowHeld'
  BY DEF TypeOK, ShareConnection, RowHeld, HoldsRow, FreshRow
<1>4. ClocksOrdered'
  BY <1>0 DEF TypeOK, ShareConnection, ClocksOrdered
<1>5. RowsCountGrants'
  BY DEF TypeOK, ShareConnection, RowsCountGrants, ledger
<1> QED
  BY <1>1, <1>2, <1>3, <1>4, <1>5

\* The row is free, so the caller becomes its only holder; the clock it reads
\* is the present one, which no committed row is ahead of.
LEMMA LockQuotaPreservesIInv ==
  ASSUME IInv, NEW p \in Callers, LockQuota(p)
  PROVE  IInv'
<1> USE DEF IInv
<1>0. Account(call[p]) \in Accounts
  BY CallTypes DEF TypeOK
<1>1. TypeOK'
  BY <1>0, RowTypes DEF TypeOK, LockQuota, Phases, ledger
<1>2. SettingsHeld'
  BY DEF TypeOK, LockQuota, SettingsHeld, MayUse
<1>3. RowHeld'
  BY <1>0 DEF TypeOK, LockQuota, RowHeld, HoldsRow, FreshRow
<1>4. ClocksOrdered'
  BY <1>0 DEF TypeOK, LockQuota, ClocksOrdered
<1>5. RowsCountGrants'
  BY DEF TypeOK, LockQuota, RowsCountGrants, ledger
<1> QED
  BY <1>1, <1>2, <1>3, <1>4, <1>5

\* The caller's locks go and its variables with them.
LEMMA LeavePreservesIInv ==
  ASSUME IInv, NEW p \in Callers, Leave(p)
  PROVE  IInv'
<1> USE DEF IInv
<1>0. 0 \in 0 .. Horizon /\ 0 <= now
  BY HorizonAssumption DEF TypeOK
<1>1. TypeOK'
  BY <1>0, RowTypes, Defaults DEF TypeOK, Leave, Phases, ledger, Granted
<1>2. SettingsHeld'
  BY DEF TypeOK, Leave, SettingsHeld, MayUse
<1>3. RowHeld'
  BY DEF TypeOK, Leave, RowHeld, HoldsRow, FreshRow
<1>4. ClocksOrdered'
  BY <1>0 DEF TypeOK, Leave, ClocksOrdered
<1>5. RowsCountGrants'
  BY DEF TypeOK, Leave, RowsCountGrants, ledger
<1> QED
  BY <1>1, <1>2, <1>3, <1>4, <1>5

\* An edit waits for the callers that share the connection, so what the
\* others read is untouched.
LEMMA EditConnectionPreservesIInv ==
  ASSUME IInv, NEW c \in Connections, EditConnection(c)
  PROVE  IInv'
<1> USE DEF IInv
<1>1. TypeOK'
  BY DEF TypeOK, EditConnection, ledger, locals
<1>2. SettingsHeld'
  BY DEF TypeOK, EditConnection, SettingsHeld, MayUse, SharesConnection, locals
<1>3. RowHeld'
  BY DEF TypeOK, EditConnection, RowHeld, HoldsRow, FreshRow, locals
<1>4. ClocksOrdered'
  BY DEF TypeOK, EditConnection, ClocksOrdered, locals
<1>5. RowsCountGrants'
  BY DEF TypeOK, EditConnection, RowsCountGrants, ledger
<1> QED
  BY <1>1, <1>2, <1>3, <1>4, <1>5

\* A deletion waits for the sharers too; only rows of the dead connection go.
LEMMA DeleteConnectionPreservesIInv ==
  ASSUME IInv, NEW c \in Connections, DeleteConnection(c)
  PROVE  IInv'
<1> USE DEF IInv
<1>0. \A p \in Callers : phase[p] = "locked" =>
        /\ Account(call[p])[1] # c
        /\ quota'[Account(call[p])] = quota[Account(call[p])]
  BY CallTypes DEF TypeOK, DeleteConnection, SharesConnection
<1>1. TypeOK'
  BY RowTypes DEF TypeOK, DeleteConnection, ledger, locals
<1>2. SettingsHeld'
  BY DEF TypeOK, DeleteConnection, SettingsHeld, MayUse, SharesConnection, locals
<1>3. RowHeld'
  BY <1>0 DEF TypeOK, DeleteConnection, RowHeld, HoldsRow, FreshRow, locals
<1>4. ClocksOrdered'
  <2>1. 0 <= Minute(now) /\ 0 <= Day(now)
    BY WindowsAdvance, HorizonAssumption DEF TypeOK
  <2>2. \A a \in Accounts : /\ quota'[a].minute <= Minute(now)
                            /\ quota'[a].day <= Day(now)
    BY <2>1 DEF TypeOK, DeleteConnection, ClocksOrdered, NoRow
  <2> QED
    BY <1>0, <2>2 DEF TypeOK, DeleteConnection, ClocksOrdered, locals
<1>5. RowsCountGrants'
  <2> SUFFICES ASSUME NEW a \in Accounts, a[1] \in live \ {c}
               PROVE  quota'[a] = quota[a]
    BY DEF DeleteConnection, RowsCountGrants, ledger
  <2> QED
    BY DEF DeleteConnection
<1> QED
  BY <1>1, <1>2, <1>3, <1>4, <1>5

\* Time only takes the clock further from the rows.
LEMMA TickPreservesIInv ==
  ASSUME IInv, Tick
  PROVE  IInv'
<1> USE DEF IInv
<1>0. /\ now' \in 0 .. Horizon /\ now <= now'
      /\ Minute(now) <= Minute(now') /\ Day(now) <= Day(now')
      /\ Minute(now) \in Nat /\ Minute(now') \in Nat
      /\ Day(now) \in Nat /\ Day(now') \in Nat
  <2>1. now \in Nat /\ now' \in Nat /\ now <= now' /\ now' \in 0 .. Horizon
    BY HorizonAssumption DEF TypeOK, Tick
  <2> QED
    BY <2>1, WindowsAdvance
<1>1. TypeOK'
  BY <1>0 DEF TypeOK, Tick, ledger, locals
<1>2. SettingsHeld'
  BY DEF TypeOK, Tick, SettingsHeld, MayUse, locals
<1>3. RowHeld'
  BY DEF TypeOK, Tick, RowHeld, HoldsRow, FreshRow, locals
<1>4. ClocksOrdered'
  <2>1. \A a \in Accounts : quota[a].minute \in Nat /\ quota[a].day \in Nat
    BY DEF TypeOK, Rows, Minutes, Days
  <2>2. \A a \in Accounts : /\ quota'[a].minute <= Minute(now')
                            /\ quota'[a].day <= Day(now')
    BY <1>0, <2>1 DEF ClocksOrdered, Tick
  <2> QED
    BY <1>0, <2>2 DEF TypeOK, Tick, ClocksOrdered, locals
<1>5. RowsCountGrants'
  BY DEF TypeOK, Tick, RowsCountGrants, ledger
<1> QED
  BY <1>1, <1>2, <1>3, <1>4, <1>5

\* The caller that holds a row holds the ledger's current counts: what it
\* adds up for its minute and its day is what was granted in them.
LEMMA HolderKnowsLedger ==
  ASSUME IInv, NEW p \in Callers, phase[p] = "locked"
  PROVE  LET a == Account(call[p])
             r == row[p]
             t == checked[p]
         IN  /\ a \in Accounts /\ a[1] \in live
             /\ r \in Rows
             /\ r.minute <= Minute(t) /\ r.day <= Day(t)
             /\ r.present
             /\ \A m \in Minutes : m >= r.minute =>
                  minuteSpent[a][m] = IF m = r.minute THEN r.minuteUsed ELSE 0
             /\ \A d \in Days : d >= r.day =>
                  daySpent[a][d] = IF d = r.day THEN r.dayUsed ELSE 0
             /\ UsedThisMinute(r, t) = minuteSpent[a][Minute(t)]
             /\ UsedToday(r, t) = daySpent[a][Day(t)]
<1> DEFINE a == Account(call[p])
           r == row[p]
           t == checked[p]
<1> USE DEF IInv
<1>1. /\ a \in Accounts /\ a[1] \in live
      /\ r \in Rows /\ t \in 0 .. Horizon /\ began[p] \in 0 .. Horizon
      /\ Minute(t) \in Minutes /\ Day(t) \in Days
  BY CallTypes, WindowsInRange DEF TypeOK, SettingsHeld
<1>2. began[p] <= t /\ began[p] \in Nat /\ t \in Nat
  BY <1>1, HorizonAssumption DEF ClocksOrdered
<1>3. /\ Minute(began[p]) <= Minute(t) /\ Minute(began[p]) \in Minutes
      /\ Day(began[p]) <= Day(t) /\ Day(began[p]) \in Days
  BY <1>1, <1>2, WindowsAdvance, WindowsInRange
<1>4. /\ r.minute <= Minute(t) /\ r.day <= Day(t) /\ r.present
      /\ \A m \in Minutes : m >= r.minute =>
           minuteSpent[a][m] = IF m = r.minute THEN r.minuteUsed ELSE 0
      /\ \A d \in Days : d >= r.day =>
           daySpent[a][d] = IF d = r.day THEN r.dayUsed ELSE 0
  <2>1. CASE quota[a].present
    <3>1. r = quota[a]
      BY <2>1 DEF RowHeld
    <3>2. r.minute <= Minute(t) /\ r.day <= Day(t) /\ r.present
      BY <2>1, <3>1 DEF ClocksOrdered
    <3> QED
      BY <1>1, <2>1, <3>1, <3>2 DEF RowsCountGrants
  <2>2. CASE ~quota[a].present
    <3>1. r = FreshRow(began[p])
      BY <2>2 DEF RowHeld
    <3>2. /\ \A m \in Minutes : minuteSpent[a][m] = 0
          /\ \A d \in Days : daySpent[a][d] = 0
      BY <1>1, <2>2 DEF RowsCountGrants, Minutes, Days
    <3> QED
      BY <1>3, <3>1, <3>2 DEF FreshRow
  <2> QED
    BY <2>1, <2>2
<1>5. /\ UsedThisMinute(r, t) = minuteSpent[a][Minute(t)]
      /\ UsedToday(r, t) = daySpent[a][Day(t)]
  BY <1>1, <1>4 DEF UsedThisMinute, UsedToday, Rows, Minutes, Days
<1> QED
  BY <1>1, <1>4, <1>5

\* The holder judges, writes and commits: the ledger moves with the row.
LEMMA DecidePreservesIInv ==
  ASSUME IInv, NEW p \in Callers, Decide(p)
  PROVE  IInv'
<1> DEFINE a == Account(call[p])
           n == call[p].amount
           r == row[p]
           t == checked[p]
           v == Verdict(provider[p], UsedThisMinute(r, t), UsedToday(r, t), t, n)
<1> USE DEF IInv
<1>0. phase[p] = "locked"
  BY DEF Decide
<1>1. /\ a \in Accounts /\ n \in Amounts /\ n \in Nat /\ r \in Rows
      /\ t \in 0 .. Horizon /\ 0 \in 0 .. Horizon /\ 0 <= now /\ t <= now
      /\ Minute(t) \in Minutes /\ Day(t) \in Days
      /\ Minute(t) <= Minute(now) /\ Day(t) <= Day(now)
  <2>1. a \in Accounts /\ n \in Amounts /\ t \in 0 .. Horizon /\ r \in Rows
    BY CallTypes DEF TypeOK
  <2>2. t \in Nat /\ now \in Nat /\ t <= now /\ 0 \in 0 .. Horizon
    BY <1>0, <2>1, HorizonAssumption DEF TypeOK, ClocksOrdered
  <2>3. n \in Nat
    BY <2>1, ConstantTypes
  <2>4. Minute(t) <= Minute(now) /\ Day(t) <= Day(now)
    BY <2>2, WindowsAdvance
  <2>5. Minute(t) \in Minutes /\ Day(t) \in Days
    BY <2>1, WindowsInRange
  <2>6. 0 <= now
    BY <2>2
  <2> QED
    BY <2>1, <2>2, <2>3, <2>4, <2>5, <2>6
<1>2. /\ UsedThisMinute(r, t) \in Nat /\ UsedToday(r, t) \in Nat
      /\ Updated(r, t, n) \in Rows /\ v \in Int
  BY <1>1, RowTypes, VerdictIsInteger DEF TypeOK
<1>3. /\ quota' = [quota EXCEPT ![a] = IF v = Granted THEN Updated(r, t, n) ELSE r]
      /\ minuteSpent' = IF v = Granted
                        THEN [minuteSpent EXCEPT ![a][Minute(t)] = @ + n] ELSE minuteSpent
      /\ daySpent' = IF v = Granted
                     THEN [daySpent EXCEPT ![a][Day(t)] = @ + n] ELSE daySpent
      /\ answer' = [answer EXCEPT ![p] = v]
      /\ phase' = [phase EXCEPT ![p] = "answered"]
      /\ began' = [began EXCEPT ![p] = 0]
      /\ provider' = [provider EXCEPT ![p] = AnyPolicy]
      /\ row' = [row EXCEPT ![p] = NoRow]
      /\ checked' = [checked EXCEPT ![p] = 0]
      /\ UNCHANGED <<now, live, policy, call>>
  BY DEF Decide, Charged
<1>4. /\ Updated(r, t, n).minute = Minute(t) /\ Updated(r, t, n).day = Day(t)
      /\ Updated(r, t, n).present
      /\ Updated(r, t, n).minuteUsed = UsedThisMinute(r, t) + n
      /\ Updated(r, t, n).dayUsed = UsedToday(r, t) + n
  BY DEF Updated
<1> HIDE DEF v, a, n, r, t
<1>5. TypeOK'
  <2>1. quota' \in [Accounts -> Rows]
    BY <1>1, <1>2, <1>3 DEF TypeOK
  <2>2. minuteSpent' \in [Accounts -> [Minutes -> Nat]]
    BY <1>1, <1>3 DEF TypeOK
  <2>3. daySpent' \in [Accounts -> [Days -> Nat]]
    BY <1>1, <1>3 DEF TypeOK
  <2>4. /\ phase' \in [Callers -> Phases] /\ answer' \in [Callers -> Int]
        /\ began' \in [Callers -> 0 .. Horizon]
        /\ provider' \in [Callers -> Policies]
        /\ row' \in [Callers -> Rows] /\ checked' \in [Callers -> 0 .. Horizon]
    <3>1. phase' \in [Callers -> Phases] /\ answer' \in [Callers -> Int]
      BY <1>2, <1>3 DEF TypeOK, Phases
    <3>2. began' \in [Callers -> 0 .. Horizon] /\ checked' \in [Callers -> 0 .. Horizon]
      BY <1>1, <1>3 DEF TypeOK
    <3>3. provider' \in [Callers -> Policies] /\ row' \in [Callers -> Rows]
      BY <1>3, RowTypes, Defaults DEF TypeOK
    <3> QED
      BY <3>1, <3>2, <3>3
  <2>5. /\ now' \in 0 .. Horizon /\ live' \subseteq Connections
        /\ policy' \in [Connections -> Policies] /\ call' \in [Callers -> Calls]
    BY <1>3 DEF TypeOK
  <2> QED
    BY <2>1, <2>2, <2>3, <2>4, <2>5 DEF TypeOK
<1>6. SettingsHeld'
  BY <1>3 DEF TypeOK, SettingsHeld, Decide, MayUse
<1>7. RowHeld'
  <2> SUFFICES ASSUME NEW q \in Callers, phase'[q] = "locked"
               PROVE  LET b == Account(call[q])
                      IN  /\ row'[q] = IF quota'[b].present THEN quota'[b]
                                                            ELSE FreshRow(began'[q])
                          /\ \A o \in Callers : HoldsRow(o, b)' => o = q
    BY <1>3 DEF RowHeld, HoldsRow, FreshRow
  <2>1. q # p /\ phase[q] = "locked" /\ row'[q] = row[q] /\ began'[q] = began[q]
    BY <1>3 DEF TypeOK, Decide
  <2>2. Account(call[q]) # a
    BY <1>0, <2>1 DEF RowHeld, HoldsRow, a
  <2>3. Account(call[q]) \in Accounts /\ quota'[Account(call[q])] = quota[Account(call[q])]
    BY <1>3, <2>2, CallTypes DEF TypeOK
  <2> QED
    BY <1>3, <2>1, <2>3 DEF RowHeld, HoldsRow, TypeOK
<1>8. ClocksOrdered'
  <2>1. r.minute <= Minute(t) /\ r.day <= Day(t)
    BY <1>0, HolderKnowsLedger DEF r, t
  <2>2. \A b \in Accounts : /\ quota'[b].minute <= Minute(now)
                            /\ quota'[b].day <= Day(now)
    <3>1. /\ r.minute \in Int /\ r.day \in Int
          /\ Minute(t) \in Int /\ Day(t) \in Int
          /\ Minute(now) \in Int /\ Day(now) \in Int
      <4>1. now \in 0 .. Horizon
        BY DEF TypeOK
      <4>2. Minute(now) \in Minutes /\ Day(now) \in Days
        BY <4>1, WindowsInRange
      <4> QED
        BY <1>1, <4>2 DEF Rows, Minutes, Days
    <3>2. quota'[a].minute <= Minute(now) /\ quota'[a].day <= Day(now)
      <4>1. CASE v = Granted
        <5>1. quota'[a] = Updated(r, t, n)
          BY <1>1, <1>3, <4>1 DEF TypeOK
        <5> QED
          BY <1>1, <1>4, <5>1
      <4>2. CASE v # Granted
        <5>1. quota'[a] = r
          BY <1>1, <1>3, <4>2 DEF TypeOK
        <5> QED
          BY <1>1, <2>1, <3>1, <5>1
      <4> QED
        BY <4>1, <4>2
    <3> QED
      BY <1>3, <3>2 DEF TypeOK, ClocksOrdered
  <2>3. \A q \in Callers : phase'[q] = "locked" =>
          /\ q # p /\ phase[q] = "locked"
          /\ quota'[Account(call[q])] = quota[Account(call[q])]
    BY <1>0, <1>3, CallTypes DEF TypeOK, RowHeld, HoldsRow, a
  <2>4. \A q \in Callers : began'[q] <= now
    BY <1>1 DEF TypeOK, Decide, ClocksOrdered
  <2> QED
    BY <1>3, <2>2, <2>3, <2>4 DEF TypeOK, Decide, ClocksOrdered
<1>9. RowsCountGrants'
  <2> SUFFICES ASSUME NEW b \in Accounts, b[1] \in live
               PROVE  LET q == quota'[b]
                          minute == IF q.present THEN q.minute ELSE -1
                          day == IF q.present THEN q.day ELSE -1
                      IN  /\ \A m \in Minutes : m >= minute =>
                               minuteSpent'[b][m] = IF m = minute THEN q.minuteUsed ELSE 0
                          /\ \A d \in Days : d >= day =>
                               daySpent'[b][d] = IF d = day THEN q.dayUsed ELSE 0
    BY <1>3 DEF RowsCountGrants
  <2>1. CASE b # a
    <3>1. /\ quota'[b] = quota[b] /\ minuteSpent'[b] = minuteSpent[b]
          /\ daySpent'[b] = daySpent[b]
      BY <1>3, <2>1 DEF TypeOK
    <3> QED
      BY <3>1 DEF RowsCountGrants
  <2>2. CASE b = a
    <3>1. /\ r.present /\ r.minute <= Minute(t) /\ r.day <= Day(t)
          /\ \A m \in Minutes : m >= r.minute =>
               minuteSpent[a][m] = IF m = r.minute THEN r.minuteUsed ELSE 0
          /\ \A d \in Days : d >= r.day =>
               daySpent[a][d] = IF d = r.day THEN r.dayUsed ELSE 0
          /\ UsedThisMinute(r, t) = minuteSpent[a][Minute(t)]
          /\ UsedToday(r, t) = daySpent[a][Day(t)]
      BY <1>0, HolderKnowsLedger DEF a, r, t
    <3>2. CASE v # Granted
      <4>1. quota'[a] = r /\ minuteSpent' = minuteSpent /\ daySpent' = daySpent
        BY <1>1, <1>3, <3>2 DEF TypeOK
      <4> QED
        BY <2>2, <3>1, <4>1
    <3>3. CASE v = Granted
      <4>1. quota'[a] = Updated(r, t, n)
        BY <1>1, <1>3, <3>3 DEF TypeOK
      <4>2. \A m \in Minutes : minuteSpent'[a][m] =
              IF m = Minute(t) THEN minuteSpent[a][m] + n ELSE minuteSpent[a][m]
        BY <1>1, <1>3, <3>3 DEF TypeOK
      <4>3. \A d \in Days : daySpent'[a][d] =
              IF d = Day(t) THEN daySpent[a][d] + n ELSE daySpent[a][d]
        BY <1>1, <1>3, <3>3 DEF TypeOK
      <4>4. /\ r.minute \in Minutes /\ r.day \in Days
        BY <1>1 DEF Rows
      <4>5. \A m \in Minutes : m >= Minute(t) => minuteSpent'[a][m] =
              IF m = Minute(t) THEN UsedThisMinute(r, t) + n ELSE 0
        BY <1>1, <3>1, <4>2, <4>4 DEF Minutes
      <4>6. \A d \in Days : d >= Day(t) => daySpent'[a][d] =
              IF d = Day(t) THEN UsedToday(r, t) + n ELSE 0
        BY <1>1, <3>1, <4>3, <4>4 DEF Days
      <4> QED
        BY <1>4, <2>2, <4>1, <4>5, <4>6
    <3> QED
      BY <3>2, <3>3
  <2> QED
    BY <2>1, <2>2
<1> QED
  BY <1>5, <1>6, <1>7, <1>8, <1>9

\* Every stretch of the function and every edit, deletion and tick keeps the
\* invariant.
THEOREM StepPreservesIInv == IInv /\ [Next]_vars => IInv'
<1> SUFFICES ASSUME IInv, [Next]_vars PROVE IInv'
  OBVIOUS
<1>1. CASE UNCHANGED vars
  BY <1>1 DEF vars, IInv, TypeOK, SettingsHeld, RowHeld, ClocksOrdered, RowsCountGrants,
              HoldsRow, MayUse, FreshRow
<1>2. CASE Next
  <2>1. ASSUME NEW p \in Callers, NEW k \in Calls, Call(p, k) PROVE IInv'
    BY <2>1, CallPreservesIInv
  <2>2. ASSUME NEW p \in Callers, ShareConnection(p) PROVE IInv'
    BY <2>2, ShareConnectionPreservesIInv
  <2>3. ASSUME NEW p \in Callers, LockQuota(p) PROVE IInv'
    BY <2>3, LockQuotaPreservesIInv
  <2>4. ASSUME NEW p \in Callers, Decide(p) PROVE IInv'
    BY <2>4, DecidePreservesIInv
  <2>5. ASSUME NEW p \in Callers, Leave(p) PROVE IInv'
    BY <2>5, LeavePreservesIInv
  <2>6. ASSUME NEW c \in Connections, EditConnection(c) PROVE IInv'
    BY <2>6, EditConnectionPreservesIInv
  <2>7. ASSUME NEW c \in Connections, DeleteConnection(c) PROVE IInv'
    BY <2>7, DeleteConnectionPreservesIInv
  <2>8. ASSUME Tick PROVE IInv'
    BY <2>8, TickPreservesIInv
  <2> QED
    BY <1>2, <2>1, <2>2, <2>3, <2>4, <2>5, <2>6, <2>7, <2>8 DEF Next
<1> QED
  BY <1>1, <1>2

\* The inductive invariant, and with it the type invariant and the agreement
\* of rows and ledger, holds of every behaviour.
THEOREM Invariance == Spec => []IInv
<1>1. Init => IInv
  BY InitEstablishesIInv
<1>2. IInv /\ [Next]_vars => IInv'
  BY StepPreservesIInv
<1> QED
  BY <1>1, <1>2, PTL DEF Spec

\* However calls overlap and whatever the clock and the owner do, the row of a
\* live connection counts exactly what its account was granted.
THEOREM RowsCountGrantsAlways == Spec => []RowsCountGrants
<1>1. IInv => RowsCountGrants
  BY DEF IInv
<1> QED
  BY <1>1, Invariance, PTL

\* Every variable of the function and of the tables keeps its type.
THEOREM TypeCorrect == Spec => []TypeOK
<1>1. IInv => TypeOK
  BY DEF IInv
<1> QED
  BY <1>1, Invariance, PTL

-----------------------------------------------------------------------------
(* No grant exceeds the limits in force. *)

\* The verdict is computed from the settings read under the share lock and
\* from the locked row: both are current, so a grant fits the current limits.
LEMMA DecideGrantsWithinLimits ==
  ASSUME IInv, NEW p \in Callers, Decide(p),
         NEW a \in Accounts
  PROVE  /\ \A m \in Minutes : minuteSpent'[a][m] # minuteSpent[a][m] =>
              minuteSpent'[a][m] <= policy[a[1]].perMinute
         /\ \A d \in Days : daySpent'[a][d] # daySpent[a][d] =>
              daySpent'[a][d] <= policy[a[1]].perDay
<1> DEFINE b == Account(call[p])
           n == call[p].amount
           r == row[p]
           t == checked[p]
           v == Verdict(provider[p], UsedThisMinute(r, t), UsedToday(r, t), t, n)
<1> USE DEF IInv
<1>1. phase[p] = "locked"
  BY DEF Decide
<1>2. /\ b \in Accounts /\ n \in Amounts /\ t \in 0 .. Horizon /\ r \in Rows
      /\ provider[p] \in Policies /\ b[1] = call[p].connection
  BY CallTypes DEF TypeOK
<1>3. provider[p] = policy[b[1]]
  BY <1>1, <1>2 DEF SettingsHeld
<1>4. /\ minuteSpent' = IF v = Granted
                        THEN [minuteSpent EXCEPT ![b][Minute(t)] = @ + n] ELSE minuteSpent
      /\ daySpent' = IF v = Granted
                     THEN [daySpent EXCEPT ![b][Day(t)] = @ + n] ELSE daySpent
  BY DEF Decide, Charged
<1>5. CASE v # Granted
  BY <1>4, <1>5
<1>6. CASE v = Granted
  <2>1. /\ UsedThisMinute(r, t) \in Nat /\ UsedToday(r, t) \in Nat
        /\ Minute(t) \in Minutes /\ Day(t) \in Days
    BY <1>2, RowTypes, WindowsInRange
  <2>2. /\ UsedThisMinute(r, t) + n <= provider[p].perMinute
        /\ UsedToday(r, t) + n <= provider[p].perDay
    BY <1>2, <1>6, <2>1, GrantFits
  <2>3. /\ UsedThisMinute(r, t) = minuteSpent[b][Minute(t)]
        /\ UsedToday(r, t) = daySpent[b][Day(t)]
    BY <1>1, HolderKnowsLedger
  <2>4. CASE a # b
    BY <1>2, <1>4, <1>6, <2>4 DEF TypeOK
  <2>5. CASE a = b
    <3>1. \A m \in Minutes : minuteSpent'[a][m] # minuteSpent[a][m] =>
            m = Minute(t) /\ minuteSpent'[a][m] = minuteSpent[b][Minute(t)] + n
      BY <1>2, <1>4, <1>6, <2>1, <2>5 DEF TypeOK
    <3>2. \A d \in Days : daySpent'[a][d] # daySpent[a][d] =>
            d = Day(t) /\ daySpent'[a][d] = daySpent[b][Day(t)] + n
      BY <1>2, <1>4, <1>6, <2>1, <2>5 DEF TypeOK
    <3> HIDE DEF b, n, r, t, v
    <3> QED
      BY <1>3, <2>2, <2>3, <2>5, <3>1, <3>2
  <2> QED
    BY <2>4, <2>5
<1> QED
  BY <1>5, <1>6

\* No grant takes an account over the limits its connection has when the
\* grant commits.
THEOREM GrantsStayWithinLimits == Spec => GrantsWithinLimits
<1> DEFINE Within ==
      \A a \in Accounts :
        /\ \A m \in Minutes : minuteSpent'[a][m] # minuteSpent[a][m] =>
             minuteSpent'[a][m] <= policy[a[1]].perMinute
        /\ \A d \in Days : daySpent'[a][d] # daySpent[a][d] =>
             daySpent'[a][d] <= policy[a[1]].perDay
<1>1. IInv /\ [Next]_vars => [Within]_vars
  <2> SUFFICES ASSUME IInv, Next PROVE Within
    OBVIOUS
  <2>1. CASE \E p \in Callers : Decide(p)
    BY <2>1, DecideGrantsWithinLimits
  <2>2. CASE ~ \E p \in Callers : Decide(p)
    <3>1. UNCHANGED ledger
      BY <2>2 DEF Next, Call, ShareConnection, LockQuota, Leave, EditConnection,
                  DeleteConnection, Tick, ledger
    <3> QED
      BY <3>1 DEF ledger
  <2> QED
    BY <2>1, <2>2
<1>2. [][Within]_vars => GrantsWithinLimits
  BY PTL DEF GrantsWithinLimits
<1> QED
  BY <1>1, <1>2, Invariance, PTL DEF Spec

-----------------------------------------------------------------------------
(* A Retry-After is exact. *)

\* Waiting the seconds named reaches the end of the window; a second less does
\* not.
LEMMA WaitReachesEnd ==
  ASSUME NEW t \in Nat, NEW end \in Nat, t < end
  PROVE  LET r == SecondsUntil(t, end)
         IN  /\ t + r * TicksPerSecond \in Nat
             /\ t + (r - 1) * TicksPerSecond \in Nat
             /\ end <= t + r * TicksPerSecond
             /\ t <= t + (r - 1) * TicksPerSecond
             /\ t + (r - 1) * TicksPerSecond < end
<1> DEFINE k == TicksPerSecond
           x == end - t - 1
           q == x \div k
<1>1. k \in Nat \ {0} /\ x \in Nat
  BY QuotaAssumption
<1>2. q \in Nat /\ k * q <= x /\ x < k * q + k
  BY <1>1
<1>3. SecondsUntil(t, end) = 1 + q
  BY DEF SecondsUntil
<1> HIDE DEF q
<1>4. (1 + q) * k = k * q + k /\ (1 + q - 1) * k = k * q /\ k * q \in Nat
  BY <1>1, <1>2
<1> QED
  BY <1>1, <1>2, <1>3, <1>4

\* The moments before a window's end that are not before t are in t's window,
\* those from its end on in a later one; a day's end is a minute's end.
LEMMA WindowEnds ==
  ASSUME NEW t \in Nat, NEW u \in Nat, t <= u
  PROVE  /\ MinuteEnd(t) \in Nat /\ t < MinuteEnd(t)
         /\ DayEnd(t) \in Nat /\ t < DayEnd(t)
         /\ u < MinuteEnd(t) => Minute(u) = Minute(t)
         /\ u < DayEnd(t) => Day(u) = Day(t)
         /\ MinuteEnd(t) <= u => Minute(t) < Minute(u)
         /\ DayEnd(t) <= u => Day(t) < Day(u) /\ Minute(t) < Minute(u)
<1>1. /\ MinuteTicks \in Nat \ {0} /\ MinutesPerDay \in Nat \ {0}
      /\ DayTicks \in Nat \ {0}
  BY QuotaAssumption DEF DayTicks
<1>2. ASSUME NEW k \in Nat \ {0}
      PROVE  /\ (t \div k + 1) * k \in Nat /\ t < (t \div k + 1) * k
             /\ u < (t \div k + 1) * k => u \div k = t \div k
             /\ (t \div k + 1) * k <= u => t \div k < u \div k
  <2>1. /\ t \div k \in Nat /\ k * (t \div k) <= t /\ t < k * (t \div k) + k
        /\ u \div k \in Nat /\ k * (u \div k) <= u /\ u < k * (u \div k) + k
        /\ t \div k <= u \div k
    OBVIOUS
  <2>2. (t \div k + 1) * k = k * (t \div k) + k /\ k * (t \div k) \in Nat
    BY <2>1
  <2>3. ASSUME NEW i \in Nat, NEW j \in Nat, i < j PROVE k * i + k <= k * j
    BY <2>3
  <2>4. ASSUME NEW i \in Nat, NEW j \in Nat, k * i + k <= u, u < k * j + k PROVE i < j
    <3>1. j \in Nat /\ i \in Nat /\ (j <= i => k * j <= k * i)
      OBVIOUS
    <3>2. k * j \in Nat /\ k * i \in Nat
      OBVIOUS
    <3> QED
      BY <2>4, <3>1, <3>2
  <2>5. u < k * (t \div k) + k => u \div k = t \div k
    <3>1. t \div k < u \div k => k * (t \div k) + k <= k * (u \div k)
      BY <2>1, <2>3
    <3>2. k * (u \div k) \in Nat /\ k * (t \div k) \in Nat
      BY <2>1
    <3> QED
      BY <2>1, <3>1, <3>2
  <2> QED
    BY <2>1, <2>2, <2>4, <2>5
<1>3. ASSUME DayEnd(t) <= u PROVE Minute(t) < Minute(u)
  <2> DEFINE minute == (Day(t) + 1) * MinutesPerDay
             k == MinuteTicks
  <2>1. Day(t) \in Nat /\ minute \in Nat
    BY <1>1, WindowsAdvance
  <2>2. DayEnd(t) = minute * k
    BY <1>1, <2>1 DEF DayEnd, DayTicks
  <2>3. t < minute * k /\ minute * k <= u
    BY <1>1, <1>2, <1>3, <2>2 DEF DayEnd, Day
  <2> HIDE DEF minute
  <2>4. /\ Minute(t) \in Nat /\ k * Minute(t) <= t
        /\ Minute(u) \in Nat /\ u < k * Minute(u) + k
    BY <1>1 DEF Minute
  <2>5. ASSUME NEW i \in Nat, NEW j \in Nat, k * i < k * j PROVE i < j
    BY <1>1, <2>5
  <2>6. /\ k * Minute(t) < k * minute /\ k * minute < k * (Minute(u) + 1)
    <3>1. /\ minute * k = k * minute /\ k * (Minute(u) + 1) = k * Minute(u) + k
          /\ k * minute \in Nat /\ k * Minute(t) \in Nat /\ k * Minute(u) \in Nat
      BY <1>1, <2>1, <2>4
    <3> QED
      BY <1>1, <2>3, <2>4, <3>1
  <2>7. Minute(t) < minute /\ minute < Minute(u) + 1
    BY <2>1, <2>4, <2>5, <2>6
  <2> QED
    BY <2>1, <2>4, <2>7
<1> QED
  BY <1>1, <1>2, <1>3 DEF MinuteEnd, DayEnd, Minute, Day

\* Nothing has been granted in a window later than the one the holder's clock
\* is in.
LEMMA LaterWindowsAreEmpty ==
  ASSUME IInv, NEW p \in Callers, phase[p] = "locked", NEW w \in Nat
  PROVE  LET a == Account(call[p])
             t == checked[p]
         IN  /\ w > Minute(t) => Spent(minuteSpent, a, w) = 0
             /\ w > Day(t) => Spent(daySpent, a, w) = 0
             /\ Spent(minuteSpent, a, w) \in Nat /\ Spent(daySpent, a, w) \in Nat
<1> DEFINE a == Account(call[p])
           t == checked[p]
           r == row[p]
<1> USE DEF IInv
<1>1. /\ a \in Accounts /\ t \in 0 .. Horizon /\ r \in Rows
      /\ r.minute <= Minute(t) /\ r.day <= Day(t)
      /\ \A m \in Minutes : m >= r.minute =>
           minuteSpent[a][m] = IF m = r.minute THEN r.minuteUsed ELSE 0
      /\ \A d \in Days : d >= r.day =>
           daySpent[a][d] = IF d = r.day THEN r.dayUsed ELSE 0
  BY HolderKnowsLedger DEF TypeOK
<1>2. /\ r.minute \in Nat /\ r.day \in Nat /\ Minute(t) \in Nat /\ Day(t) \in Nat
  BY <1>1, WindowsInRange DEF Rows, Minutes, Days
<1>3. DOMAIN minuteSpent[a] = Minutes /\ DOMAIN daySpent[a] = Days
  BY <1>1 DEF TypeOK
<1>4. Spent(minuteSpent, a, w) \in Nat /\ Spent(daySpent, a, w) \in Nat
  BY <1>1, <1>3 DEF TypeOK, Spent
<1>5. w > Minute(t) => Spent(minuteSpent, a, w) = 0
  BY <1>1, <1>2, <1>3 DEF Spent, Minutes
<1>6. w > Day(t) => Spent(daySpent, a, w) = 0
  BY <1>1, <1>2, <1>3 DEF Spent, Days
<1> QED
  BY <1>4, <1>5, <1>6

\* A refusal over the day ends with the day, one over the minute with the
\* minute: until then the counts that refused stand, after it they are gone.
LEMMA RefusalIsExact ==
  ASSUME IInv, NEW p \in Callers, phase[p] = "locked",
         NEW r \in Int,
         LET t == checked[p]
         IN  r = Verdict(provider[p], UsedThisMinute(row[p], t), UsedToday(row[p], t),
                         t, call[p].amount),
         r > 0,
         call[p].amount <= provider[p].perMinute,
         call[p].amount <= provider[p].perDay
  PROVE  LET a == Account(call[p])
             At(seconds) == checked[p] + seconds * TicksPerSecond
             VerdictAt(t) == Verdict(provider[p], Spent(minuteSpent, a, Minute(t)),
                                     Spent(daySpent, a, Day(t)), t, call[p].amount)
         IN  /\ VerdictAt(At(r)) = Granted
             /\ VerdictAt(At(r - 1)) # Granted
<1> DEFINE a == Account(call[p])
           n == call[p].amount
           s == provider[p]
           t == checked[p]
           minute == Spent(minuteSpent, a, Minute(t))
           day == Spent(daySpent, a, Day(t))
           late == t + r * TicksPerSecond
           early == t + (r - 1) * TicksPerSecond
<1> USE DEF IInv
<1>1. /\ a \in Accounts /\ n \in Nat /\ t \in 0 .. Horizon /\ t \in Nat
      /\ s.perMinute \in Nat /\ s.perDay \in Nat
  <2>1. a \in Accounts /\ n \in Amounts /\ t \in 0 .. Horizon /\ s \in Policies
    BY CallTypes DEF TypeOK
  <2>2. n \in Nat /\ s.perMinute \in Nat /\ s.perDay \in Nat
    BY <2>1, ConstantTypes
  <2>3. t \in Nat
    BY <2>1, HorizonAssumption
  <2> QED
    BY <2>1, <2>2, <2>3
<1>2. /\ UsedThisMinute(row[p], t) = minute /\ UsedToday(row[p], t) = day
      /\ Minute(t) \in Nat /\ Day(t) \in Nat
      /\ minute \in Nat /\ day \in Nat
  <2>1. Minute(t) \in Minutes /\ Day(t) \in Days
    BY <1>1, WindowsInRange
  <2>2. Minute(t) \in Nat /\ Day(t) \in Nat
    BY <2>1 DEF Minutes, Days
  <2>3. /\ UsedThisMinute(row[p], t) = minuteSpent[a][Minute(t)]
        /\ UsedToday(row[p], t) = daySpent[a][Day(t)]
    BY HolderKnowsLedger
  <2>4. DOMAIN minuteSpent[a] = Minutes /\ DOMAIN daySpent[a] = Days
    BY <1>1 DEF TypeOK
  <2> QED
    BY <2>1, <2>2, <2>3, <2>4, LaterWindowsAreEmpty DEF Spent
<1>3. r = Verdict(s, minute, day, t, n)
  BY <1>2
<1>4. /\ MinuteEnd(t) \in Nat /\ t < MinuteEnd(t)
      /\ DayEnd(t) \in Nat /\ t < DayEnd(t)
  BY <1>1, WindowEnds
<1>5. ASSUME NEW u \in Nat
      PROVE  /\ SecondsUntil(u, DayEnd(u)) # Granted
             /\ SecondsUntil(u, MinuteEnd(u)) # Granted
             /\ Minute(u) \in Nat /\ Day(u) \in Nat
             /\ Spent(minuteSpent, a, Minute(u)) \in Nat
             /\ Spent(daySpent, a, Day(u)) \in Nat
             /\ Minute(u) > Minute(t) => Spent(minuteSpent, a, Minute(u)) = 0
             /\ Day(u) > Day(t) => Spent(daySpent, a, Day(u)) = 0
  <2>1. Minute(u) \in Nat /\ Day(u) \in Nat
    BY WindowsAdvance
  <2> QED
    BY <2>1, WaitIsPositive, LaterWindowsAreEmpty DEF Granted
<1>6. n <= s.perMinute /\ n <= s.perDay
  OBVIOUS
<1> HIDE DEF minute, day, a, n, s, t
<1>7. CASE day + n > s.perDay
  <2>1. r = SecondsUntil(t, DayEnd(t))
    BY <1>3, <1>7 DEF Verdict
  <2>2. /\ late \in Nat /\ early \in Nat /\ DayEnd(t) <= late
        /\ t <= early /\ early < DayEnd(t) /\ t <= late
    BY <1>1, <1>4, <2>1, WaitReachesEnd
  <2>3. Day(t) < Day(late) /\ Minute(t) < Minute(late) /\ Day(early) = Day(t)
    BY <1>1, <2>2, WindowEnds
  <2>4. /\ Spent(minuteSpent, a, Minute(late)) = 0
        /\ Spent(daySpent, a, Day(late)) = 0
        /\ Spent(daySpent, a, Day(early)) = day
    BY <1>2, <1>5, <2>2, <2>3 DEF day
  <2>5. Verdict(s, 0, 0, late, n) = Granted
    <3>1. ~(0 + n > s.perMinute) /\ ~(0 + n > s.perDay)
      BY <1>1, <1>6
    <3> QED
      BY <3>1 DEF Verdict
  <2>6. Verdict(s, Spent(minuteSpent, a, Minute(early)), day, early, n) # Granted
    BY <1>5, <1>7, <2>2 DEF Verdict
  <2> QED
    BY <2>4, <2>5, <2>6 DEF s, n, a, t
<1>8. CASE ~(day + n > s.perDay)
  <2>1. minute + n > s.perMinute /\ r = SecondsUntil(t, MinuteEnd(t))
    BY <1>3, <1>8 DEF Verdict, Granted
  <2>2. /\ late \in Nat /\ early \in Nat /\ MinuteEnd(t) <= late
        /\ t <= early /\ early < MinuteEnd(t) /\ t <= late
    BY <1>1, <1>4, <2>1, WaitReachesEnd
  <2>3. Minute(t) < Minute(late) /\ Minute(early) = Minute(t) /\ Day(t) <= Day(late)
    BY <1>1, <2>2, WindowEnds, WindowsAdvance
  <2>4. /\ Spent(minuteSpent, a, Minute(late)) = 0
        /\ Spent(minuteSpent, a, Minute(early)) = minute
    BY <1>2, <1>5, <2>2, <2>3 DEF minute
  <2>5. Spent(daySpent, a, Day(late)) + n <= s.perDay
    <3>1. CASE Day(late) = Day(t)
      <4>1. Spent(daySpent, a, Day(late)) = day
        BY <3>1 DEF day
      <4>2. n \in Nat /\ s.perDay \in Nat
        BY <1>1
      <4> QED
        BY <1>2, <1>8, <4>1, <4>2
    <3>2. CASE Day(late) # Day(t)
      <4>0. Day(late) \in Nat /\ Day(t) \in Nat
        BY <1>2, <1>5, <2>2
      <4> HIDE DEF late
      <4>1. Day(late) > Day(t)
        BY <2>3, <3>2, <4>0
      <4>2. Spent(daySpent, a, Day(late)) = 0
        BY <1>5, <2>2, <4>1
      <4>3. 0 + n <= s.perDay
        BY <1>1, <1>6
      <4> QED
        BY <4>2, <4>3
    <3> QED
      BY <3>1, <3>2
  <2>6. Verdict(s, 0, Spent(daySpent, a, Day(late)), late, n) = Granted
    <3>1. /\ ~(0 + n > s.perMinute)
          /\ ~(Spent(daySpent, a, Day(late)) + n > s.perDay)
      BY <1>1, <1>5, <1>6, <2>2, <2>5
    <3> QED
      BY <3>1 DEF Verdict
  <2>7. Verdict(s, minute, Spent(daySpent, a, Day(early)), early, n) # Granted
    BY <1>5, <2>1, <2>2 DEF Verdict
  <2> QED
    BY <2>4, <2>6, <2>7 DEF s, n, a, t
<1> QED
  BY <1>7, <1>8

\* A caller told to wait r seconds would be admitted after r seconds, if nobody
\* spent in between, and not after r - 1.
THEOREM RetryAfterIsAlwaysExact == Spec => RetryAfterIsExact
<1> DEFINE Exact ==
      \A p \in Callers :
        LET a == Account(call[p])
            n == call[p].amount
            s == policy[a[1]]
            At(seconds) == checked[p] + seconds * TicksPerSecond
            VerdictAt(t) == Verdict(s, Spent(minuteSpent, a, Minute(t)),
                                    Spent(daySpent, a, Day(t)), t, n)
        IN  /\ phase[p] = "locked" /\ phase'[p] = "answered"
            /\ answer'[p] > 0
            /\ n <= s.perMinute
            /\ n <= s.perDay
            => /\ VerdictAt(At(answer'[p])) = Granted
               /\ VerdictAt(At(answer'[p] - 1)) # Granted
<1>1. IInv /\ [Next]_vars => [Exact]_vars
  <2> SUFFICES ASSUME IInv, Next, NEW p \in Callers,
                      phase[p] = "locked", phase'[p] = "answered", answer'[p] > 0,
                      call[p].amount <= policy[Account(call[p])[1]].perMinute,
                      call[p].amount <= policy[Account(call[p])[1]].perDay
               PROVE  LET a == Account(call[p])
                          n == call[p].amount
                          s == policy[a[1]]
                          At(seconds) == checked[p] + seconds * TicksPerSecond
                          VerdictAt(t) == Verdict(s, Spent(minuteSpent, a, Minute(t)),
                                                  Spent(daySpent, a, Day(t)), t, n)
                      IN  /\ VerdictAt(At(answer'[p])) = Granted
                          /\ VerdictAt(At(answer'[p] - 1)) # Granted
    OBVIOUS
  <2>1. Decide(p)
    <3> USE DEF IInv, TypeOK
    <3>1. ASSUME NEW q \in Callers, NEW k \in Calls, Call(q, k) PROVE FALSE
      BY <3>1 DEF Call
    <3>2. ASSUME NEW q \in Callers, ShareConnection(q) PROVE FALSE
      BY <3>2 DEF ShareConnection
    <3>3. ASSUME NEW q \in Callers, LockQuota(q) PROVE FALSE
      BY <3>3 DEF LockQuota
    <3>4. ASSUME NEW q \in Callers, Decide(q) PROVE q = p
      BY <3>4 DEF Decide
    <3>5. ASSUME NEW q \in Callers, Leave(q) PROVE FALSE
      BY <3>5 DEF Leave
    <3>6. ASSUME NEW c \in Connections, EditConnection(c) \/ DeleteConnection(c)
          PROVE  FALSE
      BY <3>6 DEF EditConnection, DeleteConnection, locals
    <3>7. ~Tick
      BY DEF Tick, locals
    <3> QED
      BY <3>1, <3>2, <3>3, <3>4, <3>5, <3>6, <3>7 DEF Next
  <2>2. /\ Account(call[p])[1] = call[p].connection
        /\ provider[p] = policy[Account(call[p])[1]]
    BY CallTypes DEF IInv, TypeOK, SettingsHeld
  <2>3. /\ answer'[p] = Verdict(provider[p], UsedThisMinute(row[p], checked[p]),
                                UsedToday(row[p], checked[p]), checked[p],
                                call[p].amount)
    BY <2>1 DEF Decide, IInv, TypeOK
  <2>4. answer'[p] \in Int
    BY <2>1, DecidePreservesIInv DEF IInv, TypeOK
  <2> QED
    BY <2>2, <2>3, <2>4, RefusalIsExact
<1>2. [][Exact]_vars => RetryAfterIsExact
  BY PTL DEF RetryAfterIsExact
<1> QED
  BY <1>1, <1>2, Invariance, PTL DEF Spec

-----------------------------------------------------------------------------
(* The function refines one atomic step. *)

\* The atomic specification judges and charges by the same rules.
LEMMA SameRules ==
  /\ Atomic!Accounts = Accounts /\ Atomic!Calls = Calls /\ Atomic!AnyCall = AnyCall
  /\ Atomic!Minutes = Minutes /\ Atomic!Days = Days
  /\ Atomic!Granted = Granted /\ Atomic!Inaccessible = Inaccessible
  /\ \A k : Atomic!Account(k) = Account(k)
  /\ \A t : Atomic!Minute(t) = Minute(t) /\ Atomic!Day(t) = Day(t)
  /\ \A s, c, u : Atomic!MayUse(s, c, u) <=> MayUse(s, c, u)
  /\ \A s, m, d, t, n : Atomic!Verdict(s, m, d, t, n) = Verdict(s, m, d, t, n)
<1>1. /\ Atomic!Accounts = Accounts /\ Atomic!Calls = Calls
      /\ Atomic!Granted = Granted /\ Atomic!Inaccessible = Inaccessible
  BY DEF Atomic!Accounts, Accounts, Atomic!Calls, Calls, Atomic!Granted, Granted,
         Atomic!Inaccessible, Inaccessible
<1>2. Atomic!AnyCall = AnyCall
  BY <1>1 DEF Atomic!AnyCall, AnyCall
<1>3. Atomic!DayTicks = DayTicks
  BY DEF Atomic!DayTicks, DayTicks
<1>4. \A t : Atomic!Minute(t) = Minute(t) /\ Atomic!Day(t) = Day(t)
  BY <1>3 DEF Atomic!Minute, Minute, Atomic!Day, Day
<1>5. Atomic!Minutes = Minutes /\ Atomic!Days = Days
  BY <1>4 DEF Atomic!Minutes, Minutes, Atomic!Days, Days
<1>6. \A t : Atomic!MinuteEnd(t) = MinuteEnd(t) /\ Atomic!DayEnd(t) = DayEnd(t)
  BY <1>3, <1>4 DEF Atomic!MinuteEnd, MinuteEnd, Atomic!DayEnd, DayEnd
<1>7. \A t, x : Atomic!SecondsUntil(t, x) = SecondsUntil(t, x)
  BY DEF Atomic!SecondsUntil, SecondsUntil
<1>8. \A s, m, d, t, n : Atomic!Verdict(s, m, d, t, n) = Verdict(s, m, d, t, n)
  BY <1>1, <1>6, <1>7 DEF Atomic!Verdict, Verdict
<1>9. \A k : Atomic!Account(k) = Account(k)
  BY DEF Atomic!Account, Account
<1>10. \A s, c, u : Atomic!MayUse(s, c, u) <=> MayUse(s, c, u)
  BY DEF Atomic!MayUse, MayUse
<1> QED
  BY <1>1, <1>2, <1>4, <1>5, <1>8, <1>9, <1>10

AtomicPhase == [p \in Callers |-> IF phase[p] \in {"called", "sharing", "locked"}
                                  THEN "asked" ELSE phase[p]]

\* The initial tables are those of the atomic reservation.
LEMMA InitRefines == Init => Atomic!Init
BY SameRules DEF Init, Atomic!Init

\* A call the connection's settings decide is answered at its first SELECT;
\* any other only moves inside the function.
LEMMA ShareConnectionRefines ==
  ASSUME IInv, NEW p \in Callers, ShareConnection(p)
  PROVE  Atomic!AnswerUnmetered(p) \/ UNCHANGED Atomic!vars
<1> DEFINE c == call[p].connection
           found == c \in live /\ MayUse(policy[c], c, call[p].user)
<1> USE DEF IInv
<1>1. CASE found /\ policy[c].public
  <2>1. AtomicPhase' = AtomicPhase
    BY <1>1 DEF ShareConnection, TypeOK, AtomicPhase
  <2>2. UNCHANGED <<now, live, policy, minuteSpent, daySpent, call, began, answer>>
    BY <1>1 DEF ShareConnection, ledger
  <2> QED
    BY <2>1, <2>2 DEF Atomic!vars, AtomicPhase
<1>2. CASE ~(found /\ policy[c].public)
  <2>1. AtomicPhase[p] = "asked"
    BY DEF ShareConnection, AtomicPhase
  <2>2. AtomicPhase' = [AtomicPhase EXCEPT ![p] = "answered"]
    BY <1>2 DEF ShareConnection, TypeOK, AtomicPhase
  <2>3. /\ UNCHANGED <<now, live, policy, minuteSpent, daySpent, call>>
        /\ began' = [began EXCEPT ![p] = 0]
        /\ answer' = [answer EXCEPT ![p] = IF found THEN Granted ELSE Inaccessible]
    BY <1>2 DEF ShareConnection, ledger
  <2> QED
    BY <1>2, <2>1, <2>2, <2>3, SameRules DEF Atomic!AnswerUnmetered, AtomicPhase
<1> QED
  BY <1>1, <1>2

\* The commit is the atomic step, taken for the moment the clock was read.
LEMMA DecideRefines ==
  ASSUME IInv, NEW p \in Callers, Decide(p)
  PROVE  Atomic!AnswerMetered(p)
<1> DEFINE c == call[p].connection
           a == Account(call[p])
           n == call[p].amount
           r == row[p]
           t == checked[p]
           v == Verdict(provider[p], UsedThisMinute(r, t), UsedToday(r, t), t, n)
<1> USE DEF IInv
<1>1. phase[p] = "locked"
  BY DEF Decide
<1>2. /\ c \in live /\ MayUse(policy[c], c, call[p].user) /\ policy[c].public
      /\ provider[p] = policy[c]
  BY <1>1 DEF SettingsHeld
<1>3. t \in began[p] .. now
  BY <1>1, HorizonAssumption DEF ClocksOrdered, TypeOK
<1>4. v = Verdict(policy[c], minuteSpent[a][Minute(t)], daySpent[a][Day(t)], t, n)
  BY <1>1, <1>2, HolderKnowsLedger
<1>5. AtomicPhase[p] = "asked" /\ AtomicPhase' = [AtomicPhase EXCEPT ![p] = "answered"]
  BY <1>1 DEF Decide, TypeOK, AtomicPhase
<1>6. /\ answer' = [answer EXCEPT ![p] = v]
      /\ minuteSpent' = IF v = Granted
                        THEN [minuteSpent EXCEPT ![a][Minute(t)] = @ + n] ELSE minuteSpent
      /\ daySpent' = IF v = Granted
                     THEN [daySpent EXCEPT ![a][Day(t)] = @ + n] ELSE daySpent
      /\ began' = [began EXCEPT ![p] = 0]
      /\ UNCHANGED <<now, live, policy, call>>
  BY DEF Decide, Charged
<1> HIDE DEF v
<1> QED
  BY <1>2, <1>3, <1>4, <1>5, <1>6, SameRules
  DEF Atomic!AnswerMetered, Atomic!Charged, AtomicPhase

\* Every step of the function is a step of the atomic reservation or invisible
\* to it: Decide and the early returns answer, the locking steps do not show.
LEMMA StepRefines == IInv /\ [Next]_vars => [Atomic!Next]_(Atomic!vars)
<1> SUFFICES ASSUME IInv, [Next]_vars PROVE Atomic!Next \/ UNCHANGED Atomic!vars
  OBVIOUS
<1> USE DEF IInv
<1>1. CASE UNCHANGED vars
  BY <1>1 DEF vars, Atomic!vars
<1>2. ASSUME NEW p \in Callers, NEW k \in Calls, Call(p, k)
      PROVE  Atomic!Next
  <2>1. AtomicPhase[p] = "idle" /\ AtomicPhase' = [AtomicPhase EXCEPT ![p] = "asked"]
    BY <1>2 DEF Call, TypeOK, AtomicPhase
  <2>2. Atomic!Ask(p, k)
    BY <1>2, <2>1 DEF Call, Atomic!Ask, AtomicPhase, ledger
  <2> QED
    BY <2>2, SameRules DEF Atomic!Next
<1>3. ASSUME NEW p \in Callers, ShareConnection(p)
      PROVE  Atomic!Next \/ UNCHANGED Atomic!vars
  BY <1>3, ShareConnectionRefines DEF Atomic!Next
<1>4. ASSUME NEW p \in Callers, LockQuota(p)
      PROVE  UNCHANGED Atomic!vars
  <2>1. AtomicPhase' = AtomicPhase
    BY <1>4 DEF LockQuota, TypeOK, AtomicPhase
  <2> QED
    BY <1>4, <2>1 DEF LockQuota, Atomic!vars, AtomicPhase, ledger
<1>5. ASSUME NEW p \in Callers, Decide(p)
      PROVE  Atomic!Next
  BY <1>5, DecideRefines DEF Atomic!Next
<1>6. ASSUME NEW p \in Callers, Leave(p)
      PROVE  Atomic!Next
  <2>1. AtomicPhase[p] # "idle" /\ AtomicPhase' = [AtomicPhase EXCEPT ![p] = "idle"]
    BY <1>6 DEF Leave, TypeOK, AtomicPhase
  <2>2. Atomic!Leave(p)
    BY <1>6, <2>1, SameRules DEF Leave, Atomic!Leave, AtomicPhase, ledger
  <2> QED
    BY <2>2 DEF Atomic!Next
<1>7. ASSUME NEW c \in Connections, EditConnection(c)
      PROVE  Atomic!Next
  BY <1>7 DEF EditConnection, locals, ledger, Atomic!Next, Atomic!EditConnection
<1>8. ASSUME NEW c \in Connections, DeleteConnection(c)
      PROVE  Atomic!Next
  BY <1>8 DEF DeleteConnection, locals, ledger, Atomic!Next, Atomic!DeleteConnection
<1>9. ASSUME Tick
      PROVE  Atomic!Next
  BY <1>9 DEF Tick, locals, ledger, Atomic!Next, Atomic!Tick
<1> QED
  BY <1>1, <1>2, <1>3, <1>4, <1>5, <1>6, <1>7, <1>8, <1>9 DEF Next

\* However the calls of reserve_connection_requests overlap, they behave as if
\* each were one step: "One atomic reservation shared by gateway forwarding
\* and control-plane probes."
THEOREM QuotaRefinesAtomicQuota == Spec => RefinesAtomicQuota
<1>1. Init => Atomic!Init
  BY InitRefines
<1>2. IInv /\ [Next]_vars => [Atomic!Next]_(Atomic!vars)
  BY StepRefines
<1> QED
  BY <1>1, <1>2, Invariance, PTL DEF Spec, RefinesAtomicQuota, Atomic!Spec

=============================================================================
