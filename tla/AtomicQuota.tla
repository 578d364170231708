---------------------------- MODULE AtomicQuota ----------------------------
(***************************************************************************)
(* What reserve_connection_requests promises: "One atomic reservation      *)
(* shared by gateway forwarding and control-plane probes."                 *)
(*                                                                         *)
(* The ledger holds what every account was granted in every minute and     *)
(* every day.  A reservation is one step: it is judged against the ledger  *)
(* and against the policy in force at that step, for a moment of the       *)
(* call's own duration, and charges the ledger when it is granted.         *)
(***************************************************************************)
EXTENDS QuotaRules

CONSTANTS
  Callers,        \* requests and probes that may be in flight at once
  Horizon         \* bound on the clock, in ticks

Minutes == 0 .. Minute(Horizon)
Days    == 0 .. Day(Horizon)

VARIABLES
  now,            \* clock_timestamp()
  live,           \* connections that have not been deleted
  policy,         \* connection -> its settings
  minuteSpent,    \* account -> minute -> requests granted in it
  daySpent,       \* account -> day -> requests granted in it
  phase,          \* caller -> "idle", "asked" or "answered"
  call,           \* caller -> what it asks for
  began,          \* caller -> when it called
  answer          \* caller -> the verdict it was given

vars == <<now, live, policy, minuteSpent, daySpent, phase, call, began, answer>>

Init ==
  /\ now = 0
  /\ live = Connections
  /\ policy \in [Connections -> Policies]
  /\ minuteSpent = [a \in Accounts |-> [m \in Minutes |-> 0]]
  /\ daySpent = [a \in Accounts |-> [d \in Days |-> 0]]
  /\ phase = [p \in Callers |-> "idle"]
  /\ call = [p \in Callers |-> AnyCall]
  /\ began = [p \in Callers |-> 0]
  /\ answer = [p \in Callers |-> Granted]

Ask(p, k) ==
  /\ phase[p] = "idle"
  /\ phase' = [phase EXCEPT ![p] = "asked"]
  /\ call' = [call EXCEPT ![p] = k]
  /\ began' = [began EXCEPT ![p] = now]
  /\ UNCHANGED <<now, live, policy, minuteSpent, daySpent, answer>>

\* Not accessible, or private and so not metered: the ledger plays no part.
AnswerUnmetered(p) ==
  LET c == call[p].connection
      usable == c \in live /\ MayUse(policy[c], c, call[p].user)
  IN  /\ phase[p] = "asked"
      /\ usable => ~policy[c].public
      /\ phase' = [phase EXCEPT ![p] = "answered"]
      /\ answer' = [answer EXCEPT ![p] = IF usable THEN Granted ELSE Inaccessible]
      /\ began' = [began EXCEPT ![p] = 0]
      /\ UNCHANGED <<now, live, policy, minuteSpent, daySpent, call>>

Charged(ledger, a, w, n) == [ledger EXCEPT ![a][w] = @ + n]

\* Judged as of a moment t of the call.
AnswerMetered(p) ==
  LET c == call[p].connection
      a == Account(call[p])
      n == call[p].amount
  IN  /\ phase[p] = "asked"
      /\ c \in live
      /\ MayUse(policy[c], c, call[p].user)
      /\ policy[c].public
      /\ \E t \in began[p] .. now :
           LET v == Verdict(policy[c], minuteSpent[a][Minute(t)],
                            daySpent[a][Day(t)], t, n)
           IN  /\ answer' = [answer EXCEPT ![p] = v]
               /\ minuteSpent' = IF v = Granted THEN Charged(minuteSpent, a, Minute(t), n)
                                                ELSE minuteSpent
               /\ daySpent' = IF v = Granted THEN Charged(daySpent, a, Day(t), n)
                                             ELSE daySpent
      /\ phase' = [phase EXCEPT ![p] = "answered"]
      /\ began' = [began EXCEPT ![p] = 0]
      /\ UNCHANGED <<now, live, policy, call>>

\* The caller has its answer, or gave up before there was one.
Leave(p) ==
  /\ phase[p] # "idle"
  /\ phase' = [phase EXCEPT ![p] = "idle"]
  /\ call' = [call EXCEPT ![p] = AnyCall]
  /\ began' = [began EXCEPT ![p] = 0]
  /\ answer' = [answer EXCEPT ![p] = Granted]
  /\ UNCHANGED <<now, live, policy, minuteSpent, daySpent>>

EditConnection(c) ==
  /\ c \in live
  /\ \E s \in Policies : policy' = [policy EXCEPT ![c] = s]
  /\ UNCHANGED <<now, live, minuteSpent, daySpent, phase, call, began, answer>>

DeleteConnection(c) ==
  /\ c \in live
  /\ live' = live \ {c}
  /\ UNCHANGED <<now, policy, minuteSpent, daySpent, phase, call, began, answer>>

Tick ==
  /\ now < Horizon
  /\ now' = now + 1
  /\ UNCHANGED <<live, policy, minuteSpent, daySpent, phase, call, began, answer>>

Next ==
  \/ \E p \in Callers :
       \/ \E k \in Calls : Ask(p, k)
       \/ AnswerUnmetered(p)
       \/ AnswerMetered(p)
       \/ Leave(p)
  \/ \E c \in Connections : EditConnection(c) \/ DeleteConnection(c)
  \/ Tick

Spec == Init /\ [][Next]_vars

=============================================================================
