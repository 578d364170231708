---------------------------- MODULE GatewayProofs ----------------------------
(***************************************************************************)
(* Proofs about Gateway for any number of requests, routes, connections,   *)
(* replies and delays: sends are charged, fallback goes in order and past  *)
(* failures only, the answer is the one the attempts explain, the log      *)
(* tells it, and usage counts the replies.                                 *)
(*                                                                         *)
(* None of these is inductive.  A charge must be remembered from the       *)
(* reservation to the send (Charged); that the route in hand is the first  *)
(* one untried, and that every earlier try failed, must hold all through a *)
(* try (InOrder); and the two registers that the answer is computed from   *)
(* must sum up the attempts (Explained).  That the counts of usage are     *)
(* right is inductive beside these (Counted).                              *)
(***************************************************************************)
EXTENDS Gateway, FiniteSetTheorems, TLAPS

Trying == {"choose", "send", "waiting", "copying"}

\* A record with the handler's variables as its fields.
IsRecord(r) ==
  r = [pc |-> r.pc, routes |-> r.routes, at |-> r.at, attempts |-> r.attempts,
       limitedRetry |-> r.limitedRetry, quotaUnavailable |-> r.quotaUnavailable,
       status |-> r.status, retryAfter |-> r.retryAfter]

Statuses == {0, 400, 401, 404, 429, 502, 503} \cup Replies

Shape(r) ==
  /\ IsRecord(r)
  /\ r.pc \in Phases
  /\ DOMAIN r.routes \subseteq Priorities
  /\ \A i \in DOMAIN r.routes : r.routes[i] \in Connections
  /\ DOMAIN r.attempts \subseteq DOMAIN r.routes
  /\ \A i \in DOMAIN r.attempts : r.attempts[i] \in Attempts
  /\ r.limitedRetry \in RetryDelays \cup {0}
  /\ r.quotaUnavailable \in BOOLEAN
  /\ r.status \in Statuses
  /\ r.retryAfter \in RetryDelays \cup {0}

\* The try ended in a way that lets the loop go on.
Passed(a) ==
  /\ a.reason \notin {"served", "interrupted"}
  /\ a.reason = "serverError" => a.status >= 500

\* What is kept for the client is no failure.
Kept(a) == a.reason \in {"served", "interrupted"} => a.status < 500

FirstUntried(r, i) == i \in Untried(r) /\ \A j \in Untried(r) : i <= j

InOrder(r) ==
  /\ r.pc \in {"new", "payload", "load"} => DOMAIN r.attempts = {}
  /\ r.pc \in Trying => FirstUntried(r, r.at)
  /\ r.pc \in Trying \cup {"next"} => \A j \in DOMAIN r.attempts : Passed(r.attempts[j])
  /\ r.pc = "copying" => r.status < 500
  /\ \A j \in DOMAIN r.attempts : Kept(r.attempts[j])
  /\ \A i \in DOMAIN r.attempts, j \in DOMAIN r.routes :
       j < i => j \in DOMAIN r.attempts /\ Passed(r.attempts[j])

Because(r, reason) == \E i \in DOMAIN r.attempts : r.attempts[i].reason = reason

\* The registers the answer is computed from, and the answer.
Answered(r, delays) ==
  r.pc \in {"log", "done"} /\ DOMAIN r.attempts # {} =>
    \/ \E i \in DOMAIN r.attempts :
         /\ r.attempts[i].reason \in {"served", "interrupted"}
         /\ r.attempts[i].status = r.status
         /\ \A j \in DOMAIN r.attempts : j <= i
         /\ r.retryAfter = 0
    \/ r.pc = "done" /\ ~Served(r) /\ r.status = 400 /\ r.retryAfter = 0
    \/ /\ ~Served(r) /\ Untried(r) = {}
       /\ IF Because(r, "quotaUnavailable") THEN r.status = 503 /\ r.retryAfter = 0
          ELSE IF Because(r, "quotaExceeded")
          THEN /\ r.status = 429
               /\ r.retryAfter \in delays
               /\ \A delay \in delays : r.retryAfter <= delay
          ELSE r.status = 502 /\ r.retryAfter = 0

Explained(r, delays) ==
  /\ delays \subseteq RetryDelays
  /\ r.quotaUnavailable <=> Because(r, "quotaUnavailable")
  /\ r.limitedRetry = 0 => delays = {}
  /\ r.limitedRetry # 0 =>
       r.limitedRetry \in delays /\ \A delay \in delays : r.limitedRetry <= delay
  /\ Because(r, "quotaExceeded") <=> delays # {}
  /\ r.pc \notin {"log", "done"} => r.retryAfter = 0
  /\ Answered(r, delays)

\* What was charged covers what was sent, and what is about to be.
Charged(p) ==
  /\ charges[p] \in [Connections -> Nat]
  /\ sends[p] \in [Connections -> Nat]
  /\ ~Admin => \A c \in Connections \ Own :
       /\ sends[p][c] <= charges[p][c]
       /\ req[p].pc \in {"choose", "send"} /\ req[p].routes[req[p].at] = c =>
            sends[p][c] < charges[p][c]

Logged(p) ==
  /\ logs[p] \subseteq {req[p].status}
  /\ req[p].pc # "done" => logs[p] = {}
  /\ /\ req[p].pc = "done"
     /\ DOMAIN req[p].attempts # {} \/ req[p].status \in {404, 503}
     /\ logs[p] = {}
     => p \in faulted \/ (~Served(req[p]) /\ (p \in cancelled \/ p \notin mappable))
  /\ /\ req[p].pc = "done" /\ DOMAIN req[p].attempts # {}
     /\ req[p].status = 400 /\ ~Served(req[p])
     => p \notin mappable

Sound(p) ==
  /\ Shape(req[p]) /\ InOrder(req[p]) /\ Explained(req[p], told[p])
  /\ Charged(p) /\ Logged(p)

Tables ==
  /\ setting \in [Connections -> Settings]
  /\ routes \in Plans
  /\ mappable \subseteq Requests
  /\ room \in [Connections -> 0 .. Limit]
  /\ cancelled \subseteq Requests
  /\ faulted \subseteq Requests

Histories ==
  /\ req = [p \in Requests |-> req[p]]
  /\ logs = [p \in Requests |-> logs[p]]
  /\ usage \in [Requests -> Nat]
  /\ charges = [p \in Requests |-> charges[p]]
  /\ sends = [p \in Requests |-> sends[p]]
  /\ told = [p \in Requests |-> told[p]]

GInv == Tables /\ Histories /\ \A p \in Requests : Sound(p)

-----------------------------------------------------------------------------
(* What a try does to a request's registers. *)

\* s is r with one attempt more, that of route i.
Grows(r, s, i, status, reason) ==
  /\ s.routes = r.routes
  /\ DOMAIN s.attempts = DOMAIN r.attempts \cup {i}
  /\ s.attempts[i] = [connection |-> r.routes[i], status |-> status, reason |-> reason]
  /\ \A j \in DOMAIN r.attempts \ {i} : s.attempts[j] = r.attempts[j]

\* The fields after a try: one attempt more, and the phase of the loop's head.
LEMMA TriedFields ==
  ASSUME NEW r, NEW s, NEW i, NEW status, NEW reason,
         IsRecord(r), s = Tried(r, i, status, reason)
  PROVE  /\ IsRecord(s) /\ s.pc = "next" /\ s.at = r.at
         /\ s.limitedRetry = r.limitedRetry /\ s.quotaUnavailable = r.quotaUnavailable
         /\ s.status = r.status /\ s.retryAfter = r.retryAfter
         /\ Grows(r, s, i, status, reason)
<1>1. s = [pc |-> "next", routes |-> r.routes, at |-> r.at,
           attempts |-> [j \in DOMAIN r.attempts \cup {i} |->
                           IF j = i THEN [connection |-> r.routes[i], status |-> status,
                                          reason |-> reason]
                                    ELSE r.attempts[j]],
           limitedRetry |-> r.limitedRetry, quotaUnavailable |-> r.quotaUnavailable,
           status |-> r.status, retryAfter |-> r.retryAfter]
  BY DEF Tried, IsRecord
<1> QED BY <1>1 DEF IsRecord, Grows

\* One attempt more on the first route untried keeps the order.
LEMMA GrowingInOrder ==
  ASSUME NEW r, NEW s, Shape(r), InOrder(r), r.pc \in Trying \cup {"next"},
         NEW i, FirstUntried(r, i), NEW status, NEW reason,
         Grows(r, s, i, status, reason), IsRecord(s), s.pc \in {"next", "log"},
         s.attempts[i] \in Attempts, s.pc = "next" => Passed(s.attempts[i]),
         Kept(s.attempts[i]),
         s.limitedRetry \in RetryDelays \cup {0}, s.quotaUnavailable \in BOOLEAN,
         s.status \in Statuses, s.retryAfter \in RetryDelays \cup {0}
  PROVE  Shape(s) /\ InOrder(s) /\ \A j \in DOMAIN s.attempts : j <= i
<1>1. i \in DOMAIN r.routes /\ i \notin DOMAIN r.attempts
  BY DEF FirstUntried, Untried
<1>2. \A j \in DOMAIN r.routes : j \in Nat
  BY GatewayAssumption DEF Shape
<1>4. Shape(s)
  BY <1>1 DEF Shape, Grows, Phases
<1>5. \A j \in DOMAIN r.attempts : j <= i
  <2> SUFFICES ASSUME NEW j \in DOMAIN r.attempts, ~(j <= i) PROVE FALSE
    OBVIOUS
  <2>1. i < j
    BY <1>1, <1>2 DEF Shape
  <2> QED BY <1>1, <2>1 DEF InOrder
<1>6. \A j \in DOMAIN r.attempts : s.attempts[j] = r.attempts[j] /\ Passed(r.attempts[j])
  BY <1>1 DEF Grows, InOrder
<1>7. \A j \in DOMAIN r.routes : j < i => j \in DOMAIN r.attempts
  BY <1>1, <1>2 DEF FirstUntried, Untried
<1>8. \A k \in DOMAIN s.attempts, j \in DOMAIN s.routes :
        j < k => j \in DOMAIN s.attempts /\ Passed(s.attempts[j])
  <2> SUFFICES ASSUME NEW k \in DOMAIN s.attempts, NEW j \in DOMAIN s.routes, j < k
               PROVE  j \in DOMAIN r.attempts
    BY <1>6 DEF Grows
  <2>1. j \in DOMAIN r.routes
    BY DEF Grows
  <2>2. CASE k = i
    BY <1>7, <2>1, <2>2
  <2>3. CASE k # i
    <3>1. k \in DOMAIN r.attempts
      BY <2>3 DEF Grows
    <3> QED BY <2>1, <3>1 DEF InOrder
  <2> QED BY <2>2, <2>3
<1>9. s.pc \in Trying \cup {"next"} => \A j \in DOMAIN s.attempts : Passed(s.attempts[j])
  BY <1>6 DEF Grows, Trying
<1>10. InOrder(s)
  <2>1. \A j \in DOMAIN s.attempts : Kept(s.attempts[j])
    BY <1>6 DEF Grows, InOrder
  <2> QED BY <1>8, <1>9, <2>1 DEF InOrder, Trying
<1> QED BY <1>1, <1>2, <1>4, <1>5, <1>10 DEF Grows

\* The reasons of the attempts grow by the reason of the new one.
LEMMA GrownReasons ==
  ASSUME NEW r, NEW s, NEW i, i \notin DOMAIN r.attempts, NEW status, NEW reason,
         Grows(r, s, i, status, reason), NEW because
  PROVE  Because(s, because) <=> Because(r, because) \/ reason = because
<1>1. /\ DOMAIN s.attempts = DOMAIN r.attempts \cup {i}
      /\ s.attempts[i].reason = reason
      /\ \A j \in DOMAIN r.attempts : s.attempts[j] = r.attempts[j]
  BY DEF Grows
<1> QED BY <1>1 DEF Because

\* The shorter delay is the shortest of all if the one before was.
LEMMA ShortestDelay ==
  ASSUME NEW delays, \A d \in delays : d \in Nat \ {0},
         NEW delay \in Nat \ {0}, NEW last,
         last = 0 => delays = {},
         last # 0 => last \in delays /\ \A d \in delays : last <= d
  PROVE  /\ Shorter(last, delay) # 0 /\ Shorter(last, delay) \in delays \cup {delay}
         /\ \A d \in delays \cup {delay} : Shorter(last, delay) <= d
<1>1. CASE last = 0
  BY <1>1 DEF Shorter
<1>2. CASE last # 0
  <2>1. last \in Nat
    BY <1>2
  <2>2. CASE delay < last
    BY <1>2, <2>1, <2>2 DEF Shorter
  <2>3. CASE ~(delay < last)
    BY <1>2, <2>1, <2>3 DEF Shorter
  <2> QED BY <2>2, <2>3
<1> QED BY <1>1, <1>2

\* The registers keep summing up the attempts: one try that was not refused,
\* or one that was and named a delay.
LEMMA GrowingExplained ==
  ASSUME NEW r, NEW s, NEW i, i \notin DOMAIN r.attempts, NEW status, NEW reason,
         Grows(r, s, i, status, reason), NEW delays,
         Explained(r, delays), r.pc \notin {"log", "done"},
         reason # "quotaExceeded", s.limitedRetry = r.limitedRetry,
         s.pc = "next", s.retryAfter = r.retryAfter,
         s.quotaUnavailable <=> r.quotaUnavailable \/ reason = "quotaUnavailable"
  PROVE  Explained(s, delays)
<1>1. /\ Because(s, "quotaUnavailable") <=>
           Because(r, "quotaUnavailable") \/ reason = "quotaUnavailable"
      /\ Because(s, "quotaExceeded") <=>
           Because(r, "quotaExceeded") \/ reason = "quotaExceeded"
  BY GrownReasons
<1> QED BY <1>1 DEF Explained, Answered

\* The same for a refusal, which adds its delay to those told.
LEMMA RefusalExplained ==
  ASSUME NEW r, NEW s, NEW i, i \notin DOMAIN r.attempts, NEW status,
         Grows(r, s, i, status, "quotaExceeded"), NEW delays, NEW delay \in RetryDelays,
         Explained(r, delays), r.pc \notin {"log", "done"},
         s.limitedRetry = Shorter(r.limitedRetry, delay),
         s.pc = "next", s.retryAfter = r.retryAfter,
         s.quotaUnavailable <=> r.quotaUnavailable
  PROVE  Explained(s, delays \cup {delay})
<1>1. /\ Because(s, "quotaUnavailable") <=> Because(r, "quotaUnavailable")
      /\ Because(s, "quotaExceeded")
  <2>1. Because(s, "quotaUnavailable") <=>
          Because(r, "quotaUnavailable") \/ "quotaExceeded" = "quotaUnavailable"
    BY GrownReasons
  <2>2. Because(s, "quotaExceeded") <=>
          Because(r, "quotaExceeded") \/ "quotaExceeded" = "quotaExceeded"
    BY GrownReasons
  <2> QED BY <2>1, <2>2
<1>2. /\ delay \in Nat \ {0} /\ delays \subseteq RetryDelays
      /\ \A d \in delays : d \in Nat \ {0}
  BY GatewayAssumption DEF Explained
<1>3. /\ r.limitedRetry = 0 => delays = {}
      /\ r.limitedRetry # 0 =>
           r.limitedRetry \in delays /\ \A d \in delays : r.limitedRetry <= d
  BY DEF Explained
<1>4. /\ s.limitedRetry # 0 /\ s.limitedRetry \in delays \cup {delay}
      /\ \A d \in delays \cup {delay} : s.limitedRetry <= d
  <2>1. ASSUME NEW last, last = r.limitedRetry
        PROVE  /\ Shorter(last, delay) # 0 /\ Shorter(last, delay) \in delays \cup {delay}
               /\ \A d \in delays \cup {delay} : Shorter(last, delay) <= d
    <3>1. /\ last = 0 => delays = {}
          /\ last # 0 => last \in delays /\ \A d \in delays : last <= d
      BY <1>3, <2>1
    <3> QED BY <1>2, <3>1, ShortestDelay
  <2> QED BY <2>1
<1> QED BY <1>1, <1>2, <1>4 DEF Explained, Answered

-----------------------------------------------------------------------------
(* A step of one request. *)

\* Nothing of any other request moves.
OnlyMoves(p) ==
  /\ mappable' = mappable
  /\ req' = [req EXCEPT ![p] = req'[p]]
  /\ \A q \in Requests \ {p} :
       /\ logs'[q] = logs[q] /\ charges'[q] = charges[q]
       /\ sends'[q] = sends[q] /\ told'[q] = told[q]
       /\ (q \in faulted' <=> q \in faulted) /\ (q \in cancelled' <=> q \in cancelled)

\* Such a step keeps the invariant if it keeps what is said of p.
LEMMA StepOfOne ==
  ASSUME GInv, NEW p \in Requests, OnlyMoves(p), Tables', Histories', Sound(p)'
  PROVE  GInv'
<1>1. ASSUME NEW q \in Requests, q # p PROVE Sound(q)'
  <2>1. req'[q] = req[q]
    BY <1>1 DEF GInv, Histories, OnlyMoves
  <2>2. /\ mappable' = mappable /\ logs'[q] = logs[q] /\ charges'[q] = charges[q]
        /\ sends'[q] = sends[q] /\ told'[q] = told[q]
        /\ (q \in faulted' <=> q \in faulted) /\ (q \in cancelled' <=> q \in cancelled)
    BY <1>1 DEF OnlyMoves
  <2>3. Sound(q)
    BY DEF GInv
  <2>4. Shape(req[q])' /\ InOrder(req[q])' /\ Explained(req[q], told[q])'
    BY <2>1, <2>2, <2>3 DEF Sound
  <2>5. Charged(q)'
    BY <2>1, <2>2, <2>3 DEF Sound, Charged
  <2>6. Logged(q)'
    BY <2>1, <2>2, <2>3 DEF Sound, Logged
  <2> QED BY <2>4, <2>5, <2>6 DEF Sound
<1> QED BY <1>1 DEF GInv

\* A step that charges and sends nothing.
LEMMA LedgerStill ==
  ASSUME NEW p \in Requests, Charged(p), charges'[p] = charges[p], sends'[p] = sends[p],
         req'[p].pc \in {"choose", "send"} =>
           /\ req[p].pc \in {"choose", "send"}
           /\ req'[p].at = req[p].at /\ req'[p].routes = req[p].routes
  PROVE  Charged(p)'
BY DEF Charged

\* A step before the log.
LEMMA NotYetLogged ==
  ASSUME NEW p \in Requests, Logged(p), req[p].pc # "done", req'[p].pc # "done",
         logs'[p] = logs[p]
  PROVE  Logged(p)'
BY DEF Logged

\* The invariant, for one request.
LEMMA InvOf ==
  ASSUME GInv, NEW p \in Requests
  PROVE  /\ Shape(req[p]) /\ InOrder(req[p]) /\ Explained(req[p], told[p])
         /\ Charged(p) /\ Logged(p) /\ Tables /\ Histories /\ p \in DOMAIN req
         /\ IsRecord(req[p])
BY DEF GInv, Sound, Histories, Shape

\* In a try the route in hand is the first untried; at the head of the loop
\* IsNext says which that is.
LEMMA RouteInHand ==
  ASSUME GInv, NEW p \in Requests
  PROVE  /\ req[p].pc \in Trying => FirstUntried(req[p], req[p].at)
         /\ \A i : IsNext(p, i) => FirstUntried(req[p], i)
BY InvOf DEF InOrder, IsNext, FirstUntried

\* What grew stays grown in registers with the same routes and attempts.
LEMMA SameAttemptsGrow ==
  ASSUME NEW r, NEW t, NEW s, NEW i, NEW status, NEW reason,
         Grows(r, t, i, status, reason), s.routes = t.routes, s.attempts = t.attempts
  PROVE  Grows(r, s, i, status, reason)
BY DEF Grows

\* The outcome of a try that failed, other than by a refusal.
Failing(status, reason) ==
  /\ status \in Nat
  /\ reason \in Reasons \ {"served", "interrupted", "quotaExceeded"}
  /\ reason = "serverError" => status >= 500

\* The attempt that such a try adds lets the loop go on.
LEMMA NewAttempt ==
  ASSUME NEW r, NEW s, NEW i, r.routes[i] \in Connections, NEW status, NEW reason,
         Grows(r, s, i, status, reason), Failing(status, reason)
  PROVE  s.attempts[i] \in Attempts /\ Passed(s.attempts[i])
<1>1. PICK a : a = s.attempts[i]
  OBVIOUS
<1>2. a = [connection |-> r.routes[i], status |-> status, reason |-> reason]
  BY <1>1 DEF Grows
<1>3. a.status = status /\ a.reason = reason
  BY <1>2
<1>4. a \in Attempts
  BY <1>2 DEF Failing, Attempts
<1>5. Passed(a)
  BY <1>3 DEF Failing, Passed
<1> QED BY <1>1, <1>4, <1>5

\* s is r after such a try of route i.
Fails(r, s, i, status, reason) ==
  \/ s = Tried(r, i, status, reason) /\ reason # "quotaUnavailable"
  \/ /\ s = [Tried(r, i, status, reason) EXCEPT !.quotaUnavailable = TRUE]
     /\ reason = "quotaUnavailable"

\* The registers after a try that ended in a failure other than a refusal.
LEMMA FailedRegisters ==
  ASSUME NEW r, NEW s, NEW delays, Shape(r), InOrder(r), Explained(r, delays),
         r.pc \in Trying \cup {"next"}, NEW i, FirstUntried(r, i), NEW status, NEW reason,
         Failing(status, reason),
         Fails(r, s, i, status, reason)
  PROVE  Shape(s) /\ InOrder(s) /\ Explained(s, delays) /\ s.pc = "next"
<1>0. IsRecord(r)
  BY DEF Shape
<1>1. PICK t : t = Tried(r, i, status, reason)
  OBVIOUS
<1>2. /\ IsRecord(t) /\ t.pc = "next" /\ t.limitedRetry = r.limitedRetry
      /\ t.quotaUnavailable = r.quotaUnavailable
      /\ t.status = r.status /\ t.retryAfter = r.retryAfter
      /\ Grows(r, t, i, status, reason)
  BY <1>0, <1>1, TriedFields
<1>3. /\ s.pc = "next" /\ s.limitedRetry = r.limitedRetry
      /\ s.status = r.status /\ s.retryAfter = r.retryAfter
      /\ s.routes = t.routes /\ s.attempts = t.attempts /\ IsRecord(s)
      /\ (s.quotaUnavailable <=> r.quotaUnavailable \/ reason = "quotaUnavailable")
      /\ s.quotaUnavailable \in BOOLEAN
  <2>0. r.quotaUnavailable \in BOOLEAN
    BY DEF Shape
  <2>1. CASE s = t /\ reason # "quotaUnavailable"
    BY <1>2, <2>0, <2>1
  <2>2. CASE s = [t EXCEPT !.quotaUnavailable = TRUE] /\ reason = "quotaUnavailable"
    BY <1>2, <2>2 DEF IsRecord
  <2> QED BY <1>1, <2>1, <2>2 DEF Fails
<1>4. Grows(r, s, i, status, reason)
  BY <1>2, <1>3, SameAttemptsGrow
<1>5. s.attempts[i] \in Attempts /\ Passed(s.attempts[i])
  <2>1. r.routes[i] \in Connections
    BY DEF Shape, FirstUntried, Untried
  <2> QED BY <1>4, <2>1, NewAttempt
<1>6. i \notin DOMAIN r.attempts /\ r.pc \notin {"log", "done"}
  BY DEF FirstUntried, Untried, Trying
<1>7. Explained(s, delays)
  <2>1. reason # "quotaExceeded"
    BY DEF Failing
  <2> QED BY <1>3, <1>4, <1>6, <2>1, GrowingExplained
<1>8. /\ s.limitedRetry \in RetryDelays \cup {0} /\ s.status \in Statuses
      /\ s.retryAfter \in RetryDelays \cup {0}
  BY <1>3 DEF Shape
<1>9. Shape(s) /\ InOrder(s)
  <2>1. Kept(s.attempts[i])
    BY <1>5 DEF Passed, Kept
  <2> QED BY <2>1, <1>3, <1>4, <1>5, <1>8, GrowingInOrder
<1> QED BY <1>3, <1>7, <1>9

\* A step that is such a try.
LEMMA FailedTry ==
  ASSUME GInv, NEW p \in Requests, req[p].pc \in Trying \cup {"next"},
         NEW i, FirstUntried(req[p], i), NEW status, NEW reason,
         Failing(status, reason),
         Fails(req[p], req'[p], i, status, reason),
         logs'[p] = logs[p], told'[p] = told[p], req'[p].pc = "next" => Charged(p)',
         OnlyMoves(p), Tables', Histories'
  PROVE  GInv'
<1>1. PICK r, s, delays : r = req[p] /\ s = req'[p] /\ delays = told[p]
  OBVIOUS
<1>2. Shape(r) /\ InOrder(r) /\ Explained(r, delays) /\ Charged(p) /\ Logged(p)
  BY <1>1, InvOf
<1>3. Shape(s) /\ InOrder(s) /\ Explained(s, delays) /\ s.pc = "next"
  <2>1. /\ r.pc \in Trying \cup {"next"} /\ FirstUntried(r, i)
        /\ Fails(r, s, i, status, reason)
    BY <1>1
  <2> QED BY <1>2, <2>1, FailedRegisters
<1>4. Logged(p)'
  BY <1>1, <1>2, <1>3, NotYetLogged DEF Trying
<1> QED BY <1>1, <1>2, <1>3, <1>4, StepOfOne DEF Sound

\* What a refused attempt records.
IsRefusal(status, reason) == status = 429 /\ reason = "quotaExceeded"

\* Its types.
LEMMA RefusalTypes ==
  ASSUME NEW status, NEW reason, IsRefusal(status, reason)
  PROVE  status \in Nat /\ reason \in Reasons
<1>1. reason \in Reasons
  BY DEF IsRefusal, Reasons
<1>2. status \in Nat
  BY DEF IsRefusal
<1> QED BY <1>1, <1>2

\* The attempt that a refusal adds lets the loop go on.
LEMMA RefusedAttempt ==
  ASSUME NEW r, NEW s, NEW i, r.routes[i] \in Connections, NEW status, NEW reason,
         Grows(r, s, i, status, reason), IsRefusal(status, reason)
  PROVE  s.attempts[i] \in Attempts /\ Passed(s.attempts[i])
<1>1. PICK a : a = s.attempts[i]
  OBVIOUS
<1>2. a = [connection |-> r.routes[i], status |-> status, reason |-> reason]
  BY <1>1 DEF Grows
<1>3. a.status = status /\ a.reason = reason
  BY <1>2
<1>4. a \in Attempts
  <2>1. status \in Nat /\ reason \in Reasons
    BY RefusalTypes
  <2> QED BY <1>2, <2>1 DEF Attempts
<1>5. Passed(a)
  BY <1>3 DEF IsRefusal, Passed
<1> QED BY <1>1, <1>4, <1>5

\* The registers after a refusal.
LEMMA RefusedRegisters ==
  ASSUME NEW r, NEW s, NEW delays, Shape(r), InOrder(r), Explained(r, delays),
         r.pc \in Trying \cup {"next"}, NEW i, FirstUntried(r, i), NEW delay \in RetryDelays,
         s = Refused(r, i, delay)
  PROVE  Shape(s) /\ InOrder(s) /\ Explained(s, delays \cup {delay}) /\ s.pc = "next"
<1>0. IsRecord(r)
  BY DEF Shape
<1>01. PICK status, reason :
        /\ IsRefusal(status, reason)
        /\ s = [Tried(r, i, status, reason) EXCEPT !.limitedRetry = Shorter(@, delay)]
  BY DEF Refused, IsRefusal
<1>1. PICK t : t = Tried(r, i, status, reason)
  OBVIOUS
<1>2. /\ IsRecord(t) /\ t.pc = "next" /\ t.limitedRetry = r.limitedRetry
      /\ t.quotaUnavailable = r.quotaUnavailable
      /\ t.status = r.status /\ t.retryAfter = r.retryAfter
      /\ Grows(r, t, i, status, reason)
  BY <1>0, <1>1, TriedFields
<1>3. /\ s.pc = "next" /\ s.limitedRetry = Shorter(r.limitedRetry, delay)
      /\ s.status = r.status /\ s.retryAfter = r.retryAfter
      /\ s.routes = t.routes /\ s.attempts = t.attempts /\ IsRecord(s)
      /\ s.quotaUnavailable = r.quotaUnavailable
  BY <1>01, <1>1, <1>2 DEF IsRecord
<1>4. Grows(r, s, i, status, reason)
  BY <1>2, <1>3, SameAttemptsGrow
<1>5. s.attempts[i] \in Attempts /\ Passed(s.attempts[i])
  <2>1. r.routes[i] \in Connections
    BY DEF Shape, FirstUntried, Untried
  <2> QED BY <1>01, <1>4, <2>1, RefusedAttempt
<1>6. /\ s.limitedRetry \in RetryDelays \cup {0} /\ s.status \in Statuses
      /\ s.retryAfter \in RetryDelays \cup {0} /\ s.quotaUnavailable \in BOOLEAN
  BY <1>3 DEF Shape, Shorter
<1>7. Shape(s) /\ InOrder(s)
  <2>1. Kept(s.attempts[i])
    BY <1>5 DEF Passed, Kept
  <2> QED BY <2>1, <1>3, <1>4, <1>5, <1>6, GrowingInOrder
<1>8. Explained(s, delays \cup {delay})
  <2>1. i \notin DOMAIN r.attempts /\ r.pc \notin {"log", "done"}
    BY DEF FirstUntried, Untried, Trying
  <2>2. Grows(r, s, i, status, "quotaExceeded")
    BY <1>01, <1>4 DEF IsRefusal
  <2>3. s.quotaUnavailable <=> r.quotaUnavailable
    BY <1>3
  <2> QED BY <1>3, <2>1, <2>2, <2>3, RefusalExplained
<1> QED BY <1>3, <1>7, <1>8

\* A step that is a refusal of the first untried route.
LEMMA RefusedTry ==
  ASSUME GInv, NEW p \in Requests, req[p].pc \in Trying \cup {"next"},
         NEW i, FirstUntried(req[p], i), NEW delay \in RetryDelays,
         req'[p] = Refused(req[p], i, delay),
         logs'[p] = logs[p], told'[p] = told[p] \cup {delay}, req'[p].pc = "next" => Charged(p)',
         OnlyMoves(p), Tables', Histories'
  PROVE  GInv'
<1>1. PICK r, s, delays : r = req[p] /\ s = req'[p] /\ delays = told[p]
  OBVIOUS
<1>2. Shape(r) /\ InOrder(r) /\ Explained(r, delays) /\ Charged(p) /\ Logged(p)
  BY <1>1, InvOf
<1>3. Shape(s) /\ InOrder(s) /\ Explained(s, delays \cup {delay}) /\ s.pc = "next"
  <2>1. /\ r.pc \in Trying \cup {"next"} /\ FirstUntried(r, i)
        /\ s = Refused(r, i, delay)
    BY <1>1
  <2> QED BY <1>2, <2>1, RefusedRegisters
<1>4. Logged(p)'
  BY <1>1, <1>2, <1>3, NotYetLogged DEF Trying
<1> QED BY <1>1, <1>2, <1>3, <1>4, StepOfOne DEF Sound

\* Registers that move on within a try, or to the head of one.
LEMMA SameTries ==
  ASSUME NEW r, NEW s, NEW delays, Shape(r), InOrder(r), Explained(r, delays),
         IsRecord(s), s.routes = r.routes, s.attempts = r.attempts,
         s.limitedRetry = r.limitedRetry, s.quotaUnavailable = r.quotaUnavailable,
         s.retryAfter = r.retryAfter, s.status \in Statuses,
         r.pc \in Trying \cup {"next"}, s.pc \in Trying, FirstUntried(r, s.at),
         s.pc = "copying" => s.status < 500
  PROVE  Shape(s) /\ InOrder(s) /\ Explained(s, delays)
<1>1. Shape(s)
  BY DEF Shape, Trying, Phases
<1>2. Untried(s) = Untried(r)
  BY DEF Untried
<1>3. InOrder(s)
  BY <1>2 DEF InOrder, Trying, FirstUntried
<1>4. \A reason : Because(s, reason) <=> Because(r, reason)
  BY DEF Because
<1>5. Explained(s, delays)
  <2>1. r.retryAfter = 0 /\ s.pc \notin {"log", "done"}
    BY DEF Explained, Trying
  <2> QED BY <1>4, <2>1 DEF Explained, Answered
<1> QED BY <1>1, <1>3, <1>5

-----------------------------------------------------------------------------
(* The actions.  Each is a step of one request (OnlyMoves), keeps the types  *)
(* of the tables and histories, and does one of the above to the registers.  *)

\* A charge keeps the window's type and touches p's ledger only.
LEMMA Charging ==
  ASSUME Tables, Histories, NEW p \in Requests, NEW c, Charge(p, c)
  PROVE  /\ room' \in [Connections -> 0 .. Limit]
         /\ charges' = [q \in Requests |-> charges'[q]]
         /\ \A q \in Requests \ {p} : charges'[q] = charges[q]
<1>1. room' \in [Connections -> 0 .. Limit]
  <2> SUFFICES ASSUME c \in Connections PROVE room[c] - 1 \in 0 .. Limit
    BY DEF Charge, Granted, Tables
  <2>1. room[c] \in 0 .. Limit /\ room[c] > 0 /\ Limit \in Nat
    BY GatewayAssumption DEF Charge, Granted, Tables
  <2> QED BY <2>1
<1> QED BY <1>1 DEF Charge, Granted, Histories

\* A step that changes the registers of p, and may mark it as faulted, moves p
\* only.
LEMMA RegistersMoveAlone ==
  ASSUME Tables, Histories, NEW p \in Requests, NEW x, req' = [req EXCEPT ![p] = x],
         faulted' \in {faulted, faulted \cup {p}},
         UNCHANGED <<setting, routes, mappable, room, cancelled, logs, usage, charges, sends, told>>
  PROVE  OnlyMoves(p) /\ Tables' /\ Histories'
<1>1. req' = [req EXCEPT ![p] = req'[p]] /\ req' = [q \in Requests |-> req'[q]]
  BY DEF Histories
<1> QED BY <1>1 DEF OnlyMoves, Tables, Histories

\* Every action of a request moves that request only.
LEMMA RequestsMoveAlone ==
  ASSUME GInv, NEW p \in Requests,
         InLoop(p) \/ Provider(p) \/ BeforeLoop(p) \/ AfterLoop(p) \/ Cancel(p)
  PROVE  OnlyMoves(p) /\ Tables' /\ Histories'
<1>0. Tables /\ Histories /\ p \in DOMAIN req /\ \A q \in Requests : Charged(q)
  BY InvOf DEF GInv, Sound
<1>1. CASE QuotaGrants(p)
  <2>1. PICK x : req' = [req EXCEPT ![p] = x]
    BY <1>1 DEF QuotaGrants
  <2>2. req' = [req EXCEPT ![p] = req'[p]] /\ req' = [q \in Requests |-> req'[q]]
    BY <1>0, <2>1 DEF Histories
  <2>3. /\ room' \in [Connections -> 0 .. Limit]
        /\ charges' = [q \in Requests |-> charges'[q]]
        /\ \A q \in Requests \ {p} : charges'[q] = charges[q]
    <3>1. PICK c : Charge(p, c) \/ UNCHANGED <<room, charges>>
      BY <1>1 DEF QuotaGrants, GrantedFreely
    <3> QED BY <1>0, <3>1, Charging DEF Tables, Histories
  <2>4. UNCHANGED <<setting, routes, mappable, cancelled, logs, usage, sends, told, faulted>>
    BY <1>1 DEF QuotaGrants, given
  <2> QED BY <1>0, <2>2, <2>3, <2>4 DEF OnlyMoves, Tables, Histories
<1>2. CASE QuotaRefuses(p)
  <2>1. PICK x : req' = [req EXCEPT ![p] = x]
    BY <1>2 DEF QuotaRefuses
  <2>2. req' = [req EXCEPT ![p] = req'[p]] /\ req' = [q \in Requests |-> req'[q]]
    BY <1>0, <2>1 DEF Histories
  <2>3. PICK y : told' = [told EXCEPT ![p] = y]
    BY <1>2 DEF QuotaRefuses
  <2>4. UNCHANGED <<setting, routes, mappable, room, cancelled, logs, usage, charges, sends, faulted>>
    BY <1>2 DEF QuotaRefuses, Limited, given
  <2> QED BY <1>0, <2>2, <2>3, <2>4 DEF OnlyMoves, Tables, Histories
<1>3. CASE QuotaInaccessible(p)
  <2>1. PICK x : req' = [req EXCEPT ![p] = x]
    BY <1>3, Zenon DEF QuotaInaccessible
  <2>2. UNCHANGED <<given, room, cancelled, logs, usage, history, faulted>>
    BY <1>3, Zenon DEF QuotaInaccessible, Inaccessible
  <2>3. /\ UNCHANGED faulted
        /\ UNCHANGED <<setting, routes, mappable, room, cancelled, logs, usage, charges, sends, told>>
    BY <2>2 DEF given, history
  <2> QED BY <1>0, <2>1, <2>3, RegistersMoveAlone
<1>4. CASE QuotaUnavailable(p)
  <2>1. PICK x : req' = [req EXCEPT ![p] = x]
    <3>1. PICK i : req' = [req EXCEPT ![p] = [Tried(@, i, 503, "quotaUnavailable")
                                               EXCEPT !.quotaUnavailable = TRUE]]
      BY <1>4, ZenonT(40) DEF QuotaUnavailable
    <3> QED BY <3>1, Zenon
  <2>2. req' = [req EXCEPT ![p] = req'[p]] /\ req' = [q \in Requests |-> req'[q]]
    BY <1>0, <2>1 DEF Histories
  <2>3. /\ room' \in [Connections -> 0 .. Limit]
        /\ charges' = [q \in Requests |-> charges'[q]]
        /\ \A q \in Requests \ {p} : charges'[q] = charges[q]
    <3>1. PICK c : Charge(p, c) \/ UNCHANGED <<room, charges>>
      BY <1>4 DEF QuotaUnavailable
    <3> QED BY <1>0, <3>1, Charging DEF Tables, Histories
  <2>4. UNCHANGED <<setting, routes, mappable, cancelled, logs, usage, sends, told>>
    BY <1>4 DEF QuotaUnavailable, given
  <2>5. faulted' \subseteq Requests /\ \A q \in Requests \ {p} : q \in faulted' <=> q \in faulted
    BY <1>0, <1>4 DEF QuotaUnavailable, CallFails, Tables
  <2> QED BY <1>0, <2>2, <2>3, <2>4, <2>5 DEF OnlyMoves, Tables, Histories
<1>5. CASE KeyChosen(p)
  <2>1. PICK x : req' = [req EXCEPT ![p] = x]
    BY <1>5, Zenon DEF KeyChosen
  <2>2. /\ faulted' \in {faulted, faulted \cup {p}}
        /\ UNCHANGED <<setting, routes, mappable, room, cancelled, logs, usage, charges, sends, told>>
    BY <1>5 DEF KeyChosen, given, history
  <2> QED BY <1>0, <2>1, <2>2, RegistersMoveAlone
<1>6. CASE NoKeyChosen(p)
  <2>1. PICK x : req' = [req EXCEPT ![p] = x]
    BY <1>6, Zenon DEF NoKeyChosen
  <2>2. /\ faulted' \in {faulted, faulted \cup {p}}
        /\ UNCHANGED <<setting, routes, mappable, room, cancelled, logs, usage, charges, sends, told>>
    BY <1>6 DEF NoKeyChosen, given, history
  <2> QED BY <1>0, <2>1, <2>2, RegistersMoveAlone
<1>7. CASE Send(p)
  BY <1>0, <1>7, ZenonT(30) DEF Send, OnlyMoves, Tables, Histories, given, history, At, IsNext,
     Inaccessible, CallFails, Record
<1>8. CASE TransportError(p)
  <2>1. PICK x : req' = [req EXCEPT ![p] = x]
    BY <1>8, Zenon DEF TransportError
  <2>2. /\ faulted' \in {faulted, faulted \cup {p}}
        /\ UNCHANGED <<setting, routes, mappable, room, cancelled, logs, usage, charges, sends, told>>
    BY <1>8 DEF TransportError, given, history
  <2> QED BY <1>0, <2>1, <2>2, RegistersMoveAlone
<1>9. CASE Reply(p)
  <2>1. PICK x : req' = [req EXCEPT ![p] = x]
    BY <1>9 DEF Reply
  <2>2. req' = [req EXCEPT ![p] = req'[p]] /\ req' = [q \in Requests |-> req'[q]]
    BY <1>0, <2>1 DEF Histories
  <2>3. /\ faulted' \subseteq Requests /\ usage' \in [Requests -> Nat]
        /\ \A q \in Requests \ {p} : q \in faulted' <=> q \in faulted
    BY <1>0, <1>9 DEF Reply, CallFails, Tables, Histories
  <2>4. UNCHANGED <<setting, routes, mappable, room, cancelled, logs, charges, sends, told>>
    BY <1>9 DEF Reply, given, history
  <2> QED BY <1>0, <2>2, <2>3, <2>4, SMTT(30) DEF OnlyMoves, Tables, Histories
<1>10. CASE Copy(p)
  BY <1>0, <1>10, ZenonT(30) DEF Copy, OnlyMoves, Tables, Histories, given, history, At, IsNext,
     Inaccessible, CallFails, Record
<1>11. CASE Authenticate(p)
  <2>1. PICK x : req' = [req EXCEPT ![p] = x]
    BY <1>11, ZenonT(60) DEF Authenticate
  <2>2. /\ faulted' \in {faulted, faulted \cup {p}}
        /\ UNCHANGED <<setting, routes, mappable, room, cancelled, logs, usage, charges, sends, told>>
    BY <1>11 DEF Authenticate, given, history
  <2> QED BY <1>0, <2>1, <2>2, RegistersMoveAlone
<1>12. CASE ReadPayload(p)
  <2>1. PICK x : req' = [req EXCEPT ![p] = x]
    BY <1>12, SMTT(30) DEF ReadPayload
  <2>2. /\ faulted' \in {faulted, faulted \cup {p}}
        /\ UNCHANGED <<setting, routes, mappable, room, cancelled, logs, usage, charges, sends, told>>
    BY <1>12 DEF ReadPayload, given, history
  <2> QED BY <1>0, <2>1, <2>2, RegistersMoveAlone
<1>13. CASE LoadRoutes(p)
  <2>1. PICK x : req' = [req EXCEPT ![p] = x]
    BY <1>13, Zenon DEF LoadRoutes
  <2>2. /\ faulted' \in {faulted, faulted \cup {p}}
        /\ UNCHANGED <<setting, routes, mappable, room, cancelled, logs, usage, charges, sends, told>>
    BY <1>13 DEF LoadRoutes, given, history
  <2> QED BY <1>0, <2>1, <2>2, RegistersMoveAlone
<1>14. CASE RoutingUnavailable(p)
  <2>1. PICK x : req' = [req EXCEPT ![p] = x]
    BY <1>14, Zenon DEF RoutingUnavailable
  <2>2. /\ faulted' \in {faulted, faulted \cup {p}}
        /\ UNCHANGED <<setting, routes, mappable, room, cancelled, logs, usage, charges, sends, told>>
    BY <1>14 DEF RoutingUnavailable, given, history, CallFails
  <2> QED BY <1>0, <2>1, <2>2, RegistersMoveAlone
<1>15. CASE Exhausted(p)
  <2>1. PICK x : req' = [req EXCEPT ![p] = x]
    BY <1>15, ZenonT(60) DEF Exhausted
  <2>2. /\ faulted' \in {faulted, faulted \cup {p}}
        /\ UNCHANGED <<setting, routes, mappable, room, cancelled, logs, usage, charges, sends, told>>
    BY <1>15 DEF Exhausted, given, history
  <2> QED BY <1>0, <2>1, <2>2, RegistersMoveAlone
<1>16. CASE RejectBody(p)
  <2>1. PICK x : req' = [req EXCEPT ![p] = x]
    BY <1>16, Zenon DEF RejectBody
  <2>2. /\ faulted' \in {faulted, faulted \cup {p}}
        /\ UNCHANGED <<setting, routes, mappable, room, cancelled, logs, usage, charges, sends, told>>
    BY <1>16 DEF RejectBody, given, history
  <2> QED BY <1>0, <2>1, <2>2, RegistersMoveAlone
<1>17. CASE Log(p)
  BY <1>0, <1>17, ZenonT(30) DEF Log, OnlyMoves, Tables, Histories, given, history, At, IsNext,
     Inaccessible, CallFails, Record
<1>18. CASE Cancel(p)
  BY <1>0, <1>18, SMTT(30) DEF Cancel, OnlyMoves, Tables, Histories, given, history, At, IsNext,
     Inaccessible, CallFails, Record
<1> QED
  BY <1>1, <1>2, <1>3, <1>4, <1>5, <1>6, <1>7, <1>8, <1>9, <1>10, <1>11, <1>12, <1>13, <1>14, <1>15, <1>16, <1>17, <1>18
  DEF InLoop, Provider, BeforeLoop, AfterLoop

\* Charges only grow, and a step to the head of the loop owes none.
LEMMA LedgerGrows ==
  ASSUME GInv, NEW p \in Requests,
         \/ charges'[p] = charges[p]
         \/ \E c : charges'[p] = [charges[p] EXCEPT ![c] = @ + 1],
         sends'[p] = sends[p], req'[p].pc \notin {"choose", "send"}
  PROVE  Charged(p)'
<1>1. Charged(p)
  BY InvOf
<1>2. CASE charges'[p] = charges[p]
  BY <1>1, <1>2 DEF Charged
<1>3. ASSUME NEW c, charges'[p] = [charges[p] EXCEPT ![c] = @ + 1]
      PROVE  Charged(p)'
  <2>1. /\ charges'[p] \in [Connections -> Nat]
        /\ \A d \in Connections : charges[p][d] <= charges'[p][d]
    <3>1. ASSUME NEW d \in Connections
          PROVE  charges'[p][d] = IF d = c THEN charges[p][d] + 1 ELSE charges[p][d]
      BY <1>1, <1>3 DEF Charged
    <3>2. \A d \in Connections : charges[p][d] \in Nat
      BY <1>1 DEF Charged
    <3>3. \A d \in Connections : charges'[p][d] \in Nat /\ charges[p][d] <= charges'[p][d]
      BY <3>1, <3>2
    <3>4. charges'[p] = [d \in Connections |-> charges'[p][d]]
      BY <1>1, <1>3 DEF Charged
    <3> QED BY <3>3, <3>4
  <2>2. \A d \in Connections : sends[p][d] \in Nat /\ charges[p][d] \in Nat
                                /\ charges'[p][d] \in Nat
    BY <1>1, <2>1 DEF Charged
  <2> QED BY <1>1, <2>1, <2>2 DEF Charged
<1> QED BY <1>2, <1>3

\* One more in a ledger of connections.
LEMMA OneMore ==
  ASSUME NEW f \in [Connections -> Nat], NEW c, NEW g, g = [f EXCEPT ![c] = @ + 1]
  PROVE  /\ g \in [Connections -> Nat]
         /\ \A d \in Connections : /\ f[d] \in Nat
                                   /\ g[d] = IF d = c THEN f[d] + 1 ELSE f[d]
<1>1. \A d \in Connections : f[d] \in Nat /\ g[d] = IF d = c THEN f[d] + 1 ELSE f[d]
  OBVIOUS
<1>2. g = [d \in Connections |-> g[d]]
  OBVIOUS
<1>3. ASSUME NEW d \in Connections PROVE g[d] \in Nat
  <2>1. f[d] \in Nat /\ (g[d] = f[d] + 1 \/ g[d] = f[d])
    BY <1>1
  <2> QED BY <2>1
<1> QED BY <1>1, <1>2, <1>3

\* The actions that end a try in a failure keep the invariant.
LEMMA FailingSteps ==
  ASSUME GInv, NEW p \in Requests,
         \/ QuotaInaccessible(p) \/ QuotaUnavailable(p) \/ NoKeyChosen(p) \/ TransportError(p)
         \/ QuotaRefuses(p)
  PROVE  GInv'
<1>0. /\ OnlyMoves(p) /\ Tables' /\ Histories'
      /\ Histories /\ p \in DOMAIN req /\ charges \in [Requests -> [Connections -> Nat]]
      /\ told = [q \in Requests |-> told[q]]
  <2>1. \A q \in Requests : charges[q] \in [Connections -> Nat]
    BY InvOf DEF Charged
  <2> QED BY <2>1, InvOf, RequestsMoveAlone DEF InLoop, Provider, Histories
<1>1. CASE QuotaInaccessible(p)
  <2>1. PICK i \in Priorities :
          IsNext(p, i) /\ req'[p] = Tried(req[p], i, 404, "inaccessible")
    BY <1>0, <1>1 DEF QuotaInaccessible
  <2>2. FirstUntried(req[p], i) /\ req[p].pc \in Trying \cup {"next"}
    BY <2>1, RouteInHand DEF IsNext, At
  <2>3. PICK status, reason : Failing(status, reason) /\ Fails(req[p], req'[p], i, status, reason)
    BY <2>1 DEF Failing, Fails, Reasons
  <2>4. UNCHANGED <<charges, sends, told, logs>>
    BY <1>1 DEF QuotaInaccessible, history
  <2>5. req'[p].pc = "next" => Charged(p)'
    BY <2>4, LedgerGrows
  <2> QED BY <1>0, <2>2, <2>3, <2>4, <2>5, FailedTry
<1>2. CASE QuotaUnavailable(p)
  <2>1. PICK i \in Priorities :
          /\ IsNext(p, i)
          /\ UNCHANGED <<room, charges>> \/ Charge(p, req[p].routes[i])
          /\ req'[p] = [Tried(req[p], i, 503, "quotaUnavailable")
                          EXCEPT !.quotaUnavailable = TRUE]
    <3>1. PICK i \in Priorities :
            /\ IsNext(p, i)
            /\ \/ UNCHANGED <<room, charges>>
               \/ p \notin cancelled /\ Charge(p, req[p].routes[i])
            /\ req' = [req EXCEPT ![p] = [Tried(@, i, 503, "quotaUnavailable")
                                            EXCEPT !.quotaUnavailable = TRUE]]
      BY <1>2, Zenon DEF QuotaUnavailable
    <3>2. req'[p] = [Tried(req[p], i, 503, "quotaUnavailable") EXCEPT !.quotaUnavailable = TRUE]
      BY <1>0, <3>1
    <3> QED BY <3>1, <3>2, ZenonT(40)
  <2>2. FirstUntried(req[p], i) /\ req[p].pc \in Trying \cup {"next"}
    BY <2>1, RouteInHand DEF IsNext, At
  <2>3. PICK status, reason : Failing(status, reason) /\ Fails(req[p], req'[p], i, status, reason)
    <3>1. Failing(503, "quotaUnavailable")
      BY DEF Failing, Reasons
    <3>2. Fails(req[p], req'[p], i, 503, "quotaUnavailable")
      BY <2>1 DEF Fails
    <3> QED BY <3>1, <3>2
  <2>4. UNCHANGED <<sends, told, logs>>
    BY <1>2 DEF QuotaUnavailable
  <2>5. req'[p].pc = "next" => Charged(p)'
    <3>1. \/ charges'[p] = charges[p]
          \/ \E c : charges'[p] = [charges[p] EXCEPT ![c] = @ + 1]
      <4>1. CASE UNCHANGED <<room, charges>>
        BY <4>1
      <4>2. ASSUME NEW c, Charge(p, c)
            PROVE  charges'[p] = [charges[p] EXCEPT ![c] = @ + 1]
        BY <1>0, <4>2 DEF Charge, Granted
      <4> QED BY <2>1, <4>1, <4>2, ZenonT(30)
    <3> QED BY <2>4, <3>1, LedgerGrows
  <2> QED BY <1>0, <2>2, <2>3, <2>4, <2>5, FailedTry
<1>3. CASE NoKeyChosen(p)
  <2>1. /\ req[p].pc = "choose" /\ req'[p] = Tried(req[p], req[p].at, 0, "noKey")
    BY <1>0, <1>3 DEF NoKeyChosen, At
  <2>2. FirstUntried(req[p], req[p].at) /\ req[p].pc \in Trying \cup {"next"}
    BY <2>1, RouteInHand DEF Trying
  <2>3. PICK status, reason :
          Failing(status, reason) /\ Fails(req[p], req'[p], req[p].at, status, reason)
    BY <2>1 DEF Failing, Fails, Reasons
  <2>4. UNCHANGED <<charges, sends, told, logs>>
    BY <1>3 DEF NoKeyChosen, history
  <2>5. req'[p].pc = "next" => Charged(p)'
    BY <2>4, LedgerGrows
  <2> QED BY <1>0, <2>2, <2>3, <2>4, <2>5, FailedTry
<1>4. CASE TransportError(p)
  <2>1. /\ req[p].pc \in {"send", "waiting"}
        /\ req'[p] = Tried(req[p], req[p].at, 0, "transportError")
    BY <1>0, <1>4 DEF TransportError, At
  <2>2. FirstUntried(req[p], req[p].at) /\ req[p].pc \in Trying \cup {"next"}
    BY <2>1, RouteInHand DEF Trying
  <2>3. PICK status, reason :
          Failing(status, reason) /\ Fails(req[p], req'[p], req[p].at, status, reason)
    BY <2>1 DEF Failing, Fails, Reasons
  <2>4. UNCHANGED <<charges, sends, told, logs>>
    BY <1>4 DEF TransportError, history
  <2>5. req'[p].pc = "next" => Charged(p)'
    BY <2>4, LedgerGrows
  <2> QED BY <1>0, <2>2, <2>3, <2>4, <2>5, FailedTry
<1>5. CASE QuotaRefuses(p)
  <2>1. PICK i \in Priorities, delay \in RetryDelays :
          /\ IsNext(p, i) /\ req'[p] = Refused(req[p], i, delay)
          /\ told' = [told EXCEPT ![p] = @ \cup {delay}]
    BY <1>0, <1>5 DEF QuotaRefuses
  <2>2. FirstUntried(req[p], i) /\ req[p].pc \in Trying \cup {"next"}
    BY <2>1, RouteInHand DEF IsNext, At
  <2>3. told'[p] = told[p] \cup {delay}
    BY <1>0, <2>1
  <2>4. UNCHANGED <<charges, sends, logs>>
    BY <1>5 DEF QuotaRefuses
  <2>5. req'[p].pc = "next" => Charged(p)'
    BY <2>4, LedgerGrows
  <2> QED BY <1>0, <2>1, <2>2, <2>3, <2>4, <2>5, RefusedTry
<1> QED BY <1>1, <1>2, <1>3, <1>4, <1>5

\* A step within a try.
LEMMA AdvancingTry ==
  ASSUME GInv, NEW p \in Requests, req[p].pc \in Trying \cup {"next"},
         NEW s, s = req'[p], IsRecord(s), s.routes = req[p].routes,
         s.attempts = req[p].attempts, s.limitedRetry = req[p].limitedRetry,
         s.quotaUnavailable = req[p].quotaUnavailable, s.retryAfter = req[p].retryAfter,
         s.status \in Statuses, s.pc \in Trying, FirstUntried(req[p], s.at),
         s.pc = "copying" => s.status < 500,
         told'[p] = told[p], logs'[p] = logs[p], Charged(p)',
         OnlyMoves(p), Tables', Histories'
  PROVE  GInv'
<1>1. PICK r, delays : r = req[p] /\ delays = told[p]
  OBVIOUS
<1>2. Shape(r) /\ InOrder(r) /\ Explained(r, delays) /\ Logged(p)
  BY <1>1, InvOf
<1>3. Shape(s) /\ InOrder(s) /\ Explained(s, delays)
  BY <1>1, <1>2, SameTries
<1>4. Logged(p)'
  BY <1>2, NotYetLogged DEF Trying
<1> QED BY <1>1, <1>3, <1>4, StepOfOne DEF Sound

\* The actions that carry a try on keep the invariant: the reservation, the key
\* and the send.
LEMMA AdvancingSteps ==
  ASSUME GInv, NEW p \in Requests, QuotaGrants(p) \/ KeyChosen(p) \/ Send(p)
  PROVE  GInv'
<1>0. /\ OnlyMoves(p) /\ Tables' /\ Histories'
      /\ p \in DOMAIN req /\ IsRecord(req[p]) /\ Charged(p) /\ Shape(req[p])
      /\ charges \in [Requests -> [Connections -> Nat]]
      /\ sends \in [Requests -> [Connections -> Nat]]
  <2>1. \A q \in Requests : charges[q] \in [Connections -> Nat] /\ sends[q] \in [Connections -> Nat]
    BY InvOf DEF Charged
  <2> QED BY <2>1, InvOf, RequestsMoveAlone DEF InLoop, Histories
<1>1. CASE QuotaGrants(p)
  <2>1. PICK i \in Priorities :
          /\ IsNext(p, i)
          /\ \/ Charge(p, req[p].routes[i])
             \/ GrantedFreely(req[p].routes[i]) /\ UNCHANGED charges
          /\ req'[p] = [req[p] EXCEPT !.pc = "choose", !.at = i]
    BY <1>0, <1>1 DEF QuotaGrants
  <2>2. FirstUntried(req[p], i) /\ req[p].pc = "next"
    BY <2>1, RouteInHand DEF IsNext, At
  <2>3. UNCHANGED <<sends, told, logs>>
    BY <1>1 DEF QuotaGrants
  <2>4. /\ req'[p].pc = "choose" /\ req'[p].at = i /\ req'[p].routes = req[p].routes
        /\ IsRecord(req'[p])
    BY <1>0, <2>1 DEF IsRecord
  <2>5. Charged(p)'
    <3>1. CASE Charge(p, req[p].routes[i])
      <4>1. PICK c : c = req[p].routes[i]
        OBVIOUS
      <4>2. charges'[p] = [charges[p] EXCEPT ![c] = @ + 1]
        BY <1>0, <3>1, <4>1 DEF Charge, Granted
      <4>3. \A d \in Connections : /\ charges[p][d] \in Nat /\ sends[p][d] \in Nat
                                   /\ charges'[p][d] = IF d = c THEN charges[p][d] + 1
                                                                ELSE charges[p][d]
        BY <1>0, <4>2
      <4>4. charges'[p] \in [Connections -> Nat]
        <5>1. PICK f, g : f = charges[p] /\ g = charges'[p]
          OBVIOUS
        <5>2. f \in [Connections -> Nat] /\ g = [f EXCEPT ![c] = @ + 1]
          BY <1>0, <4>2, <5>1
        <5>3. g \in [Connections -> Nat]
          BY <5>2, OneMore
        <5> QED BY <5>1, <5>3
      <4>5. ~Admin => \A d \in Connections \ Own : sends[p][d] <= charges[p][d]
        BY <1>0 DEF Charged
      <4>6. sends'[p] = sends[p] /\ sends[p] \in [Connections -> Nat]
        BY <1>0, <2>3
      <4> QED BY <2>4, <4>1, <4>3, <4>4, <4>5, <4>6 DEF Charged
    <3>2. CASE GrantedFreely(req[p].routes[i]) /\ UNCHANGED charges
      <4>1. req[p].routes[i] \in Own \/ Admin
        BY <3>2 DEF GrantedFreely, Unmetered
      <4>2. charges'[p] = charges[p] /\ sends'[p] = sends[p]
        BY <2>3, <3>2
      <4> QED BY <1>0, <2>4, <4>1, <4>2 DEF Charged
    <3> QED BY <2>1, <3>1, <3>2
  <2>6. /\ req'[p].attempts = req[p].attempts /\ req'[p].limitedRetry = req[p].limitedRetry
        /\ req'[p].quotaUnavailable = req[p].quotaUnavailable
        /\ req'[p].retryAfter = req[p].retryAfter /\ req'[p].status \in Statuses
    BY <1>0, <2>1 DEF Shape, IsRecord
  <2> QED BY <1>0, <2>2, <2>3, <2>4, <2>5, <2>6, AdvancingTry DEF Trying
<1>2. CASE KeyChosen(p)
  <2>1. req[p].pc = "choose" /\ req'[p] = [req[p] EXCEPT !.pc = "send"]
    BY <1>0, <1>2 DEF KeyChosen, At
  <2>2. FirstUntried(req[p], req[p].at)
    BY <2>1, RouteInHand DEF Trying
  <2>3. UNCHANGED <<sends, charges, told, logs>>
    BY <1>2 DEF KeyChosen, history
  <2>4. /\ req'[p].pc = "send" /\ req'[p].at = req[p].at /\ req'[p].routes = req[p].routes
        /\ IsRecord(req'[p])
    BY <1>0, <2>1 DEF IsRecord
  <2>5. Charged(p)'
    BY <1>0, <2>1, <2>3, <2>4, LedgerStill
  <2>6. /\ req'[p].attempts = req[p].attempts /\ req'[p].limitedRetry = req[p].limitedRetry
        /\ req'[p].quotaUnavailable = req[p].quotaUnavailable
        /\ req'[p].retryAfter = req[p].retryAfter /\ req'[p].status \in Statuses
    BY <1>0, <2>1 DEF Shape, IsRecord
  <2> QED BY <1>0, <2>1, <2>2, <2>3, <2>4, <2>5, <2>6, AdvancingTry DEF Trying
<1>3. CASE Send(p)
  <2>1. req[p].pc = "send" /\ req'[p] = [req[p] EXCEPT !.pc = "waiting"]
    BY <1>0, <1>3 DEF Send, At
  <2>2. FirstUntried(req[p], req[p].at)
    BY <2>1, RouteInHand DEF Trying
  <2>3. UNCHANGED <<charges, told, logs>>
    BY <1>3 DEF Send
  <2>4. /\ req'[p].pc = "waiting" /\ req'[p].at = req[p].at /\ req'[p].routes = req[p].routes
        /\ IsRecord(req'[p])
    BY <1>0, <2>1 DEF IsRecord
  <2>5. Charged(p)'
    <3>1. PICK c : c = req[p].routes[req[p].at]
      OBVIOUS
    <3>2. sends'[p] = [sends[p] EXCEPT ![c] = @ + 1]
      BY <1>0, <1>3, <3>1 DEF Send
    <3>3. \A d \in Connections : /\ charges[p][d] \in Nat /\ sends[p][d] \in Nat
                                 /\ sends'[p][d] = IF d = c THEN sends[p][d] + 1 ELSE sends[p][d]
      BY <1>0, <3>2
    <3>4. sends'[p] \in [Connections -> Nat]
      <4>1. PICK f, g : f = sends[p] /\ g = sends'[p]
        OBVIOUS
      <4>2. f \in [Connections -> Nat] /\ g = [f EXCEPT ![c] = @ + 1]
        BY <1>0, <3>2, <4>1
      <4>3. g \in [Connections -> Nat]
        BY <4>2, OneMore
      <4> QED BY <4>1, <4>3
    <3>5. ~Admin => \A d \in Connections \ Own :
            /\ sends[p][d] <= charges[p][d]
            /\ d = c => sends[p][d] < charges[p][d]
      BY <1>0, <2>1, <3>1 DEF Charged
    <3>6. charges'[p] = charges[p] /\ charges[p] \in [Connections -> Nat]
      BY <1>0, <2>3
    <3> QED BY <2>4, <3>3, <3>4, <3>5, <3>6 DEF Charged
  <2>6. /\ req'[p].attempts = req[p].attempts /\ req'[p].limitedRetry = req[p].limitedRetry
        /\ req'[p].quotaUnavailable = req[p].quotaUnavailable
        /\ req'[p].retryAfter = req[p].retryAfter /\ req'[p].status \in Statuses
    BY <1>0, <2>1 DEF Shape, IsRecord
  <2> QED BY <1>0, <2>1, <2>2, <2>3, <2>4, <2>5, <2>6, AdvancingTry DEF Trying
<1> QED BY <1>1, <1>2, <1>3

\* A reply: of a failure to the next route, any other to the copy.
LEMMA ReplyStep ==
  ASSUME GInv, NEW p \in Requests, Reply(p)
  PROVE  GInv'
<1>0. /\ OnlyMoves(p) /\ Tables' /\ Histories'
      /\ p \in DOMAIN req /\ IsRecord(req[p]) /\ Charged(p) /\ Shape(req[p])
  BY InvOf, RequestsMoveAlone DEF Provider
<1>1. PICK status \in Replies :
        /\ req[p].pc = "waiting"
        /\ req'[p] = IF Retryable(status) THEN Tried(req[p], req[p].at, status, "serverError")
                     ELSE [req[p] EXCEPT !.pc = "copying", !.status = status]
  BY <1>0 DEF Reply, At
<1>2. FirstUntried(req[p], req[p].at)
  BY <1>1, RouteInHand DEF Trying
<1>3. UNCHANGED <<charges, sends, told, logs>>
  BY DEF Reply, history
<1>4. CASE Retryable(status)
  <2>1. PICK reason : /\ Failing(status, reason)
                      /\ Fails(req[p], req'[p], req[p].at, status, reason)
    <3>1. status \in Nat /\ status >= 500
      BY <1>4, GatewayAssumption DEF Retryable
    <3> QED BY <1>1, <1>4, <3>1 DEF Failing, Fails, Reasons
  <2>2. req'[p].pc = "next" => Charged(p)'
    BY <1>3, LedgerGrows
  <2> QED BY <1>0, <1>1, <1>2, <1>3, <2>1, <2>2, FailedTry DEF Trying
<1>5. CASE ~Retryable(status)
  <2>1. req'[p] = [req[p] EXCEPT !.pc = "copying", !.status = status]
    BY <1>1, <1>5
  <2>2. /\ req'[p].pc = "copying" /\ req'[p].at = req[p].at /\ req'[p].routes = req[p].routes
        /\ req'[p].attempts = req[p].attempts /\ req'[p].limitedRetry = req[p].limitedRetry
        /\ req'[p].quotaUnavailable = req[p].quotaUnavailable
        /\ req'[p].retryAfter = req[p].retryAfter /\ req'[p].status \in Statuses
        /\ IsRecord(req'[p]) /\ req'[p].status < 500
    <3>1. PICK r, s : r = req[p] /\ s = req'[p]
      OBVIOUS
    <3>2. s = [pc |-> "copying", routes |-> r.routes, at |-> r.at, attempts |-> r.attempts,
               limitedRetry |-> r.limitedRetry, quotaUnavailable |-> r.quotaUnavailable,
               status |-> status, retryAfter |-> r.retryAfter]
      BY <1>0, <2>1, <3>1 DEF IsRecord
    <3>3. status \in Statuses /\ status < 500
      BY <1>5, GatewayAssumption DEF Statuses, Retryable
    <3> QED BY <3>1, <3>2, <3>3 DEF IsRecord
  <2>3. Charged(p)'
    BY <1>0, <1>3, <2>2, LedgerStill
  <2> QED BY <1>0, <1>1, <1>2, <1>3, <2>2, <2>3, AdvancingTry DEF Trying
<1> QED BY <1>4, <1>5

\* The registers after the copy: the last attempt is the one that was served.
LEMMA CopiedRegisters ==
  ASSUME NEW r, NEW s, NEW delays, Shape(r), InOrder(r), Explained(r, delays),
         r.pc = "copying", NEW reason \in {"served", "interrupted"}, NEW status,
         status = r.status, NEW i, FirstUntried(r, i),
         s = [Tried(r, i, status, reason) EXCEPT !.pc = "log"]
  PROVE  Shape(s) /\ InOrder(s) /\ Explained(s, delays) /\ s.pc = "log"
<1>0. IsRecord(r) /\ r.retryAfter = 0 /\ status \in Nat
  BY GatewayAssumption DEF Shape, Explained, Statuses
<1>1. PICK t : t = Tried(r, i, status, reason)
  OBVIOUS
<1>2. /\ IsRecord(t) /\ t.pc = "next" /\ t.limitedRetry = r.limitedRetry
      /\ t.quotaUnavailable = r.quotaUnavailable
      /\ t.status = r.status /\ t.retryAfter = r.retryAfter
      /\ Grows(r, t, i, status, reason)
  BY <1>0, <1>1, TriedFields
<1>3. /\ s.pc = "log" /\ s.limitedRetry = r.limitedRetry
      /\ s.status = r.status /\ s.retryAfter = r.retryAfter
      /\ s.routes = t.routes /\ s.attempts = t.attempts /\ IsRecord(s)
      /\ s.quotaUnavailable = r.quotaUnavailable
  BY <1>1, <1>2 DEF IsRecord
<1>4. Grows(r, s, i, status, reason)
  BY <1>2, <1>3, SameAttemptsGrow
<1>5. PICK a : a = s.attempts[i]
  OBVIOUS
<1>6. a = [connection |-> r.routes[i], status |-> status, reason |-> reason]
  BY <1>4, <1>5 DEF Grows
<1>7. a \in Attempts /\ a.reason \in {"served", "interrupted"} /\ a.status = s.status
  <2>1. r.routes[i] \in Connections /\ reason \in Reasons
    BY DEF Shape, FirstUntried, Untried, Reasons
  <2>2. a \in Attempts
    BY <1>0, <1>6, <2>1 DEF Attempts
  <2> QED BY <1>3, <1>6, <2>2
<1>8. /\ s.limitedRetry \in RetryDelays \cup {0} /\ s.status \in Statuses
      /\ s.retryAfter \in RetryDelays \cup {0} /\ s.quotaUnavailable \in BOOLEAN
  BY <1>3 DEF Shape
<1>9. Shape(s) /\ InOrder(s) /\ \A j \in DOMAIN s.attempts : j <= i
  <2>1. Kept(s.attempts[i])
    BY <1>3, <1>5, <1>7 DEF Kept, InOrder
  <2> QED BY <2>1, <1>3, <1>4, <1>5, <1>7, <1>8, GrowingInOrder DEF Trying
<1>10. Explained(s, delays)
  <2>1. i \notin DOMAIN r.attempts /\ i \in DOMAIN s.attempts
    BY <1>4 DEF FirstUntried, Untried, Grows
  <2>2. \A because : Because(s, because) <=> Because(r, because) \/ reason = because
    BY <1>4, <2>1, GrownReasons
  <2>3. /\ Because(s, "quotaUnavailable") <=> Because(r, "quotaUnavailable")
        /\ Because(s, "quotaExceeded") <=> Because(r, "quotaExceeded")
    BY <2>2
  <2>4. Answered(s, delays)
    BY <1>0, <1>3, <1>5, <1>7, <1>9, <2>1 DEF Answered
  <2> QED BY <1>3, <2>3, <2>4 DEF Explained
<1> QED BY <1>3, <1>9, <1>10

\* The registers before any route was tried.
LEMMA RegistersBeforeLoop ==
  ASSUME NEW r, NEW s, NEW delays, Shape(r), InOrder(r), Explained(r, delays),
         r.pc \in {"new", "payload", "load"}, IsRecord(s), s.attempts = r.attempts,
         s.limitedRetry = r.limitedRetry, s.quotaUnavailable = r.quotaUnavailable,
         s.retryAfter = 0, s.status \in Statuses,
         s.pc \in {"payload", "load", "next", "log", "done"},
         DOMAIN s.routes \subseteq Priorities, \A i \in DOMAIN s.routes : s.routes[i] \in Connections
  PROVE  Shape(s) /\ InOrder(s) /\ Explained(s, delays) /\ DOMAIN s.attempts = {}
<1>1. DOMAIN r.attempts = {} /\ DOMAIN s.attempts = {}
  BY DEF InOrder
<1>2. Shape(s)
  BY <1>1 DEF Shape, Phases
<1>3. InOrder(s)
  BY <1>1 DEF InOrder, Trying
<1>4. \A reason : Because(s, reason) <=> Because(r, reason)
  BY DEF Because
<1>5. Explained(s, delays)
  BY <1>1, <1>4 DEF Explained, Answered
<1> QED BY <1>1, <1>2, <1>3, <1>5

\* The registers of an outcome that is settled.
LEMMA SettledFields ==
  ASSUME NEW r, NEW s, NEW status, NEW delay, IsRecord(r), s = Settle(r, status, delay)
  PROVE  /\ IsRecord(s) /\ s.pc = "log" /\ s.routes = r.routes /\ s.attempts = r.attempts
         /\ s.limitedRetry = r.limitedRetry /\ s.quotaUnavailable = r.quotaUnavailable
         /\ s.status = status /\ s.retryAfter = delay
<1>1. s = [pc |-> "log", routes |-> r.routes, at |-> r.at, attempts |-> r.attempts,
           limitedRetry |-> r.limitedRetry, quotaUnavailable |-> r.quotaUnavailable,
           status |-> status, retryAfter |-> delay]
  BY DEF Settle, IsRecord
<1> QED BY <1>1 DEF IsRecord

\* Delays are numbers.
LEMMA DelaysAreNumbers ==
  \A delay \in RetryDelays \cup {0} : delay \in Nat /\ (delay > 0 <=> delay # 0)
<1>1. ASSUME NEW delay \in RetryDelays PROVE delay \in Nat \ {0}
  BY GatewayAssumption
<1> QED BY <1>1

\* Statuses are numbers.
LEMMA StatusesAreNumbers == \A status \in Statuses : status \in Nat
<1>1. ASSUME NEW status \in Replies PROVE status \in Nat
  BY GatewayAssumption
<1> QED BY <1>1 DEF Statuses

\* The registers after the last route.
LEMMA ExhaustedRegisters ==
  ASSUME NEW r, NEW s, NEW delays, Shape(r), InOrder(r), Explained(r, delays),
         r.pc = "next", Untried(r) = {},
         s = IF r.quotaUnavailable THEN Settle(r, 503, 0)
             ELSE IF r.limitedRetry > 0 THEN Settle(r, 429, r.limitedRetry)
             ELSE Settle(r, 502, 0)
  PROVE  Shape(s) /\ InOrder(s) /\ Explained(s, delays) /\ s.pc = "log"
<1>0. IsRecord(r) /\ r.limitedRetry \in RetryDelays \cup {0}
  BY DEF Shape
<1>01. r.limitedRetry > 0 <=> r.limitedRetry # 0
  BY <1>0, DelaysAreNumbers
<1>02. PICK status, delay :
         /\ s = Settle(r, status, delay)
         /\ status \in Statuses /\ delay \in RetryDelays \cup {0}
         /\ r.quotaUnavailable => status = 503 /\ delay = 0
         /\ ~r.quotaUnavailable /\ r.limitedRetry # 0 =>
              status = 429 /\ delay = r.limitedRetry
         /\ ~r.quotaUnavailable /\ r.limitedRetry = 0 => status = 502 /\ delay = 0
  <2>1. CASE r.quotaUnavailable
    BY <2>1 DEF Statuses
  <2>2. CASE ~r.quotaUnavailable /\ r.limitedRetry # 0
    BY <1>0, <1>01, <2>2 DEF Statuses
  <2>3. CASE ~r.quotaUnavailable /\ r.limitedRetry = 0
    BY <1>01, <2>3 DEF Statuses
  <2> QED BY <2>1, <2>2, <2>3
<1>1. /\ s.pc = "log" /\ IsRecord(s) /\ s.routes = r.routes /\ s.attempts = r.attempts
      /\ s.limitedRetry = r.limitedRetry /\ s.quotaUnavailable = r.quotaUnavailable
      /\ s.status = status /\ s.retryAfter = delay
  BY <1>0, <1>02, SettledFields
<1>2. /\ r.quotaUnavailable => s.status = 503 /\ s.retryAfter = 0
      /\ ~r.quotaUnavailable /\ r.limitedRetry # 0 =>
           s.status = 429 /\ s.retryAfter = r.limitedRetry
      /\ ~r.quotaUnavailable /\ r.limitedRetry = 0 => s.status = 502 /\ s.retryAfter = 0
  BY <1>02, <1>1
<1>4. Shape(s)
  BY <1>02, <1>1 DEF Shape, Phases
<1>5. InOrder(s)
  BY <1>1 DEF InOrder, Trying
<1>6. \A reason : Because(s, reason) <=> Because(r, reason)
  BY <1>1 DEF Because
<1>7. ~Served(s) /\ Untried(s) = {}
  BY <1>1 DEF InOrder, Served, Passed, Untried
<1>8. /\ Because(s, "quotaUnavailable") <=> r.quotaUnavailable
      /\ Because(s, "quotaExceeded") <=> r.limitedRetry # 0
      /\ r.limitedRetry # 0 =>
           r.limitedRetry \in delays /\ \A delay1 \in delays : r.limitedRetry <= delay1
  <2>1. /\ Because(s, "quotaUnavailable") <=> Because(r, "quotaUnavailable")
        /\ Because(s, "quotaExceeded") <=> Because(r, "quotaExceeded")
    BY <1>6
  <2> QED BY <2>1 DEF Explained
<1>9. Answered(s, delays)
  BY <1>2, <1>7, <1>8 DEF Answered
<1>10. Explained(s, delays)
  <2>1. /\ Because(s, "quotaUnavailable") <=> Because(r, "quotaUnavailable")
        /\ Because(s, "quotaExceeded") <=> Because(r, "quotaExceeded")
    BY <1>6
  <2> QED BY <1>1, <1>9, <2>1 DEF Explained
<1> QED BY <1>1, <1>4, <1>5, <1>10

\* A step that settles nothing of the ledger and has yet to be logged.
LEMMA SettlingStep ==
  ASSUME GInv, NEW p \in Requests, req[p].pc # "done", req'[p].pc \notin {"choose", "send", "done"},
         UNCHANGED <<charges, sends, told, logs>>,
         Shape(req[p])', InOrder(req[p])', Explained(req[p], told[p])',
         OnlyMoves(p), Tables', Histories'
  PROVE  GInv'
<1>1. Charged(p) /\ Logged(p)
  BY InvOf
<1>2. Charged(p)'
  BY <1>1, LedgerStill
<1>3. Logged(p)'
  BY <1>1, NotYetLogged
<1> QED BY <1>2, <1>3, StepOfOne DEF Sound

\* The end of a response, and of the loop.
LEMMA CopyStep ==
  ASSUME GInv, NEW p \in Requests, Copy(p)
  PROVE  GInv'
<1>0. OnlyMoves(p) /\ Tables' /\ Histories' /\ p \in DOMAIN req
  BY InvOf, RequestsMoveAlone DEF Provider
<1>1. PICK reason \in {"served", "interrupted"} :
        /\ req[p].pc = "copying"
        /\ req'[p] = [Tried(req[p], req[p].at, req[p].status, reason) EXCEPT !.pc = "log"]
  BY <1>0 DEF Copy, At
<1>2. UNCHANGED <<charges, sends, told, logs>>
  BY DEF Copy, history
<1>3. PICK r, s, delays, i, status :
        r = req[p] /\ s = req'[p] /\ delays = told[p] /\ i = req[p].at /\ status = req[p].status
  OBVIOUS
<1>4. Shape(r) /\ InOrder(r) /\ Explained(r, delays) /\ FirstUntried(r, i)
  BY <1>1, <1>3, InvOf, RouteInHand DEF Trying
<1>5. Shape(s) /\ InOrder(s) /\ Explained(s, delays) /\ s.pc = "log"
  <2>1. /\ r.pc = "copying" /\ status = r.status
        /\ s = [Tried(r, i, status, reason) EXCEPT !.pc = "log"]
    BY <1>1, <1>3
  <2> QED BY <1>4, <2>1, CopiedRegisters
<1>6. Shape(req[p])' /\ InOrder(req[p])' /\ Explained(req[p], told[p])'
  BY <1>2, <1>3, <1>5
<1> QED BY <1>0, <1>1, <1>2, <1>3, <1>5, <1>6, SettlingStep

\* No route is left: the answer is chosen.
LEMMA ExhaustedStep ==
  ASSUME GInv, NEW p \in Requests, Exhausted(p)
  PROVE  GInv'
<1>0. OnlyMoves(p) /\ Tables' /\ Histories' /\ p \in DOMAIN req
  BY InvOf, RequestsMoveAlone DEF AfterLoop
<1>2. UNCHANGED <<charges, sends, told, logs>>
  BY DEF Exhausted, history
<1>3. PICK r, s, delays : r = req[p] /\ s = req'[p] /\ delays = told[p]
  OBVIOUS
<1>4. Shape(r) /\ InOrder(r) /\ Explained(r, delays)
  BY <1>3, InvOf
<1>5. Shape(s) /\ InOrder(s) /\ Explained(s, delays) /\ s.pc = "log" /\ r.pc = "next"
  <2>1. /\ r.pc = "next" /\ Untried(r) = {}
        /\ s = IF r.quotaUnavailable THEN Settle(r, 503, 0)
               ELSE IF r.limitedRetry > 0 THEN Settle(r, 429, r.limitedRetry)
               ELSE Settle(r, 502, 0)
    BY <1>0, <1>3 DEF Exhausted, At
  <2> QED BY <1>4, <2>1, ExhaustedRegisters
<1>6. Shape(req[p])' /\ InOrder(req[p])' /\ Explained(req[p], told[p])'
  BY <1>2, <1>3, <1>5
<1> QED BY <1>0, <1>2, <1>3, <1>5, <1>6, SettlingStep

\* The snapshot has the shape of routes.
LEMMA SnapshotShape ==
  ASSUME Tables, NEW off
  PROVE  /\ DOMAIN Snapshot(off) \subseteq Priorities
         /\ \A i \in DOMAIN Snapshot(off) : Snapshot(off)[i] \in Connections
BY GatewayAssumption DEF Tables, Snapshot

\* Loading settles a 404 or goes to the loop with a snapshot.
LEMMA LoadedRoutes ==
  ASSUME NEW p \in DOMAIN req, LoadRoutes(p)
  PROVE  \E off : \/ req'[p] = Settle(req[p], 404, 0)
                  \/ req'[p] = [req[p] EXCEPT !.pc = "next", !.routes = Snapshot(off)]
<1>1. PICK off \in SUBSET DOMAIN routes :
        req' = [req EXCEPT ![p] =
          IF DOMAIN Snapshot(off) = {} THEN Settle(@, 404, 0)
          ELSE [@ EXCEPT !.pc = "next", !.routes = Snapshot(off)]]
  BY Zenon DEF LoadRoutes
<1>2. req'[p] = IF DOMAIN Snapshot(off) = {} THEN Settle(req[p], 404, 0)
                ELSE [req[p] EXCEPT !.pc = "next", !.routes = Snapshot(off)]
  BY <1>1
<1> QED BY <1>2

\* The steps before the loop: they settle an answer or move on towards it.
LEMMA StepsBeforeLoop ==
  ASSUME GInv, NEW p \in Requests, BeforeLoop(p)
  PROVE  GInv'
<1>0. /\ OnlyMoves(p) /\ Tables' /\ Histories' /\ p \in DOMAIN req
      /\ Tables /\ Charged(p) /\ Logged(p)
  BY InvOf, RequestsMoveAlone
<1>2. UNCHANGED <<charges, sends, told, logs>>
  BY DEF BeforeLoop, Authenticate, ReadPayload, LoadRoutes, RoutingUnavailable, history
<1>3. PICK r, s, delays : r = req[p] /\ s = req'[p] /\ delays = told[p]
  OBVIOUS
<1>4. Shape(r) /\ InOrder(r) /\ Explained(r, delays) /\ IsRecord(r)
  BY <1>3, InvOf DEF Shape
<1>5. /\ r.pc \in {"new", "payload", "load"}
      /\ IsRecord(s) /\ s.attempts = r.attempts
      /\ s.limitedRetry = r.limitedRetry /\ s.quotaUnavailable = r.quotaUnavailable
      /\ s.retryAfter = 0 /\ s.status \in Statuses
      /\ s.pc \in {"payload", "load", "next", "log", "done"}
      /\ s.pc = "done" => s.status \in {400, 401}
      /\ s.routes = r.routes \/ \E off : s.routes = Snapshot(off)
  <2>0. r.pc \in {"new", "payload", "load"} /\ r.retryAfter = 0 /\ r.status \in Statuses
    <3>1. r.pc \in {"new", "payload", "load"}
      <4>1. CASE Authenticate(p)
        BY <1>3, <4>1 DEF Authenticate, At
      <4>2. CASE ReadPayload(p)
        BY <1>3, <4>2 DEF ReadPayload, At
      <4>3. CASE LoadRoutes(p)
        BY <1>3, <4>3 DEF LoadRoutes, At
      <4>4. CASE RoutingUnavailable(p)
        BY <1>3, <4>4 DEF RoutingUnavailable, At
      <4> QED BY <1>3, <4>1, <4>2, <4>3, <4>4 DEF BeforeLoop
    <3> QED BY <1>4, <3>1 DEF Shape, Explained
  <2>1. CASE Authenticate(p)
    <3>1. PICK pc, status :
            /\ s = [r EXCEPT !.pc = pc, !.status = status]
            /\ (pc = "payload" /\ status = 0) \/ (pc = "done" /\ status = 401)
      <4>1. PICK accepted \in BOOLEAN :
              req'[p] = [req[p] EXCEPT !.pc = IF accepted THEN "payload" ELSE "done",
                                       !.status = IF accepted THEN 0 ELSE 401]
        <5>1. PICK accepted \in BOOLEAN :
                req' = [req EXCEPT ![p].pc = IF accepted THEN "payload" ELSE "done",
                                   ![p].status = IF accepted THEN 0 ELSE 401]
          BY <2>1, Zenon DEF Authenticate
        <5> QED BY <1>0, <5>1
      <4>2. CASE accepted
        <5>1. s = [r EXCEPT !.pc = "payload", !.status = 0]
          BY <1>3, <4>1, <4>2
        <5> QED BY <5>1
      <4>3. CASE ~accepted
        <5>1. s = [r EXCEPT !.pc = "done", !.status = 401]
          BY <1>3, <4>1, <4>3
        <5> QED BY <5>1
      <4> QED BY <4>2, <4>3
    <3>2. s = [pc |-> pc, routes |-> r.routes,
               at |-> r.at, attempts |-> r.attempts,
               limitedRetry |-> r.limitedRetry, quotaUnavailable |-> r.quotaUnavailable,
               status |-> status, retryAfter |-> r.retryAfter]
      BY <1>4, <3>1 DEF IsRecord
    <3>3. /\ s.pc = pc /\ s.status = status
          /\ s.routes = r.routes /\ s.attempts = r.attempts
          /\ s.limitedRetry = r.limitedRetry /\ s.quotaUnavailable = r.quotaUnavailable
          /\ s.retryAfter = r.retryAfter /\ IsRecord(s)
      BY <3>2 DEF IsRecord
    <3> QED BY <2>0, <3>1, <3>3 DEF Statuses
  <2>2. CASE ReadPayload(p)
    <3>1. \/ s = [r EXCEPT !.pc = "load"]
          \/ s = [r EXCEPT !.pc = "done", !.status = 400]
          \/ s = Settle(r, 400, 0)
      BY <1>0, <1>3, <2>2 DEF ReadPayload
    <3>2. CASE s = [r EXCEPT !.pc = "load"]
      BY <1>4, <2>0, <3>2 DEF IsRecord
    <3>3. CASE s = [r EXCEPT !.pc = "done", !.status = 400]
      <4>1. s = [pc |-> "done", routes |-> r.routes, at |-> r.at, attempts |-> r.attempts,
                 limitedRetry |-> r.limitedRetry, quotaUnavailable |-> r.quotaUnavailable,
                 status |-> 400, retryAfter |-> r.retryAfter]
        BY <1>4, <3>3, ZenonT(30) DEF IsRecord
      <4> QED BY <2>0, <4>1 DEF IsRecord, Statuses
    <3>4. CASE s = Settle(r, 400, 0)
      BY <1>4, <2>0, <3>4, SettledFields DEF Statuses
    <3> QED BY <3>1, <3>2, <3>3, <3>4
  <2>3. CASE LoadRoutes(p)
    <3>1. PICK off :
            \/ s = Settle(r, 404, 0)
            \/ s = [r EXCEPT !.pc = "next", !.routes = Snapshot(off)]
      BY <1>0, <1>3, <2>3, LoadedRoutes
    <3>2. CASE s = Settle(r, 404, 0)
      BY <1>4, <2>0, <3>2, SettledFields DEF Statuses
    <3>3. CASE s = [r EXCEPT !.pc = "next", !.routes = Snapshot(off)]
      <4>1. PICK plan : plan = Snapshot(off)
        OBVIOUS
      <4>2. s = [pc |-> "next", routes |-> plan, at |-> r.at, attempts |-> r.attempts,
                 limitedRetry |-> r.limitedRetry, quotaUnavailable |-> r.quotaUnavailable,
                 status |-> r.status, retryAfter |-> r.retryAfter]
        BY <1>4, <3>3, <4>1 DEF IsRecord
      <4> QED BY <2>0, <4>1, <4>2 DEF IsRecord
    <3> QED BY <3>1, <3>2, <3>3
  <2>4. CASE RoutingUnavailable(p)
    <3>1. s = Settle(r, 503, 0)
      BY <1>0, <1>3, <2>4 DEF RoutingUnavailable
    <3> QED BY <1>4, <2>0, <3>1, SettledFields DEF Statuses
  <2> QED BY <2>1, <2>2, <2>3, <2>4 DEF BeforeLoop
<1>6. DOMAIN s.routes \subseteq Priorities /\ \A i \in DOMAIN s.routes : s.routes[i] \in Connections
  BY <1>0, <1>4, <1>5, SnapshotShape DEF Shape
<1>7. Shape(s) /\ InOrder(s) /\ Explained(s, delays) /\ DOMAIN s.attempts = {}
  BY <1>4, <1>5, <1>6, RegistersBeforeLoop
<1>8. Shape(req[p])' /\ InOrder(req[p])' /\ Explained(req[p], told[p])'
  BY <1>2, <1>3, <1>7
<1>9. Charged(p)'
  BY <1>0, <1>2, <1>3, <1>5, LedgerStill
<1>10. Logged(p)'
  <2>1. CASE s.pc # "done"
    BY <1>0, <1>2, <1>3, <1>5, <2>1, NotYetLogged
  <2>2. CASE s.pc = "done"
    <3>1. logs'[p] = {}
      BY <1>0, <1>2, <1>3, <1>5 DEF Logged
    <3>2. DOMAIN req'[p].attempts = {} /\ req'[p].status \notin {404, 503}
      BY <1>3, <1>5, <1>7, <2>2
    <3> QED BY <3>1, <3>2 DEF Logged
  <2> QED BY <2>1, <2>2
<1> QED BY <1>0, <1>8, <1>9, <1>10, StepOfOne DEF Sound

\* The registers after the log: only the phase has changed.
LEMMA EndedRegisters ==
  ASSUME NEW r, NEW s, NEW delays, Shape(r), InOrder(r), Explained(r, delays),
         r.pc = "log", s = [r EXCEPT !.pc = "done"]
  PROVE  /\ Shape(s) /\ InOrder(s) /\ Explained(s, delays)
         /\ DOMAIN s.attempts # {} /\ s.status = 400 => Served(s)
         /\ s.pc = "done" /\ s.status = r.status /\ s.attempts = r.attempts
<1>1. /\ s.pc = "done" /\ IsRecord(s) /\ s.routes = r.routes /\ s.attempts = r.attempts
      /\ s.limitedRetry = r.limitedRetry /\ s.quotaUnavailable = r.quotaUnavailable
      /\ s.status = r.status /\ s.retryAfter = r.retryAfter
  BY DEF Shape, IsRecord
<1>2. Shape(s)
  BY <1>1 DEF Shape, Phases
<1>3. InOrder(s)
  BY <1>1 DEF InOrder, Trying
<1>4. /\ \A reason : Because(s, reason) <=> Because(r, reason)
      /\ Served(s) <=> Served(r)
      /\ Untried(s) = Untried(r)
  BY <1>1 DEF Because, Served, Untried
<1>5. Answered(r, delays)
  BY DEF Explained
<1>6. Answered(s, delays)
  BY <1>1, <1>4, <1>5 DEF Answered
<1>7. Explained(s, delays)
  <2>1. /\ Because(s, "quotaUnavailable") <=> Because(r, "quotaUnavailable")
        /\ Because(s, "quotaExceeded") <=> Because(r, "quotaExceeded")
    BY <1>4
  <2> QED BY <1>1, <1>6, <2>1 DEF Explained
<1>8. DOMAIN s.attempts # {} /\ s.status = 400 => Served(s)
  BY <1>1, <1>4, <1>5 DEF Answered, Served
<1> QED BY <1>1, <1>2, <1>3, <1>7, <1>8

\* The row is written, or one of the reasons for its loss holds.
LEMMA LogStep ==
  ASSUME GInv, NEW p \in Requests, Log(p)
  PROVE  GInv'
<1>0. /\ OnlyMoves(p) /\ Tables' /\ Histories' /\ p \in DOMAIN req
      /\ Charged(p) /\ Logged(p) /\ Histories
  BY InvOf, RequestsMoveAlone DEF AfterLoop
<1>1. /\ req[p].pc = "log" /\ req'[p] = [req[p] EXCEPT !.pc = "done"]
      /\ Record(p, req[p].status, p \in cancelled /\ ~Served(req[p]))
  BY <1>0 DEF Log, At
<1>2. UNCHANGED <<mappable, cancelled, charges, sends, told>>
  BY DEF Log, given, history
<1>3. PICK r, s, delays : r = req[p] /\ s = req'[p] /\ delays = told[p]
  OBVIOUS
<1>4. Shape(r) /\ InOrder(r) /\ Explained(r, delays)
  BY <1>3, InvOf
<1>5. /\ Shape(s) /\ InOrder(s) /\ Explained(s, delays)
      /\ s.pc = "done" /\ s.status = r.status /\ s.attempts = r.attempts
      /\ DOMAIN s.attempts # {} /\ s.status = 400 => Served(s)
  BY <1>1, <1>3, <1>4, EndedRegisters
<1>6. Shape(req[p])' /\ InOrder(req[p])' /\ Explained(req[p], told[p])'
  BY <1>2, <1>3, <1>5
<1>7. Charged(p)'
  BY <1>0, <1>2, <1>3, <1>5, LedgerStill
<1>8. Served(s) <=> Served(r)
  BY <1>5 DEF Served
<1>9. Logged(p)'
  <2>1. logs[p] = {}
    BY <1>0, <1>1 DEF Logged
  <2>2. CASE logs' = [logs EXCEPT ![p] = @ \cup {req[p].status}]
    <3>1. logs'[p] = {req[p].status}
      BY <1>0, <2>1, <2>2 DEF Histories
    <3>2. req'[p].status = req[p].status
      BY <1>3, <1>5
    <3>3. req'[p].pc = "done"
      BY <1>3, <1>5
    <3> QED BY <1>3, <1>5, <3>1, <3>2, <3>3 DEF Logged
  <2>3. CASE /\ logs' = logs
             /\ faulted' = IF p \in cancelled /\ ~Served(req[p]) THEN faulted
                           ELSE faulted \cup {p}
    <3>1. p \in faulted' \/ (p \in cancelled /\ ~Served(req[p]))
      BY <2>3
    <3>2. p \in faulted' \/ (p \in cancelled' /\ ~Served(req'[p]))
      BY <1>2, <1>3, <1>8, <3>1
    <3>3. logs'[p] = {}
      BY <2>1, <2>3
    <3>4. Logged(p)'
      <4>1. /\ req'[p].pc = "done"
            /\ DOMAIN req'[p].attempts # {} /\ req'[p].status = 400 => Served(req'[p])
        BY <1>3, <1>5
      <4> QED BY <3>2, <3>3, <4>1 DEF Logged
    <3> QED BY <3>4
  <2> QED BY <1>1, <2>2, <2>3 DEF Record
<1> QED BY <1>0, <1>6, <1>7, <1>9, StepOfOne DEF Sound

\* A body that cannot be sent on ends the request in the middle of a try.
LEMMA RejectStep ==
  ASSUME GInv, NEW p \in Requests, RejectBody(p)
  PROVE  GInv'
<1>0. /\ OnlyMoves(p) /\ Tables' /\ Histories' /\ p \in DOMAIN req
      /\ Charged(p) /\ Logged(p)
  BY InvOf, RequestsMoveAlone DEF InLoop
<1>1. /\ req[p].pc = "send" /\ req'[p] = [req[p] EXCEPT !.pc = "done", !.status = 400]
      /\ p \notin mappable /\ UNCHANGED <<mappable, charges, sends, told, logs>>
  BY <1>0 DEF RejectBody, At, given, history
<1>2. PICK r, s, delays : r = req[p] /\ s = req'[p] /\ delays = told[p]
  OBVIOUS
<1>3. Shape(r) /\ InOrder(r) /\ Explained(r, delays) /\ IsRecord(r) /\ r.pc = "send"
  BY <1>1, <1>2, InvOf
<1>4. s = [pc |-> "done", routes |-> r.routes, at |-> r.at, attempts |-> r.attempts,
           limitedRetry |-> r.limitedRetry, quotaUnavailable |-> r.quotaUnavailable,
           status |-> 400, retryAfter |-> r.retryAfter]
  <2>1. s = [r EXCEPT !.pc = "done", !.status = 400]
    BY <1>1, <1>2
  <2> QED BY <1>3, <2>1, ZenonT(30) DEF IsRecord
<1>5. /\ s.pc = "done" /\ IsRecord(s) /\ s.routes = r.routes /\ s.attempts = r.attempts
      /\ s.limitedRetry = r.limitedRetry /\ s.quotaUnavailable = r.quotaUnavailable
      /\ s.status = 400 /\ s.retryAfter = r.retryAfter
  BY <1>4 DEF IsRecord
<1>6. r.retryAfter = 0
  BY <1>3 DEF Explained
<1>7. Shape(s)
  BY <1>3, <1>5 DEF Shape, Phases, Statuses
<1>8. InOrder(s)
  BY <1>3, <1>5 DEF InOrder, Trying
<1>9. ~Served(s)
  BY <1>3, <1>5 DEF InOrder, Served, Passed, Trying
<1>10. \A reason : Because(s, reason) <=> Because(r, reason)
  BY <1>5 DEF Because
<1>11. Explained(s, delays)
  <2>1. Answered(s, delays)
    BY <1>5, <1>6, <1>9 DEF Answered
  <2>2. /\ Because(s, "quotaUnavailable") <=> Because(r, "quotaUnavailable")
        /\ Because(s, "quotaExceeded") <=> Because(r, "quotaExceeded")
    BY <1>10
  <2> QED BY <1>3, <1>5, <1>6, <2>1, <2>2 DEF Explained
<1>12. Shape(req[p])' /\ InOrder(req[p])' /\ Explained(req[p], told[p])'
  BY <1>1, <1>2, <1>7, <1>8, <1>11
<1>13. Charged(p)'
  BY <1>0, <1>1, <1>2, <1>5, LedgerStill
<1>14. Logged(p)'
  <2>1. logs'[p] = {} /\ p \notin mappable' /\ ~Served(req'[p])
    BY <1>0, <1>1, <1>2, <1>9 DEF Logged
  <2> QED BY <2>1 DEF Logged
<1> QED BY <1>0, <1>12, <1>13, <1>14, StepOfOne DEF Sound

\* The client leaves.
LEMMA CancelStep ==
  ASSUME GInv, NEW p \in Requests, Cancel(p)
  PROVE  GInv'
<1>0. /\ OnlyMoves(p) /\ Tables' /\ Histories' /\ Sound(p)
  BY RequestsMoveAlone DEF GInv
<1>1. UNCHANGED <<mappable, req, logs, charges, sends, told, faulted>> /\ cancelled \subseteq cancelled'
  BY DEF Cancel, given, history
<1>2. Shape(req[p])' /\ InOrder(req[p])' /\ Explained(req[p], told[p])'
  BY <1>0, <1>1 DEF Sound
<1>3. Charged(p)'
  BY <1>0, <1>1 DEF Sound, Charged
<1>4. Logged(p)'
  BY <1>0, <1>1 DEF Sound, Logged
<1> QED BY <1>0, <1>2, <1>3, <1>4, StepOfOne DEF Sound

-----------------------------------------------------------------------------
(* The invariant. *)

\* What the rest of the system does leaves every request alone.
LEMMA WorldStep ==
  ASSUME GInv, Tables', UNCHANGED <<mappable, req, cancelled, logs, usage, charges, sends, told, faulted>>
  PROVE  GInv'
<1>1. ASSUME NEW p \in Requests PROVE Sound(p)'
  <2>1. Sound(p)
    BY DEF GInv
  <2>2. Shape(req[p])' /\ InOrder(req[p])' /\ Explained(req[p], told[p])'
    BY <2>1 DEF Sound
  <2>3. Charged(p)'
    BY <2>1 DEF Sound, Charged
  <2>4. Logged(p)'
    BY <2>1 DEF Sound, Logged
  <2> QED BY <2>2, <2>3, <2>4 DEF Sound
<1> QED BY <1>1 DEF GInv, Histories

\* The steps of the rest of the system keep the tables' types.
LEMMA WorldTables ==
  ASSUME Tables, SaveRoutes \/ \E c \in Connections : EditConnection(c) \/ OthersSpend(c) \/ NewWindow(c)
  PROVE  Tables' /\ UNCHANGED <<mappable, req, cancelled, logs, usage, charges, sends, told, faulted>>
<1>1. CASE SaveRoutes
  BY <1>1 DEF SaveRoutes, Tables, history
<1>2. ASSUME NEW c \in Connections, EditConnection(c)
      PROVE  Tables' /\ UNCHANGED <<mappable, req, cancelled, logs, usage, charges, sends, told, faulted>>
  BY <1>2 DEF EditConnection, Edited, Tables, history
<1>3. ASSUME NEW c \in Connections, OthersSpend(c)
      PROVE  Tables' /\ UNCHANGED <<mappable, req, cancelled, logs, usage, charges, sends, told, faulted>>
  <2>1. room[c] - 1 \in 0 .. Limit
    BY <1>3, GatewayAssumption DEF OthersSpend, SpentElsewhere, Granted, Tables
  <2> QED BY <1>3, <2>1 DEF OthersSpend, SpentElsewhere, Granted, Tables, given, history
<1>4. ASSUME NEW c \in Connections, NewWindow(c)
      PROVE  Tables' /\ UNCHANGED <<mappable, req, cancelled, logs, usage, charges, sends, told, faulted>>
  <2>1. Limit \in 0 .. Limit
    BY GatewayAssumption
  <2> QED BY <1>4, <2>1 DEF NewWindow, WindowEnded, Tables, given, history
<1> QED BY <1>1, <1>2, <1>3, <1>4

\* The invariant holds at first: nothing was tried, told, charged or logged.
LEMMA InitEstablishesGInv == Init => GInv
<1> SUFFICES ASSUME Init PROVE GInv
  OBVIOUS
<1>1. Tables
  <2>1. Limit \in 0 .. Limit
    BY GatewayAssumption
  <2> QED BY <2>1 DEF Init, Tables
<1>2. Histories
  <2>1. usage = [p \in Requests |-> 0] /\ usage \in [Requests -> Nat]
    BY DEF Init
  <2>2. /\ req = [p \in Requests |-> req[p]] /\ logs = [p \in Requests |-> logs[p]]
        /\ charges = [p \in Requests |-> charges[p]] /\ sends = [p \in Requests |-> sends[p]]
        /\ told = [p \in Requests |-> told[p]]
    BY DEF Init
  <2> QED BY <2>1, <2>2 DEF Histories
<1>3. ASSUME NEW p \in Requests PROVE Sound(p)
  <2>1. /\ req[p] = Fresh /\ logs[p] = {} /\ told[p] = {}
        /\ charges[p] = [c \in Connections |-> 0] /\ sends[p] = [c \in Connections |-> 0]
    BY DEF Init
  <2>2. /\ Fresh.pc = "new" /\ DOMAIN Fresh.routes = {} /\ DOMAIN Fresh.attempts = {}
        /\ Fresh.limitedRetry = 0 /\ Fresh.quotaUnavailable = FALSE
        /\ Fresh.status = 0 /\ Fresh.retryAfter = 0 /\ IsRecord(Fresh)
    BY DEF Fresh, NoPlan, IsRecord
  <2>3. Shape(Fresh)
    <3>1. Fresh.pc \in Phases /\ Fresh.status \in Statuses
      BY <2>2 DEF Statuses, Phases
    <3> QED BY <2>2, <3>1 DEF Shape
  <2>4. InOrder(Fresh)
    BY <2>2 DEF InOrder, Trying
  <2>5. Explained(Fresh, {})
    BY <2>2 DEF Explained, Answered, Because
  <2>6. Charged(p)
    BY <2>1, <2>2 DEF Charged
  <2>7. Logged(p)
    BY <2>1, <2>2 DEF Logged
  <2> QED BY <2>1, <2>3, <2>4, <2>5, <2>6, <2>7 DEF Sound
<1> QED BY <1>1, <1>2, <1>3 DEF GInv

\* Every step keeps the invariant.
LEMMA StepPreservesGInv == GInv /\ [Next]_vars => GInv'
<1> SUFFICES ASSUME GInv, [Next]_vars PROVE GInv'
  OBVIOUS
<1>1. ASSUME NEW p \in Requests, BeforeLoop(p) PROVE GInv'
  BY <1>1, StepsBeforeLoop
<1>2. ASSUME NEW p \in Requests, InLoop(p) PROVE GInv'
  BY <1>2, FailingSteps, AdvancingSteps, RejectStep DEF InLoop
<1>3. ASSUME NEW p \in Requests, AfterLoop(p) PROVE GInv'
  BY <1>3, ExhaustedStep, LogStep DEF AfterLoop
<1>4. ASSUME NEW p \in Requests, Provider(p) PROVE GInv'
  BY <1>4, FailingSteps, ReplyStep, CopyStep DEF Provider
<1>5. ASSUME NEW p \in Requests, Cancel(p) PROVE GInv'
  BY <1>5, CancelStep
<1>6. CASE SaveRoutes \/ \E c \in Connections : EditConnection(c) \/ OthersSpend(c) \/ NewWindow(c)
  <2>1. Tables' /\ UNCHANGED <<mappable, req, cancelled, logs, usage, charges, sends, told, faulted>>
    BY <1>6, WorldTables DEF GInv
  <2> QED BY <2>1, WorldStep
<1>7. CASE UNCHANGED vars
  <2>1. Tables' /\ UNCHANGED <<mappable, req, cancelled, logs, usage, charges, sends, told, faulted>>
    BY <1>7 DEF vars, GInv, Tables
  <2> QED BY <2>1, WorldStep
<1> QED BY <1>1, <1>2, <1>3, <1>4, <1>5, <1>6, <1>7 DEF Next

\* The strengthened invariant holds in every reachable state.
THEOREM Invariance == Spec => []GInv
BY InitEstablishesGInv, StepPreservesGInv, PTL DEF Spec

-----------------------------------------------------------------------------
(* What it implies. *)

\* Every variable has its type, whatever the constants are.
THEOREM TypeCorrect == Spec => []TypeOK
<1>1. GInv => TypeOK
  <2> SUFFICES ASSUME GInv PROVE TypeOK
    OBVIOUS
  <2>1. ASSUME NEW p \in Requests
        PROVE  /\ logs[p] \in SUBSET Nat /\ charges[p] \in [Connections -> Nat]
               /\ sends[p] \in [Connections -> Nat] /\ told[p] \in SUBSET RetryDelays
               /\ Shape(req[p])
               /\ req[p].pc \in {"choose", "send", "waiting"} =>
                    req[p].at \in DOMAIN req[p].routes \ DOMAIN req[p].attempts
    <3>1. req[p].status \in Nat
      <4>1. req[p].status \in Statuses
        BY InvOf DEF Shape
      <4> QED BY <4>1, StatusesAreNumbers
    <3> QED BY <3>1, InvOf DEF Charged, Logged, Explained, InOrder, Trying, FirstUntried, Untried
  <2>2. /\ logs \in [Requests -> SUBSET Nat] /\ charges \in [Requests -> [Connections -> Nat]]
        /\ sends \in [Requests -> [Connections -> Nat]] /\ told \in [Requests -> SUBSET RetryDelays]
        /\ usage \in [Requests -> Nat] /\ DOMAIN req = Requests
    BY <2>1 DEF GInv, Histories
  <2> QED BY <2>1, <2>2 DEF GInv, Tables, TypeOK, Shape, Statuses
<1> QED BY <1>1, Invariance, PTL

\* No member's request reaches somebody else's connection uncharged.
THEOREM SendsAreAlwaysCharged == Spec => []SendsAreCharged
<1>1. GInv => SendsAreCharged
  BY DEF GInv, Sound, Charged, SendsAreCharged
<1> QED BY <1>1, Invariance, PTL

\* Routes are tried in order, none is skipped, and only past a failure.
THEOREM FallbackIsAlwaysPastFailure == Spec => []FallbackOnlyPastFailure
<1>1. GInv => FallbackOnlyPastFailure
  BY DEF GInv, Sound, InOrder, Passed, Kept, FallbackOnlyPastFailure
<1> QED BY <1>1, Invariance, PTL

\* The answer is the one that the attempts call for.
THEOREM AnswerIsAlwaysExplained == Spec => []AnswerExplained
<1>1. GInv => AnswerExplained
  BY DEF GInv, Sound, Logged, Explained, Answered, Because, AnswerExplained
<1> QED BY <1>1, Invariance, PTL

\* The log has the answer, unless the database failed or the client left.
THEOREM AlwaysLoggedAsAnswered == Spec => []LoggedAsAnswered
<1>1. GInv => LoggedAsAnswered
  BY DEF GInv, Sound, Logged, LoggedAsAnswered, At
<1> QED BY <1>1, Invariance, PTL

-----------------------------------------------------------------------------
(* Usage counts the replies.  This is inductive beside GInv: the count of a *)
(* reply whose body is being copied is owed an attempt, which Copy adds.    *)

Replied(r) ==
  {i \in DOMAIN r.attempts : r.attempts[i].reason \in {"serverError", "served", "interrupted"}}

ReplyCount(r) == Cardinality(Replied(r)) + (IF r.pc = "copying" THEN 1 ELSE 0)

Counted(p) ==
  /\ IsFiniteSet(Replied(req[p]))
  /\ usage[p] <= ReplyCount(req[p])
  /\ usage[p] < ReplyCount(req[p]) => p \in faulted \/ p \in cancelled

UInv == \A p \in Requests : Counted(p)

\* A request whose replies and their count stay as they are.
Quiet(r, s) ==
  /\ Replied(s) = Replied(r)
  /\ s.pc = "copying" <=> r.pc = "copying"

\* What excuses a lost count is never taken back.
Excused == faulted \subseteq faulted' /\ cancelled \subseteq cancelled'

\* Such a step of a request keeps the count.
LEMMA QuietStep ==
  ASSUME NEW p, Counted(p), Quiet(req[p], req'[p]), usage'[p] = usage[p], Excused
  PROVE  Counted(p)'
<1>1. ReplyCount(req'[p]) = ReplyCount(req[p])
  BY DEF Quiet, ReplyCount
<1>2. Replied(req'[p]) = Replied(req[p])
  BY DEF Quiet
<1> QED BY <1>1, <1>2 DEF Counted, Excused

\* Registers with the same attempts have the same replies.
LEMMA SameAttemptsReplied ==
  ASSUME NEW r, NEW s, s.attempts = r.attempts
  PROVE  Replied(s) = Replied(r)
BY DEF Replied

\* An attempt more is a reply more when a provider has replied.
LEMMA GrownReplied ==
  ASSUME NEW r, NEW s, NEW i, i \notin DOMAIN r.attempts, NEW status, NEW reason,
         Grows(r, s, i, status, reason)
  PROVE  /\ i \notin Replied(r)
         /\ Replied(s) = IF reason \in {"serverError", "served", "interrupted"}
                         THEN Replied(r) \cup {i} ELSE Replied(r)
<1>1. /\ DOMAIN s.attempts = DOMAIN r.attempts \cup {i}
      /\ s.attempts[i].reason = reason
      /\ \A j \in DOMAIN r.attempts : s.attempts[j] = r.attempts[j]
  BY DEF Grows
<1>2. CASE reason \in {"serverError", "served", "interrupted"}
  BY <1>1, <1>2 DEF Replied
<1>3. CASE reason \notin {"serverError", "served", "interrupted"}
  BY <1>1, <1>3 DEF Replied
<1> QED BY <1>2, <1>3 DEF Replied

\* A try that ended without a reply.
LEMMA UnansweredTry ==
  ASSUME NEW r, NEW s, NEW t, IsRecord(r), NEW i, FirstUntried(r, i), NEW status, NEW reason,
         reason \notin {"serverError", "served", "interrupted"},
         t = Tried(r, i, status, reason),
         s.attempts = t.attempts, s.pc = "next", r.pc # "copying"
  PROVE  Quiet(r, s)
<1>1. Grows(r, t, i, status, reason)
  BY TriedFields
<1>2. i \notin DOMAIN r.attempts
  BY DEF FirstUntried, Untried
<1>3. Replied(t) = Replied(r)
  BY <1>1, <1>2, GrownReplied
<1>4. Replied(s) = Replied(t)
  BY SameAttemptsReplied
<1> QED BY <1>3, <1>4 DEF Quiet

\* The actions of a request that no provider's reply is part of.
Silent(p) ==
  \/ BeforeLoop(p) \/ InLoop(p) \/ AfterLoop(p) \/ TransportError(p) \/ Cancel(p)

\* They touch no count, and take no excuse back.
LEMMA SilentTables ==
  ASSUME NEW p \in Requests, Silent(p)
  PROVE  usage' = usage /\ Excused
<1>1. CASE BeforeLoop(p)
  BY <1>1 DEF BeforeLoop, Authenticate, ReadPayload, LoadRoutes, RoutingUnavailable, CallFails, Excused
<1>2. CASE InLoop(p)
  <2>1. CASE QuotaGrants(p)
    BY <2>1 DEF QuotaGrants, Excused
  <2>2. CASE QuotaRefuses(p)
    BY <2>2 DEF QuotaRefuses, Excused
  <2>3. CASE QuotaInaccessible(p)
    BY <2>3 DEF QuotaInaccessible, Excused
  <2>4. CASE QuotaUnavailable(p)
    BY <2>4 DEF QuotaUnavailable, CallFails, Excused
  <2>5. CASE KeyChosen(p)
    BY <2>5 DEF KeyChosen, Excused
  <2>6. CASE NoKeyChosen(p)
    BY <2>6 DEF NoKeyChosen, Excused
  <2>7. CASE RejectBody(p)
    BY <2>7 DEF RejectBody, Excused
  <2>8. CASE Send(p)
    BY <2>8 DEF Send, Excused
  <2> QED BY <1>2, <2>1, <2>2, <2>3, <2>4, <2>5, <2>6, <2>7, <2>8 DEF InLoop
<1>3. CASE AfterLoop(p)
  BY <1>3 DEF AfterLoop, Exhausted, Log, Record, Excused
<1>4. CASE TransportError(p)
  BY <1>4 DEF TransportError, Excused
<1>5. CASE Cancel(p)
  BY <1>5 DEF Cancel, Excused
<1> QED BY <1>1, <1>2, <1>3, <1>4, <1>5 DEF Silent

\* The registers when the phase and the status change.
LEMMA MovedFields ==
  ASSUME NEW r, NEW s, NEW pc, NEW status, IsRecord(r), s = [r EXCEPT !.pc = pc, !.status = status]
  PROVE  s.pc = pc /\ s.attempts = r.attempts
<1>1. s = [pc |-> pc, routes |-> r.routes, at |-> r.at, attempts |-> r.attempts,
           limitedRetry |-> r.limitedRetry, quotaUnavailable |-> r.quotaUnavailable,
           status |-> status, retryAfter |-> r.retryAfter]
  BY DEF IsRecord
<1> QED BY <1>1

\* Before the loop nothing has been tried, and no reply is copied.
LEMMA QuietBeforeLoop ==
  ASSUME GInv, NEW p \in Requests, BeforeLoop(p)
  PROVE  Quiet(req[p], req'[p])
<1>0. p \in DOMAIN req
  BY InvOf
<1>1. PICK r, s : r = req[p] /\ s = req'[p]
  OBVIOUS
<1>2. IsRecord(r)
  BY <1>1, InvOf
<1>3. r.pc # "copying" /\ s.pc # "copying" /\ s.attempts = r.attempts
  <2>1. CASE Authenticate(p)
    <3>1. \/ s = [r EXCEPT !.pc = "payload", !.status = 0]
          \/ s = [r EXCEPT !.pc = "done", !.status = 401]
      <4>1. PICK accepted \in BOOLEAN :
              req'[p] = [req[p] EXCEPT !.pc = IF accepted THEN "payload" ELSE "done",
                                       !.status = IF accepted THEN 0 ELSE 401]
        <5>1. PICK accepted \in BOOLEAN :
                req' = [req EXCEPT ![p].pc = IF accepted THEN "payload" ELSE "done",
                                   ![p].status = IF accepted THEN 0 ELSE 401]
          BY <2>1, Zenon DEF Authenticate
        <5> QED BY <1>0, <5>1, Zenon
      <4>2. CASE accepted
        BY <1>1, <4>1, <4>2, Zenon
      <4>3. CASE ~accepted
        BY <1>1, <4>1, <4>3, Zenon
      <4> QED BY <4>2, <4>3, Zenon
    <3>2. r.pc = "new"
      BY <1>1, <2>1 DEF Authenticate, At
    <3>3. CASE s = [r EXCEPT !.pc = "payload", !.status = 0]
      <4>1. s.pc = "payload" /\ s.attempts = r.attempts
        BY <1>2, <3>3, MovedFields, Zenon
      <4> QED BY <3>2, <4>1
    <3>4. CASE s = [r EXCEPT !.pc = "done", !.status = 401]
      <4>1. PICK status : status = 401
        OBVIOUS
      <4>2. s = [r EXCEPT !.pc = "done", !.status = status]
        BY <3>4, <4>1
      <4>3. s.pc = "done" /\ s.attempts = r.attempts
        BY <1>2, <4>2, MovedFields, Zenon
      <4> QED BY <3>2, <4>3
    <3> QED BY <3>1, <3>3, <3>4, Zenon
  <2>2. CASE ReadPayload(p)
    <3>1. \/ s = [r EXCEPT !.pc = "load"]
          \/ s = [r EXCEPT !.pc = "done", !.status = 400]
          \/ s = Settle(r, 400, 0)
      BY <1>0, <1>1, <2>2 DEF ReadPayload
    <3>2. r.pc = "payload"
      BY <1>1, <2>2 DEF ReadPayload, At
    <3>3. CASE s = [r EXCEPT !.pc = "load"]
      BY <1>2, <3>2, <3>3 DEF IsRecord
    <3>4. CASE s = [r EXCEPT !.pc = "done", !.status = 400]
      <4>1. PICK status : status = 400
        OBVIOUS
      <4>2. s = [r EXCEPT !.pc = "done", !.status = status]
        BY <3>4, <4>1
      <4>3. s.pc = "done" /\ s.attempts = r.attempts
        BY <1>2, <4>2, MovedFields, Zenon
      <4> QED BY <3>2, <4>3
    <3>5. CASE s = Settle(r, 400, 0)
      BY <1>2, <3>2, <3>5, SettledFields
    <3> QED BY <3>1, <3>3, <3>4, <3>5
  <2>3. CASE LoadRoutes(p)
    <3>1. PICK off :
            \/ s = Settle(r, 404, 0)
            \/ s = [r EXCEPT !.pc = "next", !.routes = Snapshot(off)]
      BY <1>0, <1>1, <2>3, LoadedRoutes
    <3>2. r.pc = "load"
      BY <1>1, <2>3 DEF LoadRoutes, At
    <3>3. CASE s = Settle(r, 404, 0)
      BY <1>2, <3>2, <3>3, SettledFields
    <3>4. CASE s = [r EXCEPT !.pc = "next", !.routes = Snapshot(off)]
      <4>1. PICK plan : plan = Snapshot(off)
        OBVIOUS
      <4>2. s = [pc |-> "next", routes |-> plan, at |-> r.at, attempts |-> r.attempts,
                 limitedRetry |-> r.limitedRetry, quotaUnavailable |-> r.quotaUnavailable,
                 status |-> r.status, retryAfter |-> r.retryAfter]
        BY <1>2, <3>4, <4>1 DEF IsRecord
      <4> QED BY <3>2, <4>2
    <3> QED BY <3>1, <3>3, <3>4
  <2>4. CASE RoutingUnavailable(p)
    <3>1. s = Settle(r, 503, 0) /\ r.pc = "load"
      BY <1>0, <1>1, <2>4 DEF RoutingUnavailable, At
    <3> QED BY <1>2, <3>1, SettledFields
  <2> QED BY <2>1, <2>2, <2>3, <2>4 DEF BeforeLoop
<1>4. Replied(s) = Replied(r)
  BY <1>3, SameAttemptsReplied
<1> QED BY <1>1, <1>3, <1>4 DEF Quiet

\* Within the loop a try is carried on, or ends without a reply.
LEMMA QuietInLoop ==
  ASSUME GInv, NEW p \in Requests, InLoop(p) \/ TransportError(p)
  PROVE  Quiet(req[p], req'[p])
<1>0. p \in DOMAIN req /\ IsRecord(req[p])
  BY InvOf
<1>1. PICK r, s : r = req[p] /\ s = req'[p]
  OBVIOUS
<1>2. IsRecord(r)
  BY <1>0, <1>1
<1>3. ASSUME NEW i, FirstUntried(r, i), NEW status, NEW reason,
             reason \in {"inaccessible", "noKey", "transportError"},
             s = Tried(r, i, status, reason), r.pc # "copying"
      PROVE  Quiet(r, s)
  <2>1. s.pc = "next"
    BY <1>2, <1>3, TriedFields
  <2> QED BY <1>2, <1>3, <2>1, UnansweredTry
<1>4. ASSUME s.attempts = r.attempts, s.pc # "copying", r.pc # "copying"
      PROVE  Quiet(r, s)
  BY <1>4, SameAttemptsReplied DEF Quiet
<1>5. CASE QuotaGrants(p)
  <2>1. PICK i \in Priorities :
          IsNext(p, i) /\ s = [r EXCEPT !.pc = "choose", !.at = i]
    <3>1. PICK i \in Priorities :
            IsNext(p, i) /\ req'[p] = [req[p] EXCEPT !.pc = "choose", !.at = i]
      BY <1>0, <1>5, Zenon DEF QuotaGrants
    <3> QED BY <1>1, <3>1, Zenon
  <2>2. r.pc = "next"
    BY <1>1, <2>1 DEF IsNext, At
  <2>3. s.attempts = r.attempts /\ s.pc = "choose"
    BY <1>2, <2>1 DEF IsRecord
  <2> QED BY <1>1, <1>4, <2>2, <2>3
<1>6. CASE QuotaRefuses(p)
  <2>1. PICK i \in Priorities, delay \in RetryDelays :
          IsNext(p, i) /\ s = Refused(r, i, delay)
    BY <1>0, <1>1, <1>6 DEF QuotaRefuses
  <2>2. FirstUntried(r, i) /\ r.pc = "next"
    BY <1>1, <2>1, RouteInHand DEF IsNext, At
  <2>3. PICK t : t = Tried(r, i, 429, "quotaExceeded")
    OBVIOUS
  <2>4. IsRecord(t) /\ t.pc = "next"
    BY <1>2, <2>3, TriedFields
  <2>5. s.attempts = t.attempts /\ s.pc = "next"
    BY <2>1, <2>3, <2>4 DEF Refused, IsRecord
  <2> QED BY <1>1, <1>2, <2>2, <2>3, <2>5, UnansweredTry
<1>7. CASE QuotaInaccessible(p)
  <2>1. PICK i \in Priorities :
          IsNext(p, i) /\ s = Tried(r, i, 404, "inaccessible")
    BY <1>0, <1>1, <1>7 DEF QuotaInaccessible
  <2>2. FirstUntried(r, i) /\ r.pc = "next"
    BY <1>1, <2>1, RouteInHand DEF IsNext, At
  <2> QED BY <1>1, <1>3, <2>1, <2>2
<1>8. CASE QuotaUnavailable(p)
  <2>1. PICK i \in Priorities :
          /\ IsNext(p, i)
          /\ s = [Tried(r, i, 503, "quotaUnavailable") EXCEPT !.quotaUnavailable = TRUE]
    <3>1. PICK i \in Priorities :
            /\ IsNext(p, i)
            /\ \/ UNCHANGED <<room, charges>>
               \/ p \notin cancelled /\ Charge(p, req[p].routes[i])
            /\ req' = [req EXCEPT ![p] = [Tried(@, i, 503, "quotaUnavailable")
                                            EXCEPT !.quotaUnavailable = TRUE]]
      BY <1>8, Zenon DEF QuotaUnavailable
    <3> QED BY <1>0, <1>1, <3>1
  <2>2. FirstUntried(r, i) /\ r.pc = "next"
    BY <1>1, <2>1, RouteInHand DEF IsNext, At
  <2>3. PICK t : t = Tried(r, i, 503, "quotaUnavailable")
    OBVIOUS
  <2>4. IsRecord(t) /\ t.pc = "next"
    BY <1>2, <2>3, TriedFields
  <2>5. s.attempts = t.attempts /\ s.pc = "next"
    BY <2>1, <2>3, <2>4 DEF IsRecord
  <2> QED BY <1>1, <1>2, <2>2, <2>3, <2>5, UnansweredTry
<1>9. CASE KeyChosen(p)
  <2>1. r.pc = "choose" /\ s = [r EXCEPT !.pc = "send"]
    BY <1>0, <1>1, <1>9 DEF KeyChosen, At
  <2>2. s.attempts = r.attempts /\ s.pc = "send"
    BY <1>2, <2>1 DEF IsRecord
  <2> QED BY <1>1, <1>4, <2>1, <2>2
<1>10. CASE NoKeyChosen(p)
  <2>1. r.pc = "choose" /\ s = Tried(r, r.at, 0, "noKey")
    BY <1>0, <1>1, <1>10 DEF NoKeyChosen, At
  <2>2. FirstUntried(r, r.at)
    BY <1>1, <2>1, RouteInHand DEF Trying
  <2> QED BY <1>1, <1>3, <2>1, <2>2
<1>11. CASE RejectBody(p)
  <2>1. r.pc = "send" /\ s = [r EXCEPT !.pc = "done", !.status = 400]
    BY <1>0, <1>1, <1>11 DEF RejectBody, At
  <2>2. PICK status : status = 400
    OBVIOUS
  <2>3. s = [r EXCEPT !.pc = "done", !.status = status]
    BY <2>1, <2>2
  <2>4. s.pc = "done" /\ s.attempts = r.attempts
    BY <1>2, <2>3, MovedFields, Zenon
  <2> QED BY <1>1, <1>4, <2>1, <2>4
<1>12. CASE Send(p)
  <2>1. r.pc = "send" /\ s = [r EXCEPT !.pc = "waiting"]
    BY <1>0, <1>1, <1>12 DEF Send, At
  <2>2. s.attempts = r.attempts /\ s.pc = "waiting"
    BY <1>2, <2>1 DEF IsRecord
  <2> QED BY <1>1, <1>4, <2>1, <2>2
<1>13. CASE TransportError(p)
  <2>1. r.pc \in {"send", "waiting"} /\ s = Tried(r, r.at, 0, "transportError")
    BY <1>0, <1>1, <1>13 DEF TransportError, At
  <2>2. FirstUntried(r, r.at)
    BY <1>1, <2>1, RouteInHand DEF Trying
  <2> QED BY <1>1, <1>3, <2>1, <2>2
<1> QED BY <1>5, <1>6, <1>7, <1>8, <1>9, <1>10, <1>11, <1>12, <1>13 DEF InLoop

\* After the loop, and when the client leaves, the attempts stay as they are.
LEMMA QuietAfterLoop ==
  ASSUME GInv, NEW p \in Requests, AfterLoop(p) \/ Cancel(p)
  PROVE  Quiet(req[p], req'[p])
<1>0. p \in DOMAIN req /\ IsRecord(req[p])
  BY InvOf
<1>1. PICK r, s : r = req[p] /\ s = req'[p]
  OBVIOUS
<1>2. IsRecord(r)
  BY <1>0, <1>1
<1>3. CASE Exhausted(p)
  <2>1. r.pc = "next" /\ \E status, delay : s = Settle(r, status, delay)
    <3>1. /\ r.pc = "next"
          /\ s = IF r.quotaUnavailable THEN Settle(r, 503, 0)
                 ELSE IF r.limitedRetry > 0 THEN Settle(r, 429, r.limitedRetry)
                 ELSE Settle(r, 502, 0)
      BY <1>0, <1>1, <1>3 DEF Exhausted, At
    <3> QED BY <3>1
  <2>2. s.attempts = r.attempts /\ s.pc = "log"
    BY <1>2, <2>1, SettledFields
  <2> QED BY <1>1, <2>1, <2>2, SameAttemptsReplied DEF Quiet
<1>4. CASE Log(p)
  <2>1. r.pc = "log" /\ s = [r EXCEPT !.pc = "done"]
    BY <1>0, <1>1, <1>4 DEF Log, At
  <2>2. s.attempts = r.attempts /\ s.pc = "done"
    BY <1>2, <2>1 DEF IsRecord
  <2>3. Replied(s) = Replied(r)
    BY <2>2, SameAttemptsReplied
  <2> QED BY <1>1, <2>1, <2>2, <2>3 DEF Quiet
<1>5. CASE Cancel(p)
  BY <1>5 DEF Cancel, Quiet
<1> QED BY <1>3, <1>4, <1>5 DEF AfterLoop

\* One reply more, counted or excused.
LEMMA OneReplyMore ==
  ASSUME NEW p, Counted(p), usage[p] \in Nat, ReplyCount(req[p]) \in Nat,
         IsFiniteSet(Replied(req'[p])), ReplyCount(req'[p]) = ReplyCount(req[p]) + 1, Excused,
         \/ usage'[p] = usage[p] + 1
         \/ usage'[p] = usage[p] /\ (p \in faulted' \/ p \in cancelled')
  PROVE  Counted(p)'
BY DEF Counted, Excused

\* The replies are a number.
LEMMA ReplyCountIsANumber ==
  ASSUME NEW r, IsFiniteSet(Replied(r))
  PROVE  ReplyCount(r) \in Nat /\ Cardinality(Replied(r)) \in Nat
<1>1. Cardinality(Replied(r)) \in Nat
  BY FS_CardinalityType
<1> QED BY <1>1 DEF ReplyCount

\* A reply is counted as it arrives.
LEMMA ReplyCounts ==
  ASSUME GInv, NEW p \in Requests, Reply(p), Counted(p)
  PROVE  Counted(p)'
<1>0. p \in DOMAIN req /\ Histories /\ Tables
  BY InvOf
<1>1. PICK r, s, i : r = req[p] /\ s = req'[p] /\ i = req[p].at
  OBVIOUS
<1>2. IsRecord(r) /\ r.pc = "waiting" /\ FirstUntried(r, i)
  BY <1>1, InvOf, RouteInHand DEF Reply, At, Trying
<1>3. PICK status \in Replies :
        s = IF Retryable(status) THEN Tried(r, i, status, "serverError")
            ELSE [r EXCEPT !.pc = "copying", !.status = status]
  <2>1. PICK status \in Replies :
          req'[p] = IF Retryable(status) THEN Tried(req[p], req[p].at, status, "serverError")
                    ELSE [req[p] EXCEPT !.pc = "copying", !.status = status]
    BY <1>0, Zenon DEF Reply
  <2> QED BY <1>1, <2>1, Zenon
<1>4. IsFiniteSet(Replied(r)) /\ Cardinality(Replied(r)) \in Nat /\ ReplyCount(r) \in Nat
  BY <1>1, ReplyCountIsANumber DEF Counted
<1>5. IsFiniteSet(Replied(s)) /\ ReplyCount(s) = ReplyCount(r) + 1
  <2>1. CASE Retryable(status)
    <3>1. Grows(r, s, i, status, "serverError") /\ s.pc = "next"
      BY <1>2, <1>3, <2>1, TriedFields
    <3>2. i \notin DOMAIN r.attempts
      BY <1>2 DEF FirstUntried, Untried
    <3>3. i \notin Replied(r) /\ Replied(s) = Replied(r) \cup {i}
      BY <3>1, <3>2, GrownReplied
    <3>4. IsFiniteSet(Replied(s)) /\ Cardinality(Replied(s)) = Cardinality(Replied(r)) + 1
      BY <1>4, <3>3, FS_AddElement
    <3> QED BY <1>2, <1>4, <3>1, <3>4 DEF ReplyCount
  <2>2. CASE ~Retryable(status)
    <3>1. s = [r EXCEPT !.pc = "copying", !.status = status]
      BY <1>3, <2>2
    <3>2. s.pc = "copying" /\ s.attempts = r.attempts
      BY <1>2, <3>1, MovedFields, Zenon
    <3>3. Replied(s) = Replied(r)
      BY <3>2, SameAttemptsReplied
    <3> QED BY <1>2, <1>4, <3>2, <3>3 DEF ReplyCount
  <2> QED BY <2>1, <2>2
<1>6. usage[p] \in Nat
  BY <1>0 DEF Histories
<1>7. /\ Excused
      /\ \/ usage'[p] = usage[p] + 1
         \/ usage'[p] = usage[p] /\ (p \in faulted' \/ p \in cancelled')
  BY <1>0 DEF Reply, CallFails, Excused, Histories
<1> QED BY <1>1, <1>4, <1>5, <1>6, <1>7, OneReplyMore

\* The reply that was copied becomes an attempt.
LEMMA CopyCounts ==
  ASSUME GInv, NEW p \in Requests, Copy(p), Counted(p)
  PROVE  Counted(p)'
<1>0. p \in DOMAIN req
  BY InvOf
<1>1. PICK r, s, i : r = req[p] /\ s = req'[p] /\ i = req[p].at
  OBVIOUS
<1>2. IsRecord(r) /\ r.pc = "copying" /\ FirstUntried(r, i)
  BY <1>1, InvOf, RouteInHand DEF Copy, At, Trying
<1>3. PICK reason \in {"served", "interrupted"} :
        s = [Tried(r, i, r.status, reason) EXCEPT !.pc = "log"]
  BY <1>0, <1>1 DEF Copy
<1>4. IsFiniteSet(Replied(r)) /\ Cardinality(Replied(r)) \in Nat
  BY <1>1, ReplyCountIsANumber DEF Counted
<1>5. PICK t : t = Tried(r, i, r.status, reason)
  OBVIOUS
<1>6. IsRecord(t) /\ Grows(r, t, i, r.status, reason)
  BY <1>2, <1>5, TriedFields
<1>7. s.attempts = t.attempts /\ s.pc = "log"
  BY <1>3, <1>5, <1>6 DEF IsRecord
<1>8. i \notin DOMAIN r.attempts
  BY <1>2 DEF FirstUntried, Untried
<1>9. i \notin Replied(r) /\ Replied(t) = Replied(r) \cup {i}
  BY <1>6, <1>8, GrownReplied
<1>10. Replied(s) = Replied(r) \cup {i}
  BY <1>7, <1>9, SameAttemptsReplied
<1>11. IsFiniteSet(Replied(s)) /\ Cardinality(Replied(s)) = Cardinality(Replied(r)) + 1
  BY <1>4, <1>9, <1>10, FS_AddElement
<1>12. ReplyCount(s) = ReplyCount(r)
  BY <1>2, <1>4, <1>7, <1>11 DEF ReplyCount
<1>13. UNCHANGED <<usage, faulted, cancelled>>
  BY DEF Copy
<1> QED BY <1>1, <1>11, <1>12, <1>13 DEF Counted

\* Every step keeps the counts.
LEMMA StepKeepsCounts == GInv /\ UInv /\ [Next]_vars => UInv'
<1> SUFFICES ASSUME GInv, UInv, [Next]_vars, NEW p \in Requests PROVE Counted(p)'
  BY DEF UInv
<1>0. Counted(p) /\ Histories /\ p \in DOMAIN req
  BY InvOf DEF UInv
<1>1. ASSUME req'[p] = req[p], usage'[p] = usage[p], Excused PROVE Counted(p)'
  BY <1>0, <1>1, QuietStep DEF Quiet
<1>2. ASSUME NEW q \in Requests, Silent(q) PROVE Counted(p)'
  <2>1. usage' = usage /\ Excused
    BY <1>2, SilentTables
  <2>2. CASE q = p
    <3>1. Quiet(req[p], req'[p])
      BY <1>2, <2>2, QuietBeforeLoop, QuietInLoop, QuietAfterLoop DEF Silent
    <3> QED BY <1>0, <2>1, <3>1, QuietStep
  <2>3. CASE q # p
    <3>1. req'[p] = req[p]
      <4>1. OnlyMoves(q)
        BY <1>2, RequestsMoveAlone DEF Silent, Provider
      <4> QED BY <1>0, <2>3, <4>1 DEF OnlyMoves, Histories
    <3> QED BY <1>1, <2>1, <3>1
  <2> QED BY <2>2, <2>3
<1>3. ASSUME NEW q \in Requests, Reply(q) \/ Copy(q) PROVE Counted(p)'
  <2>1. CASE q = p
    BY <1>0, <1>3, <2>1, ReplyCounts, CopyCounts
  <2>2. CASE q # p
    <3>1. OnlyMoves(q)
      BY <1>3, RequestsMoveAlone DEF Provider
    <3>2. req'[p] = req[p]
      BY <1>0, <2>2, <3>1 DEF OnlyMoves, Histories
    <3>3. usage'[p] = usage[p] /\ Excused
      <4>1. CASE Reply(q)
        <5>1. usage' = usage \/ usage' = [usage EXCEPT ![q] = @ + 1]
          BY <4>1 DEF Reply
        <5>2. usage'[p] = usage[p]
          BY <1>0, <2>2, <5>1 DEF Histories
        <5>3. Excused
          BY <4>1 DEF Reply, CallFails, Excused
        <5> QED BY <5>2, <5>3
      <4>2. CASE Copy(q)
        BY <4>2 DEF Copy, Excused
      <4> QED BY <1>3, <4>1, <4>2
    <3> QED BY <1>1, <3>2, <3>3
  <2> QED BY <2>1, <2>2
<1>4. CASE SaveRoutes \/ \E c \in Connections : EditConnection(c) \/ OthersSpend(c) \/ NewWindow(c)
  <2>1. UNCHANGED <<req, usage, cancelled, faulted>>
    BY <1>4, WorldTables DEF GInv
  <2> QED BY <1>1, <2>1 DEF Excused
<1>5. CASE UNCHANGED vars
  BY <1>1, <1>5 DEF vars, Excused
<1> QED BY <1>2, <1>3, <1>4, <1>5 DEF Next, Silent, Provider

\* Usage counts every reply once, unless a database call failed or the client left.
THEOREM UsageAlwaysCountsReplies == Spec => []UsageCountsReplies
<1>1. Init => UInv
  <2> SUFFICES ASSUME Init, NEW p \in Requests PROVE Counted(p)
    BY DEF UInv
  <2>1. req[p] = Fresh /\ usage[p] = 0
    BY DEF Init
  <2>2. Replied(Fresh) = {} /\ Fresh.pc = "new"
    BY DEF Replied, Fresh, NoPlan
  <2>3. IsFiniteSet({}) /\ Cardinality({}) = 0
    BY FS_EmptySet
  <2> QED BY <2>1, <2>2, <2>3 DEF Counted, ReplyCount
<1>2. UInv => UsageCountsReplies
  BY DEF UInv, Counted, ReplyCount, Replied, UsageCountsReplies
<1> QED BY <1>1, <1>2, Invariance, StepKeepsCounts, PTL DEF Spec

=============================================================================
