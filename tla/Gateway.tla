------------------------------ MODULE Gateway ------------------------------
(***************************************************************************)
(* POST /v1/chat/completions (services/gateway/internal/httpserver/        *)
(* server.go 43-145 with provider/proxy.go): each request loads its routes *)
(* once, then tries them by priority.  A try reserves quota, chooses a key *)
(* and forwards; a refusal, a missing key, a transport error and a 5xx all *)
(* move on to the next route, anything else is served.  What happened is   *)
(* told in the status, in Retry-After and in the request log.              *)
(*                                                                         *)
(* The requests are those of one user.  Between any two steps of one       *)
(* request other requests spend the same quota, owners edit connections,   *)
(* the user replaces the routes, the database fails and the client leaves. *)
(* Quota is the atomic ledger that Quota implements, seen through one      *)
(* window whose refusals carry any of RetryDelays; keys are chosen by      *)
(* KeyRotation's select_provider_key.                                      *)
(***************************************************************************)
EXTENDS ConnectionWindow, FiniteSets

CONSTANTS
  Requests,       \* requests that may be in flight at once
  Priorities,     \* routing_routes.priority
  Plans,          \* the routes of one alias that may be saved
  RetryDelays,    \* seconds a refusal may tell to wait
  Replies         \* status codes that providers reply with

ASSUME GatewayAssumption ==
  /\ Own \subseteq Connections
  /\ Admin \in BOOLEAN
  /\ Priorities \subseteq Nat
  /\ \A plan \in Plans : /\ DOMAIN plan \subseteq Priorities
                         /\ \A i \in DOMAIN plan : plan[i] \in Connections
  /\ Plans # {}
  /\ Limit \in Nat
  /\ RetryDelays \subseteq Nat \ {0}
  /\ Replies \subseteq 200 .. 599

VARIABLES
  routes,         \* the saved routes of the alias: priority -> connection
  mappable,       \* requests whose body decodes as a map too, not only as the
                  \* handler's struct: it has no number beyond a float64
  req,            \* request -> the handler's own variables
  cancelled,      \* requests whose client has gone: their context is done
  logs,           \* request -> statuses of its rows in request_logs
  usage,          \* request -> number of its rows in usage_events
  \* history
  charges,        \* request -> connection -> reservations charged
  sends,          \* request -> connection -> requests sent
  told,           \* request -> the delays its refusals named
  faulted         \* requests that had a database call fail

vars == <<setting, routes, mappable, room, req, cancelled, logs, usage, charges,
          sends, told, faulted>>
given == <<setting, routes, mappable>>
history == <<charges, sends, told>>

Phases == {"new", "payload", "load", "next", "choose", "send", "waiting",
           "copying", "log", "done"}
Reasons == {"quotaUnavailable", "inaccessible", "quotaExceeded", "noKey",
            "transportError", "serverError", "served", "interrupted"}
Attempts == [connection : Connections, status : Nat, reason : Reasons]
NoPlan == [i \in {} |-> i]

Fresh == [pc |-> "new", routes |-> NoPlan, at |-> 0, attempts |-> NoPlan,
          limitedRetry |-> 0, quotaUnavailable |-> FALSE,
          status |-> 0, retryAfter |-> 0]

TypeOK ==
  /\ setting \in [Connections -> Settings]
  /\ routes \in Plans
  /\ mappable \subseteq Requests
  /\ room \in [Connections -> 0 .. Limit]
  /\ DOMAIN req = Requests
  /\ \A p \in Requests :
       /\ req[p].pc \in Phases
       /\ DOMAIN req[p].routes \subseteq Priorities
       /\ \A i \in DOMAIN req[p].routes : req[p].routes[i] \in Connections
       /\ DOMAIN req[p].attempts \subseteq DOMAIN req[p].routes
       /\ \A i \in DOMAIN req[p].attempts : req[p].attempts[i] \in Attempts
       /\ req[p].limitedRetry \in RetryDelays \cup {0}
       /\ req[p].quotaUnavailable \in BOOLEAN
       /\ req[p].status \in {0, 400, 401, 404, 429, 502, 503} \cup Replies
       /\ req[p].retryAfter \in RetryDelays \cup {0}
       /\ req[p].pc \in {"choose", "send", "waiting"} =>
            req[p].at \in DOMAIN req[p].routes \ DOMAIN req[p].attempts
  /\ cancelled \subseteq Requests
  /\ logs \in [Requests -> SUBSET Nat]
  /\ usage \in [Requests -> Nat]
  /\ charges \in [Requests -> [Connections -> Nat]]
  /\ sends \in [Requests -> [Connections -> Nat]]
  /\ told \in [Requests -> SUBSET RetryDelays]
  /\ faulted \subseteq Requests

Init ==
  /\ setting \in [Connections -> Settings]
  /\ routes \in Plans
  /\ mappable \in SUBSET Requests
  /\ room = [c \in Connections |-> Limit]
  /\ req = [p \in Requests |-> Fresh]
  /\ cancelled = {}
  /\ logs = [p \in Requests |-> {}]
  /\ usage = [p \in Requests |-> 0]
  /\ charges = [p \in Requests |-> [c \in Connections |-> 0]]
  /\ sends = [p \in Requests |-> [c \in Connections |-> 0]]
  /\ told = [p \in Requests |-> {}]
  /\ faulted = {}

-----------------------------------------------------------------------------
(* Parts of the handler. *)

At(p, pc) == p \in Requests /\ req[p].pc = pc

\* The request's outcome is settled; RecordRequest comes next.
Settle(r, status, retryAfter) ==
  [r EXCEPT !.pc = "log", !.status = status, !.retryAfter = retryAfter]

\* attempts = append(attempts, attempt), for the route of priority i.
Tried(r, i, status, reason) ==
  [r EXCEPT !.pc = "next",
            !.attempts = [j \in DOMAIN @ \cup {i} |->
                            IF j = i THEN [connection |-> r.routes[i], status |-> status,
                                           reason |-> reason]
                                     ELSE @[j]]]

Untried(r) == DOMAIN r.routes \ DOMAIN r.attempts

\* The loop takes the routes in the order of their priorities.
IsNext(p, i) ==
  /\ At(p, "next")
  /\ i \in Untried(req[p])
  /\ \A j \in Untried(req[p]) : i <= j

\* A database call whose context is done, or whose database is not there,
\* returns an error.
CallFails(p) == faulted' = IF p \in cancelled THEN faulted ELSE faulted \cup {p}

\* RecordRequest ignores the error of its INSERT.
Record(p, status, contextDone) ==
  \/ /\ ~contextDone
     /\ logs' = [logs EXCEPT ![p] = @ \cup {status}]
     /\ UNCHANGED faulted
  \/ /\ UNCHANGED logs
     /\ faulted' = IF contextDone THEN faulted ELSE faulted \cup {p}

-----------------------------------------------------------------------------
(* Before the loop. *)

\* auth.Middleware: one query decides.
Authenticate(p) ==
  /\ At(p, "new")
  /\ \E accepted \in BOOLEAN :
       req' = [req EXCEPT ![p].pc = IF accepted THEN "payload" ELSE "done",
                          ![p].status = IF accepted THEN 0 ELSE 401]
  /\ UNCHANGED <<given, room, cancelled, logs, usage, history, faulted>>

\* A body that cannot be read is answered and not logged; one without a model
\* is both.
ReadPayload(p) ==
  /\ At(p, "payload")
  /\ \/ req' = [req EXCEPT ![p].pc = "load"]
     \/ req' = [req EXCEPT ![p].pc = "done", ![p].status = 400]
     \/ req' = [req EXCEPT ![p] = Settle(@, 400, 0)]
  /\ UNCHANGED <<given, room, cancelled, logs, usage, history, faulted>>

\* The conditions of the query: the user's own connections and public ones.
Routable(c) ==
  /\ setting[c] # "disabled"
  /\ c \in Own \/ setting[c] = "public"

\* The query leaves out the routes whose model is disabled.
Snapshot(off) == [i \in {j \in DOMAIN routes \ off : Routable(routes[j])} |-> routes[i]]

\* Models are disabled and enabled at will, and read nowhere else: any of the
\* routes may be off.
LoadRoutes(p) ==
  /\ At(p, "load")
  /\ p \notin cancelled
  /\ \E off \in SUBSET DOMAIN routes :
       req' = [req EXCEPT ![p] =
         IF DOMAIN Snapshot(off) = {} THEN Settle(@, 404, 0)
         ELSE [@ EXCEPT !.pc = "next", !.routes = Snapshot(off)]]
  /\ UNCHANGED <<given, room, cancelled, logs, usage, history, faulted>>

RoutingUnavailable(p) ==
  /\ At(p, "load")
  /\ req' = [req EXCEPT ![p] = Settle(@, 503, 0)]
  /\ CallFails(p)
  /\ UNCHANGED <<given, room, cancelled, logs, usage, history>>

-----------------------------------------------------------------------------
(* SELECT reserve_connection_requests($1, $2, 1). *)

Charge(p, c) == Granted(c) /\ charges' = [charges EXCEPT ![p][c] = @ + 1]

QuotaGrants(p) ==
  /\ p \notin cancelled
  /\ \E i \in Priorities :
       /\ IsNext(p, i)
       /\ \/ Charge(p, req[p].routes[i])
          \/ GrantedFreely(req[p].routes[i]) /\ UNCHANGED charges
       /\ req' = [req EXCEPT ![p].pc = "choose", ![p].at = i]
  /\ UNCHANGED <<given, cancelled, logs, usage, sends, told, faulted>>

\* The shortest delay so far, 0 while there is none.
Shorter(last, delay) == IF last = 0 \/ delay < last THEN delay ELSE last

Refused(r, i, delay) ==
  [Tried(r, i, 429, "quotaExceeded") EXCEPT !.limitedRetry = Shorter(@, delay)]

RefusesWithLastDelay(p) ==   \* a mutant: the last delay, not the shortest
  /\ p \notin cancelled
  /\ \E i \in Priorities, delay \in RetryDelays :
       /\ IsNext(p, i)
       /\ Limited(req[p].routes[i])
       /\ req' = [req EXCEPT ![p] =
            [Tried(@, i, 429, "quotaExceeded") EXCEPT !.limitedRetry = delay]]
       /\ told' = [told EXCEPT ![p] = @ \cup {delay}]
  /\ UNCHANGED <<given, cancelled, logs, usage, charges, sends, faulted>>

QuotaRefuses(p) ==
  /\ p \notin cancelled
  /\ \E i \in Priorities, delay \in RetryDelays :
       /\ IsNext(p, i)
       /\ Limited(req[p].routes[i])
       /\ req' = [req EXCEPT ![p] = Refused(@, i, delay)]
       /\ told' = [told EXCEPT ![p] = @ \cup {delay}]
  /\ UNCHANGED <<given, cancelled, logs, usage, charges, sends, faulted>>

\* The connection was closed to the user after its routes were loaded.
QuotaInaccessible(p) ==
  /\ p \notin cancelled
  /\ \E i \in Priorities :
       /\ IsNext(p, i)
       /\ Inaccessible(req[p].routes[i])
       /\ req' = [req EXCEPT ![p] = Tried(@, i, 404, "inaccessible")]
  /\ UNCHANGED <<given, cancelled, logs, usage, history, faulted>>

UnavailableForwards(p) ==   \* a mutant: a failed quota check lets the try go on
  /\ \E i \in Priorities :
       /\ IsNext(p, i)
       /\ UNCHANGED <<room, charges>>
       /\ req' = [req EXCEPT ![p].pc = "choose", ![p].at = i]
  /\ CallFails(p)
  /\ UNCHANGED <<given, cancelled, logs, usage, sends, told>>

\* The call fails; if only its answer was lost the charge has been made.
QuotaUnavailable(p) ==
  /\ \E i \in Priorities :
       /\ IsNext(p, i)
       /\ \/ UNCHANGED <<room, charges>>
          \/ p \notin cancelled /\ Charge(p, req[p].routes[i])
       /\ req' = [req EXCEPT ![p] =
            [Tried(@, i, 503, "quotaUnavailable") EXCEPT !.quotaUnavailable = TRUE]]
  /\ CallFails(p)
  /\ UNCHANGED <<given, cancelled, logs, usage, sends, told>>

-----------------------------------------------------------------------------
(* The key, the provider and its reply. *)

\* SELECT select_provider_key($1) finds a key of an enabled connection.
KeyChosen(p) ==
  /\ At(p, "choose")
  /\ p \notin cancelled
  /\ setting[req[p].routes[req[p].at]] # "disabled"
  /\ req' = [req EXCEPT ![p].pc = "send"]
  /\ UNCHANGED <<given, room, cancelled, logs, usage, history, faulted>>

NoKeyAwaited(p) ==   \* a mutant: without a key the request waits for one
  /\ At(p, "choose")
  /\ faulted' = faulted \cup ({p} \ cancelled)
  /\ faulted' # faulted
  /\ req' = [req EXCEPT ![p] = Tried(@, @.at, 0, "noKey")]
  /\ UNCHANGED <<given, room, cancelled, logs, usage, history>>

\* NULL and an error of the call are one case to the handler.
NoKeyChosen(p) ==
  /\ At(p, "choose")
  /\ req' = [req EXCEPT ![p] = Tried(@, @.at, 0, "noKey")]
  /\ faulted' \in {faulted, faulted \cup ({p} \ cancelled)}
  /\ UNCHANGED <<given, room, cancelled, logs, usage, history>>

\* The body is decoded again for each try, to put the route's model in it.
RejectBody(p) ==
  /\ At(p, "send")
  /\ p \notin mappable
  /\ req' = [req EXCEPT ![p] = [@ EXCEPT !.pc = "done", !.status = 400]]
  /\ UNCHANGED <<given, room, cancelled, logs, usage, history, faulted>>

Send(p) ==
  /\ At(p, "send")
  /\ p \in mappable
  /\ p \notin cancelled
  /\ req' = [req EXCEPT ![p].pc = "waiting"]
  /\ sends' = [sends EXCEPT ![p][req[p].routes[req[p].at]] = @ + 1]
  /\ UNCHANGED <<given, room, cancelled, logs, usage, charges, told, faulted>>

\* Forward returns an error: the key cannot be decrypted, the connection
\* fails, or the context is done.
TransportError(p) ==
  /\ At(p, "send") \/ At(p, "waiting")
  /\ p \in mappable
  /\ req' = [req EXCEPT ![p] = Tried(@, @.at, 0, "transportError")]
  /\ UNCHANGED <<given, room, cancelled, logs, usage, history, faulted>>

ErrorsRetryable(status) == status >= 400   \* a mutant: a 4xx falls back as well

Retryable(status) == status >= 500

UsageOfServed(p) ==   \* a mutant: RecordUsage after the check for 5xx
  /\ At(p, "waiting")
  /\ \E status \in Replies :
       /\ req' = [req EXCEPT ![p] =
            IF Retryable(status) THEN Tried(@, @.at, status, "serverError")
                                 ELSE [@ EXCEPT !.pc = "copying", !.status = status]]
       /\ \/ /\ p \notin cancelled
             /\ usage' = IF Retryable(status) THEN usage
                         ELSE [usage EXCEPT ![p] = @ + 1]
             /\ UNCHANGED faulted
          \/ CallFails(p) /\ UNCHANGED usage
  /\ UNCHANGED <<given, room, cancelled, logs, history>>

\* The reply's status arrives: RecordUsage, then the next route or the copy.
Reply(p) ==
  /\ At(p, "waiting")
  /\ \E status \in Replies :
       req' = [req EXCEPT ![p] =
         IF Retryable(status) THEN Tried(@, @.at, status, "serverError")
                              ELSE [@ EXCEPT !.pc = "copying", !.status = status]]
  /\ \/ /\ p \notin cancelled
        /\ usage' = [usage EXCEPT ![p] = @ + 1]
        /\ UNCHANGED faulted
     \/ CallFails(p) /\ UNCHANGED usage
  /\ UNCHANGED <<given, room, cancelled, logs, history>>

\* CopyResponse returns: the whole body, or as much as got through.
Copy(p) ==
  /\ At(p, "copying")
  /\ \E reason \in {"served", "interrupted"} :
       /\ reason = "served" => p \notin cancelled
       /\ req' = [req EXCEPT ![p] =
            [Tried(@, @.at, @.status, reason) EXCEPT !.pc = "log"]]
  /\ UNCHANGED <<given, room, cancelled, logs, usage, history, faulted>>

Served(r) == \E i \in DOMAIN r.attempts : r.attempts[i].reason \in {"served", "interrupted"}

\* After the last route: the reason to tell, the quota's before the routes'.
Exhausted(p) ==
  /\ At(p, "next")
  /\ Untried(req[p]) = {}
  /\ req' = [req EXCEPT ![p] =
       IF @.quotaUnavailable THEN Settle(@, 503, 0)
       ELSE IF @.limitedRetry > 0 THEN Settle(@, 429, @.limitedRetry)
       ELSE Settle(@, 502, 0)]
  /\ UNCHANGED <<given, room, cancelled, logs, usage, history, faulted>>

LogUnderRequest(p) ==   \* a mutant: the request's own context for every row
  /\ At(p, "log")
  /\ Record(p, req[p].status, p \in cancelled)
  /\ req' = [req EXCEPT ![p].pc = "done"]
  /\ UNCHANGED <<given, room, cancelled, usage, history>>

\* RecordRequest, and http.Error unless a response was served.  The row of a
\* served response is written under a context that outlives the client.
Log(p) ==
  /\ At(p, "log")
  /\ Record(p, req[p].status, p \in cancelled /\ ~Served(req[p]))
  /\ req' = [req EXCEPT ![p].pc = "done"]
  /\ UNCHANGED <<given, room, cancelled, usage, history>>

-----------------------------------------------------------------------------
(* The rest of the system. *)

\* net/http cancels the request's context when its client goes away.
Cancel(p) ==
  /\ ~At(p, "new") /\ ~At(p, "done")
  /\ p \notin cancelled
  /\ cancelled' = cancelled \cup {p}
  /\ UNCHANGED <<given, room, req, logs, usage, history, faulted>>

\* PATCH or DELETE /api/connections/[id].
EditConnection(c) ==
  /\ Edited(c)
  /\ UNCHANGED <<routes, mappable, room, req, cancelled, logs, usage, history, faulted>>

\* saveRouting replaces the routes of an alias in one transaction.
SaveRoutes ==
  /\ routes' \in Plans
  /\ UNCHANGED <<setting, mappable, room, req, cancelled, logs, usage, history, faulted>>

\* Probes, and requests beyond those modelled, reserve from the same window.
OthersSpend(c) ==
  /\ SpentElsewhere(c)
  /\ UNCHANGED <<given, req, cancelled, logs, usage, history, faulted>>

\* A minute or a day ends.
NewWindow(c) ==
  /\ WindowEnded(c)
  /\ UNCHANGED <<given, req, cancelled, logs, usage, history, faulted>>

BeforeLoop(p) ==
  Authenticate(p) \/ ReadPayload(p) \/ LoadRoutes(p) \/ RoutingUnavailable(p)
InLoop(p) ==
  \/ QuotaGrants(p) \/ QuotaRefuses(p) \/ QuotaInaccessible(p) \/ QuotaUnavailable(p)
  \/ KeyChosen(p) \/ NoKeyChosen(p) \/ RejectBody(p) \/ Send(p)
AfterLoop(p) == Exhausted(p) \/ Log(p)
Provider(p) == TransportError(p) \/ Reply(p) \/ Copy(p)

Next ==
  \/ \E p \in Requests :
       BeforeLoop(p) \/ InLoop(p) \/ AfterLoop(p) \/ Provider(p) \/ Cancel(p)
  \/ \E c \in Connections : EditConnection(c) \/ OthersSpend(c) \/ NewWindow(c)
  \/ SaveRoutes

Spec == Init /\ [][Next]_vars

AbortWithReply(p) == p \in cancelled /\ Copy(p)   \* a mutant: Forward without a context

\* Forward and CopyResponse return once the request's context is done.
Abort(p) == p \in cancelled /\ (TransportError(p) \/ Copy(p))

\* The rest of the body cannot come once the client has gone: the read ends.
BodyEnds(p) == p \in cancelled /\ ReadPayload(p)

\* A handler runs on while it does not wait for a client or a provider; the
\* pool hands out connections and statements end.  Nothing is assumed of
\* clients, whose bodies the server reads without a timeout, nor of providers,
\* for the HTTP client has none either.
FairSpec ==
  /\ Spec
  /\ \A p \in Requests :
       /\ WF_vars(LoadRoutes(p) \/ RoutingUnavailable(p))
       /\ WF_vars(InLoop(p) \/ AfterLoop(p))
       /\ WF_vars(BodyEnds(p))
       /\ WF_vars(Abort(p))

-----------------------------------------------------------------------------
(* Properties. *)

(***************************************************************************)
(* A member's request reaches a connection of somebody else only if a      *)
(* reservation was charged for it, whatever was edited since the routes    *)
(* were loaded and whichever calls failed.  (server.go 77-108)             *)
(***************************************************************************)
SendsAreCharged ==
  \A p \in Requests, c \in Connections \ Own :
    ~Admin => sends[p][c] <= charges[p][c]

(***************************************************************************)
(* Fallback goes by priority, past every failure and only past failures:   *)
(* every route before the last one tried was refused, had no key, broke or *)
(* replied 5xx, none was skipped, and no 5xx is what the client is served. *)
(* ("Stop on 4xx; never use the backup for an authentication error.",      *)
(* tests/e2e/routing.spec.ts)                                              *)
(***************************************************************************)
FallbackOnlyPastFailure ==
  \A p \in Requests :
    LET r == req[p]
        kept(i) == r.attempts[i].reason \in {"served", "interrupted"}
        failed(i) == ~kept(i) /\ (r.attempts[i].reason = "serverError" =>
                                     r.attempts[i].status >= 500)
    IN  \A i \in DOMAIN r.attempts :
          /\ kept(i) => r.attempts[i].status < 500
          /\ \A j \in DOMAIN r.routes : j < i => j \in DOMAIN r.attempts /\ failed(j)

(***************************************************************************)
(* The status is the one the attempts call for: that of the reply served;  *)
(* else 503 when a quota check failed; else 429 with the shortest delay    *)
(* any refusal named; else 502 with every route tried.  A body that cannot *)
(* be sent on ends as a 400 before anything was served.  (server.go 87,    *)
(* 101-105, 134-142)                                                       *)
(***************************************************************************)
AnswerExplained ==
  \A p \in Requests :
    LET r == req[p]
        Because(reason) == \E i \in DOMAIN r.attempts : r.attempts[i].reason = reason
    IN  r.pc \in {"log", "done"} /\ DOMAIN r.attempts # {} =>
          \/ \E i \in DOMAIN r.attempts :
               /\ r.attempts[i].reason \in {"served", "interrupted"}
               /\ r.attempts[i].status = r.status
               /\ \A j \in DOMAIN r.attempts : j <= i
               /\ r.retryAfter = 0
          \/ ~Served(r) /\ r.status = 400 /\ r.retryAfter = 0 /\ p \notin mappable
          \/ /\ ~Served(r) /\ Untried(r) = {}
             /\ IF Because("quotaUnavailable") THEN r.status = 503 /\ r.retryAfter = 0
                ELSE IF Because("quotaExceeded")
                THEN /\ r.status = 429
                     /\ r.retryAfter \in told[p]
                     /\ \A delay \in told[p] : r.retryAfter <= delay
                ELSE r.status = 502 /\ r.retryAfter = 0

(***************************************************************************)
(* A request that ended has one row in the log, with the status it was     *)
(* answered with; only a failing database, or a client that left or a body *)
(* that was rejected before anything was served, leaves none.  A response  *)
(* that was served is logged even if its client left half way.             *)
(* (server.go 55-68, 101-105, 128-143)                                     *)
(***************************************************************************)
LoggedAsAnswered ==
  \A p \in Requests :
    /\ logs[p] \subseteq {req[p].status}
    /\ /\ At(p, "done")
       /\ DOMAIN req[p].attempts # {} \/ req[p].status \in {404, 503}
       /\ logs[p] = {}
       => \/ p \in faulted
          \/ ~Served(req[p]) /\ (p \in cancelled \/ p \notin mappable)

(***************************************************************************)
(* Usage counts every reply of a provider once, the ones that fell back    *)
(* too; only a failing database or a client that left loses any.           *)
(* (server.go 114-121)                                                     *)
(***************************************************************************)
UsageCountsReplies ==
  \A p \in Requests :
    LET r == req[p]
        replied == {i \in DOMAIN r.attempts :
                      r.attempts[i].reason \in {"serverError", "served", "interrupted"}}
        replies == Cardinality(replied) + (IF r.pc = "copying" THEN 1 ELSE 0)
    IN  /\ usage[p] <= replies
        /\ usage[p] < replies => p \in faulted \/ p \in cancelled

(***************************************************************************)
(* The loop cannot run or block for ever: a request that never ends waits  *)
(* for its client, whose body has not all come or who does not take the    *)
(* response, or for its provider.  (server.go 43-144)                      *)
(***************************************************************************)
EndsOrWaits ==
  \A p \in Requests :
    <>[](req[p].pc \in {"new", "payload", "waiting", "copying", "done"})

(***************************************************************************)
(* Once its client has left, a request ends, whatever its provider does.   *)
(* (server.go 108, 124 and http.NewRequestWithContext, proxy.go 44)        *)
(***************************************************************************)
CancelledEnds ==
  \A p \in Requests : p \in cancelled ~> At(p, "done")

=============================================================================
