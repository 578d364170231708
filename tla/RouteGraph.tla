----------------------------- MODULE RouteGraph -----------------------------
(***************************************************************************)
(* The live route graph (apps/web/components/route-graph.tsx): a snapshot  *)
(* of the providers of one scope, loaded when the scope is chosen, every   *)
(* fifteen seconds, on every event of the activity stream and on demand,   *)
(* and the providers an event has just highlighted.                        *)
(*                                                                         *)
(* Loads overlap and their answers come in any order; the page takes each  *)
(* as it comes, for whatever scope it was asked.                           *)
(***************************************************************************)
EXTENDS Integers

CONSTANTS
  Scopes, FirstScope,
  Providers,
  Loads,          \* loads that may be in flight at once, 1 .. n
  MaxVersion,     \* bound on the changes of what a snapshot tells
  MaxChoices,     \* bound on the scopes chosen
  MaxTimers       \* bound on the timers of one provider's highlight

VARIABLES
  version,        \* of the providers and their routes in the database
  scope,
  choices,        \* how often a scope was chosen
  snapshot,       \* what is shown
  stale,          \* "Updates paused"
  active,         \* activeProviders
  timers,         \* provider -> timers that will end its highlight
  load            \* load -> where it is, its scope and what it has read

vars == <<version, scope, choices, snapshot, stale, active, timers, load>>

Nothing == [scope |-> FirstScope, version |-> -1]
Snapshots == [scope : Scopes, version : -1 .. MaxVersion]
NoLoad == [pc |-> "idle", data |-> Nothing]

TypeOK ==
  /\ version \in 0 .. MaxVersion
  /\ scope \in Scopes
  /\ choices \in 0 .. MaxChoices
  /\ snapshot \in Snapshots
  /\ stale \in BOOLEAN
  /\ active \subseteq Providers
  /\ timers \in [Providers -> 0 .. MaxTimers]
  /\ load \in [Loads -> [pc : {"idle", "asked", "read"}, data : Snapshots]]

AskedOnMount(s) ==   \* a mutant: load keeps the scope the page began with
  [pc |-> "asked", data |-> [scope |-> FirstScope, version |-> -1]]

\* fetch(`/api/route-graph?scope=${scope}`)
Asked(s) == [pc |-> "asked", data |-> [scope |-> s, version |-> -1]]

\* The page is opened, and its first load begins.
Init ==
  /\ version = 0
  /\ scope = FirstScope
  /\ choices = 0
  /\ snapshot = Nothing
  /\ stale = FALSE
  /\ active = {}
  /\ timers = [p \in Providers |-> 0]
  /\ load = [l \in Loads |-> IF l = 1 THEN Asked(FirstScope) ELSE NoLoad]

Begin(s) == \E l \in Loads : load[l] = NoLoad /\ load' = [load EXCEPT ![l] = Asked(s)]

\* Routes are saved, connections edited and tested, requests logged.
Change ==
  /\ version < MaxVersion
  /\ version' = version + 1
  /\ UNCHANGED <<scope, choices, snapshot, stale, active, timers, load>>

\* The interval, or the refresh button.
Reload ==
  /\ Begin(scope)
  /\ UNCHANGED <<version, scope, choices, snapshot, stale, active, timers>>

\* Both effects run again: load, a new interval, a new event source.
Choose(s) ==
  /\ choices < MaxChoices
  /\ s # scope
  /\ scope' = s
  /\ choices' = choices + 1
  /\ Begin(s)
  /\ UNCHANGED <<version, snapshot, stale, active, timers>>

\* GET /api/route-graph: one query.
Read(l) ==
  /\ load[l].pc = "asked"
  /\ load' = [load EXCEPT ![l].pc = "read", ![l].data.version = version]
  /\ UNCHANGED <<version, scope, choices, snapshot, stale, active, timers>>

Answer(l) ==
  /\ load[l].pc = "read"
  /\ snapshot' = load[l].data
  /\ stale' = FALSE
  /\ load' = [load EXCEPT ![l] = NoLoad]
  /\ UNCHANGED <<version, scope, choices, active, timers>>

Fail(l) ==
  /\ load[l].pc # "idle"
  /\ stale' = TRUE
  /\ load' = [load EXCEPT ![l] = NoLoad]
  /\ UNCHANGED <<version, scope, choices, snapshot, active, timers>>

\* onmessage; a request that found no route names no provider.
Event ==
  /\ stale' = FALSE
  /\ \/ \E p \in Providers : /\ timers[p] < MaxTimers
                             /\ active' = active \cup {p}
                             /\ timers' = [timers EXCEPT ![p] = @ + 1]
     \/ UNCHANGED <<active, timers>>
  /\ Begin(scope)
  /\ UNCHANGED <<version, scope, choices, snapshot>>

\* The timer of any event ends the highlight, a later event's too.
EndHighlight(p) ==
  /\ timers[p] > 0
  /\ timers' = [timers EXCEPT ![p] = @ - 1]
  /\ active' = active \ {p}
  /\ UNCHANGED <<version, scope, choices, snapshot, stale, load>>

\* "event: stale" or onerror.
Pause ==
  /\ stale' = TRUE
  /\ UNCHANGED <<version, scope, choices, snapshot, active, timers, load>>

Next ==
  \/ Change \/ Reload \/ Event \/ Pause
  \/ \E s \in Scopes : Choose(s)
  \/ \E l \in Loads : Read(l) \/ Answer(l) \/ Fail(l)
  \/ \E p \in Providers : EndHighlight(p)

Spec == Init /\ [][Next]_vars

=============================================================================
