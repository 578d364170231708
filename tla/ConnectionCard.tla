--------------------------- MODULE ConnectionCard ---------------------------
(***************************************************************************)
(* A provider's card (apps/web/components/connection-card.tsx): it is      *)
(* switched on and off, tested and probed, one call at a time, while other *)
(* pages do the same and the provider's own form is saved.  The page's     *)
(* data are read anew whenever any of its cards asks for it.               *)
(*                                                                         *)
(* A fetch that fails tells the page nothing of the server: the route may  *)
(* still have the call and do it later, after the data were read anew.     *)
(***************************************************************************)
EXTENDS Integers

CONSTANTS MaxWrites \* bound on the changes of the row, those still adrift included

VARIABLES
  stored,         \* the provider and its latest probe run
  writes,         \* how often they changed, or may yet by a call given up
  view,           \* as the page has read them
  renewing,       \* router.refresh was asked for
  action,         \* the call in flight
  probe,          \* the card's own probe run, 0 when it has none
  adrift,         \* calls the card gave up, and the server still has
  \* history
  missed          \* data that other pages, or calls given up, changed since

vars == <<stored, writes, view, renewing, action, probe, adrift, missed>>

Data == [enabled : BOOLEAN, tested : {"none", "passed", "failed"}, run : 0 .. MaxWrites]
Actions == [pc : {"none", "asked", "done"}, what : {"toggle", "test", "probe"},
            to : BOOLEAN, run : 0 .. MaxWrites]
NoAction == [pc |-> "none", what |-> "toggle", to |-> FALSE, run |-> 0]

TypeOK ==
  /\ {stored, view} \subseteq Data
  /\ writes \in 0 .. MaxWrites
  /\ renewing \in BOOLEAN
  /\ action \in Actions
  /\ probe \in 0 .. MaxWrites
  /\ adrift \subseteq Actions
  /\ missed \subseteq DOMAIN stored

\* A new provider is enabled, not tested and not probed.
Init ==
  /\ stored = [enabled |-> TRUE, tested |-> "none", run |-> 0]
  /\ writes = 0
  /\ view = stored
  /\ renewing = FALSE
  /\ action = NoAction
  /\ probe = 0
  /\ adrift = {} /\ missed = {}

\* act, up to its fetch.
Press(what) ==
  /\ action = NoAction
  /\ what = "probe" => view.enabled
  /\ action' = [pc |-> "asked", what |-> what, run |-> 0,
                to |-> what = "toggle" /\ ~view.enabled]
  /\ UNCHANGED <<stored, writes, view, renewing, probe, adrift, missed>>

Counted == writes < MaxWrites /\ writes' = writes + 1

\* The routes: a test is answered with its result, whatever that is, and a
\* disabled provider is not probed.
Done(what, to) ==
  \/ what = "toggle" /\ stored' = [stored EXCEPT !.enabled = to]
  \/ what = "test" /\ \E s \in {"passed", "failed"} : stored' = [stored EXCEPT !.tested = s]
  \/ /\ what = "probe" /\ stored.enabled /\ stored.run < MaxWrites
     /\ stored' = [stored EXCEPT !.run = @ + 1]

Serve ==
  /\ action.pc = "asked"
  /\ Done(action.what, action.to) /\ Counted
  /\ action' = [action EXCEPT !.pc = "done", !.run = stored'.run]
  /\ UNCHANGED <<view, renewing, probe, adrift, missed>>

Succeeded ==
  /\ action.pc = "done"
  /\ probe' = IF action.what = "probe" THEN action.run ELSE probe
  /\ action' = NoAction
  /\ renewing' = TRUE
  /\ UNCHANGED <<stored, writes, view, adrift, missed>>

FailedOnly ==   \* a mutant: only a success reads the data anew
  /\ action # NoAction
  /\ action' = NoAction
  /\ UNCHANGED <<stored, writes, view, renewing, probe, adrift, missed>>

\* The call is refused, its answer lost, or the server is not done with it.
Failed ==
  /\ action # NoAction
  /\ \/ UNCHANGED <<adrift, writes>>
     \/ action.pc = "asked" /\ adrift' = adrift \cup {action} /\ Counted
  /\ action' = NoAction
  /\ renewing' = TRUE
  /\ UNCHANGED <<stored, view, probe, missed>>

Answers == Serve \/ Succeeded \/ Failed

\* onSaved of the provider's form.
Saved ==
  /\ probe' = 0
  /\ renewing' = TRUE
  /\ UNCHANGED <<stored, writes, view, action, adrift, missed>>

Datum(what) ==
  CASE what = "toggle" -> "enabled" [] what = "test" -> "tested" [] what = "probe" -> "run"

\* The server does a call that the card has given up.
ServeLate ==
  /\ \E late \in adrift :
       /\ Done(late.what, late.to)
       /\ missed' = missed \cup {Datum(late.what)}
       /\ adrift' = adrift \ {late}
  /\ UNCHANGED <<writes, view, renewing, action, probe>>

WriteElsewhere ==
  /\ \E what \in {"toggle", "test", "probe"} :
       /\ Done(what, ~stored.enabled) /\ Counted
       /\ missed' = missed \cup {Datum(what)}
  /\ UNCHANGED <<view, renewing, action, probe, adrift>>

Refresh ==
  /\ view' = stored
  /\ renewing' = FALSE
  /\ missed' = {}
  /\ UNCHANGED <<stored, writes, action, probe, adrift>>

Next ==
  \/ \E what \in {"toggle", "test", "probe"} : Press(what)
  \/ Answers \/ Saved \/ ServeLate \/ WriteElsewhere \/ Refresh

Spec == Init /\ [][Next]_vars

=============================================================================
