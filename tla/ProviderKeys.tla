---------------------------- MODULE ProviderKeys ----------------------------
(***************************************************************************)
(* A provider's keys on its page (apps/web/components/provider-keys.tsx):  *)
(* they are tested, switched on and off, given new secrets and selected,   *)
(* one call at a time, while other pages do the same.  The page's data are *)
(* read anew whenever any of its cards asks for it; this one does so after *)
(* a success only.  A call whose fetch fails may still be done later.      *)
(***************************************************************************)
EXTENDS Integers

CONSTANTS
  Keys,
  NoKey,          \* no option of a select box is chosen
  MaxWrites       \* bound on the changes of the rows, those still adrift included

VARIABLES
  keyRows,        \* the keys and their selection
  keyWrites,      \* how often they changed, or may yet by a call given up
  keyView,        \* as the page has read them
  awaiting,       \* router.refresh was asked for
  send,           \* the call in flight
  choice,         \* what the form of the selection holds
  strays,         \* calls the page gave up, and the server still has
  \* history
  unseen,         \* data that other pages, or calls that failed, changed since
  picked,         \* fields of the form the user has chosen
  dropped         \* the selected key was no option of the form

vars == <<keyRows, keyWrites, keyView, awaiting, send, choice, strays, unseen, picked,
          dropped>>

Statuses == {"none", "passed", "failed"}
Modes == {"selected", "round_robin"}

Data == [mode : Modes, selected : Keys, usable : SUBSET Keys, results : [Keys -> Statuses]]
Sends == [pc : {"none", "asked", "done", "failed"}, key : Keys \cup {NoKey}, mode : Modes,
          to : BOOLEAN, what : {"", "results", "usable", "secret", "selected"}]
NoSend == [pc |-> "none", what |-> "", key |-> NoKey, mode |-> "selected", to |-> FALSE]

TypeOK ==
  /\ {keyRows, keyView} \subseteq Data
  /\ keyWrites \in 0 .. MaxWrites
  /\ {awaiting, dropped} \subseteq BOOLEAN
  /\ send \in Sends
  /\ choice \in [mode : Modes, key : Keys \cup {NoKey}]
  /\ strays \subseteq Sends
  /\ unseen \subseteq DOMAIN keyRows
  /\ picked \subseteq DOMAIN choice

\* The keys have been added; none is tested.
Init ==
  /\ keyRows = [mode |-> "selected", selected |-> CHOOSE k \in Keys : TRUE, usable |-> Keys,
                results |-> [k \in Keys |-> "none"]]
  /\ keyWrites = 0
  /\ keyView = keyRows
  /\ awaiting = FALSE
  /\ send = NoSend
  /\ choice = [mode |-> keyRows.mode, key |-> keyRows.selected]
  /\ strays = {} /\ unseen = {} /\ picked = {} /\ dropped = FALSE

\* send, up to its fetch.
Send(call) ==
  /\ send = NoSend
  /\ send' = call
  /\ UNCHANGED <<keyRows, keyWrites, keyView, awaiting, choice, strays, unseen, picked, dropped>>

Call(what, k) == [NoSend EXCEPT !.pc = "asked", !.what = what, !.key = k]

TestKey(k) == k \in keyView.usable /\ Send(Call("results", k))
SwitchKey(k) == Send([Call("usable", k) EXCEPT !.to = k \notin keyView.usable])
\* With a new secret; a new name alone changes nothing here.
EditKey(k) == Send(Call("secret", k))

SaveSelection ==
  /\ choice.key # NoKey
  /\ Send([Call("selected", choice.key) EXCEPT !.mode = choice.mode])

\* The user chooses another option; the form is disabled during a call.
Pick(f, v) ==
  /\ send = NoSend
  /\ choice' = [choice EXCEPT ![f] = v]
  /\ picked' = picked \cup {f}
  /\ UNCHANGED <<keyRows, keyWrites, keyView, awaiting, send, strays, unseen, dropped>>

-----------------------------------------------------------------------------

Counted == keyWrites < MaxWrites /\ keyWrites' = keyWrites + 1

\* The routes.  A test that fails is written, and answered 502.
Done(c, pc) ==
  LET k == c.key
  IN  \/ /\ c.what = "results"
         /\ keyRows' = [keyRows EXCEPT !.results[k] = IF pc = "done" THEN "passed" ELSE "failed"]
      \/ /\ c.what = "usable" /\ pc = "done"
         /\ keyRows' = [keyRows EXCEPT !.usable = IF c.to THEN @ \cup {k} ELSE @ \ {k}]
      \/ /\ c.what = "secret" /\ pc = "done"
         /\ keyRows' = [keyRows EXCEPT !.results[k] = "none"]
      \/ /\ c.what = "selected" /\ pc = "done" /\ k \in keyRows.usable
         /\ keyRows' = [keyRows EXCEPT !.selected = k, !.mode = c.mode]

Serve ==
  /\ send.pc = "asked"
  /\ \E pc \in {"done", "failed"} : Done(send, pc) /\ send' = [send EXCEPT !.pc = pc]
  /\ Counted
  /\ UNCHANGED <<keyView, awaiting, choice, strays, unseen, picked, dropped>>

Succeeded ==
  /\ send.pc = "done"
  /\ send' = NoSend
  /\ awaiting' = TRUE
  /\ UNCHANGED <<keyRows, keyWrites, keyView, choice, strays, unseen, picked, dropped>>

Written(what) ==
  CASE what = "secret" -> {"results"} [] what = "selected" -> {"selected", "mode"} [] OTHER -> {what}

\* The call is refused, its answer lost, or the server is not done with it: the
\* page stays as it is.
Failed ==
  /\ send # NoSend
  /\ IF send.pc = "asked"
     THEN /\ UNCHANGED unseen
          /\ \/ UNCHANGED <<strays, keyWrites>>
             \/ strays' = strays \cup {send} /\ Counted
     ELSE unseen' = unseen \cup Written(send.what) /\ UNCHANGED <<strays, keyWrites>>
  /\ send' = NoSend
  /\ UNCHANGED <<keyRows, keyView, awaiting, choice, picked, dropped>>

Answers == Serve \/ Succeeded \/ Failed

-----------------------------------------------------------------------------

\* The server does a call that the page has given up.
ServeLate ==
  /\ \E late \in strays, pc \in {"done", "failed"} :
       /\ Done(late, pc)
       /\ unseen' = unseen \cup Written(late.what)
       /\ strays' = strays \ {late}
  /\ UNCHANGED <<keyWrites, keyView, awaiting, send, choice, picked, dropped>>

Changes(data, what) == keyRows' = data /\ Counted /\ unseen' = unseen \cup Written(what)

WriteElsewhere ==
  /\ \E k \in Keys :
       \/ \E s \in Statuses : Changes([keyRows EXCEPT !.results[k] = s], "results")
       \/ Changes([keyRows EXCEPT !.usable = IF k \in @ THEN @ \ {k} ELSE @ \cup {k}], "usable")
       \/ k \in keyRows.usable /\ \E m \in Modes :
            Changes([keyRows EXCEPT !.selected = k, !.mode = m], "selected")
  /\ UNCHANGED <<keyView, awaiting, send, choice, strays, picked, dropped>>

RefreshUnkeyed ==   \* a mutant: the select boxes are not keyed by what is stored
  /\ keyView' = keyRows
  /\ awaiting' = FALSE
  /\ unseen' = {}
  /\ UNCHANGED <<keyRows, keyWrites, send, choice, strays, picked, dropped>>

\* The data are read.  A select box is made anew when what is stored of it has
\* changed; a key that is no option any more gives way to one that is.
Refresh ==
  /\ keyView' = keyRows
  /\ awaiting' = FALSE
  /\ unseen' = {}
  /\ LET anew == IF keyView'.selected = keyView.selected THEN {} ELSE {"key"}
         reset == anew \cup (IF keyView'.mode = keyView.mode THEN {} ELSE {"mode"})
         wanted == IF anew = {} THEN choice.key ELSE keyView'.selected
         options == keyView'.usable
     IN
     /\ picked' = picked \ reset
     /\ dropped' = (wanted \notin options \/ (dropped /\ anew = {}))
     /\ \E key \in IF wanted \in options THEN {wanted} ELSE IF options = {} THEN {NoKey} ELSE options :
          choice' = [mode |-> IF "mode" \in reset THEN keyView'.mode ELSE choice.mode, key |-> key]
  /\ UNCHANGED <<keyRows, keyWrites, send, strays>>

Next ==
  \/ \E k \in Keys : TestKey(k) \/ SwitchKey(k) \/ EditKey(k)
  \/ SaveSelection \/ Answers \/ ServeLate \/ WriteElsewhere \/ Refresh
  \/ \E m \in Modes : Pick("mode", m)
  \/ \E k \in keyView.usable : Pick("key", k)

Spec == Init /\ [][Next]_vars

=============================================================================
