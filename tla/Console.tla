------------------------------- MODULE Console -------------------------------
(***************************************************************************)
(* The console (apps/web), as a browser tab has it open: one of its live   *)
(* parts, each a module of its own, with the server behind it.  The parts  *)
(* share no state in the browser; leaving one drops what it holds.         *)
(***************************************************************************)
EXTENDS Integers

CONSTANTS
  Polls, TicksPerMs, Limit, Horizon,                                \* ActivityStream
  Scopes, FirstScope, Providers, Loads, MaxVersion, MaxChoices, MaxTimers, \* RouteGraph
  AllKeys, OldKeys, NoKey,                                          \* ApiAccess
  Keys, SelectedKey, Models,                                        \* ModelImport
  Numbers, Selects,                                                 \* ModelForm
  Inputs, Boxes, Options,                                           \* ProviderForm
  PageKeys, MaxWrites                                               \* ConnectionCard, ProviderKeys

\* There are fewer rows to a millisecond than a poll of the stream reads:
\* otherwise it would read the same ones for ever.
ASSUME ConsoleAssumption ==
  /\ {TicksPerMs, Limit, Horizon, MaxVersion, MaxChoices, MaxTimers, MaxWrites} \subseteq Nat
  /\ TicksPerMs \in 1 .. Limit
  /\ FirstScope \in Scopes
  /\ OldKeys \subseteq AllKeys /\ NoKey \notin AllKeys \cup PageKeys
  /\ PageKeys # {}
  /\ SelectedKey \in Keys
  /\ Numbers \cap Selects = {}
  /\ Inputs \cap Boxes = {} /\ Options # {}

VARIABLES
  part,
  clock, inserting, visible, cursor, stopped, batch, sent, late,
  version, scope, choices, snapshot, stale, active, timers, load,
  apiKeys, listed, refreshing, pending, secret, testKey, testStatus, alert, call, excused,
  keyId, preview, selected, busy, request, lastListed,
  overrides, model, form, saving, body, touched,
  row, page, field, typedSecret, stage, posted, hydrated, opened, edited, typed,
  stored, writes, view, renewing, action, probe, adrift, missed,
  keyRows, keyWrites, keyView, awaiting, send, choice, strays, unseen, picked, dropped

Stream == INSTANCE ActivityStream
Graph == INSTANCE RouteGraph
Access == INSTANCE ApiAccess WITH Keys <- AllKeys
Import == INSTANCE ModelImport
Form == INSTANCE ModelForm
Provider == INSTANCE ProviderForm WITH secret <- typedSecret
Card == INSTANCE ConnectionCard
ProviderKeys == INSTANCE ProviderKeys WITH Keys <- PageKeys

streamVars == <<clock, inserting, visible, cursor, stopped, batch, sent, late>>
graphVars == <<version, scope, choices, snapshot, stale, active, timers, load>>
accessVars == <<apiKeys, listed, refreshing, pending, secret, testKey, testStatus, alert, call, excused>>
importVars == <<keyId, preview, selected, busy, request, lastListed>>
formVars == <<overrides, model, form, saving, body, touched>>
providerVars == <<row, page, field, typedSecret, stage, posted, hydrated, opened, edited, typed>>
cardVars == <<stored, writes, view, renewing, action, probe, adrift, missed>>
keysVars == <<keyRows, keyWrites, keyView, awaiting, send, choice, strays, unseen, picked, dropped>>
vars == <<part, streamVars, graphVars, accessVars, importVars, formVars, providerVars, cardVars, keysVars>>

TypeOK ==
  /\ part \in {"stream", "graph", "access", "import", "form", "provider", "card", "keys"}
  /\ Stream!TypeOK /\ Graph!TypeOK /\ Access!TypeOK /\ Import!TypeOK /\ Form!TypeOK /\ Provider!TypeOK
  /\ Card!TypeOK /\ ProviderKeys!TypeOK

Init ==
  /\ part \in {"stream", "graph", "access", "import", "form", "provider", "card", "keys"}
  /\ Stream!Init /\ Graph!Init /\ Access!Init /\ Import!Init /\ Form!Init /\ Provider!Init
  /\ Card!Init /\ ProviderKeys!Init

Next ==
  /\ UNCHANGED part
  /\ \/ part = "stream" /\ Stream!Next /\ UNCHANGED <<graphVars, accessVars, importVars, formVars, providerVars, cardVars, keysVars>>
     \/ part = "graph" /\ Graph!Next /\ UNCHANGED <<streamVars, accessVars, importVars, formVars, providerVars, cardVars, keysVars>>
     \/ part = "access" /\ Access!Next /\ UNCHANGED <<streamVars, graphVars, importVars, formVars, providerVars, cardVars, keysVars>>
     \/ part = "import" /\ Import!Next /\ UNCHANGED <<streamVars, graphVars, accessVars, formVars, providerVars, cardVars, keysVars>>
     \/ part = "form" /\ Form!Next /\ UNCHANGED <<streamVars, graphVars, accessVars, importVars, providerVars, cardVars, keysVars>>
     \/ part = "provider" /\ Provider!Next /\ UNCHANGED <<streamVars, graphVars, accessVars, importVars, formVars, cardVars, keysVars>>
     \/ part = "card" /\ Card!Next /\ UNCHANGED <<streamVars, graphVars, accessVars, importVars, formVars, providerVars, keysVars>>
     \/ part = "keys" /\ ProviderKeys!Next /\ UNCHANGED <<streamVars, graphVars, accessVars, importVars, formVars, providerVars, cardVars>>

Spec == Init /\ [][Next]_vars

\* The fairness of the part that is open: timers run out, the server answers
\* or the call fails, and not every load of the graph fails.
FairSpec ==
  /\ Spec
  /\ WF_graphVars(part = "graph" /\ Graph!Reload)
  /\ \A l \in Loads : /\ SF_graphVars(part = "graph" /\ Graph!Read(l))
                      /\ SF_graphVars(part = "graph" /\ Graph!Answer(l))
  /\ \A p \in Providers : WF_graphVars(part = "graph" /\ Graph!EndHighlight(p))
  /\ WF_accessVars(part = "access" /\ Access!Serves)
  /\ WF_accessVars(part = "access" /\ Access!Answers)
  /\ WF_importVars(part = "import" /\ Import!Answers)
  /\ WF_cardVars(part = "card" /\ Card!Answers)
  /\ WF_keysVars(part = "keys" /\ ProviderKeys!Answers)

-----------------------------------------------------------------------------

(***************************************************************************)
(* The activity stream's cursor passes a row only if the row was sent,     *)
(* though polls overlap and move the cursor back: all that is ever missed  *)
(* is a row that became visible after one of a later millisecond.          *)
(* (events/route.ts 16-36)                                                 *)
(***************************************************************************)
NothingPassed == \A t \in visible \ late : t > cursor \/ t \in sent

(***************************************************************************)
(* In the end the graph shows the scope that is chosen as it is in the     *)
(* database, whatever answers came late and with no event at all, and no   *)
(* provider stays highlighted.  ("a server-sent request activity stream    *)
(* with polling fallback", README.md:23; route-graph.tsx 33-71)            *)
(***************************************************************************)
GraphSettles ==
  /\ part = "graph" => <>[](snapshot = [scope |-> scope, version |-> version])
  /\ \A p \in Providers : p \in active ~> p \notin active

(***************************************************************************)
(* The secret of a new key leaves the page only when it is dismissed or    *)
(* its key revoked, and no other takes its place: "It will not be shown    *)
(* again".  (api-access.tsx 57-80, 236-268)                                *)
(***************************************************************************)
SecretsStay ==
  [][secret # NoKey /\ secret' # secret =>
       secret' = NoKey /\ (Access!Dismiss \/ apiKeys[secret] = "revoked")]_vars

(***************************************************************************)
(* At rest, the secret on the page is that of an active key, unless        *)
(* another page revoked it, or its revocation failed for the page, with    *)
(* the answer lost or the fetch given up, and not for the server, which    *)
(* has then revoked what the page says it could not.                       *)
(* (api-access.tsx 119-136, keys/[id]/route.ts 12-17)                      *)
(***************************************************************************)
ShownSecretsWork == pending = "" /\ secret # NoKey => secret \in Access!Active \cup excused

(***************************************************************************)
(* What is imported was listed by the last preview made with the same key, *)
(* whatever was checked while calls were in flight.                        *)
(* (provider-models.tsx 176-198, 224-290)                                  *)
(***************************************************************************)
ImportsWerePreviewed == busy = "import" => request.ids \subseteq lastListed[request.key]

(***************************************************************************)
(* A save sends, for what was not edited, what the page has read, with     *)
(* these exceptions: a model's number that is known to be unknown becomes  *)
(* one that is not given; the selected key gives way to another for good   *)
(* once it is disabled, even if it is enabled again; and a provider's      *)
(* visibility, or any setting of one whose page was reached from another   *)
(* page, is sent as it was when the page was opened, which undoes what     *)
(* others have saved since.  And a secret is replaced only by one typed    *)
(* since the last save that succeeded: "Leave the key blank to keep the    *)
(* saved secret".  (provider-models.tsx 22-58, 369-374;                    *)
(* connection-form.tsx 26-64, 70-124; provider-keys.tsx 59-106)            *)
(***************************************************************************)
SavesKeepTheRest ==
  /\ [][Form!Save => \A f \in Form!Fields \ touched :
          body'[f] # model[f] => f \in Numbers /\ model[f] = "null"]_vars
  /\ [][Provider!Submit =>
          /\ \A f \in Provider!Names \ edited :
               posted'.settings[f] # page[f] =>
                 (f \in Boxes \/ ~hydrated) /\ posted'.settings[f] = opened[f]
          /\ posted'.secret => typed]_vars
  /\ [][ProviderKeys!SaveSelection =>
          /\ send'.mode # keyView.mode => "mode" \in picked
          /\ send'.key # keyView.selected => "key" \in picked \/ dropped]_vars

(***************************************************************************)
(* A card that has no call to wait for, and whose page has no data to read *)
(* anew, shows every datum as it is stored, unless it was changed since by *)
(* another page, by a call that a card had given up and the server did all *)
(* the same, or by a call of the keys' card that failed, as a key test     *)
(* does; and the card that has run a probe may show that one for a later   *)
(* one.  (connection-card.tsx 43-98, provider-keys.tsx 27-47)              *)
(***************************************************************************)
CardsShowWhatIsStored ==
  /\ action.pc = "none" /\ ~renewing =>
       probe <= stored.run /\ \A f \in DOMAIN stored \ missed : view[f] = stored[f]
  /\ send.pc = "none" /\ ~awaiting =>
       \A f \in DOMAIN keyRows \ unseen : keyView[f] = keyRows[f]

\* The part that is open waits for an answer, with its buttons disabled.
Waiting == pending # "" \/ busy # "" \/ action.pc # "none" \/ send.pc # "none"

(***************************************************************************)
(* A page that waits for an answer comes back, whether the call is done,   *)
(* refused or lost.  (api-access.tsx 77-79, 98-101, 114-116, 133-135,      *)
(* provider-models.tsx 195-197, 210-212, connection-card.tsx 95-97,        *)
(* provider-keys.tsx 44-46)                                                *)
(***************************************************************************)
PagesComeBack == Waiting ~> ~Waiting

=============================================================================
