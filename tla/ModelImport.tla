----------------------------- MODULE ModelImport -----------------------------
(***************************************************************************)
(* The import of a provider's models as its page guides it                 *)
(* (apps/web/components/provider-models.tsx): a list is previewed with a   *)
(* key, models are chosen in it and imported with the key.  The page has   *)
(* one call in flight at most, a save of a model included, yet the check   *)
(* boxes of the preview stay enabled meanwhile.                            *)
(***************************************************************************)
CONSTANTS
  Keys,           \* the provider's enabled keys
  SelectedKey,    \* selected_provider_key_id
  Models          \* upstream model ids

VARIABLES
  keyId,          \* "Import using key"
  preview,        \* the models listed
  selected,       \* those checked
  busy,           \* pending
  request,        \* the key and the models of the call in flight
  \* history
  lastListed      \* key -> the models its last preview listed

vars == <<keyId, preview, selected, busy, request, lastListed>>

TypeOK ==
  /\ keyId \in Keys
  /\ preview \subseteq Models /\ selected \subseteq Models
  /\ busy \in {"", "preview", "import", "save"}
  /\ request \in [key : Keys, ids : SUBSET Models]
  /\ lastListed \in [Keys -> SUBSET Models]

Init ==
  /\ keyId = SelectedKey
  /\ preview = {} /\ selected = {}
  /\ busy = ""
  /\ request = [key |-> keyId, ids |-> {}]
  /\ lastListed = [k \in Keys |-> {}]

ChooseKeyOnly(k) ==   \* a mutant: the preview of the other key stays
  /\ busy = ""
  /\ keyId' = k
  /\ UNCHANGED <<preview, selected, busy, request, lastListed>>

\* Disabled while a call is in flight.
ChooseKey(k) ==
  /\ busy = ""
  /\ keyId' = k
  /\ preview' = {} /\ selected' = {}
  /\ UNCHANGED <<busy, request, lastListed>>

\* A box of the list, or "Select all".
Check ==
  /\ preview # {}
  /\ \/ \E m \in preview : selected' \in {selected \cup {m}, selected \ {m}}
     \/ selected' \in {preview, {}}
  /\ UNCHANGED <<keyId, preview, busy, request, lastListed>>

Ask(what, ids) ==
  /\ busy = ""
  /\ busy' = what
  /\ request' = [key |-> keyId, ids |-> ids]
  /\ UNCHANGED <<keyId, preview, selected, lastListed>>

Preview == Ask("preview", {})
Import == preview # {} /\ selected # {} /\ Ask("import", selected)
SaveModel == Ask("save", {})

Previewed(models) ==
  /\ busy = "preview"
  /\ busy' = ""
  /\ preview' = models /\ selected' = models
  /\ lastListed' = [lastListed EXCEPT ![request.key] = models]
  /\ UNCHANGED <<keyId, request>>

\* The models chosen stay chosen, under no list.
Imported ==
  /\ busy = "import"
  /\ busy' = ""
  /\ preview' = {}
  /\ UNCHANGED <<keyId, selected, request, lastListed>>

\* A model is saved, or any call fails: the list and the choice stay.
Ended == busy # "" /\ busy' = "" /\ UNCHANGED <<keyId, preview, selected, request, lastListed>>

Answers == (\E models \in SUBSET Models : Previewed(models)) \/ Imported \/ Ended

Next ==
  \/ \E k \in Keys : ChooseKey(k)
  \/ Check \/ Preview \/ Import \/ SaveModel \/ Answers

Spec == Init /\ [][Next]_vars

=============================================================================
