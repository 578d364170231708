------------------------------ MODULE ModelForm ------------------------------
(***************************************************************************)
(* The form of a model's settings (ModelEditor in                          *)
(* apps/web/components/provider-models.tsx): it is filled from the page's  *)
(* copy of the model, edited field by field and saved as a whole.  Other   *)
(* users save the model too, and the cards of the page refresh its data at *)
(* any moment, while the form is edited or a save is in flight.            *)
(***************************************************************************)
CONSTANTS
  Numbers, Selects \* the settings: number fields, select boxes

VARIABLES
  overrides,      \* the model's settings in the database
  model,          \* as the page has read them
  form,           \* what the form holds
  saving,         \* pending
  body,           \* of the save in flight
  \* history
  touched         \* fields edited since the form was filled

vars == <<overrides, model, form, saving, body, touched>>

Fields == Numbers \cup Selects

\* An override is absent, null ("unknown") or a value.
Values == {"absent", "null", "value"}
Settings == [Fields -> Values]

TypeOK ==
  /\ {overrides, model, form, body} \subseteq Settings
  /\ saving \in BOOLEAN
  /\ touched \subseteq Fields

\* What the form shows of an override, and sends back: a number field is
\* blank when there is none and when it is null, and blank means none.
Shown(settings) ==
  [f \in Fields |-> IF f \in Numbers /\ settings[f] = "null" THEN "absent" ELSE settings[f]]

Init ==
  /\ overrides = [f \in Fields |-> "absent"]
  /\ model = overrides
  /\ form = Shown(model) /\ touched = {}
  /\ saving = FALSE
  /\ body = form

Fill(settings) == form' = Shown(settings) /\ touched' = {}

\* The fields are disabled while a call is in flight.
Edit(f, v) ==
  /\ ~saving
  /\ ~(f \in Numbers /\ v = "null")
  /\ form' = [form EXCEPT ![f] = v]
  /\ touched' = touched \cup {f}
  /\ UNCHANGED <<overrides, model, saving, body>>

\* A search hides the model and shows it again: its form is filled anew.
Search == Fill(model) /\ UNCHANGED <<overrides, model, saving, body>>

Save ==
  /\ ~saving
  /\ saving' = TRUE
  /\ body' = form
  /\ UNCHANGED <<overrides, model, form, touched>>

\* PATCH /api/providers/[id]/models/[modelId] replaces the overrides, whether
\* or not its answer arrives.
Saved ==
  /\ saving
  /\ saving' = FALSE
  /\ overrides' = body
  /\ UNCHANGED <<model, form, body, touched>>

\* The save is refused.
Failed == saving /\ saving' = FALSE /\ UNCHANGED <<overrides, model, form, body, touched>>

\* Another page saves the model, or the server does a save that this one has
\* given up.
SaveElsewhere(f, v) ==
  /\ overrides' = [overrides EXCEPT ![f] = v]
  /\ UNCHANGED <<model, form, saving, body, touched>>

RefreshUnkeyed ==   \* a mutant: the form is not keyed by the model
  /\ model' = overrides
  /\ UNCHANGED <<overrides, form, saving, body, touched>>

\* router.refresh, of this card or another; a model that changed is given a
\* new form.
Refresh ==
  /\ model' = overrides
  /\ IF model' = model THEN UNCHANGED <<form, touched>> ELSE Fill(model')
  /\ UNCHANGED <<overrides, saving, body>>

Next ==
  \/ \E f \in Fields : \E v \in Values : Edit(f, v) \/ SaveElsewhere(f, v)
  \/ Search \/ Save \/ Saved \/ Failed \/ Refresh

Spec == Init /\ [][Next]_vars

=============================================================================
