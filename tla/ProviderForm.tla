---------------------------- MODULE ProviderForm ----------------------------
(***************************************************************************)
(* The form that edits a provider (apps/web/components/connection-form.tsx *)
(* with a connection): it is filled when the page is opened, edited field  *)
(* by field and sent whole, but for a secret left blank.                   *)
(*                                                                         *)
(* Its inputs are React's uncontrolled ones.  On a page that came whole    *)
(* from the server an input that was not edited shows the new value when   *)
(* the data are read again.  On one that was reached from another page     *)
(* React has set the input's value itself, and it stays, as a select box   *)
(* always does: the form goes on holding what it was opened with.          *)
(***************************************************************************)
CONSTANTS
  Inputs, Boxes,  \* the settings: text and number inputs, select boxes
  Options         \* values a setting may have

VARIABLES
  row,            \* the connection in the database
  page,           \* as the page has read it
  field,          \* what the form holds
  secret,         \* whether a replacement of the secret is typed
  stage,          \* of the call in flight
  posted,         \* the body of the call in flight
  hydrated,       \* the page came whole from the server
  \* history
  opened,         \* the connection when the page was opened
  edited,         \* fields that were edited
  typed           \* a replacement was typed since a save succeeded

vars == <<row, page, field, secret, stage, posted, hydrated, opened, edited, typed>>

Names == Inputs \cup Boxes
Rows == [Names -> Options]

TypeOK ==
  /\ {row, page, field, opened, posted.settings} \subseteq Rows
  /\ {secret, posted.secret, hydrated, typed} \subseteq BOOLEAN
  /\ stage \in {"idle", "sent", "written"}
  /\ edited \subseteq Names

\* The page is opened: from the list of providers, after one is added, or by
\* its address.
Init ==
  /\ row = [f \in Names |-> CHOOSE v \in Options : TRUE]
  /\ page = row /\ field = row /\ opened = row
  /\ secret = FALSE
  /\ stage = "idle"
  /\ posted = [settings |-> row, secret |-> FALSE]
  /\ hydrated \in BOOLEAN
  /\ edited = {}
  /\ typed = FALSE

\* The fields are disabled while a call is in flight.
Edit(f, v) ==
  /\ stage = "idle"
  /\ field' = [field EXCEPT ![f] = v]
  /\ edited' = edited \cup {f}
  /\ UNCHANGED <<row, page, secret, stage, posted, hydrated, opened, typed>>

TypeSecret(blank) ==
  /\ stage = "idle"
  /\ secret' = ~blank
  /\ typed' = TRUE
  /\ UNCHANGED <<row, page, field, stage, posted, hydrated, opened, edited>>

Submit ==
  /\ stage = "idle"
  /\ stage' = "sent"
  /\ posted' = [settings |-> field, secret |-> secret]
  /\ UNCHANGED <<row, page, field, secret, hydrated, opened, edited, typed>>

\* PATCH /api/connections/[id] with every setting.
Write ==
  /\ stage = "sent"
  /\ stage' = "written"
  /\ row' = posted.settings
  /\ UNCHANGED <<page, field, secret, posted, hydrated, opened, edited, typed>>

SucceededWithSecret ==   \* a mutant: the replacement stays in the form
  /\ stage = "written"
  /\ stage' = "idle"
  /\ typed' = FALSE
  /\ UNCHANGED <<row, page, field, secret, posted, hydrated, opened, edited>>

\* "Changes saved": the secret is blank again.
Succeeded ==
  /\ stage = "written"
  /\ stage' = "idle"
  /\ secret' = FALSE
  /\ typed' = FALSE
  /\ UNCHANGED <<row, page, field, posted, hydrated, opened, edited>>

\* The call is refused or its answer lost.
Failed ==
  /\ stage # "idle"
  /\ stage' = "idle"
  /\ UNCHANGED <<row, page, field, secret, posted, hydrated, opened, edited, typed>>

\* Another page saves the provider, or the server does a save that this one has
\* given up.
WriteElsewhere(f, v) ==
  /\ row' = [row EXCEPT ![f] = v]
  /\ UNCHANGED <<page, field, secret, stage, posted, hydrated, opened, edited, typed>>

\* router.refresh, of this card or another.
Refresh ==
  /\ page' = row
  /\ field' = [f \in Names |-> IF hydrated /\ f \in Inputs \ edited THEN row[f] ELSE field[f]]
  /\ UNCHANGED <<row, secret, stage, posted, hydrated, opened, edited, typed>>

Next ==
  \/ \E f \in Names : \E v \in Options : Edit(f, v) \/ WriteElsewhere(f, v)
  \/ \E blank \in BOOLEAN : TypeSecret(blank)
  \/ Submit \/ Write \/ Succeeded \/ Failed \/ Refresh

Spec == Init /\ [][Next]_vars

=============================================================================
