------------------------------ MODULE Serving ------------------------------
(***************************************************************************)
(* What a gateway request makes of a route while the owner of its          *)
(* connection edits it.  The gateway reads the URL with the routes, asks   *)
(* for quota, and reads the key in a later statement; a PATCH of the       *)
(* connection saves a new URL and a new key in two statements; GET         *)
(* /v1/models tells in a query of its own which aliases have a route.      *)
(*                                                                         *)
(* One user, one alias of his default configuration, one route.  A         *)
(* provider is named by the place it is at: its URL and the keys it gave.  *)
(***************************************************************************)
CONSTANTS
  Places,         \* providers the connection may point to
  Keys,           \* the connection's rows in provider_keys
  Edits,          \* PATCHes with a URL and a key that may be in progress at once
  NoPlace

VARIABLES
  owned,          \* the connection is the user's
  setting,        \* "public", "private" or "disabled" (ConnectionWindow)
  modelOn,        \* the route's model is not disabled
  url,
  mode, selected, usable,     \* as in KeyRotation
  secret,         \* key -> the place it is of
  edit,           \* PATCH -> how far it is
  request,        \* the gateway request
  \* history
  whole           \* the URL and the selected key were saved by one PATCH, and nothing else since

vars == <<owned, setting, modelOn, url, mode, selected, usable, secret, edit, request, whole>>

NoEdit == [pc |-> "idle", place |-> NoPlace, alone |-> FALSE]
NoRequest == [pc |-> "idle", url |-> NoPlace, secret |-> NoPlace, listed |-> FALSE,
              changed |-> FALSE, whole |-> FALSE]

Pcs == {"idle", "reserve", "choose", "forward", "unroutable", "keyless"}
Requests ==
  [pc : Pcs, url : Places \cup {NoPlace}, secret : Places \cup {NoPlace},
   listed : BOOLEAN, changed : BOOLEAN, whole : BOOLEAN]
EditStates ==
  [pc : {"idle"}, place : {NoPlace}, alone : {FALSE}] \cup
  [pc : {"key"}, place : Places, alone : BOOLEAN]

TypeOK ==
  /\ owned \in BOOLEAN /\ modelOn \in BOOLEAN /\ whole \in BOOLEAN
  /\ setting \in {"public", "private", "disabled"}
  /\ url \in Places
  /\ mode \in {"selected", "round_robin"}
  /\ selected \in Keys
  /\ usable \subseteq Keys
  /\ secret \in [Keys -> Places]
  /\ edit \in [Edits -> EditStates]
  /\ request \in Requests

\* POST /api/connections, and a request still to come.
Init ==
  /\ owned \in BOOLEAN
  /\ setting \in {"public", "private"}
  /\ modelOn = TRUE
  /\ url \in Places
  /\ mode = "selected"
  /\ selected \in Keys
  /\ usable = Keys
  /\ secret = [k \in Keys |-> url]
  /\ edit = [e \in Edits |-> NoEdit]
  /\ request = NoRequest
  /\ whole = TRUE

-----------------------------------------------------------------------------
\* The owner.

\* Requests under way meet a change of the settings; where it touches what a
\* PATCH saves together, the pair is not one PATCH's any more.
Changes == request' = [request EXCEPT !.changed = request.pc # "idle"]
Touches ==
  /\ request' = [request EXCEPT !.changed = request.pc # "idle", !.whole = FALSE]
  /\ whole' = FALSE

NobodyAlone == [e \in Edits |-> [edit[e] EXCEPT !.alone = FALSE]]

SetConnection(s) ==
  /\ setting' = s
  /\ Changes
  /\ UNCHANGED <<owned, modelOn, url, mode, selected, usable, secret, edit, whole>>

SetModel ==
  /\ modelOn' = ~modelOn
  /\ Changes
  /\ UNCHANGED <<owned, setting, url, mode, selected, usable, secret, edit, whole>>

SetKey(k) ==
  /\ usable' = IF k \in usable THEN usable \ {k} ELSE usable \cup {k}
  /\ Changes
  /\ UNCHANGED <<owned, setting, modelOn, url, mode, selected, secret, edit, whole>>

SelectKey(m, k) ==
  /\ k \in usable
  /\ mode' = m /\ selected' = k
  /\ Touches
  /\ edit' = NobodyAlone
  /\ UNCHANGED <<owned, setting, modelOn, url, usable, secret>>

\* PATCH of a key, or of a connection's URL alone.
ReplaceKey(k, p) ==
  /\ secret' = [secret EXCEPT ![k] = p]
  /\ Touches
  /\ edit' = NobodyAlone
  /\ UNCHANGED <<owned, setting, modelOn, url, mode, selected, usable>>

Move(p) ==
  /\ url' = p
  /\ Touches
  /\ edit' = NobodyAlone
  /\ UNCHANGED <<owned, setting, modelOn, mode, selected, usable, secret>>

\* PATCH of the URL and the key: the first statement.
EditUrl(e, p) ==
  /\ edit[e].pc = "idle"
  /\ url' = p
  /\ Touches
  /\ edit' = [NobodyAlone EXCEPT ![e] =
                [pc |-> "key", place |-> p, alone |-> \A i \in Edits : edit[i].pc = "idle"]]
  /\ UNCHANGED <<owned, setting, modelOn, mode, selected, usable, secret>>

EditFirstKey(e) ==   \* a mutant: the key saved is the connection's first
  /\ edit[e].pc = "key"
  /\ secret' = [secret EXCEPT ![CHOOSE k \in Keys : TRUE] = edit[e].place]
  /\ whole' = edit[e].alone
  /\ edit' = [NobodyAlone EXCEPT ![e] = NoEdit]
  /\ request' = [request EXCEPT !.changed = request.pc # "idle", !.whole = FALSE]
  /\ UNCHANGED <<owned, setting, modelOn, url, mode, selected, usable>>

\* The second: the key that is selected by then.
EditKey(e) ==
  /\ edit[e].pc = "key"
  /\ secret' = [secret EXCEPT ![selected] = edit[e].place]
  /\ whole' = edit[e].alone
  /\ edit' = [NobodyAlone EXCEPT ![e] = NoEdit]
  /\ request' = [request EXCEPT !.changed = request.pc # "idle", !.whole = FALSE]
  /\ UNCHANGED <<owned, setting, modelOn, url, mode, selected, usable>>

\* The control plane dies or the statement fails: the URL stays.
EditBreaks(e) ==
  /\ edit[e].pc = "key"
  /\ edit' = [edit EXCEPT ![e] = NoEdit]
  /\ UNCHANGED <<owned, setting, modelOn, url, mode, selected, usable, secret, request, whole>>

-----------------------------------------------------------------------------
\* The gateway.

Enabled == setting # "disabled"

\* LoadRoutes.
Routed == Enabled /\ (owned \/ setting = "public") /\ modelOn

ListedWithoutKeys == Enabled /\ (owned \/ setting = "public") /\ modelOn   \* a mutant

\* LoadModels.
Listed ==
  /\ Enabled
  /\ owned \/ setting = "public"
  /\ \E k \in usable : mode = "round_robin" \/ k = selected
  /\ modelOn

LoadRoutes ==
  /\ request.pc = "idle"
  /\ request' = [pc |-> IF Routed THEN "reserve" ELSE "unroutable",
                 url |-> IF Routed THEN url ELSE NoPlace, secret |-> NoPlace,
                 listed |-> Listed, changed |-> FALSE, whole |-> whole]
  /\ UNCHANGED <<owned, setting, modelOn, url, mode, selected, usable, secret, edit, whole>>

\* reserve_connection_requests finds the connection accessible; a spent quota
\* ends the try as well.
Reserve ==
  /\ request.pc = "reserve"
  /\ \/ /\ setting = "public" \/ (setting = "private" /\ owned)
        /\ request' = [request EXCEPT !.pc = "choose"]
     \/ /\ ~(setting = "private" /\ owned)
        /\ request' = NoRequest
  /\ UNCHANGED <<owned, setting, modelOn, url, mode, selected, usable, secret, edit, whole>>

\* select_provider_key; which of the eligible keys, KeyRotation tells.
SelectProviderKey ==
  /\ request.pc = "choose"
  /\ LET eligible == {k \in usable : Enabled /\ (mode = "round_robin" \/ k = selected)} IN
     \/ eligible = {} /\ request' = [request EXCEPT !.pc = "keyless"]
     \/ \E k \in eligible :
          request' = [request EXCEPT !.pc = "forward", !.secret = secret[k],
                                     !.whole = @ /\ mode = "selected"]
  /\ UNCHANGED <<owned, setting, modelOn, url, mode, selected, usable, secret, edit, whole>>

\* The request is answered, whatever became of it, and another comes.
Answer ==
  /\ request.pc \in {"forward", "unroutable", "keyless"}
  /\ request' = NoRequest
  /\ UNCHANGED <<owned, setting, modelOn, url, mode, selected, usable, secret, edit, whole>>

Next ==
  \/ \E s \in {"public", "private", "disabled"} : SetConnection(s)
  \/ SetModel
  \/ \E k \in Keys : SetKey(k)
  \/ \E m \in {"selected", "round_robin"} : \E k \in Keys : SelectKey(m, k)
  \/ \E k \in Keys : \E p \in Places : ReplaceKey(k, p)
  \/ \E p \in Places : Move(p)
  \/ \E e \in Edits : EditKey(e) \/ EditBreaks(e) \/ \E p \in Places : EditUrl(e, p)
  \/ LoadRoutes \/ Reserve \/ SelectProviderKey \/ Answer

Spec == Init /\ [][Next]_vars

-----------------------------------------------------------------------------

(***************************************************************************)
(* A key is sent to the URL it was saved with, but by a request that an    *)
(* edit overtakes, or after an edit that broke, met another or touched one *)
(* of the two alone.  (connections/[id]/route.ts 27-43, server.go 60-108)  *)
(***************************************************************************)
KeysReachTheirUrl ==
  request.pc = "forward" /\ request.whole => request.secret = request.url

(***************************************************************************)
(* While nobody changes the settings, a request for an alias that is       *)
(* listed finds a route and a key, and one for an alias that is not listed *)
(* does not: "LoadModels uses the same ownership and visibility rules as   *)
(* LoadRoutes", and the rules of select_provider_key.  (proxy.go 17-37,    *)
(* 95-117)                                                                 *)
(***************************************************************************)
ListedIsServed ==
  /\ request.pc \in {"unroutable", "keyless"} => request.changed \/ ~request.listed
  /\ request.pc = "forward" => request.changed \/ request.listed

(***************************************************************************)
(* What makes these inductive.  A pair that one PATCH saved is one         *)
(* provider's; a PATCH that is alone between its statements has the URL    *)
(* that the connection has; and what a request has read is still so, the   *)
(* pair while it is whole, the settings while they are not changed.        *)
(***************************************************************************)
PairsMatch ==
  /\ whole => secret[selected] = url
  /\ \A e \in Edits :
       edit[e].pc = "key" /\ edit[e].alone =>
         edit[e].place = url /\ \A i \in Edits \ {e} : edit[i].pc = "idle"
  /\ request.pc \in {"reserve", "choose"} /\ request.whole => whole /\ request.url = url

SettingsMatch ==
  request.pc \in {"reserve", "choose"} /\ ~request.changed => Routed /\ request.listed = Listed

IInv == TypeOK /\ PairsMatch /\ SettingsMatch /\ KeysReachTheirUrl /\ ListedIsServed

=============================================================================
