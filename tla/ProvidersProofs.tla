-------------------------- MODULE ProvidersProofs --------------------------
(***************************************************************************)
(* Theorems about Providers, for any number of places, keys, edits, tests, *)
(* requests and capabilities: of what requests make of an owner's edits,   *)
(* of the results of tests, of the rotation of keys, and of probes.        *)
(*                                                                         *)
(* Each part has an inductive invariant of its own, and PartsBehave lets   *)
(* it be proved of the part by itself.                                     *)
(***************************************************************************)
EXTENDS Providers, FiniteSetTheorems, TLAPS

\* Each part behaves as its module says, whatever becomes of the others.
LEMMA PartsBehave == ProvidersSpec => Spec /\ Results!Spec /\ Rotation!Spec /\ Probing!Spec
<1>1. ProvidersInit => Init /\ Results!Init /\ Rotation!Init /\ Probing!Init
  BY DEF ProvidersInit
<1>2. [ProvidersNext]_providersVars => [Next]_vars
  BY Zenon DEF ProvidersNext, providersVars
<1>3. [ProvidersNext]_providersVars => [Results!Next]_(Results!vars)
  BY Zenon DEF ProvidersNext, providersVars, resultsVars, Results!vars
<1>4. [ProvidersNext]_providersVars => [Rotation!Next]_(Rotation!vars)
  BY Zenon DEF ProvidersNext, providersVars, rotationVars, Rotation!vars
<1>5. [ProvidersNext]_providersVars => [Probing!Next]_(Probing!vars)
  BY Zenon DEF ProvidersNext, providersVars, probingVars, Probing!vars
<1> QED BY <1>1, <1>2, <1>3, <1>4, <1>5, PTL
    DEF ProvidersSpec, Spec, Results!Spec, Rotation!Spec, Probing!Spec

-----------------------------------------------------------------------------
(* Service. *)

\* The steps of the owner that leave the URL and the keys' secrets alone, and
\* those that touch one of them.
Settles ==
  \/ \E s \in {"public", "private", "disabled"} : SetConnection(s)
  \/ SetModel
  \/ \E k \in Keys : SetKey(k)
Touching ==
  \/ \E m \in {"selected", "round_robin"} : \E k \in Keys : SelectKey(m, k)
  \/ \E k \in Keys : \E p \in Places : ReplaceKey(k, p)
  \/ \E p \in Places : Move(p)

-----------------------------------------------------------------------------
(* Types. *)

\* What becomes of a request is one again.
LEMMA NoRequestIsRequest == NoRequest \in Requests
BY DEF Requests, NoRequest, Pcs

\* A request that a change met is a request.
LEMMA ChangedIsRequest ==
  ASSUME NEW r \in Requests, NEW b \in BOOLEAN
  PROVE  [r EXCEPT !.changed = b] \in Requests
BY DEF Requests

\* So is one whose pair of URL and key a change broke.
LEMMA TouchedIsRequest ==
  ASSUME NEW r \in Requests, NEW b \in BOOLEAN
  PROVE  [r EXCEPT !.changed = b, !.whole = FALSE] \in Requests
BY DEF Requests

\* So is one that goes on,
LEMMA MovedIsRequest ==
  ASSUME NEW r \in Requests, NEW pc \in Pcs
  PROVE  [r EXCEPT !.pc = pc] \in Requests
BY DEF Requests

\* and one that has its key.
LEMMA ForwardIsRequest ==
  ASSUME NEW r \in Requests, NEW s \in Places, NEW b \in BOOLEAN
  PROVE  [r EXCEPT !.pc = "forward", !.secret = s, !.whole = @ /\ b] \in Requests
<1>1. (r.whole /\ b) \in BOOLEAN OBVIOUS
<1>2. PICK c \in BOOLEAN : c = (r.whole /\ b) BY <1>1
<1>3. [r EXCEPT !.pc = "forward", !.secret = s, !.whole = c] \in Requests BY DEF Requests, Pcs
<1> QED BY <1>2, <1>3, Zenon

\* And what becomes of the PATCHes.
LEMMA NobodyIsPatch ==
  ASSUME edit \in [Edits -> EditStates]
  PROVE  NobodyAlone \in [Edits -> EditStates]
<1>1. ASSUME NEW i \in Edits PROVE [edit[i] EXCEPT !.alone = FALSE] \in EditStates
  BY DEF EditStates
<1> QED BY <1>1 DEF NobodyAlone

\* What the actions make of the edits are edits.
LEMMA EditsStay ==
  ASSUME edit \in [Edits -> EditStates], NEW e \in Edits, NEW p \in Places, NEW b \in BOOLEAN
  PROVE  /\ NobodyAlone \in [Edits -> EditStates]
         /\ [NobodyAlone EXCEPT ![e] = NoEdit] \in [Edits -> EditStates]
         /\ [edit EXCEPT ![e] = NoEdit] \in [Edits -> EditStates]
         /\ [NobodyAlone EXCEPT ![e] = [pc |-> "key", place |-> p, alone |-> b]]
              \in [Edits -> EditStates]
<1>1. NobodyAlone \in [Edits -> EditStates]
  BY NobodyIsPatch
<1>2. NoEdit \in EditStates
  BY DEF NoEdit, EditStates
<1>3. [pc |-> "key", place |-> p, alone |-> b] \in EditStates
  BY DEF EditStates
<1> QED BY <1>1, <1>2, <1>3

\* The types of the fields that the actions read.
LEMMA FieldTypes ==
  ASSUME TypeOK
  PROVE  /\ (request.pc # "idle") \in BOOLEAN
         /\ request.whole \in BOOLEAN
         /\ \A e \in Edits :
              edit[e].pc = "key" => edit[e].place \in Places /\ edit[e].alone \in BOOLEAN
<1>1. request.whole \in BOOLEAN BY DEF TypeOK, Requests
<1>2. ASSUME NEW e \in Edits, edit[e].pc = "key"
      PROVE  edit[e].place \in Places /\ edit[e].alone \in BOOLEAN
  BY <1>2 DEF TypeOK, EditStates
<1> QED BY <1>1, <1>2

\* A change of the settings keeps the types.
LEMMA SettlesTypes ==
  ASSUME TypeOK, Settles
  PROVE  TypeOK'
<1>1. [request EXCEPT !.changed = request.pc # "idle"] \in Requests
  BY FieldTypes, ChangedIsRequest, Zenon DEF TypeOK
<1>2. request' \in Requests
  BY <1>1, Zenon DEF Settles, SetConnection, SetModel, SetKey, Changes
<1> QED BY <1>2 DEF TypeOK, Settles, SetConnection, SetModel, SetKey

\* A change of the URL or of a key leaves a request.
LEMMA TouchesRequest ==
  ASSUME TypeOK
  PROVE  [request EXCEPT !.changed = request.pc # "idle", !.whole = FALSE] \in Requests
BY FieldTypes, TouchedIsRequest, Zenon DEF TypeOK

\* A change of the URL or of a key keeps the types.
LEMMA TouchingTypes ==
  ASSUME TypeOK, Touching
  PROVE  TypeOK'
<1>1. request' \in Requests
  BY TouchesRequest, Zenon DEF Touching, SelectKey, ReplaceKey, Move, Touches
<1>2. edit' \in [Edits -> EditStates]
  BY NobodyIsPatch, Zenon DEF TypeOK, Touching, SelectKey, ReplaceKey, Move
<1> QED BY <1>1, <1>2 DEF TypeOK, Touching, SelectKey, ReplaceKey, Move, Touches

\* The statements of an edit keep the types.
LEMMA EditTypes ==
  ASSUME TypeOK, NEW e \in Edits, EditKey(e) \/ EditBreaks(e) \/ \E p \in Places : EditUrl(e, p)
  PROVE  TypeOK'
<1>1. CASE EditKey(e)
  <2>1. request' \in Requests
    BY <1>1, TouchesRequest, Zenon DEF EditKey
  <2>2. edit' \in [Edits -> EditStates]
    BY <1>1, EditsStay DEF TypeOK, EditKey
  <2> QED BY <1>1, <2>1, <2>2, FieldTypes DEF TypeOK, EditKey
<1>2. CASE EditBreaks(e)
  BY <1>2, EditsStay DEF TypeOK, EditBreaks
<1>3. ASSUME NEW p \in Places, EditUrl(e, p) PROVE TypeOK'
  <2>1. request' \in Requests
    BY <1>3, TouchesRequest, Zenon DEF EditUrl, Touches
  <2>2. (\A i \in Edits : edit[i].pc = "idle") \in BOOLEAN
    OBVIOUS
  <2>3. edit' \in [Edits -> EditStates]
    BY <1>3, <2>2, EditsStay, Zenon DEF TypeOK, EditUrl
  <2> QED BY <1>3, <2>1, <2>3 DEF TypeOK, EditUrl, Touches
<1> QED BY <1>1, <1>2, <1>3

\* The steps of a request keep the types.
LEMMA GatewayTypes ==
  ASSUME TypeOK, LoadRoutes \/ Reserve \/ SelectProviderKey \/ Answer
  PROVE  TypeOK'
<1>1. request' \in Requests
  <2>1. CASE LoadRoutes
    BY <2>1 DEF TypeOK, LoadRoutes, Requests, Pcs, Listed, Enabled
  <2>2. CASE Reserve
    BY <2>2, MovedIsRequest, NoRequestIsRequest DEF TypeOK, Reserve, Pcs
  <2>3. CASE SelectProviderKey
    <3>1. [request EXCEPT !.pc = "keyless"] \in Requests
      BY MovedIsRequest DEF TypeOK, Pcs
    <3>2. ASSUME NEW k \in Keys
          PROVE  [request EXCEPT !.pc = "forward", !.secret = secret[k],
                                 !.whole = @ /\ mode = "selected"] \in Requests
      <4>1. secret[k] \in Places /\ (mode = "selected") \in BOOLEAN BY DEF TypeOK
      <4> QED BY <4>1, ForwardIsRequest, Zenon DEF TypeOK
    <3>3. CASE request' = [request EXCEPT !.pc = "keyless"] BY <3>1, <3>3, Zenon
    <3>4. ASSUME NEW k \in usable,
                 request' = [request EXCEPT !.pc = "forward", !.secret = secret[k],
                                            !.whole = @ /\ mode = "selected"]
          PROVE  request' \in Requests
      <4>1. k \in Keys BY DEF TypeOK
      <4> QED BY <3>2, <3>4, <4>1, Zenon
    <3> QED BY <2>3, <3>3, <3>4, Zenon DEF SelectProviderKey
  <2>4. CASE Answer
    BY <2>4, NoRequestIsRequest DEF Answer
  <2> QED BY <2>1, <2>2, <2>3, <2>4
<1> QED BY <1>1 DEF TypeOK, LoadRoutes, Reserve, SelectProviderKey, Answer

\* No edit and no request is under way at first.
LEMMA InitIInv == Init => IInv
<1> SUFFICES ASSUME Init PROVE IInv OBVIOUS
<1>1. edit \in [Edits -> EditStates] /\ \A e \in Edits : edit[e].pc = "idle"
  BY DEF Init, EditStates, NoEdit
<1>2. request \in Requests /\ request.pc = "idle"
  BY NoRequestIsRequest DEF Init, NoRequest
<1>3. TypeOK
  BY <1>1, <1>2 DEF Init, TypeOK
<1>4. PairsMatch
  BY <1>1, <1>2 DEF Init, PairsMatch
<1> QED BY <1>2, <1>3, <1>4 DEF IInv, SettingsMatch, KeysReachTheirUrl, ListedIsServed

\* Every step keeps the types.
LEMMA TypesStay ==
  ASSUME TypeOK, [Next]_vars
  PROVE  TypeOK'
<1>1. CASE UNCHANGED vars BY <1>1 DEF TypeOK, vars
<1>2. CASE Next
  BY <1>2, SettlesTypes, TouchingTypes, EditTypes, GatewayTypes, Zenon DEF Next, Settles, Touching
<1> QED BY <1>1, <1>2

-----------------------------------------------------------------------------
(* The URL and the key. *)

\* What a step of the owner makes of a request.
LEMMA TouchedRequest ==
  ASSUME TypeOK, request' = [request EXCEPT !.changed = request.pc # "idle", !.whole = FALSE]
  PROVE  /\ request'.pc = request.pc /\ ~request'.whole
         /\ request.pc # "idle" => request'.changed
BY DEF TypeOK, Requests

\* A change leaves what a request has read.
LEMMA ChangedRequest ==
  ASSUME TypeOK, request' = [request EXCEPT !.changed = request.pc # "idle"]
  PROVE  /\ request'.pc = request.pc /\ request'.whole = request.whole
         /\ request'.url = request.url /\ request'.secret = request.secret
         /\ request'.listed = request.listed
         /\ request.pc # "idle" => request'.changed
BY DEF TypeOK, Requests

\* An edit that is overlapped is no longer alone, and is where it was.
LEMMA NobodysFields ==
  ASSUME TypeOK, NEW e \in Edits
  PROVE  NobodyAlone[e].pc = edit[e].pc /\ ~NobodyAlone[e].alone
BY DEF TypeOK, EditStates, NobodyAlone

\* Every step keeps what was saved together together.
LEMMA PairsStay ==
  ASSUME TypeOK, PairsMatch, KeysReachTheirUrl, [Next]_vars
  PROVE  PairsMatch' /\ KeysReachTheirUrl'
<1>1. CASE UNCHANGED vars BY <1>1 DEF PairsMatch, KeysReachTheirUrl, vars
<1>2. CASE Settles
  BY <1>2, ChangedRequest
  DEF PairsMatch, KeysReachTheirUrl, Settles, SetConnection, SetModel, SetKey, Changes
<1>3. CASE Touching
  <2>1. request' = [request EXCEPT !.changed = request.pc # "idle", !.whole = FALSE]
        /\ whole' = FALSE /\ edit' = NobodyAlone
    BY <1>3, Zenon DEF Touching, SelectKey, ReplaceKey, Move, Touches
  <2> QED BY <2>1, TouchedRequest, NobodysFields DEF PairsMatch, KeysReachTheirUrl
<1>4. ASSUME NEW e \in Edits, EditKey(e) PROVE PairsMatch' /\ KeysReachTheirUrl'
  <2>1. ~request'.whole
    BY <1>4, TouchedRequest, Zenon DEF EditKey
  <2>2. \A i \in Edits : ~edit'[i].alone
    BY <1>4, NobodysFields, NobodyIsPatch DEF TypeOK, EditKey, NoEdit
  <2>3. whole' => secret'[selected'] = url'
    BY <1>4 DEF TypeOK, EditKey, PairsMatch
  <2> QED BY <2>1, <2>2, <2>3 DEF PairsMatch, KeysReachTheirUrl
<1>5. ASSUME NEW e \in Edits, EditBreaks(e) PROVE PairsMatch' /\ KeysReachTheirUrl'
  <2>1. \A i \in Edits : \/ edit'[i] = edit[i]
                         \/ edit'[i].pc = "idle" /\ ~edit'[i].alone
    BY <1>5 DEF TypeOK, EditBreaks, NoEdit
  <2> QED BY <1>5, <2>1 DEF EditBreaks, PairsMatch, KeysReachTheirUrl
<1>6. ASSUME NEW e \in Edits, NEW p \in Places, EditUrl(e, p)
      PROVE  PairsMatch' /\ KeysReachTheirUrl'
  <2>1. ~request'.whole /\ ~whole' /\ url' = p
    BY <1>6, TouchedRequest, Zenon DEF EditUrl, Touches
  <2>2. edit'[e].place = p
        /\ (edit'[e].alone <=> \A i \in Edits : edit[i].pc = "idle")
    BY <1>6, NobodyIsPatch DEF TypeOK, EditUrl
  <2>3. \A i \in Edits \ {e} : edit'[i].pc = edit[i].pc /\ ~edit'[i].alone
    BY <1>6, NobodyIsPatch, NobodysFields DEF TypeOK, EditUrl
  <2> QED BY <2>1, <2>2, <2>3 DEF PairsMatch, KeysReachTheirUrl
<1>7. CASE LoadRoutes
  <2>1. request'.url = (IF Routed THEN url ELSE NoPlace) /\ request'.whole = whole
        /\ request'.pc \in {"reserve", "unroutable"}
        /\ (request'.pc = "reserve" => Routed)
    BY <1>7 DEF LoadRoutes
  <2> QED BY <1>7, <2>1 DEF LoadRoutes, PairsMatch, KeysReachTheirUrl
<1>8. CASE Reserve
  BY <1>8 DEF TypeOK, Requests, Reserve, NoRequest, PairsMatch, KeysReachTheirUrl
<1>9. CASE SelectProviderKey
  <2>1. UNCHANGED <<url, selected, secret, edit, whole>>
    BY <1>9, Zenon DEF SelectProviderKey
  <2>2. CASE request' = [request EXCEPT !.pc = "keyless"]
    <3>1. request'.pc = "keyless" BY <2>2 DEF TypeOK, Requests
    <3> QED BY <2>1, <3>1 DEF PairsMatch, KeysReachTheirUrl
  <2>3. ASSUME NEW k \in usable, mode = "round_robin" \/ k = selected,
               request' = [request EXCEPT !.pc = "forward", !.secret = secret[k],
                                          !.whole = @ /\ mode = "selected"]
        PROVE  PairsMatch' /\ KeysReachTheirUrl'
    <3>1. request'.pc = "forward" /\ request'.secret = secret[k] /\ request'.url = request.url
          /\ (request'.whole => request.whole /\ k = selected)
      BY <2>3 DEF TypeOK, Requests
    <3>2. request.pc = "choose" BY <1>9 DEF SelectProviderKey
    <3> QED BY <2>1, <3>1, <3>2 DEF PairsMatch, KeysReachTheirUrl
  <2> QED BY <1>9, <2>2, <2>3, Zenon DEF SelectProviderKey
<1>10. CASE Answer
  BY <1>10 DEF Answer, NoRequest, PairsMatch, KeysReachTheirUrl
<1>11. CASE Next
  BY <1>11, <1>2, <1>3, <1>4, <1>5, <1>6, <1>7, <1>8, <1>9, <1>10, Zenon
  DEF Next, Settles, Touching
<1> QED BY <1>1, <1>11

-----------------------------------------------------------------------------
(* The list and the routes. *)

\* An edit that meets a request marks it, but for the one that breaks.
LEMMA EditsMark ==
  ASSUME TypeOK, Settles \/ Touching
                 \/ \E e \in Edits : EditKey(e) \/ \E p \in Places : EditUrl(e, p)
  PROVE  /\ request'.pc = request.pc
         /\ request.pc # "idle" => request'.changed
<1>1. \/ request' = [request EXCEPT !.changed = request.pc # "idle"]
      \/ request' = [request EXCEPT !.changed = request.pc # "idle", !.whole = FALSE]
  BY Zenon DEF Settles, Touching, SetConnection, SetModel, SetKey, Changes,
               SelectKey, ReplaceKey, Move, EditKey, EditUrl, Touches
<1> QED BY <1>1, ChangedRequest, TouchedRequest

\* Every step keeps what is known of the settings.
LEMMA SettingsStay ==
  ASSUME TypeOK, SettingsMatch, ListedIsServed, [Next]_vars
  PROVE  SettingsMatch' /\ ListedIsServed'
<1>1. CASE UNCHANGED vars
  BY <1>1 DEF SettingsMatch, ListedIsServed, Routed, Listed, Enabled, vars
<1>2. CASE Settles \/ Touching
           \/ \E e \in Edits : EditKey(e) \/ \E p \in Places : EditUrl(e, p)
  BY <1>2, EditsMark DEF SettingsMatch, ListedIsServed
<1>3. ASSUME UNCHANGED <<owned, setting, modelOn, mode, selected, usable>>
      PROVE  Routed' = Routed /\ Listed' = Listed
  BY <1>3 DEF Routed, Listed, Enabled
<1>4. CASE \E e \in Edits : EditBreaks(e)
  <2>1. request' = request /\ Routed' = Routed /\ Listed' = Listed
    BY <1>3, <1>4, Zenon DEF EditBreaks
  <2> QED BY <2>1 DEF SettingsMatch, ListedIsServed
<1>5. CASE LoadRoutes
  <2>1. Routed' = Routed /\ Listed' = Listed BY <1>3, <1>5 DEF LoadRoutes
  <2>2. request'.listed = Listed
        /\ request'.pc = (IF Routed THEN "reserve" ELSE "unroutable")
    BY <1>5 DEF LoadRoutes
  <2>3. ~Routed => ~Listed BY DEF Routed, Listed
  <2> QED BY <2>1, <2>2, <2>3 DEF SettingsMatch, ListedIsServed
<1>6. CASE Reserve
  <2>1. Routed' = Routed /\ Listed' = Listed BY <1>3, <1>6 DEF Reserve
  <2>2. \/ request'.pc = "idle"
        \/ /\ request.pc = "reserve" /\ request'.pc = "choose"
           /\ request'.changed = request.changed /\ request'.listed = request.listed
    BY <1>6 DEF TypeOK, Requests, Reserve, NoRequest
  <2> QED BY <2>1, <2>2 DEF SettingsMatch, ListedIsServed
<1>7. CASE SelectProviderKey
  <2> DEFINE eligible == {k \in usable : Enabled /\ (mode = "round_robin" \/ k = selected)}
  <2>1. request.pc = "choose" BY <1>7 DEF SelectProviderKey
  <2>2. \/ eligible = {} /\ request' = [request EXCEPT !.pc = "keyless"]
        \/ \E k \in eligible :
             request' = [request EXCEPT !.pc = "forward", !.secret = secret[k],
                                        !.whole = @ /\ mode = "selected"]
    BY <1>7, Zenon DEF SelectProviderKey
  <2>3. /\ request'.changed = request.changed /\ request'.listed = request.listed
        /\ request'.pc = (IF eligible = {} THEN "keyless" ELSE "forward")
    BY <2>2 DEF TypeOK, Requests
  <2>4. Routed => (Listed <=> eligible # {}) BY DEF Routed, Listed
  <2> QED BY <2>1, <2>3, <2>4 DEF SettingsMatch, ListedIsServed
<1>8. CASE Answer
  BY <1>8 DEF Answer, NoRequest, SettingsMatch, ListedIsServed
<1>9. CASE Next
  BY <1>9, <1>2, <1>4, <1>5, <1>6, <1>7, <1>8, Zenon DEF Next, Settles, Touching
<1> QED BY <1>1, <1>9

-----------------------------------------------------------------------------

\* The inductive invariant of the service.
THEOREM ServiceInvariant == ProvidersSpec => []IInv
<1>1. IInv /\ [Next]_vars => IInv'
  BY TypesStay, PairsStay, SettingsStay, Zenon DEF IInv
<1> QED BY PartsBehave, InitIInv, <1>1, PTL DEF Spec

\* A key is sent to the URL it was saved with, whatever edits overlap, unless
\* an edit broke or overtook the request (connections/[id]/route.ts 27-43,
\* server.go 60-108).
THEOREM KeysAlwaysReachTheirUrl == ProvidersSpec => []KeysReachTheirUrl
<1>1. IInv => KeysReachTheirUrl BY DEF IInv
<1> QED BY ServiceInvariant, <1>1, PTL

\* What GET /v1/models lists is served and what it does not list is not, while
\* the settings stay (proxy.go 17-37, 95-117).
THEOREM ListedIsAlwaysServed == ProvidersSpec => []ListedIsServed
<1>1. IInv => ListedIsServed BY DEF IInv
<1> QED BY ServiceInvariant, <1>1, PTL

-----------------------------------------------------------------------------
(* Rotation. *)

\* Of two enabled keys the one used less since the keys changed was used
\* before the other, and no use is in the future: what makes the rotation even.
LeastUsedIsLeastRecent ==
  /\ \A k \in Keys : lastUsed[k] < clock
  /\ keyMode = "round_robin" =>
       \A i, j \in onKeys : uses[i] < uses[j] => lastUsed[i] < lastUsed[j]

\* The request that holds the connection row has it to itself, and what it
\* read of the row and of the keys is still so when it marks its key.
HolderIsCurrent ==
  \A p \in Callers :
    /\ p \in holding =>
         /\ enabled
         /\ holding = {p}
         /\ row[p] = [mode |-> keyMode, selected |-> current]
    /\ credential[p] # NoKey =>
         p \in holding /\ credential[p] \in Rotation!First(Rotation!Eligible(row[p]))

RotationInv == Rotation!TypeOK /\ HolderIsCurrent /\ LeastUsedIsLeastRecent /\ RotationIsEven

\* The settings, the keys and their uses stand still: every action that only
\* moves a request in or out of the function.
KeysStill ==
  UNCHANGED <<clock, keyMode, current, present, onKeys, created, lastUsed, uses>>

\* While the keys and their uses stand still so do the facts about them.
LEMMA StillKeysKeepRotation ==
  ASSUME RotationInv, KeysStill
  PROVE  LeastUsedIsLeastRecent' /\ RotationIsEven'
BY DEF RotationInv, KeysStill, LeastUsedIsLeastRecent, RotationIsEven

\* A change of the keys starts the count afresh (AddKey, SetKeyEnabled,
\* SelectKey).
LEMMA RecountingKeepsRotation ==
  ASSUME RotationInv, Rotation!Recount, onKeys' \subseteq Keys, UNCHANGED <<clock, lastUsed>>
  PROVE  LeastUsedIsLeastRecent' /\ RotationIsEven'
BY DEF RotationInv, Rotation!TypeOK, Rotation!Recount, LeastUsedIsLeastRecent, RotationIsEven

\* With the connection unlocked no request holds anything, so its rows may
\* change (the control plane's transactions).
LEMMA NobodyHolds ==
  ASSUME RotationInv, Rotation!ConnectionUnlocked, UNCHANGED <<holding, credential>>
  PROVE  HolderIsCurrent'
BY DEF RotationInv, HolderIsCurrent, Rotation!ConnectionUnlocked

\* Using the least recently used of the enabled keys keeps the count even and
\* the least used keys the least recently used ones.
LEMMA UsingTheFirstKeepsRotation ==
  ASSUME RotationInv, NEW p \in Callers, Rotation!TakeKey(p)
  PROVE  LeastUsedIsLeastRecent' /\ RotationIsEven'
<1> DEFINE c == credential[p]
<1>1. /\ c \in onKeys /\ c \in Keys
      /\ keyMode = "round_robin" =>
           \A j \in onKeys : lastUsed[c] <= lastUsed[j]
  BY KeysAssumption DEF RotationInv, Rotation!TypeOK, HolderIsCurrent, Rotation!TakeKey,
      Rotation!First, Rotation!Eligible
<1>2. /\ clock' = clock + 1 /\ clock \in Int
      /\ UNCHANGED <<keyMode, onKeys>>
      /\ \A k \in Keys : /\ lastUsed'[k] = IF k = c THEN clock ELSE lastUsed[k]
                         /\ uses'[k] = IF k = c THEN uses[k] + 1 ELSE uses[k]
                         /\ lastUsed[k] \in Int /\ uses[k] \in Int
                         /\ lastUsed[k] < clock
  BY <1>1 DEF RotationInv, Rotation!TypeOK, LeastUsedIsLeastRecent, Rotation!TakeKey,
      Rotation!settings
<1>3. keyMode = "round_robin" => \A j \in onKeys : uses[c] <= uses[j]
  BY <1>1, <1>2 DEF RotationInv, Rotation!TypeOK, LeastUsedIsLeastRecent
<1>4. RotationIsEven'
  BY <1>1, <1>2, <1>3 DEF RotationInv, Rotation!TypeOK, RotationIsEven
<1>5. LeastUsedIsLeastRecent'
  <2>1. \A k \in Keys : lastUsed'[k] < clock'
    BY <1>2
  <2>2. ASSUME keyMode' = "round_robin", NEW i \in onKeys', NEW j \in onKeys',
               uses'[i] < uses'[j]
        PROVE  lastUsed'[i] < lastUsed'[j]
    <3>1. i \in Keys /\ j \in Keys /\ i \in onKeys /\ j \in onKeys
      BY <1>2 DEF RotationInv, Rotation!TypeOK
    <3>2. CASE i = c
      BY <1>1, <1>2, <2>2, <3>1, <3>2 DEF RotationInv, RotationIsEven
    <3>3. CASE i # c /\ j = c
      BY <1>2, <3>1, <3>3
    <3>4. CASE i # c /\ j # c
      BY <1>2, <2>2, <3>1, <3>4 DEF RotationInv, LeastUsedIsLeastRecent
    <3> QED BY <3>2, <3>3, <3>4
  <2> QED BY <2>1, <2>2 DEF LeastUsedIsLeastRecent
<1> QED BY <1>4, <1>5

\* A connection is created with one key, unused, and nobody selecting.
LEMMA RotationStarts == Rotation!Init => RotationInv
BY KeysAssumption
DEF Rotation!Init, RotationInv, Rotation!TypeOK, Rotation!Modes, Rotation!Never,
    Rotation!FirstRow, HolderIsCurrent,
    LeastUsedIsLeastRecent, RotationIsEven

\* Every step of the function and of the control plane keeps the invariant.
LEMMA RotationStays == RotationInv /\ [Rotation!Next]_(Rotation!vars) => RotationInv'
<1> SUFFICES ASSUME RotationInv, [Rotation!Next]_(Rotation!vars) PROVE RotationInv'
  OBVIOUS
<1> USE KeysAssumption
<1>1. ASSUME NEW p \in Callers, Rotation!LockProvider(p) PROVE RotationInv'
  <2>1. Rotation!TypeOK'
    BY <1>1 DEF RotationInv, Rotation!TypeOK, Rotation!LockProvider, Rotation!settings
  <2>2. HolderIsCurrent'
    BY <1>1 DEF RotationInv, Rotation!TypeOK, HolderIsCurrent, Rotation!LockProvider,
        Rotation!ConnectionUnlocked, Rotation!settings
  <2>3. KeysStill
    BY <1>1 DEF Rotation!LockProvider, KeysStill, Rotation!settings
  <2> QED BY <2>1, <2>2, <2>3, StillKeysKeepRotation DEF RotationInv
<1>2. ASSUME NEW p \in Callers, Rotation!ChooseKey(p) PROVE RotationInv'
  <2>0. Rotation!First(Rotation!Eligible(row[p])) \subseteq Keys
    BY DEF RotationInv, Rotation!TypeOK, Rotation!First, Rotation!Eligible
  <2>1. Rotation!TypeOK'
    BY <1>2, <2>0 DEF RotationInv, Rotation!TypeOK, Rotation!ChooseKey, Rotation!settings
  <2>2. HolderIsCurrent'
    BY <1>2 DEF RotationInv, Rotation!TypeOK, HolderIsCurrent, Rotation!ChooseKey,
        Rotation!First, Rotation!Eligible, Rotation!settings
  <2>3. KeysStill
    BY <1>2 DEF Rotation!ChooseKey, KeysStill, Rotation!settings
  <2> QED BY <2>1, <2>2, <2>3, StillKeysKeepRotation DEF RotationInv
<1>3. ASSUME NEW p \in Callers, Rotation!TakeKey(p) PROVE RotationInv'
  <2>1. Rotation!TypeOK'
    BY <1>3 DEF RotationInv, Rotation!TypeOK, Rotation!TakeKey, Rotation!Release,
        Rotation!FirstRow, Rotation!Modes, Rotation!settings
  <2>2. HolderIsCurrent'
    BY <1>3 DEF RotationInv, Rotation!TypeOK, HolderIsCurrent, Rotation!TakeKey, Rotation!Release
  <2> QED BY <1>3, <2>1, <2>2, UsingTheFirstKeepsRotation DEF RotationInv
<1>4. ASSUME NEW p \in Callers, Rotation!LeaveWithoutKey(p) PROVE RotationInv'
  <2>1. Rotation!TypeOK'
    BY <1>4 DEF RotationInv, Rotation!TypeOK, Rotation!LeaveWithoutKey, Rotation!Release,
        Rotation!FirstRow, Rotation!Modes, Rotation!settings
  <2>2. HolderIsCurrent'
    BY <1>4 DEF RotationInv, Rotation!TypeOK, HolderIsCurrent, Rotation!LeaveWithoutKey,
        Rotation!Release
  <2>3. KeysStill
    BY <1>4 DEF Rotation!LeaveWithoutKey, KeysStill, Rotation!settings
  <2> QED BY <2>1, <2>2, <2>3, StillKeysKeepRotation DEF RotationInv
<1>5. ASSUME NEW k \in Keys, Rotation!AddKey(k) PROVE RotationInv'
  <2>1. Rotation!TypeOK'
    BY <1>5 DEF RotationInv, Rotation!TypeOK, Rotation!AddKey, Rotation!Recount
  <2> QED BY <1>5, <2>1, RecountingKeepsRotation, NobodyHolds DEF RotationInv, Rotation!TypeOK,
      Rotation!AddKey
<1>6. ASSUME NEW k \in Keys, NEW value \in BOOLEAN, Rotation!SetKeyEnabled(k,
    value) PROVE RotationInv'
  <2>1. Rotation!TypeOK'
    BY <1>6 DEF RotationInv, Rotation!TypeOK, Rotation!SetKeyEnabled, Rotation!Recount
  <2> QED BY <1>6, <2>1, RecountingKeepsRotation, NobodyHolds DEF RotationInv, Rotation!TypeOK,
      Rotation!SetKeyEnabled
<1>7. ASSUME NEW mm \in Rotation!Modes, NEW k \in Keys, Rotation!SelectKey(mm,
    k) PROVE RotationInv'
  <2>1. Rotation!TypeOK'
    BY <1>7 DEF RotationInv, Rotation!TypeOK, Rotation!SelectKey, Rotation!Recount
  <2> QED BY <1>7, <2>1, RecountingKeepsRotation, NobodyHolds DEF RotationInv, Rotation!TypeOK,
      Rotation!SelectKey
<1>8. ASSUME NEW value \in BOOLEAN, Rotation!SetEnabled(value) PROVE RotationInv'
  <2>1. Rotation!TypeOK'
    BY <1>8 DEF RotationInv, Rotation!TypeOK, Rotation!SetEnabled
  <2>2. KeysStill
    BY <1>8 DEF Rotation!SetEnabled, KeysStill
  <2> QED BY <1>8, <2>1, <2>2, StillKeysKeepRotation, NobodyHolds DEF RotationInv,
      Rotation!SetEnabled
<1>9. CASE UNCHANGED Rotation!vars
  <2>1. Rotation!TypeOK'
    BY <1>9 DEF RotationInv, Rotation!TypeOK, Rotation!vars
  <2>2. HolderIsCurrent'
    BY <1>9 DEF RotationInv, HolderIsCurrent, Rotation!First, Rotation!Eligible, Rotation!vars
  <2>3. KeysStill
    BY <1>9 DEF KeysStill, Rotation!vars
  <2> QED BY <2>1, <2>2, <2>3, StillKeysKeepRotation DEF RotationInv
<1> QED BY <1>1, <1>2, <1>3, <1>4, <1>5, <1>6, <1>7, <1>8, <1>9 DEF Rotation!Next

\* The inductive invariant holds of every behaviour.
THEOREM RotationInvariant == ProvidersSpec => []RotationInv
BY PartsBehave, RotationStarts, RotationStays, PTL DEF Rotation!Spec

\* Round robin is even for every number of keys (0013 43-48).
THEOREM RotationIsAlwaysEven == ProvidersSpec => []RotationIsEven
<1>1. RotationInv => RotationIsEven
  BY DEF RotationInv
<1> QED BY <1>1, RotationInvariant, PTL

\* The lock on the connection row keeps what its holder read true (0013 41).
THEOREM HolderIsAlwaysCurrent == ProvidersSpec => []HolderIsCurrent
<1>1. RotationInv => HolderIsCurrent
  BY DEF RotationInv
<1> QED BY <1>1, RotationInvariant, PTL

\* A key is handed out only under the settings in force (0013 41-48).
THEOREM KeysAreInForce == ProvidersSpec => KeysInForce
<1> DEFINE InForce ==
      \A k \in Keys : lastUsed'[k] # lastUsed[k] =>
        /\ enabled
        /\ k \in onKeys
        /\ keyMode = "selected" => k = current
<1>1. ASSUME RotationInv, [ProvidersNext]_providersVars PROVE InForce
  <2>1. ASSUME NEW p \in Callers, Rotation!TakeKey(p) PROVE InForce
    BY <1>1, <2>1, KeysAssumption
    DEF RotationInv, Rotation!TypeOK, HolderIsCurrent, Rotation!TakeKey, Rotation!First,
        Rotation!Eligible
  <2>2. Rotation!Next \/ lastUsed' = lastUsed
    BY <1>1 DEF ProvidersNext, providersVars, rotationVars
  <2>3. lastUsed' = lastUsed \/ \E p \in Callers : Rotation!TakeKey(p)
    BY <2>2 DEF Rotation!Next, Rotation!LockProvider, Rotation!ChooseKey,
        Rotation!LeaveWithoutKey,
                Rotation!AddKey, Rotation!SetKeyEnabled, Rotation!SelectKey, Rotation!SetEnabled
  <2> QED BY <2>1, <2>3
<1>2. RotationInv /\ [ProvidersNext]_providersVars => [InForce]_providersVars
  BY <1>1
<1>3. [][InForce]_providersVars => KeysInForce
  BY PTL DEF KeysInForce
<1> QED BY <1>2, <1>3, RotationInvariant, PTL DEF ProvidersSpec

-----------------------------------------------------------------------------
(* Tests. *)

\* What a test in progress has is still so unless it is stale: a test of the
\* connection has the selected key, and one that asked has its key's secret.
TestsMatch ==
  \A t \in Tests :
    /\ test[t].pc # "idle" => test[t].key \in Tested
    /\ test[t].pc # "idle" /\ test[t].whole /\ ~test[t].stale => test[t].key = chosen
    /\ test[t].pc = "asked" /\ ~test[t].stale =>
         test[t].secret \in {Untried, keySecret[test[t].key]}

ResultsInv == Results!TypeOK /\ TestsMatch /\ ResultsAreOfTheirSecrets

TestStates ==
  [pc : {"idle", "row", "asked"}, key : Tested \cup {Untested}, whole : BOOLEAN,
   secret : Results!Results, stale : BOOLEAN]

\* A test whose staleness is set anew is one, and the rest of it stays.
LEMMA StaleTest ==
  ASSUME NEW r \in TestStates, NEW b \in BOOLEAN
  PROVE  /\ [r EXCEPT !.stale = b] \in TestStates
         /\ [r EXCEPT !.stale = b].stale = b
         /\ [r EXCEPT !.stale = b].pc = r.pc
         /\ [r EXCEPT !.stale = b].key = r.key
         /\ [r EXCEPT !.stale = b].whole = r.whole
         /\ [r EXCEPT !.stale = b].secret = r.secret
BY DEF TestStates

\* A test that has asked is one, with what it was given.
LEMMA AskedTest ==
  ASSUME NEW r \in TestStates, NEW found \in Results!Results
  PROVE  \E q \in TestStates :
           /\ q = [r EXCEPT !.pc = "asked", !.secret = found]
           /\ q.pc = "asked" /\ q.secret = found
           /\ q.key = r.key /\ q.whole = r.whole /\ q.stale = r.stale
<1> DEFINE q == [r EXCEPT !.pc = "asked", !.secret = found]
<1>1. /\ q \in TestStates
      /\ q.pc = "asked" /\ q.secret = found
      /\ q.key = r.key /\ q.whole = r.whole /\ q.stale = r.stale
  BY DEF TestStates
<1> QED BY <1>1, Zenon

\* No test is in progress in what a test leaves behind.
LEMMA NoTestIsIdle ==
  Results!NoTest \in TestStates /\ Results!NoTest.pc = "idle" /\ ~Results!NoTest.stale
BY DEF TestStates, Results!NoTest, Results!Results

\* At first nothing has been tested.
LEMMA ResultsStart == Results!Init => ResultsInv
<1> SUFFICES ASSUME Results!Init PROVE ResultsInv OBVIOUS
<1>1. Results!TypeOK
  BY NoTestIsIdle DEF Results!Init, Results!TypeOK, TestStates, Results!Results
<1>2. TestsMatch BY NoTestIsIdle DEF Results!Init, TestsMatch
<1>3. ResultsAreOfTheirSecrets BY DEF Results!Init, ResultsAreOfTheirSecrets
<1> QED BY <1>1, <1>2, <1>3 DEF ResultsInv

\* A test begins: of the key that is selected if it is of the connection
\* (keys/[keyId]/route.ts 48-58, connections/[id]/route.ts 58-66).
LEMMA BeginKeeps ==
  ASSUME ResultsInv, NEW t \in Tests, NEW k \in Tested, NEW w \in BOOLEAN, w => k = chosen,
         Results!Begin(t, k, w)
  PROVE  ResultsInv'
<1> DEFINE r == [Results!NoTest EXCEPT !.pc = "row", !.key = k, !.whole = w]
<1>1. r \in TestStates /\ r.pc = "row" /\ r.key = k /\ r.whole = w
  BY DEF TestStates, Results!NoTest, Results!Results
<1>2. test \in [Tests -> TestStates] BY DEF ResultsInv, Results!TypeOK, TestStates
<1>3. PICK q \in TestStates : q = r BY <1>1
<1>4. test' = [test EXCEPT ![t] = q] BY <1>3 DEF Results!Begin
<1>5. UNCHANGED <<keySecret, chosen, keyResult, result, overtaken, moved>> BY DEF Results!Begin
<1> HIDE DEF r
<1>6. Results!TypeOK'
  BY <1>2, <1>4, <1>5 DEF ResultsInv, Results!TypeOK, TestStates, Results!Results
<1>7. TestsMatch'
  BY <1>1, <1>2, <1>3, <1>4, <1>5 DEF ResultsInv, TestsMatch
<1>8. ResultsAreOfTheirSecrets' BY <1>5 DEF ResultsInv, ResultsAreOfTheirSecrets
<1> QED BY <1>6, <1>7, <1>8 DEF ResultsInv

\* The key is read (providers.ts 32-46).
LEMMA ReadKeyKeeps ==
  ASSUME ResultsInv, NEW t \in Tests, Results!ReadKey(t)
  PROVE  ResultsInv'
<1>2. test \in [Tests -> TestStates] BY DEF ResultsInv, Results!TypeOK, TestStates
<1>1. PICK found \in {keySecret[test[t].key], Untried} :
        test' = [test EXCEPT ![t].pc = "asked", ![t].secret = found]
  BY DEF Results!ReadKey
<1>3. test[t].pc = "row" /\ test[t].key \in Tested
  BY DEF Results!ReadKey, ResultsInv, TestsMatch
<1>4. found \in Results!Results
  BY <1>1, <1>3 DEF ResultsInv, Results!TypeOK, Results!Results
<1>5. PICK r \in TestStates : r = test[t] BY <1>2
<1>6. PICK q \in TestStates : /\ q = [r EXCEPT !.pc = "asked", !.secret = found]
                              /\ q.pc = "asked" /\ q.secret = found
                              /\ q.key = r.key /\ q.whole = r.whole /\ q.stale = r.stale
  BY <1>4, AskedTest, Zenon
<1>7. test' = [test EXCEPT ![t] = q] BY <1>1, <1>2, <1>5, <1>6
<1>8. UNCHANGED <<keySecret, chosen, keyResult, result, overtaken, moved>> BY DEF Results!ReadKey
<1>9. Results!TypeOK'
  BY <1>2, <1>7, <1>8 DEF ResultsInv, Results!TypeOK, TestStates, Results!Results
<1>10. TestsMatch'
  BY <1>1, <1>2, <1>3, <1>5, <1>6, <1>7, <1>8 DEF ResultsInv, TestsMatch
<1>11. ResultsAreOfTheirSecrets' BY <1>8 DEF ResultsInv, ResultsAreOfTheirSecrets
<1> QED BY <1>9, <1>10, <1>11 DEF ResultsInv

\* A test ends: nothing else is known of the others.
LEMMA EndKeepsTests ==
  ASSUME ResultsInv, NEW t \in Tests, test' = [test EXCEPT ![t] = Results!NoTest],
         UNCHANGED <<keySecret, chosen>>
  PROVE  TestsMatch' /\ test' \in [Tests -> TestStates]
<1>1. test \in [Tests -> TestStates] BY DEF ResultsInv, Results!TypeOK, TestStates
<1>2. PICK q \in TestStates : q = Results!NoTest /\ q.pc = "idle" BY NoTestIsIdle
<1> QED BY <1>1, <1>2 DEF ResultsInv, TestsMatch

\* The result of a key's test (keys/[keyId]/route.ts 55-71).
LEMMA WriteKeyResultKeeps ==
  ASSUME ResultsInv, NEW t \in Tests, Results!WriteKeyResult(t)
  PROVE  ResultsInv'
<1>1. TestsMatch' /\ test' \in [Tests -> TestStates]
  BY EndKeepsTests DEF Results!WriteKeyResult
<1>2. test \in [Tests -> TestStates] BY DEF ResultsInv, Results!TypeOK, TestStates
<1>3. /\ test[t].key \in Tested /\ test[t].secret \in Results!Results
      /\ test[t].stale \/ test[t].secret \in {Untried, keySecret[test[t].key]}
  BY <1>2 DEF Results!WriteKeyResult, ResultsInv, TestsMatch, TestStates
<1>4. /\ keyResult' = [keyResult EXCEPT ![test[t].key] = test[t].secret]
      /\ overtaken' = IF test[t].stale THEN overtaken \cup {test[t].key} ELSE overtaken \ {test[t].key}
      /\ UNCHANGED <<keySecret, chosen, result, moved>>
  BY DEF Results!WriteKeyResult
<1>5. Results!TypeOK'
  BY <1>1, <1>3, <1>4 DEF ResultsInv, Results!TypeOK, TestStates, Results!Results
<1>6. ResultsAreOfTheirSecrets'
  BY <1>3, <1>4 DEF ResultsInv, Results!TypeOK, ResultsAreOfTheirSecrets
<1> QED BY <1>1, <1>5, <1>6 DEF ResultsInv

\* The result of the connection's test (connections/[id]/route.ts 65-80).
LEMMA WriteResultKeeps ==
  ASSUME ResultsInv, NEW t \in Tests, Results!WriteResult(t)
  PROVE  ResultsInv'
<1>1. TestsMatch' /\ test' \in [Tests -> TestStates]
  BY EndKeepsTests DEF Results!WriteResult
<1>2. test \in [Tests -> TestStates] BY DEF ResultsInv, Results!TypeOK, TestStates
<1>3. /\ test[t].secret \in Results!Results /\ test[t].stale \in BOOLEAN
      /\ test[t].stale \/ test[t].secret \in {Untried, keySecret[chosen]}
  BY <1>2 DEF Results!WriteResult, ResultsInv, TestsMatch, TestStates
<1>4. /\ result' = test[t].secret /\ moved' = test[t].stale
      /\ UNCHANGED <<keySecret, chosen, keyResult, overtaken>>
  BY DEF Results!WriteResult
<1>5. Results!TypeOK'
  BY <1>1, <1>3, <1>4 DEF ResultsInv, Results!TypeOK, TestStates, Results!Results
<1>6. ResultsAreOfTheirSecrets'
  BY <1>3, <1>4 DEF ResultsInv, ResultsAreOfTheirSecrets
<1> QED BY <1>1, <1>5, <1>6 DEF ResultsInv

\* The control plane dies.
LEMMA AbandonKeeps ==
  ASSUME ResultsInv, NEW t \in Tests, Results!Abandon(t)
  PROVE  ResultsInv'
<1>1. TestsMatch' /\ test' \in [Tests -> TestStates]
  BY EndKeepsTests DEF Results!Abandon
<1>2. UNCHANGED <<keySecret, chosen, keyResult, result, overtaken, moved>> BY DEF Results!Abandon
<1>3. Results!TypeOK'
  BY <1>1, <1>2 DEF ResultsInv, Results!TypeOK, TestStates, Results!Results
<1>4. ResultsAreOfTheirSecrets' BY <1>2 DEF ResultsInv, ResultsAreOfTheirSecrets
<1> QED BY <1>1, <1>3, <1>4 DEF ResultsInv

\* A new secret overtakes the tests that asked with the former one, and makes
\* the key's result NULL (keys/[keyId]/route.ts 25-36).
LEMMA ReplacedKeeps ==
  ASSUME ResultsInv, NEW k \in Tested, NEW s \in Secrets, Results!Replaced(k, s)
  PROVE  ResultsInv'
<1> DEFINE Stale(t) == test[t].stale \/ (test[t].pc = "asked" /\ test[t].key = k)
<1>1. test \in [Tests -> TestStates] BY DEF ResultsInv, Results!TypeOK, TestStates
<1>2. \A t \in Tests : test'[t] = [test[t] EXCEPT !.stale = Stale(t)]
  BY DEF Results!Replaced, Results!Moves
<1>3. ASSUME NEW t \in Tests
      PROVE  /\ test'[t] \in TestStates
             /\ test'[t].stale <=> Stale(t)
             /\ test'[t].pc = test[t].pc /\ test'[t].key = test[t].key
             /\ test'[t].whole = test[t].whole /\ test'[t].secret = test[t].secret
  <2>1. test[t] \in TestStates /\ Stale(t) \in BOOLEAN BY <1>1 DEF TestStates
  <2> HIDE DEF Stale
  <2>2. PICK r \in TestStates, b \in BOOLEAN : r = test[t] /\ b = Stale(t) BY <2>1
  <2>3. test'[t] = [r EXCEPT !.stale = b] BY <1>2, <2>2, Zenon
  <2> QED BY <2>2, <2>3, StaleTest
<1>4. /\ keySecret' = [keySecret EXCEPT ![k] = s]
      /\ keyResult' = [keyResult EXCEPT ![k] = Untested]
      /\ moved' = (moved \/ k = chosen)
      /\ UNCHANGED <<chosen, result, overtaken>>
  BY DEF Results!Replaced, Results!Moves
<1>5. test' = [t \in Tests |-> test'[t]] BY DEF Results!Replaced, Results!Moves
<1>6. test' \in [Tests -> TestStates] BY <1>3, <1>5
<1>7. Results!TypeOK'
  BY <1>4, <1>6 DEF ResultsInv, Results!TypeOK, TestStates, Results!Results
<1>8. TestsMatch'
  BY <1>3, <1>4 DEF ResultsInv, Results!TypeOK, TestsMatch
<1>9. ResultsAreOfTheirSecrets'
  BY <1>4 DEF ResultsInv, Results!TypeOK, ResultsAreOfTheirSecrets
<1> QED BY <1>7, <1>8, <1>9 DEF ResultsInv

\* Another key is selected: the tests of the connection are stale
\* (providers/[id]/route.ts 9-47).
LEMMA SelectionKeeps ==
  ASSUME ResultsInv, NEW k \in Tested, Results!SelectKey(k)
  PROVE  ResultsInv'
<1> DEFINE Stale(t) == test[t].stale \/ test[t].whole
<1>1. test \in [Tests -> TestStates] BY DEF ResultsInv, Results!TypeOK, TestStates
<1>2. \A t \in Tests : test'[t] = [test[t] EXCEPT !.stale = Stale(t)]
  BY DEF Results!SelectKey
<1>3. ASSUME NEW t \in Tests
      PROVE  /\ test'[t] \in TestStates
             /\ test'[t].stale <=> Stale(t)
             /\ test'[t].pc = test[t].pc /\ test'[t].key = test[t].key
             /\ test'[t].whole = test[t].whole /\ test'[t].secret = test[t].secret
  <2>1. test[t] \in TestStates /\ Stale(t) \in BOOLEAN BY <1>1 DEF TestStates
  <2> HIDE DEF Stale
  <2>2. PICK r \in TestStates, b \in BOOLEAN : r = test[t] /\ b = Stale(t) BY <2>1
  <2>3. test'[t] = [r EXCEPT !.stale = b] BY <1>2, <2>2, Zenon
  <2> QED BY <2>2, <2>3, StaleTest
<1>4. chosen' = k /\ moved' = TRUE /\ UNCHANGED <<keySecret, keyResult, result, overtaken>>
  BY DEF Results!SelectKey
<1>5. test' = [t \in Tests |-> test'[t]] BY DEF Results!SelectKey
<1>6. test' \in [Tests -> TestStates] BY <1>3, <1>5
<1>7. Results!TypeOK'
  BY <1>4, <1>6 DEF ResultsInv, Results!TypeOK, TestStates, Results!Results
<1>8. TestsMatch' BY <1>3, <1>4 DEF ResultsInv, TestsMatch
<1>9. ResultsAreOfTheirSecrets' BY <1>4 DEF ResultsInv, ResultsAreOfTheirSecrets
<1> QED BY <1>7, <1>8, <1>9 DEF ResultsInv

\* Every step of a test and of the owner keeps the invariant.
LEMMA ResultsStay == ResultsInv /\ [Results!Next]_(Results!vars) => ResultsInv'
<1> SUFFICES ASSUME ResultsInv, [Results!Next]_(Results!vars) PROVE ResultsInv'
  OBVIOUS
<1>1. chosen \in Tested BY DEF ResultsInv, Results!TypeOK
<1>2. ASSUME NEW t \in Tests, Results!TestConnection(t) PROVE ResultsInv'
  BY <1>1, <1>2, BeginKeeps DEF Results!TestConnection
<1>3. ASSUME NEW t \in Tests, NEW k \in Tested, Results!TestKey(t, k) PROVE ResultsInv'
  BY <1>3, BeginKeeps DEF Results!TestKey
<1>4. ASSUME NEW s \in Secrets, Results!EditConnection(s) PROVE ResultsInv'
  BY <1>1, <1>4, ReplacedKeeps DEF Results!EditConnection
<1>5. ASSUME NEW k \in Tested, NEW s \in Secrets, Results!ReplaceKey(k, s) PROVE ResultsInv'
  BY <1>5, ReplacedKeeps DEF Results!ReplaceKey
<1>6. CASE UNCHANGED Results!vars
  BY <1>6 DEF Results!vars, ResultsInv, Results!TypeOK, TestsMatch, ResultsAreOfTheirSecrets
<1> QED BY <1>2, <1>3, <1>4, <1>5, <1>6, ReadKeyKeeps, WriteKeyResultKeeps, WriteResultKeeps,
           AbandonKeeps, SelectionKeeps, Zenon DEF Results!Next

\* The inductive invariant of the tests.
THEOREM ResultsInvariant == ProvidersSpec => []ResultsInv
BY PartsBehave, ResultsStart, ResultsStay, PTL DEF Results!Spec

\* A result is the one of the secret it stands beside, but for the two ways
\* the property names (keys/[keyId]/route.ts 25-71, connections/[id]/route.ts
\* 38-80).
THEOREM ResultsAreAlwaysOfTheirSecrets == ProvidersSpec => []ResultsAreOfTheirSecrets
<1>1. ResultsInv => ResultsAreOfTheirSecrets BY DEF ResultsInv
<1> QED BY <1>1, ResultsInvariant, PTL

-----------------------------------------------------------------------------
(* Probes. *)

\* What a probe has sent it has a result of, all of it with the key it began with.
ResultsAreOfContacts ==
  \A p \in Callers :
    /\ DOMAIN contacts[p] = probe[p].results
    /\ \A c \in DOMAIN contacts[p] : contacts[p][c] = probe[p].key
    /\ probe[p].pc = "new" => probe[p].results = {}

\* Charges cover the results, and the request whose reservation is in hand.
ChargesCover ==
  \A p \in Callers :
    ~Admin /\ Provider \notin Own =>
      Cardinality(probe[p].results) + (IF probe[p].pc \in {"key", "contact"} THEN 1 ELSE 0)
        <= charges[p]

\* A connection in use is open, and a reservation in hand is from before it
\* was closed.
LateAfterClosing ==
  \A p \in Callers :
    /\ late[p] <= 1
    /\ ~Probing!Closed \/ probe[p].pc \in {"key", "contact"} => late[p] = 0

\* A run is stored at the end of a probe, when nothing is left to do.
RunsAreOfTheEnd ==
  \A p \in Callers :
    /\ probe[p].pc = "store" => probe[p].todo = {} /\ probe[p].results # {}
    /\ runs[p] # Probing!NoRun =>
         /\ probe[p].pc = "done" /\ probe[p].todo = {} /\ probe[p].results # {}
         /\ runs[p] = Probing!Run(probe[p])

ProbingInv ==
  /\ Probing!TypeOK
  /\ ResultsAreOfContacts /\ ChargesCover /\ LateAfterClosing /\ RunsAreOfTheEnd

Answers == {0, 200, 400, 404, 429, 500, 503}

\* A probe with another place and answer, is one.
LEMMA NewAnswer ==
  ASSUME NEW P, NEW T, NEW K, NEW A,
         NEW r \in [pc : P, todo : T, results : T, passed : T, key : K, answer : A],
         NEW pc \in P, NEW a \in A
  PROVE  [r EXCEPT !.pc = pc, !.answer = a]
              \in [pc : P, todo : T, results : T, passed : T, key : K, answer : A]
OBVIOUS

\* The same of a probe's place, task and key.
LEMMA NewTask ==
  ASSUME NEW P, NEW T, NEW K, NEW A,
         NEW r \in [pc : P, todo : T, results : T, passed : T, key : K, answer : A],
         NEW pc \in P, NEW todo \in T, NEW k \in K
  PROVE  [r EXCEPT !.pc = pc, !.todo = todo, !.key = k]
              \in [pc : P, todo : T, results : T, passed : T, key : K, answer : A]
OBVIOUS

\* A probe that is answered keeps all but its place and its answer.
LEMMA AnsweredProbe ==
  ASSUME NEW r \in Probing!Probes, NEW a \in Answers
  PROVE  \E q \in Probing!Probes :
           /\ q = Probing!Answered(r, a)
           /\ q.pc = "done" /\ q.todo = r.todo /\ q.results = r.results
           /\ q.passed = r.passed /\ q.key = r.key
<1> DEFINE q == Probing!Answered(r, a)
<1>1. q \in Probing!Probes
  <2>1. "done" \in Probing!Phases BY DEF Probing!Phases
  <2>2. Probing!Probes =
          [pc : Probing!Phases, todo : SUBSET Capabilities, results : SUBSET Capabilities,
               passed : SUBSET Capabilities, key : Keys \cup {NoKey}, answer : Answers]
    BY DEF Probing!Probes, Answers
  <2>3. [r EXCEPT !.pc = "done", !.answer = a] \in Probing!Probes
    BY <2>1, <2>2, NewAnswer
  <2> QED BY <2>3 DEF Probing!Answered
<1>2. /\ q.pc = "done" /\ q.todo = r.todo /\ q.results = r.results
      /\ q.passed = r.passed /\ q.key = r.key
  BY DEF Probing!Probes, Probing!Answered, Probing!Phases, Answers
<1> QED BY <1>1, <1>2, Zenon

\* A probe that only moves on keeps all but its place.
LEMMA MovedProbe ==
  ASSUME NEW r \in Probing!Probes, NEW pc \in Probing!Phases
  PROVE  \E q \in Probing!Probes :
           /\ q = [r EXCEPT !.pc = pc]
           /\ q.pc = pc /\ q.todo = r.todo /\ q.results = r.results
           /\ q.passed = r.passed /\ q.key = r.key
<1> DEFINE q == [r EXCEPT !.pc = pc]
<1>1. /\ q \in Probing!Probes
      /\ q.pc = pc /\ q.todo = r.todo /\ q.results = r.results
      /\ q.passed = r.passed /\ q.key = r.key
  BY DEF Probing!Probes
<1> QED BY <1>1, Zenon

Begun(r, todo, k) == [r EXCEPT !.pc = "reserve", !.todo = todo, !.key = k]

\* A probe that begins has its capabilities to do and its key.
LEMMA BegunProbe ==
  ASSUME NEW r \in Probing!Probes, NEW todo, todo \subseteq Capabilities, NEW k \in Keys
  PROVE  \E q \in Probing!Probes :
           /\ q = Begun(r, todo, k)
           /\ q.pc = "reserve" /\ q.todo = todo /\ q.results = r.results
           /\ q.passed = r.passed /\ q.key = k
<1> DEFINE q == Begun(r, todo, k)
<1>1. q \in Probing!Probes
  <2>1. "reserve" \in Probing!Phases BY DEF Probing!Phases
  <2>2. k \in Keys \cup {NoKey} OBVIOUS
  <2>3. Probing!Probes =
          [pc : Probing!Phases, todo : SUBSET Capabilities, results : SUBSET Capabilities,
               passed : SUBSET Capabilities, key : Keys \cup {NoKey}, answer : Answers]
    BY DEF Probing!Probes, Answers
  <2> QED BY <2>1, <2>2, <2>3, NewTask DEF Begun
<1>2. /\ q.pc = "reserve" /\ q.todo = todo /\ q.results = r.results
      /\ q.passed = r.passed /\ q.key = k
  BY DEF Probing!Probes, Probing!Phases, Begun
<1> QED BY <1>1, <1>2, Zenon

Contacted(r, pc, todo, results, passed) ==
  [r EXCEPT !.pc = pc, !.todo = todo, !.results = results, !.passed = passed]

\* The same of a probe's place, task and results.
LEMMA NewResults ==
  ASSUME NEW P, NEW T, NEW K, NEW A,
         NEW r \in [pc : P, todo : T, results : T, passed : T, key : K, answer : A],
         NEW pc \in P, NEW x \in T, NEW y \in T, NEW z \in T
  PROVE  [r EXCEPT !.pc = pc, !.todo = x, !.results = y, !.passed = z]
              \in [pc : P, todo : T, results : T, passed : T, key : K, answer : A]
OBVIOUS

\* A probe that has heard of a capability has one result more.
LEMMA ContactedProbe ==
  ASSUME NEW r \in Probing!Probes, NEW pc \in Probing!Phases, NEW todo, todo \subseteq Capabilities,
         NEW results, results \subseteq Capabilities, NEW passed, passed \subseteq Capabilities
  PROVE  \E q \in Probing!Probes :
           /\ q = Contacted(r, pc, todo, results, passed)
           /\ q.pc = pc /\ q.todo = todo /\ q.results = results
           /\ q.passed = passed /\ q.key = r.key
<1> DEFINE q == Contacted(r, pc, todo, results, passed)
<1>0. PICK x, y, z \in SUBSET Capabilities : x = todo /\ y = results /\ z = passed OBVIOUS
<1>1. Contacted(r, pc, x, y, z) \in Probing!Probes
  <2>1. PICK T : T = SUBSET Capabilities OBVIOUS
  <2>2. Probing!Probes = [pc : Probing!Phases, todo : T, results : T, passed : T,
                          key : Keys \cup {NoKey}, answer : Answers]
    BY <2>1 DEF Probing!Probes, Answers
  <2>3. x \in T /\ y \in T /\ z \in T BY <2>1
  <2> QED BY <2>2, <2>3, NewResults DEF Contacted
<1>2. /\ q.pc = pc /\ q.todo = todo /\ q.results = results
      /\ q.passed = passed /\ q.key = r.key
  BY DEF Probing!Probes, Contacted
<1> QED BY <1>0, <1>1, <1>2, Zenon

\* No run stored looks like none.
LEMMA RunIsARun ==
  ASSUME NEW r \in Probing!Probes
  PROVE  /\ Probing!Run(r) \in Probing!Runs
         /\ Probing!Run(r) # Probing!NoRun
BY DEF Probing!Run, Probing!Runs, Probing!NoRun, Probing!Probes, Probing!OverallStatus, Probing!Statuses

\* What does not change the connection, its window, the keys or the histories.
RestStays == UNCHANGED <<openness, probeKeys, preferred, contacts, late>>

\* A probe is answered with whatever it has charged: nothing it has done is undone.
LEMMA AnswerKeeps ==
  ASSUME ProbingInv, NEW p \in Callers, NEW a \in Answers, Probing!Ends(p, a),
         probe[p].pc # "done", RestStays, room' \in [Connections -> 0 .. Limit],
         charges' = charges \/ charges' = [charges EXCEPT ![p] = @ + 1],
         runs' = runs \/ (probe[p].pc = "store" /\ runs' = [runs EXCEPT ![p] = Probing!Run(probe[p])])
  PROVE  ProbingInv'
<1>1. probe[p] \in Probing!Probes BY DEF ProbingInv, Probing!TypeOK
<1>2. PICK r \in Probing!Probes : r = probe[p] BY <1>1
<1>3. PICK q \in Probing!Probes :
        /\ q = Probing!Answered(r, a)
        /\ q.pc = "done" /\ q.todo = r.todo /\ q.results = r.results
        /\ q.passed = r.passed /\ q.key = r.key
  BY AnsweredProbe
<1>4. probe' = [probe EXCEPT ![p] = q] BY <1>2, <1>3 DEF Probing!Ends
<1>5. /\ charges' \in [Callers -> Nat]
      /\ \A i \in Callers : charges'[i] >= charges[i] /\ charges[i] \in Nat
  BY DEF ProbingInv, Probing!TypeOK
<1>6. Probing!Run(r) \in Probing!Runs /\ Probing!Run(q) = Probing!Run(r)
  BY <1>3, RunIsARun DEF Probing!Run, Probing!OverallStatus
<1>7. Probing!TypeOK'
  BY <1>2, <1>3, <1>4, <1>5, <1>6 DEF ProbingInv, Probing!TypeOK, RestStays
<1>8. ResultsAreOfContacts'
  BY <1>2, <1>3, <1>4 DEF ProbingInv, Probing!TypeOK, ResultsAreOfContacts, RestStays
<1>9. ChargesCover'
  <2> SUFFICES ASSUME NEW i \in Callers, ~Admin /\ Provider \notin Own
               PROVE  Cardinality(probe'[i].results)
                        + (IF probe'[i].pc \in {"key", "contact"} THEN 1 ELSE 0) <= charges'[i]
    BY DEF ChargesCover
  <2>1. Cardinality(probe[i].results)
          + (IF probe[i].pc \in {"key", "contact"} THEN 1 ELSE 0) <= charges[i]
    BY DEF ProbingInv, ChargesCover
  <2>2. Cardinality(probe[i].results) \in Nat
    BY ProbeAssumption, FS_CardinalityType, FS_Subset DEF ProbingInv, Probing!TypeOK, Probing!Probes
  <2>3. CASE i = p
    <3>1. probe'[i].pc = "done" /\ probe'[i].results = probe[i].results
      BY <1>2, <1>3, <1>4, <2>3 DEF ProbingInv, Probing!TypeOK
    <3>2. Cardinality(probe[i].results) <= charges[i] /\ charges[i] \in Nat /\ charges'[i] \in Nat
      BY <1>5, <2>1, <2>2
    <3> QED BY <1>5, <2>2, <3>1, <3>2
  <2>4. CASE i # p BY <1>4, <1>5, <2>1, <2>2, <2>4 DEF ProbingInv, Probing!TypeOK
  <2> QED BY <2>3, <2>4
<1>10. LateAfterClosing'
  BY <1>3, <1>4 DEF ProbingInv, Probing!TypeOK, LateAfterClosing, RestStays,
     Probing!Closed, Probing!Metered, Probing!Unmetered
<1>11. RunsAreOfTheEnd'
  BY <1>2, <1>3, <1>4, <1>6 DEF ProbingInv, Probing!TypeOK, RunsAreOfTheEnd
<1> QED BY <1>7, <1>8, <1>9, <1>10, <1>11 DEF ProbingInv

\* Results are counted.
LEMMA ResultsAreCounted ==
  ASSUME Probing!TypeOK, NEW p \in Callers
  PROVE  IsFiniteSet(probe[p].results) /\ Cardinality(probe[p].results) \in Nat
<1>1. probe[p].results \subseteq Capabilities BY DEF Probing!TypeOK, Probing!Probes
<1> QED BY <1>1, ProbeAssumption, FS_CardinalityType, FS_Subset

\* A reservation that is granted leaves the window in its bounds, and is
\* charged unless the connection is used freely.
LEMMA ReservationCharges ==
  ASSUME Probing!TypeOK, NEW p \in Callers, Probing!Charged(p)
  PROVE  /\ room' \in [Connections -> 0 .. Limit]
         /\ ~Probing!Closed
         /\ charges' = charges \/ charges' = [charges EXCEPT ![p] = @ + 1]
         /\ ~Admin /\ Provider \notin Own => charges' = [charges EXCEPT ![p] = @ + 1]
<1>1. CASE Probing!Granted(Provider) /\ charges' = [charges EXCEPT ![p] = @ + 1]
  BY <1>1, ProbeAssumption
  DEF Probing!TypeOK, Probing!Granted, Probing!Closed, Probing!Metered, Probing!Unmetered
<1>2. CASE Probing!GrantedFreely(Provider) /\ UNCHANGED charges
  BY <1>2, ProbeAssumption
  DEF Probing!TypeOK, Probing!GrantedFreely, Probing!Closed, Probing!Metered, Probing!Unmetered
<1> QED BY <1>1, <1>2 DEF Probing!Charged

\* A probe begins (probe/route.ts 10-37).
LEMMA AccessKeeps ==
  ASSUME ProbingInv, NEW p \in Callers, Probing!Access(p)
  PROVE  ProbingInv'
<1>0. probe[p].pc = "new" BY DEF Probing!Access, Probing!At
<1>1. CASE Probing!Accessible
  <2>1. PICK todo \in (SUBSET Capabilities) \ {{}}, named \in Keys \cup {NoKey} :
          probe' = [probe EXCEPT ![p].pc = "reserve", ![p].todo = todo,
                                 ![p].key = IF named = NoKey THEN preferred ELSE named]
    BY <1>1 DEF Probing!Access
  <2>2. PICK k \in Keys : k = IF named = NoKey THEN preferred ELSE named
    BY <2>1 DEF ProbingInv, Probing!TypeOK
  <2>13. todo \subseteq Capabilities /\ todo # {} OBVIOUS
  <2>3. probe[p] \in Probing!Probes BY DEF ProbingInv, Probing!TypeOK
  <2>4. PICK r \in Probing!Probes : r = probe[p] BY <2>3
  <2>5. PICK q \in Probing!Probes :
          /\ q = Begun(r, todo, k)
          /\ q.pc = "reserve" /\ q.todo = todo /\ q.results = r.results
          /\ q.passed = r.passed /\ q.key = k
    BY <2>13, BegunProbe
  <2>6. probe' = [probe EXCEPT ![p] = q] BY <2>1, <2>2, <2>4, <2>5 DEF Begun
  <2>7. RestStays /\ UNCHANGED <<room, runs, charges>>
    BY DEF Probing!Access, Probing!connection, RestStays
  <2>8. Probing!TypeOK'
    BY <2>13, <2>4, <2>5, <2>6, <2>7 DEF ProbingInv, Probing!TypeOK, RestStays
  <2>9. ResultsAreOfContacts'
    BY <1>0, <2>4, <2>5, <2>6, <2>7
    DEF ProbingInv, Probing!TypeOK, ResultsAreOfContacts, RestStays
  <2>10. ChargesCover'
    BY <1>0, <2>4, <2>5, <2>6, <2>7 DEF ProbingInv, Probing!TypeOK, ChargesCover
  <2>11. LateAfterClosing'
    BY <2>5, <2>6, <2>7 DEF ProbingInv, Probing!TypeOK, LateAfterClosing, RestStays,
       Probing!Closed, Probing!Metered, Probing!Unmetered
  <2>12. RunsAreOfTheEnd'
    BY <1>0, <2>4, <2>5, <2>6, <2>7 DEF ProbingInv, Probing!TypeOK, RunsAreOfTheEnd
  <2> QED BY <2>8, <2>9, <2>10, <2>11, <2>12 DEF ProbingInv
<1>2. CASE ~Probing!Accessible
  <2>1. 404 \in Answers BY DEF Answers
  <2>2. RestStays /\ UNCHANGED <<room, runs, charges>>
    BY DEF Probing!Access, Probing!connection, RestStays
  <2>3. Probing!Ends(p, 404) BY <1>2 DEF Probing!Access
  <2>4. room' \in [Connections -> 0 .. Limit] BY <2>2 DEF ProbingInv, Probing!TypeOK
  <2> QED BY <1>0, <2>1, <2>2, <2>3, <2>4, AnswerKeeps
<1> QED BY <1>1, <1>2

\* One step forward that sends nothing: with a reservation for what is still
\* to be reserved, or with one in hand.
LEMMA MoveKeeps ==
  ASSUME ProbingInv, NEW p \in Callers, NEW pc \in {"key", "contact"},
         probe' = [probe EXCEPT ![p].pc = pc], RestStays, UNCHANGED runs,
         room' \in [Connections -> 0 .. Limit],
         \/ probe[p].pc = "reserve" /\ Probing!Charged(p)
         \/ probe[p].pc = "key" /\ UNCHANGED charges
  PROVE  ProbingInv'
<1>1. probe[p] \in Probing!Probes /\ pc \in Probing!Phases
  BY DEF ProbingInv, Probing!TypeOK, Probing!Phases
<1>2. PICK r \in Probing!Probes : r = probe[p] BY <1>1
<1>3. PICK q \in Probing!Probes :
        /\ q = [r EXCEPT !.pc = pc]
        /\ q.pc = pc /\ q.todo = r.todo /\ q.results = r.results
        /\ q.passed = r.passed /\ q.key = r.key
  BY <1>1, MovedProbe
<1>4. probe' = [probe EXCEPT ![p] = q] BY <1>2, <1>3
<1>5. /\ charges' = charges \/ charges' = [charges EXCEPT ![p] = @ + 1]
      /\ probe[p].pc = "reserve" /\ ~Admin /\ Provider \notin Own =>
           charges' = [charges EXCEPT ![p] = @ + 1]
      /\ probe[p].pc = "reserve" => ~Probing!Closed
  BY ReservationCharges DEF ProbingInv
<1>6. Probing!TypeOK'
  BY <1>2, <1>3, <1>4, <1>5 DEF ProbingInv, Probing!TypeOK, RestStays
<1>7. ResultsAreOfContacts'
  BY <1>2, <1>3, <1>4 DEF ProbingInv, Probing!TypeOK, ResultsAreOfContacts, RestStays
<1>8. ChargesCover'
  <2> SUFFICES ASSUME NEW i \in Callers, ~Admin /\ Provider \notin Own
               PROVE  Cardinality(probe'[i].results)
                        + (IF probe'[i].pc \in {"key", "contact"} THEN 1 ELSE 0) <= charges'[i]
    BY DEF ChargesCover
  <2>1. Cardinality(probe[i].results)
          + (IF probe[i].pc \in {"key", "contact"} THEN 1 ELSE 0) <= charges[i]
    BY DEF ProbingInv, ChargesCover
  <2>2. Cardinality(probe[i].results) \in Nat /\ charges[i] \in Nat
    BY ResultsAreCounted DEF ProbingInv, Probing!TypeOK
  <2>3. CASE i # p
    <3>1. probe'[i] = probe[i] /\ charges'[i] = charges[i]
      BY <1>4, <1>5, <2>3 DEF ProbingInv, Probing!TypeOK
    <3> QED BY <2>1, <3>1
  <2>4. CASE i = p
    <3>1. probe'[i].results = probe[i].results BY <1>2, <1>3, <1>4, <2>4 DEF ProbingInv, Probing!TypeOK
    <3>2. CASE probe[p].pc = "reserve"
      <4>1. charges'[i] = charges[i] + 1 BY <1>5, <2>4, <3>2 DEF ProbingInv, Probing!TypeOK
      <4>2. Cardinality(probe[i].results) <= charges[i] BY <2>1, <2>2, <2>4, <3>2
      <4> QED BY <2>2, <3>1, <4>1, <4>2
    <3>3. CASE probe[p].pc = "key"
      <4>1. charges'[i] = charges[i] BY <2>4, <3>3
      <4>2. Cardinality(probe[i].results) + 1 <= charges[i] BY <2>1, <2>2, <2>4, <3>3
      <4> QED BY <2>2, <3>1, <4>1, <4>2
    <3> QED BY <3>2, <3>3
  <2> QED BY <2>3, <2>4
<1>9. LateAfterClosing'
  <2>1. late[p] = 0 BY <1>5 DEF ProbingInv, LateAfterClosing
  <2> QED BY <1>2, <1>3, <1>4, <2>1 DEF ProbingInv, Probing!TypeOK, LateAfterClosing, RestStays,
          Probing!Closed, Probing!Metered, Probing!Unmetered
<1>10. RunsAreOfTheEnd'
  BY <1>2, <1>3, <1>4 DEF ProbingInv, Probing!TypeOK, RunsAreOfTheEnd
<1> QED BY <1>6, <1>7, <1>8, <1>9, <1>10 DEF ProbingInv

\* A capability's request is reserved, refused or not answered for
\* (probe/route.ts 38-56).
LEMMA ReserveKeeps ==
  ASSUME ProbingInv, NEW p \in Callers,
         Probing!Reserve(p) \/ Probing!ReserveRefused(p) \/ Probing!ReserveUnavailable(p)
  PROVE  ProbingInv'
<1>1. CASE Probing!Reserve(p)
  <2>1. /\ probe[p].pc = "reserve" /\ Probing!Charged(p) /\ RestStays /\ UNCHANGED runs
        /\ probe' = [probe EXCEPT ![p].pc = "key"]
    BY <1>1 DEF Probing!Reserve, Probing!At, Probing!connection, RestStays
  <2>2. room' \in [Connections -> 0 .. Limit] BY <2>1, ReservationCharges DEF ProbingInv
  <2> QED BY <2>1, <2>2, MoveKeeps
<1>2. CASE Probing!ReserveRefused(p)
  <2>1. /\ probe[p].pc = "reserve" /\ RestStays /\ UNCHANGED <<room, runs, charges>>
        /\ Probing!Ends(p, 429) \/ Probing!Ends(p, 404)
    BY <1>2 DEF Probing!ReserveRefused, Probing!At, Probing!connection, RestStays,
       Probing!Limited, Probing!Inaccessible
  <2>2. 429 \in Answers /\ 404 \in Answers BY DEF Answers
  <2>3. room' \in [Connections -> 0 .. Limit] BY <2>1 DEF ProbingInv, Probing!TypeOK
  <2> QED BY <2>1, <2>2, <2>3, AnswerKeeps
<1>3. CASE Probing!ReserveUnavailable(p)
  <2>1. /\ probe[p].pc = "reserve" /\ RestStays /\ UNCHANGED runs
        /\ Probing!Charged(p) \/ UNCHANGED <<room, charges>>
        /\ Probing!Ends(p, 503)
    BY <1>3 DEF Probing!ReserveUnavailable, Probing!At, Probing!connection, RestStays
  <2>2. 503 \in Answers BY DEF Answers
  <2>3. /\ room' \in [Connections -> 0 .. Limit]
        /\ charges' = charges \/ charges' = [charges EXCEPT ![p] = @ + 1]
    BY <2>1, ReservationCharges DEF ProbingInv, Probing!TypeOK
  <2> QED BY <2>1, <2>2, <2>3, AnswerKeeps
<1> QED BY <1>1, <1>2, <1>3

\* The key is read, or cannot be used any more (providers.ts 32-46).
LEMMA ReadProbeKeyKeeps ==
  ASSUME ProbingInv, NEW p \in Callers, Probing!ReadKey(p)
  PROVE  ProbingInv'
<1>1. /\ probe[p].pc = "key" /\ RestStays /\ UNCHANGED <<room, runs, charges>>
      /\ probe' = [probe EXCEPT ![p].pc = "contact"] \/ Probing!Ends(p, 400)
  BY DEF Probing!ReadKey, Probing!At, Probing!connection, RestStays
<1>2. 400 \in Answers BY DEF Answers
<1>3. room' \in [Connections -> 0 .. Limit] BY <1>1 DEF ProbingInv, Probing!TypeOK
<1> QED BY <1>1, <1>2, <1>3, AnswerKeeps, MoveKeeps

\* The provider is contacted for one capability (probe-behavior.ts 65-154).
LEMMA ContactKeeps ==
  ASSUME ProbingInv, NEW p \in Callers, Probing!Contact(p)
  PROVE  ProbingInv'
<1> DEFINE Rest(c) == probe[p].todo \ {c}
           Place(c) == IF Rest(c) = {} THEN "store" ELSE "reserve"
           Heard(c) == probe[p].results \cup {c}
           Passed(c, pass) == IF pass THEN probe[p].passed \cup {c} ELSE probe[p].passed
<1>0. probe[p].pc = "contact" /\ probe[p] \in Probing!Probes /\ probe[p].key \in Keys
  BY DEF Probing!Contact, Probing!At, ProbingInv, Probing!TypeOK
<1>1. PICK c \in probe[p].todo, pass \in BOOLEAN :
        /\ probe' = [probe EXCEPT ![p].pc = Place(c), ![p].todo = Rest(c),
                                  ![p].results = Heard(c),
                                  ![p].passed = Passed(c, pass)]
        /\ contacts' = [contacts EXCEPT ![p] =
             [d \in DOMAIN contacts[p] \cup {c} |->
                IF d = c THEN probe[p].key ELSE contacts[p][d]]]
  <2>1. PICK c \in probe[p].todo, pass \in BOOLEAN :
          /\ probe' = [probe EXCEPT
                          ![p].pc = IF Rest(c) = {} THEN "store" ELSE "reserve",
                          ![p].todo = Rest(c),
                          ![p].results = @ \cup {c},
                          ![p].passed = IF pass THEN @ \cup {c} ELSE @]
          /\ contacts' = [contacts EXCEPT ![p] = [d \in DOMAIN @ \cup {c} |->
                                                     IF d = c THEN probe[p].key ELSE @[d]]]
    BY DEF Probing!Contact
  <2>2. DOMAIN probe = Callers /\ DOMAIN contacts = Callers BY DEF ProbingInv, Probing!TypeOK
  <2> QED BY <2>1, <2>2, <1>0
<1>2. c \in Capabilities BY <1>0, <1>1 DEF Probing!Probes
<1>3. PICK r \in Probing!Probes : r = probe[p] BY <1>0
<1>4. PICK pc, todo, results, passed :
        /\ pc = Place(c) /\ todo = Rest(c) /\ results = Heard(c) /\ passed = Passed(c, pass)
  OBVIOUS
<1>5. /\ pc \in {"store", "reserve"} /\ pc \in Probing!Phases
      /\ todo \subseteq Capabilities /\ results \subseteq Capabilities
      /\ passed \subseteq results /\ passed \subseteq Capabilities
      /\ results = r.results \cup {c}
      /\ pc = "store" <=> todo = {}
  <2>1. /\ probe[p].todo \subseteq Capabilities /\ probe[p].results \subseteq Capabilities
        /\ probe[p].passed \subseteq probe[p].results
    BY <1>0 DEF Probing!Probes, ProbingInv, Probing!TypeOK
  <2>2. pc = "store" \/ pc = "reserve" BY <1>4
  <2>3. pc \in Probing!Phases BY <2>2 DEF Probing!Phases
  <2>4. pc = "store" <=> todo = {} BY <1>4
  <2>5. /\ todo \subseteq Capabilities /\ results \subseteq Capabilities
        /\ results = r.results \cup {c}
    BY <1>2, <1>3, <1>4, <2>1
  <2>6. passed \subseteq results
    <3>1. CASE pass BY <1>4, <2>1, <3>1
    <3>2. CASE ~pass BY <1>4, <2>1, <3>2
    <3> QED BY <3>1, <3>2
  <2> QED BY <2>2, <2>3, <2>4, <2>5, <2>6
<1>6. PICK q \in Probing!Probes :
        /\ q = Contacted(r, pc, todo, results, passed)
        /\ q.pc = pc /\ q.todo = todo /\ q.results = results
        /\ q.passed = passed /\ q.key = r.key
  BY <1>5, ContactedProbe
<1>7. probe' = [probe EXCEPT ![p] = q] BY <1>1, <1>3, <1>4, <1>6 DEF Contacted
<1> HIDE DEF Rest, Place, Heard, Passed
<1>8. /\ late' = [late EXCEPT ![p] = IF Probing!Closed THEN @ + 1 ELSE @]
      /\ UNCHANGED <<openness, probeKeys, preferred, room, runs, charges>>
  BY DEF Probing!Contact, Probing!connection
<1>9. PICK sent : /\ sent = [d \in DOMAIN contacts[p] \cup {c} |->
                               IF d = c THEN probe[p].key ELSE contacts[p][d]]
                  /\ contacts' = [contacts EXCEPT ![p] = sent]
  BY <1>1
<1>10. /\ DOMAIN sent = results
       /\ \A d \in results : sent[d] = r.key
  BY <1>3, <1>5, <1>9 DEF ProbingInv, ResultsAreOfContacts
<1>11. Probing!TypeOK'
  <2>1. probe' \in [Callers -> Probing!Probes]
    BY <1>7 DEF ProbingInv, Probing!TypeOK
  <2>2. ASSUME NEW i \in Callers
        PROVE  /\ probe'[i].passed \subseteq probe'[i].results
               /\ probe'[i].pc \in {"reserve", "key", "contact"} =>
                    probe'[i].todo # {} /\ probe'[i].key \in Keys
    BY <1>0, <1>3, <1>5, <1>6, <1>7 DEF ProbingInv, Probing!TypeOK
  <2>3. /\ DOMAIN contacts' = Callers
        /\ \A i \in Callers : /\ DOMAIN contacts'[i] \subseteq Capabilities
                              /\ \A d \in DOMAIN contacts'[i] : contacts'[i][d] \in Keys
    BY <1>0, <1>3, <1>5, <1>9, <1>10 DEF ProbingInv, Probing!TypeOK
  <2>4. late' \in [Callers -> Nat] BY <1>8 DEF ProbingInv, Probing!TypeOK
  <2> QED BY <2>1, <2>2, <2>3, <2>4, <1>8 DEF ProbingInv, Probing!TypeOK
<1>12. ResultsAreOfContacts'
  <2> SUFFICES ASSUME NEW i \in Callers
               PROVE  /\ DOMAIN contacts'[i] = probe'[i].results
                      /\ \A d \in DOMAIN contacts'[i] : contacts'[i][d] = probe'[i].key
                      /\ probe'[i].pc = "new" => probe'[i].results = {}
    BY DEF ResultsAreOfContacts
  <2>1. CASE i = p
    <3>1. contacts'[i] = sent /\ probe'[i] = q
      BY <1>7, <1>9, <2>1 DEF ProbingInv, Probing!TypeOK
    <3> QED BY <1>5, <1>6, <1>10, <3>1
  <2>2. CASE i # p
    <3>1. contacts'[i] = contacts[i] /\ probe'[i] = probe[i]
      BY <1>7, <1>9, <2>2 DEF ProbingInv, Probing!TypeOK
    <3> QED BY <3>1 DEF ProbingInv, ResultsAreOfContacts
  <2> QED BY <2>1, <2>2
<1>13. ChargesCover'
  <2> SUFFICES ASSUME NEW i \in Callers, ~Admin /\ Provider \notin Own
               PROVE  Cardinality(probe'[i].results)
                        + (IF probe'[i].pc \in {"key", "contact"} THEN 1 ELSE 0) <= charges'[i]
    BY DEF ChargesCover
  <2>1. Cardinality(probe[i].results)
          + (IF probe[i].pc \in {"key", "contact"} THEN 1 ELSE 0) <= charges[i]
    BY DEF ProbingInv, ChargesCover
  <2>2. Cardinality(probe[i].results) \in Nat /\ charges[i] \in Nat /\ IsFiniteSet(probe[i].results)
    BY ResultsAreCounted DEF ProbingInv, Probing!TypeOK
  <2>3. CASE i # p
    <3>1. probe'[i] = probe[i] /\ charges'[i] = charges[i]
      BY <1>7, <1>8, <2>3 DEF ProbingInv, Probing!TypeOK
    <3> QED BY <2>1, <3>1
  <2>4. CASE i = p
    <3>1. probe'[i].results = probe[i].results \cup {c} /\ ~(probe'[i].pc \in {"key", "contact"})
      BY <1>3, <1>5, <1>6, <1>7, <2>4 DEF ProbingInv, Probing!TypeOK
    <3>2. Cardinality(probe[i].results \cup {c}) \in Nat
          /\ Cardinality(probe[i].results \cup {c}) <= Cardinality(probe[i].results) + 1
      <4>1. Cardinality(probe[i].results \cup {c}) =
              IF c \in probe[i].results THEN Cardinality(probe[i].results)
                                        ELSE Cardinality(probe[i].results) + 1
        BY <2>2, FS_AddElement
      <4> QED BY <2>2, <4>1
    <3>3. Cardinality(probe[i].results) + 1 <= charges[i] BY <1>0, <2>1, <2>2, <2>4
    <3>4. charges'[i] = charges[i] BY <1>8
    <3> QED BY <2>2, <3>1, <3>2, <3>3, <3>4
  <2> QED BY <2>3, <2>4
<1>14. LateAfterClosing'
  <2>1. late[p] = 0 BY <1>0 DEF ProbingInv, LateAfterClosing
  <2>2. Probing!Closed' <=> Probing!Closed
    BY <1>8 DEF Probing!Closed, Probing!Metered, Probing!Unmetered
  <2> SUFFICES ASSUME NEW i \in Callers
               PROVE  /\ late'[i] <= 1
                      /\ ~Probing!Closed \/ probe'[i].pc \in {"key", "contact"} => late'[i] = 0
    BY <2>2 DEF LateAfterClosing
  <2>3. CASE i = p
    <3>1. probe'[i].pc = pc /\ late'[i] = IF Probing!Closed THEN 1 ELSE 0
      BY <1>6, <1>7, <1>8, <2>1, <2>3 DEF ProbingInv, Probing!TypeOK
    <3> QED BY <1>5, <3>1
  <2>4. CASE i # p
    <3>1. late'[i] = late[i] /\ probe'[i] = probe[i]
      BY <1>7, <1>8, <2>4 DEF ProbingInv, Probing!TypeOK
    <3> QED BY <3>1 DEF ProbingInv, LateAfterClosing
  <2> QED BY <2>3, <2>4
<1>15. RunsAreOfTheEnd'
  <2>1. runs[p] = Probing!NoRun BY <1>0 DEF ProbingInv, RunsAreOfTheEnd
  <2> QED BY <1>5, <1>6, <1>7, <1>8, <2>1 DEF ProbingInv, Probing!TypeOK, RunsAreOfTheEnd
<1> QED BY <1>11, <1>12, <1>13, <1>14, <1>15 DEF ProbingInv

\* The run is stored, or not, or the probe fails (probe/route.ts 70-98).
LEMMA StoreKeeps ==
  ASSUME ProbingInv, NEW p \in Callers, Probing!Store(p) \/ Probing!Fail(p)
  PROVE  ProbingInv'
<1>1. /\ RestStays /\ UNCHANGED <<room, charges>>
      /\ probe[p].pc # "done"
      /\ \/ runs' = runs
         \/ probe[p].pc = "store" /\ runs' = [runs EXCEPT ![p] = Probing!Run(probe[p])]
  BY DEF Probing!Store, Probing!Fail, Probing!Stored, Probing!At, Probing!connection, RestStays
<1>2. 200 \in Answers /\ 500 \in Answers BY DEF Answers
<1>3. Probing!Ends(p, 200) \/ Probing!Ends(p, 500) BY DEF Probing!Store, Probing!Fail
<1>4. room' \in [Connections -> 0 .. Limit] BY <1>1 DEF ProbingInv, Probing!TypeOK
<1> QED BY <1>1, <1>2, <1>3, <1>4, AnswerKeeps

\* What others do to the window and the keys says nothing of a probe.
LEMMA OthersKeep ==
  ASSUME ProbingInv, UNCHANGED <<openness, probe, runs, charges, contacts, late>>,
         room' \in [Connections -> 0 .. Limit], probeKeys' \subseteq Keys, preferred' \in Keys
  PROVE  ProbingInv'
<1>1. Probing!TypeOK' BY DEF ProbingInv, Probing!TypeOK
<1>2. LateAfterClosing'
  BY DEF ProbingInv, LateAfterClosing, Probing!Closed, Probing!Metered, Probing!Unmetered
<1> QED BY <1>1, <1>2 DEF ProbingInv, ResultsAreOfContacts, ChargesCover, RunsAreOfTheEnd

\* The owner closes or opens the connection (connections/[id]/route.ts 17-56).
LEMMA ProbeEditKeeps == ASSUME ProbingInv, Probing!EditConnection PROVE ProbingInv'
<1>1. PICK w \in Probing!Settings : openness' = [openness EXCEPT ![Provider] = w]
  BY DEF Probing!EditConnection, Probing!Edited
<1>2. /\ late' = [p \in Callers |-> IF Probing!Closed' THEN late[p] ELSE 0]
      /\ UNCHANGED <<room, probeKeys, preferred, probe, runs, charges, contacts>>
  BY DEF Probing!EditConnection
<1>3. Probing!TypeOK' BY <1>1, <1>2 DEF ProbingInv, Probing!TypeOK
<1>4. LateAfterClosing'
  <2> SUFFICES ASSUME NEW i \in Callers
               PROVE  /\ late'[i] <= 1
                      /\ ~Probing!Closed' \/ probe'[i].pc \in {"key", "contact"} => late'[i] = 0
    BY DEF LateAfterClosing
  <2>1. late'[i] = IF Probing!Closed' THEN late[i] ELSE 0 BY <1>2
  <2> QED BY <1>2, <2>1 DEF ProbingInv, LateAfterClosing
<1> QED BY <1>2, <1>3, <1>4 DEF ProbingInv, ResultsAreOfContacts, ChargesCover, RunsAreOfTheEnd

\* At first nothing is sent, charged or stored.
LEMMA ProbingStarts == Probing!Init => ProbingInv
<1> SUFFICES ASSUME Probing!Init PROVE ProbingInv OBVIOUS
<1>1. /\ Probing!Fresh \in Probing!Probes /\ Probing!Fresh.pc = "new"
      /\ Probing!Fresh.results = {} /\ Probing!Fresh.passed = {}
  BY DEF Probing!Fresh, Probing!Probes, Probing!Phases
<1>2. PICK f \in Probing!Probes : /\ probe = [p \in Callers |-> f]
                                  /\ f.pc = "new" /\ f.results = {} /\ f.passed = {}
  BY <1>1 DEF Probing!Init
<1>3. Probing!NoRun \in Probing!Runs BY DEF Probing!NoRun, Probing!Runs
<1>4. \A p \in Callers : DOMAIN contacts[p] = {}
  BY DEF Probing!Init, Probing!NoContacts
<1>5. Probing!TypeOK
  BY <1>2, <1>3, <1>4, ProbeAssumption DEF Probing!Init, Probing!TypeOK
<1>6. ResultsAreOfContacts BY <1>2, <1>4 DEF ResultsAreOfContacts
<1>7. ChargesCover BY <1>2, FS_EmptySet DEF ChargesCover, Probing!Init
<1>8. LateAfterClosing BY DEF LateAfterClosing, Probing!Init
<1>9. RunsAreOfTheEnd BY <1>2 DEF RunsAreOfTheEnd, Probing!Init
<1> QED BY <1>5, <1>6, <1>7, <1>8, <1>9 DEF ProbingInv

\* Every step of a probe and of the others keeps the invariant.
LEMMA ProbingStays == ProbingInv /\ [Probing!Next]_(Probing!vars) => ProbingInv'
<1> SUFFICES ASSUME ProbingInv, [Probing!Next]_(Probing!vars) PROVE ProbingInv'
  OBVIOUS
<1>0. /\ room \in [Connections -> 0 .. Limit] /\ probeKeys \subseteq Keys /\ preferred \in Keys
  BY DEF ProbingInv, Probing!TypeOK
<1>1. ASSUME NEW p \in Callers, Probing!Step(p) PROVE ProbingInv'
  BY <1>1, AccessKeeps, ReserveKeeps, ReadProbeKeyKeeps, ContactKeeps, StoreKeeps, Zenon
  DEF Probing!Step
<1>2. CASE Probing!OthersSpend
  <2>1. room' \in [Connections -> 0 .. Limit]
    BY <1>0, <1>2, ProbeAssumption DEF Probing!OthersSpend, Probing!SpentElsewhere, Probing!Granted
  <2> QED BY <1>0, <1>2, <2>1, OthersKeep DEF Probing!OthersSpend, Probing!connection
<1>3. CASE Probing!NewWindow
  <2>1. room' \in [Connections -> 0 .. Limit]
    BY <1>0, <1>3, ProbeAssumption DEF Probing!NewWindow, Probing!WindowEnded
  <2> QED BY <1>0, <1>3, <2>1, OthersKeep DEF Probing!NewWindow, Probing!connection
<1>4. ASSUME NEW k \in Keys, Probing!SetKeyEnabled(k) \/ Probing!SelectKey(k) PROVE ProbingInv'
  BY <1>0, <1>4, OthersKeep DEF Probing!SetKeyEnabled, Probing!SelectKey
<1>5. CASE UNCHANGED Probing!vars
  BY <1>0, <1>5, OthersKeep DEF Probing!vars
<1> QED BY <1>1, <1>2, <1>3, <1>4, <1>5, ProbeEditKeeps DEF Probing!Next

\* The inductive invariant of the probes.
THEOREM ProbingInvariant == ProvidersSpec => []ProbingInv
BY PartsBehave, ProbingStarts, ProbingStays, PTL DEF Probing!Spec

\* However many capabilities a probe checks, each request it sends to somebody
\* else's connection was charged (probe/route.ts 35-69).
THEOREM ContactsAreAlwaysCharged == ProvidersSpec => []ContactsAreCharged
<1>1. ProbingInv => ContactsAreCharged
  <2> SUFFICES ASSUME ProbingInv, NEW p \in Callers, ~Admin /\ Provider \notin Own
               PROVE  Cardinality(DOMAIN contacts[p]) <= charges[p]
    BY DEF ContactsAreCharged
  <2>1. Cardinality(probe[p].results) \in Nat /\ charges[p] \in Nat
    BY ResultsAreCounted DEF ProbingInv, Probing!TypeOK
  <2>2. Cardinality(probe[p].results)
          + (IF probe[p].pc \in {"key", "contact"} THEN 1 ELSE 0) <= charges[p]
    BY DEF ProbingInv, ChargesCover
  <2>3. DOMAIN contacts[p] = probe[p].results BY DEF ProbingInv, ResultsAreOfContacts
  <2> QED BY <2>1, <2>2, <2>3
<1> QED BY <1>1, ProbingInvariant, PTL

\* A connection that is closed gets one request more of each probe at most
\* (probe/route.ts 38-69).
THEOREM ClosedAlwaysMeansOneMoreAtMost == ProvidersSpec => []ClosedMeansOneMoreAtMost
<1>1. ProbingInv => ClosedMeansOneMoreAtMost
  BY DEF ProbingInv, LateAfterClosing, ClosedMeansOneMoreAtMost
<1> QED BY <1>1, ProbingInvariant, PTL

\* A run that is stored is whole (probe/route.ts 70-83, probe.ts 14-19).
THEOREM StoredRunsAreAlwaysWhole == ProvidersSpec => []StoredRunsAreWhole
<1>1. ProbingInv => StoredRunsAreWhole
  <2> SUFFICES ASSUME ProbingInv, NEW p \in Callers, runs[p] # Probing!NoRun
               PROVE  /\ probe[p].todo = {}
                      /\ runs[p].checks = DOMAIN contacts[p] /\ runs[p].checks # {}
                      /\ \A c \in DOMAIN contacts[p] : contacts[p][c] = runs[p].key
                      /\ runs[p].status = "passed" <=> runs[p].passed = runs[p].checks
                      /\ runs[p].status = "failed" <=> runs[p].passed = {}
    BY DEF StoredRunsAreWhole
  <2>1. PICK r : r = probe[p] OBVIOUS
  <2>2. /\ r.todo = {} /\ r.results # {} /\ runs[p] = Probing!Run(r)
        /\ DOMAIN contacts[p] = r.results
        /\ \A c \in DOMAIN contacts[p] : contacts[p][c] = r.key
    BY <2>1 DEF ProbingInv, RunsAreOfTheEnd, ResultsAreOfContacts
  <2>3. /\ runs[p].checks = r.results /\ runs[p].passed = r.passed /\ runs[p].key = r.key
        /\ runs[p].status = Probing!OverallStatus(r)
    BY <2>2 DEF Probing!Run
  <2>4. /\ Probing!OverallStatus(r) = "passed" <=> r.passed = r.results
        /\ Probing!OverallStatus(r) = "failed" <=> r.passed = {}
    BY <2>2 DEF Probing!OverallStatus
  <2> QED BY <2>1, <2>2, <2>3, <2>4
<1> QED BY <1>1, ProbingInvariant, PTL

-----------------------------------------------------------------------------

\* Every variable of the four parts keeps its type: the rows and the handlers'
\* own variables as each part has them.
THEOREM ProvidersTypes ==
  ProvidersSpec => [](TypeOK /\ Results!TypeOK /\ Rotation!TypeOK /\ Probing!TypeOK)
<1>1. IInv /\ ResultsInv /\ RotationInv /\ ProbingInv =>
        TypeOK /\ Results!TypeOK /\ Rotation!TypeOK /\ Probing!TypeOK
  BY DEF IInv, ResultsInv, RotationInv, ProbingInv
<1> QED BY ServiceInvariant, ResultsInvariant, RotationInvariant, ProbingInvariant, <1>1, PTL

=============================================================================
