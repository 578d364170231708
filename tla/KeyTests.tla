------------------------------ MODULE KeyTests ------------------------------
(***************************************************************************)
(* The tests of a provider's keys and of its connection                    *)
(* (POST apps/web/app/api/providers/[id]/keys/[keyId] and                  *)
(* apps/web/app/api/connections/[id]): the row is read, then the key, the  *)
(* provider is asked, and the result is written whatever became of the key *)
(* meanwhile.  A new secret makes the key's result NULL again.             *)
(*                                                                         *)
(* A result is named by the secret it was found with: passed and failed    *)
(* make no difference here.                                                *)
(***************************************************************************)
CONSTANTS
  Secrets,
  Keys,
  Tests,          \* tests that may be in progress at once
  Untested,       \* a result that is NULL
  Untried         \* the result of a test that found no enabled key

VARIABLES
  secret,         \* key -> ciphertext
  selected,       \* selected_provider_key_id
  keyResult,      \* key -> last_test_status
  result,         \* last_test_status of the connection
  test,           \* test -> the handler's own variables
  \* history
  overtaken,      \* keys whose result is of a test that a new secret overtook
  moved           \* the selection or its key changed after the last result's test began

vars == <<secret, selected, keyResult, result, test, overtaken, moved>>

Results == Secrets \cup {Untested, Untried}
NoTest == [pc |-> "idle", key |-> Untested, whole |-> FALSE, secret |-> Untested, stale |-> FALSE]

\* A test is of a key, or of the whole connection with the key that is selected.
TypeOK ==
  /\ secret \in [Keys -> Secrets]
  /\ selected \in Keys
  /\ keyResult \in [Keys -> Results]
  /\ result \in Results
  /\ test \in [Tests -> [pc : {"idle", "row", "asked"}, key : Keys \cup {Untested}, whole : BOOLEAN,
                         secret : Results, stale : BOOLEAN]]
  /\ overtaken \subseteq Keys
  /\ moved \in BOOLEAN

Init ==
  /\ secret \in [Keys -> Secrets]
  /\ selected \in Keys
  /\ keyResult = [k \in Keys |-> Untested]
  /\ result = Untested
  /\ test = [t \in Tests |-> NoTest]
  /\ overtaken = {}
  /\ moved = FALSE

Begin(t, k, whole) ==
  /\ test[t].pc = "idle"
  /\ test' = [test EXCEPT ![t] = [NoTest EXCEPT !.pc = "row", !.key = k, !.whole = whole]]
  /\ UNCHANGED <<secret, selected, keyResult, result, overtaken, moved>>

TestKey(t, k) == Begin(t, k, FALSE)
TestConnection(t) == Begin(t, selected, TRUE)

\* providerKey, and the provider is asked with what it gave: nothing when the
\* key is disabled by then, as any key may be (KeyRotation tells when).
ReadKey(t) ==
  /\ test[t].pc = "row"
  /\ \E found \in {secret[test[t].key], Untried} :
       test' = [test EXCEPT ![t].pc = "asked", ![t].secret = found]
  /\ UNCHANGED <<secret, selected, keyResult, result, overtaken, moved>>

WriteKeyResult(t) ==
  /\ test[t].pc = "asked" /\ ~test[t].whole
  /\ LET k == test[t].key IN
     /\ keyResult' = [keyResult EXCEPT ![k] = test[t].secret]
     /\ overtaken' = IF test[t].stale THEN overtaken \cup {k} ELSE overtaken \ {k}
  /\ test' = [test EXCEPT ![t] = NoTest]
  /\ UNCHANGED <<secret, selected, result, moved>>

WriteResult(t) ==
  /\ test[t].pc = "asked" /\ test[t].whole
  /\ result' = test[t].secret
  /\ moved' = test[t].stale
  /\ test' = [test EXCEPT ![t] = NoTest]
  /\ UNCHANGED <<secret, selected, keyResult, overtaken>>

\* The control plane dies: no result.
Abandon(t) ==
  /\ test[t].pc # "idle"
  /\ test' = [test EXCEPT ![t] = NoTest]
  /\ UNCHANGED <<secret, selected, keyResult, result, overtaken, moved>>

-----------------------------------------------------------------------------

\* It overtakes the tests that have the former secret of k.
Moves(k) ==
  /\ moved' = (moved \/ k = selected)
  /\ test' = [t \in Tests |->
                [test[t] EXCEPT !.stale = @ \/ (test[t].pc = "asked" /\ test[t].key = k)]]

ReplacedOnly(k, s) ==   \* a mutant: the result stays
  /\ secret' = [secret EXCEPT ![k] = s]
  /\ Moves(k)
  /\ UNCHANGED <<selected, keyResult, result, overtaken>>

Replaced(k, s) ==
  /\ secret' = [secret EXCEPT ![k] = s]
  /\ keyResult' = [keyResult EXCEPT ![k] = Untested]
  /\ Moves(k)
  /\ UNCHANGED <<selected, result, overtaken>>

\* PATCH .../keys/[keyId] and PATCH /api/connections/[id] with an apiKey.
ReplaceKey(k, s) == Replaced(k, s)
EditConnection(s) == Replaced(selected, s)

SelectKey(k) ==
  /\ selected' = k
  /\ moved' = TRUE
  /\ test' = [t \in Tests |-> [test[t] EXCEPT !.stale = @ \/ test[t].whole]]
  /\ UNCHANGED <<secret, keyResult, result, overtaken>>

Next ==
  \/ \E t \in Tests : \/ TestConnection(t) \/ \E k \in Keys : TestKey(t, k)
                      \/ ReadKey(t) \/ WriteKeyResult(t) \/ WriteResult(t) \/ Abandon(t)
  \/ \E k \in Keys : SelectKey(k) \/ \E s \in Secrets : ReplaceKey(k, s)
  \/ \E s \in Secrets : EditConnection(s)

Spec == Init /\ [][Next]_vars

=============================================================================
