------------------------------ MODULE ApiAccess ------------------------------
(***************************************************************************)
(* The page of a user's API keys (apps/web/components/api-access.tsx) with *)
(* the routes it calls: a key is created and its secret shown once, a key  *)
(* is tested at the gateway, revoked, and the providers' health is asked.  *)
(*                                                                         *)
(* The page has one call in flight at most.  A call may be refused, its    *)
(* answer lost after the server did what it asked, or its fetch fail while *)
(* the server still has it; and the user's other pages create and revoke   *)
(* keys at any time.                                                       *)
(***************************************************************************)
EXTENDS Integers

CONSTANTS
  Keys,           \* api_keys.id, the keys the user may ever have
  OldKeys,        \* those there when the page is opened
  NoKey

VARIABLES
  apiKeys,        \* key -> whether it is active, where it exists
  listed,         \* the keys the page shows as active
  refreshing,     \* the page's data are being read again
  pending,
  secret,         \* the new key on the page
  testKey,        \* the key pasted for a test
  testStatus,
  alert,          \* whether an error is shown
  call,           \* how far the call in flight is, and its key
  \* history
  excused         \* keys revoked by another page, or by a call the page takes to
                  \* have failed

vars == <<apiKeys, listed, refreshing, pending, secret, testKey, testStatus,
          alert, call, excused>>

KeysOrNone == Keys \cup {NoKey}
NoCall == [pc |-> "none", key |-> NoKey]

TypeOK ==
  /\ apiKeys \in [Keys -> {"absent", "active", "revoked"}]
  /\ listed \subseteq Keys
  /\ refreshing \in BOOLEAN
  /\ pending \in {"", "create", "test", "health", "revoke"}
  /\ secret \in KeysOrNone /\ testKey \in KeysOrNone
  /\ testStatus \in {"", "reachable", "failed"}
  /\ alert \in BOOLEAN
  /\ call \in [pc : {"none", "asked", "checked", "done", "refused"}, key : KeysOrNone]
  /\ excused \subseteq Keys

Init ==
  /\ apiKeys = [k \in Keys |-> IF k \in OldKeys THEN "active" ELSE "absent"]
  /\ listed = OldKeys
  /\ refreshing = FALSE
  /\ pending = ""
  /\ secret = NoKey /\ testKey = NoKey
  /\ testStatus = ""
  /\ alert = FALSE
  /\ call = NoCall
  /\ excused = {}

Active == {k \in Keys : apiKeys[k] = "active"}

-----------------------------------------------------------------------------
\* The page's buttons: each is disabled while a call is in flight.

Ask(what, key) ==
  /\ pending = ""
  /\ pending' = what
  /\ alert' = FALSE
  /\ call' = [pc |-> "asked", key |-> key]
  /\ UNCHANGED <<apiKeys, listed, refreshing, secret, testKey, excused>>

CreateAnyTime == Ask("create", NoKey) /\ UNCHANGED testStatus   \* a mutant

\* Not while a new key is on the page.
Create == secret = NoKey /\ Ask("create", NoKey) /\ UNCHANGED testStatus

\* The pasted key, or else the new one.
TestRequest ==
  /\ Ask("test", IF testKey # NoKey THEN testKey ELSE secret)
  /\ testStatus' = ""

CheckHealth == Ask("health", NoKey) /\ UNCHANGED testStatus

Revoke(k) == k \in listed /\ Ask("revoke", k) /\ UNCHANGED testStatus

Dismiss ==
  /\ secret # NoKey
  /\ secret' = NoKey
  /\ UNCHANGED <<apiKeys, listed, refreshing, pending, testKey, testStatus, alert, call, excused>>

Paste ==
  /\ testKey' \in OldKeys \cup {secret, NoKey}
  /\ UNCHANGED <<apiKeys, listed, refreshing, pending, secret, testStatus, alert, call, excused>>

-----------------------------------------------------------------------------
\* The routes.

Serve(what) == pending = what /\ call.pc = "asked"

Served(pc, key) ==
  /\ call' = [pc |-> pc, key |-> key]
  /\ UNCHANGED <<listed, refreshing, pending, secret, testKey, testStatus, alert, excused>>

\* POST /api/keys
Insert(k) ==
  /\ Serve("create")
  /\ apiKeys[k] = "absent"
  /\ apiKeys' = [apiKeys EXCEPT ![k] = "active"]
  /\ Served("done", k)

\* DELETE /api/keys/[id]
Delete ==
  /\ Serve("revoke")
  /\ apiKeys' = [apiKeys EXCEPT ![call.key] = "revoked"]
  /\ Served(IF call.key \in Active THEN "done" ELSE "refused", call.key)

\* POST /api/gateway-test: the key is active for the account.
CheckKey ==
  /\ Serve("test")
  /\ Served(IF call.key \in Active THEN "checked" ELSE "refused", call.key)
  /\ UNCHANGED apiKeys

\* And for the gateway, which is asked for the models.
AskGateway ==
  /\ pending = "test" /\ call.pc = "checked"
  /\ Served(IF call.key \in Active THEN "done" ELSE "refused", call.key)
  /\ UNCHANGED apiKeys

Examine == Serve("health") /\ Served("done", NoKey) /\ UNCHANGED apiKeys

\* The request does not arrive, is invalid, the server fails, or the fetch does
\* before the server is done: that may then do the call all the same, at any
\* later time (InsertElsewhere, RevokeElsewhere).
Refuse == call.pc \in {"asked", "checked"} /\ Served("refused", call.key) /\ UNCHANGED apiKeys

\* The answer is lost, or the audit's INSERT fails after the key's statement.
Lose ==
  /\ call.pc = "done"
  /\ call' = [call EXCEPT !.pc = "refused"]
  /\ excused' = IF pending = "revoke" THEN excused \cup {call.key} ELSE excused
  /\ UNCHANGED <<apiKeys, listed, refreshing, pending, secret, testKey, testStatus, alert>>

-----------------------------------------------------------------------------
\* What the page does with the answer.

Ends(what, pc) ==
  /\ pending = what /\ call.pc = pc
  /\ pending' = ""
  /\ call' = NoCall
  /\ UNCHANGED <<apiKeys, listed, testKey, excused>>

Created ==
  /\ Ends("create", "done")
  /\ secret' = call.key
  /\ refreshing' = TRUE
  /\ UNCHANGED <<testStatus, alert>>

RevokedOnly ==   \* a mutant: the secret stays
  /\ Ends("revoke", "done")
  /\ refreshing' = TRUE
  /\ UNCHANGED <<secret, testStatus, alert>>

Revoked ==
  /\ Ends("revoke", "done")
  /\ secret' = IF secret = call.key THEN NoKey ELSE secret
  /\ refreshing' = TRUE
  /\ UNCHANGED <<testStatus, alert>>

Tested ==
  /\ \E pc \in {"done", "refused"} :
       /\ Ends("test", pc)
       /\ testStatus' = IF pc = "done" THEN "reachable" ELSE "failed"
  /\ refreshing' = TRUE
  /\ UNCHANGED <<secret, alert>>

Examined == Ends("health", "done") /\ UNCHANGED <<refreshing, secret, testStatus, alert>>

FailedWaiting ==   \* a mutant: pending is not cleared when a call fails
  /\ \E what \in {"create", "revoke", "health"} : pending = what /\ call.pc = "refused"
  /\ call' = NoCall
  /\ alert' = TRUE
  /\ UNCHANGED <<apiKeys, listed, refreshing, pending, secret, testKey, testStatus, excused>>

Failed ==
  /\ \E what \in {"create", "revoke", "health"} : Ends(what, "refused")
  /\ alert' = TRUE
  /\ UNCHANGED <<refreshing, secret, testStatus>>

\* router.refresh brings the list.
Refresh ==
  /\ refreshing
  /\ refreshing' = FALSE
  /\ listed' = Active
  /\ UNCHANGED <<apiKeys, pending, secret, testKey, testStatus, alert, call, excused>>

\* Another page of the user, or a call that this page has given up.
InsertElsewhere(k) ==
  /\ apiKeys[k] = "absent"
  /\ apiKeys' = [apiKeys EXCEPT ![k] = "active"]
  /\ UNCHANGED <<listed, refreshing, pending, secret, testKey, testStatus, alert, call, excused>>

RevokeElsewhere(k) ==
  /\ k \in Active
  /\ apiKeys' = [apiKeys EXCEPT ![k] = "revoked"]
  /\ excused' = excused \cup {k}
  /\ UNCHANGED <<listed, refreshing, pending, secret, testKey, testStatus, alert, call>>

Answers == Created \/ Revoked \/ Tested \/ Examined \/ Failed
Serves == (\E k \in Keys : Insert(k)) \/ Delete \/ CheckKey \/ AskGateway \/ Examine \/ Refuse

Next ==
  \/ Create \/ TestRequest \/ CheckHealth \/ Dismiss \/ Paste
  \/ \E k \in Keys : Revoke(k) \/ InsertElsewhere(k) \/ RevokeElsewhere(k)
  \/ Serves \/ Lose \/ Answers \/ Refresh

Spec == Init /\ [][Next]_vars

=============================================================================
