---------------------------- MODULE KeyRotation ----------------------------
(***************************************************************************)
(* The keys of one provider connection and select_provider_key             *)
(* (db/migrations/0013_provider_catalog.sql 35-51), which hands a gateway  *)
(* request the key to forward with: the selected key, or, in round-robin   *)
(* mode, the enabled key that was used least recently.                     *)
(*                                                                         *)
(* The function holds the connection row FOR UPDATE from its first         *)
(* statement to its commit and reads the keys in a later statement.  The   *)
(* control plane's transactions on keys take the same lock first; adding a *)
(* key waits for it through the foreign key.  Each of them is one action   *)
(* that needs the lock to be free.                                         *)
(***************************************************************************)
EXTENDS Integers

CONSTANTS
  Requests,       \* gateway requests that may be selecting at once
  Keys,           \* provider_keys.id, of keys added sooner or later
  FirstKey,       \* the key a connection is created with
  NoKey,          \* the NULL of a key
  MaxClock        \* bound on the clock

VARIABLES
  clock,          \* clock_timestamp(), moving at every use: 0 stands for NULL
  enabled,        \* connections.enabled
  mode,           \* connections.key_mode
  selected,       \* connections.selected_key_id
  present,        \* keys that have been added; none is ever deleted alone
  usable,         \* keys whose enabled flag is set
  created,        \* key -> created_at
  lastUsed,       \* key -> last_used_at
  holding,        \* requests inside the function, past its first SELECT
  provider,       \* request -> the connection row it read
  credential,     \* request -> the key it has picked and is about to mark
  uses            \* history: uses of each key since the keys last changed

vars == <<clock, enabled, mode, selected, present, usable, created, lastUsed,
          holding, provider, credential, uses>>
settings == <<enabled, mode, selected, present, usable, created>>

Modes == {"selected", "round_robin"}
Never == 0
FirstRow == [mode |-> "selected", selected |-> FirstKey]

TypeOK ==
  /\ clock \in 1 .. MaxClock + 1
  /\ enabled \in BOOLEAN
  /\ mode \in Modes
  /\ selected \in Keys
  /\ present \subseteq Keys
  /\ usable \subseteq present
  /\ created \in [Keys -> Nat]
  /\ lastUsed \in [Keys -> Nat]
  /\ holding \subseteq Requests
  /\ provider \in [Requests -> [mode : Modes, selected : Keys]]
  /\ credential \in [Requests -> Keys \cup {NoKey}]
  /\ uses \in [Keys -> Nat]

\* POST /api/connections: the connection, its 'Default' key and the selection
\* in one transaction.
Init ==
  /\ clock = 1
  /\ enabled = TRUE
  /\ mode = "selected"
  /\ selected = FirstKey
  /\ present = {FirstKey}
  /\ usable = {FirstKey}
  /\ created = [k \in Keys |-> 0]
  /\ lastUsed = [k \in Keys |-> Never]
  /\ holding = {}
  /\ provider = [p \in Requests |-> FirstRow]
  /\ credential = [p \in Requests |-> NoKey]
  /\ uses = [k \in Keys |-> 0]

ConnectionUnlocked == holding = {}

-----------------------------------------------------------------------------
(* select_provider_key. *)

\* SELECT ... WHERE id = provider_uuid AND enabled FOR UPDATE.  Not found is
\* NULL at once, and nothing changes.
LockProvider(p) ==
  /\ ConnectionUnlocked
  /\ enabled
  /\ holding' = holding \cup {p}
  /\ provider' = [provider EXCEPT ![p] = [mode |-> mode, selected |-> selected]]
  /\ UNCHANGED <<clock, settings, lastUsed, credential, uses>>

Eligible(row) ==
  {k \in usable : row.mode = "round_robin" \/ k = row.selected}

FirstNullsLast(candidates) ==   \* a mutant: plain ORDER BY last_used_at
  LET Rank(k) == IF lastUsed[k] = Never THEN clock ELSE lastUsed[k]
  IN  {k \in candidates :
         \A j \in candidates : \/ Rank(k) < Rank(j)
                               \/ Rank(k) = Rank(j) /\ created[k] <= created[j]}

\* ORDER BY last_used_at NULLS FIRST, created_at, id LIMIT 1.  Which of two
\* keys created at one instant comes first, their ids tell.
First(candidates) ==
  {k \in candidates :
     \A j \in candidates : \/ lastUsed[k] < lastUsed[j]
                           \/ lastUsed[k] = lastUsed[j] /\ created[k] <= created[j]}

ChooseKey(p) ==
  /\ p \in holding
  /\ credential[p] = NoKey
  /\ \E k \in First(Eligible(provider[p])) : credential' = [credential EXCEPT ![p] = k]
  /\ UNCHANGED <<clock, settings, lastUsed, holding, provider, uses>>

Release(p) ==
  /\ holding' = holding \ {p}
  /\ provider' = [provider EXCEPT ![p] = FirstRow]
  /\ credential' = [credential EXCEPT ![p] = NoKey]

\* The key is marked used and returned; the lock goes with the commit.
TakeKey(p) ==
  /\ p \in holding
  /\ credential[p] # NoKey
  /\ clock <= MaxClock
  /\ lastUsed' = [lastUsed EXCEPT ![credential[p]] = clock]
  /\ uses' = [uses EXCEPT ![credential[p]] = @ + 1]
  /\ clock' = clock + 1
  /\ Release(p)
  /\ UNCHANGED settings

\* NULL when no enabled key fits, or the statement is cancelled with its
\* request: nothing is written.
LeaveWithoutKey(p) ==
  /\ p \in holding
  /\ Release(p)
  /\ UNCHANGED <<clock, settings, lastUsed, uses>>

-----------------------------------------------------------------------------
(* The control plane. *)

Recount == uses' = [k \in Keys |-> 0]

\* POST /api/providers/[id]/keys.
AddKey(k) ==
  /\ ConnectionUnlocked
  /\ k \notin present
  /\ present' = present \cup {k}
  /\ usable' = usable \cup {k}
  /\ created' = [created EXCEPT ![k] = clock]
  /\ Recount
  /\ UNCHANGED <<clock, enabled, mode, selected, lastUsed, holding, provider,
                 credential>>

\* PATCH /api/providers/[id]/keys/[keyId] with an enabled flag.
SetKeyEnabled(k, value) ==
  /\ ConnectionUnlocked
  /\ k \in present
  /\ usable' = IF value THEN usable \cup {k} ELSE usable \ {k}
  /\ Recount
  /\ UNCHANGED <<clock, enabled, mode, selected, present, created, lastUsed, holding,
                 provider, credential>>

SelectKeyUnawaited(m, k) ==   \* a mutant: with no FOR UPDATE in the function to wait for
  /\ k \in usable
  /\ mode' = m
  /\ selected' = k
  /\ Recount
  /\ UNCHANGED <<clock, enabled, present, usable, created, lastUsed, holding,
                 provider, credential>>

\* PATCH /api/providers/[id] with keyMode and selectedKeyId, refused for a key
\* that is not an enabled key of the provider.
SelectKey(m, k) ==
  /\ ConnectionUnlocked
  /\ k \in usable
  /\ mode' = m
  /\ selected' = k
  /\ Recount
  /\ UNCHANGED <<clock, enabled, present, usable, created, lastUsed, holding,
                 provider, credential>>

\* PATCH /api/connections/[id] with an enabled flag: one UPDATE of the row.
SetEnabled(value) ==
  /\ ConnectionUnlocked
  /\ enabled' = value
  /\ UNCHANGED <<clock, mode, selected, present, usable, created, lastUsed, holding,
                 provider, credential, uses>>

Next ==
  \/ \E p \in Requests : LockProvider(p) \/ ChooseKey(p) \/ TakeKey(p) \/ LeaveWithoutKey(p)
  \/ \E k \in Keys : AddKey(k)
  \/ \E k \in Keys, value \in BOOLEAN : SetKeyEnabled(k, value)
  \/ \E m \in Modes, k \in Keys : SelectKey(m, k)
  \/ \E value \in BOOLEAN : SetEnabled(value)

Spec == Init /\ [][Next]_vars

=============================================================================
