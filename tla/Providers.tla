----------------------------- MODULE Providers -----------------------------
(***************************************************************************)
(* A provider while its owner manages it: what gateway requests make of    *)
(* its edits (Serving), what the tests of its keys leave behind (KeyTests),*)
(* which of its keys requests are given (KeyRotation) and how it is probed *)
(* (Probe).  None of these reads what another writes, so each is looked at *)
(* by itself.                                                              *)
(***************************************************************************)
EXTENDS Serving, Integers, FiniteSets, TLC

CONSTANTS
  Parts,          \* what is looked at: "service", "tests", "rotation", "probes"
  Tested, Secrets, Tests, Untested, Untried,      \* KeyTests; Tested are its keys
  Callers,        \* requests that select keys, and probes, at once
  FirstKey, NoKey, MaxClock,                      \* KeyRotation
  Connections, Own, Admin, Limit, Provider, Capabilities      \* Probe

ASSUME KeysAssumption == FirstKey \in Keys /\ NoKey \notin Keys /\ MaxClock \in Nat

ASSUME TestsAssumption ==
  /\ {Untested, Untried} \cap (Secrets \cup Tested) = {} /\ Untested # Untried
  /\ NoPlace \notin Places

ASSUME ProbeAssumption ==
  /\ Provider \in Connections
  /\ Own \subseteq Connections
  /\ Admin \in BOOLEAN
  /\ Limit \in Nat
  /\ IsFiniteSet(Capabilities)

VARIABLES
  part,
  keySecret, chosen, keyResult, result, test, overtaken, moved,
  clock, enabled, keyMode, current, present, onKeys, created, lastUsed, holding, row, credential, uses,
  openness, room, probeKeys, preferred, probe, runs, charges, contacts, late

Results == INSTANCE KeyTests WITH Keys <- Tested, secret <- keySecret, selected <- chosen
Rotation == INSTANCE KeyRotation WITH
  Requests <- Callers, mode <- keyMode, selected <- current, usable <- onKeys, provider <- row
Probing == INSTANCE Probe WITH
  Requests <- Callers, setting <- openness, usable <- probeKeys, selected <- preferred

resultsVars == <<keySecret, chosen, keyResult, result, test, overtaken, moved>>
rotationVars ==
  <<clock, enabled, keyMode, current, present, onKeys, created, lastUsed, holding, row, credential, uses>>
probingVars == <<openness, room, probeKeys, preferred, probe, runs, charges, contacts, late>>
providersVars == <<part, vars, resultsVars, rotationVars, probingVars>>

\* A part that is not looked at keeps one of its initial states.
ProvidersInit ==
  /\ part \in Parts
  /\ Init /\ Results!Init /\ Rotation!Init /\ Probing!Init
  /\ part # "service" =>
       selected = FirstKey /\ url = (CHOOSE p \in Places : TRUE) /\ owned /\ setting = "public"
  /\ part # "tests" => \E s \in Secrets : keySecret = [k \in Tested |-> s]
  /\ part # "probes" =>
       openness = [c \in Connections |-> "public"] /\ probeKeys = Keys /\ preferred = FirstKey

ProvidersNext ==
  /\ UNCHANGED part
  /\ \/ part = "service" /\ Next /\ UNCHANGED <<resultsVars, rotationVars, probingVars>>
     \/ part = "tests" /\ Results!Next /\ UNCHANGED <<vars, rotationVars, probingVars>>
     \/ part = "rotation" /\ Rotation!Next /\ UNCHANGED <<vars, resultsVars, probingVars>>
     \/ part = "probes" /\ Probing!Next /\ UNCHANGED <<vars, resultsVars, rotationVars>>

ProvidersSpec == ProvidersInit /\ [][ProvidersNext]_providersVars

Alike ==
  UNION {Permutations(S) : S \in {Tests, Secrets, Tested, Edits, Callers, Keys \ {FirstKey}}}

-----------------------------------------------------------------------------

(***************************************************************************)
(* The result a key shows was found with the secret it has, unless the     *)
(* secret was replaced during the test; and the connection's with that of  *)
(* its selected key, unless either changed after the test began: the edit  *)
(* of a connection does not forget the connection's result.                *)
(* (keys/[keyId]/route.ts 25-71, connections/[id]/route.ts 38-80)          *)
(***************************************************************************)
ResultsAreOfTheirSecrets ==
  /\ \A k \in Tested : keyResult[k] \in {Untested, Untried, keySecret[k]} \/ k \in overtaken
  /\ result \in {Untested, Untried, keySecret[chosen]} \/ moved

(***************************************************************************)
(* Round robin is even: while the keys and the mode stay as they are, no   *)
(* enabled key is used twice more than another, however many requests      *)
(* select at once.  ("Round-robin rotates enabled keys per request.",      *)
(* components/provider-keys.tsx; 0013 43-48.)                              *)
(***************************************************************************)
RotationIsEven ==
  keyMode = "round_robin" => \A i, j \in onKeys : uses[j] <= uses[i] + 1

(***************************************************************************)
(* A key is handed out only if, when it is, the connection is enabled and  *)
(* its present settings admit the key: a change that committed before is   *)
(* never missed.  ("Disabling the selected key stops selected-key          *)
(* forwarding until another is chosen.", components/provider-keys.tsx.)    *)
(***************************************************************************)
KeysInForce ==
  [][\A k \in Keys : lastUsed'[k] # lastUsed[k] =>
       /\ enabled
       /\ k \in onKeys
       /\ keyMode = "selected" => k = current]_providersVars

(***************************************************************************)
(* Every request a member's probe sends to somebody else's connection was  *)
(* charged, one by one.  ("Reserve per check so the same provider/user     *)
(* quota applies to every upstream request.", probe/route.ts:35)           *)
(***************************************************************************)
ContactsAreCharged ==
  \A p \in Callers :
    ~Admin /\ Provider \notin Own => Cardinality(DOMAIN contacts[p]) <= charges[p]

(***************************************************************************)
(* A connection that is closed to the user while it is being probed gets   *)
(* at most the one request whose reservation had been made.                *)
(* (probe/route.ts 38-69)                                                  *)
(***************************************************************************)
ClosedMeansOneMoreAtMost ==
  \A p \in Callers : late[p] <= 1

(***************************************************************************)
(* A stored run has a result for every capability asked for, each from a   *)
(* request sent with the key that the run names, and its status sums them  *)
(* up.  (probe/route.ts 70-83, probe.ts 14-19)                             *)
(***************************************************************************)
StoredRunsAreWhole ==
  \A p \in Callers :
    runs[p] # Probing!NoRun =>
      /\ probe[p].todo = {}
      /\ runs[p].checks = DOMAIN contacts[p] /\ runs[p].checks # {}
      /\ \A c \in DOMAIN contacts[p] : contacts[p][c] = runs[p].key
      /\ runs[p].status = "passed" <=> runs[p].passed = runs[p].checks
      /\ runs[p].status = "failed" <=> runs[p].passed = {}

(***************************************************************************)
(* "limited probes return retry information without contacting the         *)
(* provider" (app/api/connections/[id]/route.test.ts:143): a probe that is *)
(* answered 429 has sent nothing.                                          *)
(***************************************************************************)
LimitedProbesSendNothing ==
  \A p \in Callers : probe[p].answer = 429 => DOMAIN contacts[p] = {}

=============================================================================
