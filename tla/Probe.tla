------------------------------- MODULE Probe -------------------------------
(***************************************************************************)
(* POST /api/connections/[id]/probe                                        *)
(* (apps/web/app/api/connections/[id]/probe/route.ts): a probe reads the   *)
(* connection once, then, for every capability asked for, reserves one     *)
(* request, reads the key and contacts the provider, and at last stores    *)
(* the run with all its results in one transaction.                        *)
(*                                                                         *)
(* The probes are those of one user on one connection.  Between any two    *)
(* steps the window is spent by other requests, the owner edits the        *)
(* connection and its keys, and the database fails.                        *)
(***************************************************************************)
EXTENDS ConnectionWindow, FiniteSets

CONSTANTS
  Requests,       \* probes that may run at once
  Provider,       \* the connection they probe
  Keys,           \* its keys
  Capabilities,   \* what a probe may check
  NoKey           \* no key was named

VARIABLES
  usable,         \* enabled keys
  selected,       \* connections.selected_key_id
  probe,          \* request -> the handler's own variables
  runs,           \* request -> the run it stored, if any
  \* history
  charges,        \* request -> reservations charged
  contacts,       \* request -> key of every request sent, by capability
  late            \* request -> requests sent since the connection was closed

vars == <<setting, room, usable, selected, probe, runs, charges, contacts, late>>
connection == <<setting, usable, selected>>

Phases == {"new", "reserve", "key", "contact", "store", "done"}
NoContacts == [c \in {} |-> NoKey]
NoRun == [checks |-> {}, passed |-> {}, status |-> "none", key |-> NoKey]
Statuses == {"passed", "failed", "partial"}

Fresh == [pc |-> "new", todo |-> {}, results |-> {}, passed |-> {}, key |-> NoKey,
          answer |-> 0]

Probes ==
  [pc : Phases, todo : SUBSET Capabilities, results : SUBSET Capabilities,
   passed : SUBSET Capabilities, key : Keys \cup {NoKey},
   answer : {0, 200, 400, 404, 429, 500, 503}]
Runs ==
  [checks : SUBSET Capabilities, passed : SUBSET Capabilities,
   status : Statuses \cup {"none"}, key : Keys \cup {NoKey}]

TypeOK ==
  /\ setting \in [Connections -> Settings]
  /\ room \in [Connections -> 0 .. Limit]
  /\ usable \subseteq Keys
  /\ selected \in Keys
  /\ probe \in [Requests -> Probes]
  /\ \A p \in Requests :
       /\ probe[p].passed \subseteq probe[p].results
       /\ probe[p].pc \in {"reserve", "key", "contact"} =>
            probe[p].todo # {} /\ probe[p].key \in Keys
  /\ runs \in [Requests -> Runs]
  /\ charges \in [Requests -> Nat]
  /\ DOMAIN contacts = Requests
  /\ \A p \in Requests : /\ DOMAIN contacts[p] \subseteq Capabilities
                         /\ \A c \in DOMAIN contacts[p] : contacts[p][c] \in Keys
  /\ late \in [Requests -> Nat]

Init ==
  /\ setting \in [Connections -> Settings]
  /\ room = [c \in Connections |-> Limit]
  /\ usable \in SUBSET Keys
  /\ selected \in Keys
  /\ probe = [p \in Requests |-> Fresh]
  /\ runs = [p \in Requests |-> NoRun]
  /\ charges = [p \in Requests |-> 0]
  /\ contacts = [p \in Requests |-> NoContacts]
  /\ late = [p \in Requests |-> 0]

At(p, pc) == p \in Requests /\ probe[p].pc = pc

Answered(r, answer) == [r EXCEPT !.pc = "done", !.answer = answer]

Ends(p, answer) == probe' = [probe EXCEPT ![p] = Answered(@, answer)]

Closed == ~Metered(Provider) /\ ~Unmetered(Provider)

-----------------------------------------------------------------------------
(* providerAccess and the route's own conditions. *)

Accessible ==
  /\ setting[Provider] # "disabled"
  /\ Admin \/ Provider \in Own \/ setting[Provider] = "public"

\* The row is read once: the selected key of then is used if none is named.
Access(p) ==
  /\ At(p, "new")
  /\ IF Accessible
     THEN \E todo \in (SUBSET Capabilities) \ {{}}, named \in Keys \cup {NoKey} :
            probe' = [probe EXCEPT ![p].pc = "reserve", ![p].todo = todo,
                                   ![p].key = IF named = NoKey THEN selected ELSE named]
     ELSE Ends(p, 404)
  /\ UNCHANGED <<connection, room, runs, charges, contacts, late>>

-----------------------------------------------------------------------------
(* One capability: SELECT reserve_connection_requests($1, $2, 1). *)

Charged(p) ==
  \/ Granted(Provider) /\ charges' = [charges EXCEPT ![p] = @ + 1]
  \/ GrantedFreely(Provider) /\ UNCHANGED charges

ReserveOnce(p) ==   \* a mutant: one reservation for all the capabilities
  /\ At(p, "reserve")
  /\ IF probe[p].results = {} THEN Charged(p) ELSE UNCHANGED <<room, charges>>
  /\ probe' = [probe EXCEPT ![p].pc = "key"]
  /\ UNCHANGED <<connection, runs, contacts, late>>

Reserve(p) ==
  /\ At(p, "reserve")
  /\ Charged(p)
  /\ probe' = [probe EXCEPT ![p].pc = "key"]
  /\ UNCHANGED <<connection, runs, contacts, late>>

ReserveRefusedOnlyWhenLimited(p) ==   \* a mutant: -1 lets the probe go on
  /\ At(p, "reserve")
  /\ \/ Limited(Provider) /\ Ends(p, 429)
     \/ Inaccessible(Provider) /\ probe' = [probe EXCEPT ![p].pc = "key"]
  /\ UNCHANGED <<connection, runs, charges, contacts, late>>

\* Whatever was probed before is dropped.
ReserveRefused(p) ==
  /\ At(p, "reserve")
  /\ \/ Limited(Provider) /\ Ends(p, 429)
     \/ Inaccessible(Provider) /\ Ends(p, 404)
  /\ UNCHANGED <<connection, runs, charges, contacts, late>>

\* The call fails; if only its answer was lost the charge has been made.
ReserveUnavailable(p) ==
  /\ At(p, "reserve")
  /\ Charged(p) \/ UNCHANGED <<room, charges>>
  /\ Ends(p, 503)
  /\ UNCHANGED <<connection, runs, contacts, late>>

ReadSelectedKey(p) ==   \* a mutant: the key selected now
  /\ At(p, "key")
  /\ IF selected \in usable
     THEN probe' = [probe EXCEPT ![p].pc = "contact", ![p].key = selected]
     ELSE Ends(p, 400)
  /\ UNCHANGED <<connection, room, runs, charges, contacts, late>>

\* providerKey: the key of that id, if it is enabled now.
ReadKey(p) ==
  /\ At(p, "key")
  /\ IF probe[p].key \in usable
     THEN probe' = [probe EXCEPT ![p].pc = "contact"]
     ELSE Ends(p, 400)
  /\ UNCHANGED <<connection, room, runs, charges, contacts, late>>

\* runBehaviorProbe: a provider that fails, or takes longer than 15 seconds,
\* has not passed; it always returns.
Contact(p) ==
  /\ At(p, "contact")
  /\ \E c \in probe[p].todo, pass \in BOOLEAN :
       LET rest == probe[p].todo \ {c}
       IN  /\ probe' = [probe EXCEPT
                          ![p].pc = IF rest = {} THEN "store" ELSE "reserve",
                          ![p].todo = rest,
                          ![p].results = @ \cup {c},
                          ![p].passed = IF pass THEN @ \cup {c} ELSE @]
           /\ contacts' = [contacts EXCEPT ![p] = [d \in DOMAIN @ \cup {c} |->
                                                     IF d = c THEN probe[p].key ELSE @[d]]]
  /\ late' = [late EXCEPT ![p] = IF Closed THEN @ + 1 ELSE @]
  /\ UNCHANGED <<connection, room, runs, charges>>

-----------------------------------------------------------------------------
(* The run and its results, in one transaction. *)

OverallStatus(r) ==
  IF r.passed = r.results THEN "passed" ELSE IF r.passed = {} THEN "failed" ELSE "partial"

Run(r) == [checks |-> r.results, passed |-> r.passed, status |-> OverallStatus(r), key |-> r.key]

Stored(p) == runs' = [runs EXCEPT ![p] = Run(probe[p])]

Store(p) ==
  /\ At(p, "store")
  /\ Stored(p)
  /\ Ends(p, 200)
  /\ UNCHANGED <<connection, room, charges, contacts, late>>

\* A query that fails, or a key that cannot be decrypted, is answered 500; a
\* transaction whose commit was not acknowledged may have stored the run.
Fail(p) ==
  /\ \/ (At(p, "new") \/ At(p, "key") \/ At(p, "contact")) /\ UNCHANGED runs
     \/ At(p, "store") /\ (Stored(p) \/ UNCHANGED runs)
  /\ Ends(p, 500)
  /\ UNCHANGED <<connection, room, charges, contacts, late>>

-----------------------------------------------------------------------------
(* The rest of the system. *)

\* A connection that is open to the user starts a new count of late requests.
EditConnection ==
  /\ Edited(Provider)
  /\ late' = [p \in Requests |-> IF Closed' THEN late[p] ELSE 0]
  /\ UNCHANGED <<room, usable, selected, probe, runs, charges, contacts>>

SetKeyEnabled(k) ==
  /\ \E on \in BOOLEAN : usable' = IF on THEN usable \cup {k} ELSE usable \ {k}
  /\ UNCHANGED <<setting, room, selected, probe, runs, charges, contacts, late>>

SelectKey(k) ==
  /\ k \in usable
  /\ selected' = k
  /\ UNCHANGED <<setting, room, usable, probe, runs, charges, contacts, late>>

OthersSpend ==
  /\ SpentElsewhere(Provider)
  /\ UNCHANGED <<connection, probe, runs, charges, contacts, late>>

NewWindow ==
  /\ WindowEnded(Provider)
  /\ UNCHANGED <<connection, probe, runs, charges, contacts, late>>

Step(p) ==
  \/ Access(p) \/ Reserve(p) \/ ReserveRefused(p) \/ ReserveUnavailable(p)
  \/ ReadKey(p) \/ Contact(p) \/ Store(p) \/ Fail(p)

Next ==
  \/ \E p \in Requests : Step(p)
  \/ EditConnection \/ OthersSpend \/ NewWindow
  \/ \E k \in Keys : SetKeyEnabled(k) \/ SelectKey(k)

Spec == Init /\ [][Next]_vars

=============================================================================
