------------------------------ MODULE Catalog ------------------------------
(***************************************************************************)
(* The models of one provider (apps/web/app/api/providers/[id]/models):    *)
(* imports of what the provider lists, previewed or saved, and the models  *)
(* its owner adds and edits by hand.                                       *)
(*                                                                         *)
(* An import asks the provider outside any transaction and then upserts    *)
(* the wanted models one by one, in the order of the provider's list.  An  *)
(* upsert locks its row (or the place of it) until the transaction ends    *)
(* and writes a new version of the row that is seen when it commits.       *)
(***************************************************************************)
EXTENDS Integers, Sequences, FiniteSets

CONSTANTS
  Models,         \* provider_models.upstream_id
  Keys,           \* provider_keys.id
  NoKey,          \* a model nobody imported
  Claims,         \* what a provider may say of a model
  NoClaim,        \* imported_metadata of a model nobody imported
  Values,         \* what an owner may set display_name or overrides to
  Initial,        \* their values when a model is imported first
  Imports         \* imports that may be in progress at once

ASSUME CatalogAssumption ==
  /\ NoKey \notin Keys
  /\ NoClaim \notin Claims
  /\ Initial \notin Values
  /\ IsFiniteSet(Models)

VARIABLES
  rows,           \* model -> its row in provider_models, if it has one
  usable,         \* enabled keys
  tx              \* import -> the handler's own variables

vars == <<rows, usable, tx>>

\* A model has a claim when it was imported with some key.
Row == {row \in [display : Values \cup {Initial}, enabled : BOOLEAN,
                 overrides : Values \cup {Initial},
                 claim : Claims \cup {NoClaim}, key : Keys \cup {NoKey}] :
          row.claim = NoClaim <=> row.key = NoKey}

Settings(row) == <<row.display, row.enabled, row.overrides>>

Nothing == [m \in {} |-> m]

\* f with r at m; f, where it has a value, over g.
With(f, m, r) == [x \in DOMAIN f \cup {m} |-> IF x = m THEN r ELSE f[x]]
Over(f, g) == [x \in DOMAIN f \cup DOMAIN g |-> IF x \in DOMAIN f THEN f[x] ELSE g[x]]

\* wanted is empty for a preview; claims is what the provider said of the wanted
\* models; queue is what is still to be upserted, written what was.
Idle == [pc |-> "idle", key |-> NoKey, wanted |-> {}, claims |-> Nothing, queue |-> << >>,
         written |-> Nothing, answer |-> 0]

Partial(S, T) == UNION {[D -> T] : D \in (SUBSET S)}

Txs == {t \in [pc : {"idle", "key", "discover", "upsert", "commit"}, key : Keys \cup {NoKey},
               wanted : SUBSET Models, claims : Partial(Models, Claims), queue : Seq(Models),
               written : Partial(Models, Row), answer : {0, 200, 409, 502}] :
          /\ t.pc # "idle" => t.key \in Keys
          /\ t.pc = "upsert" => t.queue # << >>
          /\ \A i \in DOMAIN t.queue : t.queue[i] \in DOMAIN t.claims}

TypeOK ==
  /\ rows \in Partial(Models, Row)
  /\ usable \in SUBSET Keys
  /\ tx \in [Imports -> Txs]

Init ==
  /\ rows = Nothing
  /\ usable = Keys
  /\ tx = [p \in Imports |-> Idle]

At(p, pc) == p \in Imports /\ tx[p].pc = pc
Ends(p, answer) == tx' = [tx EXCEPT ![p] = [Idle EXCEPT !.answer = answer]]

\* Row m, or the place for it, is locked by the transaction of p.
Holds(p, m) == m \in DOMAIN tx[p].written
Free(m) == \A p \in Imports : ~Holds(p, m)

-----------------------------------------------------------------------------
(* POST /api/providers/[id]/models/import. *)

Begin(p) ==
  /\ At(p, "idle")
  /\ \E k \in Keys, wanted \in SUBSET Models :
       tx' = [tx EXCEPT ![p] = [Idle EXCEPT !.pc = "key", !.key = k, !.wanted = wanted]]
  /\ UNCHANGED <<rows, usable>>

\* providerKey.
ReadKey(p) ==
  /\ At(p, "key")
  /\ IF tx[p].key \in usable THEN tx' = [tx EXCEPT ![p] = [@ EXCEPT !.pc = "discover"]]
     ELSE Ends(p, 502)
  /\ UNCHANGED <<rows, usable>>

\* A provider lists its models in any order, each once (importModels).
Orders(S) == {order \in [1 .. Cardinality(S) -> S] :
                \A m \in S : \E i \in DOMAIN order : order[i] = m}

Discovered(t, claims, order) ==
  [t EXCEPT !.pc = "upsert", !.claims = claims, !.queue = order]

\* The provider fails or lists its models; a preview ends here, and so does a
\* selection that is no longer in the list.
Discover(p) ==
  /\ At(p, "discover")
  /\ LET wanted == tx[p].wanted IN
     \/ Ends(p, 502)
     \/ wanted = {} /\ Ends(p, 200)
     \/ \E listed \in SUBSET Models : ~(wanted \subseteq listed) /\ Ends(p, 409)
     \/ /\ wanted # {}
        /\ \E claims \in [wanted -> Claims], order \in Orders(wanted) :
             tx' = [tx EXCEPT ![p] = Discovered(tx[p], claims, order)]
  /\ UNCHANGED <<rows, usable>>

New(p, m) == [display |-> Initial, enabled |-> TRUE, overrides |-> Initial,
              claim |-> tx[p].claims[m], key |-> tx[p].key]

ImportedAnew(p, m) ==   \* a mutant: the conflicting row is replaced
  New(p, m)

\* INSERT ... ON CONFLICT (provider_id, upstream_id) DO UPDATE
Imported(p, m) ==
  IF m \in DOMAIN rows
  THEN [rows[m] EXCEPT !.claim = tx[p].claims[m], !.key = tx[p].key]
  ELSE New(p, m)

Upserted(t, row) ==
  [t EXCEPT !.written = With(t.written, Head(t.queue), row), !.queue = Tail(t.queue),
            !.pc = IF Tail(t.queue) = << >> THEN "commit" ELSE "upsert"]

Upsert(p) ==
  /\ At(p, "upsert")
  /\ LET m == Head(tx[p].queue) IN
     /\ Free(m)
     /\ tx' = [tx EXCEPT ![p] = Upserted(tx[p], Imported(p, m))]
  /\ UNCHANGED <<rows, usable>>

\* The caller may not learn of it.
Commit(p) ==
  /\ At(p, "commit")
  /\ rows' = Over(tx[p].written, rows)
  /\ Ends(p, 200) \/ Ends(p, 502)
  /\ UNCHANGED usable

FailKeepingWrites(p) ==   \* a mutant: every upsert is committed by itself
  /\ At(p, "upsert") \/ At(p, "commit")
  /\ rows' = Over(tx[p].written, rows)
  /\ Ends(p, 502)
  /\ UNCHANGED usable

FailKeepingLocks(p) ==   \* a mutant: the transaction is neither committed nor rolled back
  /\ At(p, "upsert") \/ At(p, "commit")
  /\ tx' = [tx EXCEPT ![p] = [Idle EXCEPT !.pc = "idle", !.wanted = tx[p].wanted,
                                           !.written = tx[p].written, !.answer = 502]]
  /\ UNCHANGED <<rows, usable>>

\* A statement fails and the transaction is rolled back.
Fail(p) ==
  /\ At(p, "upsert") \/ At(p, "commit")
  /\ Ends(p, 502)
  /\ UNCHANGED <<rows, usable>>

\* p waits for a row of q.
WaitsFor(p, q) == At(p, "upsert") /\ p # q /\ Holds(q, Head(tx[p].queue))

\* PostgreSQL makes the statement of one of two that wait for each other fail.
EndDeadlock(p) ==
  /\ \E q \in Imports : WaitsFor(p, q) /\ WaitsFor(q, p)
  /\ Fail(p)

-----------------------------------------------------------------------------
(* The owner. *)

\* POST /api/providers/[id]/models; a model that exists is answered 409.
Create(m) ==
  /\ Free(m)
  /\ m \notin DOMAIN rows
  /\ \E display \in Values, on \in BOOLEAN, overrides \in Values \cup {Initial} :
       rows' = With(rows, m, [display |-> display, enabled |-> on, overrides |-> overrides,
                              claim |-> NoClaim, key |-> NoKey])
  /\ UNCHANGED <<usable, tx>>

\* PATCH .../[modelId]: what is not given stays.
Edit(m) ==
  /\ Free(m)
  /\ m \in DOMAIN rows
  /\ \E display \in {rows[m].display} \cup Values, on \in BOOLEAN,
        overrides \in {rows[m].overrides} \cup Values :
       rows' = [rows EXCEPT ![m] =
                  [@ EXCEPT !.display = display, !.enabled = on, !.overrides = overrides]]
  /\ UNCHANGED <<usable, tx>>

SetKeyEnabled(k) ==
  /\ \E on \in BOOLEAN : usable' = IF on THEN usable \cup {k} ELSE usable \ {k}
  /\ UNCHANGED <<rows, tx>>

Step(p) ==
  \/ Begin(p) \/ ReadKey(p) \/ Discover(p) \/ Upsert(p) \/ Commit(p) \/ Fail(p) \/ EndDeadlock(p)

Next ==
  \/ \E p \in Imports : Step(p)
  \/ \E m \in Models : Create(m) \/ Edit(m)
  \/ \E k \in Keys : SetKeyEnabled(k)

Spec == Init /\ [][Next]_vars

\* The handler runs on, the provider is given ten seconds, and PostgreSQL
\* serves those who wait for a row in turn and ends deadlocks.
FairSpec ==
  /\ Spec
  /\ \A p \in Imports : /\ WF_vars(ReadKey(p)) /\ WF_vars(Discover(p)) /\ WF_vars(Commit(p))
                        /\ SF_vars(Upsert(p))
                        /\ WF_vars(EndDeadlock(p))

-----------------------------------------------------------------------------
(* Properties. *)

(***************************************************************************)
(* Imports never change what the owner set, whether it was set before the  *)
(* import began or while it ran.  ("Manual settings preserved.",           *)
(* components/provider-models.tsx:185)                                     *)
(***************************************************************************)
ImportsKeepSettings ==
  [][\A m \in DOMAIN rows :
       (\E p \in Imports : At(p, "commit") /\ Commit(p)) => Settings(rows'[m]) = Settings(rows[m])]_vars

(***************************************************************************)
(* An import saves all that was wanted or nothing: told 200 it has saved   *)
(* every wanted model with what the provider just listed and the key it    *)
(* listed it to, told 409 nothing; a preview saves nothing.                *)
(* (models/import/route.ts 23-45)                                          *)
(***************************************************************************)
Saved(p) ==
  \A m \in tx[p].wanted :
    /\ m \in DOMAIN tx[p].claims \cap DOMAIN rows'
    /\ rows'[m].claim = tx[p].claims[m] /\ rows'[m].key = tx[p].key

ImportsAreWhole ==
  [][\A p \in Imports :
       ~At(p, "idle") /\ tx'[p].pc = "idle" =>
         /\ Saved(p) \/ UNCHANGED rows
         /\ tx'[p].answer = 200 => Saved(p)
         /\ tx'[p].answer = 409 \/ tx[p].wanted = {} => UNCHANGED rows]_vars

(***************************************************************************)
(* An import ends, even when another upserts the same models in another    *)
(* order.  (models/import/route.ts 31-49)                                  *)
(***************************************************************************)
ImportsEnd ==
  \A p \in Imports : ~At(p, "idle") ~> At(p, "idle")

=============================================================================
