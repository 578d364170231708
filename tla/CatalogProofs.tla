--------------------------- MODULE CatalogProofs ---------------------------
(***************************************************************************)
(* Imports keep what the owner set and save all that was wanted or         *)
(* nothing, for any models and imports.  The invariants say why: a         *)
(* transaction that has upserted a model holds its row alone, so what it   *)
(* wrote agrees with the row's settings until it ends; and what is wanted  *)
(* and not yet written is still in its queue.                              *)
(***************************************************************************)
EXTENDS Catalog, FiniteSetTheorems, TLAPS

\* No two transactions hold a row.
HeldAlone ==
  \A p, q \in Imports : \A m \in Models : Holds(p, m) /\ Holds(q, m) => p = q

\* What a transaction wrote has the settings of the row it wrote over.
SettingsKept ==
  \A p \in Imports : \A m \in DOMAIN tx[p].written \cap DOMAIN rows :
    Settings(tx[p].written[m]) = Settings(rows[m])

IInv == TypeOK /\ HeldAlone /\ SettingsKept

-----------------------------------------------------------------------------
(* Partial functions. *)

(***************************************************************************)
(* A partial function is a function on its domain.                         *)
(***************************************************************************)
LEMMA PartialFunction ==
  ASSUME NEW S, NEW T, NEW f \in Partial(S, T)
  PROVE  DOMAIN f \in SUBSET S /\ f \in [DOMAIN f -> T]
  BY DEF Partial

(***************************************************************************)
(* A function on part of a set is a partial function on it.                *)
(***************************************************************************)
LEMMA FunctionPartial ==
  ASSUME NEW S, NEW T, NEW D \in SUBSET S, NEW f \in [D -> T]
  PROVE  f \in Partial(S, T)
  BY DEF Partial

(***************************************************************************)
(* Over takes its values from the first function where it can.             *)
(***************************************************************************)
LEMMA OverPartial ==
  ASSUME NEW S, NEW T, NEW f \in Partial(S, T), NEW g \in Partial(S, T)
  PROVE  Over(f, g) \in Partial(S, T)
<1>1. /\ DOMAIN f \in SUBSET S /\ f \in [DOMAIN f -> T]
      /\ DOMAIN g \in SUBSET S /\ g \in [DOMAIN g -> T]
  BY PartialFunction
<1>2. Over(f, g) \in [DOMAIN f \cup DOMAIN g -> T]
  BY <1>1 DEF Over
<1>3. DOMAIN f \cup DOMAIN g \in SUBSET S
  BY <1>1
<1> QED
  BY <1>2, <1>3, FunctionPartial

(***************************************************************************)
(* With is a partial function with one value more, or another.             *)
(***************************************************************************)
LEMMA WithPartial ==
  ASSUME NEW S, NEW T, NEW f \in Partial(S, T), NEW m \in S, NEW r \in T
  PROVE  With(f, m, r) \in Partial(S, T)
<1>1. DOMAIN f \in SUBSET S /\ f \in [DOMAIN f -> T]
  BY PartialFunction
<1>2. With(f, m, r) \in [DOMAIN f \cup {m} -> T]
  BY <1>1 DEF With
<1>3. DOMAIN f \cup {m} \in SUBSET S
  BY <1>1
<1> QED
  BY <1>2, <1>3, FunctionPartial

-----------------------------------------------------------------------------
(* Type correctness. *)

(***************************************************************************)
(* Nothing is a partial function.                                          *)
(***************************************************************************)
LEMMA NothingPartial ==
  ASSUME NEW S, NEW T
  PROVE  Nothing \in Partial(S, T) /\ DOMAIN Nothing = {}
<1>1. Nothing \in [{} -> T] /\ {} \in SUBSET S /\ DOMAIN Nothing = {}
  BY DEF Nothing
<1> QED
  BY <1>1, FunctionPartial

(***************************************************************************)
(* An import that is not in progress has the type, whatever it was told.   *)
(***************************************************************************)
LEMMA IdleType ==
  ASSUME NEW n \in {0, 200, 409, 502}
  PROVE  /\ [Idle EXCEPT !.answer = n] \in Txs
         /\ [Idle EXCEPT !.answer = n].written = Nothing
         /\ [Idle EXCEPT !.answer = n].pc = "idle"
<1>1. Nothing \in Partial(Models, Claims) /\ Nothing \in Partial(Models, Row)
  BY NothingPartial
<1>2. << >> \in Seq(Models) /\ DOMAIN << >> = {}
  OBVIOUS
<1>3. PICK t : t = [Idle EXCEPT !.answer = n]
  OBVIOUS
<1>4. t = [pc |-> "idle", key |-> NoKey, wanted |-> {}, claims |-> Nothing, queue |-> << >>,
           written |-> Nothing, answer |-> n]
  BY <1>3 DEF Idle
<1>5. t \in Txs
  BY <1>1, <1>2, <1>4 DEF Txs
<1> QED
  BY <1>3, <1>4, <1>5

(***************************************************************************)
(* What an import upserts is a row with the settings of the row there is.  *)
(***************************************************************************)
LEMMA ImportedRow ==
  ASSUME TypeOK, NEW p \in Imports, tx[p].pc # "idle", NEW m \in DOMAIN tx[p].claims
  PROVE  /\ m \in Models
         /\ Imported(p, m) \in Row
         /\ m \in DOMAIN rows => Settings(Imported(p, m)) = Settings(rows[m])
<1>1. tx[p] \in Txs
  BY DEF TypeOK
<1>2. tx[p].claims \in Partial(Models, Claims) /\ tx[p].key \in Keys
  BY <1>1 DEF Txs
<1>3. m \in Models /\ tx[p].claims[m] \in Claims
  BY <1>2, PartialFunction
<1>4. PICK claim \in Claims : claim = tx[p].claims[m]
  BY <1>3
<1>5. PICK key \in Keys : key = tx[p].key
  BY <1>2
<1>6. claim # NoClaim /\ key # NoKey
  BY CatalogAssumption
<1>7. CASE m \in DOMAIN rows
  <2>1. rows[m] \in Row
    BY <1>7, PartialFunction DEF TypeOK
  <2>2. PICK row \in Row : row = rows[m]
    BY <2>1
  <2>3. Imported(p, m) = [row EXCEPT !.claim = claim, !.key = key]
    BY <1>4, <1>5, <1>7, <2>2 DEF Imported
  <2>4. [row EXCEPT !.claim = claim, !.key = key] \in Row
    BY <1>6 DEF Row
  <2>5. Settings([row EXCEPT !.claim = claim, !.key = key]) = Settings(row)
    BY DEF Row, Settings
  <2> QED
    BY <1>3, <2>2, <2>3, <2>4, <2>5
<1>8. CASE m \notin DOMAIN rows
  <2>1. Imported(p, m) = [display |-> Initial, enabled |-> TRUE, overrides |-> Initial,
                          claim |-> claim, key |-> key]
    BY <1>4, <1>5, <1>8 DEF Imported, New
  <2>2. [display |-> Initial, enabled |-> TRUE, overrides |-> Initial,
         claim |-> claim, key |-> key] \in Row
    BY <1>6 DEF Row
  <2> QED
    BY <1>3, <1>8, <2>1, <2>2
<1> QED
  BY <1>7, <1>8

\* A step of p that changes no row and writes no model.
Quiet(p) ==
  /\ tx' \in [Imports -> Txs]
  /\ \A q \in Imports \ {p} : tx'[q] = tx[q]
  /\ tx'[p].written \in {Nothing, tx[p].written}
  /\ rows' = rows
  /\ usable' = usable

(***************************************************************************)
(* Replacing what one import keeps leaves the others alone.                *)
(***************************************************************************)
LEMMA Replace ==
  ASSUME TypeOK, NEW p \in Imports, NEW t \in Txs, tx' = [tx EXCEPT ![p] = t]
  PROVE  tx' \in [Imports -> Txs] /\ tx'[p] = t /\ \A q \in Imports \ {p} : tx'[q] = tx[q]
  BY DEF TypeOK

(***************************************************************************)
(* An import that ends keeps nothing.                                      *)
(***************************************************************************)
LEMMA EndsNothing ==
  ASSUME TypeOK, NEW p \in Imports, NEW n \in {0, 200, 409, 502}, Ends(p, n)
  PROVE  /\ tx' \in [Imports -> Txs]
         /\ tx'[p].written = Nothing
         /\ \A q \in Imports \ {p} : tx'[q] = tx[q]
<1>1. PICK t : t = [Idle EXCEPT !.answer = n]
  OBVIOUS
<1>2. t \in Txs /\ t.written = Nothing
  BY <1>1, IdleType
<1>3. tx' = [tx EXCEPT ![p] = t]
  BY <1>1 DEF Ends
<1>4. tx' \in [Imports -> Txs] /\ tx'[p] = t /\ \A q \in Imports \ {p} : tx'[q] = tx[q]
  <2>1. tx \in [Imports -> Txs]
    BY DEF TypeOK
  <2> QED
    BY <1>2, <1>3, <2>1
<1> QED
  BY <1>2, <1>4

(***************************************************************************)
(* Beginning an import writes nothing.                                     *)
(***************************************************************************)
LEMMA BeginQuiet ==
  ASSUME TypeOK, NEW p \in Imports, Begin(p)
  PROVE  Quiet(p)
<1>1. PICK k \in Keys, wanted \in SUBSET Models :
        tx' = [tx EXCEPT ![p] = [Idle EXCEPT !.pc = "key", !.key = k, !.wanted = wanted]]
  BY Zenon DEF Begin
<1>2. PICK t : t = [Idle EXCEPT !.pc = "key", !.key = k, !.wanted = wanted]
  OBVIOUS
<1>3. t = [pc |-> "key", key |-> k, wanted |-> wanted, claims |-> Nothing, queue |-> << >>,
           written |-> Nothing, answer |-> 0]
  BY <1>2 DEF Idle
<1>4. Nothing \in Partial(Models, Claims) /\ Nothing \in Partial(Models, Row)
  BY NothingPartial
<1>5. << >> \in Seq(Models) /\ DOMAIN << >> = {}
  OBVIOUS
<1>6. t \in Txs /\ t.written = Nothing
  BY <1>3, <1>4, <1>5 DEF Txs
<1>7. tx' = [tx EXCEPT ![p] = t]
  BY <1>1, <1>2
<1> QED
  BY <1>6, <1>7, Replace DEF Quiet, Begin

(***************************************************************************)
(* Reading the key writes nothing.                                         *)
(***************************************************************************)
LEMMA ReadKeyQuiet ==
  ASSUME TypeOK, NEW p \in Imports, ReadKey(p)
  PROVE  Quiet(p)
<1>1. CASE tx[p].key \in usable
  <2>1. PICK s \in Txs : s = tx[p]
    BY DEF TypeOK
  <2>2. PICK t : t = [s EXCEPT !.pc = "discover"]
    OBVIOUS
  <2>3. s.pc = "key"
    BY <2>1 DEF ReadKey, At
  <2>4. t \in Txs /\ t.written = s.written
    BY <2>2, <2>3 DEF Txs
  <2>5. tx' = [tx EXCEPT ![p] = t]
    BY <1>1, <2>1, <2>2 DEF ReadKey
  <2> QED
    BY <2>1, <2>4, <2>5, Replace DEF Quiet, ReadKey
<1>2. CASE tx[p].key \notin usable
  <2>1. Ends(p, 502)
    BY <1>2 DEF ReadKey
  <2> QED
    BY <2>1, EndsNothing DEF Quiet, ReadKey
<1> QED
  BY <1>1, <1>2

(***************************************************************************)
(* Asking the provider writes nothing.                                     *)
(***************************************************************************)
LEMMA DiscoverQuiet ==
  ASSUME TypeOK, NEW p \in Imports, Discover(p)
  PROVE  Quiet(p)
<1>1. UNCHANGED <<rows, usable>>
  BY DEF Discover
<1>2. PICK s \in Txs : s = tx[p]
  BY DEF TypeOK
<1>3. CASE \E n \in {0, 200, 409, 502} : Ends(p, n)
  BY <1>1, <1>3, EndsNothing DEF Quiet
<1>4. ASSUME s.wanted # {}, NEW claims \in [s.wanted -> Claims], NEW order \in Orders(s.wanted),
             tx' = [tx EXCEPT ![p] = Discovered(tx[p], claims, order)]
      PROVE  Quiet(p)
  <2>1. s.pc = "discover"
    BY <1>2 DEF Discover, At
  <2>2. s.wanted \in SUBSET Models /\ IsFiniteSet(s.wanted)
    BY CatalogAssumption, FS_Subset DEF Txs
  <2>3. PICK n \in Nat : n = Cardinality(s.wanted)
    BY <2>2, FS_CardinalityType
  <2>4. n # 0
    BY <1>4, <2>2, <2>3, FS_EmptySet
  <2>5. order \in [1 .. n -> s.wanted]
    BY <2>3 DEF Orders
  <2>6. order \in Seq(Models) /\ DOMAIN order = 1 .. n /\ order # << >>
    BY <2>2, <2>4, <2>5
  <2>7. claims \in Partial(Models, Claims) /\ DOMAIN claims = s.wanted
    BY <2>2, FunctionPartial
  <2>8. PICK t : t = Discovered(s, claims, order)
    OBVIOUS
  <2>9. t \in Txs /\ t.written = s.written
    <3>1. \A i \in DOMAIN order : order[i] \in DOMAIN claims
      BY <2>5, <2>6, <2>7
    <3>2. s.key \in Keys /\ s.key \in Keys \cup {NoKey} /\ s.wanted \in SUBSET Models
          /\ s.written \in Partial(Models, Row) /\ s.answer \in {0, 200, 409, 502}
      BY <2>1 DEF Txs
    <3>3. t = [pc |-> "upsert", key |-> s.key, wanted |-> s.wanted, claims |-> claims,
               queue |-> order, written |-> s.written, answer |-> s.answer]
      BY <2>8 DEF Txs, Discovered
    <3>4. /\ t.pc = "upsert" /\ t.key = s.key /\ t.claims = claims /\ t.queue = order
          /\ t.written = s.written
      BY <3>3
    <3>5. t \in [pc : {"idle", "key", "discover", "upsert", "commit"}, key : Keys \cup {NoKey},
                 wanted : SUBSET Models, claims : Partial(Models, Claims), queue : Seq(Models),
                 written : Partial(Models, Row), answer : {0, 200, 409, 502}]
      BY <3>2, <3>3, <2>6, <2>7
    <3> QED
      BY <3>1, <3>2, <3>4, <3>5, <2>6 DEF Txs
  <2>10. tx' = [tx EXCEPT ![p] = t]
    BY <1>2, <1>4, <2>8
  <2> QED
    BY <1>1, <1>2, <2>9, <2>10, Replace DEF Quiet
<1>5. CASE /\ tx[p].wanted # {}
           /\ \E claims \in [tx[p].wanted -> Claims], order \in Orders(tx[p].wanted) :
                tx' = [tx EXCEPT ![p] = Discovered(tx[p], claims, order)]
  BY <1>2, <1>4, <1>5, Zenon
<1>6. CASE \/ Ends(p, 502)
           \/ tx[p].wanted = {} /\ Ends(p, 200)
           \/ \E listed \in SUBSET Models : ~(tx[p].wanted \subseteq listed) /\ Ends(p, 409)
  BY <1>3, <1>6
<1> QED
  BY <1>5, <1>6, Zenon DEF Discover

(***************************************************************************)
(* A failing import writes nothing.                                        *)
(***************************************************************************)
LEMMA FailQuiet ==
  ASSUME TypeOK, NEW p \in Imports, Fail(p)
  PROVE  Quiet(p)
  BY EndsNothing DEF Fail, Quiet

(***************************************************************************)
(* An upsert writes one free model, with the settings it has.              *)
(***************************************************************************)
LEMMA UpsertWrites ==
  ASSUME TypeOK, NEW p \in Imports, Upsert(p)
  PROVE  /\ tx' \in [Imports -> Txs]
         /\ rows' = rows /\ usable' = usable
         /\ \A q \in Imports \ {p} : tx'[q] = tx[q]
         /\ \E m \in Models :
              /\ Free(m)
              /\ tx'[p].written = With(tx[p].written, m, Imported(p, m))
              /\ m \in DOMAIN rows => Settings(Imported(p, m)) = Settings(rows[m])
<1>1. PICK s \in Txs : s = tx[p]
  BY DEF TypeOK
<1>2. s.pc = "upsert"
  BY <1>1 DEF Upsert, At
<1>3. PICK queue \in Seq(Models) : queue = s.queue
  BY DEF Txs
<1>4. queue # << >> /\ \A i \in DOMAIN queue : queue[i] \in DOMAIN s.claims
  BY <1>2, <1>3 DEF Txs
<1>5. PICK m : m = Head(queue)
  OBVIOUS
<1>6. PICK rest : rest = Tail(queue)
  OBVIOUS
<1>7. /\ m \in DOMAIN s.claims
      /\ rest \in Seq(Models) /\ \A i \in DOMAIN rest : rest[i] \in DOMAIN s.claims
  <2>1. 1 \in DOMAIN queue /\ m = queue[1]
    BY <1>4, <1>5
  <2>2. rest \in Seq(Models) /\ \A i \in DOMAIN rest : i + 1 \in DOMAIN queue /\ rest[i] = queue[i + 1]
    BY <1>4, <1>6
  <2> QED
    BY <1>4, <2>1, <2>2
<1>8. /\ m \in Models
      /\ Imported(p, m) \in Row
      /\ m \in DOMAIN rows => Settings(Imported(p, m)) = Settings(rows[m])
  BY <1>1, <1>2, <1>7, ImportedRow
<1>9. PICK written : written = With(s.written, m, Imported(p, m))
  OBVIOUS
<1>10. written \in Partial(Models, Row)
  <2>1. s.written \in Partial(Models, Row)
    BY DEF Txs
  <2> QED
    BY <1>8, <1>9, <2>1, WithPartial
<1>11. PICK pc \in {"upsert", "commit"} : pc = IF rest = << >> THEN "commit" ELSE "upsert"
  OBVIOUS
<1>12. PICK t : t = [s EXCEPT !.written = written, !.queue = rest, !.pc = pc]
  OBVIOUS
<1>13. t \in Txs /\ t.written = written
  <2>1. t = [pc |-> pc, key |-> s.key, wanted |-> s.wanted, claims |-> s.claims,
             queue |-> rest, written |-> written, answer |-> s.answer]
    BY <1>12 DEF Txs
  <2>2. s.key \in Keys /\ s.key \in Keys \cup {NoKey} /\ s.wanted \in SUBSET Models
        /\ s.claims \in Partial(Models, Claims) /\ s.answer \in {0, 200, 409, 502}
    BY <1>2 DEF Txs
  <2>3. pc = "upsert" => rest # << >>
    BY <1>11
  <2>4. /\ t.pc = pc /\ t.key = s.key /\ t.claims = s.claims /\ t.queue = rest
        /\ t.written = written
    BY <2>1
  <2>5. t \in [pc : {"idle", "key", "discover", "upsert", "commit"}, key : Keys \cup {NoKey},
               wanted : SUBSET Models, claims : Partial(Models, Claims), queue : Seq(Models),
               written : Partial(Models, Row), answer : {0, 200, 409, 502}]
    BY <1>7, <1>10, <2>1, <2>2
  <2> QED
    BY <1>7, <2>2, <2>3, <2>4, <2>5 DEF Txs
<1>14. Free(m) /\ tx' = [tx EXCEPT ![p] = t] /\ rows' = rows /\ usable' = usable
  <2>1. m = Head(tx[p].queue)
    BY <1>1, <1>3, <1>5
  <2>2. t = Upserted(s, Imported(p, m))
    BY <1>3, <1>5, <1>6, <1>9, <1>11, <1>12 DEF Upserted
  <2>3. /\ Free(m) /\ rows' = rows /\ usable' = usable
        /\ tx' = [tx EXCEPT ![p] = Upserted(tx[p], Imported(p, m))]
    BY <2>1 DEF Upsert
  <2> QED
    BY <1>1, <2>2, <2>3
<1>15. tx' \in [Imports -> Txs] /\ tx'[p] = t /\ \A q \in Imports \ {p} : tx'[q] = tx[q]
  BY <1>13, <1>14, Replace
<1> QED
  BY <1>1, <1>8, <1>9, <1>13, <1>14, <1>15

(***************************************************************************)
(* A commit puts what the import wrote over the rows.                      *)
(***************************************************************************)
LEMMA CommitWrites ==
  ASSUME TypeOK, NEW p \in Imports, Commit(p)
  PROVE  /\ tx' \in [Imports -> Txs]
         /\ usable' = usable
         /\ rows' = Over(tx[p].written, rows) /\ rows' \in Partial(Models, Row)
         /\ tx'[p].written = Nothing
         /\ \A q \in Imports \ {p} : tx'[q] = tx[q]
<1>1. tx[p].written \in Partial(Models, Row)
  <2>1. tx[p] \in Txs
    BY DEF TypeOK
  <2> QED
    BY <2>1 DEF Txs
<1>2. rows' = Over(tx[p].written, rows) /\ usable' = usable
  BY DEF Commit
<1>3. rows' \in Partial(Models, Row)
  BY <1>1, <1>2, OverPartial DEF TypeOK
<1>4. \E n \in {0, 200, 409, 502} : Ends(p, n)
  BY DEF Commit
<1> QED
  BY <1>2, <1>3, <1>4, EndsNothing

(***************************************************************************)
(* An owner changes one free row and no import.                            *)
(***************************************************************************)
LEMMA OwnerWrites ==
  ASSUME TypeOK, NEW m \in Models, Create(m) \/ Edit(m)
  PROVE  /\ Free(m)
         /\ tx' = tx /\ usable' = usable
         /\ rows' \in Partial(Models, Row)
         /\ DOMAIN rows' \subseteq DOMAIN rows \cup {m}
         /\ \A n \in DOMAIN rows \ {m} : rows'[n] = rows[n]
<1>1. rows \in Partial(Models, Row) /\ DOMAIN rows \in SUBSET Models /\ rows \in [DOMAIN rows -> Row]
  BY PartialFunction DEF TypeOK
<1>2. CASE Create(m)
  <2>1. PICK display \in Values, on \in BOOLEAN, overrides \in Values \cup {Initial} :
          rows' = With(rows, m, [display |-> display, enabled |-> on, overrides |-> overrides,
                                 claim |-> NoClaim, key |-> NoKey])
    BY <1>2, Zenon DEF Create
  <2>2. PICK row : row = [display |-> display, enabled |-> on, overrides |-> overrides,
                          claim |-> NoClaim, key |-> NoKey]
    OBVIOUS
  <2>3. row \in Row
    BY <2>2 DEF Row
  <2>4. rows' = With(rows, m, row)
    BY <2>1, <2>2
  <2>5. rows' \in Partial(Models, Row)
    BY <1>1, <2>3, <2>4, WithPartial
  <2>6. DOMAIN rows' = DOMAIN rows \cup {m} /\ \A n \in DOMAIN rows \ {m} : rows'[n] = rows[n]
    BY <2>4 DEF With
  <2> QED
    BY <1>2, <2>5, <2>6 DEF Create
<1>3. CASE Edit(m)
  <2>1. m \in DOMAIN rows
    BY <1>3 DEF Edit
  <2>2. PICK r \in Row : r = rows[m]
    BY <1>1, <2>1
  <2>3. PICK display \in {r.display} \cup Values, on \in BOOLEAN,
             overrides \in {r.overrides} \cup Values :
          rows' = [rows EXCEPT ![m] =
                     [@ EXCEPT !.display = display, !.enabled = on, !.overrides = overrides]]
    BY <1>3, <2>2 DEF Edit
  <2>4. PICK row : row = [r EXCEPT !.display = display, !.enabled = on, !.overrides = overrides]
    OBVIOUS
  <2>5. row \in Row
    BY <2>3, <2>4 DEF Row
  <2>6. rows' = [rows EXCEPT ![m] = row]
    BY <2>2, <2>3, <2>4
  <2>7. rows' \in [DOMAIN rows -> Row] /\ \A n \in DOMAIN rows \ {m} : rows'[n] = rows[n]
    BY <1>1, <2>1, <2>5, <2>6
  <2>8. rows' \in Partial(Models, Row)
    BY <1>1, <2>7, FunctionPartial
  <2> QED
    BY <1>3, <2>7, <2>8 DEF Edit
<1> QED
  BY <1>2, <1>3

-----------------------------------------------------------------------------
(* The invariant. *)

(***************************************************************************)
(* Initially nothing is imported.                                          *)
(***************************************************************************)
LEMMA InitIInv == Init => IInv
<1> SUFFICES ASSUME Init PROVE IInv
  OBVIOUS
<1>1. PICK t : t = Idle
  OBVIOUS
<1>2. t = [Idle EXCEPT !.answer = 0]
  <2>1. PICK u : u = [Idle EXCEPT !.answer = 0]
    OBVIOUS
  <2>2. u = [pc |-> "idle", key |-> NoKey, wanted |-> {}, claims |-> Nothing, queue |-> << >>,
             written |-> Nothing, answer |-> 0]
    BY <2>1 DEF Idle
  <2>3. t = [pc |-> "idle", key |-> NoKey, wanted |-> {}, claims |-> Nothing, queue |-> << >>,
             written |-> Nothing, answer |-> 0]
    BY <1>1 DEF Idle
  <2> QED
    BY <2>1, <2>2, <2>3
<1>3. t \in Txs /\ t.written = Nothing
  BY <1>2, IdleType
<1>4. rows \in Partial(Models, Row) /\ DOMAIN Nothing = {}
  BY NothingPartial DEF Init
<1>5. tx = [p \in Imports |-> t]
  BY <1>1 DEF Init
<1>6. TypeOK
  BY <1>3, <1>4, <1>5 DEF TypeOK, Init
<1>7. \A p \in Imports : DOMAIN tx[p].written = {}
  BY <1>3, <1>4, <1>5
<1>8. HeldAlone /\ SettingsKept
  BY <1>7 DEF HeldAlone, SettingsKept, Holds
<1> QED
  BY <1>6, <1>8 DEF IInv

(***************************************************************************)
(* Quiet steps preserve the invariant.                                     *)
(***************************************************************************)
LEMMA QuietIInv ==
  ASSUME IInv, NEW p \in Imports, Quiet(p)
  PROVE  IInv'
<1>1. TypeOK'
  BY DEF IInv, TypeOK, Quiet
<1>2. \A q \in Imports : DOMAIN tx'[q].written = {} \/ tx'[q].written = tx[q].written
  BY NothingPartial DEF Quiet
<1>3. HeldAlone'
  BY <1>2 DEF IInv, HeldAlone, Holds
<1>4. SettingsKept'
  BY <1>2 DEF IInv, SettingsKept, Quiet
<1> QED
  BY <1>1, <1>3, <1>4 DEF IInv

(***************************************************************************)
(* An upsert preserves it: the model it takes was free.                    *)
(***************************************************************************)
LEMMA UpsertIInv ==
  ASSUME IInv, NEW p \in Imports, Upsert(p)
  PROVE  IInv'
<1>1. TypeOK
  BY DEF IInv
<1>2. /\ tx' \in [Imports -> Txs]
      /\ rows' = rows /\ usable' = usable
      /\ \A q \in Imports \ {p} : tx'[q] = tx[q]
  BY <1>1, UpsertWrites
<1>3. PICK m \in Models :
        /\ Free(m)
        /\ tx'[p].written = With(tx[p].written, m, Imported(p, m))
        /\ m \in DOMAIN rows => Settings(Imported(p, m)) = Settings(rows[m])
  BY <1>1, UpsertWrites
<1>4. PICK row : row = Imported(p, m)
  OBVIOUS
<1>5. /\ DOMAIN tx'[p].written = DOMAIN tx[p].written \cup {m}
      /\ tx'[p].written[m] = row
      /\ \A n \in DOMAIN tx[p].written \ {m} : tx'[p].written[n] = tx[p].written[n]
  BY <1>3, <1>4 DEF With
<1>6. TypeOK'
  BY <1>1, <1>2 DEF TypeOK
<1>7. HeldAlone'
  <2>1. \A q \in Imports : m \notin DOMAIN tx[q].written
    BY <1>3 DEF Free, Holds
  <2> QED
    BY <1>2, <1>5, <2>1 DEF IInv, HeldAlone, Holds
<1>8. SettingsKept'
  <2> SUFFICES ASSUME NEW q \in Imports, NEW n \in DOMAIN tx'[q].written \cap DOMAIN rows
               PROVE  Settings(tx'[q].written[n]) = Settings(rows[n])
    BY <1>2 DEF SettingsKept, Settings
  <2>1. CASE q # p
    BY <1>2, <2>1 DEF IInv, SettingsKept
  <2>2. CASE q = p /\ n = m
    BY <1>3, <1>4, <1>5, <2>2
  <2>3. CASE q = p /\ n # m
    BY <1>5, <2>3 DEF IInv, SettingsKept
  <2> QED
    BY <2>1, <2>2, <2>3
<1> QED
  BY <1>6, <1>7, <1>8 DEF IInv

(***************************************************************************)
(* A commit preserves it: the others hold none of the rows it changes.     *)
(***************************************************************************)
LEMMA CommitIInv ==
  ASSUME IInv, NEW p \in Imports, Commit(p)
  PROVE  IInv'
<1>1. TypeOK
  BY DEF IInv
<1>2. /\ tx' \in [Imports -> Txs]
      /\ usable' = usable
      /\ rows' = Over(tx[p].written, rows) /\ rows' \in Partial(Models, Row)
      /\ tx'[p].written = Nothing
      /\ \A q \in Imports \ {p} : tx'[q] = tx[q]
  BY <1>1, CommitWrites
<1>3. TypeOK'
  BY <1>1, <1>2 DEF TypeOK
<1>4. DOMAIN tx'[p].written = {}
  BY <1>2, NothingPartial
<1>5. HeldAlone'
  BY <1>2, <1>4 DEF IInv, HeldAlone, Holds
<1>6. SettingsKept'
  <2> SUFFICES ASSUME NEW q \in Imports, NEW m \in DOMAIN tx'[q].written \cap DOMAIN rows'
               PROVE  Settings(tx'[q].written[m]) = Settings(rows'[m])
    BY DEF SettingsKept, Settings
  <2>1. q # p /\ tx'[q] = tx[q] /\ m \in DOMAIN tx[q].written
    BY <1>2, <1>4
  <2>2. m \in Models
    BY <1>2, PartialFunction
  <2>3. m \notin DOMAIN tx[p].written
    BY <2>1, <2>2 DEF IInv, HeldAlone, Holds
  <2>4. m \in DOMAIN rows /\ rows'[m] = rows[m]
    BY <1>2, <2>3 DEF Over
  <2> QED
    BY <2>1, <2>4 DEF IInv, SettingsKept
<1> QED
  BY <1>3, <1>5, <1>6 DEF IInv

(***************************************************************************)
(* The owner preserves it: the row is nobody's.                            *)
(***************************************************************************)
LEMMA OwnerIInv ==
  ASSUME IInv, NEW m \in Models, Create(m) \/ Edit(m)
  PROVE  IInv'
<1>1. TypeOK
  BY DEF IInv
<1>2. /\ Free(m)
      /\ tx' = tx /\ usable' = usable
      /\ rows' \in Partial(Models, Row)
      /\ DOMAIN rows' \subseteq DOMAIN rows \cup {m}
      /\ \A n \in DOMAIN rows \ {m} : rows'[n] = rows[n]
  BY <1>1, OwnerWrites
<1>3. TypeOK'
  BY <1>1, <1>2 DEF TypeOK
<1>4. HeldAlone'
  BY <1>2 DEF IInv, HeldAlone, Holds
<1>5. SettingsKept'
  <2> SUFFICES ASSUME NEW q \in Imports, NEW n \in DOMAIN tx[q].written \cap DOMAIN rows'
               PROVE  Settings(tx[q].written[n]) = Settings(rows'[n])
    BY <1>2 DEF SettingsKept, Settings
  <2>1. n # m
    BY <1>2 DEF Free, Holds
  <2>2. n \in DOMAIN rows /\ rows'[n] = rows[n]
    BY <1>2, <2>1
  <2> QED
    BY <2>2 DEF IInv, SettingsKept
<1> QED
  BY <1>3, <1>4, <1>5 DEF IInv

(***************************************************************************)
(* Every step preserves the invariant.                                     *)
(***************************************************************************)
LEMMA NextIInv == IInv /\ [Next]_vars => IInv'
<1> SUFFICES ASSUME IInv, [Next]_vars PROVE IInv'
  OBVIOUS
<1>1. TypeOK
  BY DEF IInv
<1>2. ASSUME NEW p \in Imports, Step(p) PROVE IInv'
  <2>1. CASE Begin(p)
    BY <1>1, <2>1, BeginQuiet, QuietIInv
  <2>2. CASE ReadKey(p)
    BY <1>1, <2>2, ReadKeyQuiet, QuietIInv
  <2>3. CASE Discover(p)
    BY <1>1, <2>3, DiscoverQuiet, QuietIInv
  <2>4. CASE Upsert(p)
    BY <2>4, UpsertIInv
  <2>5. CASE Commit(p)
    BY <2>5, CommitIInv
  <2>6. CASE Fail(p) \/ EndDeadlock(p)
    BY <1>1, <2>6, FailQuiet, QuietIInv DEF EndDeadlock
  <2> QED
    BY <1>2, <2>1, <2>2, <2>3, <2>4, <2>5, <2>6 DEF Step
<1>3. ASSUME NEW m \in Models, Create(m) \/ Edit(m) PROVE IInv'
  BY <1>3, OwnerIInv
<1>4. ASSUME NEW k \in Keys, SetKeyEnabled(k) PROVE IInv'
  <2>1. rows' = rows /\ tx' = tx /\ usable' \in SUBSET Keys
    BY <1>1, <1>4 DEF SetKeyEnabled, TypeOK
  <2> QED
    BY <1>1, <2>1 DEF IInv, TypeOK, HeldAlone, SettingsKept, Settings, Holds
<1>5. CASE UNCHANGED vars
  BY <1>5 DEF vars, IInv, TypeOK, HeldAlone, SettingsKept, Settings, Holds
<1> QED
  BY <1>2, <1>3, <1>4, <1>5 DEF Next

(***************************************************************************)
(* The invariant holds.                                                    *)
(***************************************************************************)
LEMMA Invariant == Spec => []IInv
  BY InitIInv, NextIInv, PTL DEF Spec

-----------------------------------------------------------------------------
(* Theorems. *)

(***************************************************************************)
(* Every variable keeps its type; a row has a claim of the provider when   *)
(* it has the key the claim was listed to.                                 *)
(***************************************************************************)
THEOREM TypeCorrect == Spec => []TypeOK
<1>1. IInv => TypeOK
  BY DEF IInv
<1> QED
  BY <1>1, Invariant, PTL

(***************************************************************************)
(* A commit of an import changes no display name, no switch and no         *)
(* override, for any number of imports that overlap with each other and    *)
(* with the owner's edits.  (models/import/route.ts 31-44)                 *)
(***************************************************************************)
THEOREM ImportsAlwaysKeepSettings == Spec => ImportsKeepSettings
<1>1. ASSUME IInv, NEW m \in DOMAIN rows, NEW p \in Imports, Commit(p)
      PROVE  Settings(rows'[m]) = Settings(rows[m])
  <2>1. rows' = Over(tx[p].written, rows)
    BY <1>1, CommitWrites DEF IInv
  <2>2. CASE m \in DOMAIN tx[p].written
    <3>1. rows'[m] = tx[p].written[m]
      BY <2>1, <2>2 DEF Over
    <3> QED
      BY <1>1, <2>2, <3>1 DEF IInv, SettingsKept
  <2>3. CASE m \notin DOMAIN tx[p].written
    BY <2>1, <2>3 DEF Over
  <2> QED
    BY <2>2, <2>3
<1>2. IInv => [\A m \in DOMAIN rows :
                 (\E p \in Imports : At(p, "commit") /\ Commit(p))
                   => Settings(rows'[m]) = Settings(rows[m])]_vars
  BY <1>1
<1> QED
  BY <1>2, Invariant, PTL DEF ImportsKeepSettings

-----------------------------------------------------------------------------
(* Imports are whole. *)

\* What a transaction has still to do and what it has done make up what was
\* wanted of it.
Whole(t) ==
  /\ t.pc \in {"idle", "key", "discover"} => t.written = Nothing
  /\ t.pc \in {"upsert", "commit"} =>
       /\ t.wanted # {} /\ t.wanted \subseteq DOMAIN t.claims
       /\ \A m \in t.wanted : m \in DOMAIN t.written \/ \E i \in DOMAIN t.queue : t.queue[i] = m
       /\ \A m \in DOMAIN t.written :
            /\ m \in DOMAIN t.claims
            /\ t.written[m].claim = t.claims[m] /\ t.written[m].key = t.key
  /\ t.pc = "commit" => t.queue = << >>

WholeInv == TypeOK /\ \A p \in Imports : Whole(tx[p])

\* If the step ends the import of p, it has saved all or nothing.
EndsWhole(p) ==
  tx'[p].pc = "idle" =>
    /\ Saved(p) \/ UNCHANGED rows
    /\ tx'[p].answer = 200 => Saved(p)
    /\ tx'[p].answer = 409 \/ tx[p].wanted = {} => UNCHANGED rows

(***************************************************************************)
(* An import that ends has nothing left to do, and its answer is given.    *)
(***************************************************************************)
LEMMA EndedWhole ==
  ASSUME TypeOK, NEW p \in Imports, NEW n \in {0, 200, 409, 502}, Ends(p, n)
  PROVE  Whole(tx'[p]) /\ tx'[p].answer = n
<1>1. PICK t : t = [Idle EXCEPT !.answer = n]
  OBVIOUS
<1>2. t \in Txs /\ t.written = Nothing /\ t.pc = "idle"
  BY <1>1, IdleType
<1>3. t.answer = n
  <2>1. t = [pc |-> "idle", key |-> NoKey, wanted |-> {}, claims |-> Nothing, queue |-> << >>,
             written |-> Nothing, answer |-> n]
    BY <1>1 DEF Idle
  <2> QED
    BY <2>1
<1>4. tx' = [tx EXCEPT ![p] = t]
  BY <1>1 DEF Ends
<1>5. tx'[p] = t
  <2>1. tx \in [Imports -> Txs]
    BY DEF TypeOK
  <2> QED
    BY <1>4, <2>1
<1> QED
  BY <1>2, <1>3, <1>5 DEF Whole

(***************************************************************************)
(* Beginning an import.                                                    *)
(***************************************************************************)
LEMMA BeginWhole ==
  ASSUME TypeOK, NEW p \in Imports, Begin(p)
  PROVE  Whole(tx'[p])
<1>1. PICK k \in Keys, wanted \in SUBSET Models :
        tx' = [tx EXCEPT ![p] = [Idle EXCEPT !.pc = "key", !.key = k, !.wanted = wanted]]
  BY Zenon DEF Begin
<1>2. PICK t : t = [Idle EXCEPT !.pc = "key", !.key = k, !.wanted = wanted]
  OBVIOUS
<1>3. t.pc = "key" /\ t.written = Nothing
  BY <1>2 DEF Idle
<1>4. tx'[p] = t
  BY <1>1, <1>2 DEF TypeOK
<1> QED
  BY <1>3, <1>4 DEF Whole

(***************************************************************************)
(* Reading the key.                                                        *)
(***************************************************************************)
LEMMA ReadKeyWhole ==
  ASSUME WholeInv, NEW p \in Imports, ReadKey(p)
  PROVE  Whole(tx'[p]) /\ EndsWhole(p)
<1>1. UNCHANGED rows
  BY DEF ReadKey
<1>2. CASE tx[p].key \in usable
  <2>1. PICK s \in Txs : s = tx[p]
    BY DEF WholeInv, TypeOK
  <2>2. PICK t : t = [s EXCEPT !.pc = "discover"]
    OBVIOUS
  <2>3. t.pc = "discover" /\ t.written = s.written
    BY <2>2 DEF Txs
  <2>4. tx'[p] = t
    BY <1>2, <2>1, <2>2 DEF WholeInv, TypeOK, ReadKey
  <2>5. s.written = Nothing
    BY <2>1 DEF WholeInv, Whole, ReadKey, At
  <2> QED
    BY <2>3, <2>4, <2>5 DEF Whole, EndsWhole
<1>3. CASE tx[p].key \notin usable
  <2>1. Ends(p, 502)
    BY <1>3 DEF ReadKey
  <2>2. Whole(tx'[p]) /\ tx'[p].answer = 502
    BY <2>1, EndedWhole DEF WholeInv
  <2> QED
    BY <1>1, <2>2 DEF EndsWhole
<1> QED
  BY <1>2, <1>3

(***************************************************************************)
(* Asking the provider: the queue is what is wanted.                       *)
(***************************************************************************)
LEMMA DiscoverWhole ==
  ASSUME WholeInv, NEW p \in Imports, Discover(p)
  PROVE  Whole(tx'[p]) /\ EndsWhole(p)
<1>1. UNCHANGED rows
  BY DEF Discover
<1>2. PICK s \in Txs : s = tx[p]
  BY DEF WholeInv, TypeOK
<1>3. ASSUME NEW n \in {200, 409, 502}, Ends(p, n), n = 200 => tx[p].wanted = {}
      PROVE  Whole(tx'[p]) /\ EndsWhole(p)
  <2>1. Whole(tx'[p]) /\ tx'[p].answer = n
    BY <1>3, EndedWhole DEF WholeInv
  <2>2. n = 200 => Saved(p)
    BY <1>3 DEF Saved
  <2> QED
    BY <1>1, <2>1, <2>2 DEF EndsWhole
<1>4. ASSUME s.wanted # {}, NEW claims \in [s.wanted -> Claims], NEW order \in Orders(s.wanted),
             tx' = [tx EXCEPT ![p] = Discovered(tx[p], claims, order)]
      PROVE  Whole(tx'[p]) /\ EndsWhole(p)
  <2>1. PICK t : t = Discovered(s, claims, order)
    OBVIOUS
  <2>2. /\ t.pc = "upsert" /\ t.wanted = s.wanted /\ t.claims = claims /\ t.queue = order
        /\ t.written = s.written
    BY <2>1 DEF Txs, Discovered
  <2>3. tx'[p] = t
    BY <1>2, <1>4, <2>1 DEF WholeInv, TypeOK
  <2>4. DOMAIN s.written = {}
    BY <1>2, NothingPartial DEF WholeInv, Whole, Discover, At
  <2>5. \A m \in s.wanted : \E i \in DOMAIN order : order[i] = m
    BY DEF Orders
  <2> QED
    BY <1>4, <2>2, <2>3, <2>4, <2>5 DEF Whole, EndsWhole
<1>5. CASE /\ tx[p].wanted # {}
           /\ \E claims \in [tx[p].wanted -> Claims], order \in Orders(tx[p].wanted) :
                tx' = [tx EXCEPT ![p] = Discovered(tx[p], claims, order)]
  BY <1>2, <1>4, <1>5, Zenon
<1>6. CASE \/ Ends(p, 502)
           \/ tx[p].wanted = {} /\ Ends(p, 200)
           \/ \E listed \in SUBSET Models : ~(tx[p].wanted \subseteq listed) /\ Ends(p, 409)
  BY <1>3, <1>6
<1> QED
  BY <1>5, <1>6, Zenon DEF Discover

(***************************************************************************)
(* What is upserted bears the provider's claim and the key of the import.  *)
(***************************************************************************)
LEMMA ImportedClaim ==
  ASSUME TypeOK, NEW p \in Imports, NEW m
  PROVE  Imported(p, m).claim = tx[p].claims[m] /\ Imported(p, m).key = tx[p].key
<1>1. CASE m \in DOMAIN rows
  <2>1. PICK row \in Row : row = rows[m]
    BY <1>1, PartialFunction DEF TypeOK
  <2>2. Imported(p, m) = [row EXCEPT !.claim = tx[p].claims[m], !.key = tx[p].key]
    BY <1>1, <2>1 DEF Imported
  <2> QED
    BY <2>2 DEF Row
<1>2. CASE m \notin DOMAIN rows
  BY <1>2 DEF Imported, New
<1> QED
  BY <1>1, <1>2

(***************************************************************************)
(* An upsert: the head of the queue is written.                            *)
(***************************************************************************)
LEMMA UpsertWhole ==
  ASSUME WholeInv, NEW p \in Imports, Upsert(p)
  PROVE  Whole(tx'[p]) /\ EndsWhole(p)
<1>1. PICK s \in Txs : s = tx[p]
  BY DEF WholeInv, TypeOK
<1>2. s.pc = "upsert" /\ Whole(s)
  BY <1>1 DEF Upsert, At, WholeInv
<1>3. PICK queue \in Seq(Models) : queue = s.queue
  BY DEF Txs
<1>4. queue # << >> /\ \A i \in DOMAIN queue : queue[i] \in DOMAIN s.claims
  BY <1>2, <1>3 DEF Txs
<1>5. PICK m : m = Head(queue)
  OBVIOUS
<1>6. PICK rest : rest = Tail(queue)
  OBVIOUS
<1>7. /\ m \in DOMAIN s.claims
      /\ \A i \in DOMAIN queue : queue[i] = m \/ \E j \in DOMAIN rest : rest[j] = queue[i]
  <2>1. 1 \in DOMAIN queue /\ m = queue[1]
    BY <1>4, <1>5
  <2>2. ASSUME NEW i \in DOMAIN queue, i # 1
        PROVE  i - 1 \in DOMAIN rest /\ rest[i - 1] = queue[i]
    BY <1>4, <1>6, <2>2
  <2> QED
    BY <1>4, <2>1, <2>2
<1>8. PICK row : row = Imported(p, m)
  OBVIOUS
<1>9. row.claim = s.claims[m] /\ row.key = s.key
  BY <1>1, <1>8, ImportedClaim DEF WholeInv
<1>10. PICK written : written = With(s.written, m, row)
  OBVIOUS
<1>11. /\ DOMAIN written = DOMAIN s.written \cup {m} /\ written[m] = row
       /\ \A n \in DOMAIN s.written \ {m} : written[n] = s.written[n]
  BY <1>10 DEF With
<1>12. PICK pc \in {"upsert", "commit"} : pc = IF rest = << >> THEN "commit" ELSE "upsert"
  OBVIOUS
<1>13. PICK t : t = [s EXCEPT !.written = written, !.queue = rest, !.pc = pc]
  OBVIOUS
<1>14. /\ t.pc = pc /\ t.wanted = s.wanted /\ t.claims = s.claims /\ t.key = s.key
       /\ t.queue = rest /\ t.written = written
  BY <1>13 DEF Txs
<1>15. tx'[p] = t
  <2>1. t = Upserted(s, row)
    BY <1>3, <1>5, <1>6, <1>10, <1>12, <1>13 DEF Upserted
  <2>2. tx' = [tx EXCEPT ![p] = Upserted(tx[p], Imported(p, Head(tx[p].queue)))]
    BY DEF Upsert
  <2> QED
    BY <1>1, <1>3, <1>5, <1>8, <2>1, <2>2 DEF WholeInv, TypeOK
<1>16. /\ s.wanted # {} /\ s.wanted \subseteq DOMAIN s.claims
       /\ \A n \in s.wanted : n \in DOMAIN s.written \/ \E i \in DOMAIN queue : queue[i] = n
       /\ \A n \in DOMAIN s.written :
            /\ n \in DOMAIN s.claims
            /\ s.written[n].claim = s.claims[n] /\ s.written[n].key = s.key
  BY <1>2, <1>3 DEF Whole
<1>17. \A n \in s.wanted : n \in DOMAIN written \/ \E j \in DOMAIN rest : rest[j] = n
  BY <1>7, <1>11, <1>16
<1>18. \A n \in DOMAIN written :
         n \in DOMAIN s.claims /\ written[n].claim = s.claims[n] /\ written[n].key = s.key
  BY <1>7, <1>9, <1>11, <1>16
<1>19. Whole(t)
  BY <1>12, <1>14, <1>16, <1>17, <1>18 DEF Whole
<1> QED
  BY <1>12, <1>14, <1>15, <1>19 DEF EndsWhole

(***************************************************************************)
(* A commit: the queue is empty, so all that is wanted is written.         *)
(***************************************************************************)
LEMMA CommitWhole ==
  ASSUME WholeInv, NEW p \in Imports, Commit(p)
  PROVE  Whole(tx'[p]) /\ EndsWhole(p)
<1>1. PICK n \in {200, 502} : Ends(p, n)
  BY DEF Commit
<1>2. Whole(tx'[p]) /\ tx'[p].answer = n
  BY <1>1, EndedWhole DEF WholeInv
<1>3. /\ tx[p].wanted # {} /\ tx[p].wanted \subseteq DOMAIN tx[p].claims
      /\ \A m \in tx[p].wanted :
           m \in DOMAIN tx[p].written \/ \E i \in DOMAIN tx[p].queue : tx[p].queue[i] = m
      /\ \A m \in DOMAIN tx[p].written :
           tx[p].written[m].claim = tx[p].claims[m] /\ tx[p].written[m].key = tx[p].key
      /\ tx[p].queue = << >>
  BY DEF WholeInv, Whole, Commit, At
<1>4. tx[p].wanted \subseteq DOMAIN tx[p].written
  <2>1. DOMAIN tx[p].queue = {}
    BY <1>3
  <2> QED
    BY <1>3, <2>1
<1>5. /\ DOMAIN rows' = DOMAIN tx[p].written \cup DOMAIN rows
      /\ \A m \in DOMAIN tx[p].written : rows'[m] = tx[p].written[m]
  BY DEF Commit, Over
<1>6. Saved(p)
  BY <1>3, <1>4, <1>5 DEF Saved
<1> QED
  BY <1>2, <1>3, <1>6 DEF EndsWhole

(***************************************************************************)
(* A failing import: nothing is saved.                                     *)
(***************************************************************************)
LEMMA FailWhole ==
  ASSUME WholeInv, NEW p \in Imports, Fail(p)
  PROVE  Whole(tx'[p]) /\ EndsWhole(p)
<1>1. Whole(tx'[p]) /\ tx'[p].answer = 502
  BY EndedWhole DEF WholeInv, Fail
<1> QED
  BY <1>1 DEF EndsWhole, Fail

(***************************************************************************)
(* Every step of an import leaves it whole, and whole if it ends.          *)
(***************************************************************************)
LEMMA StepWhole ==
  ASSUME WholeInv, NEW p \in Imports, Step(p)
  PROVE  /\ Whole(tx'[p]) /\ (tx[p].pc # "idle" => EndsWhole(p))
         /\ \A q \in Imports \ {p} : tx'[q] = tx[q]
<1>1. CASE Begin(p)
  BY <1>1, BeginWhole, BeginQuiet DEF WholeInv, Quiet, Begin, At
<1>2. CASE ReadKey(p)
  BY <1>2, ReadKeyWhole, ReadKeyQuiet DEF WholeInv, Quiet
<1>3. CASE Discover(p)
  BY <1>3, DiscoverWhole, DiscoverQuiet DEF WholeInv, Quiet
<1>4. CASE Upsert(p)
  BY <1>4, UpsertWhole, UpsertWrites DEF WholeInv
<1>5. CASE Commit(p)
  BY <1>5, CommitWhole, CommitWrites DEF WholeInv
<1>6. CASE Fail(p) \/ EndDeadlock(p)
  BY <1>6, FailWhole, FailQuiet DEF WholeInv, Quiet, EndDeadlock
<1> QED
  BY <1>1, <1>2, <1>3, <1>4, <1>5, <1>6 DEF Step

\* The owner's steps leave the imports alone.
LEMMA NextImports ==
  ASSUME [Next]_vars
  PROVE  tx' = tx \/ \E p \in Imports : Step(p)
BY DEF Next, vars, Create, Edit, SetKeyEnabled

(***************************************************************************)
(* Imports are whole at all times.                                         *)
(***************************************************************************)
LEMMA WholeInvariant == Spec => []WholeInv
<1>1. Init => WholeInv
  <2> SUFFICES ASSUME Init PROVE WholeInv
    OBVIOUS
  <2>1. TypeOK
    BY InitIInv DEF IInv
  <2>2. ASSUME NEW p \in Imports PROVE Whole(tx[p])
    <3>1. tx[p] = Idle
      BY DEF Init
    <3> QED
      BY <3>1 DEF Idle, Whole
  <2> QED
    BY <2>1, <2>2 DEF WholeInv
<1>2. WholeInv /\ TypeOK' /\ [Next]_vars => WholeInv'
  <2> SUFFICES ASSUME WholeInv, TypeOK', [Next]_vars, NEW q \in Imports PROVE Whole(tx'[q])
    BY DEF WholeInv, Whole
  <2>1. CASE tx' = tx
    BY <2>1 DEF WholeInv
  <2>2. ASSUME NEW p \in Imports, Step(p) PROVE Whole(tx'[q])
    <3>1. CASE q = p
      BY <2>2, <3>1, StepWhole
    <3>2. CASE q # p
      BY <2>2, <3>2, StepWhole DEF WholeInv
    <3> QED
      BY <3>1, <3>2
  <2> QED
    BY <2>1, <2>2, NextImports
<1> QED
  BY <1>1, <1>2, TypeCorrect, PTL DEF Spec

(***************************************************************************)
(* An import saves all that was wanted or nothing, and its answer tells    *)
(* which, for any number of models and of imports that overlap.            *)
(* (models/import/route.ts 23-45)                                          *)
(***************************************************************************)
THEOREM ImportsAreAlwaysWhole == Spec => ImportsAreWhole
<1>1. ASSUME WholeInv, [Next]_vars, NEW p \in Imports, ~At(p, "idle"), tx'[p].pc = "idle"
      PROVE  EndsWhole(p)
  <2>1. tx[p].pc # "idle"
    BY <1>1 DEF At
  <2>2. tx'[p] # tx[p]
    BY <1>1, <2>1
  <2>3. PICK q \in Imports : Step(q)
    BY <1>1, <2>2, NextImports
  <2>4. q = p
    BY <1>1, <2>2, <2>3, StepWhole
  <2> QED
    BY <1>1, <2>1, <2>3, <2>4, StepWhole
<1>2. WholeInv /\ [Next]_vars =>
        [\A p \in Imports :
           ~At(p, "idle") /\ tx'[p].pc = "idle" =>
             /\ Saved(p) \/ UNCHANGED rows
             /\ tx'[p].answer = 200 => Saved(p)
             /\ tx'[p].answer = 409 \/ tx[p].wanted = {} => UNCHANGED rows]_vars
  BY <1>1 DEF EndsWhole
<1> QED
  BY <1>2, WholeInvariant, PTL DEF Spec, ImportsAreWhole

=============================================================================
