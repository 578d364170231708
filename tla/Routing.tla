------------------------------ MODULE Routing ------------------------------
(***************************************************************************)
(* The transactions of the routing configurations                          *)
(* (apps/web/lib/routing-store.ts saveRouting,                             *)
(* app/api/routing-configs/[id]/route.ts changeDefaultOrDelete), statement *)
(* by statement.  A transaction holds the user's row from its first        *)
(* statement on, and shares the connections it routes to; what it writes   *)
(* is seen by others when it commits.                                      *)
(*                                                                         *)
(* The partial unique index routing_configs_one_default                    *)
(* (db/migrations/0010_routing_management.sql) refuses a second default.   *)
(***************************************************************************)
EXTENDS AtomicRouting

CONSTANTS
  Requests        \* requests that may be in progress at once

VARIABLES
  tx              \* request -> its registers

vars == <<setting, owner, default, table, tx>>

Kinds == {"create", "update", "makeDefault", "delete"}
Saves == {"create", "update"}
Phases == {"idle", "lock", "share", "clear", "write"}

\* Answers beside HTTP's: the index refused the transaction (SQLSTATE 23505).
UniqueViolation == 23505
Answers == {0, 200, 400, 404, 500, UniqueViolation}

Registers ==
  [pc : Phases, kind : Kinds, user : Users, config : Configs, body : SUBSET Connections,
   isDefault : BOOLEAN, cleared : SUBSET Configs, answer : Answers]

\* What the registers of a request that is not in progress hold; never read.
Blank == CHOOSE r \in Registers :
           /\ r.pc = "idle" /\ r.kind = "create" /\ r.body = {} /\ r.isDefault = FALSE
           /\ r.cleared = {} /\ r.answer = 0

TypeOK ==
  /\ setting \in [Connections -> Settings]
  /\ owner \in [Configs -> Users \cup {Unused, Deleted}]
  /\ default \subseteq {k \in Configs : owner[k] \in Users}
  /\ table \in [Configs -> SUBSET Connections]
  /\ \A k \in Configs : owner[k] \notin Users => table[k] = {}
  /\ tx \in [Requests -> Registers]

RoutingInit ==
  /\ Init
  /\ tx = [p \in Requests |-> Blank]

At(p, pc) == p \in Requests /\ tx[p].pc = pc

\* SELECT id FROM users WHERE id = $1 FOR UPDATE has returned.
HoldsUser(p, u) == tx[p].pc \in {"share", "clear", "write"} /\ tx[p].user = u

\* SELECT id FROM connections ... FOR SHARE has returned.
SharesConnection(p, c) ==
  tx[p].pc \in {"clear", "write"} /\ tx[p].kind \in Saves /\ c \in tx[p].body

Enters(p, pc) == tx' = [tx EXCEPT ![p].pc = pc]
Ends(p, answer) == tx' = [tx EXCEPT ![p] = [Blank EXCEPT !.answer = answer]]

-----------------------------------------------------------------------------
(* The statements. *)

\* The registers of a request that was authenticated and whose body was parsed.
Asked(u, kind, k, body, isDefault) ==
  [Blank EXCEPT !.pc = "lock", !.user = u, !.kind = kind, !.config = k, !.body = body,
                !.isDefault = isDefault]

\* It may name any id.
Begin(p) ==
  /\ At(p, "idle")
  /\ \E u \in Users, k \in Configs, kind \in Kinds, body \in SUBSET Connections,
        isDefault \in BOOLEAN :
       /\ kind \in Saves <=> body # {}
       /\ kind = "create" => k = Blank.config
       /\ kind = "makeDefault" => isDefault
       /\ kind = "delete" => ~isDefault
       /\ tx' = [tx EXCEPT ![p] = Asked(u, kind, k, body, isDefault)]
  /\ UNCHANGED tables

LockNobody(p) ==   \* a mutant: the user's row is not locked
  /\ At(p, "lock")
  /\ IF tx[p].kind = "create" \/ owner[tx[p].config] = tx[p].user
     THEN Enters(p, IF tx[p].kind \in Saves THEN "share" ELSE "clear")
     ELSE Ends(p, 404)
  /\ UNCHANGED tables

\* The row of the user, then the look at the configuration.
LockUser(p) ==
  /\ At(p, "lock")
  /\ \A q \in Requests : ~HoldsUser(q, tx[p].user)
  /\ IF tx[p].kind = "create" \/ owner[tx[p].config] = tx[p].user
     THEN Enters(p, IF tx[p].kind \in Saves THEN "share" ELSE "clear")
     ELSE Ends(p, 404)
  /\ UNCHANGED tables

\* All the connections of the body, or the transaction is rolled back.
ShareConnections(p) ==
  /\ At(p, "share")
  /\ IF \A c \in tx[p].body : MayRouteTo(tx[p].user, c)
     THEN Enters(p, "clear")
     ELSE Ends(p, 400)
  /\ UNCHANGED tables

\* UPDATE routing_configs SET is_default = false WHERE owner_user_id = $1
ClearDefault(p) ==
  /\ At(p, "clear")
  /\ tx' = [tx EXCEPT ![p].pc = "write",
                      ![p].cleared = IF tx[p].isDefault
                                     THEN default \cap OwnConfigs(tx[p].user) ELSE {}]
  /\ UNCHANGED tables

\* The defaults there will be once r, which writes configuration k, commits.
Defaults(r, k) ==
  IF r.isDefault THEN (default \ r.cleared) \cup {k} ELSE default \ {k}

\* The rows are written and the transaction commits, if the index lets it;
\* the caller may not learn of it.
Commit(p) ==
  /\ At(p, "write")
  /\ \E k \in Configs :
       LET r == tx[p] IN
       /\ IF r.kind = "create" THEN owner[k] = Unused ELSE k = r.config
       /\ IF r.isDefault /\ \E j \in Defaults(r, k) \ {k} : owner[j] = r.user
          THEN /\ Ends(p, UniqueViolation)
               /\ UNCHANGED tables
          ELSE /\ default' = Defaults(r, k)
               /\ owner' = [owner EXCEPT ![k] = IF r.kind = "delete" THEN Deleted ELSE r.user]
               /\ table' = [table EXCEPT ![k] = IF r.kind = "makeDefault" THEN @ ELSE r.body]
               /\ Ends(p, 200) \/ Ends(p, 500)
               /\ UNCHANGED setting

\* A statement fails, or PostgreSQL ends a deadlock.
RollBack(p) ==
  /\ p \in Requests /\ tx[p].pc # "idle"
  /\ Ends(p, 500)
  /\ UNCHANGED tables

-----------------------------------------------------------------------------
(* Single statements on a connection wait for those who share it. *)

EditShared(c) ==   \* a mutant: the connections are read without FOR SHARE
  /\ Edited(c)
  /\ UNCHANGED tx

EditConnection(c) ==
  /\ \A p \in Requests : ~SharesConnection(p, c)
  /\ Edited(c)
  /\ UNCHANGED tx

DeleteConnection(c) ==
  /\ \A p \in Requests : ~SharesConnection(p, c)
  /\ Dropped(c)
  /\ UNCHANGED tx

Step(p) ==
  \/ Begin(p) \/ LockUser(p) \/ ShareConnections(p) \/ ClearDefault(p) \/ Commit(p) \/ RollBack(p)

RoutingNext ==
  \/ \E p \in Requests : Step(p)
  \/ \E c \in Connections : EditConnection(c) \/ DeleteConnection(c)

RoutingSpec == RoutingInit /\ [][RoutingNext]_vars

-----------------------------------------------------------------------------
(* Properties. *)

(***************************************************************************)
(* However saves, changes of the default and deletions overlap, none is    *)
(* refused by the index on defaults: the lock on the user comes first.     *)
(* (routing-store.ts 14, routing-configs/[id]/route.ts 38)                 *)
(***************************************************************************)
SavesNeverCollide ==
  \A p \in Requests : tx[p].answer # UniqueViolation

(***************************************************************************)
(* Every transaction acts as one step of AtomicRouting: on configurations  *)
(* of its user only, with routes to connections which that user may use at *)
(* the moment it commits.  (routing-store.ts 12-61)                        *)
(***************************************************************************)
RefinesAtomicRouting == Spec

(***************************************************************************)
(* A configuration stops being the default only when a request of its      *)
(* owner names it or asks for another default.  (routing-store.ts 32-41,   *)
(* routing-configs/[id]/route.ts 48-57)                                    *)
(***************************************************************************)
DefaultsEndOnRequest ==
  [][\A k \in default \ default' :
       \E p \in Requests :
         /\ At(p, "write") /\ tx[p].user = owner[k]
         /\ tx[p].isDefault \/ tx[p].config = k]_vars

=============================================================================
