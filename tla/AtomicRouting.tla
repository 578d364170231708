--------------------------- MODULE AtomicRouting ---------------------------
(***************************************************************************)
(* What the routing configurations promise their users                     *)
(* (apps/web/lib/routing-store.ts, app/api/routing-configs): every save,   *)
(* change of the default and deletion is one step on the configurations of *)
(* the one user who asked, leads only to connections that user may use at  *)
(* that moment, and leaves the user at most one default.                   *)
(*                                                                         *)
(* The routes of a configuration are the set of connections they lead to.  *)
(***************************************************************************)
CONSTANTS
  Users,          \* users.id
  Configs,        \* routing_configs.id
  Connections,    \* connections.id
  ConnectionOwner,
  Unused,         \* owner of a configuration that was never created,
  Deleted         \* and of one that was deleted

ASSUME RoutingAssumption ==
  /\ Users # {} /\ Configs # {}
  /\ ConnectionOwner \in [Connections -> Users]
  /\ Unused \notin Users /\ Deleted \notin Users
  /\ Unused # Deleted

VARIABLES
  setting,        \* connection -> how it may be used
  owner,          \* configuration -> its user
  default,        \* configurations with is_default
  table           \* configuration -> connections its routes lead to

tables == <<setting, owner, default, table>>

Settings == {"public", "private", "disabled", "deleted"}
Bodies == (SUBSET Connections) \ {{}}

OwnConfigs(u) == {k \in Configs : owner[k] = u}

\* enabled AND (owner_user_id = $2 OR visibility = 'public')
MayRouteTo(u, c) ==
  setting[c] = "public" \/ (setting[c] = "private" /\ ConnectionOwner[c] = u)

Init ==
  /\ setting \in [Connections -> Settings]
  /\ owner = [k \in Configs |-> Unused]
  /\ default = {}
  /\ table = [k \in Configs |-> {}]

\* POST and PUT /api/routing-configs.
Saved(u, k, body, isDefault) ==
  /\ owner[k] \in {u, Unused}
  /\ \A c \in body : MayRouteTo(u, c)
  /\ owner' = [owner EXCEPT ![k] = u]
  /\ table' = [table EXCEPT ![k] = body]
  /\ default' = IF isDefault THEN (default \ OwnConfigs(u)) \cup {k} ELSE default \ {k}
  /\ UNCHANGED setting

\* PATCH.
MadeDefault(u, k) ==
  /\ owner[k] = u
  /\ default' = (default \ OwnConfigs(u)) \cup {k}
  /\ UNCHANGED <<setting, owner, table>>

\* DELETE; the routes go with the configuration.
Removed(u, k) ==
  /\ owner[k] = u
  /\ owner' = [owner EXCEPT ![k] = Deleted]
  /\ table' = [table EXCEPT ![k] = {}]
  /\ default' = default \ {k}
  /\ UNCHANGED setting

\* PATCH /api/connections/[id].
Edited(c) ==
  /\ setting[c] # "deleted"
  /\ \E s \in Settings \ {"deleted"} : setting' = [setting EXCEPT ![c] = s]
  /\ UNCHANGED <<owner, default, table>>

\* DELETE /api/connections/[id]; routes that lead there are deleted with it.
Dropped(c) ==
  /\ setting' = [setting EXCEPT ![c] = "deleted"]
  /\ table' = [k \in Configs |-> table[k] \ {c}]
  /\ UNCHANGED <<owner, default>>

Next ==
  \/ \E u \in Users, k \in Configs :
       \/ \E body \in Bodies, isDefault \in BOOLEAN : Saved(u, k, body, isDefault)
       \/ MadeDefault(u, k)
       \/ Removed(u, k)
  \/ \E c \in Connections : Edited(c) \/ Dropped(c)

Spec == Init /\ [][Next]_tables

=============================================================================
