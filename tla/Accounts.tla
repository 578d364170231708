------------------------------ MODULE Accounts ------------------------------
(***************************************************************************)
(* Users, sessions and API keys of the control plane: bootstrap, login,    *)
(* the change of a temporary password, logout, currentUser and the routes  *)
(* behind it that touch this state (apps/web/lib/auth.ts, app/api/auth,    *)
(* app/api/users, app/api/keys).                                           *)
(*                                                                         *)
(* A request is a sequence of statements on its own connection to the      *)
(* database; login and the change of a password are transactions that hold *)
(* the user's row FOR UPDATE while a password is verified.  Other requests *)
(* move between any two statements.                                        *)
(***************************************************************************)
EXTENDS Integers

CONSTANTS
  Users,          \* users.id
  Root,           \* the configured administrator
  Passwords,      \* passwords that anybody may try or choose
  Temporary,      \* the password a user is created with
  Configured,     \* BOOTSTRAP_ADMIN_PASSWORD
  Sessions,       \* tokens, each drawn at random and never twice
  NoSession,      \* no cookie
  Keys,           \* api_keys.id
  Requests        \* requests that may be in progress at once

ASSUME AccountsAssumption ==
  /\ Root \in Users
  /\ Temporary \in Passwords
  /\ Configured \in Passwords
  /\ NoSession \notin Sessions

VARIABLES
  exists,         \* users that have a row
  password,       \* user -> password_hash
  mustChange,     \* users whose must_change_password is set
  admins,         \* users whose role is 'admin'
  live,           \* sessions that have a row and have not expired
  keyOwner,       \* keys that were created -> their user
  revoked,        \* keys with revoked_at set
  req,            \* request -> the handler's own variables
  \* history
  issued,         \* sessions that were ever created
  owner,          \* session -> its user
  madeWith,       \* session -> the password that was given for it
  restricted,     \* sessions created while a temporary password was in force
  bootstraps      \* bootstraps that were answered 201

vars == <<exists, password, mustChange, admins, live, keyOwner, revoked, req,
          issued, owner, madeWith, restricted, bootstraps>>
accounts == <<exists, password, mustChange, admins>>
sessions == <<live, issued, owner, madeWith, restricted>>
keys == <<keyOwner, revoked>>

Kinds == {"login", "change", "api", "logout", "bootstrap"}
Phases == {"idle", "verify", "session", "user", "act", "hash", "change",
           "write", "delete", "insert", "done"}

\* The registers: kind and the caller's input; what was read of the user.
Blank == [pc |-> "idle", kind |-> "api", user |-> Root, given |-> Temporary,
          token |-> NoSession, hash |-> Temporary,
          restricted |-> FALSE, ok |-> FALSE]

Registers ==
  [pc : Phases, kind : Kinds, user : Users, given : Passwords,
   token : Sessions \cup {NoSession}, hash : Passwords, restricted : BOOLEAN, ok : BOOLEAN]

TypeOK ==
  /\ exists \subseteq Users
  /\ password \in [Users -> Passwords]
  /\ mustChange \subseteq exists
  /\ admins \subseteq exists
  /\ live \subseteq issued
  /\ DOMAIN keyOwner \subseteq Keys
  /\ \A k \in DOMAIN keyOwner : keyOwner[k] \in exists
  /\ revoked \subseteq DOMAIN keyOwner
  /\ req \in [Requests -> Registers]
  /\ issued \subseteq Sessions
  /\ owner \in [Sessions -> Users]
  /\ madeWith \in [Sessions -> Passwords]
  /\ restricted \subseteq issued
  /\ bootstraps \in Nat

Init ==
  /\ exists = {}
  /\ password = [u \in Users |-> Temporary]
  /\ mustChange = {}
  /\ admins = {}
  /\ live = {}
  /\ keyOwner = [k \in {} |-> Root]
  /\ revoked = {}
  /\ req = [p \in Requests |-> Blank]
  /\ issued = {}
  /\ owner = [s \in Sessions |-> Root]
  /\ madeWith = [s \in Sessions |-> Temporary]
  /\ restricted = {}
  /\ bootstraps = 0

-----------------------------------------------------------------------------
(* Requests and the row locks they hold. *)

At(p, kind, pc) == req[p].kind = kind /\ req[p].pc = pc

\* The user's row, from SELECT ... FOR UPDATE to the end of the transaction.
Locks(p, u) ==
  /\ req[p].pc \in {"verify", "change", "write"}
  /\ req[p].user = u
Unlocked(u) == \A p \in Requests : ~Locks(p, u)

Goto(p, pc) == req' = [req EXCEPT ![p].pc = pc]
Answer(p, ok) == req' = [req EXCEPT ![p].pc = "done", ![p].ok = ok]

\* The client has its answer; the request's place is free for another.
Finish(p) ==
  /\ req[p].pc = "done"
  /\ req' = [req EXCEPT ![p] = Blank]
  /\ UNCHANGED <<accounts, sessions, keys, bootstraps>>

-----------------------------------------------------------------------------
(* POST /api/auth/login. *)

LoginPlainRead(p, u, given) ==   \* a mutant: the SELECT takes no FOR UPDATE
  /\ req[p].pc = "idle"
  /\ u \in exists
  /\ req' = [req EXCEPT ![p] = [Blank EXCEPT !.kind = "login", !.pc = "verify", !.user = u,
                                             !.given = given, !.hash = password[u],
                                             !.restricted = u \in mustChange]]
  /\ UNCHANGED <<accounts, sessions, keys, bootstraps>>

LoginLock(p, u, given) ==
  /\ req[p].pc = "idle"
  /\ u \in exists
  /\ Unlocked(u)
  /\ req' = [req EXCEPT ![p] = [Blank EXCEPT !.kind = "login", !.pc = "verify", !.user = u,
                                             !.given = given, !.hash = password[u],
                                             !.restricted = u \in mustChange]]
  /\ UNCHANGED <<accounts, sessions, keys, bootstraps>>

\* A wrong password, or a statement that fails: the transaction ends with
\* nothing written (withTransaction's ROLLBACK).
RollBack(p) ==
  /\ req[p].pc \in {"verify", "change", "write", "insert"}
  /\ Answer(p, FALSE)
  /\ UNCHANGED <<accounts, sessions, keys, bootstraps>>

\* The session is inserted and the transaction commits.
LoginCommit(p, s) ==
  /\ At(p, "login", "verify")
  /\ req[p].given = req[p].hash
  /\ s \in Sessions \ issued
  /\ live' = live \cup {s}
  /\ issued' = issued \cup {s}
  /\ owner' = [owner EXCEPT ![s] = req[p].user]
  /\ madeWith' = [madeWith EXCEPT ![s] = req[p].given]
  /\ restricted' = IF req[p].restricted THEN restricted \cup {s} ELSE restricted
  /\ Answer(p, TRUE)
  /\ UNCHANGED <<accounts, keys, bootstraps>>

-----------------------------------------------------------------------------
(* currentUser: the session, then the user, in two statements. *)

\* Any request behind currentUser presents the token of its cookie.
Present(p, kind, s, given) ==
  /\ req[p].pc = "idle"
  /\ s \in issued
  /\ req' = [req EXCEPT ![p] = [Blank EXCEPT !.kind = kind, !.pc = "session",
                                             !.token = s, !.given = given]]
  /\ UNCHANGED <<accounts, sessions, keys, bootstraps>>

ReadSession(p) ==
  /\ req[p].pc = "session"
  /\ req[p].kind \in {"api", "change"}
  /\ req' = [req EXCEPT ![p] =
       IF @.token \in live THEN [@ EXCEPT !.pc = "user", !.user = owner[req[p].token]]
                          ELSE [@ EXCEPT !.pc = "done"]]
  /\ UNCHANGED <<accounts, sessions, keys, bootstraps>>

ReadUserUnrestricted(p) ==   \* a mutant: currentUser(true) for every route
  /\ req[p].pc = "user"
  /\ Goto(p, IF req[p].kind = "change" THEN "hash" ELSE "act")
  /\ UNCHANGED <<accounts, sessions, keys, bootstraps>>

\* Only the change of a password is open to a user who must change it.
ReadUser(p) ==
  /\ req[p].pc = "user"
  /\ Goto(p, IF req[p].kind = "change" THEN "hash"
             ELSE IF req[p].user \in mustChange THEN "done" ELSE "act")
  /\ UNCHANGED <<accounts, sessions, keys, bootstraps>>

-----------------------------------------------------------------------------
(* POST /api/auth/change-password, after currentUser(true). *)

ChangePlainRead(p) ==   \* a mutant: the SELECT takes no FOR UPDATE
  /\ At(p, "change", "hash")
  /\ req' = [req EXCEPT ![p] =
       [@ EXCEPT !.pc = "change", !.hash = password[req[p].user],
                 !.restricted = req[p].user \in mustChange]]
  /\ UNCHANGED <<accounts, sessions, keys, bootstraps>>

ChangeLock(p) ==
  /\ At(p, "change", "hash")
  /\ Unlocked(req[p].user)
  /\ req' = [req EXCEPT ![p].pc = "change",
                        ![p].hash = password[req[p].user],
                        ![p].restricted = req[p].user \in mustChange]
  /\ UNCHANGED <<accounts, sessions, keys, bootstraps>>

\* The session must still be there, the change be due, and the password new.
ChangeChecked(p) ==
  /\ At(p, "change", "change")
  /\ IF req[p].token \in live /\ req[p].restricted /\ req[p].given # req[p].hash
     THEN Goto(p, "write")
     ELSE Answer(p, FALSE)
  /\ UNCHANGED <<accounts, sessions, keys, bootstraps>>

\* The new password, the end of every session of the user, and the commit.
ChangeCommit(p) ==
  LET u == req[p].user
  IN  /\ At(p, "change", "write")
      /\ password' = [password EXCEPT ![u] = req[p].given]
      /\ mustChange' = mustChange \ {u}
      /\ live' = {s \in live : owner[s] # u}
      /\ Answer(p, TRUE)
      /\ UNCHANGED <<exists, admins, keys, issued, owner, madeWith, restricted, bootstraps>>

-----------------------------------------------------------------------------
(* POST /api/auth/logout: find the session, then delete it. *)

LogoutFind(p) ==
  /\ At(p, "logout", "session")
  /\ IF req[p].token \in live THEN Goto(p, "delete") ELSE Answer(p, TRUE)
  /\ UNCHANGED <<accounts, sessions, keys, bootstraps>>

LogoutDelete(p) ==
  /\ At(p, "logout", "delete")
  /\ live' = live \ {req[p].token}
  /\ Answer(p, TRUE)
  /\ UNCHANGED <<accounts, keys, issued, owner, madeWith, restricted, bootstraps>>

-----------------------------------------------------------------------------
(* Routes behind currentUser(). *)

\* POST /api/users, for administrators, who choose the role of the new user; a
\* name that is taken is answered 409.
CreateUser(p, u) ==
  /\ At(p, "api", "act")
  /\ req[p].user \in admins
  /\ IF u \in exists
     THEN UNCHANGED accounts /\ Answer(p, FALSE)
     ELSE /\ exists' = exists \cup {u}
          /\ password' = [password EXCEPT ![u] = Temporary]
          /\ mustChange' = mustChange \cup {u}
          /\ admins' \in {admins, admins \cup {u}}
          /\ Answer(p, TRUE)
  /\ UNCHANGED <<sessions, keys, bootstraps>>

\* POST /api/keys.
CreateKey(p, k) ==
  /\ At(p, "api", "act")
  /\ k \notin DOMAIN keyOwner
  /\ keyOwner' = [j \in DOMAIN keyOwner \cup {k} |->
                    IF j = k THEN req[p].user ELSE keyOwner[j]]
  /\ Answer(p, TRUE)
  /\ UNCHANGED <<accounts, sessions, revoked, bootstraps>>

\* DELETE /api/keys/[id]: the user's own key that is not revoked yet.
RevokeKey(p, k) ==
  /\ At(p, "api", "act")
  /\ IF /\ k \in DOMAIN keyOwner \ revoked
        /\ keyOwner[k] = req[p].user
     THEN revoked' = revoked \cup {k} /\ Answer(p, TRUE)
     ELSE UNCHANGED revoked /\ Answer(p, FALSE)
  /\ UNCHANGED <<accounts, sessions, keyOwner, bootstraps>>

\* auth.Middleware of the gateway: one statement on the key and its user.
KeyAccepted(k) ==
  /\ k \in DOMAIN keyOwner \ revoked
  /\ keyOwner[k] \in exists \ mustChange

-----------------------------------------------------------------------------
(* POST /api/auth/bootstrap: one INSERT ... WHERE NOT EXISTS, which looks for *)
(* users first and meets the unique username when it inserts.                 *)

BootstrapLook(p) ==
  /\ req[p].pc = "idle"
  /\ req' = [req EXCEPT ![p] = [Blank EXCEPT !.kind = "bootstrap",
                                  !.pc = IF exists = {} THEN "insert" ELSE "done"]]
  /\ UNCHANGED <<accounts, sessions, keys, bootstraps>>

BootstrapWithoutUnique(p) ==   \* a mutant: the username is not unique
  /\ At(p, "bootstrap", "insert")
  /\ exists' = exists \cup {Root}
  /\ password' = [password EXCEPT ![Root] = Configured]
  /\ admins' = admins \cup {Root}
  /\ bootstraps' = bootstraps + 1
  /\ Answer(p, TRUE)
  /\ UNCHANGED <<mustChange, sessions, keys>>

BootstrapInsert(p) ==
  /\ At(p, "bootstrap", "insert")
  /\ IF Root \in exists
     THEN UNCHANGED <<exists, password, admins, bootstraps>> /\ Answer(p, FALSE)
     ELSE /\ exists' = exists \cup {Root}
          /\ password' = [password EXCEPT ![Root] = Configured]
          /\ admins' = admins \cup {Root}
          /\ bootstraps' = bootstraps + 1
          /\ Answer(p, TRUE)
  /\ UNCHANGED <<mustChange, sessions, keys>>

\* A session's seven days are over: no statement finds it any more.
Expire(s) ==
  /\ s \in live
  /\ live' = live \ {s}
  /\ UNCHANGED <<accounts, keys, req, issued, owner, madeWith, restricted, bootstraps>>

Next ==
  \/ \E p \in Requests :
       \/ \E u \in Users, given \in Passwords : LoginLock(p, u, given)
       \/ RollBack(p)
       \/ \E s \in Sessions : LoginCommit(p, s)
       \/ \E s \in Sessions : \/ Present(p, "api", s, Temporary)
                              \/ Present(p, "logout", s, Temporary)
       \/ \E s \in Sessions, given \in Passwords : Present(p, "change", s, given)
       \/ ReadSession(p) \/ ReadUser(p)
       \/ ChangeLock(p) \/ ChangeChecked(p) \/ ChangeCommit(p)
       \/ LogoutFind(p) \/ LogoutDelete(p)
       \/ \E u \in Users : CreateUser(p, u)
       \/ \E k \in Keys : CreateKey(p, k) \/ RevokeKey(p, k)
       \/ BootstrapLook(p) \/ BootstrapInsert(p)
       \/ Finish(p)
  \/ \E s \in Sessions : Expire(s)

Spec == Init /\ [][Next]_vars

-----------------------------------------------------------------------------
(* Properties. *)

(***************************************************************************)
(* Every session that still opens anything was made with the password its  *)
(* user has now, and is restricted exactly while that password is the      *)
(* temporary one.  ("Serialize login with password changes so old          *)
(* credentials cannot create a surviving session.", auth/login/route.ts)   *)
(***************************************************************************)
SessionsAreCurrent ==
  \A s \in live :
    /\ owner[s] \in exists
    /\ madeWith[s] = password[owner[s]]
    /\ s \in restricted <=> owner[s] \in mustChange

(***************************************************************************)
(* A user who is told that the password was changed has the password they  *)
(* gave: of several changes at once one is made and the others are         *)
(* refused.  (auth/change-password/route.ts 24-49)                         *)
(***************************************************************************)
ChangesAreFinal ==
  \A p \in Requests :
    At(p, "change", "done") /\ req[p].ok =>
      /\ password[req[p].user] = req[p].given
      /\ req[p].user \notin mustChange

(***************************************************************************)
(* A key that exists and is not revoked is accepted by the gateway: nobody *)
(* whose password is temporary ever owns one.  (auth.ts 50, api/keys,      *)
(* middleware.go 39)                                                       *)
(***************************************************************************)
KeysWork == \A k \in DOMAIN keyOwner \ revoked : KeyAccepted(k)

(***************************************************************************)
(* However many bootstraps run at once, at most one is answered 201.       *)
(* (auth/bootstrap/route.ts 17-22)                                         *)
(***************************************************************************)
BootstrapsOnce == bootstraps <= 1

(***************************************************************************)
(* What makes these inductive: a transaction that locks a user's row has   *)
(* it to itself and knows it as it is, and no request goes past a check    *)
(* whose outcome can be undone.                                            *)
(***************************************************************************)
RowLocked ==
  \A p \in Requests : req[p].pc \in {"verify", "change", "write"} =>
    /\ req[p].user \in exists
    /\ req[p].hash = password[req[p].user]
    /\ req[p].restricted <=> req[p].user \in mustChange
    /\ req[p].pc = "write" => req[p].restricted
    /\ \A q \in Requests : Locks(q, req[p].user) => q = p

ChecksHold ==
  /\ \A p \in Requests : req[p].pc \in {"user", "hash", "act"} => req[p].user \in exists
  /\ \A p \in Requests : req[p].pc = "act" => req[p].user \notin mustChange
  /\ \A p \in Requests : At(p, "change", "done") /\ req[p].ok => req[p].user \in exists
  /\ \A p \in Requests : req[p].ok => req[p].pc = "done"
  /\ bootstraps > 0 => Root \in exists

IInv == /\ TypeOK /\ SessionsAreCurrent /\ ChangesAreFinal /\ KeysWork /\ BootstrapsOnce
        /\ RowLocked /\ ChecksHold

(***************************************************************************)
(* "restricted sessions cannot access ordinary authenticated APIs"         *)
(* (lib/auth/access.test.ts:12): no route behind currentUser() is entered  *)
(* with a session that was created under a temporary password.             *)
(***************************************************************************)
RestrictedSessionsStayOut ==
  \A p \in Requests : At(p, "api", "act") => req[p].token \notin restricted

=============================================================================
