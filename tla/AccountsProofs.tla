--------------------------- MODULE AccountsProofs ---------------------------
(***************************************************************************)
(* Proofs about Accounts for any number of users, sessions, keys and       *)
(* requests: every session that opens anything was made with its user's    *)
(* present password, a change that was answered ok is in force, keys work, *)
(* and at most one bootstrap succeeds.                                     *)
(*                                                                         *)
(* The first rests on the lock of the user's row: between the read of the  *)
(* password and the commit of a login or a change nothing moves the row    *)
(* (RowLocked).  The others rest on must_change_password never being set   *)
(* again (ChecksHold).                                                     *)
(***************************************************************************)
EXTENDS Accounts, TLAPS

\* Only requests' own registers move.
TablesStill ==
  UNCHANGED <<exists, password, mustChange, admins, live, keyOwner, revoked, issued,
              owner, madeWith, restricted, bootstraps>>

\* What a request's registers must satisfy; IInv says it of all of them.
Sound(p) ==
  /\ req[p] \in Registers
  /\ req[p].pc \in {"verify", "change", "write"} =>
       /\ req[p].user \in exists
       /\ req[p].hash = password[req[p].user]
       /\ req[p].restricted <=> req[p].user \in mustChange
       /\ req[p].pc = "write" => req[p].restricted
  /\ req[p].pc \in {"user", "hash", "act"} => req[p].user \in exists
  /\ req[p].pc = "act" => req[p].user \notin mustChange
  /\ req[p].ok => req[p].pc = "done"
  /\ At(p, "change", "done") /\ req[p].ok =>
       /\ req[p].user \in exists \ mustChange
       /\ password[req[p].user] = req[p].given

\* No other request has locked the row that p has locked.
LocksAlone(p) ==
  req[p].pc \in {"verify", "change", "write"} =>
    \A q \in Requests : Locks(q, req[p].user) => q = p

\* The rest of IInv, about the tables.
TablesHold ==
  /\ exists \subseteq Users
  /\ password \in [Users -> Passwords]
  /\ mustChange \subseteq exists
  /\ admins \subseteq exists
  /\ live \subseteq issued
  /\ DOMAIN keyOwner \subseteq Keys
  /\ \A k \in DOMAIN keyOwner : keyOwner[k] \in exists
  /\ revoked \subseteq DOMAIN keyOwner
  /\ issued \subseteq Sessions
  /\ owner \in [Sessions -> Users]
  /\ madeWith \in [Sessions -> Passwords]
  /\ restricted \subseteq issued
  /\ bootstraps \in Nat
  /\ SessionsAreCurrent /\ KeysWork /\ BootstrapsOnce
  /\ bootstraps > 0 => Root \in exists

\* The invariant, taken apart by requests, and put together after a step.
LEMMA IInvTakenApart ==
  ASSUME IInv
  PROVE  /\ TablesHold /\ req = [p \in Requests |-> req[p]]
         /\ \A p \in Requests : Sound(p) /\ LocksAlone(p)
BY DEF IInv, TypeOK, ChecksHold, RowLocked, ChangesAreFinal, TablesHold, Sound, Registers, LocksAlone, At

\* The invariant, put together from its parts after a step.
LEMMA IInvPutTogether ==
  ASSUME TablesHold', req' = [p \in Requests |-> req'[p]],
         \A p \in Requests : Sound(p)' /\ LocksAlone(p)'
  PROVE  IInv'
<1>1. TypeOK'
  BY DEF TypeOK, TablesHold, Sound, Registers
<1> QED
  BY <1>1 DEF IInv, ChecksHold, RowLocked, ChangesAreFinal, TablesHold, Sound, Registers,
              LocksAlone, At

\* The values the handlers start from have their types.
LEMMA BlankIsARegister ==
  Blank \in Registers
BY AccountsAssumption DEF Registers, Blank, Phases, Kinds

\* No user's row moves, but for one that p has locked and whose temporary
\* password p replaces.
RowsStayBut(p) ==
  /\ exists \subseteq exists'
  /\ \A u \in exists :
       \/ password'[u] = password[u] /\ (u \in mustChange' <=> u \in mustChange)
       \/ Locks(p, u) /\ u \in mustChange

\* Only p moved, and the row that p has locked now was locked by no other.
MovesOnly(p) ==
  /\ req' = [req EXCEPT ![p] = req'[p]]
  /\ \A u \in Users : Locks(p, u)' => Locks(p, u) \/ Unlocked(u)

\* A row has one holder before and after.
LEMMA LocksStayAlone ==
  ASSUME IInv, NEW p \in Requests, MovesOnly(p), Sound(p)'
  PROVE  \A q \in Requests : LocksAlone(q)'
<1>0. /\ req = [r \in Requests |-> req[r]]
      /\ \A r \in Requests : Sound(r) /\ LocksAlone(r)
  BY IInvTakenApart
<1>1. \A r \in Requests : r # p => req'[r] = req[r]
  BY <1>0 DEF MovesOnly
<1>2. ASSUME NEW q \in Requests, NEW r \in Requests, NEW u \in Users,
             q # p, Locks(q, u)', Locks(r, u)'
      PROVE  r = q
  <2>1. Locks(q, u)
    BY <1>1, <1>2 DEF Locks
  <2>2. CASE r = p
    <3>1. Locks(p, u) \/ Unlocked(u)
      BY <1>2, <2>2 DEF MovesOnly
    <3> QED BY <3>1, <2>1, <2>2, <1>0, <1>2 DEF LocksAlone, Locks, Unlocked
  <2>3. CASE r # p
    <3>1. Locks(r, u)
      BY <1>1, <1>2, <2>3 DEF Locks
    <3> QED BY <3>1, <2>1, <1>0 DEF LocksAlone, Locks
  <2> QED BY <2>2, <2>3
<1>3. ASSUME NEW q \in Requests, NEW r \in Requests, NEW u \in Users,
             Locks(q, u)', Locks(r, u)'
      PROVE  r = q
  BY <1>2, <1>3
<1>4. \A q \in Requests : req'[q].user \in Users
  BY <1>0, <1>1 DEF Sound, Registers
<1> QED BY <1>3, <1>4 DEF LocksAlone, Locks

\* What p does with its own registers and with the row it has locked leaves
\* every other request as sound as it was.
LEMMA OthersHold ==
  ASSUME IInv, NEW p \in Requests, MovesOnly(p), RowsStayBut(p),
         NEW q \in Requests, q # p
  PROVE  Sound(q)'
<1>0. /\ req = [r \in Requests |-> req[r]]
      /\ \A r \in Requests : Sound(r) /\ LocksAlone(r)
  BY IInvTakenApart
<1>1. req'[q] = req[q] /\ Sound(q)
  BY <1>0 DEF MovesOnly
<1>2. req[q].pc \in {"verify", "change", "write"} => ~Locks(p, req[q].user)
  BY <1>0 DEF LocksAlone
<1>3. req[q].user \in exists =>
        /\ req[q].user \in exists'
        /\ \/ password'[req[q].user] = password[req[q].user]
              /\ (req[q].user \in mustChange' <=> req[q].user \in mustChange)
           \/ Locks(p, req[q].user) /\ req[q].user \in mustChange
  BY DEF RowsStayBut
<1> QED BY <1>1, <1>2, <1>3 DEF Sound, Registers, At

\* So a step of p is judged by the tables and by p's own registers.
LEMMA StepOfOne ==
  ASSUME IInv, NEW p \in Requests, MovesOnly(p), RowsStayBut(p), TablesHold', Sound(p)'
  PROVE  IInv'
<1>1. req' = [q \in Requests |-> req'[q]]
  BY IInvTakenApart DEF MovesOnly
<1>2. \A q \in Requests : Sound(q)'
  BY OthersHold
<1>3. \A q \in Requests : LocksAlone(q)'
  BY LocksStayAlone
<1> QED BY <1>1, <1>2, <1>3, IInvPutTogether

\* A step on one caller's registers leaves the other callers' alone.
LEMMA StepOnRegisters ==
  ASSUME IInv, NEW p \in Requests, MovesOnly(p), TablesStill, Sound(p)'
  PROVE  IInv'
<1>1. TablesHold'
  BY IInvTakenApart DEF TablesHold, TablesStill, SessionsAreCurrent, KeysWork,
                        KeyAccepted, BootstrapsOnce
<1>2. RowsStayBut(p)
  BY DEF RowsStayBut, TablesStill
<1> QED BY <1>1, <1>2, StepOfOne

\* The invariant holds at first.
LEMMA InitEstablishesIInv == Init => IInv
<1> SUFFICES ASSUME Init PROVE IInv
  OBVIOUS
<1>1. TypeOK
  BY BlankIsARegister, AccountsAssumption DEF Init, TypeOK, Registers
<1>2. \A p \in Requests : req[p].pc = "idle" /\ req[p].ok = FALSE
  BY DEF Init, Blank
<1>3. SessionsAreCurrent /\ KeysWork /\ BootstrapsOnce
  BY DEF Init, SessionsAreCurrent, KeysWork, BootstrapsOnce
<1>4. ChangesAreFinal /\ RowLocked /\ ChecksHold
  BY <1>2 DEF Init, ChangesAreFinal, RowLocked, ChecksHold, At
<1> QED BY <1>1, <1>3, <1>4 DEF IInv

\* The steps that write no table.
LEMMA QuietSteps ==
  ASSUME IInv, NEW p \in Requests
  PROVE  /\ \A u \in Users, given \in Passwords : LoginLock(p, u, given) => IInv'
         /\ \A kind \in {"api", "logout", "change"}, s \in Sessions, given \in Passwords :
              Present(p, kind, s, given) => IInv'
         /\ RollBack(p) \/ ReadSession(p) \/ ReadUser(p) \/ ChangeLock(p) \/ ChangeChecked(p)
              \/ LogoutFind(p) \/ BootstrapLook(p) \/ Finish(p) => IInv'
<1>0. /\ TablesHold /\ req = [q \in Requests |-> req[q]] /\ Sound(p)
      /\ p \in DOMAIN req
  BY IInvTakenApart
<1>1. ASSUME NEW u \in Users, NEW given \in Passwords, LoginLock(p, u, given) PROVE IInv'
  <2>1. MovesOnly(p)
    BY <1>0, <1>1 DEF LoginLock, MovesOnly, Locks, Unlocked, Answer, Goto, At, Blank, Sound, Registers
  <2>2. TablesStill
    BY <1>1 DEF LoginLock, TablesStill, accounts, sessions, keys
  <2>3. Sound(p)'
    <3>1. /\ req'[p].pc = "verify" /\ req'[p].kind = "login" /\ req'[p].user = u
          /\ req'[p].hash = password[u] /\ (req'[p].restricted <=> u \in mustChange)
          /\ ~req'[p].ok
      BY <1>0, <1>1 DEF LoginLock, Blank
    <3>2. password[u] \in Passwords
      BY <1>0 DEF TablesHold
    <3>3. req'[p] \in Registers
      <4>1. req'[p] = [Blank EXCEPT !.kind = "login", !.pc = "verify", !.user = u,
                                    !.given = given, !.hash = password[u],
                                    !.restricted = u \in mustChange]
        BY <1>0, <1>1 DEF LoginLock
      <4>2. "login" \in Kinds /\ "verify" \in Phases /\ (u \in mustChange) \in BOOLEAN
        BY DEF Kinds, Phases
      <4>3. ASSUME NEW r \in BOOLEAN
            PROVE  [Blank EXCEPT !.kind = "login", !.pc = "verify", !.user = u,
                                 !.given = given, !.hash = password[u], !.restricted = r] \in Registers
        BY <3>2, <4>2, BlankIsARegister DEF Registers
      <4> QED BY <4>1, <4>2, <4>3
    <3> QED BY <1>1, <2>2, <3>1, <3>3 DEF LoginLock, TablesStill, Sound, Registers, At
  <2> QED BY <2>1, <2>2, <2>3, StepOnRegisters
<1>2. ASSUME RollBack(p) PROVE IInv'
  <2>1. MovesOnly(p)
    BY <1>0, <1>2 DEF RollBack, MovesOnly, Locks, Unlocked, Answer, Goto, At, Blank, Sound, Registers
  <2>2. TablesStill
    BY <1>2 DEF RollBack, TablesStill, accounts, sessions, keys
  <2>3. Sound(p)'
    BY <1>0, <1>2, BlankIsARegister, AccountsAssumption
    DEF RollBack, Sound, Registers, TablesHold, accounts, sessions, keys, Answer, Goto, At, Blank, Phases, Kinds
  <2> QED BY <2>1, <2>2, <2>3, StepOnRegisters
<1>3. ASSUME NEW kind \in {"api", "logout", "change"}, NEW s \in Sessions,
             NEW given \in Passwords, Present(p, kind, s, given) PROVE IInv'
  <2>1. MovesOnly(p)
    BY <1>0, <1>3 DEF Present, MovesOnly, Locks, Unlocked, Answer, Goto, At, Blank, Sound, Registers
  <2>2. TablesStill
    BY <1>3 DEF Present, TablesStill, accounts, sessions, keys
  <2>3. Sound(p)'
    BY <1>0, <1>3, BlankIsARegister, AccountsAssumption
    DEF Present, Sound, Registers, TablesHold, accounts, sessions, keys, Answer, Goto, At, Blank, Phases, Kinds
  <2> QED BY <2>1, <2>2, <2>3, StepOnRegisters
<1>4. ASSUME ReadSession(p) PROVE IInv'
  <2>1. MovesOnly(p)
    BY <1>0, <1>4 DEF ReadSession, MovesOnly, Locks, Unlocked, Answer, Goto, At, Blank, Sound, Registers
  <2>2. TablesStill
    BY <1>4 DEF ReadSession, TablesStill, accounts, sessions, keys
  <2>3. Sound(p)'
    <3>1. CASE req[p].token \in live
      <4>1. owner[req[p].token] \in exists /\ owner[req[p].token] \in Users
        BY <1>0, <3>1 DEF TablesHold, SessionsAreCurrent
      <4>2. req'[p] = [req[p] EXCEPT !.pc = "user", !.user = owner[req[p].token]]
            /\ req[p].pc = "session"
        BY <1>0, <1>4, <3>1 DEF ReadSession
      <4> QED BY <1>0, <2>2, <4>1, <4>2 DEF Sound, Registers, TablesStill, At, Phases
    <3>2. CASE req[p].token \notin live
      <4>1. req'[p] = [req[p] EXCEPT !.pc = "done"] /\ req[p].pc = "session"
        BY <1>0, <1>4, <3>2 DEF ReadSession
      <4> QED BY <1>0, <2>2, <4>1 DEF Sound, Registers, TablesStill, At, Phases
    <3> QED BY <3>1, <3>2
  <2> QED BY <2>1, <2>2, <2>3, StepOnRegisters
<1>5. ASSUME ReadUser(p) PROVE IInv'
  <2>1. MovesOnly(p)
    BY <1>0, <1>5 DEF ReadUser, MovesOnly, Locks, Unlocked, Answer, Goto, At, Blank, Sound, Registers
  <2>2. TablesStill
    BY <1>5 DEF ReadUser, TablesStill, accounts, sessions, keys
  <2>3. Sound(p)'
    BY <1>0, <1>5, BlankIsARegister, AccountsAssumption
    DEF ReadUser, Sound, Registers, TablesHold, accounts, sessions, keys, Answer, Goto, At, Blank, Phases, Kinds
  <2> QED BY <2>1, <2>2, <2>3, StepOnRegisters
<1>6. ASSUME ChangeLock(p) PROVE IInv'
  <2>1. MovesOnly(p)
    BY <1>0, <1>6 DEF ChangeLock, MovesOnly, Locks, Unlocked, Answer, Goto, At, Blank, Sound, Registers
  <2>2. TablesStill
    BY <1>6 DEF ChangeLock, TablesStill, accounts, sessions, keys
  <2>3. Sound(p)'
    <3>1. /\ req'[p] = [req[p] EXCEPT !.pc = "change", !.hash = password[req[p].user],
                                     !.restricted = req[p].user \in mustChange]
          /\ req[p].pc = "hash"
      BY <1>0, <1>6 DEF ChangeLock, At
    <3>2. password[req[p].user] \in Passwords /\ req[p].user \in exists
      BY <1>0, <3>1 DEF TablesHold, Sound, Registers
    <3>3. /\ req'[p].pc = "change" /\ req'[p].user = req[p].user
          /\ req'[p].hash = password[req[p].user] /\ ~req'[p].ok
          /\ (req'[p].restricted <=> req[p].user \in mustChange)
      BY <1>0, <3>1 DEF Sound, Registers
    <3>4. req'[p] \in Registers
      <4>1. ASSUME NEW r \in BOOLEAN
            PROVE  [req[p] EXCEPT !.pc = "change", !.hash = password[req[p].user],
                                  !.restricted = r] \in Registers
        BY <1>0, <3>2 DEF Sound, Registers, Phases
      <4>2. (req[p].user \in mustChange) \in BOOLEAN
        OBVIOUS
      <4> QED BY <3>1, <4>1, <4>2
    <3> QED BY <2>2, <3>2, <3>3, <3>4 DEF Sound, Registers, TablesStill, At
  <2> QED BY <2>1, <2>2, <2>3, StepOnRegisters
<1>7. ASSUME ChangeChecked(p) PROVE IInv'
  <2>1. MovesOnly(p)
    BY <1>0, <1>7 DEF ChangeChecked, MovesOnly, Locks, Unlocked, Answer, Goto, At, Blank, Sound, Registers
  <2>2. TablesStill
    BY <1>7 DEF ChangeChecked, TablesStill, accounts, sessions, keys
  <2>3. Sound(p)'
    <3>1. CASE req[p].token \in live /\ req[p].restricted /\ req[p].given # req[p].hash
      <4>1. req'[p] = [req[p] EXCEPT !.pc = "write"] /\ req[p].pc = "change"
        BY <1>0, <1>7, <3>1 DEF ChangeChecked, Goto, At
      <4> QED BY <1>0, <2>2, <3>1, <4>1 DEF Sound, Registers, TablesStill, At, Phases
    <3>2. CASE ~(req[p].token \in live /\ req[p].restricted /\ req[p].given # req[p].hash)
      <4>1. req'[p] = [req[p] EXCEPT !.pc = "done", !.ok = FALSE]
        BY <1>0, <1>7, <3>2 DEF ChangeChecked, Answer, At
      <4> QED BY <1>0, <2>2, <4>1 DEF Sound, Registers, TablesStill, At, Phases
    <3> QED BY <3>1, <3>2
  <2> QED BY <2>1, <2>2, <2>3, StepOnRegisters
<1>8. ASSUME LogoutFind(p) PROVE IInv'
  <2>1. MovesOnly(p)
    BY <1>0, <1>8 DEF LogoutFind, MovesOnly, Locks, Unlocked, Answer, Goto, At, Blank, Sound, Registers
  <2>2. TablesStill
    BY <1>8 DEF LogoutFind, TablesStill, accounts, sessions, keys
  <2>3. Sound(p)'
    BY <1>0, <1>8, BlankIsARegister, AccountsAssumption
    DEF LogoutFind, Sound, Registers, TablesHold, accounts, sessions, keys, Answer, Goto, At, Blank, Phases, Kinds
  <2> QED BY <2>1, <2>2, <2>3, StepOnRegisters
<1>9. ASSUME BootstrapLook(p) PROVE IInv'
  <2>1. MovesOnly(p)
    BY <1>0, <1>9 DEF BootstrapLook, MovesOnly, Locks, Unlocked, Answer, Goto, At, Blank, Sound, Registers
  <2>2. TablesStill
    BY <1>9 DEF BootstrapLook, TablesStill, accounts, sessions, keys
  <2>3. Sound(p)'
    BY <1>0, <1>9, BlankIsARegister, AccountsAssumption, ZenonT(30)
    DEF BootstrapLook, Sound, Registers, TablesHold, accounts, sessions, keys, Answer, Goto, At, Blank, Phases, Kinds
  <2> QED BY <2>1, <2>2, <2>3, StepOnRegisters
<1>10. ASSUME Finish(p) PROVE IInv'
  <2>1. MovesOnly(p)
    BY <1>0, <1>10 DEF Finish, MovesOnly, Locks, Unlocked, Answer, Goto, At, Blank, Sound, Registers
  <2>2. TablesStill
    BY <1>10 DEF Finish, TablesStill, accounts, sessions, keys
  <2>3. Sound(p)'
    BY <1>0, <1>10, BlankIsARegister, AccountsAssumption
    DEF Finish, Sound, Registers, TablesHold, accounts, sessions, keys, Answer, Goto, At, Blank, Phases, Kinds
  <2> QED BY <2>1, <2>2, <2>3, StepOnRegisters
<1> QED BY <1>1, <1>2, <1>3, <1>4, <1>5, <1>6, <1>7, <1>8, <1>9, <1>10

\* The steps that write a table: what is written suits every request and
\* the sessions and keys there are.
LEMMA WritingSteps ==
  ASSUME IInv, NEW p \in Requests
  PROVE  /\ \A s \in Sessions : LoginCommit(p, s) => IInv'
         /\ \A u \in Users : CreateUser(p, u) => IInv'
         /\ \A k \in Keys : CreateKey(p, k) \/ RevokeKey(p, k) => IInv'
         /\ ChangeCommit(p) \/ LogoutDelete(p) \/ BootstrapInsert(p) => IInv'
<1>0. /\ TablesHold /\ req = [q \in Requests |-> req[q]] /\ Sound(p)
      /\ p \in DOMAIN req
  BY IInvTakenApart
<1>1. ASSUME NEW s \in Sessions, LoginCommit(p, s) PROVE IInv'
  <2>1. MovesOnly(p)
    BY <1>0, <1>1 DEF LoginCommit, MovesOnly, Locks, Unlocked, Answer, At, Sound, Registers
  <2>2. RowsStayBut(p)
    BY <1>0, <1>1 DEF LoginCommit, RowsStayBut, TablesHold, Sound, Locks, At, accounts
  <2>3. Sound(p)'
    BY <1>0, <1>1 DEF LoginCommit, Sound, Registers, TablesHold, Answer, At, Phases, accounts
  <2>4. TablesHold'
    <3>1. SessionsAreCurrent'
      BY <1>0, <1>1 DEF LoginCommit, TablesHold, SessionsAreCurrent, Sound, Registers, At, accounts, sessions
    <3>2. KeysWork'
      BY <1>0, <1>1 DEF LoginCommit, TablesHold, KeysWork, KeyAccepted, Sound, Registers, At, accounts, keys
    <3> QED
      BY <1>0, <1>1, <3>1, <3>2, AccountsAssumption
      DEF LoginCommit, TablesHold, Sound, Registers, At, BootstrapsOnce, accounts, sessions, keys
  <2> QED BY <2>1, <2>2, <2>3, <2>4, StepOfOne
<1>2. ASSUME ChangeCommit(p) PROVE IInv'
  <2>1. MovesOnly(p)
    BY <1>0, <1>2 DEF ChangeCommit, MovesOnly, Locks, Unlocked, Answer, At, Sound, Registers
  <2>2. RowsStayBut(p)
    BY <1>0, <1>2 DEF ChangeCommit, RowsStayBut, TablesHold, Sound, Locks, At, accounts
  <2>3. Sound(p)'
    BY <1>0, <1>2 DEF ChangeCommit, Sound, Registers, TablesHold, Answer, At, Phases, accounts
  <2>4. TablesHold'
    <3>1. SessionsAreCurrent'
      BY <1>0, <1>2 DEF ChangeCommit, TablesHold, SessionsAreCurrent, Sound, Registers, At, accounts, sessions
    <3>2. KeysWork'
      BY <1>0, <1>2 DEF ChangeCommit, TablesHold, KeysWork, KeyAccepted, Sound, Registers, At, accounts, keys
    <3> QED
      BY <1>0, <1>2, <3>1, <3>2, AccountsAssumption
      DEF ChangeCommit, TablesHold, Sound, Registers, At, BootstrapsOnce, accounts, sessions, keys
  <2> QED BY <2>1, <2>2, <2>3, <2>4, StepOfOne
<1>3. ASSUME LogoutDelete(p) PROVE IInv'
  <2>1. MovesOnly(p)
    BY <1>0, <1>3 DEF LogoutDelete, MovesOnly, Locks, Unlocked, Answer, At, Sound, Registers
  <2>2. RowsStayBut(p)
    BY <1>0, <1>3 DEF LogoutDelete, RowsStayBut, TablesHold, Sound, Locks, At, accounts
  <2>3. Sound(p)'
    BY <1>0, <1>3 DEF LogoutDelete, Sound, Registers, TablesHold, Answer, At, Phases, accounts
  <2>4. TablesHold'
    <3>1. SessionsAreCurrent'
      BY <1>0, <1>3 DEF LogoutDelete, TablesHold, SessionsAreCurrent, Sound, Registers, At, accounts, sessions
    <3>2. KeysWork'
      BY <1>0, <1>3 DEF LogoutDelete, TablesHold, KeysWork, KeyAccepted, Sound, Registers, At, accounts, keys
    <3> QED
      BY <1>0, <1>3, <3>1, <3>2, AccountsAssumption
      DEF LogoutDelete, TablesHold, Sound, Registers, At, BootstrapsOnce, accounts, sessions, keys
  <2> QED BY <2>1, <2>2, <2>3, <2>4, StepOfOne
<1>4. ASSUME NEW u \in Users, CreateUser(p, u) PROVE IInv'
  <2>1. MovesOnly(p)
    BY <1>0, <1>4 DEF CreateUser, MovesOnly, Locks, Unlocked, Answer, At, Sound, Registers
  <2>2. RowsStayBut(p)
    BY <1>0, <1>4 DEF CreateUser, RowsStayBut, TablesHold, Sound, Locks, At, accounts
  <2>3. Sound(p)'
    BY <1>0, <1>4 DEF CreateUser, Sound, Registers, TablesHold, Answer, At, Phases, accounts
  <2>4. TablesHold'
    <3>0. \A v \in exists : /\ v \in exists' /\ password'[v] = password[v]
                             /\ (v \in mustChange' <=> v \in mustChange)
      BY <1>0, <1>4 DEF CreateUser, TablesHold, accounts
    <3>1. SessionsAreCurrent'
      BY <1>0, <1>4, <3>0 DEF CreateUser, TablesHold, SessionsAreCurrent, sessions
    <3>2. KeysWork'
      BY <1>0, <1>4, <3>0 DEF CreateUser, TablesHold, KeysWork, KeyAccepted, keys
    <3> QED
      BY <1>0, <1>4, <3>1, <3>2, AccountsAssumption, ZenonT(60)
      DEF CreateUser, TablesHold, Sound, Registers, At, BootstrapsOnce, accounts, sessions, keys
  <2> QED BY <2>1, <2>2, <2>3, <2>4, StepOfOne
<1>5. ASSUME NEW k \in Keys, CreateKey(p, k) PROVE IInv'
  <2>1. MovesOnly(p)
    BY <1>0, <1>5 DEF CreateKey, MovesOnly, Locks, Unlocked, Answer, At, Sound, Registers
  <2>2. RowsStayBut(p)
    BY <1>0, <1>5 DEF CreateKey, RowsStayBut, TablesHold, Sound, Locks, At, accounts
  <2>3. Sound(p)'
    BY <1>0, <1>5 DEF CreateKey, Sound, Registers, TablesHold, Answer, At, Phases, accounts
  <2>4. TablesHold'
    <3>1. SessionsAreCurrent'
      BY <1>0, <1>5 DEF CreateKey, TablesHold, SessionsAreCurrent, Sound, Registers, At, accounts, sessions
    <3>2. KeysWork'
      BY <1>0, <1>5 DEF CreateKey, TablesHold, KeysWork, KeyAccepted, Sound, Registers, At, accounts, keys
    <3> QED
      BY <1>0, <1>5, <3>1, <3>2, AccountsAssumption, ZenonT(60)
      DEF CreateKey, TablesHold, Sound, Registers, At, BootstrapsOnce, accounts, sessions, keys
  <2> QED BY <2>1, <2>2, <2>3, <2>4, StepOfOne
<1>6. ASSUME NEW k \in Keys, RevokeKey(p, k) PROVE IInv'
  <2>1. MovesOnly(p)
    BY <1>0, <1>6 DEF RevokeKey, MovesOnly, Locks, Unlocked, Answer, At, Sound, Registers
  <2>2. RowsStayBut(p)
    BY <1>0, <1>6 DEF RevokeKey, RowsStayBut, TablesHold, Sound, Locks, At, accounts
  <2>3. Sound(p)'
    BY <1>0, <1>6 DEF RevokeKey, Sound, Registers, TablesHold, Answer, At, Phases, accounts
  <2>4. TablesHold'
    <3>1. SessionsAreCurrent'
      BY <1>0, <1>6 DEF RevokeKey, TablesHold, SessionsAreCurrent, Sound, Registers, At, accounts, sessions
    <3>2. KeysWork'
      BY <1>0, <1>6 DEF RevokeKey, TablesHold, KeysWork, KeyAccepted, Sound, Registers, At, accounts, keys
    <3> QED
      BY <1>0, <1>6, <3>1, <3>2, AccountsAssumption, ZenonT(60)
      DEF RevokeKey, TablesHold, Sound, Registers, At, BootstrapsOnce, accounts, sessions, keys
  <2> QED BY <2>1, <2>2, <2>3, <2>4, StepOfOne
<1>7. ASSUME BootstrapInsert(p) PROVE IInv'
  <2>1. MovesOnly(p)
    BY <1>0, <1>7 DEF BootstrapInsert, MovesOnly, Locks, Unlocked, Answer, At, Sound, Registers
  <2>2. RowsStayBut(p)
    BY <1>0, <1>7 DEF BootstrapInsert, RowsStayBut, TablesHold, Sound, Locks, At, accounts
  <2>3. Sound(p)'
    BY <1>0, <1>7 DEF BootstrapInsert, Sound, Registers, TablesHold, Answer, At, Phases, accounts
  <2>4. TablesHold'
    <3>1. SessionsAreCurrent'
      BY <1>0, <1>7, ZenonT(60) DEF BootstrapInsert, TablesHold, SessionsAreCurrent, Sound, Registers, At, accounts, sessions
    <3>2. KeysWork'
      BY <1>0, <1>7 DEF BootstrapInsert, TablesHold, KeysWork, KeyAccepted, Sound, Registers, At, accounts, keys
    <3>3. BootstrapsOnce' /\ bootstraps' \in Nat /\ (bootstraps' > 0 => Root \in exists')
      <4>1. bootstraps \in Nat /\ bootstraps <= 1 /\ (bootstraps > 0 => Root \in exists)
        BY <1>0 DEF TablesHold, BootstrapsOnce
      <4>2. \/ exists' = exists /\ bootstraps' = bootstraps
            \/ Root \notin exists /\ Root \in exists' /\ bootstraps' = bootstraps + 1
        BY <1>7 DEF BootstrapInsert
      <4> QED BY <4>1, <4>2 DEF BootstrapsOnce
    <3>4. /\ exists' \subseteq Users /\ mustChange' \subseteq exists' /\ admins' \subseteq exists'
          /\ password' \in [Users -> Passwords]
          /\ \A k \in DOMAIN keyOwner : keyOwner[k] \in exists'
      BY <1>0, <1>7, AccountsAssumption, ZenonT(30) DEF BootstrapInsert, TablesHold
    <3> QED
      <4>1. UNCHANGED <<mustChange, live, issued, owner, madeWith, restricted, keyOwner, revoked>>
        BY <1>7 DEF BootstrapInsert, sessions, keys
      <4> QED BY <1>0, <3>1, <3>2, <3>3, <3>4, <4>1 DEF TablesHold
  <2> QED BY <2>1, <2>2, <2>3, <2>4, StepOfOne
<1> QED BY <1>1, <1>2, <1>3, <1>4, <1>5, <1>6, <1>7

\* Time passing keeps the invariant.
LEMMA ExpiringStep ==
  ASSUME IInv, NEW s \in Sessions, Expire(s)
  PROVE  IInv'
<1>0. /\ TablesHold /\ req = [q \in Requests |-> req[q]]
      /\ \A q \in Requests : Sound(q) /\ LocksAlone(q)
  BY IInvTakenApart
<1>1. UNCHANGED <<exists, password, mustChange, admins, req>>
  BY DEF Expire, accounts
<1>2. \A q \in Requests : Sound(q)' /\ LocksAlone(q)'
  BY <1>0, <1>1 DEF Sound, Registers, LocksAlone, Locks, At
<1>3. TablesHold'
  BY <1>0 DEF Expire, accounts, keys, TablesHold, SessionsAreCurrent, KeysWork,
              KeyAccepted, BootstrapsOnce
<1> QED BY <1>0, <1>1, <1>2, <1>3, IInvPutTogether

\* Every step keeps the invariant.
LEMMA StepPreservesIInv == IInv /\ [Next]_vars => IInv'
<1> SUFFICES ASSUME IInv, [Next]_vars PROVE IInv'
  OBVIOUS
<1>1. CASE UNCHANGED vars
  BY <1>1 DEF vars, IInv, TypeOK, SessionsAreCurrent, ChangesAreFinal, KeysWork,
              KeyAccepted, BootstrapsOnce, RowLocked, ChecksHold, Locks, At
<1>2. CASE Next
  <2>1. ASSUME NEW p \in Requests, NEW s \in Sessions,
               \/ LoginCommit(p, s) \/ Present(p, "api", s, Temporary)
               \/ Present(p, "logout", s, Temporary)
               \/ \E given \in Passwords : Present(p, "change", s, given)
        PROVE  IInv'
    BY <2>1, QuietSteps, WritingSteps, AccountsAssumption
  <2>2. ASSUME NEW p \in Requests,
               \/ \E u \in Users : \/ CreateUser(p, u)
                                  \/ \E given \in Passwords : LoginLock(p, u, given)
               \/ \E k \in Keys : CreateKey(p, k) \/ RevokeKey(p, k)
        PROVE  IInv'
    BY <2>2, QuietSteps, WritingSteps
  <2>3. ASSUME NEW p \in Requests,
               \/ RollBack(p) \/ ReadSession(p) \/ ReadUser(p) \/ ChangeLock(p)
               \/ ChangeChecked(p) \/ LogoutFind(p) \/ BootstrapLook(p) \/ Finish(p)
               \/ ChangeCommit(p) \/ LogoutDelete(p) \/ BootstrapInsert(p)
        PROVE  IInv'
    BY <2>3, QuietSteps, WritingSteps
  <2>4. ASSUME NEW s \in Sessions, Expire(s) PROVE IInv'
    BY <2>4, ExpiringStep
  <2> QED BY <1>2, <2>1, <2>2, <2>3, <2>4 DEF Next
<1> QED BY <1>1, <1>2

\* Every reachable state satisfies the inductive invariant.
THEOREM Invariance == Spec => []IInv
BY InitEstablishesIInv, StepPreservesIInv, PTL DEF Spec

\* The type invariant.
THEOREM TypeCorrect == Spec => []TypeOK
<1>1. IInv => TypeOK
  BY DEF IInv
<1> QED BY <1>1, Invariance, PTL

\* Login and the change of a password are serialized by the user's row: no
\* session that is alive was made with a password that has been replaced.
THEOREM SessionsAreAlwaysCurrent == Spec => []SessionsAreCurrent
<1>1. IInv => SessionsAreCurrent
  BY DEF IInv
<1> QED BY <1>1, Invariance, PTL

\* A change of password that was answered ok is the one in force.
THEOREM ChangesAreAlwaysFinal == Spec => []ChangesAreFinal
<1>1. IInv => ChangesAreFinal
  BY DEF IInv
<1> QED BY <1>1, Invariance, PTL

\* The gateway accepts every key that exists and is not revoked.
THEOREM KeysAlwaysWork == Spec => []KeysWork
<1>1. IInv => KeysWork
  BY DEF IInv
<1> QED BY <1>1, Invariance, PTL

\* At most one bootstrap is ever answered 201.
THEOREM BootstrapsAtMostOnce == Spec => []BootstrapsOnce
<1>1. IInv => BootstrapsOnce
  BY DEF IInv
<1> QED BY <1>1, Invariance, PTL

=============================================================================
