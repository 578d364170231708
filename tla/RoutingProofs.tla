--------------------------- MODULE RoutingProofs ---------------------------
(***************************************************************************)
(* Theorems about Routing, for any users, configurations, connections and  *)
(* overlapping requests.  The transactions of one user are serial because  *)
(* they hold the user's row; what a transaction found out about its        *)
(* configuration, its connections and the defaults is still so when it     *)
(* writes.                                                                 *)
(***************************************************************************)
EXTENDS Routing, TLAPS

Holding == {"share", "clear", "write"}

\* A user's row has one holder.
OneHolder ==
  \A p, q \in Requests :
    tx[p].pc \in Holding /\ tx[q].pc \in Holding /\ tx[p].user = tx[q].user => p = q

\* Requests that save have a body, the others say whether they set the default.
WellFormed(r) ==
  r.pc # "idle" =>
    /\ r.kind \in Saves <=> r.body # {}
    /\ r.kind = "makeDefault" => r.isDefault
    /\ r.kind = "delete" => ~r.isDefault

\* The configuration belongs to the user.
StillOwned(r) ==
  r.pc \in Holding /\ r.kind # "create" => owner[r.config] = r.user

\* The connections may be used.
StillAccessible(r) ==
  r.pc \in {"clear", "write"} => \A c \in r.body : MayRouteTo(r.user, c)

\* The defaults of the user are the ones that were cleared.
StillCleared(r) ==
  r.pc = "write" /\ r.isDefault =>
    /\ \A k \in default : owner[k] = r.user => k \in r.cleared
    /\ \A k \in r.cleared : owner[k] = r.user

Sound(r) == WellFormed(r) /\ StillOwned(r) /\ StillAccessible(r) /\ StillCleared(r)

RInv ==
  /\ TypeOK
  /\ OneHolder
  /\ \A p \in Requests : Sound(tx[p])
  /\ SavesNeverCollide

-----------------------------------------------------------------------------

\* Blank is what its definition asks for.
LEMMA BlankRegisters ==
  /\ Blank \in Registers
  /\ Blank.pc = "idle" /\ Blank.kind = "create" /\ Blank.body = {}
  /\ Blank.isDefault = FALSE /\ Blank.cleared = {} /\ Blank.answer = 0
<1>1. PICK u \in Users, k \in Configs : TRUE
  BY RoutingAssumption
<1>2. [pc |-> "idle", kind |-> "create", user |-> u, config |-> k, body |-> {},
       isDefault |-> FALSE, cleared |-> {}, answer |-> 0] \in Registers
  BY <1>1 DEF Registers, Phases, Kinds, Answers
<1>3. \E r \in Registers :
        /\ r.pc = "idle" /\ r.kind = "create" /\ r.body = {} /\ r.isDefault = FALSE
        /\ r.cleared = {} /\ r.answer = 0
  BY <1>2
<1> QED BY <1>3 DEF Blank

\* A step that changes only the registers of p, from tx[p] to r.
LEMMA RegisterStep ==
  ASSUME RInv, NEW p \in Requests, NEW r \in Registers,
         tx' = [tx EXCEPT ![p] = r], UNCHANGED tables,
         Sound(r), r.answer # UniqueViolation,
         r.pc \in Holding =>
           \A q \in Requests \ {p} : ~(tx[q].pc \in Holding /\ tx[q].user = r.user)
  PROVE  RInv'
<1>1. tx' \in [Requests -> Registers] /\ tx'[p] = r /\ \A q \in Requests \ {p} : tx'[q] = tx[q]
  BY DEF RInv, TypeOK
<1>2. TypeOK'
  BY <1>1 DEF RInv, TypeOK, tables
<1>3. OneHolder'
  BY <1>1 DEF RInv, OneHolder
<1>4. ASSUME NEW q \in Requests PROVE Sound(tx[q])'
  BY <1>1 DEF RInv, Sound, WellFormed, StillOwned, StillAccessible, StillCleared, MayRouteTo, tables
<1>5. SavesNeverCollide'
  BY <1>1 DEF RInv, SavesNeverCollide
<1> QED BY <1>2, <1>3, <1>4, <1>5 DEF RInv

\* A transaction that ends leaves nothing to say of its registers.
LEMMA Ending ==
  ASSUME NEW answer \in Answers
  PROVE  /\ [Blank EXCEPT !.answer = answer] \in Registers
         /\ Sound([Blank EXCEPT !.answer = answer])
         /\ [Blank EXCEPT !.answer = answer].answer = answer
         /\ [Blank EXCEPT !.answer = answer].pc = "idle"
<1>1. PICK b : b = Blank
  OBVIOUS
<1>2. b \in Registers /\ b.pc = "idle"
  BY <1>1, BlankRegisters
<1>3. PICK r : r = [b EXCEPT !.answer = answer]
  OBVIOUS
<1>4. r \in Registers /\ r.pc = "idle" /\ r.answer = answer
  BY <1>2, <1>3 DEF Registers
<1>5. Sound(r)
  BY <1>4 DEF Sound, WellFormed, StillOwned, StillAccessible, StillCleared, Holding
<1> QED BY <1>1, <1>3, <1>4, <1>5

\* A rolled-back transaction.
LEMMA EndingStep ==
  ASSUME RInv, NEW p \in Requests, NEW answer \in Answers, answer # UniqueViolation,
         Ends(p, answer), UNCHANGED tables
  PROVE  RInv'
<1>1. PICK r : r = [Blank EXCEPT !.answer = answer]
  OBVIOUS
<1>2. r \in Registers /\ Sound(r) /\ r.answer = answer /\ r.pc = "idle"
  BY <1>1, Ending
<1>3. tx' = [tx EXCEPT ![p] = r]
  BY <1>1 DEF Ends
<1> QED BY <1>2, <1>3, RegisterStep DEF Holding

-----------------------------------------------------------------------------
(* The statements. *)

\* A request that begins holds nothing yet.
LEMMA BeginStep ==
  ASSUME RInv, NEW p \in Requests, Begin(p)
  PROVE  RInv'
<1>1. PICK u \in Users, k \in Configs, kind \in Kinds, body \in SUBSET Connections,
           isDefault \in BOOLEAN :
        /\ kind \in Saves <=> body # {}
        /\ kind = "makeDefault" => isDefault
        /\ kind = "delete" => ~isDefault
        /\ tx' = [tx EXCEPT ![p] = Asked(u, kind, k, body, isDefault)]
  BY DEF Begin
<1>2. PICK b, r : b = Blank /\ r = Asked(u, kind, k, body, isDefault)
  OBVIOUS
<1>3. b \in Registers /\ b.answer = 0
  BY <1>2, BlankRegisters
<1>4. /\ r \in Registers /\ r.pc = "lock" /\ r.answer = 0 /\ r.kind = kind
      /\ r.body = body /\ r.isDefault = isDefault
  BY <1>2, <1>3 DEF Asked, Registers, Phases
<1>5. Sound(r)
  BY <1>1, <1>4 DEF Sound, WellFormed, StillOwned, StillAccessible, StillCleared, Holding
<1>6. tx' = [tx EXCEPT ![p] = r]
  BY <1>1, <1>2
<1>7. r.answer # UniqueViolation
  BY <1>4 DEF UniqueViolation
<1>8. UNCHANGED tables
  BY DEF Begin
<1> QED BY <1>4, <1>5, <1>6, <1>7, <1>8, RegisterStep DEF Holding

\* The row taken is free, and the configuration is looked at under the lock.
LEMMA LockUserStep ==
  ASSUME RInv, NEW p \in Requests, LockUser(p)
  PROVE  RInv'
<1>1. PICK t, r : t = tx[p] /\ r = [t EXCEPT !.pc = IF t.kind \in Saves THEN "share" ELSE "clear"]
  OBVIOUS
<1>2. /\ t \in Registers /\ Sound(t) /\ t.pc = "lock" /\ t.answer # UniqueViolation
      /\ UNCHANGED tables
  BY <1>1 DEF RInv, TypeOK, LockUser, At, SavesNeverCollide
<1>3. CASE t.kind = "create" \/ owner[t.config] = t.user
  <2>1. tx' = [tx EXCEPT ![p] = r]
    BY <1>1, <1>3 DEF LockUser, Enters, RInv, TypeOK
  <2>2. /\ r \in Registers /\ r.kind = t.kind /\ r.user = t.user /\ r.config = t.config
        /\ r.body = t.body /\ r.isDefault = t.isDefault /\ r.answer = t.answer
        /\ r.pc = IF t.kind \in Saves THEN "share" ELSE "clear"
    BY <1>1, <1>2 DEF Registers, Phases
  <2>3. Sound(r)
    BY <1>2, <1>3, <2>2 DEF Sound, WellFormed, StillOwned, StillAccessible, StillCleared, Holding
  <2>4. \A q \in Requests \ {p} : ~(tx[q].pc \in Holding /\ tx[q].user = r.user)
    BY <1>1, <2>2 DEF LockUser, HoldsUser, Holding
  <2> QED BY <1>2, <2>1, <2>2, <2>3, <2>4, RegisterStep
<1>4. CASE ~(t.kind = "create" \/ owner[t.config] = t.user)
  <2>1. Ends(p, 404)
    BY <1>1, <1>4 DEF LockUser
  <2> QED BY <1>2, <2>1, EndingStep DEF Answers, UniqueViolation
<1> QED BY <1>3, <1>4

\* p moves on, and holds the user's row as before.
LEMMA HolderMovesOn ==
  ASSUME RInv, NEW p \in Requests, tx[p].pc \in Holding
  PROVE  \A q \in Requests \ {p} : ~(tx[q].pc \in Holding /\ tx[q].user = tx[p].user)
BY DEF RInv, OneHolder

\* The connections are accessible when they are shared.
LEMMA ShareConnectionsStep ==
  ASSUME RInv, NEW p \in Requests, ShareConnections(p)
  PROVE  RInv'
<1>1. PICK t, r : t = tx[p] /\ r = [t EXCEPT !.pc = "clear"]
  OBVIOUS
<1>2. /\ t \in Registers /\ Sound(t) /\ t.pc = "share" /\ t.answer # UniqueViolation
      /\ UNCHANGED tables
  BY <1>1 DEF RInv, TypeOK, ShareConnections, At, SavesNeverCollide
<1>3. CASE \A c \in t.body : MayRouteTo(t.user, c)
  <2>1. tx' = [tx EXCEPT ![p] = r]
    BY <1>1, <1>3 DEF ShareConnections, Enters, RInv, TypeOK
  <2>2. /\ r \in Registers /\ r.kind = t.kind /\ r.user = t.user /\ r.config = t.config
        /\ r.body = t.body /\ r.isDefault = t.isDefault /\ r.answer = t.answer
        /\ r.pc = "clear"
    BY <1>1, <1>2 DEF Registers, Phases
  <2>3. Sound(r)
    BY <1>2, <1>3, <2>2 DEF Sound, WellFormed, StillOwned, StillAccessible, StillCleared, Holding
  <2>4. \A q \in Requests \ {p} : ~(tx[q].pc \in Holding /\ tx[q].user = r.user)
    BY <1>1, <1>2, <2>2, HolderMovesOn DEF Holding
  <2> QED BY <1>2, <2>1, <2>2, <2>3, <2>4, RegisterStep
<1>4. CASE ~(\A c \in t.body : MayRouteTo(t.user, c))
  <2>1. Ends(p, 400)
    BY <1>1, <1>4 DEF ShareConnections
  <2> QED BY <1>2, <2>1, EndingStep DEF Answers, UniqueViolation
<1> QED BY <1>3, <1>4

\* The defaults to be cleared are those there are.
LEMMA ClearDefaultStep ==
  ASSUME RInv, NEW p \in Requests, ClearDefault(p)
  PROVE  RInv'
<1>1. PICK t, r : /\ t = tx[p]
                  /\ r = [t EXCEPT !.pc = "write",
                                   !.cleared = IF t.isDefault
                                               THEN default \cap OwnConfigs(t.user) ELSE {}]
  OBVIOUS
<1>2. /\ t \in Registers /\ Sound(t) /\ t.pc = "clear" /\ t.answer # UniqueViolation
      /\ UNCHANGED tables
  BY <1>1 DEF RInv, TypeOK, ClearDefault, At, SavesNeverCollide
<1>3. tx' = [tx EXCEPT ![p] = r]
  BY <1>1 DEF ClearDefault, RInv, TypeOK
<1>4. default \subseteq Configs
  BY DEF RInv, TypeOK
<1>5. /\ r \in Registers /\ r.kind = t.kind /\ r.user = t.user /\ r.config = t.config
      /\ r.body = t.body /\ r.isDefault = t.isDefault /\ r.answer = t.answer
      /\ r.pc = "write"
      /\ r.cleared = IF t.isDefault THEN default \cap OwnConfigs(t.user) ELSE {}
  BY <1>1, <1>2, <1>4 DEF Registers, Phases
<1>6. Sound(r)
  BY <1>2, <1>4, <1>5 DEF Sound, WellFormed, StillOwned, StillAccessible, StillCleared, Holding,
     OwnConfigs
<1>7. \A q \in Requests \ {p} : ~(tx[q].pc \in Holding /\ tx[q].user = r.user)
  BY <1>1, <1>2, <1>5, HolderMovesOn DEF Holding
<1> QED BY <1>2, <1>3, <1>5, <1>6, <1>7, RegisterStep

\* What a commit of p writes: registers t, configuration k.
Writes(t, k) ==
  /\ IF t.kind = "create" THEN owner[k] = Unused ELSE k = t.config
  /\ default' = Defaults(t, k)
  /\ owner' = [owner EXCEPT ![k] = IF t.kind = "delete" THEN Deleted ELSE t.user]
  /\ table' = [table EXCEPT ![k] = IF t.kind = "makeDefault" THEN @ ELSE t.body]
  /\ setting' = setting

\* The index lets every commit pass: the other defaults of the user have been
\* cleared.
LEMMA CommitWrites ==
  ASSUME RInv, NEW p \in Requests, Commit(p)
  PROVE  /\ \E k \in Configs : Writes(tx[p], k)
         /\ Ends(p, 200) \/ Ends(p, 500)
<1>1. PICK k \in Configs :
        LET r == tx[p] IN
        /\ IF r.kind = "create" THEN owner[k] = Unused ELSE k = r.config
        /\ IF r.isDefault /\ \E j \in Defaults(r, k) \ {k} : owner[j] = r.user
           THEN /\ Ends(p, UniqueViolation)
                /\ UNCHANGED tables
           ELSE /\ default' = Defaults(r, k)
                /\ owner' = [owner EXCEPT ![k] = IF r.kind = "delete" THEN Deleted ELSE r.user]
                /\ table' = [table EXCEPT ![k] = IF r.kind = "makeDefault" THEN @ ELSE r.body]
                /\ Ends(p, 200) \/ Ends(p, 500)
                /\ UNCHANGED setting
  BY Zenon DEF Commit
<1>2. tx[p].pc = "write" /\ Sound(tx[p])
  BY DEF RInv, Commit, At
<1>3. ~(tx[p].isDefault /\ \E j \in Defaults(tx[p], k) \ {k} : owner[j] = tx[p].user)
  BY <1>2 DEF Sound, StillCleared, Defaults
<1> QED BY <1>1, <1>3 DEF Writes

\* What the transactions of other users rest on is not written by p.
LEMMA CommitStep ==
  ASSUME RInv, NEW p \in Requests, Commit(p)
  PROVE  RInv'
<1>1. PICK k \in Configs : Writes(tx[p], k)
  BY CommitWrites
<1>2. PICK answer \in {200, 500} : Ends(p, answer)
  BY CommitWrites
<1>3. PICK r : r = [Blank EXCEPT !.answer = answer]
  OBVIOUS
<1>4. r \in Registers /\ r.answer = answer /\ r.pc = "idle"
  BY <1>3, Ending DEF Answers
<1>5. tx' = [tx EXCEPT ![p] = r]
  BY <1>2, <1>3 DEF Ends
<1>6. PICK t : t = tx[p]
  OBVIOUS
<1>7. tx' \in [Requests -> Registers] /\ tx'[p] = r /\ \A q \in Requests \ {p} : tx'[q] = tx[q]
  BY <1>4, <1>5 DEF RInv, TypeOK
<1>8. t \in Registers /\ t.pc = "write" /\ Sound(t)
  BY <1>6 DEF RInv, TypeOK, Commit, At
<1>9. owner[k] \in {t.user, Unused} /\ t.user \in Users
  BY <1>1, <1>6, <1>8 DEF Writes, Sound, StillOwned, Holding, Registers
<1>10. /\ owner' \in [Configs -> Users \cup {Unused, Deleted}]
      /\ owner'[k] \in {t.user, Deleted}
      /\ \A j \in Configs \ {k} : owner'[j] = owner[j]
  BY <1>1, <1>6, <1>9 DEF Writes, RInv, TypeOK
<1>11. TypeOK'
  <2>1. table' \in [Configs -> SUBSET Connections]
    BY <1>1, <1>6, <1>8 DEF Writes, RInv, TypeOK, Registers
  <2>2. default' \subseteq {j \in Configs : owner'[j] \in Users}
    <3>1. t.kind = "delete" => ~t.isDefault
      BY <1>8 DEF Sound, WellFormed
    <3>2. CASE t.isDefault
      <4>1. owner'[k] = t.user
        BY <1>1, <1>6, <3>1, <3>2 DEF Writes, RInv, TypeOK
      <4>2. default' \subseteq default \cup {k}
        BY <1>1, <1>6 DEF Writes, Defaults
      <4> QED BY <1>9, <1>10, <4>1, <4>2 DEF RInv, TypeOK
    <3>3. CASE ~t.isDefault
      <4>1. default' = default \ {k}
        BY <1>1, <1>6, <3>3 DEF Writes, Defaults
      <4> QED BY <1>10, <4>1 DEF RInv, TypeOK
    <3> QED BY <3>2, <3>3
  <2>3. ASSUME NEW j \in Configs, owner'[j] \notin Users PROVE table'[j] = {}
    <3>1. CASE j = k
      <4>1. t.kind = "delete"
        BY <1>1, <1>6, <1>9, <2>3, <3>1 DEF Writes, RInv, TypeOK
      <4>2. t.body = {}
        BY <1>8, <4>1 DEF Sound, WellFormed, Saves
      <4> QED BY <1>1, <1>6, <3>1, <4>1, <4>2 DEF Writes, RInv, TypeOK
    <3>2. CASE j # k
      BY <1>1, <1>10, <2>3, <3>2 DEF Writes, RInv, TypeOK
    <3> QED BY <3>1, <3>2
  <2>4. setting' \in [Connections -> Settings]
    BY <1>1 DEF Writes, RInv, TypeOK
  <2> QED BY <1>7, <1>10, <2>1, <2>2, <2>3, <2>4 DEF TypeOK
<1>12. OneHolder'
  BY <1>4, <1>7 DEF RInv, OneHolder, Holding
<1>13. ASSUME NEW q \in Requests PROVE Sound(tx[q])'
  <2>1. CASE q = p
    BY <1>4, <1>7, <2>1 DEF Sound, WellFormed, StillOwned, StillAccessible, StillCleared, Holding
  <2>2. CASE q # p
    <3>1. tx'[q] = tx[q] /\ Sound(tx[q]) /\ tx[q] \in Registers
      BY <1>7, <2>2 DEF RInv, TypeOK
    <3>2. tx[q].pc \in Holding => tx[q].user # t.user
      BY <1>6, <1>8, <2>2 DEF RInv, OneHolder, Holding
    <3>3. tx[q].user \in Users /\ tx[q].config \in Configs /\ tx[q].cleared \subseteq Configs
      BY <3>1 DEF Registers
    <3>4. StillOwned(tx[q])'
      BY <1>9, <1>10, <3>1, <3>2, <3>3, RoutingAssumption DEF Sound, StillOwned
    <3>5. WellFormed(tx[q])' /\ StillAccessible(tx[q])'
      BY <1>1, <3>1 DEF Writes, Sound, WellFormed, StillAccessible, MayRouteTo
    <3>6. StillCleared(tx[q])'
      <4>1. SUFFICES ASSUME tx[q].pc = "write", tx[q].isDefault
                     PROVE  /\ \A j \in default' : owner'[j] = tx[q].user => j \in tx[q].cleared
                            /\ \A j \in tx[q].cleared : owner'[j] = tx[q].user
        BY <3>1 DEF StillCleared
      <4>2. tx[q].user # t.user
        BY <3>2, <4>1 DEF Holding
      <4>3. default' \subseteq default \cup {k} /\ default \subseteq Configs
        BY <1>1, <1>6 DEF Writes, Defaults, RInv, TypeOK
      <4>4. owner'[k] # tx[q].user /\ owner[k] # tx[q].user
        BY <1>9, <1>10, <3>3, <4>2, RoutingAssumption
      <4>5. /\ \A j \in default : owner[j] = tx[q].user => j \in tx[q].cleared
            /\ \A j \in tx[q].cleared : owner[j] = tx[q].user
        BY <3>1, <4>1 DEF Sound, StillCleared
      <4>6. ASSUME NEW j \in default', owner'[j] = tx[q].user PROVE j \in tx[q].cleared
        BY <1>10, <4>3, <4>4, <4>5, <4>6
      <4>7. ASSUME NEW j \in tx[q].cleared PROVE owner'[j] = tx[q].user
        BY <1>10, <3>3, <4>4, <4>5
      <4> QED BY <4>6, <4>7
    <3> QED BY <3>4, <3>5, <3>6 DEF Sound
  <2> QED BY <2>1, <2>2
<1>14. SavesNeverCollide'
  BY <1>4, <1>7 DEF RInv, SavesNeverCollide, UniqueViolation
<1> QED BY <1>11, <1>12, <1>13, <1>14 DEF RInv

\* An edit spares the connections that are shared.
LEMMA ConnectionStep ==
  ASSUME RInv, NEW c \in Connections, EditConnection(c) \/ DeleteConnection(c)
  PROVE  RInv'
<1>1. /\ UNCHANGED <<owner, default, tx>>
      /\ \A d \in Connections \ {c} : setting'[d] = setting[d]
      /\ setting' \in [Connections -> Settings]
      /\ \A p \in Requests : ~SharesConnection(p, c)
  <2>1. CASE EditConnection(c)
    BY <2>1 DEF EditConnection, Edited, RInv, TypeOK
  <2>2. CASE DeleteConnection(c)
    <3>1. setting' = [setting EXCEPT ![c] = "deleted"]
      BY <2>2 DEF DeleteConnection, Dropped
    <3> QED BY <2>2, <3>1 DEF DeleteConnection, Dropped, RInv, TypeOK, Settings
  <2> QED BY <2>1, <2>2
<1>2. table' \in [Configs -> SUBSET Connections] /\ \A k \in Configs : table'[k] \subseteq table[k]
  <2>1. CASE EditConnection(c)
    BY <2>1 DEF EditConnection, Edited, RInv, TypeOK
  <2>2. CASE DeleteConnection(c)
    <3>1. table' = [k \in Configs |-> table[k] \ {c}]
      BY <2>2 DEF DeleteConnection, Dropped
    <3> QED BY <3>1 DEF RInv, TypeOK
  <2> QED BY <2>1, <2>2
<1>3. TypeOK'
  BY <1>1, <1>2 DEF RInv, TypeOK
<1>4. OneHolder' /\ SavesNeverCollide'
  BY <1>1 DEF RInv, OneHolder, SavesNeverCollide
<1>5. ASSUME NEW p \in Requests PROVE Sound(tx[p])'
  <2>1. PICK t : t = tx[p] /\ t = tx'[p]
    BY <1>1
  <2>2. t \in Registers /\ Sound(t)
    BY <2>1 DEF RInv, TypeOK
  <2>3. WellFormed(t)' /\ StillOwned(t)' /\ StillCleared(t)'
    BY <1>1, <2>2 DEF Sound, WellFormed, StillOwned, StillCleared
  <2>4. ASSUME t.pc \in {"clear", "write"}, NEW d \in t.body
        PROVE  MayRouteTo(t.user, d)'
    <3>1. MayRouteTo(t.user, d) /\ t.kind \in Saves /\ d \in Connections
      BY <2>2, <2>4 DEF Sound, StillAccessible, WellFormed, Registers
    <3>2. d # c
      BY <1>1, <2>1, <2>4, <3>1 DEF SharesConnection
    <3> QED BY <1>1, <3>1, <3>2 DEF MayRouteTo
  <2> QED BY <1>1, <2>1, <2>3, <2>4 DEF Sound, StillAccessible
<1> QED BY <1>3, <1>4, <1>5 DEF RInv

-----------------------------------------------------------------------------
(* The theorems. *)

\* Nothing has been asked yet.
LEMMA InitEstablishesRInv == RoutingInit => RInv
<1> SUFFICES ASSUME RoutingInit PROVE RInv
  OBVIOUS
<1>1. tx \in [Requests -> Registers] /\ \A p \in Requests : tx[p].pc = "idle" /\ tx[p].answer = 0
  BY BlankRegisters DEF RoutingInit
<1>2. TypeOK
  BY <1>1, RoutingAssumption DEF RoutingInit, Init, TypeOK
<1>3. OneHolder /\ SavesNeverCollide
  BY <1>1 DEF OneHolder, SavesNeverCollide, Holding, UniqueViolation
<1>4. \A p \in Requests : Sound(tx[p])
  BY <1>1 DEF Sound, WellFormed, StillOwned, StillAccessible, StillCleared, Holding
<1> QED BY <1>2, <1>3, <1>4 DEF RInv

\* Every step keeps the invariant.
LEMMA StepKeepsRInv == RInv /\ [RoutingNext]_vars => RInv'
<1> SUFFICES ASSUME RInv, [RoutingNext]_vars PROVE RInv'
  OBVIOUS
<1>1. ASSUME NEW p \in Requests, Step(p) PROVE RInv'
  <2>1. CASE RollBack(p)
    <3>1. Ends(p, 500) /\ UNCHANGED tables
      BY <2>1 DEF RollBack
    <3> QED BY <3>1, EndingStep DEF Answers, UniqueViolation
  <2> QED BY <1>1, <2>1, BeginStep, LockUserStep, ShareConnectionsStep, ClearDefaultStep, CommitStep
          DEF Step
<1>2. ASSUME NEW c \in Connections, EditConnection(c) \/ DeleteConnection(c) PROVE RInv'
  BY <1>2, ConnectionStep
<1>3. CASE UNCHANGED vars
  BY <1>3 DEF vars, RInv, TypeOK, OneHolder, Sound, WellFormed, StillOwned, StillAccessible,
     StillCleared, MayRouteTo, SavesNeverCollide
<1> QED BY <1>1, <1>2, <1>3 DEF RoutingNext

\* The invariant holds throughout.
LEMMA RInvAlways == RoutingSpec => []RInv
BY InitEstablishesRInv, StepKeepsRInv, PTL DEF RoutingSpec

(***************************************************************************)
(* Every variable of the routing configurations keeps its type.            *)
(***************************************************************************)
THEOREM TypeCorrect == RoutingSpec => []TypeOK
<1>1. RInv => TypeOK
  BY DEF RInv
<1> QED BY <1>1, RInvAlways, PTL

(***************************************************************************)
(* No transaction is refused by the index on defaults, however many        *)
(* requests of whichever users overlap.                                    *)
(***************************************************************************)
THEOREM SavesNeverEverCollide == RoutingSpec => []SavesNeverCollide
<1>1. RInv => SavesNeverCollide
  BY DEF RInv
<1> QED BY <1>1, RInvAlways, PTL

\* A commit is one step of AtomicRouting.
LEMMA CommitIsAtomic ==
  ASSUME RInv, NEW p \in Requests, Commit(p)
  PROVE  Next
<1>1. PICK k \in Configs : Writes(tx[p], k)
  BY CommitWrites
<1>2. PICK t : t = tx[p]
  OBVIOUS
<1>3. t \in Registers /\ t.pc = "write" /\ Sound(t) /\ t.user \in Users
  BY <1>2 DEF RInv, TypeOK, Commit, At, Registers
<1>4. t.isDefault => default' = (default \ OwnConfigs(t.user)) \cup {k}
  <2>1. SUFFICES ASSUME t.isDefault PROVE default' = (default \ OwnConfigs(t.user)) \cup {k}
    OBVIOUS
  <2>2. default' = (default \ t.cleared) \cup {k}
    BY <1>1, <1>2, <2>1 DEF Writes, Defaults
  <2>3. default \subseteq Configs
    BY DEF RInv, TypeOK
  <2>4. \A j \in default : j \in t.cleared <=> owner[j] = t.user
    BY <1>3, <2>1 DEF Sound, StillCleared
  <2>5. default \ t.cleared = default \ OwnConfigs(t.user)
    BY <2>3, <2>4 DEF OwnConfigs
  <2> QED BY <2>2, <2>5
<1>5. ~t.isDefault => default' = default \ {k}
  BY <1>1, <1>2 DEF Writes, Defaults
<1>6. CASE t.kind \in Saves
  <2>1. t.body \in Bodies /\ t.isDefault \in BOOLEAN
    <3>1. t.body # {}
      BY <1>3, <1>6 DEF Sound, WellFormed
    <3> QED BY <1>3, <3>1 DEF Registers, Bodies
  <2>2. owner[k] \in {t.user, Unused}
    BY <1>1, <1>2, <1>3 DEF Writes, Sound, StillOwned, Holding
  <2>3. \A c \in t.body : MayRouteTo(t.user, c)
    BY <1>3 DEF Sound, StillAccessible
  <2>4. /\ owner' = [owner EXCEPT ![k] = t.user] /\ table' = [table EXCEPT ![k] = t.body]
        /\ setting' = setting
    BY <1>1, <1>2, <1>6 DEF Writes, Saves
  <2>5. Saved(t.user, k, t.body, t.isDefault)
    BY <1>4, <1>5, <2>1, <2>2, <2>3, <2>4 DEF Saved
  <2> QED BY <1>3, <2>1, <2>5 DEF Next
<1>7. CASE t.kind = "makeDefault"
  <2>1. t.isDefault /\ owner[k] = t.user
    BY <1>1, <1>2, <1>3, <1>7 DEF Writes, Sound, WellFormed, StillOwned, Holding
  <2>2. owner' = owner /\ table' = table /\ setting' = setting
    BY <1>1, <1>2, <1>7, <2>1 DEF Writes, RInv, TypeOK
  <2>3. MadeDefault(t.user, k)
    BY <1>4, <2>1, <2>2 DEF MadeDefault
  <2> QED BY <1>3, <2>3 DEF Next
<1>8. CASE t.kind = "delete"
  <2>1. ~t.isDefault /\ owner[k] = t.user /\ t.body = {}
    BY <1>1, <1>2, <1>3, <1>8 DEF Writes, Sound, WellFormed, StillOwned, Holding, Saves
  <2>2. /\ owner' = [owner EXCEPT ![k] = Deleted] /\ table' = [table EXCEPT ![k] = {}]
        /\ setting' = setting
    BY <1>1, <1>2, <1>8, <2>1 DEF Writes
  <2>3. Removed(t.user, k)
    BY <1>5, <2>1, <2>2 DEF Removed
  <2> QED BY <1>3, <2>3 DEF Next
<1> QED BY <1>3, <1>6, <1>7, <1>8 DEF Registers, Kinds, Saves

(***************************************************************************)
(* The transactions, statement by statement, implement the atomic saves,   *)
(* changes of the default and deletions: each acts at its commit.          *)
(***************************************************************************)
THEOREM ImplementsAtomicRouting == RoutingSpec => RefinesAtomicRouting
<1>1. RoutingInit => Init
  BY DEF RoutingInit
<1>2. RInv /\ [RoutingNext]_vars => [Next]_tables
  <2> SUFFICES ASSUME RInv, [RoutingNext]_vars PROVE Next \/ UNCHANGED tables
    OBVIOUS
  <2>1. ASSUME NEW p \in Requests, Step(p) PROVE Next \/ UNCHANGED tables
    <3>1. CASE Commit(p)
      BY <3>1, CommitIsAtomic
    <3>2. CASE ~Commit(p)
      BY <2>1, <3>2 DEF Step, Begin, LockUser, ShareConnections, ClearDefault, RollBack
    <3> QED BY <3>1, <3>2
  <2>2. ASSUME NEW c \in Connections, EditConnection(c) \/ DeleteConnection(c) PROVE Next
    BY <2>2 DEF EditConnection, DeleteConnection, Next
  <2>3. CASE UNCHANGED vars
    BY <2>3 DEF vars, tables
  <2> QED BY <2>1, <2>2, <2>3 DEF RoutingNext
<1> QED BY <1>1, <1>2, RInvAlways, PTL DEF RoutingSpec, RefinesAtomicRouting, Spec

(***************************************************************************)
(* A configuration stops being the default only on a request of its owner  *)
(* that names it or asks for another default.                              *)
(***************************************************************************)
THEOREM DefaultsOnlyEndOnRequest == RoutingSpec => DefaultsEndOnRequest
<1> DEFINE OnRequest == \A k \in default \ default' :
                      \E p \in Requests :
                        /\ At(p, "write") /\ tx[p].user = owner[k]
                        /\ tx[p].isDefault \/ tx[p].config = k
<1>1. RInv /\ [RoutingNext]_vars => [OnRequest]_vars
  <2> SUFFICES ASSUME RInv, [RoutingNext]_vars, NEW k \in default \ default'
               PROVE  \E p \in Requests :
                        /\ At(p, "write") /\ tx[p].user = owner[k]
                        /\ tx[p].isDefault \/ tx[p].config = k
    OBVIOUS
  <2>1. PICK p \in Requests : Commit(p)
    BY DEF RoutingNext, Step, Begin, LockUser, ShareConnections, ClearDefault, RollBack,
       EditConnection, DeleteConnection, Edited, Dropped, vars, tables
  <2>2. PICK j \in Configs : Writes(tx[p], j)
    BY <2>1, CommitWrites
  <2>3. PICK t : t = tx[p]
    OBVIOUS
  <2>4. t.pc = "write" /\ Sound(t) /\ k \in Configs /\ owner[k] \in Users
    BY <2>1, <2>3 DEF RInv, TypeOK, Commit, At
  <2>5. CASE t.isDefault
    <3>1. k \in t.cleared
      BY <2>2, <2>3, <2>5 DEF Writes, Defaults
    <3> QED BY <2>3, <2>4, <2>5, <3>1 DEF Sound, StillCleared, At
  <2>6. CASE ~t.isDefault
    <3>1. k = j
      BY <2>2, <2>3, <2>6 DEF Writes, Defaults
    <3>2. t.kind # "create" /\ t.config = k
      BY <2>2, <2>3, <2>4, <3>1, RoutingAssumption DEF Writes
    <3> QED BY <2>3, <2>4, <3>2 DEF Sound, StillOwned, Holding, At
  <2> QED BY <2>5, <2>6
<1> QED BY <1>1, RInvAlways, PTL DEF RoutingSpec, DefaultsEndOnRequest

=============================================================================
