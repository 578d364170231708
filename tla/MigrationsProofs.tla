-------------------------- MODULE MigrationsProofs --------------------------
(***************************************************************************)
(* Theorems about Migrations, for any number of gateways, files and faults *)
(* and any deployment.                                                     *)
(***************************************************************************)
EXTENDS Migrations, TLAPS

\* What a gateway's loop has passed is recorded as the gateway has it.
LoopsAreTrue ==
  \A g \in Gateways :
    /\ todo[g] \subseteq Files(g)
    /\ pc[g] # "down" => \A m \in Files(g) \ todo[g] : Has(g, m)
    /\ pc[g] = "serving" => todo[g] = {}
    /\ pc[g] \in {"exec", "record", "commit"} => \E m \in Names : Item(g, m)

\* The row a gateway has inserted is not there yet, and it alone inserts it.
RowsAreOwn ==
  \A g \in Gateways : pc[g] = "commit" =>
    \A m \in Names : Item(g, m) =>
      /\ recorded[m] = NoSum
      /\ \A h \in Gateways : pc[h] = "commit" /\ Item(h, m) => h = g

MInv == TypeOK /\ AppliedOnceAndRecorded /\ LoopsAreTrue /\ RowsAreOwn

-----------------------------------------------------------------------------

\* A loop has one item at a time.
LEMMA ItemIsUnique ==
  ASSUME TypeOK, NEW g \in Gateways, NEW m \in Names, NEW n \in Names,
         Item(g, m), Item(g, n)
  PROVE  m = n
<1>1. m \in Nat /\ n \in Nat BY MigrationsAssumption
<1>2. m <= n /\ n <= m BY DEF Item
<1> QED BY <1>1, <1>2

\* Which files a gateway has depends on the deployment alone.
LEMMA FilesStay ==
  ASSUME NEW g \in Gateways, files' = files
  PROVE  Files(g)' = Files(g)
BY DEF Files

\* No gateway has begun and nothing is recorded.
LEMMA InitMInv == Init => MInv
<1> SUFFICES ASSUME Init PROVE MInv OBVIOUS
<1>1. TypeOK BY MigrationsAssumption DEF Init, TypeOK, Phases
<1>2. AppliedOnceAndRecorded BY DEF Init, AppliedOnceAndRecorded
<1>3. LoopsAreTrue BY DEF Init, LoopsAreTrue
<1>4. RowsAreOwn BY DEF Init, RowsAreOwn
<1> QED BY <1>1, <1>2, <1>3, <1>4 DEF MInv

-----------------------------------------------------------------------------
(* Types. *)

\* Every step keeps the types.
LEMMA TypesStay ==
  ASSUME TypeOK, [Next]_vars
  PROVE  TypeOK'
<1>1. CASE UNCHANGED vars BY <1>1 DEF TypeOK, vars
<1>2. ASSUME NEW g \in Gateways, Step(g) \/ Die(g) \/ DieCommitted(g) PROVE TypeOK'
  <2>1. CASE Start(g) BY <2>1, <1>2 DEF TypeOK, Start, Goto, Files, Phases
  <2>2. CASE Check(g) BY <2>2, <1>2 DEF TypeOK, Check, Goto, Passes, Exits, Phases
  <2>3. CASE Exec(g) BY <2>3, <1>2 DEF TypeOK, Exec, Goto, Exits, Phases
  <2>4. CASE Record(g) BY <2>4, <1>2 DEF TypeOK, Record, Goto, Exits, Phases
  <2>5. ASSUME NEW m \in Names, Item(g, m), Commits(g, m) PROVE
          recorded' \in [Names -> Sums \cup {NoSum}] /\ applied' \in [Names -> Nat]
    <3>1. files[g][m] \in Sums \cup {NoSum} BY MigrationsAssumption DEF TypeOK
    <3> QED BY <3>1, <2>5 DEF TypeOK, Commits
  <2>6. CASE Commit(g) BY <2>6, <2>5 DEF TypeOK, Commit, Goto, Passes, Phases
  <2>7. CASE Serve(g) BY <2>7, <1>2 DEF TypeOK, Serve, Goto, Phases
  <2>8. CASE Die(g)
    BY <2>8, MigrationsAssumption DEF TypeOK, Die, Fault, Goto, Exits, Phases
  <2>9. CASE DieCommitted(g)
    BY <2>9, <2>5, MigrationsAssumption DEF TypeOK, DieCommitted, Fault, Goto, Exits, Phases
  <2> QED BY <1>2, <2>1, <2>2, <2>3, <2>4, <2>6, <2>7, <2>8, <2>9 DEF Step
<1> QED BY <1>1, <1>2 DEF Next

-----------------------------------------------------------------------------
(* A commit records what no gateway relies on being absent. *)

\* A commit records an item that nobody had recorded.
LEMMA CommitKeeps ==
  ASSUME MInv, TypeOK', NEW g \in Gateways, NEW m \in Names, pc[g] = "commit", Item(g, m),
         Commits(g, m), files' = files,
         \/ Passes(g, m) /\ Goto(g, "check")
         \/ Exits(g)
  PROVE  AppliedOnceAndRecorded' /\ LoopsAreTrue' /\ RowsAreOwn'
<1>1. recorded[m] = NoSum BY DEF MInv, RowsAreOwn
<1>2. m \in Files(g) BY DEF MInv, LoopsAreTrue, Item
<1>3. files[g][m] # NoSum BY <1>2 DEF Files
<1>4. recorded'[m] = files[g][m] /\ \A n \in Names \ {m} : recorded'[n] = recorded[n]
  BY DEF MInv, TypeOK, Commits
<1>5. applied'[m] = applied[m] + 1 /\ \A n \in Names \ {m} : applied'[n] = applied[n]
  BY DEF MInv, TypeOK, Commits
<1>6. AppliedOnceAndRecorded'
  <2>1. applied[m] = 0 BY <1>1 DEF MInv, AppliedOnceAndRecorded
  <2>2. applied'[m] = 1 /\ recorded'[m] # NoSum BY <2>1, <1>5, <1>4, <1>3
  <2>3. \A n \in Names \ {m} : applied'[n] = IF recorded'[n] = NoSum THEN 0 ELSE 1
    BY <1>4, <1>5 DEF MInv, AppliedOnceAndRecorded
  <2> QED BY <2>2, <2>3 DEF AppliedOnceAndRecorded
<1>7. \A h \in Gateways : \A n \in Files(h) : Has(h, n) => Has(h, n)'
  <2> SUFFICES ASSUME NEW h \in Gateways, NEW n \in Files(h), Has(h, n) PROVE Has(h, n)'
    OBVIOUS
  <2>1. n # m BY <1>1 DEF Has, Files
  <2> QED BY <2>1, <1>4 DEF Has, Files
<1>8. \A h \in Gateways \ {g} : pc'[h] = pc[h] /\ todo'[h] = todo[h]
  BY DEF MInv, TypeOK, Passes, Goto, Exits
<1>9. \/ pc'[g] = "check" /\ todo'[g] = todo[g] \ {m}
      \/ pc'[g] = "down" /\ todo'[g] = {}
  BY DEF MInv, TypeOK, Passes, Goto, Exits
<1>10. LoopsAreTrue'
  <2> SUFFICES ASSUME NEW h \in Gateways
               PROVE  /\ todo'[h] \subseteq Files(h)
                      /\ pc'[h] # "down" => \A n \in Files(h) \ todo'[h] : Has(h, n)'
                      /\ pc'[h] = "serving" => todo'[h] = {}
                      /\ pc'[h] \in {"exec", "record", "commit"} =>
                           \E n \in Names : Item(h, n)'
    BY FilesStay DEF LoopsAreTrue
  <2>1. CASE h = g
    <3>1. todo[g] \subseteq Files(g) /\ \A n \in Files(g) \ todo[g] : Has(g, n)
      BY DEF MInv, LoopsAreTrue
    <3>2. Has(g, m)' BY <1>4 DEF Has
    <3> QED BY <3>1, <3>2, <1>7, <1>9, <2>1
  <2>2. CASE h # g
    <3>1. pc'[h] = pc[h] /\ todo'[h] = todo[h] BY <1>8, <2>2
    <3>2. \A n \in Names : Item(h, n)' <=> Item(h, n) BY <3>1 DEF Item
    <3> QED BY <3>1, <3>2, <1>7 DEF MInv, LoopsAreTrue
  <2> QED BY <2>1, <2>2
<1>11. RowsAreOwn'
  <2> SUFFICES ASSUME NEW h \in Gateways, pc'[h] = "commit", NEW n \in Names, Item(h, n)'
               PROVE  /\ recorded'[n] = NoSum
                      /\ \A i \in Gateways : pc'[i] = "commit" /\ Item(i, n)' => i = h
    BY DEF RowsAreOwn
  <2>1. h # g BY <1>9
  <2>2. pc[h] = "commit" /\ Item(h, n) BY <2>1, <1>8 DEF Item
  <2>3. n # m BY <2>1, <2>2 DEF MInv, RowsAreOwn
  <2>4. recorded'[n] = NoSum BY <2>2, <2>3, <1>4 DEF MInv, RowsAreOwn
  <2>5. ASSUME NEW i \in Gateways, pc'[i] = "commit", Item(i, n)' PROVE i = h
    <3>1. i # g BY <2>5, <1>9
    <3>2. pc[i] = "commit" /\ Item(i, n) BY <3>1, <2>5, <1>8 DEF Item
    <3> QED BY <3>2, <2>2 DEF MInv, RowsAreOwn
  <2> QED BY <2>4, <2>5
<1> QED BY <1>6, <1>10, <1>11

-----------------------------------------------------------------------------
(* The steps of g that leave the database as it is. *)

\* A step that changes one gateway and no row keeps what is known of the others.
LEMMA OthersStay ==
  ASSUME MInv, TypeOK', NEW g \in Gateways, UNCHANGED <<files, recorded, applied>>,
         \A h \in Gateways \ {g} : pc'[h] = pc[h] /\ todo'[h] = todo[h],
         todo'[g] \subseteq Files(g),
         pc'[g] # "down" => \A m \in Files(g) \ todo'[g] : Has(g, m),
         pc'[g] = "serving" => todo'[g] = {},
         pc'[g] \in {"exec", "record", "commit"} => \E m \in Names : Item(g, m)',
         pc'[g] = "commit" =>
           \A m \in Names : Item(g, m)' =>
             recorded[m] = NoSum /\ \A h \in Gateways : ~(pc[h] = "commit" /\ Item(h, m))
  PROVE  AppliedOnceAndRecorded' /\ LoopsAreTrue' /\ RowsAreOwn'
<1>1. AppliedOnceAndRecorded' BY DEF MInv, AppliedOnceAndRecorded
<1>2. \A h \in Gateways, n \in Names : Has(h, n)' <=> Has(h, n) BY DEF Has
<1>3. \A h \in Gateways \ {g}, n \in Names : Item(h, n)' <=> Item(h, n) BY DEF Item
<1>4. LoopsAreTrue'
  <2> SUFFICES ASSUME NEW h \in Gateways
               PROVE  /\ todo'[h] \subseteq Files(h)
                      /\ pc'[h] # "down" => \A n \in Files(h) \ todo'[h] : Has(h, n)
                      /\ pc'[h] = "serving" => todo'[h] = {}
                      /\ pc'[h] \in {"exec", "record", "commit"} =>
                           \E n \in Names : Item(h, n)'
    BY FilesStay, <1>2 DEF LoopsAreTrue, Files
  <2>1. CASE h = g BY <2>1
  <2>2. CASE h # g BY <2>2, <1>3 DEF MInv, LoopsAreTrue
  <2> QED BY <2>1, <2>2
<1>5. RowsAreOwn'
  <2> SUFFICES ASSUME NEW h \in Gateways, pc'[h] = "commit", NEW n \in Names, Item(h, n)'
               PROVE  /\ recorded[n] = NoSum
                      /\ \A i \in Gateways : pc'[i] = "commit" /\ Item(i, n)' => i = h
    BY DEF RowsAreOwn
  <2>1. CASE h = g
    <3>1. ASSUME NEW i \in Gateways, i # g, pc'[i] = "commit", Item(i, n)' PROVE FALSE
      BY <3>1, <2>1, <1>3
    <3> QED BY <3>1, <2>1
  <2>2. CASE h # g
    <3>1. pc[h] = "commit" /\ Item(h, n) BY <2>2, <1>3
    <3>2. ASSUME NEW i \in Gateways, pc'[i] = "commit", Item(i, n)' PROVE i = h
      <4>1. i # g BY <3>1, <3>2
      <4>2. pc[i] = "commit" /\ Item(i, n) BY <4>1, <3>2, <1>3
      <4> QED BY <4>2, <3>1 DEF MInv, RowsAreOwn
    <3> QED BY <3>1, <3>2 DEF MInv, RowsAreOwn
  <2> QED BY <2>1, <2>2
<1> QED BY <1>1, <1>4, <1>5

\* Every step keeps the invariant.
LEMMA NextMInv == MInv /\ [Next]_vars => MInv'
<1> SUFFICES ASSUME MInv, [Next]_vars PROVE MInv' OBVIOUS
<1>0. TypeOK /\ TypeOK' BY TypesStay DEF MInv
<1>1. CASE UNCHANGED vars
  <2>1. AppliedOnceAndRecorded' BY <1>1 DEF vars, MInv, AppliedOnceAndRecorded
  <2>2. LoopsAreTrue' BY <1>1 DEF vars, MInv, LoopsAreTrue, Files, Has, Item
  <2>3. RowsAreOwn' BY <1>1 DEF vars, MInv, RowsAreOwn, Item
  <2> QED BY <1>0, <2>1, <2>2, <2>3 DEF MInv
<1>2. ASSUME NEW g \in Gateways, Step(g) \/ Die(g) \/ DieCommitted(g)
      PROVE  AppliedOnceAndRecorded' /\ LoopsAreTrue' /\ RowsAreOwn'
  <2>0. /\ todo[g] \subseteq Files(g)
        /\ pc[g] # "down" => \A m \in Files(g) \ todo[g] : Has(g, m)
    BY DEF MInv, LoopsAreTrue
  <2>1. CASE Start(g)
    <3>1. \A h \in Gateways \ {g} : pc'[h] = pc[h] /\ todo'[h] = todo[h]
      BY <2>1, <1>0 DEF Start, Goto, TypeOK
    <3>2. pc'[g] = "check" /\ todo'[g] = Files(g) BY <2>1, <1>0 DEF Start, Goto, TypeOK
    <3> QED BY <1>0, <2>1, <3>1, <3>2, OthersStay DEF Start
  <2>2. CASE Check(g)
    <3>0. PICK m \in Names : Check(g)!2!(m) BY <2>2, Zenon DEF Check
    <3>1. \A h \in Gateways \ {g} : pc'[h] = pc[h] /\ todo'[h] = todo[h]
      BY <3>0, <1>0 DEF Goto, Passes, Exits, TypeOK
    <3>2. UNCHANGED <<files, recorded, applied>> BY <2>2 DEF Check
    <3>3. CASE recorded[m] = NoSum /\ Goto(g, "exec") /\ UNCHANGED todo
      <4>1. pc'[g] = "exec" /\ todo'[g] = todo[g] BY <3>3, <1>0 DEF Goto, TypeOK
      <4>2. Item(g, m)' BY <3>0, <4>1 DEF Item
      <4>3. pc[g] # "down" BY <2>2 DEF Check
      <4> QED BY <1>0, <2>0, <3>1, <3>2, <4>1, <4>2, <4>3, OthersStay
    <3>4. CASE recorded[m] = files[g][m] /\ Passes(g, m) /\ UNCHANGED pc
      <4>1. pc'[g] = "check" /\ todo'[g] = todo[g] \ {m}
        BY <3>4, <2>2, <1>0 DEF Check, Passes, TypeOK
      <4>2. \A n \in Files(g) \ todo'[g] : Has(g, n)
        BY <2>0, <2>2, <4>1, <3>4 DEF Check, Has
      <4> QED BY <1>0, <2>0, <3>1, <3>2, <4>1, <4>2, OthersStay
    <3>5. CASE Exits(g)
      <4>1. pc'[g] = "down" /\ todo'[g] = {} BY <3>5, <1>0 DEF Exits, Goto, TypeOK
      <4> QED BY <1>0, <3>1, <3>2, <4>1, OthersStay
    <3> QED BY <3>0, <3>3, <3>4, <3>5
  <2>3. CASE Exec(g)
    <3>1. \A h \in Gateways \ {g} : pc'[h] = pc[h] /\ todo'[h] = todo[h]
      BY <2>3, <1>0 DEF Exec, Goto, Exits, TypeOK
    <3>2. UNCHANGED <<files, recorded, applied>> BY <2>3 DEF Exec
    <3>3. \/ Goto(g, "record") /\ UNCHANGED todo
          \/ Exits(g)
      BY <2>3 DEF Exec
    <3>4. CASE Goto(g, "record") /\ UNCHANGED todo
      <4>1. pc'[g] = "record" /\ todo' = todo BY <3>4, <1>0 DEF Goto, TypeOK
      <4>2. PICK m \in Names : Item(g, m) BY <2>3 DEF Exec
      <4>3. Item(g, m)' BY <4>1, <4>2 DEF Item
      <4>4. pc[g] # "down" BY <2>3 DEF Exec
      <4> QED BY <1>0, <2>0, <3>1, <3>2, <4>1, <4>3, <4>4, OthersStay
    <3>5. CASE Exits(g)
      <4>1. pc'[g] = "down" /\ todo'[g] = {} BY <3>5, <1>0 DEF Exits, Goto, TypeOK
      <4> QED BY <1>0, <3>1, <3>2, <4>1, OthersStay
    <3> QED BY <3>3, <3>4, <3>5
  <2>4. CASE Record(g)
    <3>0. PICK m \in Names : Record(g)!2!(m) BY <2>4, Zenon DEF Record
    <3>1. \A h \in Gateways \ {g} : pc'[h] = pc[h] /\ todo'[h] = todo[h]
      BY <3>0, <1>0 DEF Goto, Exits, TypeOK
    <3>2. UNCHANGED <<files, recorded, applied>> BY <2>4 DEF Record
    <3>4. CASE recorded[m] = NoSum
      <4>1. pc'[g] = "commit" /\ todo' = todo BY <3>0, <3>4, <1>0 DEF Goto, TypeOK
      <4>2. Item(g, m)' BY <4>1, <3>0 DEF Item
      <4>3. \A n \in Names : Item(g, n)' => n = m
        BY <4>1, <3>0, <1>0, ItemIsUnique DEF Item
      <4>4. pc[g] # "down" BY <2>4 DEF Record
      <4>5. recorded[m] = NoSum /\ \A h \in Gateways : ~(pc[h] = "commit" /\ Item(h, m))
        BY <3>0, <3>4
      <4> QED BY <1>0, <2>0, <3>1, <3>2, <4>1, <4>2, <4>3, <4>4, <4>5, OthersStay
    <3>5. CASE recorded[m] # NoSum
      <4>1. pc'[g] = "down" /\ todo'[g] = {}
        BY <3>0, <3>5, <1>0 DEF Exits, Goto, TypeOK
      <4> QED BY <1>0, <3>1, <3>2, <4>1, OthersStay
    <3> QED BY <3>4, <3>5
  <2>5. CASE Commit(g)
    <3>1. PICK m \in Names : Item(g, m) /\ Commits(g, m) /\ Passes(g, m)
      BY <2>5 DEF Commit
    <3> QED BY <1>0, <2>5, <3>1, CommitKeeps DEF Commit
  <2>6. CASE Serve(g)
    <3>1. \A h \in Gateways \ {g} : pc'[h] = pc[h] /\ todo'[h] = todo[h]
      BY <2>6, <1>0 DEF Serve, Goto, TypeOK
    <3>2. pc'[g] = "serving" /\ todo'[g] = todo[g] /\ todo[g] = {} /\ pc[g] # "down"
      BY <2>6, <1>0 DEF Serve, Goto, TypeOK
    <3> QED BY <1>0, <2>0, <2>6, <3>1, <3>2, OthersStay DEF Serve
  <2>7. CASE Die(g)
    <3>1. \A h \in Gateways \ {g} : pc'[h] = pc[h] /\ todo'[h] = todo[h]
      BY <2>7, <1>0 DEF Die, Goto, Exits, TypeOK
    <3>2. pc'[g] = "down" /\ todo'[g] = {} BY <2>7, <1>0 DEF Die, Goto, Exits, TypeOK
    <3> QED BY <1>0, <2>7, <3>1, <3>2, OthersStay DEF Die
  <2>8. CASE DieCommitted(g)
    <3>1. PICK m \in Names : Item(g, m) /\ Commits(g, m) BY <2>8 DEF DieCommitted
    <3> QED BY <1>0, <2>8, <3>1, CommitKeeps DEF DieCommitted
  <2> QED BY <1>2, <2>1, <2>2, <2>3, <2>4, <2>5, <2>6, <2>7, <2>8 DEF Step
<1> QED BY <1>0, <1>1, <1>2 DEF Next, MInv

-----------------------------------------------------------------------------
(* Theorems. *)

\* MInv holds of every state of every deployment.
THEOREM InductiveInvariant == Spec => []MInv
<1> QED BY InitMInv, NextMInv, PTL DEF Spec

\* Every variable keeps its type.
THEOREM MigrationTypes == Spec => []TypeOK
<1>1. MInv => TypeOK BY DEF MInv
<1> QED BY <1>1, InductiveInvariant, PTL

\* A body is committed at most once, and recorded exactly when it was.
THEOREM MigrationsApplyOnce == Spec => []AppliedOnceAndRecorded
<1>1. MInv => AppliedOnceAndRecorded BY DEF MInv
<1> QED BY <1>1, InductiveInvariant, PTL

\* A gateway builds, and serves, on its own files only.
THEOREM GatewaysBuildOnOwnFiles == Spec => []BuiltOnOwnFiles
<1>1. ASSUME MInv PROVE BuiltOnOwnFiles
  <2> SUFFICES ASSUME NEW g \in Gateways
               PROVE  /\ pc[g] = "serving" => \A m \in Files(g) : Has(g, m)
                      /\ pc[g] \in {"exec", "record", "commit"} =>
                           \E m \in Files(g) :
                             Item(g, m) /\ \A n \in Files(g) : n < m => Has(g, n)
    BY DEF BuiltOnOwnFiles
  <2>1. /\ todo[g] \subseteq Files(g)
        /\ pc[g] # "down" => \A m \in Files(g) \ todo[g] : Has(g, m)
        /\ pc[g] = "serving" => todo[g] = {}
    BY <1>1 DEF MInv, LoopsAreTrue
  <2>2. ASSUME pc[g] \in {"exec", "record", "commit"}
        PROVE  \E m \in Files(g) : Item(g, m) /\ \A n \in Files(g) : n < m => Has(g, n)
    <3>1. PICK m \in Names : Item(g, m) BY <1>1, <2>2 DEF MInv, LoopsAreTrue
    <3>2. m \in Files(g) BY <3>1, <2>1 DEF Item
    <3>3. ASSUME NEW n \in Files(g), n < m PROVE Has(g, n)
      <4>1. m \in Nat /\ n \in Nat BY MigrationsAssumption DEF Files
      <4>2. n \notin todo[g] BY <3>1, <3>3, <4>1 DEF Item
      <4> QED BY <2>1, <2>2, <4>2
    <3> QED BY <3>1, <3>2, <3>3
  <2> QED BY <2>1, <2>2
<1> QED BY <1>1, InductiveInvariant, PTL

=============================================================================
