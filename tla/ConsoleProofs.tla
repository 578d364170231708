---------------------------- MODULE ConsoleProofs ----------------------------
(***************************************************************************)
(* Theorems about Console, for any number of rows, keys, models, settings  *)
(* and changes: of what the activity stream sends, and of what the pages   *)
(* show and send.                                                          *)
(*                                                                         *)
(* Each part has an inductive invariant of its own, and PartsBehave lets   *)
(* it be proved of the part by itself.                                     *)
(***************************************************************************)
EXTENDS Console, FiniteSetTheorems, WellFoundedInduction, TLAPS

\* Each part behaves as its module says, whichever of them is open.
LEMMA PartsBehave ==
  Spec => /\ Stream!Spec /\ Graph!Spec /\ Access!Spec /\ Import!Spec /\ Form!Spec
          /\ Provider!Spec /\ Card!Spec /\ ProviderKeys!Spec
<1>1. Init => /\ Stream!Init /\ Graph!Init /\ Access!Init /\ Import!Init /\ Form!Init
              /\ Provider!Init /\ Card!Init /\ ProviderKeys!Init
  BY DEF Init
<1>2. [Next]_vars => [Stream!Next]_(Stream!vars)
  BY Zenon DEF Next, vars, streamVars, Stream!vars
<1>3. [Next]_vars => [Access!Next]_(Access!vars)
  BY Zenon DEF Next, vars, accessVars, Access!vars
<1>4. [Next]_vars => [Import!Next]_(Import!vars)
  BY Zenon DEF Next, vars, importVars, Import!vars
<1>5. [Next]_vars => [Form!Next]_(Form!vars)
  BY Zenon DEF Next, vars, formVars, Form!vars
<1>6. [Next]_vars => [Provider!Next]_(Provider!vars)
  BY Zenon DEF Next, vars, providerVars, Provider!vars
<1>7. [Next]_vars => [Card!Next]_(Card!vars)
  BY Zenon DEF Next, vars, cardVars, Card!vars
<1>8. [Next]_vars => [ProviderKeys!Next]_(ProviderKeys!vars)
  BY Zenon DEF Next, vars, keysVars, ProviderKeys!vars
<1>9. [Next]_vars => [Graph!Next]_(Graph!vars)
  BY Zenon DEF Next, vars, graphVars, Graph!vars
<1> QED BY <1>1, <1>2, <1>3, <1>4, <1>5, <1>6, <1>7, <1>8, <1>9, PTL
    DEF Spec, Stream!Spec, Graph!Spec, Access!Spec, Import!Spec, Form!Spec, Provider!Spec, Card!Spec,
        ProviderKeys!Spec

-----------------------------------------------------------------------------
(* The activity stream. *)

\* The order of the numbers.
Less == {p \in Nat \X Nat : p[1] < p[2]}

\* No number has infinitely many below it.
LEMMA LessIsWellFounded == IsWellFoundedOn(Less, Nat)
BY NatLessThanWellFounded, Zenon DEF OpToRel, Less

\* Rows that are not none have a last one.
LEMMA LastOfRows ==
  ASSUME NEW S, S \subseteq Stream!Rows, S # {}
  PROVE  Stream!Max(S) \in S
<1> DEFINE Left == {n \in Nat : \E s \in S : n = Horizon - s}
<1>1. Horizon \in Nat /\ \A s \in S : s \in 1 .. Horizon
  BY ConsoleAssumption DEF Stream!Rows
<1>2. \A s \in S : Horizon - s \in Left
  BY <1>1
<1>3. Left \subseteq Nat /\ Left # {}
  BY <1>2
<1>4. PICK n \in Left : \A m \in Left : ~ (<<m, n>> \in Less)
  <2> HIDE DEF Left
  <2> QED BY <1>3, LessIsWellFounded, WFMin
<1>5. ASSUME NEW m \in Left PROVE n <= m
  <2>1. <<m, n>> \notin Less
    BY <1>4
  <2>2. m \in Nat /\ n \in Nat
    BY <1>3, <1>4
  <2>3. <<m, n>> \in Nat \X Nat /\ <<m, n>>[1] = m /\ <<m, n>>[2] = n
    BY <2>2
  <2>4. ~ (m < n)
    BY <2>1, <2>3 DEF Less
  <2> QED BY <2>2, <2>4
<1>6. PICK s \in S : n = Horizon - s
  OBVIOUS
<1>7. \A r \in S : s >= r
  <2> HIDE DEF Left
  <2> QED BY <1>1, <1>2, <1>5, <1>6
<1> QED BY <1>7 DEF Stream!Max

\* The stream counts as the library does.
LEMMA StreamCounts == \A S : Stream!Cardinality(S) = Cardinality(S)
BY DEF Stream!Cardinality, Stream!IsFiniteSet, Cardinality, IsFiniteSet

\* A poll skips no visible row before one that it reads.
LEMMA ReadsTheFirst ==
  ASSUME visible \subseteq Stream!Rows, NEW moment \in Nat,
         NEW s \in Stream!FirstAfter(moment), NEW t \in visible, t > moment, t <= s
  PROVE  t \in Stream!FirstAfter(moment)
<1> DEFINE Before(x) == {v \in visible : moment < v /\ v < x}
<1>1. s \in visible /\ Cardinality(Before(s)) < Limit
  BY StreamCounts DEF Stream!FirstAfter
<1>2. Before(t) \subseteq Before(s)
  <2>1. s \in Int /\ \A v \in visible : v \in Int
    BY <1>1 DEF Stream!Rows
  <2> SUFFICES ASSUME NEW v \in visible, v < t PROVE v < s
    OBVIOUS
  <2> QED
    BY <2>1
<1>3. IsFiniteSet(Before(s))
  <2>1. IsFiniteSet(1 .. Horizon)
    BY FS_Interval, ConsoleAssumption
  <2>2. Before(s) \subseteq 1 .. Horizon
    BY DEF Stream!Rows
  <2> HIDE DEF Before
  <2> QED BY <2>1, <2>2, FS_Subset
<1>4. /\ Cardinality(Before(t)) <= Cardinality(Before(s))
      /\ Cardinality(Before(t)) \in Nat /\ Cardinality(Before(s)) \in Nat
  <2> HIDE DEF Before
  <2> QED BY <1>2, <1>3, FS_Subset, FS_CardinalityType
<1>5. Cardinality(Before(t)) < Limit
  <2> HIDE DEF Before
  <2> QED BY <1>1, <1>4, ConsoleAssumption
<1> QED BY <1>5, StreamCounts DEF Stream!FirstAfter

\* The cursor is at the millisecond of a visible row, or at the start.
CursorIsOfARow == cursor = 0 \/ \E s \in visible : cursor = Stream!Milli(s)

\* Before a row that a poll has read there is none that neither the poll nor
\* an earlier one has read, but for late ones.
BatchesLeaveNoGap ==
  \A p \in Polls : batch[p] # Stream!NoBatch =>
    /\ batch[p] \subseteq visible
    /\ \A s \in batch[p] : \A t \in visible \ late :
         t <= Stream!Milli(s) => t \in sent \cup batch[p]

StreamInv == Stream!TypeOK /\ CursorIsOfARow /\ BatchesLeaveNoGap /\ NothingPassed

\* A row's millisecond is not after it.
LEMMA MilliIsBefore ==
  ASSUME NEW t \in Stream!Rows
  PROVE  Stream!Milli(t) \in 0 .. t /\ t \in 1 .. Horizon
<1>1. TicksPerMs \in Nat \ {0} /\ Horizon \in Nat /\ t \in 1 .. Horizon
  BY ConsoleAssumption DEF Stream!Rows
<1>2. t % TicksPerMs \in 0 .. TicksPerMs - 1
  BY <1>1
<1>3. t % TicksPerMs <= t
  BY <1>1
<1> QED BY <1>1, <1>2, <1>3 DEF Stream!Milli

\* A stream that begins has seen every row of before.
LEMMA StreamStarts == Stream!Init => StreamInv
<1> SUFFICES ASSUME Stream!Init PROVE StreamInv
  OBVIOUS
<1>1. batch \in [Polls -> (SUBSET Stream!Rows) \cup {Stream!NoBatch}]
  BY DEF Stream!Init
<1>2. Stream!TypeOK
  <2>1. 0 \in 0 .. Horizon
    BY ConsoleAssumption
  <2> QED BY <1>1, <2>1 DEF Stream!Init, Stream!TypeOK
<1>3. BatchesLeaveNoGap
  BY DEF Stream!Init, BatchesLeaveNoGap
<1>4. CursorIsOfARow /\ NothingPassed
  BY DEF Stream!Init, CursorIsOfARow, NothingPassed
<1> QED BY <1>2, <1>3, <1>4 DEF StreamInv

\* A row that appears late is late, and the others lie before the cursor as they did.
LEMMA AppearKeeps ==
  ASSUME StreamInv, NEW t \in Stream!Rows, Stream!Appear(t)
  PROVE  StreamInv'
<1>1. Stream!TypeOK'
  BY DEF StreamInv, Stream!TypeOK, Stream!Appear
<1>2. CursorIsOfARow'
  BY DEF StreamInv, CursorIsOfARow, Stream!Appear
<1>3. \A s \in visible : t \notin late' => Stream!Milli(s) < t
  BY MilliIsBefore DEF StreamInv, Stream!TypeOK, Stream!Appear
<1>4. BatchesLeaveNoGap'
  BY <1>3, MilliIsBefore DEF StreamInv, Stream!TypeOK, BatchesLeaveNoGap, Stream!Appear
<1>5. NothingPassed'
  BY <1>3, MilliIsBefore DEF StreamInv, Stream!TypeOK, CursorIsOfARow, NothingPassed, Stream!Appear
<1> QED BY <1>1, <1>2, <1>4, <1>5 DEF StreamInv

\* A poll reads every row from the cursor to the last of its batch.
LEMMA PollKeeps ==
  ASSUME StreamInv, NEW p \in Polls, Stream!Poll(p)
  PROVE  StreamInv'
<1>1. /\ Stream!FirstAfter(cursor) \subseteq visible
      /\ visible \subseteq Stream!Rows /\ cursor \in Nat
      /\ batch \in [Polls -> (SUBSET Stream!Rows) \cup {Stream!NoBatch}]
  BY DEF StreamInv, Stream!TypeOK, Stream!FirstAfter
<1>2. Stream!TypeOK'
  BY <1>1 DEF StreamInv, Stream!TypeOK, Stream!Poll
<1>3. ASSUME NEW s \in Stream!FirstAfter(cursor), NEW t \in visible \ late,
             t <= Stream!Milli(s)
      PROVE  t \in sent \cup Stream!FirstAfter(cursor)
  <2>1. t > cursor \/ t \in sent
    BY DEF StreamInv, NothingPassed
  <2>2. t <= s
    BY <1>1, <1>3, MilliIsBefore
  <2> QED BY <1>1, <2>1, <2>2, ReadsTheFirst
<1>4. BatchesLeaveNoGap'
  <2> SUFFICES ASSUME NEW i \in Polls, batch'[i] # Stream!NoBatch
               PROVE  /\ batch'[i] \subseteq visible
                      /\ \A s \in batch'[i] : \A t \in visible \ late :
                           t <= Stream!Milli(s) => t \in sent \cup batch'[i]
    BY Zenon DEF BatchesLeaveNoGap, Stream!Poll
  <2>1. CASE i = p
    <3>1. batch'[i] = Stream!FirstAfter(cursor)
      BY <1>1, <2>1 DEF Stream!Poll
    <3> QED BY <1>1, <1>3, <3>1
  <2>2. CASE i # p
    <3>1. batch'[i] = batch[i]
      BY <1>1, <2>2 DEF Stream!Poll
    <3> QED BY <3>1 DEF StreamInv, BatchesLeaveNoGap
  <2> QED BY <2>1, <2>2
<1>5. CursorIsOfARow' /\ NothingPassed'
  BY DEF StreamInv, CursorIsOfARow, NothingPassed, Stream!Poll
<1> QED BY <1>2, <1>4, <1>5 DEF StreamInv

\* What a poll that ends leaves to the others.
LEMMA EndKeeps ==
  ASSUME StreamInv, NEW p \in Polls, Stream!Ends(p), UNCHANGED <<visible, late>>,
         sent \subseteq sent'
  PROVE  BatchesLeaveNoGap' /\ batch' \in [Polls -> (SUBSET Stream!Rows) \cup {Stream!NoBatch}]
<1>1. batch \in [Polls -> (SUBSET Stream!Rows) \cup {Stream!NoBatch}]
  BY DEF StreamInv, Stream!TypeOK
<1>2. batch'[p] = Stream!NoBatch /\ \A i \in Polls \ {p} : batch'[i] = batch[i]
  BY <1>1 DEF Stream!Ends
<1> QED BY <1>1, <1>2 DEF StreamInv, BatchesLeaveNoGap, Stream!Ends

\* What is sent is what the cursor passes.
LEMMA SendKeeps ==
  ASSUME StreamInv, NEW p \in Polls, Stream!Send(p)
  PROVE  StreamInv'
<1> DEFINE read == batch[p]
<1>1. /\ read # Stream!NoBatch /\ read \subseteq visible /\ visible \subseteq Stream!Rows
      /\ \A s \in read : \A t \in visible \ late : t <= Stream!Milli(s) => t \in sent \cup read
  BY DEF StreamInv, Stream!TypeOK, BatchesLeaveNoGap, Stream!Send
<1>2. /\ sent' = sent \cup read /\ Stream!Ends(p)
      /\ cursor' = IF read = {} THEN cursor ELSE Stream!Milli(Stream!Max(read))
      /\ UNCHANGED <<clock, inserting, visible, stopped, late>>
  BY DEF Stream!Send
<1>3. BatchesLeaveNoGap' /\ batch' \in [Polls -> (SUBSET Stream!Rows) \cup {Stream!NoBatch}]
  BY <1>2, EndKeeps
<1> HIDE DEF read
<1>4. CASE read = {}
  <2>1. UNCHANGED <<cursor, sent>>
    BY <1>2, <1>4
  <2>2. CursorIsOfARow' /\ NothingPassed' /\ Stream!TypeOK'
    BY <1>2, <1>3, <2>1 DEF StreamInv, Stream!TypeOK, CursorIsOfARow, NothingPassed
  <2> QED BY <1>3, <2>2 DEF StreamInv
<1>5. CASE read # {}
  <2>1. PICK s \in read : s = Stream!Max(read)
    BY <1>1, <1>5, LastOfRows
  <2>2. cursor' = Stream!Milli(s) /\ cursor' \in 0 .. Horizon /\ s \in visible
    <3>1. s \in visible /\ s \in Stream!Rows
      BY <1>1
    <3>2. cursor' = Stream!Milli(s)
      BY <1>2, <1>5, <2>1
    <3>3. Stream!Milli(s) \in 0 .. s /\ s \in 1 .. Horizon /\ Horizon \in Nat
      BY <3>1, MilliIsBefore, ConsoleAssumption
    <3>4. Stream!Milli(s) \in 0 .. Horizon
      BY <3>3
    <3> QED BY <3>1, <3>2, <3>4
  <2>3. CursorIsOfARow'
    BY <1>2, <2>2 DEF CursorIsOfARow
  <2>4. NothingPassed'
    BY <1>1, <1>2, <2>2, MilliIsBefore DEF NothingPassed
  <2>5. Stream!TypeOK'
    BY <1>1, <1>2, <1>3, <2>2 DEF StreamInv, Stream!TypeOK
  <2> QED BY <1>3, <2>3, <2>4, <2>5 DEF StreamInv
<1> QED BY <1>4, <1>5

\* Every step of the stream keeps its invariant.
LEMMA StreamStays == StreamInv /\ [Stream!Next]_(Stream!vars) => StreamInv'
<1> SUFFICES ASSUME StreamInv, [Stream!Next]_(Stream!vars) PROVE StreamInv'
  OBVIOUS
<1>1. CASE Stream!Tick
  BY <1>1, ConsoleAssumption
  DEF StreamInv, Stream!TypeOK, CursorIsOfARow, BatchesLeaveNoGap, NothingPassed, Stream!Tick,
      Stream!Rows
<1>2. CASE Stream!Stop \/ UNCHANGED Stream!vars
  BY <1>2
  DEF StreamInv, Stream!TypeOK, CursorIsOfARow, BatchesLeaveNoGap, NothingPassed, Stream!Stop,
      Stream!vars
<1>3. ASSUME NEW p \in Polls, Stream!Drop(p) PROVE StreamInv'
  <2>1. BatchesLeaveNoGap' /\ batch' \in [Polls -> (SUBSET Stream!Rows) \cup {Stream!NoBatch}]
    BY <1>3, EndKeeps DEF Stream!Drop
  <2> QED BY <1>3, <2>1
      DEF StreamInv, Stream!TypeOK, CursorIsOfARow, NothingPassed, Stream!Drop
<1> QED BY <1>1, <1>2, <1>3, AppearKeeps, PollKeeps, SendKeeps DEF Stream!Next

\* What the activity stream relies on.
THEOREM StreamInvariant == Spec => []StreamInv
BY PartsBehave, StreamStarts, StreamStays, PTL DEF Stream!Spec

\* The cursor passes a row only if it was sent or came late
\* (events/route.ts 16-36).
THEOREM NothingIsPassed == Spec => []NothingPassed
<1>1. StreamInv => NothingPassed BY DEF StreamInv
<1> QED BY StreamInvariant, <1>1, PTL

-----------------------------------------------------------------------------
(* The route graph. *)

Pcs == {"idle", "asked", "read"}
LoadStates == [pc : Pcs, data : Graph!Snapshots]

\* What the page shows or is about to was so in the database, and a provider
\* that is highlighted has a timer to end it.
GraphInv ==
  /\ Graph!TypeOK
  /\ snapshot.version <= version /\ \A l \in Loads : load[l].data.version <= version
  /\ \A p \in active : timers[p] > 0

\* A load that has read nothing has the version before the first.
LEMMA SnapshotIsSnapshot ==
  ASSUME NEW s \in Scopes
  PROVE  /\ [scope |-> s, version |-> -1] \in Graph!Snapshots
         /\ [scope |-> s, version |-> -1].version = -1
<1>1. -1 \in -1 .. MaxVersion
  BY ConsoleAssumption
<1> QED BY <1>1 DEF Graph!Snapshots

\* A load that waits, and one that is asked.
LEMMA LoadIsLoad ==
  /\ Graph!NoLoad \in LoadStates /\ Graph!NoLoad.data.version = -1
  /\ \A s \in Scopes : Graph!Asked(s) \in LoadStates /\ Graph!Asked(s).data.version = -1
<1>1. Graph!Nothing \in Graph!Snapshots /\ Graph!Nothing.version = -1
  BY SnapshotIsSnapshot, ConsoleAssumption DEF Graph!Nothing
<1>2. Graph!NoLoad \in LoadStates /\ Graph!NoLoad.data.version = -1
  BY <1>1 DEF Graph!NoLoad, LoadStates, Pcs
<1>3. ASSUME NEW s \in Scopes
      PROVE  Graph!Asked(s) \in LoadStates /\ Graph!Asked(s).data.version = -1
  BY SnapshotIsSnapshot DEF Graph!Asked, LoadStates, Pcs
<1> QED BY <1>2, <1>3

\* A load that has read is a load.
LEMMA ReadIsLoad ==
  ASSUME NEW a \in LoadStates, NEW n \in -1 .. MaxVersion
  PROVE  /\ [a EXCEPT !.pc = "read", !.data.version = n] \in LoadStates
         /\ [a EXCEPT !.pc = "read", !.data.version = n].data.version = n
BY DEF LoadStates, Pcs, Graph!Snapshots

\* What the invariant says of the types, for steps that need no more of it.
LEMMA GraphTypes ==
  ASSUME GraphInv
  PROVE  /\ version \in 0 .. MaxVersion /\ scope \in Scopes /\ choices \in 0 .. MaxChoices
         /\ snapshot \in Graph!Snapshots /\ stale \in BOOLEAN /\ active \subseteq Providers
         /\ timers \in [Providers -> 0 .. MaxTimers] /\ load \in [Loads -> LoadStates]
         /\ version \in Int /\ snapshot.version \in Int
         /\ \A l \in Loads : load[l].data \in Graph!Snapshots /\ load[l].data.version \in Int
<1>1. load \in [Loads -> LoadStates]
  BY DEF GraphInv, Graph!TypeOK, LoadStates, Pcs
<1>2. \A d \in Graph!Snapshots : d.version \in Int
  BY ConsoleAssumption DEF Graph!Snapshots
<1>3. \A l \in Loads : load[l].data \in Graph!Snapshots
  BY <1>1 DEF LoadStates
<1>4. version \in Int
  BY ConsoleAssumption DEF GraphInv, Graph!TypeOK
<1> QED BY <1>1, <1>2, <1>3, <1>4 DEF GraphInv, Graph!TypeOK

\* The page begins with the snapshot it was rendered with.
LEMMA GraphStarts == Graph!Init => GraphInv
<1> SUFFICES ASSUME Graph!Init PROVE GraphInv
  OBVIOUS
<1>1. /\ 0 \in 0 .. MaxVersion /\ 0 \in 0 .. MaxChoices /\ 0 \in 0 .. MaxTimers
      /\ FirstScope \in Scopes
  BY ConsoleAssumption
<1>2. snapshot \in Graph!Snapshots /\ snapshot.version = -1
  BY <1>1, SnapshotIsSnapshot DEF Graph!Init, Graph!Nothing
<1>3. load \in [Loads -> LoadStates] /\ \A l \in Loads : load[l].data.version = -1
  BY <1>1, LoadIsLoad DEF Graph!Init
<1>4. Graph!TypeOK
  BY <1>1, <1>2, <1>3 DEF Graph!Init, Graph!TypeOK, LoadStates, Pcs
<1> QED BY <1>2, <1>3, <1>4 DEF Graph!Init, GraphInv

\* A load begins or ends, or reads what the version is: the loads stay so.
LEMMA LoadStays ==
  ASSUME GraphInv, NEW l \in Loads, NEW a \in LoadStates, a.data.version <= version,
         load' = [load EXCEPT ![l] = a], UNCHANGED version
  PROVE  /\ load' \in [Loads -> LoadStates]
         /\ \A i \in Loads : load'[i].data.version <= version'
<1>1. load \in [Loads -> LoadStates]
  BY GraphTypes
<1>2. load'[l] = a /\ \A i \in Loads \ {l} : load'[i] = load[i]
  BY <1>1
<1> QED BY <1>1, <1>2 DEF GraphInv

\* A load that begins has read nothing.
LEMMA BeginStays ==
  ASSUME GraphInv, NEW s \in Scopes, Graph!Begin(s), UNCHANGED version
  PROVE  /\ load' \in [Loads -> LoadStates]
         /\ \A i \in Loads : load'[i].data.version <= version'
<1>1. PICK l \in Loads : load' = [load EXCEPT ![l] = Graph!Asked(s)]
  BY DEF Graph!Begin
<1>2. Graph!Asked(s) \in LoadStates /\ Graph!Asked(s).data.version <= version
  BY LoadIsLoad, GraphTypes, ConsoleAssumption
<1>3. PICK a \in LoadStates : a = Graph!Asked(s)
  BY <1>2
<1> QED BY <1>1, <1>2, <1>3, LoadStays

\* Every step of the graph keeps its invariant.
LEMMA GraphStays == GraphInv /\ [Graph!Next]_(Graph!vars) => GraphInv'
<1> SUFFICES ASSUME GraphInv, [Graph!Next]_(Graph!vars) PROVE GraphInv'
  OBVIOUS
<1> DEFINE LoadsAreRead == /\ load \in [Loads -> LoadStates]
                           /\ \A i \in Loads : load[i].data.version <= version
           Rest == /\ version \in 0 .. MaxVersion /\ scope \in Scopes /\ choices \in 0 .. MaxChoices
                   /\ snapshot \in Graph!Snapshots /\ stale \in BOOLEAN
                   /\ snapshot.version <= version
           Lights == /\ active \subseteq Providers /\ timers \in [Providers -> 0 .. MaxTimers]
                     /\ \A p \in active : timers[p] > 0
<1>1. LoadsAreRead /\ Rest /\ Lights
  BY GraphTypes DEF GraphInv
<1>2. LoadsAreRead' /\ Rest' /\ Lights' => GraphInv'
  BY DEF GraphInv, Graph!TypeOK, LoadStates, Pcs
<1>3. ASSUME Graph!Change PROVE GraphInv'
  <2>1. version' \in 0 .. MaxVersion /\ version' \in Int /\ version <= version'
    BY <1>1, <1>3, ConsoleAssumption DEF Graph!Change
  <2>2. LoadsAreRead' /\ Rest' /\ Lights'
    BY <1>1, <1>3, <2>1, GraphTypes DEF Graph!Change
  <2> QED BY <1>2, <2>2
<1>4. CASE Graph!Reload \/ Graph!Pause
  <2>1. LoadsAreRead'
    BY <1>1, <1>4, BeginStays DEF Graph!Reload, Graph!Pause
  <2>2. Rest' /\ Lights'
    BY <1>1, <1>4 DEF Graph!Reload, Graph!Pause
  <2> QED BY <1>2, <2>1, <2>2
<1>5. ASSUME NEW s \in Scopes, Graph!Choose(s) PROVE GraphInv'
  <2>1. LoadsAreRead'
    BY <1>1, <1>5, BeginStays DEF Graph!Choose
  <2>2. Rest' /\ Lights'
    BY <1>1, <1>5, ConsoleAssumption DEF Graph!Choose
  <2> QED BY <1>2, <2>1, <2>2
<1>6. ASSUME NEW l \in Loads, Graph!Read(l) PROVE GraphInv'
  <2>1. PICK n \in -1 .. MaxVersion : n = version
    BY <1>1, ConsoleAssumption
  <2>2. PICK c \in LoadStates : c = load[l]
    BY <1>1
  <2>3. PICK a : a = [c EXCEPT !.pc = "read", !.data.version = n]
    OBVIOUS
  <2>4. a \in LoadStates /\ a.data.version = n
    BY <2>3, ReadIsLoad, Zenon
  <2>5. load' = [load EXCEPT ![l] = a]
    BY <1>1, <1>6, <2>1, <2>2, <2>3 DEF Graph!Read, LoadStates, Graph!Snapshots
  <2>6. LoadsAreRead'
    BY <1>1, <1>6, <2>1, <2>4, <2>5, LoadStays DEF Graph!Read
  <2>7. Rest' /\ Lights'
    BY <1>1, <1>6 DEF Graph!Read
  <2> QED BY <1>2, <2>6, <2>7
<1>7. ASSUME NEW l \in Loads, Graph!Answer(l) \/ Graph!Fail(l) PROVE GraphInv'
  <2>1. PICK a \in LoadStates : a = Graph!NoLoad /\ a.data.version <= version
    BY LoadIsLoad, GraphTypes, ConsoleAssumption
  <2>2. /\ load' = [load EXCEPT ![l] = a] /\ UNCHANGED <<version, scope, choices, active, timers>>
        /\ snapshot' \in {snapshot, load[l].data} /\ stale' \in BOOLEAN
    BY <1>7, <2>1 DEF Graph!Answer, Graph!Fail
  <2>3. LoadsAreRead'
    BY <1>1, <2>1, <2>2, LoadStays
  <2>4. Rest' /\ Lights'
    BY <1>1, <2>2, GraphTypes
  <2> QED BY <1>2, <2>3, <2>4
<1>8. ASSUME Graph!Event PROVE GraphInv'
  <2>1. LoadsAreRead'
    BY <1>1, <1>8, BeginStays DEF Graph!Event
  <2>2. Lights'
    <3>1. CASE UNCHANGED <<active, timers>>
      BY <1>1, <3>1
    <3>2. ASSUME NEW p \in Providers, timers[p] < MaxTimers, active' = active \cup {p},
                 timers' = [timers EXCEPT ![p] = @ + 1]
          PROVE  Lights'
      BY <1>1, <3>2, ConsoleAssumption
    <3> QED BY <1>8, <3>1, <3>2 DEF Graph!Event
  <2>3. Rest'
    BY <1>1, <1>8 DEF Graph!Event
  <2> QED BY <1>2, <2>1, <2>2, <2>3
<1>9. ASSUME NEW p \in Providers, Graph!EndHighlight(p) PROVE GraphInv'
  <2>1. Lights'
    BY <1>1, <1>9, ConsoleAssumption DEF Graph!EndHighlight
  <2>2. LoadsAreRead' /\ Rest'
    BY <1>1, <1>9 DEF Graph!EndHighlight
  <2> QED BY <1>2, <2>1, <2>2
<1>10. CASE UNCHANGED Graph!vars
  <2>1. LoadsAreRead' /\ Rest' /\ Lights'
    BY <1>1, <1>10 DEF Graph!vars
  <2> QED BY <1>2, <2>1
<1> QED BY <1>3, <1>4, <1>5, <1>6, <1>7, <1>8, <1>9, <1>10 DEF Graph!Next

\* What the route graph relies on.
THEOREM GraphInvariant == Spec => []GraphInv
BY PartsBehave, GraphStarts, GraphStays, PTL DEF Graph!Spec

\* A provider is highlighted only while a timer will end it
\* (route-graph.tsx 33-71).
THEOREM HighlightsAreTimed == Spec => [](\A p \in active : timers[p] > 0)
<1>1. GraphInv => \A p \in active : timers[p] > 0
  BY DEF GraphInv
<1> QED BY GraphInvariant, <1>1, PTL

-----------------------------------------------------------------------------
(* The page of the keys. *)

\* The key that the page still has to hear of as revoked.
Doomed == IF pending = "revoke" /\ call.pc = "done" THEN {call.key} ELSE {}

\* The new key's secret is on the page until its revocation is answered.
SecretIsOfAKey ==
  /\ secret # NoKey => secret \in Access!Active \cup excused \cup Doomed
  /\ pending = "create" =>
       /\ secret = NoKey
       /\ call.pc = "done" => call.key \in Access!Active \cup excused
  /\ pending = "revoke" =>
       /\ call.key \in AllKeys
       /\ call.pc = "done" => apiKeys[call.key] = "revoked"

AccessInv == Access!TypeOK /\ SecretIsOfAKey

Calls == [pc : {"none", "asked", "checked", "done", "refused"}, key : Access!KeysOrNone]

\* A call that goes on is a call of the same key.
LEMMA CallIsCall ==
  ASSUME NEW c \in Calls, NEW pc \in {"none", "asked", "checked", "done", "refused"},
         NEW k \in Access!KeysOrNone
  PROVE  /\ [pc |-> pc, key |-> k] \in Calls
         /\ [c EXCEPT !.pc = pc] \in Calls
         /\ [c EXCEPT !.pc = pc].pc = pc /\ [c EXCEPT !.pc = pc].key = c.key
         /\ [pc |-> pc, key |-> k].pc = pc /\ [pc |-> pc, key |-> k].key = k
         /\ c.key \in Access!KeysOrNone
BY DEF Calls

\* The page begins without a secret and without a call.
LEMMA AccessStarts == Access!Init => AccessInv
<1> SUFFICES ASSUME Access!Init PROVE AccessInv
  OBVIOUS
<1>1. Access!NoCall \in Calls
  BY DEF Access!NoCall, Calls, Access!KeysOrNone
<1>2. Access!TypeOK
  BY <1>1, ConsoleAssumption DEF Access!Init, Access!TypeOK, Access!KeysOrNone, Calls
<1>3. SecretIsOfAKey
  BY DEF Access!Init, SecretIsOfAKey
<1> QED BY <1>2, <1>3 DEF AccessInv

\* A button is pressed.
LEMMA AskKeeps ==
  ASSUME AccessInv, NEW what \in {"create", "test", "health", "revoke"},
         NEW k \in Access!KeysOrNone, Access!Ask(what, k), testStatus' \in {"", testStatus},
         what = "create" => secret = NoKey, what = "revoke" => k \in AllKeys
  PROVE  AccessInv'
<1>1. call' \in Calls /\ call'.pc = "asked" /\ call'.key = k
  BY DEF Access!Ask, Calls
<1>2. Access!TypeOK'
  BY <1>1 DEF AccessInv, Access!TypeOK, Access!Ask, Calls
<1>3. SecretIsOfAKey'
  BY <1>1 DEF AccessInv, SecretIsOfAKey, Doomed, Access!Active, Access!Ask
<1> QED BY <1>2, <1>3 DEF AccessInv

\* The call in flight is a call, of a key or of none.
LEMMA CallOfTheInvariant ==
  ASSUME AccessInv
  PROVE  call \in Calls /\ call.key \in Access!KeysOrNone /\ NoKey \notin AllKeys
BY ConsoleAssumption DEF AccessInv, Access!TypeOK, Calls

\* A route answers, or the answer is lost.
LEMMA InsertKeeps ==
  ASSUME AccessInv, NEW k \in AllKeys, Access!Insert(k)
  PROVE  AccessInv'
<1>1. call' \in Calls /\ call'.pc = "done" /\ call'.key = k
  BY CallIsCall, CallOfTheInvariant DEF Access!Insert, Access!Served, Access!KeysOrNone
<1>2. /\ pending = "create" /\ apiKeys[k] = "absent"
      /\ apiKeys' = [apiKeys EXCEPT ![k] = "active"]
      /\ UNCHANGED <<listed, refreshing, pending, secret, testKey, testStatus, alert, excused>>
  BY DEF Access!Insert, Access!Serve, Access!Served
<1>3. Access!TypeOK'
  BY <1>1, <1>2 DEF AccessInv, Access!TypeOK, Calls
<1>4. k \in Access!Active' /\ Access!Active \subseteq Access!Active'
  BY <1>2 DEF AccessInv, Access!TypeOK, Access!Active
<1>5. SecretIsOfAKey'
  BY <1>1, <1>2, <1>4 DEF AccessInv, SecretIsOfAKey, Doomed
<1> QED BY <1>3, <1>5 DEF AccessInv

\* A key that is deleted is doomed until the page has its answer.
LEMMA DeleteKeeps ==
  ASSUME AccessInv, Access!Delete
  PROVE  AccessInv'
<1>1. PICK pc \in {"done", "refused"} :
        /\ pc = IF call.key \in Access!Active THEN "done" ELSE "refused"
        /\ call' = [pc |-> pc, key |-> call.key]
  BY DEF Access!Delete, Access!Served
<1>2. call' \in Calls /\ call'.pc = pc /\ call'.key = call.key
  BY CallOfTheInvariant, <1>1, CallIsCall
<1>3. /\ pending = "revoke" /\ call.pc = "asked"
      /\ apiKeys' = [apiKeys EXCEPT ![call.key] = "revoked"]
      /\ UNCHANGED <<listed, refreshing, pending, secret, testKey, testStatus, alert, excused>>
  BY DEF Access!Delete, Access!Serve, Access!Served
<1>4. call.key \in AllKeys
  BY <1>3 DEF AccessInv, SecretIsOfAKey
<1>5. Access!TypeOK'
  BY <1>2, <1>3 DEF AccessInv, Access!TypeOK, Calls
<1>6. apiKeys'[call.key] = "revoked" /\ Access!Active' = Access!Active \ {call.key}
  BY <1>3, <1>4 DEF AccessInv, Access!TypeOK, Access!Active
<1>7. secret # NoKey => secret \in Access!Active \cup excused
  BY <1>3 DEF AccessInv, SecretIsOfAKey, Doomed
<1>8. Doomed' = IF call.key \in Access!Active THEN {call.key} ELSE {}
  BY <1>1, <1>2, <1>3 DEF Doomed
<1>9. SecretIsOfAKey'
  BY <1>2, <1>3, <1>4, <1>6, <1>7, <1>8 DEF SecretIsOfAKey
<1> QED BY <1>5, <1>9 DEF AccessInv

\* Tests of keys and of the gateway change no key.
LEMMA ExaminationKeeps ==
  ASSUME AccessInv, Access!CheckKey \/ Access!AskGateway \/ Access!Examine \/ Access!Refuse
  PROVE  AccessInv'
<1>1. PICK pc \in {"checked", "done", "refused"}, k \in Access!KeysOrNone :
        /\ call' = [pc |-> pc, key |-> k]
        /\ pending \in {"create", "revoke"} => pc = "refused" /\ k = call.key
  BY CallOfTheInvariant
  DEF Access!CheckKey, Access!AskGateway, Access!Examine, Access!Refuse, Access!Serve,
      Access!Served, Access!KeysOrNone
<1>2. call' \in Calls /\ call'.pc = pc /\ call'.key = k
  BY <1>1, CallIsCall, CallOfTheInvariant
<1>3. /\ UNCHANGED <<listed, refreshing, pending, secret, testKey, testStatus, alert, excused>>
      /\ UNCHANGED apiKeys /\ call.pc \in {"asked", "checked"}
  BY
  DEF Access!CheckKey, Access!AskGateway, Access!Examine, Access!Refuse, Access!Serve,
      Access!Served
<1>4. Access!TypeOK'
  BY <1>2, <1>3 DEF AccessInv, Access!TypeOK, Calls
<1>5. SecretIsOfAKey'
  BY <1>1, <1>2, <1>3 DEF AccessInv, SecretIsOfAKey, Doomed, Access!Active
<1> QED BY <1>4, <1>5 DEF AccessInv

\* A lost answer leaves what the server did and excuses the page.
LEMMA LossKeeps ==
  ASSUME AccessInv, Access!Lose
  PROVE  AccessInv'
<1>1. call' \in Calls /\ call'.pc = "refused" /\ call'.key = call.key
  BY CallOfTheInvariant, CallIsCall DEF Access!Lose
<1>2. /\ excused' = IF pending = "revoke" THEN excused \cup {call.key} ELSE excused
      /\ call.pc = "done"
      /\ UNCHANGED <<apiKeys, listed, refreshing, pending, secret, testKey, testStatus, alert>>
  BY DEF Access!Lose
<1>3. excused' \subseteq AllKeys
  BY <1>2 DEF AccessInv, Access!TypeOK, SecretIsOfAKey
<1>4. Access!TypeOK'
  BY <1>1, <1>2, <1>3 DEF AccessInv, Access!TypeOK, Calls
<1>5. SecretIsOfAKey'
  BY <1>1, <1>2 DEF AccessInv, SecretIsOfAKey, Doomed, Access!Active
<1> QED BY <1>4, <1>5 DEF AccessInv

\* The page has its answer.
LEMMA AnsweredKeeps ==
  ASSUME AccessInv, Access!Answers
  PROVE  AccessInv'
<1>1. Access!NoCall \in Calls /\ Access!NoCall.pc = "none"
  BY DEF Access!NoCall, Calls, Access!KeysOrNone
<1>2. /\ pending' = "" /\ call' = Access!NoCall
      /\ UNCHANGED <<apiKeys, listed, testKey, excused>>
  BY DEF Access!Answers, Access!Created, Access!Revoked, Access!Tested, Access!Examined,
         Access!Failed, Access!Ends
<1>3. /\ refreshing' \in BOOLEAN /\ alert' \in BOOLEAN
      /\ testStatus' \in {"", "reachable", "failed"}
  BY DEF Access!Answers, Access!Created, Access!Revoked, Access!Tested, Access!Examined,
         Access!Failed, AccessInv, Access!TypeOK
<1>4. CASE Access!Created
  <2>1. pending = "create" /\ call.pc = "done" /\ secret' = call.key
    BY <1>4 DEF Access!Created, Access!Ends
  <2>2. secret' \in Access!Active \cup excused /\ secret' \in Access!KeysOrNone
    BY <2>1 DEF AccessInv, SecretIsOfAKey, Access!TypeOK, Access!Active, Access!KeysOrNone
  <2>3. Access!TypeOK'
    BY <1>1, <1>2, <1>3, <2>2 DEF AccessInv, Access!TypeOK, Calls
  <2>4. SecretIsOfAKey'
    BY <1>2, <2>2 DEF SecretIsOfAKey, Access!Active
  <2> QED BY <2>3, <2>4 DEF AccessInv
<1>5. CASE Access!Revoked
  <2>1. /\ pending = "revoke" /\ call.pc = "done"
        /\ secret' = IF secret = call.key THEN NoKey ELSE secret
    BY <1>5 DEF Access!Revoked, Access!Ends
  <2>2. Access!TypeOK'
    BY <1>1, <1>2, <1>3, <2>1 DEF AccessInv, Access!TypeOK, Calls, Access!KeysOrNone
  <2>3. SecretIsOfAKey'
    BY <1>2, <2>1 DEF AccessInv, SecretIsOfAKey, Doomed, Access!Active
  <2> QED BY <2>2, <2>3 DEF AccessInv
<1>6. CASE Access!Tested \/ Access!Examined \/ Access!Failed
  <2>1. UNCHANGED secret /\ (pending = "revoke" => call.pc = "refused")
    BY <1>6 DEF Access!Tested, Access!Examined, Access!Failed, Access!Ends
  <2>2. Access!TypeOK'
    BY <1>1, <1>2, <1>3, <2>1 DEF AccessInv, Access!TypeOK, Calls
  <2>3. SecretIsOfAKey'
    BY <1>2, <2>1 DEF AccessInv, SecretIsOfAKey, Doomed, Access!Active
  <2> QED BY <2>2, <2>3 DEF AccessInv
<1> QED BY <1>4, <1>5, <1>6 DEF Access!Answers

\* Another page revokes a key.
LEMMA RevokeElsewhereKeeps ==
  ASSUME AccessInv, NEW k \in AllKeys, Access!RevokeElsewhere(k)
  PROVE  AccessInv'
<1>1. /\ apiKeys' = [apiKeys EXCEPT ![k] = "revoked"] /\ excused' = excused \cup {k}
      /\ UNCHANGED <<listed, refreshing, pending, secret, testKey, testStatus, alert, call>>
  BY DEF Access!RevokeElsewhere
<1>2. Access!TypeOK'
  BY <1>1 DEF AccessInv, Access!TypeOK
<1>3. Access!Active' = Access!Active \ {k}
  BY <1>1 DEF AccessInv, Access!TypeOK, Access!Active
<1>4. \A i \in AllKeys : apiKeys[i] = "revoked" => apiKeys'[i] = "revoked"
  BY <1>1 DEF AccessInv, Access!TypeOK
<1>5. SecretIsOfAKey'
  BY <1>1, <1>3, <1>4 DEF AccessInv, SecretIsOfAKey, Doomed
<1> QED BY <1>2, <1>5 DEF AccessInv

\* Another page creates a key.
LEMMA InsertElsewhereKeeps ==
  ASSUME AccessInv, NEW k \in AllKeys, Access!InsertElsewhere(k)
  PROVE  AccessInv'
<1>1. /\ apiKeys[k] = "absent" /\ apiKeys' = [apiKeys EXCEPT ![k] = "active"]
      /\ UNCHANGED <<listed, refreshing, pending, secret, testKey, testStatus, alert, call, excused>>
  BY DEF Access!InsertElsewhere
<1>2. Access!TypeOK'
  BY <1>1 DEF AccessInv, Access!TypeOK
<1>3. Access!Active \subseteq Access!Active'
  BY <1>1 DEF AccessInv, Access!TypeOK, Access!Active
<1>4. \A i \in AllKeys : apiKeys[i] = "revoked" => apiKeys'[i] = "revoked"
  BY <1>1 DEF AccessInv, Access!TypeOK
<1>5. SecretIsOfAKey'
  BY <1>1, <1>3, <1>4 DEF AccessInv, SecretIsOfAKey, Doomed
<1> QED BY <1>2, <1>5 DEF AccessInv

\* Every step of the page of the keys keeps its invariant.
LEMMA AccessStays == AccessInv /\ [Access!Next]_(Access!vars) => AccessInv'
<1> SUFFICES ASSUME AccessInv, [Access!Next]_(Access!vars) PROVE AccessInv'
  OBVIOUS
<1>1. NoKey \in Access!KeysOrNone /\ AllKeys \subseteq Access!KeysOrNone
  BY DEF Access!KeysOrNone
<1>2. CASE Access!Create \/ Access!CheckHealth
  BY <1>1, <1>2, AskKeeps DEF Access!Create, Access!CheckHealth
<1>3. CASE Access!TestRequest
  <2>1. testKey \in Access!KeysOrNone /\ secret \in Access!KeysOrNone
    BY DEF AccessInv, Access!TypeOK
  <2> QED BY <1>3, <2>1, AskKeeps DEF Access!TestRequest
<1>4. ASSUME NEW k \in AllKeys, Access!Revoke(k) PROVE AccessInv'
  BY <1>1, <1>4, AskKeeps DEF Access!Revoke
<1>5. CASE Access!Dismiss \/ Access!Paste \/ Access!Refresh \/ UNCHANGED Access!vars
  <2>1. /\ secret' \in {secret, NoKey}
        /\ UNCHANGED <<apiKeys, pending, testStatus, alert, call, excused>>
    BY <1>5 DEF Access!Dismiss, Access!Paste, Access!Refresh, Access!vars
  <2>2. listed' \subseteq AllKeys /\ refreshing' \in BOOLEAN /\ testKey' \in Access!KeysOrNone
    BY <1>1, <1>5, ConsoleAssumption
    DEF AccessInv, Access!TypeOK, Access!Dismiss, Access!Paste, Access!Refresh, Access!vars,
        Access!Active
  <2>3. Access!TypeOK'
    BY <1>1, <2>1, <2>2 DEF AccessInv, Access!TypeOK
  <2>4. SecretIsOfAKey'
    BY <2>1 DEF AccessInv, SecretIsOfAKey, Doomed, Access!Active
  <2> QED BY <2>3, <2>4 DEF AccessInv
<1>6. CASE Access!Serves \/ Access!Lose
  BY <1>6, InsertKeeps, DeleteKeeps, ExaminationKeeps, LossKeeps DEF Access!Serves
<1> QED BY <1>2, <1>3, <1>4, <1>5, <1>6, AnsweredKeeps, InsertElsewhereKeeps, RevokeElsewhereKeeps
    DEF Access!Next

\* What the page of the keys relies on.
THEOREM AccessInvariant == Spec => []AccessInv
BY PartsBehave, AccessStarts, AccessStays, PTL DEF Access!Spec

\* The secret on the page is of a key that works, but for those revoked
\* behind its back (api-access.tsx 119-136).
THEOREM ShownSecretsAlwaysWork == Spec => []ShownSecretsWork
<1>1. AccessInv => ShownSecretsWork
  BY DEF AccessInv, SecretIsOfAKey, Doomed, ShownSecretsWork
<1> QED BY AccessInvariant, <1>1, PTL

\* The secret of a new key stays until it is dismissed or its key revoked
\* (api-access.tsx 57-80, 236-268).
THEOREM SecretsAlwaysStay == Spec => SecretsStay
<1>1. ASSUME AccessInv, [Next]_vars, secret # NoKey, secret' # secret
      PROVE  secret' = NoKey /\ (Access!Dismiss \/ apiKeys[secret] = "revoked")
  <2>1. Access!Next
    BY <1>1, Zenon DEF Next, vars, accessVars
  <2>2. Access!Dismiss \/ Access!Created \/ Access!Revoked
    BY <1>1, <2>1
    DEF Access!Next, Access!Create, Access!TestRequest, Access!CheckHealth, Access!Ask,
        Access!Paste, Access!Revoke, Access!InsertElsewhere, Access!RevokeElsewhere, Access!Serves,
        Access!Insert, Access!Delete, Access!CheckKey, Access!AskGateway, Access!Examine, Access!Refuse,
        Access!Served, Access!Lose, Access!Answers, Access!Tested, Access!Examined,
        Access!Failed, Access!Refresh
  <2>3. ~ Access!Created
    BY <1>1 DEF AccessInv, SecretIsOfAKey, Access!Created, Access!Ends
  <2>4. Access!Dismiss => secret' = NoKey
    BY DEF Access!Dismiss
  <2>5. Access!Revoked => secret' = NoKey /\ apiKeys[secret] = "revoked"
    BY <1>1 DEF AccessInv, SecretIsOfAKey, Access!Revoked, Access!Ends
  <2> QED BY <2>2, <2>3, <2>4, <2>5
<1>2. AccessInv /\ [Next]_vars =>
        [secret # NoKey /\ secret' # secret =>
           secret' = NoKey /\ (Access!Dismiss \/ apiKeys[secret] = "revoked")]_vars
  BY <1>1
<1> QED BY AccessInvariant, <1>2, PTL DEF Spec, SecretsStay

-----------------------------------------------------------------------------
(* The import of models. *)

\* What is on the list, what is chosen and what is sent were listed with the
\* key that the page shows.
ListedWithTheKey ==
  /\ preview \cup selected \subseteq lastListed[keyId]
  /\ busy # "" => request.key = keyId
  /\ busy = "import" => request.ids \subseteq lastListed[keyId]

ImportInv == Import!TypeOK /\ ListedWithTheKey

\* The fields of a request are as they were put in.
LEMMA RequestIsRequest ==
  ASSUME NEW k \in Keys, NEW ids, ids \subseteq Models
  PROVE  /\ [key |-> k, ids |-> ids] \in [key : Keys, ids : SUBSET Models]
         /\ [key |-> k, ids |-> ids].key = k /\ [key |-> k, ids |-> ids].ids = ids
OBVIOUS

\* The import begins with nothing previewed and nothing chosen.
LEMMA ImportStarts == Import!Init => ImportInv
<1> SUFFICES ASSUME Import!Init PROVE ImportInv
  OBVIOUS
<1>1. request \in [key : Keys, ids : SUBSET Models]
  BY ConsoleAssumption, RequestIsRequest DEF Import!Init
<1>2. Import!TypeOK
  BY <1>1, ConsoleAssumption DEF Import!Init, Import!TypeOK
<1>3. ListedWithTheKey
  BY ConsoleAssumption DEF Import!Init, ListedWithTheKey
<1> QED BY <1>2, <1>3 DEF ImportInv

\* What is asked to be imported is chosen, and what is chosen was previewed.
LEMMA ImportAskKeeps ==
  ASSUME ImportInv, NEW what \in {"preview", "import", "save"}, NEW ids, ids \subseteq Models,
         Import!Ask(what, ids), what = "import" => ids \subseteq selected
  PROVE  ImportInv'
<1>1. /\ request' \in [key : Keys, ids : SUBSET Models]
      /\ request'.key = keyId /\ request'.ids = ids
  BY RequestIsRequest DEF ImportInv, Import!TypeOK, Import!Ask
<1>2. Import!TypeOK'
  BY <1>1 DEF ImportInv, Import!TypeOK, Import!Ask
<1>3. ListedWithTheKey'
  BY <1>1 DEF ImportInv, ListedWithTheKey, Import!Ask
<1> QED BY <1>2, <1>3 DEF ImportInv

\* A preview takes the place of the one before and of what was chosen from it.
LEMMA PreviewedKeeps ==
  ASSUME ImportInv, NEW models \in SUBSET Models, Import!Previewed(models)
  PROVE  ImportInv'
<1>1. request.key = keyId
  BY DEF ImportInv, ListedWithTheKey, Import!Previewed
<1>2. Import!TypeOK'
  BY DEF ImportInv, Import!TypeOK, Import!Previewed
<1>3. lastListed'[keyId] = models
  BY <1>1 DEF ImportInv, Import!TypeOK, Import!Previewed
<1>4. ListedWithTheKey'
  BY <1>3 DEF ListedWithTheKey, Import!Previewed
<1> QED BY <1>2, <1>4 DEF ImportInv

\* Every step of the guided import keeps its invariant.
LEMMA ImportStays == ImportInv /\ [Import!Next]_(Import!vars) => ImportInv'
<1> SUFFICES ASSUME ImportInv, [Import!Next]_(Import!vars) PROVE ImportInv'
  OBVIOUS
<1>1. ASSUME NEW k \in Keys, Import!ChooseKey(k) PROVE ImportInv'
  BY <1>1 DEF ImportInv, Import!TypeOK, ListedWithTheKey, Import!ChooseKey
<1>2. CASE Import!Check
  BY <1>2 DEF ImportInv, Import!TypeOK, ListedWithTheKey, Import!Check
<1>3. CASE Import!Preview \/ Import!Import \/ Import!SaveModel
  <2>1. selected \subseteq Models /\ {} \subseteq Models
    BY DEF ImportInv, Import!TypeOK
  <2> QED BY <1>3, <2>1, ImportAskKeeps DEF Import!Preview, Import!Import, Import!SaveModel
<1>4. CASE Import!Imported \/ Import!Ended \/ UNCHANGED Import!vars
  BY <1>4
  DEF ImportInv, Import!TypeOK, ListedWithTheKey, Import!Imported, Import!Ended, Import!vars
<1> QED BY <1>1, <1>2, <1>3, <1>4, PreviewedKeeps DEF Import!Next, Import!Answers

\* What the import of models relies on.
THEOREM ImportInvariant == Spec => []ImportInv
BY PartsBehave, ImportStarts, ImportStays, PTL DEF Import!Spec

\* What is imported was listed with the same key (provider-models.tsx 176-198,
\* 224-290).
THEOREM ImportsWereAlwaysPreviewed == Spec => []ImportsWerePreviewed
<1>1. ImportInv => ImportsWerePreviewed
  BY DEF ImportInv, ListedWithTheKey, ImportsWerePreviewed
<1> QED BY ImportInvariant, <1>1, PTL

-----------------------------------------------------------------------------
(* The form of a model. *)

\* A field that was not edited shows what the page has read.
FormShowsTheModel == \A f \in Form!Fields \ touched : form[f] = Form!Shown(model)[f]

FormInv == Form!TypeOK /\ FormShowsTheModel

\* What the form shows of settings are settings.
LEMMA ShownIsSettings ==
  ASSUME NEW s \in Form!Settings
  PROVE  Form!Shown(s) \in Form!Settings
BY DEF Form!Shown, Form!Settings, Form!Values

\* The form begins with what the page has.
LEMMA FormStarts == Form!Init => FormInv
<1> SUFFICES ASSUME Form!Init PROVE FormInv
  OBVIOUS
<1>1. overrides \in Form!Settings
  BY DEF Form!Init, Form!Settings, Form!Values
<1>2. Form!TypeOK
  BY <1>1, ShownIsSettings DEF Form!Init, Form!TypeOK
<1>3. FormShowsTheModel
  BY DEF Form!Init, FormShowsTheModel
<1> QED BY <1>2, <1>3 DEF FormInv

\* Every step of the form of a model keeps its invariant.
LEMMA FormStays == FormInv /\ [Form!Next]_(Form!vars) => FormInv'
<1> SUFFICES ASSUME FormInv, [Form!Next]_(Form!vars) PROVE FormInv'
  OBVIOUS
<1>1. /\ overrides \in Form!Settings /\ model \in Form!Settings
      /\ form \in Form!Settings /\ body \in Form!Settings
      /\ saving \in BOOLEAN /\ touched \subseteq Form!Fields
  BY DEF FormInv, Form!TypeOK
<1>2. ASSUME NEW f \in Form!Fields, NEW v \in Form!Values, Form!Edit(f, v) PROVE FormInv'
  <2>1. form' \in Form!Settings
    BY <1>1, <1>2 DEF Form!Edit, Form!Settings
  <2>2. Form!TypeOK'
    BY <1>1, <1>2, <2>1 DEF Form!TypeOK, Form!Edit
  <2>3. FormShowsTheModel'
    BY <1>1, <1>2 DEF FormInv, FormShowsTheModel, Form!Edit, Form!Settings, Form!Shown
  <2> QED BY <2>2, <2>3 DEF FormInv
<1>3. ASSUME NEW f \in Form!Fields, NEW v \in Form!Values, Form!SaveElsewhere(f, v)
      PROVE  FormInv'
  <2>1. overrides' \in Form!Settings
    BY <1>1, <1>3 DEF Form!SaveElsewhere, Form!Settings
  <2> QED BY <1>1, <1>3, <2>1
      DEF FormInv, Form!TypeOK, FormShowsTheModel, Form!SaveElsewhere, Form!Shown
<1>4. CASE Form!Search
  <2>1. Form!TypeOK'
    BY <1>1, <1>4, ShownIsSettings DEF Form!TypeOK, Form!Search, Form!Fill
  <2> QED BY <1>4, <2>1 DEF FormInv, FormShowsTheModel, Form!Search, Form!Fill, Form!Shown
<1>5. CASE Form!Save \/ Form!Saved \/ Form!Failed \/ UNCHANGED Form!vars
  BY <1>5
  DEF FormInv, Form!TypeOK, FormShowsTheModel, Form!Save, Form!Saved, Form!Failed, Form!vars,
      Form!Shown
<1>6. CASE Form!Refresh
  <2>1. CASE model' = model
    BY <1>1, <1>6, <2>1
    DEF FormInv, Form!TypeOK, FormShowsTheModel, Form!Refresh, Form!Shown
  <2>2. CASE model' # model
    <3>1. form' = Form!Shown(overrides) /\ touched' = {} /\ model' = overrides
      BY <1>6, <2>2 DEF Form!Refresh, Form!Fill, Form!Shown
    <3>2. Form!TypeOK'
      BY <1>1, <1>6, <3>1, ShownIsSettings DEF Form!TypeOK, Form!Refresh
    <3>3. FormShowsTheModel'
      BY <3>1 DEF FormShowsTheModel, Form!Shown
    <3> QED BY <3>2, <3>3 DEF FormInv
  <2> QED BY <2>1, <2>2
<1> QED BY <1>2, <1>3, <1>4, <1>5, <1>6 DEF Form!Next

\* What the form of a model relies on.
THEOREM FormInvariant == Spec => []FormInv
BY PartsBehave, FormStarts, FormStays, PTL DEF Form!Spec

-----------------------------------------------------------------------------
(* The form of a provider. *)

\* What was not edited shows what the page was opened with, but for the inputs
\* of a page that came whole from the server, which show what it has read; a
\* secret in the form was typed.
FormShowsThePage ==
  /\ \A f \in Provider!Names \ edited :
       field[f] = IF hydrated /\ f \in Inputs THEN page[f] ELSE opened[f]
  /\ typedSecret => typed

ProviderInv == Provider!TypeOK /\ FormShowsThePage

\* What is sent is what the form holds.
LEMMA PostedIsTheForm ==
  ASSUME NEW settings, NEW s
  PROVE  /\ [settings |-> settings, secret |-> s].settings = settings
         /\ [settings |-> settings, secret |-> s].secret = s
OBVIOUS

\* The form begins with what the page has.
LEMMA ProviderStarts == Provider!Init => ProviderInv
<1> SUFFICES ASSUME Provider!Init PROVE ProviderInv
  OBVIOUS
<1>1. row \in Provider!Rows
  BY ConsoleAssumption DEF Provider!Init, Provider!Rows
<1>2. posted.settings = row /\ posted.secret = FALSE
  BY DEF Provider!Init
<1>3. Provider!TypeOK
  BY <1>1, <1>2 DEF Provider!Init, Provider!TypeOK
<1>4. FormShowsThePage
  BY DEF Provider!Init, FormShowsThePage
<1> QED BY <1>3, <1>4 DEF ProviderInv

\* Every step of the form of a provider keeps its invariant.
LEMMA ProviderStays == ProviderInv /\ [Provider!Next]_(Provider!vars) => ProviderInv'
<1> SUFFICES ASSUME ProviderInv, [Provider!Next]_(Provider!vars) PROVE ProviderInv'
  OBVIOUS
<1>1. /\ row \in Provider!Rows /\ page \in Provider!Rows /\ field \in Provider!Rows
      /\ opened \in Provider!Rows /\ posted.settings \in Provider!Rows
      /\ typedSecret \in BOOLEAN /\ posted.secret \in BOOLEAN /\ typed \in BOOLEAN
      /\ stage \in {"idle", "sent", "written"} /\ edited \subseteq Provider!Names
      /\ hydrated \in BOOLEAN
  BY DEF ProviderInv, Provider!TypeOK
<1>2. ASSUME NEW f \in Provider!Names, NEW v \in Options, Provider!Edit(f, v)
      PROVE  ProviderInv'
  <2>1. field' \in Provider!Rows
    BY <1>1, <1>2 DEF Provider!Edit, Provider!Rows
  <2>2. Provider!TypeOK'
    BY <1>1, <1>2, <2>1 DEF Provider!TypeOK, Provider!Edit
  <2>3. \A g \in Provider!Names \ edited' : field'[g] = field[g] /\ g \notin edited
    BY <1>1, <1>2 DEF Provider!Edit, Provider!Rows
  <2>4. FormShowsThePage'
    BY <1>2, <2>3 DEF ProviderInv, FormShowsThePage, Provider!Edit, Provider!Names
  <2> QED BY <2>2, <2>4 DEF ProviderInv
<1>3. ASSUME NEW f \in Provider!Names, NEW v \in Options, Provider!WriteElsewhere(f, v)
      PROVE  ProviderInv'
  <2>1. row' \in Provider!Rows
    BY <1>1, <1>3 DEF Provider!WriteElsewhere, Provider!Rows
  <2> QED BY <1>1, <1>3, <2>1
      DEF ProviderInv, Provider!TypeOK, FormShowsThePage, Provider!WriteElsewhere
<1>4. ASSUME NEW blank \in BOOLEAN, Provider!TypeSecret(blank) PROVE ProviderInv'
  BY <1>1, <1>4 DEF ProviderInv, Provider!TypeOK, FormShowsThePage, Provider!TypeSecret
<1>5. CASE Provider!Submit
  <2>1. posted'.settings = field /\ posted'.secret = typedSecret
    BY <1>5, PostedIsTheForm DEF Provider!Submit
  <2> QED BY <1>1, <1>5, <2>1
      DEF ProviderInv, Provider!TypeOK, FormShowsThePage, Provider!Submit
<1>6. CASE Provider!Write \/ Provider!Succeeded \/ Provider!Failed \/ UNCHANGED Provider!vars
  <2>1. /\ row' \in {row, posted.settings} /\ stage' \in {"idle", "written", stage}
        /\ \/ UNCHANGED <<typedSecret, typed>>
           \/ typedSecret' = FALSE /\ typed' = FALSE
        /\ UNCHANGED <<page, field, posted, hydrated, opened, edited>>
    BY <1>1, <1>6 DEF Provider!Write, Provider!Succeeded, Provider!Failed, Provider!vars
  <2>2. Provider!TypeOK'
    BY <1>1, <2>1 DEF Provider!TypeOK
  <2>3. FormShowsThePage'
    BY <1>1, <2>1 DEF ProviderInv, FormShowsThePage
  <2> QED BY <2>2, <2>3 DEF ProviderInv
<1>7. CASE Provider!Refresh
  <2>1. field' \in Provider!Rows
    BY <1>1, <1>7 DEF Provider!Refresh, Provider!Rows
  <2>2. Provider!TypeOK'
    BY <1>1, <1>7, <2>1 DEF Provider!TypeOK, Provider!Refresh
  <2>3. \A f \in Provider!Names \ edited :
          field'[f] = IF hydrated /\ f \in Inputs THEN row[f] ELSE field[f]
    BY <1>7 DEF Provider!Refresh
  <2>4. FormShowsThePage'
    BY <1>7, <2>3 DEF ProviderInv, FormShowsThePage, Provider!Refresh
  <2> QED BY <2>2, <2>4 DEF ProviderInv
<1> QED BY <1>2, <1>3, <1>4, <1>5, <1>6, <1>7 DEF Provider!Next

\* What the form of a provider relies on.
THEOREM ProviderInvariant == Spec => []ProviderInv
BY PartsBehave, ProviderStarts, ProviderStays, PTL DEF Provider!Spec

-----------------------------------------------------------------------------
(* The keys of a provider. *)

\* A box that the user has not chosen in shows what the page has read.
BoxesShowTheView ==
  /\ "mode" \notin picked => choice.mode = keyView.mode
  /\ "key" \notin picked => choice.key = keyView.selected \/ dropped

\* What the call in flight has changed and its answer not told.
Unanswered ==
  IF send.pc \in {"done", "failed"} THEN ProviderKeys!Written(send.what) ELSE {}

KeysAreShown ==
  ~awaiting => \A f \in DOMAIN keyRows \ (unseen \cup Unanswered) : keyView[f] = keyRows[f]

\* A call that is asked for.
Asked(c) == c \in ProviderKeys!Sends /\ c.pc = "asked" /\ c.key \in PageKeys /\ c.what # ""

\* A call in flight says what it is for, and so does one that was given up.
CallsAreOfKeys ==
  /\ send # ProviderKeys!NoSend => send.pc # "none" /\ send.key \in PageKeys /\ send.what # ""
  /\ \A c \in strays : Asked(c)

KeysInv == ProviderKeys!TypeOK /\ CallsAreOfKeys /\ BoxesShowTheView /\ KeysAreShown

Choices == [mode : ProviderKeys!Modes, key : PageKeys \cup {NoKey}]

\* NoSend is a send, of nothing.
LEMMA NoSendIsSend == ProviderKeys!NoSend \in ProviderKeys!Sends /\ ProviderKeys!NoSend.pc = "none"
BY DEF ProviderKeys!Sends, ProviderKeys!NoSend, ProviderKeys!Modes

\* A call that is made is one that was asked for.
LEMMA CallIsAsked ==
  ASSUME NEW what \in {"results", "usable", "secret", "selected"}, NEW k \in PageKeys
  PROVE  Asked(ProviderKeys!Call(what, k))
BY DEF Asked, ProviderKeys!Sends, ProviderKeys!NoSend, ProviderKeys!Call, ProviderKeys!Modes

\* So is a call that switches a key on or off.
LEMMA SwitchIsAsked ==
  ASSUME NEW k \in PageKeys, NEW b \in BOOLEAN
  PROVE  Asked([ProviderKeys!Call("usable", k) EXCEPT !.to = b])
BY DEF Asked, ProviderKeys!Sends, ProviderKeys!NoSend, ProviderKeys!Call, ProviderKeys!Modes

\* So is the form of the selection.
LEMMA SelectIsAsked ==
  ASSUME NEW k \in PageKeys, NEW m \in ProviderKeys!Modes
  PROVE  /\ Asked([ProviderKeys!Call("selected", k) EXCEPT !.mode = m])
         /\ [ProviderKeys!Call("selected", k) EXCEPT !.mode = m].mode = m
         /\ [ProviderKeys!Call("selected", k) EXCEPT !.mode = m].key = k
BY DEF Asked, ProviderKeys!Sends, ProviderKeys!NoSend, ProviderKeys!Call, ProviderKeys!Modes

\* The row becomes another, but for the data in `what'.
Only(what, d, e) == e \in ProviderKeys!Data /\ \A f \in DOMAIN d \ what : e[f] = d[f]

\* A result that is written changes the results alone.
LEMMA ResultsChange ==
  ASSUME NEW d \in ProviderKeys!Data, NEW k \in PageKeys, NEW s \in ProviderKeys!Statuses
  PROVE  Only({"results"}, d, [d EXCEPT !.results[k] = s])
BY DEF Only, ProviderKeys!Data

\* A key that is switched changes the usable keys alone.
LEMMA UsableChanges ==
  ASSUME NEW d \in ProviderKeys!Data, NEW u, u \subseteq PageKeys
  PROVE  Only({"usable"}, d, [d EXCEPT !.usable = u])
BY DEF Only, ProviderKeys!Data

\* A selection that is saved changes the selected key and the mode alone.
LEMMA SelectionChanges ==
  ASSUME NEW d \in ProviderKeys!Data, NEW k \in PageKeys, NEW m \in ProviderKeys!Modes
  PROVE  Only({"selected", "mode"}, d, [d EXCEPT !.selected = k, !.mode = m])
BY DEF Only, ProviderKeys!Data

\* The types of the keys' card, one by one.
LEMMA KeysTypes ==
  ASSUME KeysInv
  PROVE  /\ keyRows \in ProviderKeys!Data /\ keyView \in ProviderKeys!Data
         /\ send \in ProviderKeys!Sends /\ choice \in Choices
         /\ awaiting \in BOOLEAN /\ dropped \in BOOLEAN /\ keyWrites \in 0 .. MaxWrites
         /\ DOMAIN keyRows = {"mode", "selected", "usable", "results"}
         /\ unseen \subseteq DOMAIN keyRows /\ picked \subseteq {"mode", "key"}
         /\ DOMAIN choice = {"mode", "key"}
<1>1. choice \in Choices /\ DOMAIN choice = {"mode", "key"}
  BY DEF KeysInv, ProviderKeys!TypeOK, Choices
<1>2. keyRows \in ProviderKeys!Data /\ DOMAIN keyRows = {"mode", "selected", "usable", "results"}
  BY DEF KeysInv, ProviderKeys!TypeOK, ProviderKeys!Data
<1> QED BY <1>1, <1>2 DEF KeysInv, ProviderKeys!TypeOK

\* What each kind of call writes.
LEMMA WrittenIsData ==
  \A what \in {"results", "usable", "secret", "selected"} :
    ProviderKeys!Written(what) =
      IF what = "usable" THEN {"usable"}
      ELSE IF what = "selected" THEN {"selected", "mode"} ELSE {"results"}
BY DEF ProviderKeys!Written

\* The card of the keys begins with what is stored.
LEMMA KeysStart == ProviderKeys!Init => KeysInv
<1> SUFFICES ASSUME ProviderKeys!Init PROVE KeysInv
  OBVIOUS
<1>1. keyRows \in ProviderKeys!Data
  BY ConsoleAssumption
  DEF ProviderKeys!Init, ProviderKeys!Data, ProviderKeys!Modes, ProviderKeys!Statuses
<1>2. choice.mode = keyRows.mode /\ choice.key = keyRows.selected /\ choice \in Choices
  BY <1>1 DEF ProviderKeys!Init, Choices, ProviderKeys!Data
<1>3. 0 \in 0 .. MaxWrites
  BY ConsoleAssumption
<1>4. ProviderKeys!TypeOK
  BY <1>1, <1>2, <1>3, NoSendIsSend DEF ProviderKeys!Init, ProviderKeys!TypeOK, Choices
<1>5. BoxesShowTheView /\ KeysAreShown
  BY <1>2 DEF ProviderKeys!Init, BoxesShowTheView, KeysAreShown
<1>6. CallsAreOfKeys
  BY NoSendIsSend DEF ProviderKeys!Init, CallsAreOfKeys
<1> QED BY <1>4, <1>5, <1>6 DEF KeysInv

\* A call is sent.
LEMMA KeysSendKeeps ==
  ASSUME KeysInv, NEW c, Asked(c), ProviderKeys!Send(c)
  PROVE  KeysInv'
<1>1. /\ send' = c
      /\ UNCHANGED <<keyRows, keyWrites, keyView, awaiting, choice, strays, unseen, picked, dropped>>
  BY DEF ProviderKeys!Send
<1>2. ProviderKeys!TypeOK'
  BY <1>1 DEF KeysInv, ProviderKeys!TypeOK, Asked
<1>3. BoxesShowTheView' /\ CallsAreOfKeys'
  BY <1>1 DEF KeysInv, BoxesShowTheView, CallsAreOfKeys, Asked
<1>4. send.pc = "none"
  BY NoSendIsSend DEF ProviderKeys!Send
<1>5. Unanswered = {} /\ Unanswered' = {}
  BY <1>1, <1>4 DEF Unanswered, Asked
<1>6. KeysAreShown'
  BY <1>1, <1>5 DEF KeysInv, KeysAreShown
<1> QED BY <1>2, <1>3, <1>6 DEF KeysInv

\* The rows become others, but for what is unseen or not yet answered.
LEMMA RowsChangeKeeps ==
  ASSUME KeysInv, NEW what, what \subseteq DOMAIN keyRows, Only(what, keyRows, keyRows'),
         what \subseteq unseen' \cup Unanswered', unseen \subseteq unseen',
         unseen' \subseteq DOMAIN keyRows, Unanswered \subseteq Unanswered',
         send' \in ProviderKeys!Sends, CallsAreOfKeys', keyWrites' \in 0 .. MaxWrites,
         strays' \subseteq strays, UNCHANGED <<keyView, awaiting, choice, picked, dropped>>
  PROVE  KeysInv'
<1>1. DOMAIN keyRows' = DOMAIN keyRows
  BY KeysTypes DEF Only, ProviderKeys!Data
<1>2. ProviderKeys!TypeOK'
  BY <1>1 DEF KeysInv, ProviderKeys!TypeOK, Only
<1>3. BoxesShowTheView'
  BY DEF KeysInv, BoxesShowTheView
<1>4. KeysAreShown'
  BY <1>1 DEF KeysInv, KeysAreShown, Only
<1> QED BY <1>2, <1>3, <1>4 DEF KeysInv

\* A route changes the rows as its call asks.
LEMMA DoneChanges ==
  ASSUME keyRows \in ProviderKeys!Data, NEW c, Asked(c), NEW pc \in {"done", "failed"},
         ProviderKeys!Done(c, pc)
  PROVE  /\ c.what \in {"results", "usable", "secret", "selected"}
         /\ Only(ProviderKeys!Written(c.what), keyRows, keyRows')
<1>1. PICK k \in PageKeys : k = c.key
  BY DEF Asked
<1>2. CASE c.what \in {"results", "secret"}
  <2>1. PICK s \in {"none", "passed", "failed"} : keyRows' = [keyRows EXCEPT !.results[k] = s]
    BY <1>1, <1>2 DEF ProviderKeys!Done
  <2>2. s \in ProviderKeys!Statuses
    BY DEF ProviderKeys!Statuses
  <2>3. Only({"results"}, keyRows, keyRows')
    BY <2>1, <2>2, ResultsChange, Zenon
  <2> QED BY <1>2, <2>3, WrittenIsData
<1>3. CASE c.what = "usable"
  <2>1. PICK u : /\ u = IF c.to THEN keyRows.usable \cup {k} ELSE keyRows.usable \ {k}
                 /\ keyRows' = [keyRows EXCEPT !.usable = u]
    BY <1>1, <1>3 DEF ProviderKeys!Done
  <2>2. u \subseteq PageKeys
    BY <2>1 DEF ProviderKeys!Data
  <2>3. Only({"usable"}, keyRows, keyRows')
    BY <2>1, <2>2, UsableChanges, Zenon
  <2> QED BY <1>3, <2>3, WrittenIsData
<1>4. CASE c.what = "selected"
  <2>1. c.mode \in ProviderKeys!Modes
    BY DEF Asked, ProviderKeys!Sends
  <2>2. keyRows' = [keyRows EXCEPT !.selected = k, !.mode = c.mode]
    BY <1>1, <1>4 DEF ProviderKeys!Done
  <2>3. Only({"selected", "mode"}, keyRows, keyRows')
    BY <2>1, <2>2, SelectionChanges, Zenon
  <2> QED BY <1>4, <2>3, WrittenIsData
<1>5. c.what \in {"results", "usable", "secret", "selected"}
  BY DEF ProviderKeys!Done
<1> QED BY <1>2, <1>3, <1>4, <1>5

\* The call in flight, while the server has it, is one that was asked for.
LEMMA SendIsAsked ==
  ASSUME KeysInv, send.pc = "asked"
  PROVE  Asked(send)
BY KeysTypes, NoSendIsSend DEF KeysInv, CallsAreOfKeys, Asked

\* The server does the call in flight.
LEMMA KeysServeKeeps ==
  ASSUME KeysInv, ProviderKeys!Serve
  PROVE  KeysInv'
<1>1. send \in ProviderKeys!Sends /\ send.pc = "asked" /\ Asked(send)
  BY KeysTypes, SendIsAsked DEF ProviderKeys!Serve
<1>2. PICK pc \in {"done", "failed"} :
        ProviderKeys!Done(send, pc) /\ send' = [send EXCEPT !.pc = pc]
  BY DEF ProviderKeys!Serve
<1>3. /\ keyWrites < MaxWrites /\ keyWrites' = keyWrites + 1
      /\ UNCHANGED <<keyView, awaiting, choice, strays, unseen, picked, dropped>>
  BY DEF ProviderKeys!Serve, ProviderKeys!Counted
<1>4. /\ send' \in ProviderKeys!Sends
      /\ send'.pc = pc /\ send'.what = send.what /\ send'.key = send.key
  BY <1>1, <1>2 DEF ProviderKeys!Sends
<1>5. /\ send.what \in {"results", "usable", "secret", "selected"}
      /\ Only(ProviderKeys!Written(send.what), keyRows, keyRows')
  BY <1>1, <1>2, KeysTypes, DoneChanges
<1>6. Unanswered = {} /\ Unanswered' = ProviderKeys!Written(send.what)
  BY <1>1, <1>4 DEF Unanswered
<1>7. /\ ProviderKeys!Written(send.what) \subseteq DOMAIN keyRows
      /\ unseen \subseteq DOMAIN keyRows /\ keyWrites' \in 0 .. MaxWrites
  BY <1>3, <1>5, KeysTypes, WrittenIsData, ConsoleAssumption
<1>8. CallsAreOfKeys'
  BY <1>1, <1>3, <1>4, <1>5 DEF KeysInv, CallsAreOfKeys, Asked
<1> QED BY <1>3, <1>4, <1>5, <1>6, <1>7, <1>8, RowsChangeKeeps

\* The server does a call that was given up.
LEMMA KeysLateKeeps ==
  ASSUME KeysInv, ProviderKeys!ServeLate
  PROVE  KeysInv'
<1>1. PICK c \in strays, pc \in {"done", "failed"} :
        /\ ProviderKeys!Done(c, pc)
        /\ unseen' = unseen \cup ProviderKeys!Written(c.what)
        /\ strays' = strays \ {c}
  BY DEF ProviderKeys!ServeLate
<1>2. UNCHANGED <<keyWrites, keyView, awaiting, send, choice, picked, dropped>>
  BY DEF ProviderKeys!ServeLate
<1>3. Asked(c)
  BY <1>1 DEF KeysInv, CallsAreOfKeys
<1>4. /\ c.what \in {"results", "usable", "secret", "selected"}
      /\ Only(ProviderKeys!Written(c.what), keyRows, keyRows')
  BY <1>1, <1>3, KeysTypes, DoneChanges
<1>5. /\ ProviderKeys!Written(c.what) \subseteq DOMAIN keyRows
      /\ unseen \subseteq DOMAIN keyRows /\ keyWrites' \in 0 .. MaxWrites
      /\ send' \in ProviderKeys!Sends
  BY <1>2, <1>4, KeysTypes, WrittenIsData
<1>6. Unanswered' = Unanswered /\ CallsAreOfKeys'
  BY <1>1, <1>2 DEF Unanswered, KeysInv, CallsAreOfKeys
<1> QED BY <1>1, <1>2, <1>4, <1>5, <1>6, RowsChangeKeeps

\* Another page changes the rows.
LEMMA KeysElsewhereKeeps ==
  ASSUME KeysInv, ProviderKeys!WriteElsewhere
  PROVE  KeysInv'
<1>1. keyRows \in ProviderKeys!Data
  BY KeysTypes
<1>2. PICK what \in {"results", "usable", "selected"} :
        /\ unseen' = unseen \cup ProviderKeys!Written(what)
        /\ Only(ProviderKeys!Written(what), keyRows, keyRows')
  <2>1. PICK k \in PageKeys :
          \/ \E s \in ProviderKeys!Statuses :
               ProviderKeys!Changes([keyRows EXCEPT !.results[k] = s], "results")
          \/ ProviderKeys!Changes(
               [keyRows EXCEPT !.usable = IF k \in @ THEN @ \ {k} ELSE @ \cup {k}], "usable")
          \/ \E m \in ProviderKeys!Modes :
               ProviderKeys!Changes([keyRows EXCEPT !.selected = k, !.mode = m], "selected")
    BY DEF ProviderKeys!WriteElsewhere
  <2>2. ASSUME NEW s \in ProviderKeys!Statuses,
               ProviderKeys!Changes([keyRows EXCEPT !.results[k] = s], "results")
        PROVE  /\ unseen' = unseen \cup ProviderKeys!Written("results")
               /\ Only(ProviderKeys!Written("results"), keyRows, keyRows')
    <3>1. /\ keyRows' = [keyRows EXCEPT !.results[k] = s]
          /\ unseen' = unseen \cup ProviderKeys!Written("results")
      BY <2>2 DEF ProviderKeys!Changes
    <3>2. Only({"results"}, keyRows, keyRows')
      BY <1>1, <3>1, ResultsChange, Zenon
    <3> QED BY <3>1, <3>2, WrittenIsData
  <2>3. ASSUME ProviderKeys!Changes(
                 [keyRows EXCEPT !.usable = IF k \in @ THEN @ \ {k} ELSE @ \cup {k}], "usable")
        PROVE  /\ unseen' = unseen \cup ProviderKeys!Written("usable")
               /\ Only(ProviderKeys!Written("usable"), keyRows, keyRows')
    <3>1. PICK u : /\ u = IF k \in keyRows.usable THEN keyRows.usable \ {k}
                          ELSE keyRows.usable \cup {k}
                   /\ keyRows' = [keyRows EXCEPT !.usable = u]
                   /\ unseen' = unseen \cup ProviderKeys!Written("usable")
      BY <2>3 DEF ProviderKeys!Changes
    <3>2. u \subseteq PageKeys
      BY <1>1, <3>1 DEF ProviderKeys!Data
    <3>3. Only({"usable"}, keyRows, keyRows')
      BY <1>1, <3>1, <3>2, UsableChanges, Zenon
    <3> QED BY <3>1, <3>3, WrittenIsData
  <2>4. ASSUME NEW m \in ProviderKeys!Modes,
               ProviderKeys!Changes([keyRows EXCEPT !.selected = k, !.mode = m], "selected")
        PROVE  /\ unseen' = unseen \cup ProviderKeys!Written("selected")
               /\ Only(ProviderKeys!Written("selected"), keyRows, keyRows')
    <3>1. /\ keyRows' = [keyRows EXCEPT !.selected = k, !.mode = m]
          /\ unseen' = unseen \cup ProviderKeys!Written("selected")
      BY <2>4 DEF ProviderKeys!Changes
    <3>2. Only({"selected", "mode"}, keyRows, keyRows')
      BY <1>1, <3>1, SelectionChanges, Zenon
    <3> QED BY <3>1, <3>2, WrittenIsData
  <2> QED BY <2>1, <2>2, <2>3, <2>4
<1>3. /\ keyWrites < MaxWrites /\ keyWrites' = keyWrites + 1
      /\ UNCHANGED <<keyView, awaiting, send, choice, strays, picked, dropped>>
  BY DEF ProviderKeys!WriteElsewhere, ProviderKeys!Changes, ProviderKeys!Counted
<1>4. /\ ProviderKeys!Written(what) \subseteq DOMAIN keyRows
      /\ unseen \subseteq DOMAIN keyRows /\ keyWrites' \in 0 .. MaxWrites /\ send' \in ProviderKeys!Sends
  BY <1>3, KeysTypes, WrittenIsData, ConsoleAssumption
<1>5. Unanswered' = Unanswered /\ CallsAreOfKeys'
  BY <1>3 DEF Unanswered, KeysInv, CallsAreOfKeys
<1> QED BY <1>2, <1>3, <1>4, <1>5, RowsChangeKeeps

\* The answer comes, or none does.
LEMMA KeysAnswerKeeps ==
  ASSUME KeysInv, ProviderKeys!Succeeded \/ ProviderKeys!Failed
  PROVE  KeysInv'
<1>1. /\ send' = ProviderKeys!NoSend
      /\ UNCHANGED <<keyRows, keyView, choice, picked, dropped>>
  BY DEF ProviderKeys!Succeeded, ProviderKeys!Failed
<1>2. send' \in ProviderKeys!Sends /\ send'.pc = "none" /\ Unanswered' = {}
  BY <1>1, NoSendIsSend DEF Unanswered
<1>3. /\ keyWrites' \in 0 .. MaxWrites
      /\ \/ UNCHANGED strays
         \/ send.pc = "asked" /\ strays' = strays \cup {send}
  BY KeysTypes, ConsoleAssumption
  DEF ProviderKeys!Succeeded, ProviderKeys!Failed, ProviderKeys!Counted
<1>4. CallsAreOfKeys' /\ strays' \subseteq ProviderKeys!Sends
  BY <1>1, <1>3, SendIsAsked DEF KeysInv, CallsAreOfKeys, Asked
<1>5. /\ awaiting' \in BOOLEAN
      /\ ~awaiting' => ~awaiting /\ unseen \cup Unanswered \subseteq unseen'
      /\ unseen' \subseteq DOMAIN keyRows
  <2>1. CASE ProviderKeys!Succeeded
    BY <2>1, KeysTypes DEF ProviderKeys!Succeeded
  <2>2. CASE ProviderKeys!Failed
    <3>1. /\ UNCHANGED awaiting
          /\ unseen' = IF send.pc = "asked" THEN unseen
                       ELSE unseen \cup ProviderKeys!Written(send.what)
      BY <2>2 DEF ProviderKeys!Failed
    <3>2. send.what \in {"results", "usable", "secret", "selected"} /\ send.pc # "none"
      BY <2>2, KeysTypes DEF KeysInv, CallsAreOfKeys, ProviderKeys!Failed, ProviderKeys!Sends
    <3>3. ProviderKeys!Written(send.what) \subseteq DOMAIN keyRows
      BY <3>2, KeysTypes, WrittenIsData
    <3>4. unseen' = unseen \cup Unanswered
      BY <3>1, <3>2, KeysTypes DEF Unanswered, ProviderKeys!Sends
    <3> QED BY <3>1, <3>3, <3>4, KeysTypes DEF Unanswered
  <2> QED BY <2>1, <2>2
<1>6. ProviderKeys!TypeOK'
  BY <1>1, <1>2, <1>3, <1>4, <1>5 DEF KeysInv, ProviderKeys!TypeOK
<1>7. BoxesShowTheView'
  BY <1>1 DEF KeysInv, BoxesShowTheView
<1>8. KeysAreShown'
  BY <1>1, <1>2, <1>5 DEF KeysInv, KeysAreShown
<1> QED BY <1>4, <1>6, <1>7, <1>8 DEF KeysInv

\* The user chooses in a box.
LEMMA PickKeeps ==
  ASSUME KeysInv, NEW f \in {"mode", "key"}, NEW v, ProviderKeys!Pick(f, v),
         f = "mode" => v \in ProviderKeys!Modes, f = "key" => v \in PageKeys
  PROVE  KeysInv'
<1>1. /\ choice' = [choice EXCEPT ![f] = v] /\ picked' = picked \cup {f}
      /\ UNCHANGED <<keyRows, keyWrites, keyView, awaiting, send, strays, unseen, dropped>>
  BY DEF ProviderKeys!Pick
<1>2. choice \in Choices
  BY KeysTypes
<1>3. CASE f = "mode"
  <2>1. choice' = [choice EXCEPT !.mode = v]
    BY <1>1, <1>3
  <2>2. choice' \in Choices /\ choice'.key = choice.key
    BY <1>2, <1>3, <2>1 DEF Choices
  <2>3. ProviderKeys!TypeOK'
    BY <1>1, <1>3, <2>2, KeysTypes DEF KeysInv, ProviderKeys!TypeOK, Choices
  <2>4. BoxesShowTheView' /\ KeysAreShown' /\ CallsAreOfKeys'
    BY <1>1, <1>3, <2>2 DEF KeysInv, BoxesShowTheView, KeysAreShown, CallsAreOfKeys, Unanswered
  <2> QED BY <2>3, <2>4 DEF KeysInv
<1>4. CASE f = "key"
  <2>1. choice' = [choice EXCEPT !.key = v]
    BY <1>1, <1>4
  <2>2. choice' \in Choices /\ choice'.mode = choice.mode
    BY <1>2, <1>4, <2>1 DEF Choices
  <2>3. ProviderKeys!TypeOK'
    BY <1>1, <1>4, <2>2, KeysTypes DEF KeysInv, ProviderKeys!TypeOK, Choices
  <2>4. BoxesShowTheView' /\ KeysAreShown' /\ CallsAreOfKeys'
    BY <1>1, <1>4, <2>2 DEF KeysInv, BoxesShowTheView, KeysAreShown, CallsAreOfKeys, Unanswered
  <2> QED BY <2>3, <2>4 DEF KeysInv
<1> QED BY <1>3, <1>4

\* The fields of a choice are as they were put in.
LEMMA ChoiceIsChoice ==
  ASSUME NEW m \in ProviderKeys!Modes, NEW k \in PageKeys \cup {NoKey}
  PROVE  /\ [mode |-> m, key |-> k] \in Choices
         /\ [mode |-> m, key |-> k].mode = m /\ [mode |-> m, key |-> k].key = k
BY DEF Choices

\* The page reads its data, and the boxes are made anew where these changed.
LEMMA KeysRefreshKeeps ==
  ASSUME KeysInv, ProviderKeys!Refresh
  PROVE  KeysInv'
<1> DEFINE anew == keyRows.selected # keyView.selected
           wanted == IF anew THEN keyRows.selected ELSE choice.key
<1>1. /\ keyRows \in ProviderKeys!Data /\ keyView \in ProviderKeys!Data /\ choice \in Choices
      /\ picked \subseteq {"mode", "key"} /\ DOMAIN choice = {"mode", "key"}
  BY KeysTypes
<1>2. /\ keyRows.selected \in PageKeys /\ keyRows.mode \in ProviderKeys!Modes
      /\ keyRows.usable \subseteq PageKeys
      /\ choice.mode \in ProviderKeys!Modes /\ choice.key \in PageKeys \cup {NoKey}
  BY <1>1 DEF ProviderKeys!Data, Choices
<1>3. /\ keyView' = keyRows /\ awaiting' = FALSE /\ unseen' = {}
      /\ UNCHANGED <<keyRows, keyWrites, send, strays>>
  BY DEF ProviderKeys!Refresh
<1>4. /\ picked' \subseteq picked
      /\ anew => "key" \notin picked'
      /\ ~anew => ("key" \in picked' <=> "key" \in picked)
      /\ keyRows.mode # keyView.mode => "mode" \notin picked'
      /\ keyRows.mode = keyView.mode => ("mode" \in picked' <=> "mode" \in picked)
  BY <1>3 DEF ProviderKeys!Refresh
<1>5. /\ dropped' \in BOOLEAN
      /\ ~dropped' => wanted \in keyRows.usable /\ ~(dropped /\ ~anew)
  BY <1>3 DEF ProviderKeys!Refresh
<1>6. PICK k, m :
        /\ choice' = [mode |-> m, key |-> k]
        /\ m = IF keyRows.mode = keyView.mode THEN choice.mode ELSE keyRows.mode
        /\ wanted \in keyRows.usable => k = wanted
        /\ k \in keyRows.usable \cup {NoKey}
  BY <1>3 DEF ProviderKeys!Refresh
<1>7. m \in ProviderKeys!Modes /\ k \in PageKeys \cup {NoKey}
  BY <1>2, <1>6
<1>8. choice' \in Choices /\ choice'.mode = m /\ choice'.key = k
  BY <1>6, <1>7, ChoiceIsChoice
<1>9. ProviderKeys!TypeOK'
  <2>1. DOMAIN choice' = {"mode", "key"}
    BY <1>8 DEF Choices
  <2> HIDE DEF anew, wanted
  <2> QED BY <1>1, <1>3, <1>4, <1>5, <1>8, <2>1 DEF KeysInv, ProviderKeys!TypeOK, Choices
<1>10. BoxesShowTheView'
  BY <1>3, <1>4, <1>5, <1>6, <1>8 DEF KeysInv, BoxesShowTheView
<1>11. KeysAreShown' /\ CallsAreOfKeys'
  BY <1>3 DEF KeysInv, KeysAreShown, CallsAreOfKeys
<1> QED BY <1>9, <1>10, <1>11 DEF KeysInv

\* Every step of the card of the keys keeps its invariant.
LEMMA KeysStay == KeysInv /\ [ProviderKeys!Next]_(ProviderKeys!vars) => KeysInv'
<1> SUFFICES ASSUME KeysInv, [ProviderKeys!Next]_(ProviderKeys!vars) PROVE KeysInv'
  OBVIOUS
<1>1. ASSUME NEW k \in PageKeys,
             ProviderKeys!TestKey(k) \/ ProviderKeys!SwitchKey(k) \/ ProviderKeys!EditKey(k)
      PROVE  KeysInv'
  <2>1. CASE ProviderKeys!TestKey(k)
    <3>1. PICK c : c = ProviderKeys!Call("results", k) /\ ProviderKeys!Send(c)
      BY <2>1 DEF ProviderKeys!TestKey
    <3> QED BY <3>1, CallIsAsked, KeysSendKeeps
  <2>2. CASE ProviderKeys!SwitchKey(k)
    <3>1. PICK b \in BOOLEAN :
            ProviderKeys!Send([ProviderKeys!Call("usable", k) EXCEPT !.to = b])
      BY <2>2 DEF ProviderKeys!SwitchKey
    <3>2. Asked([ProviderKeys!Call("usable", k) EXCEPT !.to = b])
      BY SwitchIsAsked
    <3> QED BY <3>1, <3>2, KeysSendKeeps, Zenon
  <2>3. CASE ProviderKeys!EditKey(k)
    <3>1. PICK c : c = ProviderKeys!Call("secret", k) /\ ProviderKeys!Send(c)
      BY <2>3 DEF ProviderKeys!EditKey
    <3> QED BY <3>1, CallIsAsked, KeysSendKeeps
  <2> QED BY <1>1, <2>1, <2>2, <2>3
<1>2. CASE ProviderKeys!SaveSelection
  <2>1. choice.key \in PageKeys /\ choice.mode \in ProviderKeys!Modes
    BY <1>2, KeysTypes DEF ProviderKeys!SaveSelection, Choices
  <2>2. Asked([ProviderKeys!Call("selected", choice.key) EXCEPT !.mode = choice.mode])
    BY <2>1, SelectIsAsked, Zenon
  <2> QED BY <1>2, <2>2, KeysSendKeeps, Zenon DEF ProviderKeys!SaveSelection
<1>3. ASSUME NEW m \in ProviderKeys!Modes, ProviderKeys!Pick("mode", m) PROVE KeysInv'
  BY <1>3, PickKeeps
<1>4. ASSUME NEW k \in keyView.usable, ProviderKeys!Pick("key", k) PROVE KeysInv'
  <2>1. keyView \in ProviderKeys!Data
    BY KeysTypes
  <2>2. keyView.usable \subseteq PageKeys
    BY <2>1 DEF ProviderKeys!Data
  <2>3. k \in PageKeys
    BY <1>4, <2>2
  <2> QED BY <1>4, <2>3, PickKeeps
<1>5. CASE UNCHANGED ProviderKeys!vars
  <2>1. ProviderKeys!TypeOK'
    BY <1>5 DEF KeysInv, ProviderKeys!TypeOK, ProviderKeys!vars
  <2>2. CallsAreOfKeys' /\ BoxesShowTheView'
    BY <1>5 DEF KeysInv, CallsAreOfKeys, BoxesShowTheView, ProviderKeys!vars
  <2>3. KeysAreShown'
    BY <1>5 DEF KeysInv, KeysAreShown, Unanswered, ProviderKeys!vars
  <2> QED BY <2>1, <2>2, <2>3 DEF KeysInv
<1> QED BY <1>1, <1>2, <1>3, <1>4, <1>5, KeysServeKeeps, KeysAnswerKeeps, KeysLateKeeps,
           KeysElsewhereKeeps, KeysRefreshKeeps
    DEF ProviderKeys!Next, ProviderKeys!Answers

\* What the keys' card relies on.
THEOREM KeysInvariant == Spec => []KeysInv
BY PartsBehave, KeysStart, KeysStay, PTL DEF ProviderKeys!Spec

-----------------------------------------------------------------------------
(* The card of a provider. *)

\* No probe that the card shows, or is told of, is later than the stored one.
ProbesAreStored == probe <= stored.run /\ action.run <= stored.run

DataAreShown ==
  ~renewing /\ action.pc # "done" => \A f \in DOMAIN stored \ missed : view[f] = stored[f]

CardInv == Card!TypeOK /\ ProbesAreStored /\ DataAreShown

\* NoAction is an action, of no run.
LEMMA NoActionIsAction ==
  /\ Card!NoAction \in Card!Actions /\ Card!NoAction.pc = "none" /\ Card!NoAction.run = 0
<1>1. 0 \in 0 .. MaxWrites
  BY ConsoleAssumption
<1> QED BY <1>1 DEF Card!NoAction, Card!Actions

\* An action that is asked for has stored no run yet.
LEMMA PressIsAction ==
  ASSUME NEW what \in {"toggle", "test", "probe"}, NEW b \in BOOLEAN
  PROVE  /\ [pc |-> "asked", what |-> what, to |-> b, run |-> 0] \in Card!Actions
         /\ [pc |-> "asked", what |-> what, to |-> b, run |-> 0].pc = "asked"
         /\ [pc |-> "asked", what |-> what, to |-> b, run |-> 0].run = 0
<1>1. 0 \in 0 .. MaxWrites
  BY ConsoleAssumption
<1> QED BY <1>1 DEF Card!Actions

\* An action that is served names the run it stored, if any.
LEMMA ServedIsAction ==
  ASSUME NEW a \in Card!Actions, NEW n \in 0 .. MaxWrites
  PROVE  /\ [a EXCEPT !.pc = "done", !.run = n] \in Card!Actions
         /\ [a EXCEPT !.pc = "done", !.run = n].pc = "done"
         /\ [a EXCEPT !.pc = "done", !.run = n].run = n
BY DEF Card!Actions

\* The types of the card, one by one.
LEMMA CardTypes ==
  ASSUME Card!TypeOK
  PROVE  /\ stored \in Card!Data /\ view \in Card!Data /\ action \in Card!Actions
         /\ stored.run \in Nat /\ probe \in Nat /\ action.run \in Nat /\ writes \in Nat
         /\ stored.enabled \in BOOLEAN /\ view.enabled \in BOOLEAN
         /\ writes \in 0 .. MaxWrites /\ probe \in 0 .. MaxWrites /\ stored.run \in 0 .. MaxWrites
         /\ action.run \in 0 .. MaxWrites /\ renewing \in BOOLEAN
         /\ DOMAIN stored = {"enabled", "tested", "run"} /\ missed \subseteq DOMAIN stored
<1>1. stored \in Card!Data /\ view \in Card!Data /\ action \in Card!Actions
  BY DEF Card!TypeOK
<1>2. MaxWrites \in Nat
  BY ConsoleAssumption
<1>3. /\ stored.run \in 0 .. MaxWrites /\ stored.enabled \in BOOLEAN /\ view.enabled \in BOOLEAN
      /\ DOMAIN stored = {"enabled", "tested", "run"}
  BY <1>1 DEF Card!Data
<1>4. action.run \in 0 .. MaxWrites
  BY <1>1 DEF Card!Actions
<1> QED BY <1>1, <1>2, <1>3, <1>4 DEF Card!TypeOK

\* A provider's card begins with what is stored.
LEMMA CardStarts == Card!Init => CardInv
<1> SUFFICES ASSUME Card!Init PROVE CardInv
  OBVIOUS
<1>1. 0 \in 0 .. MaxWrites
  BY ConsoleAssumption
<1>2. stored \in Card!Data /\ stored.run = 0
  BY <1>1 DEF Card!Init, Card!Data
<1>3. Card!TypeOK
  BY <1>1, <1>2, NoActionIsAction DEF Card!Init, Card!TypeOK
<1>4. ProbesAreStored /\ DataAreShown
  BY <1>2, NoActionIsAction DEF Card!Init, ProbesAreStored, DataAreShown
<1> QED BY <1>3, <1>4 DEF CardInv

\* The provider becomes another, but for the datum `what', and no probe of it
\* is lost.
Alters(what, d, e) ==
  /\ e \in Card!Data
  /\ \A f \in DOMAIN d \ {what} : e[f] = d[f]
  /\ e.run \in d.run .. d.run + 1

\* A toggle alters the enabled flag alone.
LEMMA EnabledAlters ==
  ASSUME NEW d \in Card!Data, NEW b \in BOOLEAN
  PROVE  Alters("enabled", d, [d EXCEPT !.enabled = b])
<1>1. MaxWrites \in Nat /\ d.run \in 0 .. MaxWrites
  BY ConsoleAssumption DEF Card!Data
<1>2. d.run \in d.run .. d.run + 1
  BY <1>1
<1> QED BY <1>2 DEF Alters, Card!Data

\* A test alters its result alone.
LEMMA TestedAlters ==
  ASSUME NEW d \in Card!Data, NEW s \in {"passed", "failed"}
  PROVE  Alters("tested", d, [d EXCEPT !.tested = s])
<1>1. MaxWrites \in Nat /\ d.run \in 0 .. MaxWrites
  BY ConsoleAssumption DEF Card!Data
<1>2. d.run \in d.run .. d.run + 1
  BY <1>1
<1> QED BY <1>2 DEF Alters, Card!Data

\* A probe alters the latest run alone.
LEMMA RunAlters ==
  ASSUME NEW d \in Card!Data, d.run < MaxWrites
  PROVE  Alters("run", d, [d EXCEPT !.run = @ + 1])
<1>1. MaxWrites \in Nat /\ d.run \in 0 .. MaxWrites
  BY ConsoleAssumption DEF Card!Data
<1>2. PICK n \in 0 .. MaxWrites : n = d.run + 1
  BY <1>1
<1>3. n \in d.run .. d.run + 1
  BY <1>1, <1>2
<1>4. Alters("run", d, [d EXCEPT !.run = n])
  BY <1>3 DEF Alters, Card!Data
<1> QED BY <1>2, <1>4

\* The provider becomes another, but for what is missed or not yet answered.
LEMMA AlteredKeeps ==
  ASSUME CardInv, NEW what \in {"enabled", "tested", "run"}, Alters(what, stored, stored'),
         writes' \in 0 .. MaxWrites, adrift' \subseteq adrift,
         \/ missed' = missed \cup {what} /\ action' = action
         \/ missed' = missed /\ action' \in Card!Actions /\ action'.pc = "done"
             /\ action'.run = stored'.run,
         UNCHANGED <<view, renewing, probe>>
  PROVE  CardInv'
<1>1. stored' \in Card!Data /\ DOMAIN stored' = DOMAIN stored /\ stored'.run \in 0 .. MaxWrites
  BY CardTypes DEF CardInv, Alters, Card!Data
<1>2. action' \in Card!Actions
  BY CardTypes DEF CardInv
<1>3. missed' \subseteq DOMAIN stored'
  BY <1>1, CardTypes DEF CardInv
<1>4. Card!TypeOK'
  BY <1>1, <1>2, <1>3 DEF CardInv, Card!TypeOK
<1>5. ProbesAreStored'
  <2>1. stored'.run \in stored.run .. stored.run + 1
    BY DEF Alters
  <2>2. action'.run = action.run \/ action'.run = stored'.run
    OBVIOUS
  <2> QED BY <1>1, <2>1, <2>2, CardTypes DEF CardInv, ProbesAreStored
<1>6. DataAreShown'
  BY <1>1 DEF CardInv, DataAreShown, Alters
<1> QED BY <1>4, <1>5, <1>6 DEF CardInv

\* What a route does alters one datum.
LEMMA DoneAlters ==
  ASSUME stored \in Card!Data, NEW what \in {"toggle", "test", "probe"}, NEW to \in BOOLEAN,
         Card!Done(what, to)
  PROVE  /\ Card!Datum(what) \in {"enabled", "tested", "run"}
         /\ Alters(Card!Datum(what), stored, stored')
<1>1. CASE what = "toggle"
  <2>1. stored' = [stored EXCEPT !.enabled = to]
    BY <1>1 DEF Card!Done
  <2>2. Alters("enabled", stored, stored')
    BY <2>1, EnabledAlters, Zenon
  <2> QED BY <1>1, <2>2 DEF Card!Datum
<1>2. CASE what = "test"
  <2>1. PICK s \in {"passed", "failed"} : stored' = [stored EXCEPT !.tested = s]
    BY <1>2 DEF Card!Done
  <2>2. Alters("tested", stored, stored')
    BY <2>1, TestedAlters, Zenon
  <2> QED BY <1>2, <2>2 DEF Card!Datum
<1>3. CASE what = "probe"
  <2>1. stored.run < MaxWrites /\ stored' = [stored EXCEPT !.run = @ + 1]
    BY <1>3 DEF Card!Done
  <2>2. Alters("run", stored, stored')
    BY <2>1, RunAlters, Zenon
  <2> QED BY <1>3, <2>2 DEF Card!Datum
<1> QED BY <1>1, <1>2, <1>3

\* Another call is counted only below the bound.
LEMMA CardCounts ==
  ASSUME CardInv, Card!Counted
  PROVE  writes' \in 0 .. MaxWrites
BY CardTypes, ConsoleAssumption DEF CardInv, Card!Counted

\* What the server does for the card is shown once the answer is there.
LEMMA CardServeKeeps ==
  ASSUME CardInv, Card!Serve
  PROVE  CardInv'
<1>1. /\ stored \in Card!Data /\ action \in Card!Actions /\ writes' \in 0 .. MaxWrites
      /\ Card!Done(action.what, action.to)
      /\ UNCHANGED <<view, renewing, probe, adrift, missed>>
  BY CardTypes, CardCounts DEF CardInv, Card!Serve
<1>2. action.what \in {"toggle", "test", "probe"} /\ action.to \in BOOLEAN
  BY <1>1 DEF Card!Actions
<1>3. PICK datum \in {"enabled", "tested", "run"} : Alters(datum, stored, stored')
  BY <1>1, <1>2, DoneAlters
<1>4. PICK n \in 0 .. MaxWrites : n = stored'.run
  BY <1>3 DEF Alters, Card!Data
<1>5. action' = [action EXCEPT !.pc = "done", !.run = n]
  BY <1>4 DEF Card!Serve
<1>6. action' \in Card!Actions /\ action'.pc = "done" /\ action'.run = stored'.run
  BY <1>1, <1>4, <1>5, ServedIsAction, Zenon
<1> QED BY <1>1, <1>3, <1>6, AlteredKeeps

\* What the server does late, or for others, is excused until the data are
\* read anew.
LEMMA CardElsewhereKeeps ==
  ASSUME CardInv, Card!ServeLate \/ Card!WriteElsewhere
  PROVE  CardInv'
<1>1. PICK what \in {"toggle", "test", "probe"}, to \in BOOLEAN :
        Card!Done(what, to) /\ missed' = missed \cup {Card!Datum(what)}
  <2>1. CASE Card!ServeLate
    <3>1. PICK c \in adrift : Card!Done(c.what, c.to) /\ missed' = missed \cup {Card!Datum(c.what)}
      BY <2>1 DEF Card!ServeLate
    <3>2. c.what \in {"toggle", "test", "probe"} /\ c.to \in BOOLEAN
      BY <3>1 DEF CardInv, Card!TypeOK, Card!Actions
    <3> QED BY <3>1, <3>2
  <2>2. CASE Card!WriteElsewhere
    BY <2>2 DEF Card!WriteElsewhere
  <2> QED BY <2>1, <2>2
<1>2. PICK datum \in {"enabled", "tested", "run"} :
        Alters(datum, stored, stored') /\ missed' = missed \cup {datum}
  BY <1>1, CardTypes, DoneAlters DEF CardInv
<1>3. /\ writes' \in 0 .. MaxWrites /\ adrift' \subseteq adrift
      /\ UNCHANGED <<view, renewing, action, probe>>
  BY CardTypes, CardCounts DEF CardInv, Card!ServeLate, Card!WriteElsewhere
<1> QED BY <1>2, <1>3, AlteredKeeps

\* Every step of a provider's card keeps its invariant.
LEMMA CardStays == CardInv /\ [Card!Next]_(Card!vars) => CardInv'
<1> SUFFICES ASSUME CardInv, [Card!Next]_(Card!vars) PROVE CardInv'
  OBVIOUS
<1>1. ASSUME NEW what \in {"toggle", "test", "probe"}, Card!Press(what) PROVE CardInv'
  <2>1. PICK b \in BOOLEAN : action' = [pc |-> "asked", what |-> what, to |-> b, run |-> 0]
    BY <1>1, CardTypes DEF CardInv, Card!Press
  <2>2. action' \in Card!Actions /\ action'.pc = "asked" /\ action'.run = 0
    BY <2>1, PressIsAction
  <2>3. action.pc = "none" /\ UNCHANGED <<stored, writes, view, renewing, probe, adrift, missed>>
    BY <1>1, NoActionIsAction DEF Card!Press
  <2>4. Card!TypeOK'
    BY <2>2, <2>3 DEF CardInv, Card!TypeOK
  <2>5. ProbesAreStored' /\ DataAreShown'
    BY <2>2, <2>3, CardTypes DEF CardInv, ProbesAreStored, DataAreShown
  <2> QED BY <2>4, <2>5 DEF CardInv
<1>2. CASE Card!Succeeded \/ Card!Failed \/ Card!Saved
  <2>1. /\ renewing' = TRUE /\ UNCHANGED <<stored, view, missed>>
        /\ action' \in {action, Card!NoAction} /\ probe' \in {probe, action.run, 0}
        /\ UNCHANGED writes \/ Card!Counted
        /\ adrift' \subseteq adrift \cup {action}
    BY <1>2 DEF Card!Succeeded, Card!Failed, Card!Saved
  <2>2. writes' \in 0 .. MaxWrites /\ adrift' \subseteq Card!Actions
    BY <2>1, CardTypes, CardCounts DEF CardInv, Card!TypeOK
  <2>3. action' \in Card!Actions /\ probe' \in 0 .. MaxWrites /\ 0 \in 0 .. MaxWrites
    BY <2>1, NoActionIsAction, CardTypes, ConsoleAssumption DEF CardInv
  <2>4. Card!TypeOK'
    BY <2>1, <2>2, <2>3 DEF CardInv, Card!TypeOK
  <2>5. ProbesAreStored' /\ DataAreShown'
    BY <2>1, NoActionIsAction, CardTypes DEF CardInv, ProbesAreStored, DataAreShown
  <2> QED BY <2>4, <2>5 DEF CardInv
<1>3. CASE Card!Refresh
  BY <1>3 DEF CardInv, Card!TypeOK, ProbesAreStored, DataAreShown, Card!Refresh
<1>4. CASE UNCHANGED Card!vars
  BY <1>4 DEF CardInv, Card!TypeOK, ProbesAreStored, DataAreShown, Card!vars
<1> QED BY <1>1, <1>2, <1>3, <1>4, CardServeKeeps, CardElsewhereKeeps DEF Card!Next, Card!Answers

\* What the card of a provider relies on.
THEOREM CardInvariant == Spec => []CardInv
BY PartsBehave, CardStarts, CardStays, PTL DEF Card!Spec

-----------------------------------------------------------------------------
(* What the pages show and send. *)

\* Cards at rest show what is stored, but for what was changed since by other
\* pages, and by calls that failed for the page and not for the server
\* (connection-card.tsx 43-98, provider-keys.tsx 27-47).
THEOREM CardsAlwaysShowWhatIsStored == Spec => []CardsShowWhatIsStored
<1>1. CardInv /\ KeysInv => CardsShowWhatIsStored
  <2> SUFFICES ASSUME CardInv, KeysInv PROVE CardsShowWhatIsStored
    OBVIOUS
  <2>1. action.pc = "none" /\ ~renewing =>
          probe <= stored.run /\ \A f \in DOMAIN stored \ missed : view[f] = stored[f]
    BY DEF CardInv, ProbesAreStored, DataAreShown
  <2>2. send.pc = "none" => Unanswered = {}
    BY DEF Unanswered
  <2>3. send.pc = "none" /\ ~awaiting =>
          \A f \in DOMAIN keyRows \ unseen : keyView[f] = keyRows[f]
    BY <2>2 DEF KeysInv, KeysAreShown
  <2> QED BY <2>1, <2>3 DEF CardsShowWhatIsStored
<1> QED BY CardInvariant, KeysInvariant, <1>1, PTL

\* A form sends what the page has read for what was not edited, or else, with
\* a provider's, what the page was opened with (provider-models.tsx 22-58,
\* connection-form.tsx 26-64, provider-keys.tsx 59-106).
THEOREM SavesAlwaysKeepTheRest == Spec => SavesKeepTheRest
<1> DEFINE Saved == Form!Save => \A f \in Form!Fields \ touched :
                      body'[f] # model[f] => f \in Numbers /\ model[f] = "null"
           Submitted == Provider!Submit =>
             /\ \A f \in Provider!Names \ edited :
                  posted'.settings[f] # page[f] =>
                    (f \in Boxes \/ ~hydrated) /\ posted'.settings[f] = opened[f]
             /\ posted'.secret => typed
           Selected == ProviderKeys!SaveSelection =>
             /\ send'.mode # keyView.mode => "mode" \in picked
             /\ send'.key # keyView.selected => "key" \in picked \/ dropped
<1>1. FormInv => Saved
  BY DEF FormInv, FormShowsTheModel, Form!Save, Form!Shown
<1>2. ProviderInv => Submitted
  <2> SUFFICES ASSUME ProviderInv, Provider!Submit PROVE Submitted
    OBVIOUS
  <2>1. posted'.settings = field /\ posted'.secret = typedSecret
    BY PostedIsTheForm DEF Provider!Submit
  <2> QED BY <2>1 DEF ProviderInv, FormShowsThePage, Provider!Names
<1>3. KeysInv => Selected
  <2> SUFFICES ASSUME KeysInv, ProviderKeys!SaveSelection PROVE Selected
    OBVIOUS
  <2>1. choice.key \in PageKeys /\ choice.mode \in ProviderKeys!Modes
    BY KeysTypes DEF ProviderKeys!SaveSelection, Choices
  <2>2. send' = [ProviderKeys!Call("selected", choice.key) EXCEPT !.mode = choice.mode]
    BY DEF ProviderKeys!SaveSelection, ProviderKeys!Send
  <2>3. send'.mode = choice.mode /\ send'.key = choice.key
    BY <2>1, <2>2, SelectIsAsked, Zenon
  <2> QED BY <2>3 DEF KeysInv, BoxesShowTheView
<1>4. FormInv => [Saved]_vars
  BY <1>1
<1>5. ProviderInv => [Submitted]_vars
  BY <1>2
<1>6. KeysInv => [Selected]_vars
  BY <1>3
<1> QED BY FormInvariant, ProviderInvariant, KeysInvariant, <1>4, <1>5, <1>6, PTL
    DEF SavesKeepTheRest

\* The part that is open stays open.
Open ==
  part \in {"stream", "graph", "access", "import", "form", "provider", "card", "keys"}

\* The part that is open stays open.
LEMMA PartStays == Spec => []Open
<1>1. Init => Open
  BY DEF Init, Open
<1>2. Open /\ [Next]_vars => Open'
  BY DEF Open, Next, vars
<1> QED BY <1>1, <1>2, PTL DEF Spec

\* Every variable of the console keeps its type.
THEOREM ConsoleTypes == Spec => []TypeOK
<1>1. /\ StreamInv => Stream!TypeOK
      /\ GraphInv => Graph!TypeOK
      /\ AccessInv => Access!TypeOK
      /\ ImportInv => Import!TypeOK
      /\ FormInv => Form!TypeOK
      /\ ProviderInv => Provider!TypeOK
      /\ CardInv => Card!TypeOK
      /\ KeysInv => ProviderKeys!TypeOK
  BY DEF StreamInv, GraphInv, AccessInv, ImportInv, FormInv, ProviderInv, CardInv, KeysInv
<1> QED BY StreamInvariant, GraphInvariant, AccessInvariant, ImportInvariant, FormInvariant,
           ProviderInvariant, CardInvariant, KeysInvariant, PartStays, <1>1, PTL DEF TypeOK, Open

=============================================================================
