--------------------------- MODULE ActivityStream ---------------------------
(***************************************************************************)
(* The stream of a user's request activity (apps/web/app/api/route-graph/  *)
(* events/route.ts): every second it asks the database for the request     *)
(* logs after its cursor, sends them and moves the cursor to the last one. *)
(*                                                                         *)
(* A log row is named by the tick of its created_at, in microseconds.  The *)
(* cursor is a JavaScript Date and has milliseconds only.  A row is seen   *)
(* some time after the moment it bears, and a poll that takes longer than  *)
(* a second meets the next one.                                            *)
(***************************************************************************)
EXTENDS Integers, FiniteSets, FiniteSetsExt

CONSTANTS
  Polls,          \* polls that may be waiting for the database at once
  TicksPerMs,
  Limit,          \* rows a poll reads at most, 50 in the code
  Horizon         \* bound on the clock

VARIABLES
  clock,
  inserting,      \* rows that have their created_at and are not visible yet
  visible,        \* rows that are
  cursor,
  stopped,
  batch,          \* poll -> the rows it has read and not sent, or NoBatch
  \* history
  sent,
  late            \* rows that a row of a later millisecond was visible before

vars == <<clock, inserting, visible, cursor, stopped, batch, sent, late>>

NoBatch == {-1}
Rows == 1 .. Horizon

TypeOK ==
  /\ clock \in 0 .. Horizon
  /\ inserting \subseteq Rows /\ visible \subseteq Rows
  /\ cursor \in 0 .. Horizon
  /\ stopped \in BOOLEAN
  /\ batch \in [Polls -> (SUBSET Rows) \cup {NoBatch}]
  /\ sent \subseteq visible /\ late \subseteq visible

Init ==
  /\ clock = 0
  /\ inserting = {} /\ visible = {}
  /\ cursor = 0
  /\ stopped = FALSE
  /\ batch = [p \in Polls |-> NoBatch]
  /\ sent = {} /\ late = {}

\* The Date of a row.
Milli(t) == t - (t % TicksPerMs)

\* A row may be inserted at any tick.
Tick ==
  /\ clock < Horizon
  /\ clock' = clock + 1
  /\ inserting' \in {inserting, inserting \cup {clock'}}
  /\ UNCHANGED <<visible, cursor, stopped, batch, sent, late>>

Appear(t) ==
  /\ t \in inserting
  /\ inserting' = inserting \ {t}
  /\ visible' = visible \cup {t}
  /\ late' = IF \E s \in visible : Milli(s) >= t THEN late \cup {t} ELSE late
  /\ UNCHANGED <<clock, cursor, stopped, batch, sent>>

-----------------------------------------------------------------------------

NewestAfter(moment) ==   \* a mutant: ORDER BY created_at DESC
  {t \in visible : t > moment /\ Cardinality({s \in visible : s > t}) < Limit}

\* WHERE created_at > moment ORDER BY created_at LIMIT 50
FirstAfter(moment) ==
  {t \in visible : t > moment /\ Cardinality({s \in visible : moment < s /\ s < t}) < Limit}

\* The interval's callback, up to the answer of its query.
Poll(p) ==
  /\ ~stopped
  /\ batch[p] = NoBatch
  /\ batch' = [batch EXCEPT ![p] = FirstAfter(cursor)]
  /\ UNCHANGED <<clock, inserting, visible, cursor, stopped, sent, late>>

Ends(p) == batch' = [batch EXCEPT ![p] = NoBatch]

\* The rows are sent in order; none is a heartbeat.
Send(p) ==
  /\ ~stopped
  /\ batch[p] # NoBatch
  /\ sent' = sent \cup batch[p]
  /\ cursor' = IF batch[p] = {} THEN cursor ELSE Milli(Max(batch[p]))
  /\ Ends(p)
  /\ UNCHANGED <<clock, inserting, visible, stopped, late>>

\* The query fails ("event: stale"), or its answer comes when the stream is
\* closed: enqueue throws.
Drop(p) ==
  /\ batch[p] # NoBatch
  /\ Ends(p)
  /\ UNCHANGED <<clock, inserting, visible, cursor, stopped, sent, late>>

\* The client goes away: abort and cancel.
Stop ==
  /\ ~stopped
  /\ stopped' = TRUE
  /\ UNCHANGED <<clock, inserting, visible, cursor, batch, sent, late>>

Next ==
  \/ Tick \/ Stop
  \/ \E t \in Rows : Appear(t)
  \/ \E p \in Polls : Poll(p) \/ Send(p) \/ Drop(p)

Spec == Init /\ [][Next]_vars

=============================================================================
