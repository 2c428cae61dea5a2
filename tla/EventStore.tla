------------------------------ MODULE EventStore ------------------------------
(***************************************************************************)
(* SQLiteEventStore: the command worker of StoreWorker over the events     *)
(* table of EventTable, with crashes of the process and reopening.         *)
(*                                                                         *)
(* The table survives a crash; everything else is the memory of one        *)
(* process.  Every opening gets a fresh continuation epoch.  One opening   *)
(* at a time uses the file.                                                *)
(***************************************************************************)
EXTENDS EventTable

CONSTANTS
  Callers, Closers, NoCaller, QueueCapacity,
  Calls,              \* the commands that callers give
  MaxEpoch            \* bound: how often the store is opened

ASSUME CallsAssumption == Calls \subseteq StoreCommands
ASSUME CallersAssumption ==
  NoCaller \notin Callers /\ Callers \cap Closers = {}

VARIABLES
  table,              \* the events table
  epoch,              \* continuation_epoch of this opening
  seen,               \* history: what callers were told is stored, by epoch
  held, closed, sender, join, queue, thread, pc, cmd, answer, closing

\* At most one row per EventId.
MaxRows == Cardinality(EventIds)
StoreAnswers ==
  [tag: {"ok"},
   rows: UNION {[S -> Events] : S \in SUBSET (0 .. MaxRows - 1)},
   token: Optional([epoch: 1 .. MaxEpoch, position: 0 .. MaxRows])]
    \cup {EventConflict, InvalidCheckpoint, InvalidCursor, BackendFailure}

INSTANCE StoreWorker WITH
  Commands <- Calls, Answers <- StoreAnswers

vars == <<table, epoch, seen, workerVars>>

Init ==
  /\ table = NoRows
  /\ epoch = 1
  /\ seen = {}
  /\ WorkerInit

-----------------------------------------------------------------------------
Dispatch(c) ==
  /\ (\E command \in Calls : Call(c, command))
       \/ CheckClosed(c) \/ CloneSender(c) \/ TrySend(c) \/ Cancel(c)
  /\ UNCHANGED <<table, epoch, seen>>

\* Mutant: a failing commit goes unnoticed.
ExecuteUnchecked ==
  /\ Take(AnswerTo(table, Head(queue).command, epoch))
  /\ table' \in {table, EffectOf(table, Head(queue).command)}
  /\ UNCHANGED <<epoch, seen>>

\* The worker executes the command at the head in one transaction ...
Execute ==
  /\ Take(AnswerTo(table, Head(queue).command, epoch))
  /\ table' = EffectOf(table, Head(queue).command)
  /\ UNCHANGED <<epoch, seen>>

\* ... or the database fails it, and the transaction is rolled back.
ExecuteFails ==
  /\ Take(BackendFailure)
  /\ UNCHANGED <<table, epoch, seen>>

\* The rows an answer reports as stored.
Reported(a) ==
  IF a.tag = "ok"
  THEN {[epoch |-> epoch, row |-> n, event |-> a.rows[n]] : n \in DOMAIN a.rows}
  ELSE {}

Receive(c) ==
  /\ Return(c)
  /\ seen' = seen \cup Reported(answer[c][1])
  /\ UNCHANGED <<table, epoch>>

Shutdown ==
  /\ \/ ThreadEnding
     \/ \E k \in Closers : CloseSwap(k, FALSE) \/ CloserStep(k)
     \/ DropHandle
  /\ UNCHANGED <<table, epoch, seen>>

\* The process dies: calls, queue and thread are gone.
Crash == ProcessDies /\ UNCHANGED <<table, epoch, seen>>

\* The machine loses power: with synchronous = NORMAL the write-ahead log may
\* lose its last transactions.
PowerLoss(n) ==
  /\ ProcessDies
  /\ table' = RowsOf(table, {m \in DOMAIN table : m < n})
  /\ UNCHANGED <<epoch, seen>>

\* Mutant: the continuation epoch is stored with the database.
OpenSameEpoch ==
  /\ VerifyAllEvents(table) /\ WorkerStarts
  /\ UNCHANGED <<table, epoch, seen>>

\* open(): the integrity scan, then a new worker and a new epoch.
Open ==
  /\ VerifyAllEvents(table)
  /\ epoch < MaxEpoch
  /\ epoch' = epoch + 1
  /\ WorkerStarts
  /\ UNCHANGED <<table, seen>>

Next ==
  \/ \E c \in Callers : Dispatch(c) \/ Receive(c)
  \/ Execute \/ ExecuteFails
  \/ Shutdown
  \/ Crash
  \/ Open

Spec == Init /\ [][Next]_vars

\* The same with losses of power.
PowerNext == Next \/ \E n \in 0 .. MaxRows : PowerLoss(n)

PowerSpec == Init /\ [][PowerNext]_vars

-----------------------------------------------------------------------------
\* What values the variables take.
StoreTypeOK ==
  /\ DOMAIN table \subseteq Nat /\ \A n \in DOMAIN table : table[n] \in Events
  /\ epoch \in 1 .. MaxEpoch
  /\ TypeOK

\* What open() demands of the file always holds of what the worker wrote, so
\* a crash at any point, even with a loss of power, never leaves a store that
\* cannot be opened again: no sequence is skipped or given twice.
AlwaysOpens == VerifyAllEvents(table)

\* An EventId is stored at most once, however often its append is retried
\* after a lost answer, a cancellation or a crash.
StoredOnce ==
  \A m, n \in DOMAIN table : table[m].id = table[n].id => m = n

\* Whatever a caller was told is stored stays stored, at the same position,
\* through shutdowns, crashes of the process and reopening.
SeenIsDurable ==
  \A x \in seen : x.row \in DOMAIN table /\ table[x.row] = x.event

\* Rows are never changed or removed.
AppendOnly ==
  [][\A n \in DOMAIN table : n \in DOMAIN table' /\ table'[n] = table[n]]_vars

\* Within one epoch a position always names the same event, even when a loss
\* of power took rows away whose positions were given to other events later:
\* the fresh epoch of each opening separates them.
EpochFixesPositions ==
  \A x, y \in seen :
    x.epoch = y.epoch /\ x.row = y.row => x.event = y.event

-----------------------------------------------------------------------------
\* The rows as a sequence, and the queued commands whose callers have gone.
AsLog(tb) == [i \in 1 .. CurrentCount(tb) |-> tb[i - 1]]
Orphaned(q) ==
  {q[i].command : i \in {j \in DOMAIN q :
                           q[j].kind = "call" /\ q[j].from = NoCaller}}

Log == INSTANCE EventLog WITH
  Commands <- Calls, log <- AsLog(table), pending <- cmd,
  orphans <- Orphaned(queue)

\* The store is an atomic append-only log: each call takes effect at one
\* moment between its invocation and its return, or not at all if refused.
ImplementsLog == Log!Spec

\* With losses of power it is such a log that may lose its newest events: what
\* is appended, paged and looked up in a later opening, also with tokens of an
\* earlier one, is answered from what is left.
ImplementsLossyLog == Log!LossySpec
=============================================================================
