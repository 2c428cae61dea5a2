--------------------------- MODULE EventStoreProofs ---------------------------
(***************************************************************************)
(* For any callers, closers, queue capacity, events and number of          *)
(* openings: the events table stays contiguous and free of duplicates,     *)
(* even when power is lost, what callers were told is stored stays stored  *)
(* when it is not, and the store implements EventLog: the rows of the      *)
(* table are the log, and every step of the store is a step of the log or  *)
(* none.                                                                   *)
(***************************************************************************)
EXTENDS EventStore, TLAPS

-----------------------------------------------------------------------------
(* Sequences.                                                              *)

\* A sequence is a function on the positions up to its length.
LEMMA LenProperties ==
  ASSUME NEW S, NEW q \in Seq(S)
  PROVE  /\ Len(q) \in Nat /\ DOMAIN q = 1 .. Len(q)
         /\ q \in [1 .. Len(q) -> S]
  OBVIOUS

\* What is at a position.
LEMMA ElementOfSeq ==
  ASSUME NEW S, NEW q \in Seq(S), NEW n \in 1 .. Len(q)
  PROVE  q[n] \in S
  OBVIOUS

\* The empty sequence, and the others.
LEMMA EmptySeq ==
  ASSUME NEW S
  PROVE  /\ <<>> \in Seq(S) /\ Len(<<>>) = 0
         /\ \A q \in Seq(S) : q # <<>> => Len(q) \in Nat \ {0}
  OBVIOUS

\* One more at the end.
LEMMA AppendProperties ==
  ASSUME NEW S, NEW q \in Seq(S), NEW e \in S
  PROVE  /\ Append(q, e) \in Seq(S) /\ Append(q, e) # <<>>
         /\ Len(Append(q, e)) = Len(q) + 1
         /\ \A i \in 1 .. Len(q) : Append(q, e)[i] = q[i]
         /\ Append(q, e)[Len(q) + 1] = e
  OBVIOUS

\* The first, and the rest.
LEMMA HeadTailProperties ==
  ASSUME NEW S, NEW q \in Seq(S), q # <<>>
  PROVE  /\ Head(q) \in S /\ Tail(q) \in Seq(S)
         /\ Len(Tail(q)) = Len(q) - 1
         /\ \A i \in 1 .. Len(Tail(q)) : Tail(q)[i] = q[i + 1]
  OBVIOUS

\* Sequences that agree are the same.
LEMMA SeqEqual ==
  ASSUME NEW S, NEW q \in Seq(S), NEW r \in Seq(S), Len(q) = Len(r),
         \A i \in 1 .. Len(q) : q[i] = r[i]
  PROVE  q = r
  OBVIOUS

\* The first of a sequence.
LEMMA PrefixProperties ==
  ASSUME NEW S, NEW q \in Seq(S), NEW n \in 0 .. Len(q)
  PROVE  /\ SubSeq(q, 1, n) \in Seq(S) /\ Len(SubSeq(q, 1, n)) = n
         /\ \A i \in 1 .. n : SubSeq(q, 1, n)[i] = q[i]
  OBVIOUS

\* A table whose sequences run from 0 without a gap.
Contiguous(tb) == \E n \in Nat : tb \in [0 .. n - 1 -> Events]

\* No EventId has two rows.
NoDuplicates(tb) ==
  \A m, n \in DOMAIN tb : tb[m].id = tb[n].id => m = n

-----------------------------------------------------------------------------
(* The operators of EventTable.                                            *)

\* MAX + 1 is the number of rows of a contiguous table.
LEMMA CountOfContiguous ==
  ASSUME NEW n \in Nat, NEW tb \in [0 .. n - 1 -> Events]
  PROVE  CurrentCount(tb) = n
<1>1. CASE n = 0
  BY <1>1 DEF CurrentCount
<1>2. CASE n # 0
  <2>1. n - 1 \in 0 .. n - 1 /\ \A m \in 0 .. n - 1 : n - 1 >= m
    BY <1>2
  <2>2. \A x \in 0 .. n - 1 : (\A m \in 0 .. n - 1 : x >= m) => x = n - 1
    BY <2>1
  <2>3. Max(0 .. n - 1) = n - 1
    BY <2>1, <2>2, Zenon DEF Max
  <2> QED
    BY <1>2, <2>3 DEF CurrentCount
<1> QED
  BY <1>1, <1>2, Zenon

\* What open() scans for is contiguity.
LEMMA ContiguousOpens ==
  ASSUME NEW tb, Contiguous(tb)
  PROVE  VerifyAllEvents(tb)
BY CountOfContiguous, Zenon DEF Contiguous, VerifyAllEvents

\* An append keeps every row, contiguity, and one row per EventId.
LEMMA AppendKeeps ==
  ASSUME NEW tb, NEW event \in Events, Contiguous(tb), NoDuplicates(tb)
  PROVE  LET new == AppendEvent(tb, event)
         IN /\ Contiguous(new) /\ NoDuplicates(new)
            /\ \A n \in DOMAIN tb : n \in DOMAIN new /\ new[n] = tb[n]
<1> DEFINE new == AppendEvent(tb, event)
<1>1. PICK n \in Nat : tb \in [0 .. n - 1 -> Events]
  BY Zenon DEF Contiguous
<1>2. CASE RowsWithId(tb, event.id) # {}
  BY <1>2, Zenon DEF AppendEvent
<1>3. CASE RowsWithId(tb, event.id) = {}
  <2>1. CurrentCount(tb) = n
    BY <1>1, CountOfContiguous, Zenon
  <2>2. new = [m \in DOMAIN tb \cup {n} |-> IF m = n THEN event ELSE tb[m]]
    BY <1>3, <2>1, Zenon DEF AppendEvent
  <2>3. DOMAIN tb = 0 .. n - 1 /\ n \notin DOMAIN tb
    BY <1>1
  <2>4. DOMAIN tb \cup {n} = 0 .. (n + 1) - 1
    BY <2>3
  <2>5. new \in [0 .. (n + 1) - 1 -> Events] /\ n + 1 \in Nat
    BY <1>1, <2>2, <2>3, <2>4
  <2>6. Contiguous(new)
    BY <2>5, Zenon DEF Contiguous
  <2>7. \A m \in DOMAIN tb : m \in DOMAIN new /\ new[m] = tb[m]
    BY <2>2, <2>3, Zenon
  <2>8. \A m \in DOMAIN tb : tb[m].id # event.id
    BY <1>3, Zenon DEF RowsWithId
  <2>9. NoDuplicates(new)
    BY <2>2, <2>3, <2>8, Zenon DEF NoDuplicates
  <2> HIDE DEF new
  <2> QED
    BY <2>6, <2>7, <2>9, Zenon DEF new
<1> QED
  BY <1>2, <1>3, Zenon

\* The rows an answer reports are rows of the table.
Truthful(a, tb) ==
  a.tag = "ok" => \A n \in DOMAIN a.rows : n \in DOMAIN tb /\ a.rows[n] = tb[n]

\* Rows taken from the table are truthful.
LEMMA RowsAreTruthful ==
  ASSUME NEW tb, NEW S \in SUBSET DOMAIN tb, NEW token
  PROVE  Truthful(Ok(RowsOf(tb, S), token), tb)
BY Zenon DEF Truthful, Ok, RowsOf

\* An error reports no row.
LEMMA ErrorsAreTruthful ==
  ASSUME NEW tb,
         NEW a \in {EventConflict, InvalidCheckpoint, InvalidCursor, BackendFailure}
  PROVE  Truthful(a, tb)
<1>1. a.tag # "ok"
  BY DEF EventConflict, InvalidCheckpoint, InvalidCursor, BackendFailure
<1> QED
  BY <1>1, Zenon DEF Truthful

\* Nor does an answer without rows, such as a checkpoint.
LEMMA NoRowsAreTruthful ==
  ASSUME NEW tb, NEW token PROVE Truthful(Ok(NoRows, token), tb)
BY Zenon DEF Truthful, Ok, NoRows

\* Every answer reports rows of the table that the command leaves.
LEMMA AnswersAreTruthful ==
  ASSUME NEW tb, NEW command \in StoreCommands, NEW ep,
         Contiguous(tb), NoDuplicates(tb)
  PROVE  Truthful(AnswerTo(tb, command, ep), EffectOf(tb, command))
<1>1. CASE command.kind = "append"
  <2> DEFINE same == RowsWithId(tb, command.event.id)
  <2>1. command.event \in Events
    BY <1>1, Zenon DEF StoreCommands
  <2>2. /\ AnswerTo(tb, command, ep) = AppendAnswer(tb, command.event, ep)
        /\ EffectOf(tb, command) = AppendEvent(tb, command.event)
    BY <1>1, Zenon DEF AnswerTo, EffectOf
  <2>3. CASE same = {}
    <3>1. CurrentCount(tb) \in DOMAIN AppendEvent(tb, command.event)
      BY <2>3, Zenon DEF AppendEvent
    <3>2. AppendAnswer(tb, command.event, ep) =
            Ok(RowsOf(AppendEvent(tb, command.event), {CurrentCount(tb)}),
               <<[epoch |-> ep, position |-> CurrentCount(tb) + 1]>>)
      BY <2>3, Zenon DEF AppendAnswer, StoredEvent
    <3> QED
      BY <2>2, <3>1, <3>2, RowsAreTruthful, Zenon
  <2>4. CASE same # {}
    <3> DEFINE row == CHOOSE n \in same : TRUE
    <3>1. row \in DOMAIN tb /\ AppendEvent(tb, command.event) = tb
      BY <2>4, Zenon DEF RowsWithId, AppendEvent
    <3>2. \/ AppendAnswer(tb, command.event, ep) = EventConflict
          \/ AppendAnswer(tb, command.event, ep) =
               Ok(RowsOf(tb, {row}), <<[epoch |-> ep, position |-> row + 1]>>)
      BY <2>4, Zenon DEF AppendAnswer, StoredEvent
    <3> HIDE DEF row
    <3> QED
      BY <2>2, <3>1, <3>2, RowsAreTruthful, ErrorsAreTruthful, Zenon
  <2> QED
    BY <2>3, <2>4, Zenon
<1>2. CASE command.kind = "get"
  <2> DEFINE same == RowsWithId(tb, command.id)
             row  == CHOOSE n \in same : TRUE
  <2>1. /\ AnswerTo(tb, command, ep) = GetAnswer(tb, command.id, ep)
        /\ EffectOf(tb, command) = tb
    BY <1>2, Zenon DEF AnswerTo, EffectOf
  <2>2. CASE same = {}
    BY <2>1, <2>2, NoRowsAreTruthful, Zenon DEF GetAnswer
  <2>3. CASE same # {}
    <3>1. row \in DOMAIN tb
      BY <2>3, Zenon DEF RowsWithId
    <3>2. GetAnswer(tb, command.id, ep) =
            Ok(RowsOf(tb, {row}), <<[epoch |-> ep, position |-> row + 1]>>)
      BY <2>3, Zenon DEF GetAnswer, StoredEvent
    <3> HIDE DEF row
    <3> QED
      BY <2>1, <3>1, <3>2, RowsAreTruthful, Zenon
  <2> QED
    BY <2>2, <2>3, Zenon
<1>3. CASE command.kind = "capture"
  BY <1>3, NoRowsAreTruthful, Zenon DEF AnswerTo, EffectOf, CaptureCheckpoint
<1>4. CASE command.kind = "query"
  <2>1. /\ AnswerTo(tb, command, ep) = QueryEvents(tb, command.query, ep)
        /\ EffectOf(tb, command) = tb
    BY <1>4, Zenon DEF AnswerTo, EffectOf
  <2>2. \/ QueryEvents(tb, command.query, ep)
             \in {InvalidCheckpoint, InvalidCursor}
        \/ \E S \in SUBSET DOMAIN tb : \E token :
             QueryEvents(tb, command.query, ep) = Ok(RowsOf(tb, S), token)
    BY Zenon DEF QueryEvents, Smallest
  <2> QED
    BY <2>1, <2>2, RowsAreTruthful, ErrorsAreTruthful, Zenon
<1> QED
  BY <1>1, <1>2, <1>3, <1>4, Zenon DEF StoreCommands

-----------------------------------------------------------------------------
(* The store.                                                              *)

Phases == {"idle", "called", "checked", "cloned", "waiting", "answered"}

\* Calls carry commands of the store, from the caller to the queue.
CallsOK ==
  /\ pc \in [Callers -> Phases]
  /\ cmd \in [Callers -> Seq(Calls)]
  /\ \A c \in Callers :
       pc[c] \in {"called", "checked", "cloned"} => Len(cmd[c]) = 1
  /\ queue \in Seq(Messages)

\* The table as open() wants it.
TableOK == Contiguous(table) /\ NoDuplicates(table)

Inv == CallsOK /\ TableOK

\* The freshly opened, empty store satisfies the invariant.
LEMMA InitInv == Init => Inv
<1> SUFFICES ASSUME Init PROVE Inv
  BY Zenon
<1>1. CallsOK
  BY DEF Init, WorkerInit, CallsOK, Phases
<1>2. table \in [0 .. 0 - 1 -> Events] /\ DOMAIN table = {}
  BY DEF Init, NoRows
<1>3. TableOK
  BY <1>2, Zenon DEF TableOK, Contiguous, NoDuplicates
<1> QED
  BY <1>1, <1>3, Zenon DEF Inv

\* The command at the head of the queue is a command of the store.
LEMMA HeadIsCommand ==
  ASSUME CallsOK, queue # <<>>
  PROVE  /\ Head(queue) \in Messages /\ Tail(queue) \in Seq(Messages)
         /\ Head(queue).kind = "call" =>
              /\ Head(queue).command \in StoreCommands
              /\ Head(queue).from \in Callers \cup {NoCaller}
<1>1. Head(queue) \in Messages /\ Tail(queue) \in Seq(Messages)
  BY HeadTailProperties, Zenon DEF CallsOK
<1> QED
  BY <1>1, CallsAssumption, Zenon DEF Messages

\* Answering a message changes no command and no queue.
LEMMA DeliverOK ==
  ASSUME CallsOK, NEW m, NEW a,
         Deliver(m, a), cmd' = cmd, queue' \in Seq(Messages)
  PROVE  CallsOK'
BY Zenon DEF CallsOK, Deliver, Phases

\* A message whose caller has gone is still a message.
LEMMA OrphanOK ==
  ASSUME NEW c \in Callers, NEW m \in Messages
  PROVE  Orphan(c, m) \in Messages
BY Zenon DEF Orphan, Messages

\* Every step, a loss of power included, keeps what is queued or called a
\* command of the store.
LEMMA CallsStep == CallsOK /\ [PowerNext]_vars => CallsOK'
<1> SUFFICES ASSUME CallsOK, [PowerNext]_vars PROVE CallsOK'
  BY Zenon
<1>1. ASSUME NEW c \in Callers, NEW command \in Calls, Call(c, command)
      PROVE  CallsOK'
  BY <1>1 DEF Call, CallsOK, Phases, handleVars
<1>2. ASSUME NEW c \in Callers, NEW r, Refuse(c, r) PROVE CallsOK'
  BY <1>2, Zenon DEF Refuse, CallsOK, Phases
<1>3. ASSUME NEW c \in Callers, CheckClosed(c) PROVE CallsOK'
  BY <1>2, <1>3, Zenon DEF CheckClosed, Proceed, CallsOK, Phases
<1>4. ASSUME NEW c \in Callers, CloneSender(c) PROVE CallsOK'
  BY <1>2, <1>4, Zenon DEF CloneSender, Proceed, CallsOK, Phases
<1>5. ASSUME NEW c \in Callers, TrySend(c) PROVE CallsOK'
  <2>1. CASE queue' = Append(queue, CallOf(c, cmd[c][1]))
             /\ pc' = [pc EXCEPT ![c] = "waiting"] /\ cmd' = cmd
    <3>1. cmd[c] \in Seq(Calls) /\ Len(cmd[c]) = 1
      BY <1>5, Zenon DEF TrySend, CallsOK
    <3>2. cmd[c][1] \in Calls
      BY <3>1, ElementOfSeq
    <3>3. CallOf(c, cmd[c][1]) \in Messages
      BY <3>2, Zenon DEF CallOf, Messages
    <3>4. queue' \in Seq(Messages)
      BY <2>1, <3>3, AppendProperties, Zenon DEF CallsOK
    <3> QED
      BY <2>1, <3>4, Zenon DEF CallsOK, Phases
  <2> QED
    BY <1>2, <1>5, <2>1, Zenon DEF TrySend
<1>6. ASSUME NEW c \in Callers, Return(c) PROVE CallsOK'
  <2>1. <<>> \in Seq(Calls)
    OBVIOUS
  <2> QED
    BY <1>6, <2>1, Zenon DEF Return, CallsOK, Phases
<1>7. ASSUME NEW c \in Callers, Cancel(c) PROVE CallsOK'
  <2>1. <<>> \in Seq(Calls)
    OBVIOUS
  <2>2. queue \in Seq(Messages) /\ DOMAIN queue = 1 .. Len(queue)
        /\ Len(queue) \in Nat /\ \A i \in 1 .. Len(queue) : queue[i] \in Messages
    BY ElementOfSeq, LenProperties, Zenon DEF CallsOK
  <2>3. queue' = [i \in 1 .. Len(queue) |-> Orphan(c, queue[i])]
    BY <1>7, <2>2, Zenon DEF Cancel
  <2>4. queue' \in Seq(Messages)
    BY <2>2, <2>3, OrphanOK
  <2> QED
    BY <1>7, <2>1, <2>4, Zenon DEF Cancel, CallsOK, Phases
<1>8. ASSUME NEW a, Take(a) PROVE CallsOK'
  BY <1>8, HeadIsCommand, DeliverOK, Zenon DEF Take
<1>9. CASE TakeShutdown
  BY <1>9, HeadIsCommand, Zenon DEF TakeShutdown, CallsOK, callerVars
<1>10. CASE Discard
  BY <1>10, HeadIsCommand, DeliverOK, Zenon DEF Discard
<1>11. CASE RecvNone \/ DropReceiver \/ ThreadEnds
  BY <1>11, Zenon DEF RecvNone, DropReceiver, ThreadEnds, CallsOK, callerVars
<1>12. ASSUME NEW k \in Closers, CloseSend(k) PROVE CallsOK'
  <2>1. ShutdownOf(k) \in Messages
    BY Zenon DEF ShutdownOf, Messages
  <2>2. queue' \in Seq(Messages)
    BY <1>12, <2>1, AppendProperties, Zenon DEF CloseSend, CallsOK
  <2> QED
    BY <1>12, <2>2, Zenon DEF CloseSend, CallsOK, callerVars
<1>13. ASSUME NEW k \in Closers,
              CloseSwap(k, FALSE) \/ CloseTake(k) \/ CloseTakeJoin(k) \/ CloseJoined(k)
       PROVE  CallsOK'
  BY <1>13, Zenon DEF CloseSwap, CloseTake, CloseTakeJoin, CloseJoined, CallsOK,
       callerVars
<1>14. CASE DropHandle
  BY <1>14, Zenon DEF DropHandle, CallsOK, callerVars
<1>15. CASE ProcessDies
  <2>1. <<>> \in Seq(Calls) /\ <<>> \in Seq(Messages)
    OBVIOUS
  <2> QED
    BY <1>15, <2>1, Zenon DEF ProcessDies, CallsOK, Phases
<1>16. CASE WorkerStarts
  BY <1>16, Zenon DEF WorkerStarts, CallsOK, callerVars
<1>17. CASE UNCHANGED vars
  BY <1>17, Zenon DEF vars, workerVars, callerVars, CallsOK
<1>18. ASSUME NEW c \in Callers, Dispatch(c) \/ Receive(c) PROVE CallsOK'
  BY <1>18, <1>1, <1>3, <1>4, <1>5, <1>6, <1>7, Zenon DEF Dispatch, Receive
<1>19. CASE Shutdown
  BY <1>19, <1>9, <1>10, <1>11, <1>12, <1>13, <1>14, Zenon
     DEF Shutdown, ThreadEnding, CloserStep
<1>20. CASE Execute \/ ExecuteFails \/ Crash \/ Open
            \/ \E n \in 0 .. MaxRows : PowerLoss(n)
  BY <1>20, <1>8, <1>15, <1>16, Zenon DEF Execute, ExecuteFails, Crash, Open, PowerLoss
<1> QED
  BY <1>17, <1>18, <1>19, <1>20, Zenon DEF PowerNext, Next

\* A lost suffix leaves a contiguous table without duplicates.
LEMMA PrefixKeeps ==
  ASSUME NEW tb, NEW k \in Int, Contiguous(tb), NoDuplicates(tb)
  PROVE  LET new == RowsOf(tb, {m \in DOMAIN tb : m < k})
         IN Contiguous(new) /\ NoDuplicates(new)
<1> DEFINE new == RowsOf(tb, {m \in DOMAIN tb : m < k})
<1>1. PICK n \in Nat : tb \in [0 .. n - 1 -> Events]
  BY Zenon DEF Contiguous
<1>2. NoDuplicates(new)
  BY Zenon DEF NoDuplicates, RowsOf
<1>3. CASE k <= 0
  <2>1. {m \in DOMAIN tb : m < k} = 0 .. 0 - 1
    BY <1>1, <1>3
  <2>2. new \in [0 .. 0 - 1 -> Events]
    BY <2>1 DEF RowsOf
  <2> QED
    BY <1>2, <2>2, Zenon DEF Contiguous
<1>4. CASE k > 0 /\ k <= n
  <2>1. {m \in DOMAIN tb : m < k} = 0 .. k - 1 /\ k \in Nat
    BY <1>1, <1>4
  <2>2. new \in [0 .. k - 1 -> Events]
    BY <1>1, <1>4, <2>1, Zenon DEF RowsOf
  <2> QED
    BY <1>2, <2>1, <2>2, Zenon DEF Contiguous
<1>5. CASE k > n
  <2>1. {m \in DOMAIN tb : m < k} = 0 .. n - 1
    BY <1>1, <1>5
  <2>2. new \in [0 .. n - 1 -> Events]
    BY <1>1, <2>1, Zenon DEF RowsOf
  <2> QED
    BY <1>2, <2>2, Zenon DEF Contiguous
<1> QED
  BY <1>3, <1>4, <1>5

\* Every step leaves the table as it is, executes the head of the queue, or
\* loses a suffix.
LEMMA TableSteps ==
  ASSUME [PowerNext]_vars
  PROVE  \/ table' = table
         \/ Execute
         \/ \E n \in 0 .. MaxRows : PowerLoss(n)
BY Zenon DEF PowerNext, Next, Dispatch, Receive, ExecuteFails, Shutdown, Crash, Open,
     vars

\* A command of the store keeps every row and the table's shape.
LEMMA ExecuteKeeps ==
  ASSUME Inv, Execute
  PROVE  /\ TableOK'
         /\ \A n \in DOMAIN table : n \in DOMAIN table' /\ table'[n] = table[n]
<1> DEFINE command == Head(queue).command
<1>1. command \in StoreCommands /\ table' = EffectOf(table, command)
  BY HeadIsCommand, Zenon DEF Execute, Take, Inv
<1>2. CASE command.kind = "append"
  <2>1. command.event \in Events
    BY <1>1, <1>2, Zenon DEF StoreCommands
  <2>2. table' = AppendEvent(table, command.event)
    BY <1>1, <1>2, Zenon DEF EffectOf
  <2> HIDE DEF command
  <2> QED
    BY <2>1, <2>2, AppendKeeps, Zenon DEF Inv, TableOK
<1>3. CASE command.kind # "append"
  <2>1. table' = table
    BY <1>1, <1>3, Zenon DEF EffectOf
  <2> QED
    BY <2>1, Zenon DEF Inv, TableOK, Contiguous, NoDuplicates
<1> QED
  BY <1>2, <1>3, Zenon

\* The invariant is inductive, also under losses of power.
LEMMA StepInv == Inv /\ [PowerNext]_vars => Inv'
<1> SUFFICES ASSUME Inv, [PowerNext]_vars PROVE Inv'
  BY Zenon
<1>1. CallsOK'
  BY CallsStep, Zenon DEF Inv
<1>2. CASE table' = table
  BY <1>1, <1>2, Zenon DEF Inv, TableOK, Contiguous, NoDuplicates
<1>3. CASE Execute
  BY <1>1, <1>3, ExecuteKeeps, Zenon DEF Inv
<1>4. CASE \E n \in 0 .. MaxRows : PowerLoss(n)
  <2>1. PICK n \in 0 .. MaxRows : PowerLoss(n)
    BY <1>4, Zenon
  <2>2. TableOK'
    BY <2>1, PrefixKeeps DEF PowerLoss, Inv, TableOK
  <2> QED
    BY <1>1, <2>2, Zenon DEF Inv
<1> QED
  BY <1>2, <1>3, <1>4, TableSteps, Zenon

\* Whatever was written, even if power was lost, open() accepts the table.
THEOREM OpensAgain == PowerSpec => []AlwaysOpens
<1>1. Inv => AlwaysOpens
  BY ContiguousOpens, Zenon DEF Inv, TableOK, AlwaysOpens
<1> QED
  BY <1>1, InitInv, StepInv, PTL DEF PowerSpec

\* No EventId is stored twice, however its append is retried.
THEOREM AppendsOnce == PowerSpec => []StoredOnce
<1>1. Inv => StoredOnce
  BY Zenon DEF Inv, TableOK, NoDuplicates, StoredOnce
<1> QED
  BY <1>1, InitInv, StepInv, PTL DEF PowerSpec

-----------------------------------------------------------------------------
(* Without losses of power, rows are for ever.                             *)

Extends(old, new) == \A n \in DOMAIN old : n \in DOMAIN new /\ new[n] = old[n]

\* A step without loss of power is a step of the larger relation.
LEMMA NextIsPowerNext == [Next]_vars => [PowerNext]_vars
BY Zenon DEF PowerNext

\* Without a loss of power the table only grows.
LEMMA NextExtends == Inv /\ [Next]_vars => Extends(table, table')
<1> SUFFICES ASSUME Inv, [Next]_vars PROVE Extends(table, table')
  BY Zenon
<1>1. table' = table \/ Execute
  BY Zenon DEF Next, Dispatch, Receive, ExecuteFails, Shutdown, Crash, Open, vars
<1> QED
  BY <1>1, ExecuteKeeps, Zenon DEF Extends

\* A row of the events table is never changed or removed.
THEOREM RowsStay == Spec => AppendOnly
<1>1. Inv /\ [Next]_vars =>
        [\A n \in DOMAIN table : n \in DOMAIN table' /\ table'[n] = table[n]]_vars
  BY NextExtends, Zenon DEF Extends
<1> QED
  BY <1>1, InitInv, StepInv, NextIsPowerNext, PTL DEF Spec, AppendOnly

\* Answers on their way to callers report rows of the table.
AnswersOK ==
  /\ answer = [c \in Callers |-> answer[c]]
  /\ \A c \in Callers : answer[c] # <<>> => Truthful(answer[c][1], table)

\* An answer true of a table is true of one that extends it.
LEMMA TruthStays ==
  ASSUME NEW a, NEW old, NEW new, Extends(old, new), Truthful(a, old)
  PROVE  Truthful(a, new)
BY Zenon DEF Extends, Truthful

\* Answers that stay, in a table that only grew, stay true.
LEMMA UnchangedAnswers ==
  ASSUME AnswersOK, Extends(table, table'), answer' = answer
  PROVE  AnswersOK'
BY TruthStays, Zenon DEF AnswersOK

\* So do they when one caller's answer is set to a true one, or cleared.
LEMMA OneAnswer ==
  ASSUME AnswersOK, Extends(table, table'), NEW c, NEW a,
         answer' = [answer EXCEPT ![c] = a],
         a = <<>> \/ (\E x : a = <<x>> /\ Truthful(x, table'))
  PROVE  AnswersOK'
<1>1. answer' = [d \in Callers |-> answer'[d]]
  BY Zenon DEF AnswersOK
<1>2. ASSUME NEW d \in Callers, answer'[d] # <<>>
      PROVE  Truthful(answer'[d][1], table')
  <2>1. CASE d = c
    BY <1>2, <2>1 DEF AnswersOK
  <2>2. CASE d # c
    <3>1. answer'[d] = answer[d]
      BY <2>2, Zenon DEF AnswersOK
    <3> QED
      BY <1>2, <3>1, TruthStays, Zenon DEF AnswersOK
  <2> QED
    BY <2>1, <2>2, Zenon
<1> QED
  BY <1>1, <1>2, Zenon DEF AnswersOK

\* A refusal reports no row.
LEMMA RefusalsAreTruthful ==
  ASSUME NEW tb, NEW r \in Refusals PROVE Truthful(r, tb)
<1>1. r.tag # "ok"
  BY DEF Refusals, Closed, Unavailable, Full, Lost
<1> QED
  BY <1>1, Zenon DEF Truthful

\* A truthful answer delivered by the worker keeps all answers truthful.
LEMMA DeliverAnswer ==
  ASSUME AnswersOK, Extends(table, table'), NEW m, NEW a,
         Deliver(m, a), Truthful(a, table')
  PROVE  AnswersOK'
BY UnchangedAnswers, OneAnswer, Zenon DEF Deliver

\* The answers on their way stay truthful in every step.
LEMMA AnswersStep == Inv /\ AnswersOK /\ [Next]_vars => AnswersOK'
<1> SUFFICES ASSUME Inv, AnswersOK, [Next]_vars PROVE AnswersOK'
  BY Zenon
<1>0. Extends(table, table')
  BY NextExtends, Zenon
<1>1. ASSUME NEW c \in Callers, NEW r \in Refusals, Refuse(c, r)
      PROVE  AnswersOK'
  BY <1>0, <1>1, OneAnswer, RefusalsAreTruthful, Zenon DEF Refuse
<1>2. ASSUME NEW c \in Callers, Dispatch(c) PROVE AnswersOK'
  <2>1. answer' = answer \/ \E r \in Refusals : Refuse(c, r)
    BY <1>2, Zenon DEF Dispatch, Call, CheckClosed, CloneSender, TrySend, Cancel,
         Proceed, Refusals
  <2> QED
    BY <1>0, <1>1, <2>1, UnchangedAnswers, Zenon
<1>3. ASSUME NEW c \in Callers, Receive(c) PROVE AnswersOK'
  BY <1>0, <1>3, OneAnswer, Zenon DEF Receive, Return
<1>4. CASE Execute
  <2> DEFINE command == Head(queue).command
  <2>1. command \in StoreCommands
    BY <1>4, HeadIsCommand, Zenon DEF Execute, Take, Inv
  <2>2. Truthful(AnswerTo(table, command, epoch), table')
    BY <1>4, <2>1, AnswersAreTruthful, Zenon DEF Execute, Inv, TableOK
  <2> QED
    BY <1>0, <1>4, <2>2, DeliverAnswer, Zenon DEF Execute, Take
<1>5. CASE ExecuteFails
  BY <1>0, <1>5, ErrorsAreTruthful, DeliverAnswer, Zenon DEF ExecuteFails, Take
<1>6. CASE Shutdown
  <2>1. answer' = answer \/ Deliver(Head(queue), Lost)
    BY <1>6, Zenon DEF Shutdown, ThreadEnding, TakeShutdown, RecvNone, DropReceiver,
         Discard, ThreadEnds, CloseSwap, CloserStep, CloseTake, CloseSend,
         CloseTakeJoin, CloseJoined, DropHandle, callerVars
  <2>2. Truthful(Lost, table')
    BY RefusalsAreTruthful, Zenon DEF Refusals
  <2> QED
    BY <1>0, <2>1, <2>2, UnchangedAnswers, DeliverAnswer, Zenon
<1>7. CASE Crash
  BY <1>7, Zenon DEF Crash, ProcessDies, AnswersOK
<1>8. CASE Open
  BY <1>0, <1>8, UnchangedAnswers, Zenon DEF Open, WorkerStarts, callerVars
<1>9. CASE UNCHANGED vars
  BY <1>0, <1>9, UnchangedAnswers, Zenon DEF vars, workerVars, callerVars
<1> QED
  BY <1>2, <1>3, <1>4, <1>5, <1>6, <1>7, <1>8, <1>9, Zenon DEF Next

\* A call that is over has an answer.
AnsweredOK == \A c \in Callers : pc[c] = "answered" => answer[c] # <<>>

\* So do the answers callers have received.
LEMMA AnsweredStep == Inv /\ AnswersOK /\ AnsweredOK /\ [Next]_vars => AnsweredOK'
<1> SUFFICES ASSUME Inv, AnswersOK, AnsweredOK, [Next]_vars PROVE AnsweredOK'
  BY Zenon
<1>1. ASSUME NEW c \in Callers, Dispatch(c) PROVE AnsweredOK'
  <2>1. ASSUME NEW r, Refuse(c, r) PROVE AnsweredOK'
    BY <2>1, Zenon DEF Refuse, AnsweredOK, AnswersOK, Inv, CallsOK
  <2> QED
    BY <1>1, <2>1, Zenon DEF Dispatch, Call, CheckClosed, CloneSender, TrySend, Cancel,
         Proceed, AnsweredOK, AnswersOK, Inv, CallsOK
<1>2. ASSUME NEW c \in Callers, Receive(c) PROVE AnsweredOK'
  BY <1>2, Zenon DEF Receive, Return, AnsweredOK, AnswersOK, Inv, CallsOK
<1>3. ASSUME NEW m, NEW a, Deliver(m, a) PROVE AnsweredOK'
  <2>1. CASE UNCHANGED <<pc, answer>>
    BY <2>1, Zenon DEF AnsweredOK
  <2>2. CASE /\ pc' = [pc EXCEPT ![m.from] = "answered"]
             /\ answer' = [answer EXCEPT ![m.from] = <<a>>]
    <3>1. <<a>> # <<>>
      BY Zenon
    <3>2. ASSUME NEW c \in Callers, pc'[c] = "answered" PROVE answer'[c] # <<>>
      <4>1. CASE c = m.from
        BY <2>2, <3>1, <4>1, Zenon DEF AnswersOK
      <4>2. CASE c # m.from
        BY <2>2, <3>2, <4>2, Zenon DEF AnsweredOK, AnswersOK, Inv, CallsOK
      <4> QED
        BY <4>1, <4>2, Zenon
    <3> QED
      BY <3>2, Zenon DEF AnsweredOK
  <2> QED
    BY <1>3, <2>1, <2>2, Zenon DEF Deliver
<1>4. CASE Execute \/ ExecuteFails
  BY <1>3, <1>4, Zenon DEF Execute, ExecuteFails, Take
<1>5. CASE Shutdown
  <2>1. UNCHANGED <<pc, answer>> \/ Deliver(Head(queue), Lost)
    BY <1>5, Zenon DEF Shutdown, ThreadEnding, TakeShutdown, RecvNone, DropReceiver,
         Discard, ThreadEnds, CloseSwap, CloserStep, CloseTake, CloseSend,
         CloseTakeJoin, CloseJoined, DropHandle, callerVars
  <2> QED
    BY <1>3, <2>1, Zenon DEF AnsweredOK
<1>6. CASE Crash \/ Open \/ UNCHANGED vars
  BY <1>6, Zenon DEF Crash, ProcessDies, Open, WorkerStarts, vars, workerVars,
       callerVars, AnsweredOK
<1> QED
  BY <1>1, <1>2, <1>4, <1>5, <1>6, Zenon DEF Next

\* What a returning call reports is added to what was seen, and is true.
LEMMA SeenStep ==
  Inv /\ AnswersOK /\ AnsweredOK /\ SeenIsDurable /\ [Next]_vars => SeenIsDurable'
<1> SUFFICES ASSUME Inv, AnswersOK, AnsweredOK, SeenIsDurable, [Next]_vars
             PROVE  SeenIsDurable'
  BY Zenon
<1>0. Extends(table, table')
  BY NextExtends, Zenon
<1>1. CASE seen' = seen
  BY <1>0, <1>1, Zenon DEF SeenIsDurable, Extends
<1>2. ASSUME NEW c \in Callers, Receive(c) PROVE SeenIsDurable'
  <2>1. /\ answer[c] # <<>> /\ table' = table
        /\ seen' = seen \cup Reported(answer[c][1])
    BY <1>2, Zenon DEF Receive, Return, AnsweredOK
  <2>2. Truthful(answer[c][1], table)
    BY <2>1, Zenon DEF AnswersOK
  <2>3. \A x \in Reported(answer[c][1]) :
          x.row \in DOMAIN table /\ table[x.row] = x.event
    BY <2>2 DEF Reported, Truthful
  <2> QED
    BY <2>1, <2>3, Zenon DEF SeenIsDurable
<1> QED
  BY <1>1, <1>2, Zenon DEF Next, Dispatch, Execute, ExecuteFails, Shutdown, Crash, Open,
       vars

\* Every row a caller was told is stored, by an append, a lookup or a page,
\* stays where it is through shutdowns, crashes and reopening.
THEOREM Durable == Spec => []SeenIsDurable
<1>1. Init => AnswersOK /\ AnsweredOK /\ SeenIsDurable
  BY Zenon DEF Init, WorkerInit, AnswersOK, AnsweredOK, SeenIsDurable
<1> QED
  BY <1>1, InitInv, StepInv, NextIsPowerNext, AnswersStep, AnsweredStep, SeenStep,
     PTL DEF Spec
-----------------------------------------------------------------------------
(* With losses of power, a position keeps its event within an epoch.       *)

\* Nothing of the process is left.
Gone == ~held /\ thread = "stopped" /\ \A c \in Callers : pc[c] = "idle"

\* The process is gone, or what this opening has reported is stored.
NowStored ==
  \/ Gone
  \/ \A x \in seen : x.epoch = epoch =>
       x.row \in DOMAIN table /\ table[x.row] = x.event

\* Nothing was reported by an opening yet to come.
PastEpochs == epoch \in Nat /\ \A x \in seen : x.epoch \in Nat /\ x.epoch <= epoch

SeenInv == NowStored /\ PastEpochs /\ EpochFixesPositions

\* A loss of power takes the answers with it.
LEMMA AnswersPower ==
  Inv /\ AnswersOK /\ AnsweredOK /\ [PowerNext]_vars => AnswersOK' /\ AnsweredOK'
<1> SUFFICES ASSUME Inv, AnswersOK, AnsweredOK, [PowerNext]_vars
             PROVE  AnswersOK' /\ AnsweredOK'
  BY Zenon
<1>1. CASE [Next]_vars
  BY <1>1, AnswersStep, AnsweredStep, Zenon
<1>2. CASE \E n \in 0 .. MaxRows : PowerLoss(n)
  BY <1>2, Zenon DEF PowerLoss, ProcessDies, AnswersOK, AnsweredOK
<1> QED
  BY <1>1, <1>2, Zenon DEF PowerNext

\* A process that is gone stays so until a new epoch begins.
LEMMA GoneStays ==
  ASSUME Gone, [PowerNext]_vars, ~Open PROVE Gone'
<1>1. ASSUME NEW c \in Callers, Dispatch(c) \/ Receive(c) PROVE FALSE
  BY <1>1, Zenon DEF Gone, Dispatch, Receive, Call, CheckClosed, CloneSender, TrySend,
       Cancel, Return
<1>2. CASE Execute \/ ExecuteFails
  BY <1>2, Zenon DEF Gone, Execute, ExecuteFails, Take
<1>3. CASE Shutdown
  BY <1>3 DEF Gone, Shutdown, ThreadEnding, TakeShutdown, RecvNone, DropReceiver,
       Discard, ThreadEnds, CloseSwap, CloserStep, CloseTake, CloseSend,
       CloseTakeJoin, CloseJoined, DropHandle, callerVars, handleVars
<1>4. CASE Crash \/ \E n \in 0 .. MaxRows : PowerLoss(n)
  BY <1>4, Zenon DEF Gone, Crash, PowerLoss, ProcessDies
<1>5. CASE UNCHANGED vars
  BY <1>5, Zenon DEF Gone, vars, workerVars, handleVars, callerVars
<1> QED
  BY <1>1, <1>2, <1>3, <1>4, <1>5, Zenon DEF PowerNext, Next

\* A loss of power ends the process.
LEMMA LossEnds ==
  ASSUME NEW n, PowerLoss(n) PROVE Gone' /\ seen' = seen /\ epoch' = epoch
BY Zenon DEF PowerLoss, ProcessDies, Gone

\* What is known of the rows reported survives every step.
LEMMA SeenPowerStep ==
  Inv /\ AnswersOK /\ AnsweredOK /\ SeenInv /\ [PowerNext]_vars => SeenInv'
<1> SUFFICES ASSUME Inv, AnswersOK, AnsweredOK, SeenInv, [PowerNext]_vars
             PROVE  SeenInv'
  BY Zenon
<1>1. CASE Open
  <2>1. epoch' = epoch + 1 /\ seen' = seen
    BY <1>1, Zenon DEF Open
  <2>2. PastEpochs'
    BY <2>1 DEF SeenInv, PastEpochs
  <2>3. \A x \in seen : x.epoch # epoch'
    BY <2>1 DEF SeenInv, PastEpochs
  <2>4. NowStored'
    BY <2>1, <2>3, Zenon DEF NowStored
  <2> QED
    BY <2>1, <2>2, <2>4, Zenon DEF SeenInv, EpochFixesPositions
<1>2. ASSUME NEW c \in Callers, Receive(c) PROVE SeenInv'
  <2>1. /\ answer[c] # <<>> /\ table' = table /\ epoch' = epoch
        /\ seen' = seen \cup Reported(answer[c][1]) /\ pc[c] = "answered"
    BY <1>2, Zenon DEF Receive, Return, AnsweredOK
  <2>2. Truthful(answer[c][1], table)
    BY <2>1, Zenon DEF AnswersOK
  <2>3. \A x \in Reported(answer[c][1]) :
          x.epoch = epoch /\ x.row \in DOMAIN table /\ table[x.row] = x.event
    BY <2>2 DEF Reported, Truthful
  <2>4. \A x \in seen : x.epoch = epoch =>
          x.row \in DOMAIN table /\ table[x.row] = x.event
    BY <2>1, Zenon DEF SeenInv, NowStored, Gone
  <2>5. \A x \in seen' : x.epoch = epoch =>
          x.row \in DOMAIN table /\ table[x.row] = x.event
    BY <2>1, <2>3, <2>4, Zenon
  <2>6. NowStored'
    BY <2>1, <2>5, Zenon DEF NowStored
  <2>7. PastEpochs'
    BY <2>1, <2>3 DEF SeenInv, PastEpochs
  <2>8. EpochFixesPositions'
    BY <2>1, <2>3, <2>5 DEF SeenInv, EpochFixesPositions
  <2> QED
    BY <2>6, <2>7, <2>8, Zenon DEF SeenInv
<1>3. CASE \E n \in 0 .. MaxRows : PowerLoss(n)
  BY <1>3, LossEnds, Zenon DEF SeenInv, NowStored, PastEpochs, EpochFixesPositions
<1>4. CASE /\ [Next]_vars /\ ~Open /\ \A c \in Callers : ~Receive(c)
  <2>1. seen' = seen /\ epoch' = epoch
    BY <1>4, Zenon DEF Next, Dispatch, Execute, ExecuteFails, Shutdown, Crash, vars
  <2>2. Extends(table, table')
    BY <1>4, NextExtends, Zenon
  <2>3. NowStored'
    BY <1>4, <2>1, <2>2, GoneStays, Zenon DEF SeenInv, NowStored, Extends
  <2> QED
    BY <2>1, <2>3, Zenon DEF SeenInv, PastEpochs, EpochFixesPositions
<1> QED
  BY <1>1, <1>2, <1>3, <1>4, Zenon DEF PowerNext

\* A cursor or checkpoint of one opening never names two events, although a
\* loss of power may free positions that the next opening gives away again:
\* the fresh continuation_epoch of each opening separates them.
THEOREM Positions == PowerSpec => []EpochFixesPositions
<1>1. Init => AnswersOK /\ AnsweredOK /\ SeenInv
  BY DEF Init, WorkerInit, AnswersOK, AnsweredOK, SeenInv, NowStored, PastEpochs,
       EpochFixesPositions
<1>2. SeenInv => EpochFixesPositions
  BY Zenon DEF SeenInv
<1> QED
  BY <1>1, <1>2, InitInv, StepInv, AnswersPower, SeenPowerStep, PTL DEF PowerSpec

-----------------------------------------------------------------------------
(* Who waits for what is queued.                                           *)

\* The queue holds exactly one command of each waiting caller.
QueueOK(q) ==
  /\ \A c \in Callers : pc[c] = "waiting" => \E i \in DOMAIN q : q[i].from = c
  /\ \A i \in DOMAIN q : q[i].from \in Callers =>
       pc[q[i].from] = "waiting" /\ cmd[q[i].from] = <<q[i].command>>
  /\ \A i, j \in DOMAIN q :
       q[i].from \in Callers /\ q[i].from = q[j].from => i = j

\* A caller's command and answer are there in the phases that have them.
PhasesOK ==
  \A c \in Callers : /\ pc[c] = "idle" => cmd[c] = <<>>
                     /\ pc[c] # "answered" => answer[c] = <<>>

WaitInv == PhasesOK /\ QueueOK(queue)

\* Only calls come from callers.
LEMMA FromCaller ==
  ASSUME NEW m \in Messages
  PROVE  /\ m.from \in Callers => m.kind = "call"
         /\ m.kind = "call" /\ m.from # NoCaller => m.from \in Callers
         /\ m.from = NoCaller => m.from \notin Callers
BY CallersAssumption, Zenon DEF Messages

\* The messages behind the head of the queue.
LEMMA TailMessages ==
  ASSUME NEW S, NEW q \in Seq(S), q # <<>>
  PROVE  /\ 1 \in DOMAIN q /\ Head(q) = q[1]
         /\ \A i \in DOMAIN Tail(q) : \E k \in DOMAIN q :
              k = i + 1 /\ k # 1 /\ Tail(q)[i] = q[k]
         /\ \A k \in DOMAIN q : k # 1 =>
              \E i \in DOMAIN Tail(q) : Tail(q)[i] = q[k]
         /\ \A i, j \in DOMAIN Tail(q) : i + 1 = j + 1 => i = j
<1>1. Len(q) \in Nat /\ Len(q) # 0 /\ DOMAIN q = 1 .. Len(q)
  BY EmptySeq, LenProperties
<1>2. Tail(q) \in Seq(S) /\ Len(Tail(q)) = Len(q) - 1
  BY HeadTailProperties
<1>3. DOMAIN Tail(q) = 1 .. Len(q) - 1
  BY <1>1, <1>2, LenProperties
<1>4. \A i \in 1 .. Len(q) - 1 : Tail(q)[i] = q[i + 1]
  BY <1>1
<1>5. Head(q) = q[1]
  BY <1>1
<1>6. /\ 1 \in 1 .. Len(q)
      /\ \A i \in 1 .. Len(q) - 1 : i + 1 \in 1 .. Len(q) /\ i + 1 # 1
      /\ \A i \in 1 .. Len(q) : i # 1 => i - 1 \in 1 .. Len(q) - 1 /\ i = (i - 1) + 1
      /\ \A i, j \in 1 .. Len(q) - 1 : i + 1 = j + 1 => i = j
  BY <1>1
<1>7. ASSUME NEW i \in DOMAIN Tail(q)
      PROVE  \E k \in DOMAIN q : k = i + 1 /\ k # 1 /\ Tail(q)[i] = q[k]
  BY <1>1, <1>3, <1>4, <1>6, Zenon
<1>8. ASSUME NEW k \in DOMAIN q, k # 1
      PROVE  \E i \in DOMAIN Tail(q) : Tail(q)[i] = q[k]
  <2>1. PICK i \in 1 .. Len(q) - 1 : k = i + 1
    BY <1>1, <1>6, <1>8, Zenon
  <2> QED
    BY <1>3, <1>4, <2>1, Zenon
<1> QED
  BY <1>1, <1>3, <1>5, <1>6, <1>7, <1>8, Zenon

\* The messages of a queue that got one more.
LEMMA AppendMessages ==
  ASSUME NEW S, NEW q \in Seq(S), NEW m \in S
  PROVE  \E k : /\ k \notin DOMAIN q
                /\ DOMAIN Append(q, m) = DOMAIN q \cup {k}
                /\ Append(q, m)[k] = m
                /\ \A i \in DOMAIN q : Append(q, m)[i] = q[i]
<1>1. Len(q) \in Nat /\ DOMAIN q = 1 .. Len(q)
  BY LenProperties
<1>2. /\ Append(q, m) \in Seq(S) /\ Len(Append(q, m)) = Len(q) + 1
      /\ \A i \in 1 .. Len(q) : Append(q, m)[i] = q[i]
      /\ Append(q, m)[Len(q) + 1] = m
  BY AppendProperties
<1>3. DOMAIN Append(q, m) = 1 .. Len(q) + 1
  BY <1>2, LenProperties, Zenon
<1>4. Len(q) + 1 \notin 1 .. Len(q) /\ 1 .. Len(q) + 1 = 1 .. Len(q) \cup {Len(q) + 1}
  BY <1>1
<1> QED
  BY <1>1, <1>2, <1>3, <1>4, Zenon

\* An update outside a function's domain changes nothing.
LEMMA ExceptOutside ==
  ASSUME NEW D, NEW g, g = [x \in D |-> g[x]], NEW y, y \notin D, NEW v
  PROVE  [g EXCEPT ![y] = v] = g
OBVIOUS

\* A queued command finds its caller waiting for it.
LEMMA HeadWaits ==
  ASSUME CallsOK, WaitInv, queue # <<>>, Head(queue).from \in Callers
  PROVE  LET c == Head(queue).from
         IN /\ pc[c] = "waiting" /\ answer[c] = <<>>
            /\ cmd[c] = <<Head(queue).command>>
<1>1. 1 \in DOMAIN queue /\ Head(queue) = queue[1]
  BY TailMessages, Zenon DEF CallsOK
<1>2. /\ pc[Head(queue).from] = "waiting"
      /\ cmd[Head(queue).from] = <<Head(queue).command>>
  BY <1>1, ZenonT(30) DEF WaitInv, QueueOK
<1>3. pc[Head(queue).from] # "answered"
  BY <1>2
<1> QED
  BY <1>2, <1>3, Zenon DEF WaitInv, PhasesOK

\* Answering the head of the queue, whoever sent it.
LEMMA HeadAnswered ==
  ASSUME CallsOK, AnswersOK, WaitInv, queue # <<>>, NEW a,
         queue' = Tail(queue), Deliver(Head(queue), a), cmd' = cmd
  PROVE  WaitInv'
<1> DEFINE f == Head(queue).from
<1>1. Head(queue) \in Messages
  BY HeadIsCommand, Zenon
<1>2. /\ 1 \in DOMAIN queue /\ Head(queue) = queue[1]
      /\ \A i \in DOMAIN Tail(queue) : \E k \in DOMAIN queue :
           k = i + 1 /\ k # 1 /\ Tail(queue)[i] = queue[k]
      /\ \A k \in DOMAIN queue : k # 1 =>
           \E i \in DOMAIN Tail(queue) : Tail(queue)[i] = queue[k]
      /\ \A i, j \in DOMAIN Tail(queue) : i + 1 = j + 1 => i = j
  BY TailMessages, Zenon DEF CallsOK
<1>3. CASE f \in Callers
  <2>1. f # NoCaller
    BY <1>1, <1>3, FromCaller, Zenon
  <2>2. /\ pc' = [pc EXCEPT ![f] = "answered"]
        /\ answer' = [answer EXCEPT ![f] = <<a>>]
    BY <2>1, Zenon DEF Deliver
  <2>3. /\ pc'[f] = "answered" /\ \A c \in Callers : c # f => pc'[c] = pc[c]
        /\ \A c \in Callers : c # f => answer'[c] = answer[c]
    BY <1>3, <2>2, Zenon DEF CallsOK, AnswersOK
  <2>4. pc[f] = "waiting"
    BY <1>3, HeadWaits, Zenon
  <2>5. ASSUME NEW i \in DOMAIN Tail(queue) PROVE Tail(queue)[i].from # f
    <3>1. PICK k \in DOMAIN queue : k # 1 /\ Tail(queue)[i] = queue[k]
      BY <1>2, Zenon
    <3>2. queue[1].from = f
      BY <1>2, Zenon
    <3> HIDE DEF f
    <3> QED
      BY <1>2, <1>3, <3>1, <3>2, Zenon DEF WaitInv, QueueOK
  <2>6. "waiting" # "answered" /\ "idle" # "answered"
    OBVIOUS
  <2> HIDE DEF f
  <2>7. PhasesOK'
    BY <1>3, <2>3, <2>6, Zenon DEF WaitInv, PhasesOK
  <2>8. ASSUME NEW c \in Callers, pc'[c] = "waiting"
        PROVE  \E i \in DOMAIN queue' : queue'[i].from = c
    <3>1. c # f /\ pc[c] = "waiting"
      BY <2>3, <2>6, <2>8, Zenon
    <3>2. PICK i \in DOMAIN queue : queue[i].from = c
      BY <3>1, Zenon DEF WaitInv, QueueOK
    <3>3. i # 1
      BY <1>2, <3>1, <3>2, Zenon DEF f
    <3> QED
      BY <1>2, <3>2, <3>3, Zenon
  <2>9. ASSUME NEW i \in DOMAIN queue', queue'[i].from \in Callers
        PROVE  /\ pc'[queue'[i].from] = "waiting"
               /\ cmd'[queue'[i].from] = <<queue'[i].command>>
    <3>1. queue'[i].from # f /\ \E k \in DOMAIN queue : queue'[i] = queue[k]
      BY <1>2, <2>5, <2>9, Zenon
    <3>2. /\ pc[queue'[i].from] = "waiting"
          /\ cmd[queue'[i].from] = <<queue'[i].command>>
      BY <2>9, <3>1, Zenon DEF WaitInv, QueueOK
    <3> QED
      BY <2>3, <2>9, <3>1, <3>2, Zenon
  <2>10. ASSUME NEW i \in DOMAIN queue', NEW j \in DOMAIN queue',
                queue'[i].from \in Callers, queue'[i].from = queue'[j].from
         PROVE  i = j
    <3>1. PICK k \in DOMAIN queue : k = i + 1 /\ queue'[i] = queue[k]
      BY <1>2, Zenon
    <3>2. PICK l \in DOMAIN queue : l = j + 1 /\ queue'[j] = queue[l]
      BY <1>2, Zenon
    <3>3. k = l
      BY <2>10, <3>1, <3>2, Zenon DEF WaitInv, QueueOK
    <3> QED
      BY <1>2, <3>1, <3>2, <3>3, Zenon
  <2> QED
    BY <2>7, <2>8, <2>9, <2>10, Zenon DEF WaitInv, QueueOK
<1>4. CASE f \notin Callers
  <2>1. pc' = pc /\ answer' = answer
    <3> HIDE DEF f
    <3>1. pc = [c \in Callers |-> pc[c]]
      BY Zenon DEF CallsOK
    <3>2. answer = [c \in Callers |-> answer[c]]
      BY Zenon DEF AnswersOK
    <3>3. [pc EXCEPT ![f] = "answered"] = pc
      BY <1>4, <3>1, ExceptOutside, ZenonT(30)
    <3>4. [answer EXCEPT ![f] = <<a>>] = answer
      BY <1>4, <3>2, ExceptOutside
    <3> QED
      BY <3>3, <3>4, Zenon DEF Deliver, f
  <2>2. PhasesOK'
    BY <2>1, Zenon DEF WaitInv, PhasesOK
  <2> HIDE DEF f
  <2>3. ASSUME NEW c \in Callers, pc'[c] = "waiting"
        PROVE  \E i \in DOMAIN queue' : queue'[i].from = c
    <3>1. PICK i \in DOMAIN queue : queue[i].from = c
      BY <2>1, <2>3, Zenon DEF WaitInv, QueueOK
    <3>2. i # 1
      BY <1>2, <1>4, <3>1, Zenon DEF f
    <3> QED
      BY <1>2, <3>1, <3>2, Zenon
  <2>4. ASSUME NEW i \in DOMAIN queue', queue'[i].from \in Callers
        PROVE  /\ pc'[queue'[i].from] = "waiting"
               /\ cmd'[queue'[i].from] = <<queue'[i].command>>
    <3>1. \E k \in DOMAIN queue : queue'[i] = queue[k]
      BY <1>2, Zenon
    <3> QED
      BY <2>1, <2>4, <3>1, Zenon DEF WaitInv, QueueOK
  <2>5. ASSUME NEW i \in DOMAIN queue', NEW j \in DOMAIN queue',
               queue'[i].from \in Callers, queue'[i].from = queue'[j].from
        PROVE  i = j
    <3>1. PICK k \in DOMAIN queue : k = i + 1 /\ queue'[i] = queue[k]
      BY <1>2, Zenon
    <3>2. PICK l \in DOMAIN queue : l = j + 1 /\ queue'[j] = queue[l]
      BY <1>2, Zenon
    <3>3. k = l
      BY <2>5, <3>1, <3>2, Zenon DEF WaitInv, QueueOK
    <3> QED
      BY <1>2, <3>1, <3>2, <3>3, Zenon
  <2> QED
    BY <2>2, <2>3, <2>4, <2>5, Zenon DEF WaitInv, QueueOK
<1> QED
  BY <1>3, <1>4, Zenon

\* A step of a caller that has nothing queued, before and after it.
LEMMA CallerMoves ==
  ASSUME CallsOK, WaitInv, NEW c \in Callers, NEW s,
         pc[c] # "waiting", s # "waiting", queue' = queue,
         pc' = [pc EXCEPT ![c] = s],
         \A d \in Callers : d # c => cmd'[d] = cmd[d] /\ answer'[d] = answer[d],
         s = "idle" => cmd'[c] = <<>>, s # "answered" => answer'[c] = <<>>
  PROVE  WaitInv'
<1>1. pc'[c] = s /\ \A d \in Callers : d # c => pc'[d] = pc[d]
  BY Zenon DEF CallsOK
<1>2. PhasesOK'
  BY <1>1, Zenon DEF WaitInv, PhasesOK
<1>3. \A d \in Callers : pc'[d] = "waiting" <=> pc[d] = "waiting"
  BY <1>1, Zenon
<1>4. \A d \in Callers : pc[d] = "waiting" => cmd'[d] = cmd[d]
  BY Zenon
<1>5. QueueOK(queue)'
  BY <1>3, <1>4, Zenon DEF WaitInv, QueueOK
<1> QED
  BY <1>2, <1>5, Zenon DEF WaitInv

\* Steps that leave callers and queue alone.
LEMMA CallersUntouched ==
  ASSUME WaitInv, UNCHANGED callerVars, queue' = queue
  PROVE  WaitInv'
BY Zenon DEF WaitInv, PhasesOK, QueueOK, callerVars

\* A command is queued, and its caller waits.
LEMMA SendWaits ==
  ASSUME Inv, WaitInv, NEW c \in Callers, pc[c] = "cloned",
         queue' = Append(queue, CallOf(c, cmd[c][1])),
         pc' = [pc EXCEPT ![c] = "waiting"], cmd' = cmd, answer' = answer
  PROVE  WaitInv'
<1> DEFINE m == CallOf(c, cmd[c][1])
<1>1. cmd[c] \in Seq(Calls) /\ Len(cmd[c]) = 1
  BY Zenon DEF Inv, CallsOK
<1>2. cmd[c][1] \in Calls /\ cmd[c] = <<cmd[c][1]>>
  BY <1>1
<1>3. m \in Messages /\ m.from = c /\ cmd[c] = <<m.command>>
  BY <1>2, Zenon DEF CallOf, Messages
<1>4. pc[c] # "waiting" /\ pc[c] # "answered" /\ "waiting" # "idle"
  OBVIOUS
<1>5. pc'[c] = "waiting" /\ \A d \in Callers : d # c => pc'[d] = pc[d]
  BY Zenon DEF Inv, CallsOK
<1> HIDE DEF m
<1>6. PICK k : /\ k \notin DOMAIN queue
               /\ DOMAIN queue' = DOMAIN queue \cup {k}
               /\ queue'[k] = m
               /\ \A i \in DOMAIN queue : queue'[i] = queue[i]
  <2>1. queue' = Append(queue, m)
    BY Zenon DEF m
  <2>2. queue \in Seq(Messages)
    BY Zenon DEF Inv, CallsOK
  <2>3. m \in Messages
    BY <1>3, Zenon
  <2>4. \E k : /\ k \notin DOMAIN queue
               /\ DOMAIN Append(queue, m) = DOMAIN queue \cup {k}
               /\ Append(queue, m)[k] = m
               /\ \A i \in DOMAIN queue : Append(queue, m)[i] = queue[i]
    BY <2>2, <2>3, AppendMessages, SMT
  <2> QED
    BY <2>1, <2>4, Zenon
<1>7. PhasesOK'
  BY <1>4, <1>5, Zenon DEF WaitInv, PhasesOK
<1>8. \A i \in DOMAIN queue : queue[i].from # c
  BY <1>4, Zenon DEF WaitInv, QueueOK
<1>9. ASSUME NEW d \in Callers, pc'[d] = "waiting"
      PROVE  \E i \in DOMAIN queue' : queue'[i].from = d
  <2>1. CASE d = c
    BY <1>3, <1>6, <2>1, Zenon
  <2>2. CASE d # c
    <3>1. PICK i \in DOMAIN queue : queue[i].from = d
      BY <1>5, <1>9, <2>2, Zenon DEF WaitInv, QueueOK
    <3> QED
      BY <1>6, <3>1, Zenon
  <2> QED
    BY <2>1, <2>2, Zenon
<1>10. ASSUME NEW i \in DOMAIN queue', queue'[i].from \in Callers
       PROVE  /\ pc'[queue'[i].from] = "waiting"
              /\ cmd'[queue'[i].from] = <<queue'[i].command>>
  <2>1. CASE i = k
    BY <1>3, <1>5, <1>6, <2>1, Zenon
  <2>2. CASE i # k
    <3>1. i \in DOMAIN queue /\ queue'[i] = queue[i] /\ queue[i].from # c
      BY <1>6, <1>8, <2>2, Zenon
    <3>2. /\ pc[queue'[i].from] = "waiting"
          /\ cmd[queue'[i].from] = <<queue'[i].command>>
      BY <1>10, <3>1, ZenonT(30) DEF WaitInv, QueueOK
    <3> QED
      BY <1>5, <1>10, <3>1, <3>2, Zenon
  <2> QED
    BY <2>1, <2>2, Zenon
<1>11. ASSUME NEW i \in DOMAIN queue', NEW j \in DOMAIN queue',
              queue'[i].from \in Callers, queue'[i].from = queue'[j].from
       PROVE  i = j
  <2>1. CASE i = k /\ j # k
    BY <1>3, <1>6, <1>8, <1>11, <2>1, Zenon
  <2>2. CASE i # k /\ j = k
    BY <1>3, <1>6, <1>8, <1>11, <2>2, Zenon
  <2>3. CASE i # k /\ j # k
    <3>1. /\ i \in DOMAIN queue /\ queue'[i] = queue[i]
          /\ j \in DOMAIN queue /\ queue'[j] = queue[j]
      BY <1>6, <2>3, Zenon
    <3> QED
      BY <1>11, <3>1, Zenon DEF WaitInv, QueueOK
  <2> QED
    BY <2>1, <2>2, <2>3, Zenon
<1> QED
  BY <1>7, <1>9, <1>10, <1>11, Zenon DEF WaitInv, QueueOK

\* What cancelling a call does to the messages of the queue.
LEMMA OrphanedMessages ==
  ASSUME CallsOK, NEW c \in Callers,
         queue' = [i \in DOMAIN queue |-> Orphan(c, queue[i])]
  PROVE  /\ DOMAIN queue' = DOMAIN queue
         /\ \A i \in DOMAIN queue :
              /\ queue[i] \in Messages
              /\ queue[i].from # c => queue'[i] = queue[i]
              /\ queue[i].from = c =>
                   /\ queue[i].kind = "call" /\ queue'[i].kind = "call"
                   /\ queue'[i].from = NoCaller
                   /\ queue'[i].command = queue[i].command
<1>1. DOMAIN queue' = DOMAIN queue
  BY Zenon
<1>2. \A i \in DOMAIN queue : queue[i] \in Messages
  BY ElementOfSeq, LenProperties, Zenon DEF CallsOK
<1>3. ASSUME NEW i \in DOMAIN queue, queue[i].from # c PROVE queue'[i] = queue[i]
  BY <1>3, Zenon DEF Orphan
<1>4. ASSUME NEW i \in DOMAIN queue, queue[i].from = c
      PROVE  /\ queue[i].kind = "call" /\ queue'[i].kind = "call"
             /\ queue'[i].from = NoCaller
             /\ queue'[i].command = queue[i].command
  <2>1. queue[i].kind = "call"
    BY <1>2, <1>4, FromCaller, Zenon
  <2>2. queue'[i] = [queue[i] EXCEPT !.from = NoCaller]
    BY <1>4, <2>1, Zenon DEF Orphan
  <2>3. queue[i] \in [kind: {"call"}, from: Callers \cup {NoCaller}, command: Calls]
    BY <1>2, <2>1, Zenon DEF Messages
  <2> QED
    BY <2>1, <2>2, <2>3, Zenon
<1> QED
  BY <1>1, <1>2, <1>3, <1>4, Zenon

\* A caller goes away, and leaves its command to nobody.
LEMMA CancelWaits ==
  ASSUME Inv, AnswersOK, WaitInv, NEW c \in Callers, Cancel(c)
  PROVE  WaitInv'
<1>1. /\ pc[c] = "waiting" /\ answer' = answer
      /\ queue' = [i \in DOMAIN queue |-> Orphan(c, queue[i])]
      /\ pc'[c] = "idle" /\ \A d \in Callers : d # c => pc'[d] = pc[d]
      /\ cmd'[c] = <<>> /\ \A d \in Callers : d # c => cmd'[d] = cmd[d]
  BY Zenon DEF Cancel, Inv, CallsOK
<1>2. "waiting" # "answered" /\ "idle" # "waiting"
  OBVIOUS
<1>3. PhasesOK'
  BY <1>1, <1>2, Zenon DEF WaitInv, PhasesOK
<1>4. /\ DOMAIN queue' = DOMAIN queue
      /\ \A i \in DOMAIN queue :
           /\ queue[i].from # c => queue'[i] = queue[i]
           /\ queue[i].from = c => queue'[i].from = NoCaller
  BY <1>1, OrphanedMessages, Zenon DEF Inv
<1>5. \A i \in DOMAIN queue' : queue'[i].from \in Callers =>
        queue[i].from # c /\ queue'[i] = queue[i]
  BY <1>4, CallersAssumption, Zenon
<1>6. QueueOK(queue)'
  <2>1. ASSUME NEW d \in Callers, pc'[d] = "waiting"
        PROVE  \E i \in DOMAIN queue' : queue'[i].from = d
    <3>1. d # c /\ pc[d] = "waiting"
      BY <1>1, <1>2, <2>1, Zenon
    <3>2. PICK i \in DOMAIN queue : queue[i].from = d
      BY <3>1, Zenon DEF WaitInv, QueueOK
    <3> QED
      BY <1>4, <3>1, <3>2, Zenon
  <2>2. ASSUME NEW i \in DOMAIN queue', queue'[i].from \in Callers
        PROVE  /\ pc'[queue'[i].from] = "waiting"
               /\ cmd'[queue'[i].from] = <<queue'[i].command>>
    <3>1. queue[i].from # c /\ queue'[i] = queue[i] /\ i \in DOMAIN queue
      BY <1>4, <1>5, <2>2, Zenon
    <3>2. /\ pc[queue[i].from] = "waiting"
          /\ cmd[queue[i].from] = <<queue[i].command>>
      BY <2>2, <3>1, Zenon DEF WaitInv, QueueOK
    <3> QED
      BY <1>1, <2>2, <3>1, <3>2, Zenon
  <2>3. ASSUME NEW i \in DOMAIN queue', NEW j \in DOMAIN queue',
               queue'[i].from \in Callers, queue'[i].from = queue'[j].from
        PROVE  i = j
    <3>1. /\ queue'[i] = queue[i] /\ i \in DOMAIN queue
          /\ queue'[j] = queue[j] /\ j \in DOMAIN queue
      BY <1>4, <1>5, <2>3, Zenon
    <3> QED
      BY <2>3, <3>1, Zenon DEF WaitInv, QueueOK
  <2> QED
    BY <2>1, <2>2, <2>3, Zenon DEF QueueOK
<1> QED
  BY <1>3, <1>6, Zenon DEF WaitInv

\* A shutdown message is queued.
LEMMA ShutdownWaits ==
  ASSUME Inv, WaitInv, NEW k \in Closers,
         queue' = Append(queue, ShutdownOf(k)), UNCHANGED callerVars
  PROVE  WaitInv'
<1> DEFINE m == ShutdownOf(k)
<1>1. m \in Messages /\ m.from \notin Callers
  BY CallersAssumption, Zenon DEF ShutdownOf, Messages
<1>2. pc' = pc /\ cmd' = cmd /\ answer' = answer
  BY Zenon DEF callerVars
<1> HIDE DEF m
<1>3. PICK l : /\ l \notin DOMAIN queue
               /\ DOMAIN queue' = DOMAIN queue \cup {l}
               /\ queue'[l] = m
               /\ \A i \in DOMAIN queue : queue'[i] = queue[i]
  <2>1. queue' = Append(queue, m)
    BY Zenon DEF m
  <2>2. queue \in Seq(Messages)
    BY Zenon DEF Inv, CallsOK
  <2>3. m \in Messages
    BY <1>1, Zenon
  <2>4. \E l : /\ l \notin DOMAIN queue
               /\ DOMAIN Append(queue, m) = DOMAIN queue \cup {l}
               /\ Append(queue, m)[l] = m
               /\ \A i \in DOMAIN queue : Append(queue, m)[i] = queue[i]
    BY <2>2, <2>3, AppendMessages, SMT
  <2> QED
    BY <2>1, <2>4, Zenon
<1>4. PhasesOK'
  BY <1>2, Zenon DEF WaitInv, PhasesOK
<1>5. \A i \in DOMAIN queue' : queue'[i].from \in Callers =>
        i \in DOMAIN queue /\ queue'[i] = queue[i]
  BY <1>1, <1>3, Zenon
<1>6. ASSUME NEW d \in Callers, pc'[d] = "waiting"
      PROVE  \E i \in DOMAIN queue' : queue'[i].from = d
  <2>1. PICK i \in DOMAIN queue : queue[i].from = d
    BY <1>2, <1>6, Zenon DEF WaitInv, QueueOK
  <2> QED
    BY <1>3, <2>1, Zenon
<1>7. ASSUME NEW i \in DOMAIN queue', queue'[i].from \in Callers
      PROVE  /\ pc'[queue'[i].from] = "waiting"
             /\ cmd'[queue'[i].from] = <<queue'[i].command>>
  <2>1. i \in DOMAIN queue /\ queue'[i] = queue[i]
    BY <1>5, <1>7, Zenon
  <2>2. /\ pc[queue'[i].from] = "waiting"
        /\ cmd[queue'[i].from] = <<queue'[i].command>>
    BY <1>7, <2>1, Zenon DEF WaitInv, QueueOK
  <2> QED
    BY <1>2, <2>2, Zenon
<1>8. ASSUME NEW i \in DOMAIN queue', NEW j \in DOMAIN queue',
             queue'[i].from \in Callers, queue'[i].from = queue'[j].from
      PROVE  i = j
  <2>1. /\ i \in DOMAIN queue /\ queue'[i] = queue[i]
        /\ j \in DOMAIN queue /\ queue'[j] = queue[j]
    BY <1>5, <1>8, Zenon
  <2> QED
    BY <1>8, <2>1, Zenon DEF WaitInv, QueueOK
<1> QED
  BY <1>4, <1>6, <1>7, <1>8, Zenon DEF WaitInv, QueueOK

\* A shutdown message is taken.
LEMMA ShutdownTaken ==
  ASSUME CallsOK, AnswersOK, WaitInv, TakeShutdown
  PROVE  WaitInv'
<1>1. /\ queue # <<>> /\ queue' = Tail(queue) /\ UNCHANGED callerVars
      /\ Head(queue).kind = "shutdown"
  BY Zenon DEF TakeShutdown
<1>2. pc' = pc /\ cmd' = cmd /\ answer' = answer
  BY <1>1, Zenon DEF callerVars
<1>3. Head(queue).from \notin Callers
  BY <1>1, HeadIsCommand, FromCaller
<1>4. \A v : [answer EXCEPT ![Head(queue).from] = v] = answer
  <2>1. answer = [c \in Callers |-> answer[c]]
    BY Zenon DEF AnswersOK
  <2> QED
    BY <1>3, <2>1, ExceptOutside
<1>5. \A v : [pc EXCEPT ![Head(queue).from] = v] = pc
  <2>1. pc = [c \in Callers |-> pc[c]]
    BY Zenon DEF CallsOK
  <2> QED
    BY <1>3, <2>1, ExceptOutside
<1>6. Deliver(Head(queue), Lost)
  BY <1>2, <1>4, <1>5, Zenon DEF Deliver
<1> QED
  BY <1>1, <1>2, <1>6, HeadAnswered, Zenon

\* Every step, a loss of power included, keeps the queue and the callers that
\* wait in agreement.
LEMMA WaitStep == Inv /\ AnswersOK /\ WaitInv /\ [PowerNext]_vars => WaitInv'
<1> SUFFICES ASSUME Inv, AnswersOK, WaitInv, [PowerNext]_vars PROVE WaitInv'
  BY Zenon
<1>0. CallsOK /\ pc \in [Callers -> Phases] /\ cmd \in [Callers -> Seq(Calls)]
  BY Zenon DEF Inv, CallsOK
<1>1. ASSUME NEW c \in Callers, NEW command \in Calls, Call(c, command)
      PROVE  WaitInv'
  <2>1. /\ pc[c] = "idle" /\ queue' = queue /\ answer' = answer
        /\ pc' = [pc EXCEPT ![c] = "called"]
        /\ \A d \in Callers : d # c => cmd'[d] = cmd[d]
    BY <1>0, <1>1, Zenon DEF Call
  <2>2. pc[c] # "waiting" /\ pc[c] # "answered" /\ "called" # "waiting"
        /\ "called" # "idle"
    BY <2>1
  <2>3. answer'[c] = <<>>
    BY <2>1, <2>2, Zenon DEF WaitInv, PhasesOK
  <2> QED
    BY <1>0, <2>1, <2>2, <2>3, CallerMoves, Zenon
<1>2. ASSUME NEW c \in Callers, NEW r, Refuse(c, r), pc[c] # "waiting"
      PROVE  WaitInv'
  <2>1. /\ queue' = queue /\ cmd' = cmd
        /\ pc' = [pc EXCEPT ![c] = "answered"]
        /\ \A d \in Callers : d # c => answer'[d] = answer[d]
    BY <1>2, Zenon DEF Refuse, AnswersOK
  <2>2. "answered" # "waiting" /\ "answered" # "idle"
    OBVIOUS
  <2> QED
    BY <1>0, <1>2, <2>1, <2>2, CallerMoves, Zenon
<1>3. ASSUME NEW c \in Callers, NEW s \in {"checked", "cloned"}, Proceed(c, s),
             pc[c] \in {"called", "checked"}
      PROVE  WaitInv'
  <2>1. /\ queue' = queue /\ cmd' = cmd /\ answer' = answer
        /\ pc' = [pc EXCEPT ![c] = s]
    BY <1>3, Zenon DEF Proceed
  <2>2. pc[c] # "waiting" /\ pc[c] # "answered" /\ s # "waiting" /\ s # "idle"
    BY <1>3
  <2>3. answer'[c] = <<>>
    BY <2>1, <2>2, Zenon DEF WaitInv, PhasesOK
  <2> QED
    BY <1>0, <2>1, <2>2, <2>3, CallerMoves, Zenon
<1>4. ASSUME NEW c \in Callers, CheckClosed(c) \/ CloneSender(c) \/ TrySend(c)
      PROVE  WaitInv'
  <2>1. pc[c] \in {"called", "checked", "cloned"}
    BY <1>4, Zenon DEF CheckClosed, CloneSender, TrySend
  <2>2. pc[c] # "waiting"
    BY <2>1
  <2> QED
    BY <1>2, <1>3, <1>4, <2>2, SendWaits, Zenon
       DEF CheckClosed, CloneSender, TrySend
<1>5. ASSUME NEW c \in Callers, Return(c) PROVE WaitInv'
  <2>1. /\ queue' = queue /\ pc[c] = "answered"
        /\ pc' = [pc EXCEPT ![c] = "idle"]
        /\ cmd'[c] = <<>> /\ answer'[c] = <<>>
        /\ \A d \in Callers : d # c => cmd'[d] = cmd[d] /\ answer'[d] = answer[d]
    BY <1>0, <1>5, Zenon DEF Return, AnswersOK
  <2>2. pc[c] # "waiting" /\ "idle" # "waiting"
    BY <2>1
  <2> QED
    BY <1>0, <2>1, <2>2, CallerMoves, Zenon
<1>6. ASSUME NEW c \in Callers, Dispatch(c) \/ Receive(c) PROVE WaitInv'
  BY <1>1, <1>4, <1>5, <1>6, CancelWaits, Zenon DEF Dispatch, Receive
<1>7. CASE Execute \/ ExecuteFails
  BY <1>0, <1>7, HeadAnswered, Zenon DEF Execute, ExecuteFails, Take
<1>8. CASE Discard
  BY <1>0, <1>8, HeadAnswered, Zenon DEF Discard
<1>9. ASSUME NEW k \in Closers, CloseSend(k) PROVE WaitInv'
  BY <1>9, ShutdownWaits, Zenon DEF CloseSend
<1>10. ASSUME NEW k \in Closers,
              CloseSwap(k, FALSE) \/ CloseTake(k) \/ CloseTakeJoin(k) \/ CloseJoined(k)
       PROVE  WaitInv'
  BY <1>10, CallersUntouched, Zenon DEF CloseSwap, CloseTake, CloseTakeJoin,
       CloseJoined
<1>11. CASE RecvNone \/ DropReceiver \/ ThreadEnds \/ DropHandle
  BY <1>11, CallersUntouched, Zenon DEF RecvNone, DropReceiver, ThreadEnds, DropHandle
<1>12. CASE Shutdown
  BY <1>0, <1>8, <1>9, <1>10, <1>11, <1>12, ShutdownTaken, Zenon
     DEF Shutdown, ThreadEnding, CloserStep
<1>13. CASE ProcessDies
  <2>1. /\ \A c \in Callers : pc'[c] = "idle" /\ cmd'[c] = <<>> /\ answer'[c] = <<>>
        /\ queue' = <<>>
    BY <1>13, Zenon DEF ProcessDies
  <2>2. DOMAIN queue' = {} /\ "idle" # "waiting"
    BY <2>1
  <2> QED
    BY <2>1, <2>2, Zenon DEF WaitInv, PhasesOK, QueueOK
<1>14. CASE Crash \/ \E n \in 0 .. MaxRows : PowerLoss(n)
  BY <1>13, <1>14, Zenon DEF Crash, PowerLoss
<1>15. CASE Open
  BY <1>15, CallersUntouched, Zenon DEF Open, WorkerStarts
<1>16. CASE UNCHANGED vars
  BY <1>16, CallersUntouched, Zenon DEF vars, workerVars
<1> QED
  BY <1>6, <1>7, <1>12, <1>14, <1>15, <1>16, Zenon DEF PowerNext, Next

-----------------------------------------------------------------------------
(* The table as the log.                                                   *)

\* The sequence of the rows.
LEMMA LogFacts ==
  ASSUME NEW n \in Nat, NEW tb \in [0 .. n - 1 -> Events]
  PROVE  /\ AsLog(tb) \in Seq(Events) /\ Len(AsLog(tb)) = n
         /\ \A k \in 0 .. n - 1 : AsLog(tb)[k + 1] = tb[k]
<1>1. AsLog(tb) = [i \in 1 .. n |-> tb[i - 1]]
  BY CountOfContiguous, Zenon DEF AsLog
<1>2. \A i \in 1 .. n : i - 1 \in 0 .. n - 1
  OBVIOUS
<1>3. AsLog(tb) \in [1 .. n -> Events]
  BY <1>1, <1>2, Zenon
<1>4. AsLog(tb) \in Seq(Events) /\ Len(AsLog(tb)) = n
  BY <1>3
<1>5. ASSUME NEW k \in 0 .. n - 1 PROVE AsLog(tb)[k + 1] = tb[k]
  <2>1. k + 1 \in 1 .. n /\ (k + 1) - 1 = k
    OBVIOUS
  <2> QED
    BY <1>1, <2>1, Zenon
<1> QED
  BY <1>4, <1>5, Zenon

\* A new row is a new last item.
LEMMA LogAppended ==
  ASSUME NEW n \in Nat, NEW tb \in [0 .. n - 1 -> Events], NEW e \in Events,
         RowsWithId(tb, e.id) = {}
  PROVE  /\ AppendEvent(tb, e) \in [0 .. (n + 1) - 1 -> Events]
         /\ AppendEvent(tb, e)[n] = e
         /\ AsLog(AppendEvent(tb, e)) = Append(AsLog(tb), e)
<1> DEFINE new == AppendEvent(tb, e)
<1>1. CurrentCount(tb) = n
  BY CountOfContiguous, Zenon
<1>2. new = [m \in DOMAIN tb \cup {n} |-> IF m = n THEN e ELSE tb[m]]
  BY <1>1, Zenon DEF AppendEvent
<1>3. DOMAIN tb = 0 .. n - 1 /\ DOMAIN tb \cup {n} = 0 .. (n + 1) - 1
  OBVIOUS
<1>4. /\ new \in [0 .. (n + 1) - 1 -> Events] /\ n + 1 \in Nat /\ new[n] = e
      /\ \A k \in 0 .. n - 1 : new[k] = tb[k]
  BY <1>2, <1>3
<1> HIDE DEF new
<1>5. /\ AsLog(tb) \in Seq(Events) /\ Len(AsLog(tb)) = n
      /\ \A k \in 0 .. n - 1 : AsLog(tb)[k + 1] = tb[k]
  BY LogFacts, Zenon
<1>6. /\ AsLog(new) \in Seq(Events) /\ Len(AsLog(new)) = n + 1
      /\ \A k \in 0 .. (n + 1) - 1 : AsLog(new)[k + 1] = new[k]
  BY <1>4, LogFacts, Zenon
<1>7. /\ Append(AsLog(tb), e) \in Seq(Events)
      /\ Len(Append(AsLog(tb), e)) = n + 1
      /\ \A i \in 1 .. n : Append(AsLog(tb), e)[i] = AsLog(tb)[i]
      /\ Append(AsLog(tb), e)[n + 1] = e
  BY <1>5, AppendProperties
<1>8. ASSUME NEW i \in 1 .. n + 1
      PROVE  AsLog(new)[i] = Append(AsLog(tb), e)[i]
  <2>1. CASE i = n + 1
    BY <1>4, <1>6, <1>7, <2>1
  <2>2. CASE i # n + 1
    <3>1. PICK k \in 0 .. n - 1 : i = k + 1 /\ i \in 1 .. n
      BY <2>2
    <3>2. k \in 0 .. (n + 1) - 1
      OBVIOUS
    <3> QED
      BY <1>4, <1>5, <1>6, <1>7, <3>1, <3>2, Zenon
  <2> QED
    BY <2>1, <2>2, Zenon
<1>9. AsLog(new) = Append(AsLog(tb), e)
  BY <1>6, <1>7, <1>8, SeqEqual
<1> QED
  BY <1>4, <1>9, Zenon DEF new

\* The positions of the log are the rows of the table.
LEMMA LogPositions ==
  ASSUME NEW n \in Nat, table \in [0 .. n - 1 -> Events]
  PROVE  /\ Log!Positions = 0 .. n - 1 /\ Log!Positions = DOMAIN table
         /\ \A k \in Log!Positions : AsLog(table)[k + 1] = table[k]
<1>1. Len(AsLog(table)) = n /\ \A k \in 0 .. n - 1 : AsLog(table)[k + 1] = table[k]
  BY LogFacts, Zenon
<1>2. Log!Positions = 0 .. n - 1
  BY <1>1, Zenon DEF Log!Positions
<1> QED
  BY <1>1, <1>2, Zenon

\* A command changes the table as it changes the log.
LEMMA EffectIsLogged ==
  ASSUME TableOK, NEW command \in StoreCommands,
         table' = EffectOf(table, command)
  PROVE  Log!Effect(command)
<1>1. PICK n \in Nat : table \in [0 .. n - 1 -> Events]
  BY Zenon DEF TableOK, Contiguous
<1>2. CASE command.kind = "append"
  <2>1. command.event \in Events /\ table' = AppendEvent(table, command.event)
    BY <1>2, Zenon DEF StoreCommands, EffectOf
  <2>2. (\A k \in Log!Positions : AsLog(table)[k + 1].id # command.event.id)
          <=> RowsWithId(table, command.event.id) = {}
    BY <1>1, LogPositions, Zenon DEF RowsWithId
  <2>3. CASE RowsWithId(table, command.event.id) = {}
    <3>1. AsLog(AppendEvent(table, command.event))
            = Append(AsLog(table), command.event)
      <4>1. \A e \in Events : RowsWithId(table, e.id) = {} =>
              AsLog(AppendEvent(table, e)) = Append(AsLog(table), e)
        BY <1>1, LogAppended, Zenon
      <4> QED
        BY <2>1, <2>3, <4>1, Zenon
    <3> QED
      BY <1>2, <2>1, <2>2, <2>3, <3>1, Zenon DEF Log!Effect
  <2>4. CASE RowsWithId(table, command.event.id) # {}
    <3>1. table' = table
      BY <2>1, <2>4, Zenon DEF AppendEvent
    <3> QED
      BY <2>2, <2>4, <3>1, Zenon DEF Log!Effect
  <2> QED
    BY <2>3, <2>4, Zenon
<1>3. CASE command.kind # "append"
  <2>1. table' = table
    BY <1>3, Zenon DEF EffectOf
  <2> QED
    BY <1>3, <2>1, Zenon DEF Log!Effect
<1> QED
  BY <1>2, <1>3, Zenon

\* A stored event is answered with its row of the log.
LEMMA RowIsLogged ==
  ASSUME NEW n \in Nat, table' \in [0 .. n - 1 -> Events], NEW k \in 0 .. n - 1
  PROVE  /\ Log!IsRow(StoredEvent(table', k, epoch), k)
         /\ k \in 0 .. Len(AsLog(table')) - 1
         /\ AsLog(table')[k + 1] = table'[k]
<1>1. Len(AsLog(table')) = n /\ AsLog(table')[k + 1] = table'[k]
  BY LogFacts, Zenon
<1> DEFINE a == StoredEvent(table', k, epoch)
<1>2. /\ a.tag = "ok" /\ a.rows = [m \in {k} |-> table'[m]]
      /\ a.token = <<[epoch |-> epoch, position |-> k + 1]>>
  BY Zenon DEF StoredEvent, Ok, RowsOf
<1>3. DOMAIN a.rows = {k} /\ a.rows[k] = table'[k]
  BY <1>2, Zenon
<1> HIDE DEF a
<1>4. Log!IsRow(a, k)
  BY <1>1, <1>2, <1>3, Zenon DEF Log!IsRow
<1> QED
  BY <1>1, <1>4, Zenon DEF a

\* append() is answered as the log answers it.
LEMMA AppendIsLogged ==
  ASSUME TableOK, NEW e \in Events, table' = AppendEvent(table, e)
  PROVE  Log!AppendAnswered(e, AppendAnswer(table, e, epoch))
<1> DEFINE same == RowsWithId(table, e.id)
           row == CHOOSE k \in same : TRUE
           a == AppendAnswer(table, e, epoch)
           Other == \E k \in Log!Positions :
                      AsLog(table)[k + 1].id = e.id /\ AsLog(table)[k + 1] # e
<1>1. PICK n \in Nat : table \in [0 .. n - 1 -> Events]
  BY Zenon DEF TableOK, Contiguous
<1>2. Other <=> \E k \in DOMAIN table : table[k].id = e.id /\ table[k] # e
  BY <1>1, LogPositions, Zenon
<1>3. CASE same = {}
  <2>1. table' \in [0 .. (n + 1) - 1 -> Events] /\ table'[n] = e
    BY <1>1, <1>3, LogAppended, Zenon
  <2>2. a = StoredEvent(table', n, epoch)
    <3>1. CurrentCount(table) = n
      BY <1>1, CountOfContiguous, Zenon
    <3> QED
      BY <1>3, <3>1, Zenon DEF AppendAnswer
  <2>3. n + 1 \in Nat /\ n \in 0 .. (n + 1) - 1
    OBVIOUS
  <2>4. ~Other
    BY <1>2, <1>3, Zenon DEF RowsWithId
  <2> HIDE DEF a, Other
  <2>5. \E k \in 0 .. Len(AsLog(table')) - 1 :
          AsLog(table')[k + 1] = e /\ Log!IsRow(a, k)
    BY <2>1, <2>2, <2>3, RowIsLogged, Zenon
  <2> QED
    BY <2>4, <2>5, Zenon DEF Log!AppendAnswered, a, Other
<1>4. CASE same # {}
  <2>1. table' = table
    BY <1>4, Zenon DEF AppendEvent
  <2>2. row \in same /\ row \in DOMAIN table /\ table[row].id = e.id
    BY <1>4, Zenon DEF RowsWithId
  <2>3. a = IF table[row] = e THEN StoredEvent(table, row, epoch) ELSE EventConflict
    BY <1>4, Zenon DEF AppendAnswer
  <2>4. \A k \in DOMAIN table : table[k].id = e.id => k = row
    BY <2>2, Zenon DEF TableOK, NoDuplicates
  <2> HIDE DEF a, row, Other
  <2>5. CASE table[row] = e
    <3>1. ~Other
      BY <1>2, <2>4, <2>5, Zenon
    <3>2. row \in 0 .. n - 1 /\ table' \in [0 .. n - 1 -> Events]
      BY <1>1, <2>1, <2>2, Zenon
    <3>3. \E k \in 0 .. Len(AsLog(table')) - 1 :
            AsLog(table')[k + 1] = e /\ Log!IsRow(a, k)
      BY <2>1, <2>3, <2>5, <3>2, RowIsLogged, Zenon
    <3> QED
      BY <3>1, <3>3, Zenon DEF Log!AppendAnswered, a, Other
  <2>6. CASE table[row] # e
    <3>1. Other
      BY <1>2, <2>2, <2>6, Zenon
    <3>2. a.tag = "conflict"
      BY <2>3, <2>6, Zenon DEF EventConflict
    <3> QED
      BY <3>1, <3>2, Zenon DEF Log!AppendAnswered, a, Other
  <2> QED
    BY <2>5, <2>6, Zenon
<1> QED
  BY <1>3, <1>4, Zenon

\* get_by_id() is answered as the log answers it.
LEMMA GetIsLogged ==
  ASSUME TableOK, NEW id, table' = table
  PROVE  Log!GetAnswered(id, GetAnswer(table, id, epoch))
<1> DEFINE same == RowsWithId(table, id)
           row == CHOOSE k \in same : TRUE
           a == GetAnswer(table, id, epoch)
<1>1. PICK n \in Nat : table \in [0 .. n - 1 -> Events]
  BY Zenon DEF TableOK, Contiguous
<1>2. /\ Log!Positions = 0 .. n - 1 /\ Log!Positions = DOMAIN table
      /\ \A k \in Log!Positions : AsLog(table)[k + 1] = table[k]
  BY <1>1, LogPositions, Zenon
<1>3. CASE same = {}
  <2>1. a.tag = "ok" /\ DOMAIN a.rows = {} /\ a.token = <<>>
    BY <1>3, Zenon DEF GetAnswer, Ok, NoRows
  <2>2. \A k \in Log!Positions : AsLog(table)[k + 1].id # id
    BY <1>2, <1>3, Zenon DEF RowsWithId
  <2> HIDE DEF a
  <2> QED
    BY <2>1, <2>2, Zenon DEF Log!GetAnswered, a
<1>4. CASE same # {}
  <2>1. row \in DOMAIN table /\ table[row].id = id
    BY <1>4, Zenon DEF RowsWithId
  <2>2. a = StoredEvent(table', row, epoch)
    BY <1>4, Zenon DEF GetAnswer
  <2> HIDE DEF a, row
  <2>3. Log!IsRow(a, row) /\ AsLog(table)[row + 1].id = id
    BY <1>1, <1>2, <2>1, <2>2, RowIsLogged, Zenon
  <2> QED
    BY <1>2, <2>1, <2>3, Zenon DEF Log!GetAnswered, a
<1> QED
  BY <1>3, <1>4, Zenon

\* A checkpoint is the length of the log.
LEMMA CaptureIsLogged ==
  ASSUME TableOK
  PROVE  Log!CaptureAnswered(CaptureCheckpoint(table, epoch))
<1>1. PICK n \in Nat : table \in [0 .. n - 1 -> Events]
  BY Zenon DEF TableOK, Contiguous
<1>2. CurrentCount(table) = Len(AsLog(table))
  BY <1>1, CountOfContiguous, LogFacts, Zenon
<1> QED
  BY <1>2, Zenon DEF Log!CaptureAnswered, CaptureCheckpoint, Ok, NoRows

-----------------------------------------------------------------------------
(* Commands whose callers have gone.                                       *)

\* An orphan is a queued command without a caller.
LEMMA OrphanOut ==
  ASSUME NEW q, NEW x \in Orphaned(q)
  PROVE  \E i \in DOMAIN q : /\ q[i].kind = "call" /\ q[i].from = NoCaller
                             /\ x = q[i].command
BY Zenon DEF Orphaned

\* A queued command without a caller is an orphan.
LEMMA OrphanIn ==
  ASSUME NEW q, NEW i \in DOMAIN q, q[i].kind = "call", q[i].from = NoCaller
  PROVE  q[i].command \in Orphaned(q)
BY Zenon DEF Orphaned

\* The orphans left when the head of the queue is taken.
LEMMA TailOrphans ==
  ASSUME CallsOK, queue # <<>>, queue' = Tail(queue)
  PROVE  LET m == Head(queue)
             O == Orphaned(queue)
         IN IF m.kind = "call" /\ m.from = NoCaller
            THEN m.command \in O /\ Orphaned(queue') \in {O, O \ {m.command}}
            ELSE Orphaned(queue') = O
<1> DEFINE m == Head(queue)
           O == Orphaned(queue)
           P == Orphaned(queue')
<1>1. /\ 1 \in DOMAIN queue /\ m = queue[1]
      /\ \A i \in DOMAIN Tail(queue) : \E k \in DOMAIN queue :
           k = i + 1 /\ k # 1 /\ Tail(queue)[i] = queue[k]
      /\ \A k \in DOMAIN queue : k # 1 =>
           \E i \in DOMAIN Tail(queue) : Tail(queue)[i] = queue[k]
  BY TailMessages, Zenon DEF CallsOK
<1>2. P \subseteq O
  <2>1. ASSUME NEW x \in P PROVE x \in O
    <3>1. PICK i \in DOMAIN queue' :
            /\ queue'[i].kind = "call" /\ queue'[i].from = NoCaller
            /\ x = queue'[i].command
      BY <2>1, OrphanOut, Zenon
    <3>2. PICK k \in DOMAIN queue : queue'[i] = queue[k]
      BY <1>1, Zenon
    <3> QED
      BY <3>1, <3>2, OrphanIn, Zenon
  <2> QED
    BY <2>1, Zenon
<1>3. ASSUME NEW x \in O
      PROVE  \/ x \in P
             \/ m.kind = "call" /\ m.from = NoCaller /\ x = m.command
  <2>1. PICK k \in DOMAIN queue :
          /\ queue[k].kind = "call" /\ queue[k].from = NoCaller
          /\ x = queue[k].command
    BY <1>3, OrphanOut, Zenon
  <2>2. CASE k = 1
    BY <1>1, <2>1, <2>2, Zenon
  <2>3. CASE k # 1
    <3>1. PICK i \in DOMAIN queue' : queue'[i] = queue[k]
      BY <1>1, <2>3, Zenon
    <3> QED
      BY <2>1, <3>1, OrphanIn, Zenon
  <2> QED
    BY <2>2, <2>3, Zenon
<1>4. m.kind = "call" /\ m.from = NoCaller => m.command \in O
  BY <1>1, OrphanIn, Zenon
<1> HIDE DEF m, O, P
<1>5. CASE m.kind = "call" /\ m.from = NoCaller
  <2>1. P = O \/ P = O \ {m.command}
    BY <1>2, <1>3, Zenon
  <2> QED
    BY <1>4, <1>5, <2>1, Zenon DEF m, O, P
<1>6. CASE ~(m.kind = "call" /\ m.from = NoCaller)
  <2>1. P = O
    BY <1>2, <1>3, <1>6, Zenon
  <2> QED
    BY <1>6, <2>1, Zenon DEF m, O, P
<1> QED
  BY <1>5, <1>6, Zenon

\* A message with a sender adds no orphan.
LEMMA AppendOrphans ==
  ASSUME CallsOK, NEW m \in Messages, m.kind # "call" \/ m.from # NoCaller,
         queue' = Append(queue, m)
  PROVE  Orphaned(queue') = Orphaned(queue)
<1>1. PICK k : /\ k \notin DOMAIN queue
               /\ DOMAIN queue' = DOMAIN queue \cup {k}
               /\ queue'[k] = m
               /\ \A i \in DOMAIN queue : queue'[i] = queue[i]
  <2>1. queue \in Seq(Messages)
    BY Zenon DEF CallsOK
  <2> QED
    BY <2>1, AppendMessages, SMT
<1>2. \A x : x \in Orphaned(queue') <=> x \in Orphaned(queue)
  <2>1. ASSUME NEW x \in Orphaned(queue') PROVE x \in Orphaned(queue)
    <3>1. PICK i \in DOMAIN queue' :
            /\ queue'[i].kind = "call" /\ queue'[i].from = NoCaller
            /\ x = queue'[i].command
      BY <2>1, OrphanOut, Zenon
    <3>2. i \in DOMAIN queue /\ queue'[i] = queue[i]
      BY <1>1, <3>1, Zenon
    <3> QED
      BY <3>1, <3>2, OrphanIn, Zenon
  <2>2. ASSUME NEW x \in Orphaned(queue) PROVE x \in Orphaned(queue')
    <3>1. PICK i \in DOMAIN queue :
            /\ queue[i].kind = "call" /\ queue[i].from = NoCaller
            /\ x = queue[i].command
      BY <2>2, OrphanOut, Zenon
    <3>2. i \in DOMAIN queue' /\ queue'[i] = queue[i]
      BY <1>1, <3>1, Zenon
    <3> QED
      BY <3>1, <3>2, OrphanIn, Zenon
  <2> QED
    BY <2>1, <2>2, Zenon
<1> QED
  BY <1>2, Zenon

\* A cancelled call adds its command to the orphans.
LEMMA CancelOrphans ==
  ASSUME Inv, WaitInv, NEW c \in Callers, Cancel(c)
  PROVE  /\ cmd[c] # <<>>
         /\ Orphaned(queue') = Orphaned(queue) \cup {cmd[c][1]}
<1>1. pc[c] = "waiting" /\ queue' = [i \in DOMAIN queue |-> Orphan(c, queue[i])]
  BY Zenon DEF Cancel
<1>2. PICK k \in DOMAIN queue : queue[k].from = c
  BY <1>1, Zenon DEF WaitInv, QueueOK
<1>3. cmd[c] = <<queue[k].command>>
  BY <1>2, Zenon DEF WaitInv, QueueOK
<1>4. cmd[c] # <<>> /\ cmd[c][1] = queue[k].command
  BY <1>3
<1>5. \A i \in DOMAIN queue : queue[i].from = c => i = k
  BY <1>2, Zenon DEF WaitInv, QueueOK
<1>6. /\ DOMAIN queue' = DOMAIN queue
      /\ \A i \in DOMAIN queue :
           /\ queue[i].from # c => queue'[i] = queue[i]
           /\ queue[i].from = c =>
                /\ queue'[i].kind = "call" /\ queue'[i].from = NoCaller
                /\ queue'[i].command = queue[i].command
  BY <1>1, OrphanedMessages, Zenon DEF Inv
<1>7. ASSUME NEW x \in Orphaned(queue')
      PROVE  x \in Orphaned(queue) \cup {cmd[c][1]}
  <2>1. PICK i \in DOMAIN queue' :
          /\ queue'[i].kind = "call" /\ queue'[i].from = NoCaller
          /\ x = queue'[i].command
    BY <1>7, OrphanOut, Zenon
  <2>2. CASE queue[i].from = c
    BY <1>4, <1>5, <1>6, <2>1, <2>2, Zenon
  <2>3. CASE queue[i].from # c
    <3>1. i \in DOMAIN queue /\ queue'[i] = queue[i]
      BY <1>6, <2>1, <2>3, Zenon
    <3> QED
      BY <2>1, <3>1, OrphanIn, Zenon
  <2> QED
    BY <2>2, <2>3, Zenon
<1>8. ASSUME NEW x \in Orphaned(queue) PROVE x \in Orphaned(queue')
  <2>1. PICK i \in DOMAIN queue :
          /\ queue[i].kind = "call" /\ queue[i].from = NoCaller
          /\ x = queue[i].command
    BY <1>8, OrphanOut, Zenon
  <2>2. i \in DOMAIN queue' /\ queue'[i] = queue[i]
    BY <1>6, <2>1, CallersAssumption, Zenon
  <2> QED
    BY <2>1, <2>2, OrphanIn, Zenon
<1>9. cmd[c][1] \in Orphaned(queue')
  BY <1>2, <1>4, <1>6, OrphanIn, ZenonT(30)
<1>10. Orphaned(queue') = Orphaned(queue) \cup {cmd[c][1]}
  BY <1>7, <1>8, <1>9, Zenon
<1> QED
  BY <1>4, <1>10, Zenon

-----------------------------------------------------------------------------
(* The steps of the store are steps of the log.                            *)

LogStep == [Log!Next]_(Log!logVars)

\* A step that the log does not see.
LEMMA Unseen ==
  ASSUME table' = table, epoch' = epoch, cmd' = cmd, answer' = answer,
         Orphaned(queue') = Orphaned(queue)
  PROVE  LogStep
BY Zenon DEF LogStep, Log!logVars

\* The refusals are the log's.
LEMMA RefusalTags ==
  ASSUME NEW r \in Refusals \cup {BackendFailure}
  PROVE  r.tag \in {"closed", "unavailable", "full", "lost", "failure"}
BY DEF Refusals, Closed, Unavailable, Full, Lost, BackendFailure

\* A caller is refused.
LEMMA RefusalIsLogged ==
  ASSUME AnswersOK, NEW c \in Callers, cmd[c] # <<>>, answer[c] = <<>>,
         NEW a \in Refusals \cup {BackendFailure},
         answer' = [answer EXCEPT ![c] = <<a>>],
         table' = table, epoch' = epoch, cmd' = cmd,
         Orphaned(queue') = Orphaned(queue)
  PROVE  LogStep
<1>1. answer'[c] = <<a>>
  BY Zenon DEF AnswersOK
<1>2. answer'[c] # <<>> /\ answer'[c][1] = a
  BY <1>1
<1>3. answer' = [answer EXCEPT ![c] = answer'[c]]
  BY <1>1, Zenon
<1>4. Log!Refuse(c)
  BY <1>2, <1>3, RefusalTags, Zenon DEF Log!Refuse, Log!Waiting
<1> QED
  BY <1>4, Zenon DEF LogStep, Log!Next

\* A call ends without effect on the table, whether its caller waits or not.
LEMMA DroppedIsLogged ==
  ASSUME Inv, AnswersOK, WaitInv, queue # <<>>,
         NEW r \in Refusals \cup {BackendFailure},
         queue' = Tail(queue), Deliver(Head(queue), r), cmd' = cmd,
         table' = table, epoch' = epoch
  PROVE  LogStep
<1>1. Head(queue) \in Messages
  BY HeadIsCommand, Zenon DEF Inv
<1>2. LET m == Head(queue)
          O == Orphaned(queue)
      IN IF m.kind = "call" /\ m.from = NoCaller
         THEN m.command \in O /\ Orphaned(queue') \in {O, O \ {m.command}}
         ELSE Orphaned(queue') = O
  BY TailOrphans, Zenon DEF Inv
<1>3. CASE Head(queue).from \in Callers
  <2>1. PICK c \in Callers : c = Head(queue).from
    BY <1>3, Zenon
  <2>2. c # NoCaller
    BY <2>1, CallersAssumption, Zenon
  <2>3. answer' = [answer EXCEPT ![c] = <<r>>] /\ Orphaned(queue') = Orphaned(queue)
    BY <1>2, <2>1, <2>2, Zenon DEF Deliver
  <2>4. answer[c] = <<>> /\ cmd[c] = <<Head(queue).command>>
    BY <2>1, HeadWaits, Zenon DEF Inv
  <2>5. cmd[c] # <<>>
    BY <2>4
  <2> QED
    BY <2>3, <2>4, <2>5, RefusalIsLogged, Zenon
<1>4. CASE Head(queue).from \notin Callers
  <2>1. answer' = answer
    <3>1. answer = [c \in Callers |-> answer[c]]
      BY Zenon DEF AnswersOK
    <3>2. [answer EXCEPT ![Head(queue).from] = <<r>>] = answer
      BY <1>4, <3>1, ExceptOutside
    <3> QED
      BY <3>2, Zenon DEF Deliver
  <2>2. CASE Head(queue).kind = "call" /\ Head(queue).from = NoCaller
    <3>1. Log!EndOrphan(Head(queue).command)
      BY <1>2, <2>1, <2>2, Zenon DEF Log!EndOrphan
    <3> QED
      BY <1>2, <2>2, <3>1, Zenon DEF LogStep, Log!Next
  <2>3. CASE ~(Head(queue).kind = "call" /\ Head(queue).from = NoCaller)
    BY <1>2, <2>1, <2>3, Unseen, Zenon
  <2> QED
    BY <2>2, <2>3, Zenon
<1> QED
  BY <1>3, <1>4, Zenon

\* A caller's step before its command is queued.
LEMMA DispatchIsLogged ==
  ASSUME Inv, AnswersOK, WaitInv, NEW c \in Callers, Dispatch(c)
  PROVE  LogStep
<1>0. table' = table /\ epoch' = epoch
  BY Zenon DEF Dispatch
<1>1. ASSUME NEW command \in Calls, Call(c, command) PROVE LogStep
  <2>1. /\ pc[c] = "idle" /\ cmd' = [cmd EXCEPT ![c] = <<command>>]
        /\ queue' = queue /\ answer' = answer
    BY <1>1, Zenon DEF Call
  <2>2. cmd[c] = <<>>
    BY <2>1, Zenon DEF WaitInv, PhasesOK
  <2>3. Log!Invoke(c)
    BY <1>0, <2>1, <2>2, Zenon DEF Log!Invoke
  <2> QED
    BY <2>3, Zenon DEF LogStep, Log!Next
<1>2. ASSUME NEW r \in Refusals, Refuse(c, r),
             pc[c] \in {"called", "checked", "cloned"}
      PROVE  LogStep
  <2>1. /\ queue' = queue /\ cmd' = cmd /\ answer' = [answer EXCEPT ![c] = <<r>>]
    BY <1>2, Zenon DEF Refuse
  <2>2. Len(cmd[c]) = 1 /\ cmd[c] \in Seq(Calls)
    BY <1>2, Zenon DEF Inv, CallsOK
  <2>3. cmd[c] # <<>> /\ pc[c] # "answered"
    BY <1>2, <2>2
  <2>4. answer[c] = <<>>
    BY <2>3, Zenon DEF WaitInv, PhasesOK
  <2>5. r \in Refusals \cup {BackendFailure}
    BY Zenon
  <2> QED
    BY <1>0, <2>1, <2>3, <2>4, <2>5, RefusalIsLogged, Zenon
<1>3. ASSUME NEW s, Proceed(c, s) PROVE LogStep
  BY <1>0, <1>3, Unseen, Zenon DEF Proceed
<1>4. ASSUME pc[c] = "cloned", queue' = Append(queue, CallOf(c, cmd[c][1])),
             cmd' = cmd, answer' = answer
      PROVE  LogStep
  <2> DEFINE m == CallOf(c, cmd[c][1])
  <2>1. cmd[c] \in Seq(Calls) /\ Len(cmd[c]) = 1
    BY <1>4, Zenon DEF Inv, CallsOK
  <2>2. cmd[c][1] \in Calls
    BY <2>1
  <2>3. m \in Messages /\ m.from # NoCaller
    BY <2>2, CallersAssumption, Zenon DEF CallOf, Messages
  <2>4. queue' = Append(queue, m)
    BY <1>4, Zenon
  <2> HIDE DEF m
  <2>5. Orphaned(queue') = Orphaned(queue)
    BY <2>3, <2>4, AppendOrphans, Zenon DEF Inv
  <2> QED
    BY <1>0, <1>4, <2>5, Unseen, Zenon
<1>5. CASE CheckClosed(c) \/ CloneSender(c) \/ TrySend(c)
  <2>1. pc[c] \in {"called", "checked", "cloned"}
    BY <1>5, Zenon DEF CheckClosed, CloneSender, TrySend
  <2>2. {Closed, Unavailable, Full} \subseteq Refusals
    BY Zenon DEF Refusals
  <2> QED
    BY <1>2, <1>3, <1>4, <1>5, <2>1, <2>2, Zenon DEF CheckClosed, CloneSender, TrySend
<1>6. CASE Cancel(c)
  <2>1. /\ pc[c] = "waiting" /\ cmd' = [cmd EXCEPT ![c] = <<>>] /\ answer' = answer
    BY <1>6, Zenon DEF Cancel
  <2>2. pc[c] # "answered"
    BY <2>1
  <2>3. answer[c] = <<>>
    BY <2>2, Zenon DEF WaitInv, PhasesOK
  <2>4. cmd[c] # <<>> /\ Orphaned(queue') = Orphaned(queue) \cup {cmd[c][1]}
    BY <1>6, CancelOrphans, Zenon
  <2>5. Log!Abandon(c)
    BY <1>0, <2>1, <2>3, <2>4, Zenon DEF Log!Abandon, Log!Waiting
  <2> QED
    BY <2>5, Zenon DEF LogStep, Log!Next
<1> QED
  BY <1>1, <1>5, <1>6, Zenon DEF Dispatch

\* A caller takes its answer.
LEMMA ReceiveIsLogged ==
  ASSUME AnsweredOK, NEW c \in Callers, Receive(c)
  PROVE  LogStep
<1>1. Log!Return(c)
  BY Zenon DEF Receive, Return, AnsweredOK, Log!Return
<1> QED
  BY <1>1, Zenon DEF LogStep, Log!Next

\* What ends a worker is not seen in the log, except for calls it drops.
LEMMA ShutdownIsLogged ==
  ASSUME Inv, AnswersOK, WaitInv, Shutdown
  PROVE  LogStep
<1>0. table' = table /\ epoch' = epoch
  BY Zenon DEF Shutdown
<1>1. CASE Discard
  BY <1>0, <1>1, DroppedIsLogged, Zenon DEF Discard, Refusals
<1>2. CASE TakeShutdown
  <2>1. /\ queue # <<>> /\ Head(queue).kind = "shutdown" /\ queue' = Tail(queue)
        /\ cmd' = cmd /\ answer' = answer
    BY <1>2, Zenon DEF TakeShutdown, callerVars
  <2>2. Head(queue).kind # "call"
    BY <2>1
  <2>3. Orphaned(queue') = Orphaned(queue)
    BY <2>1, <2>2, TailOrphans, Zenon DEF Inv
  <2> QED
    BY <1>0, <2>1, <2>3, Unseen, Zenon
<1>3. ASSUME NEW k \in Closers, CloseSend(k) PROVE LogStep
  <2> DEFINE m == ShutdownOf(k)
  <2>1. queue' = Append(queue, m) /\ cmd' = cmd /\ answer' = answer
    BY <1>3, Zenon DEF CloseSend, callerVars
  <2>2. m \in Messages /\ m.kind # "call"
    BY DEF ShutdownOf, Messages
  <2> HIDE DEF m
  <2>3. Orphaned(queue') = Orphaned(queue)
    BY <2>1, <2>2, AppendOrphans, Zenon DEF Inv
  <2> QED
    BY <1>0, <2>1, <2>3, Unseen, Zenon
<1>4. CASE queue' = queue /\ UNCHANGED callerVars
  BY <1>0, <1>4, Unseen, Zenon DEF callerVars
<1> QED
  BY <1>1, <1>2, <1>3, <1>4, Zenon DEF Shutdown, ThreadEnding, RecvNone, DropReceiver,
     ThreadEnds, CloseSwap, CloserStep, CloseTake, CloseTakeJoin, CloseJoined,
     DropHandle

\* An empty queue has no orphans.
LEMMA NoOrphans == Orphaned(<<>>) = {}
<1>1. \A x \in Orphaned(<<>>) : FALSE
  <2>1. DOMAIN <<>> = {}
    OBVIOUS
  <2> QED
    BY <2>1, OrphanOut, Zenon
<1> QED
  BY <1>1, Zenon

\* A crash is one of the log.
LEMMA CrashIsLogged ==
  ASSUME Crash PROVE LogStep
<1>1. Log!Crash
  BY NoOrphans, Zenon DEF Crash, ProcessDies, Log!Crash
<1> QED
  BY <1>1, Zenon DEF LogStep, Log!Next

\* So is an opening.
LEMMA OpenIsLogged ==
  ASSUME Open PROVE LogStep
<1>1. Log!Reopen
  BY Zenon DEF Open, WorkerStarts, callerVars, Log!Reopen
<1> QED
  BY <1>1, Zenon DEF LogStep, Log!Next

\* The log starts as the store does.
LEMMA InitIsLogged == Init => Log!Init
<1> SUFFICES ASSUME Init PROVE Log!Init
  BY Zenon
<1>1. table \in [0 .. 0 - 1 -> Events]
  BY DEF Init, NoRows
<1>2. Len(AsLog(table)) = 0 /\ AsLog(table) \in Seq(Events)
  BY <1>1, LogFacts, ZenonT(30)
<1>3. AsLog(table) = <<>>
  BY <1>2
<1> QED
  BY <1>3, NoOrphans, Zenon DEF Init, WorkerInit, Log!Init

\* The invariant in the first state.
LEMMA InitWaits == Init => AnswersOK /\ AnsweredOK /\ WaitInv
<1> SUFFICES ASSUME Init PROVE AnswersOK /\ AnsweredOK /\ WaitInv
  BY Zenon
<1>1. "idle" # "waiting" /\ "idle" # "answered" /\ DOMAIN <<>> = {}
  OBVIOUS
<1> QED
  BY <1>1, Zenon DEF Init, WorkerInit, AnswersOK, AnsweredOK, WaitInv, PhasesOK, QueueOK

\* The rows below a bound are a prefix of the log.
LEMMA PrefixIsLogged ==
  ASSUME NEW k \in Int, TableOK, NEW tb,
         tb = RowsOf(table, {m \in DOMAIN table : m < k})
  PROVE  \E j \in 0 .. Len(AsLog(table)) : AsLog(tb) = SubSeq(AsLog(table), 1, j)
<1>1. PICK n \in Nat : table \in [0 .. n - 1 -> Events]
  BY Zenon DEF TableOK, Contiguous
<1>2. PICK j \in 0 .. n : {m \in DOMAIN table : m < k} = 0 .. j - 1
  <2>1. DOMAIN table = 0 .. n - 1
    BY <1>1, Zenon
  <2>2. CASE k <= 0
    <3>1. 0 \in 0 .. n /\ {m \in 0 .. n - 1 : m < k} = 0 .. 0 - 1
      BY <2>2
    <3> QED
      BY <2>1, <3>1, Zenon
  <2>3. CASE 0 < k /\ k <= n
    <3>1. k \in 0 .. n /\ {m \in 0 .. n - 1 : m < k} = 0 .. k - 1
      BY <2>3
    <3> QED
      BY <2>1, <3>1, Zenon
  <2>4. CASE n < k
    <3>1. n \in 0 .. n /\ {m \in 0 .. n - 1 : m < k} = 0 .. n - 1
      BY <2>4
    <3> QED
      BY <2>1, <3>1, Zenon
  <2> QED
    BY <2>2, <2>3, <2>4
<1>3. j \in Nat /\ \A m \in 0 .. j - 1 : m \in 0 .. n - 1
  OBVIOUS
<1>4. tb = [m \in 0 .. j - 1 |-> table[m]]
  BY <1>2, Zenon DEF RowsOf
<1>5. tb \in [0 .. j - 1 -> Events]
  BY <1>1, <1>3, <1>4, Zenon
<1>6. /\ AsLog(tb) \in Seq(Events) /\ Len(AsLog(tb)) = j
      /\ \A m \in 0 .. j - 1 : AsLog(tb)[m + 1] = tb[m]
  BY <1>3, <1>5, LogFacts, Zenon
<1>7. /\ AsLog(table) \in Seq(Events) /\ Len(AsLog(table)) = n
      /\ \A m \in 0 .. n - 1 : AsLog(table)[m + 1] = table[m]
  BY <1>1, LogFacts, Zenon
<1> DEFINE p == SubSeq(AsLog(table), 1, j)
<1>8. \A i \in 1 .. j : i - 1 \in 0 .. j - 1 /\ (i - 1) + 1 = i /\ (1 + i) - 1 = i
  BY <1>3
<1>9. \A i \in 1 .. j : AsLog(table)[i] \in Events
  BY <1>7
<1>10. p \in Seq(Events) /\ Len(p) = j /\ \A i \in 1 .. j : p[i] = AsLog(table)[i]
  BY <1>3, <1>7, <1>9, PrefixProperties
<1>11. \A i \in 1 .. j : AsLog(tb)[i] = AsLog(table)[i]
  <2>1. \A m \in 0 .. j - 1 : AsLog(tb)[m + 1] = AsLog(table)[m + 1]
    BY <1>3, <1>4, <1>6, <1>7, Zenon
  <2> QED
    BY <1>8, <2>1, Zenon
<1> HIDE DEF p
<1>12. AsLog(tb) = p
  BY <1>6, <1>10, <1>11, SeqEqual
<1>13. j \in 0 .. Len(AsLog(table))
  BY <1>7
<1> QED
  BY <1>12, <1>13, Zenon DEF p

\* A loss of power is one of the log.
LEMMA LossIsLogged ==
  ASSUME Inv, NEW n \in 0 .. MaxRows, PowerLoss(n)
  PROVE  Log!LosePower
<1>1. n \in Int /\ table' = RowsOf(table, {m \in DOMAIN table : m < n})
  BY DEF PowerLoss
<1>2. \E j \in 0 .. Len(AsLog(table)) : AsLog(table') = SubSeq(AsLog(table), 1, j)
  BY <1>1, PrefixIsLogged, Zenon DEF Inv
<1> QED
  BY <1>2, NoOrphans, Zenon DEF PowerLoss, ProcessDies, Log!LosePower

-----------------------------------------------------------------------------
(* Pages, and the execution of commands.                                   *)

FST == INSTANCE FiniteSetTheorems

\* Sizes and finiteness are those of the theorems' module.
LEMMA SameSize ==
  ASSUME NEW S
  PROVE  /\ FST!Cardinality(S) = Cardinality(S)
         /\ FST!IsFiniteSet(S) <=> IsFiniteSet(S)
BY Zenon DEF FST!Cardinality, Cardinality, FST!IsFiniteSet, IsFiniteSet

\* A subset of a finite set is finite and no larger.
LEMMA SubsetSize ==
  ASSUME NEW S, IsFiniteSet(S), NEW T \in SUBSET S
  PROVE  /\ IsFiniteSet(T) /\ Cardinality(T) \in Nat
         /\ Cardinality(T) <= Cardinality(S)
<1>1. FST!IsFiniteSet(S)
  BY SameSize, Zenon
<1>2. FST!IsFiniteSet(T) /\ FST!Cardinality(T) <= FST!Cardinality(S)
  BY <1>1, FST!FS_Subset, Zenon
<1>3. FST!Cardinality(T) \in Nat
  BY <1>2, FST!FS_CardinalityType, Zenon
<1>4. /\ FST!Cardinality(T) = Cardinality(T) /\ FST!Cardinality(S) = Cardinality(S)
      /\ FST!IsFiniteSet(T) <=> IsFiniteSet(T)
  BY SameSize, Zenon
<1> QED
  BY <1>2, <1>3, <1>4, Zenon

\* One more element makes a set one larger.
LEMMA AddedSize ==
  ASSUME NEW S, IsFiniteSet(S), NEW x, x \notin S
  PROVE  IsFiniteSet(S \cup {x}) /\ Cardinality(S \cup {x}) = Cardinality(S) + 1
<1>1. FST!IsFiniteSet(S)
  BY SameSize, Zenon
<1>2. /\ FST!IsFiniteSet(S \cup {x})
      /\ FST!Cardinality(S \cup {x}) = FST!Cardinality(S) + 1
  BY <1>1, FST!FS_AddElement, Zenon
<1> QED
  BY <1>2, SameSize, Zenon

\* The empty set, and the rows of a table.
LEMMA FiniteRows ==
  ASSUME NEW n \in Nat
  PROVE  Cardinality({}) = 0 /\ IsFiniteSet(0 .. n - 1)
<1>1. FST!IsFiniteSet(0 .. n - 1)
  BY FST!FS_Interval
<1>2. FST!Cardinality({}) = 0
  BY FST!FS_EmptySet, Zenon
<1> QED
  BY <1>1, <1>2, SameSize, Zenon

\* A set of numbers that is not empty has a least one.
LEMMA HasLeast ==
  ASSUME NEW T \in SUBSET Nat, T # {}
  PROVE  \E x \in T : \A y \in T : x <= y
<1>1. PICK x \in T : \A y \in T : ~ (<<y, x>> \in FST!OpToRel(<, Nat))
  BY FST!NatLessThanWellFounded, FST!WFMin, Zenon
<1>2. \A y \in T : ~(y < x)
  BY <1>1, Zenon DEF FST!OpToRel
<1> QED
  BY <1>2

\* The maximum of a set of rows is one of them, and none is above it.
LEMMA MaxFacts ==
  ASSUME NEW n \in Nat, NEW T \in SUBSET (0 .. n - 1), T # {}
  PROVE  Max(T) \in T /\ \A y \in T : y <= Max(T)
<1> DEFINE U == {k \in Nat : \A y \in T : y <= k}
<1>1. n \in U
  OBVIOUS
<1>2. PICK u \in U : \A y \in U : u <= y
  BY <1>1, HasLeast, Zenon
<1>3. u \in T
  <2>1. SUFFICES ASSUME u \notin T PROVE FALSE
    BY Zenon
  <2>2. u # 0
    <3>1. PICK y \in T : y <= u
      BY <1>2, Zenon
    <3> QED
      BY <2>1, <3>1
  <2>3. u - 1 \in U
    BY <2>1, <2>2
  <2> QED
    BY <1>2, <2>3
<1>4. \E x \in T : \A y \in T : x >= y
  <2>1. \A y \in T : u >= y
    BY <1>2
  <2> QED
    BY <1>3, <2>1, Zenon
<1>5. Max(T) \in T /\ \A y \in T : Max(T) >= y
  BY <1>4, Zenon DEF Max
<1> QED
  BY <1>5

\* A page holds at most limit of the hits, the smallest ones, and exactly
\* limit of them where it does not hold all.
LEMMA SmallestFacts ==
  ASSUME NEW n \in Nat, NEW hits \in SUBSET (0 .. n - 1),
         NEW limit \in Nat, limit # 0, NEW page, page = Smallest(hits, limit)
  PROVE  /\ page \subseteq hits
         /\ \A k \in page, m \in hits \ page : k < m
         /\ Cardinality(page) \in Nat /\ Cardinality(page) <= limit
         /\ page # hits => page # {} /\ Cardinality(page) = limit
<1> DEFINE Below(k) == {m \in hits : m < k}
<1>1. page = {k \in hits : Cardinality(Below(k)) < limit}
  BY Zenon DEF Smallest
<1>2. \A k \in hits : k \in Nat
  OBVIOUS
<1>3. \A S \in SUBSET hits : IsFiniteSet(S) /\ Cardinality(S) \in Nat
  <2>1. IsFiniteSet(0 .. n - 1)
    BY FiniteRows, Zenon
  <2> QED
    BY <2>1, SubsetSize, Zenon
<1>4. \A k : Below(k) \in SUBSET hits
  BY Zenon
<1>5. ASSUME NEW k \in hits, NEW m \in hits, m <= k
      PROVE  Cardinality(Below(m)) <= Cardinality(Below(k))
  <2>1. Below(m) \subseteq Below(k)
    <3>1. \A x \in hits : x < m => x < k
      BY <1>2, <1>5
    <3> QED
      BY <3>1, Zenon
  <2> QED
    BY <1>3, <1>4, <2>1, SubsetSize, Zenon
<1> HIDE DEF Below
<1>6. page \subseteq hits
  BY <1>1, Zenon
<1>7. ASSUME NEW k \in page, NEW m \in hits \ page PROVE k < m
  <2>1. /\ Cardinality(Below(k)) < limit /\ ~(Cardinality(Below(m)) < limit)
        /\ k \in hits /\ k \in Nat /\ m \in Nat
        /\ Cardinality(Below(k)) \in Nat /\ Cardinality(Below(m)) \in Nat
    BY <1>1, <1>2, <1>3, <1>4, Zenon
  <2> SUFFICES ASSUME m <= k PROVE FALSE
    BY <2>1
  <2>2. Cardinality(Below(m)) <= Cardinality(Below(k))
    BY <1>5, <2>1, Zenon
  <2> QED
    BY <2>1, <2>2
<1>8. Cardinality(page) \in Nat
  BY <1>3, <1>6, Zenon
<1>9. Cardinality(page) <= limit
  <2>1. CASE page = {}
    BY <2>1, FiniteRows, SMTT(15)
  <2>2. CASE page # {}
    <3>1. page \in SUBSET (0 .. n - 1)
      BY <1>6, Zenon
    <3>2. PICK x \in page : \A y \in page : y <= x
      BY <2>2, <3>1, MaxFacts, Zenon
    <3>3. x \in hits /\ x \in Nat /\ Cardinality(Below(x)) < limit
      BY <1>1, <1>2, Zenon
    <3>4. page \subseteq Below(x) \cup {x}
      <4>1. \A y \in page : y \in hits /\ (y < x \/ y = x)
        BY <1>2, <1>6, <3>2, <3>3, SMTT(15)
      <4> QED
        BY <4>1, Zenon DEF Below
    <3>5. IsFiniteSet(Below(x)) /\ Cardinality(Below(x)) \in Nat /\ x \notin Below(x)
      BY <1>3, <1>4, <3>3, SMTT(15) DEF Below
    <3>6. /\ IsFiniteSet(Below(x) \cup {x})
          /\ Cardinality(Below(x) \cup {x}) = Cardinality(Below(x)) + 1
      BY <3>5, AddedSize, Zenon
    <3>7. Cardinality(page) <= Cardinality(Below(x) \cup {x})
      BY <3>4, <3>6, SubsetSize, Zenon
    <3> QED
      BY <1>8, <3>3, <3>5, <3>6, <3>7, SMTT(15)
  <2> QED
    BY <2>1, <2>2, Zenon
<1>10. ASSUME page # hits PROVE page # {} /\ Cardinality(page) = limit
  <2>1. hits \ page \in SUBSET Nat /\ hits \ page # {}
    BY <1>2, <1>6, <1>10, Zenon
  <2>2. PICK m \in hits \ page : \A y \in hits \ page : m <= y
    BY <2>1, HasLeast, Zenon
  <2>3. page = Below(m)
    <3>1. \A y \in hits : y \in page <=> y < m
      BY <1>2, <1>6, <1>7, <2>2, SMTT(15)
    <3> QED
      BY <1>6, <3>1, Zenon DEF Below
  <2>4. ~(Cardinality(Below(m)) < limit)
    BY <1>1, Zenon
  <2>5. Cardinality(page) = limit
    BY <1>8, <1>9, <2>3, <2>4, SMTT(15)
  <2> QED
    BY <2>5, FiniteRows, Zenon
<1> QED
  BY <1>6, <1>7, <1>8, <1>9, <1>10, Zenon

\* An optional token is absent or a token.
LEMMA OptionalToken ==
  ASSUME NEW x \in Optional(Tokens), x # <<>>
  PROVE  x[1].position \in Nat
<1>1. x \in Seq(Tokens)
  BY Zenon DEF Optional
<1>2. x[1] \in Tokens
  BY <1>1
<1> QED
  BY <1>2, Zenon DEF Tokens

\* The parts of a continuation token.
LEMMA TokenParts ==
  ASSUME NEW a, NEW ep, NEW p, a.token = <<[epoch |-> ep, position |-> p]>>
  PROVE  a.token[1].epoch = ep /\ a.token[1].position = p
OBVIOUS

\* A cursor behind the last row of a page is behind all of them.
LEMMA BehindLast ==
  ASSUME NEW n \in Nat, NEW T \in SUBSET (0 .. n - 1), NEW top \in T,
         \A m \in T : m <= top
  PROVE  (top + 1) - 1 = top /\ \A m \in T : m < top + 1
OBVIOUS

\* The page picked for a query.
LEMMA PagePicked ==
  ASSUME NEW n \in Nat, NEW hits \in SUBSET (0 .. n - 1), NEW query \in Queries
  PROVE  LET page == Smallest(hits, query.limit)
         IN /\ page \subseteq hits
            /\ \A k \in page, m \in hits \ page : k < m
            /\ Cardinality(page) \in Nat /\ Cardinality(page) <= query.limit
            /\ page # hits => page # {} /\ Cardinality(page) = query.limit
<1>1. PICK limit \in Nat : limit # 0 /\ limit = query.limit
  BY Zenon DEF Queries
<1>2. limit # 0
  BY <1>1, Zenon
<1>3. PICK page : page = Smallest(hits, limit)
  BY Zenon
<1>4. /\ page \subseteq hits
      /\ \A k \in page, m \in hits \ page : k < m
      /\ Cardinality(page) \in Nat /\ Cardinality(page) <= limit
      /\ page # hits => page # {} /\ Cardinality(page) = limit
  BY <1>2, <1>3, SmallestFacts, ZenonT(30)
<1> QED
  BY <1>1, <1>3, <1>4, Zenon

\* The size of a set is the same in the log's module.
LEMMA SameCardinality == ASSUME NEW S PROVE Log!Cardinality(S) = Cardinality(S)
BY Zenon DEF Log!Cardinality, Cardinality

\* What a query is told is a page of the log.
LEMMA PageIsLogged ==
  ASSUME NEW n \in Nat, table \in [0 .. n - 1 -> Events], NEW query \in Queries,
         NEW start, NEW upper
  PROVE  LET hits == {m \in DOMAIN table :
                        start <= m /\ m < upper /\ table[m].topic \in query.topics}
             page == Smallest(hits, query.limit)
         IN Log!IsPage(query, start, upper,
              Ok(RowsOf(table, page),
                 IF page = hits THEN <<>>
                 ELSE <<[epoch |-> epoch, position |-> Max(page) + 1]>>))
<1> DEFINE hits == {m \in DOMAIN table :
                      start <= m /\ m < upper /\ table[m].topic \in query.topics}
           page == Smallest(hits, query.limit)
           a == Ok(RowsOf(table, page),
                   IF page = hits THEN <<>>
                   ELSE <<[epoch |-> epoch, position |-> Max(page) + 1]>>)
           Hit(m) == start <= m /\ m < upper
                       /\ AsLog(table)[m + 1].topic \in query.topics
           missed == {m \in Log!Positions : Hit(m)} \ DOMAIN a.rows
<1> HIDE DEF hits, page, a, Hit, missed
<1>1. /\ Log!Positions = 0 .. n - 1 /\ Log!Positions = DOMAIN table
      /\ \A k \in Log!Positions : AsLog(table)[k + 1] = table[k]
  BY LogPositions, Zenon
<1>2. hits = {m \in Log!Positions : Hit(m)}
  BY <1>1, Zenon DEF hits, Hit
<1>3. hits \in SUBSET (0 .. n - 1)
  BY <1>1, <1>2, Zenon
<1>4. /\ page \subseteq hits
      /\ \A k \in page, m \in hits \ page : k < m
      /\ Cardinality(page) \in Nat /\ Cardinality(page) <= query.limit
      /\ page # hits => page # {} /\ Cardinality(page) = query.limit
  BY <1>3, PagePicked, Zenon DEF page
<1>5. /\ DOMAIN a.rows = page /\ \A m \in page : a.rows[m] = table[m]
      /\ a.token = IF page = hits THEN <<>>
                   ELSE <<[epoch |-> epoch, position |-> Max(page) + 1]>>
  BY Zenon DEF a, Ok, RowsOf
<1>6. missed = hits \ page
  BY <1>2, <1>5, Zenon DEF missed
<1>7. /\ page \subseteq Log!Positions
      /\ \A m \in page : Hit(m) /\ a.rows[m] = AsLog(table)[m + 1]
  BY <1>1, <1>2, <1>4, <1>5, Zenon
<1>8. /\ DOMAIN a.rows \subseteq Log!Positions
      /\ \A m \in DOMAIN a.rows : Hit(m) /\ a.rows[m] = AsLog(table)[m + 1]
      /\ \A k \in DOMAIN a.rows, m \in missed : k < m
  BY <1>4, <1>5, <1>6, <1>7, Zenon
<1>9. missed = {} => Cardinality(DOMAIN a.rows) <= query.limit /\ a.token = <<>>
  BY <1>4, <1>5, <1>6, Zenon
<1>10. ASSUME missed # {}
       PROVE  /\ Cardinality(DOMAIN a.rows) = query.limit
              /\ a.token[1].epoch = epoch
              /\ a.token[1].position - 1 \in DOMAIN a.rows
              /\ \A m \in DOMAIN a.rows : m < a.token[1].position
  <2>1. page # hits
    BY <1>6, <1>10, Zenon
  <2>2. page # {} /\ page \in SUBSET (0 .. n - 1) /\ Cardinality(page) = query.limit
    BY <1>3, <1>4, <2>1, Zenon
  <2>3. PICK top \in page : top = Max(page) /\ \A m \in page : m <= top
    BY <2>2, MaxFacts, Zenon
  <2>4. PICK p : p = top + 1
    OBVIOUS
  <2>5. p - 1 = top /\ \A m \in page : m < p
    BY <2>2, <2>3, <2>4, BehindLast, Zenon
  <2>6. a.token = <<[epoch |-> epoch, position |-> p]>>
    BY <1>5, <2>1, <2>3, <2>4, Zenon
  <2>7. a.token[1].epoch = epoch /\ a.token[1].position = p
    BY <2>6, TokenParts, Zenon
  <2> QED
    BY <1>5, <2>2, <2>5, <2>7, Zenon
<1>11. Log!IsPage(query, start, upper, a)
  <2>1. Log!IsPage(query, start, upper, a) <=>
          /\ DOMAIN a.rows \subseteq Log!Positions
          /\ \A m \in DOMAIN a.rows : Hit(m) /\ a.rows[m] = AsLog(table)[m + 1]
          /\ \A k \in DOMAIN a.rows, m \in missed : k < m
          /\ IF missed = {}
             THEN Cardinality(DOMAIN a.rows) <= query.limit /\ a.token = <<>>
             ELSE /\ Cardinality(DOMAIN a.rows) = query.limit
                  /\ a.token[1].epoch = epoch
                  /\ a.token[1].position - 1 \in DOMAIN a.rows
                  /\ \A m \in DOMAIN a.rows : m < a.token[1].position
    BY SameCardinality, Zenon DEF Log!IsPage, missed, Hit
  <2> QED
    BY <1>8, <1>9, <1>10, <2>1, Zenon
<1> QED
  BY <1>11, Zenon DEF a, page, hits

\* query_page() is answered as the log answers it: the same checkpoints and
\* cursors are refused, and the page is the one of the log.
LEMMA QueryIsLogged ==
  ASSUME TableOK, NEW query \in Queries
  PROVE  Log!QueryAnswered(query, QueryEvents(table, query, epoch))
<1>1. PICK n \in Nat : table \in [0 .. n - 1 -> Events]
  BY Zenon DEF TableOK, Contiguous
<1> DEFINE foreign(token) == token # <<>> /\ token[1].epoch # epoch
           upper == IF query.bound = <<>> THEN n ELSE query.bound[1].position
           start == IF query.after = <<>> THEN 0 ELSE query.after[1].position
           hits  == {m \in DOMAIN table :
                       start <= m /\ m < upper /\ table[m].topic \in query.topics}
           page  == Smallest(hits, query.limit)
           a     == QueryEvents(table, query, epoch)
           ok    == Ok(RowsOf(table, page),
                       IF page = hits THEN <<>>
                       ELSE <<[epoch |-> epoch, position |-> Max(page) + 1]>>)
           badBound  == foreign(query.bound) \/ upper > n
           badCursor == foreign(query.after) \/ (query.after # <<>> /\ start = 0)
                          \/ start > upper
           validBound == query.bound = <<>>
             \/ (query.bound[1].epoch = epoch /\ query.bound[1].position <= n)
           validCursor == query.after = <<>>
             \/ (query.after[1].epoch = epoch /\ query.after[1].position \in 1 .. upper)
<1>2. CurrentCount(table) = n /\ Len(AsLog(table)) = n
  BY <1>1, CountOfContiguous, LogFacts, Zenon
<1>3. a = IF badBound THEN InvalidCheckpoint
          ELSE IF badCursor THEN InvalidCursor ELSE ok
  BY <1>2, Zenon DEF QueryEvents
<1>4. query.bound \in Optional(Tokens) /\ query.after \in Optional(Tokens)
  BY Zenon DEF Queries
<1>5. /\ query.bound # <<>> => query.bound[1].position \in Nat
      /\ query.after # <<>> => query.after[1].position \in Nat
  BY <1>4, OptionalToken, Zenon
<1>6. start \in Nat /\ upper \in Nat
  BY <1>5
<1>7. validBound <=> ~badBound
  BY <1>5
<1>8. validCursor <=> ~badCursor
  BY <1>5, <1>6
<1>9. /\ ~validBound /\ a.tag = "invalid_checkpoint" => Log!QueryAnswered(query, a)
      /\ validBound /\ ~validCursor /\ a.tag = "invalid_cursor" =>
           Log!QueryAnswered(query, a)
      /\ validBound /\ validCursor /\ a.tag = "ok"
           /\ Log!IsPage(query, start, upper, a) => Log!QueryAnswered(query, a)
  <2> HIDE DEF a
  <2>1. ~validBound /\ a.tag = "invalid_checkpoint" => Log!QueryAnswered(query, a)
    BY <1>2, Zenon DEF Log!QueryAnswered
  <2>2. validBound /\ ~validCursor /\ a.tag = "invalid_cursor" =>
          Log!QueryAnswered(query, a)
    BY <1>2, Zenon DEF Log!QueryAnswered
  <2>3. validBound /\ validCursor /\ a.tag = "ok"
           /\ Log!IsPage(query, start, upper, a) => Log!QueryAnswered(query, a)
    BY <1>2, Zenon DEF Log!QueryAnswered
  <2> QED
    BY <2>1, <2>2, <2>3, Zenon
<1>10. a = ok => Log!IsPage(query, start, upper, a)
  <2> HIDE DEF start, upper, a
  <2>1. Log!IsPage(query, start, upper, ok)
    BY <1>1, PageIsLogged, Zenon
  <2> HIDE DEF ok
  <2> QED
    BY <2>1, Zenon
<1>11. /\ InvalidCheckpoint.tag = "invalid_checkpoint"
       /\ InvalidCursor.tag = "invalid_cursor" /\ ok.tag = "ok"
  BY Zenon DEF InvalidCheckpoint, InvalidCursor, Ok
<1> HIDE DEF a, ok, badBound, badCursor, validBound, validCursor, start, upper
<1>12. CASE badBound
  BY <1>3, <1>7, <1>9, <1>11, <1>12, Zenon DEF a
<1>13. CASE ~badBound /\ badCursor
  BY <1>3, <1>7, <1>8, <1>9, <1>11, <1>13, Zenon DEF a
<1>14. CASE ~badBound /\ ~badCursor
  BY <1>3, <1>7, <1>8, <1>9, <1>10, <1>11, <1>14, Zenon DEF a
<1> QED
  BY <1>12, <1>13, <1>14, Zenon DEF a

\* Every command is answered as the log answers it.
LEMMA AnswerIsLogged ==
  ASSUME TableOK, NEW command \in StoreCommands,
         table' = EffectOf(table, command)
  PROVE  Log!Answered(command, AnswerTo(table, command, epoch))
<1>1. CASE command.kind = "append"
  <2>1. command.event \in Events /\ table' = AppendEvent(table, command.event)
    BY <1>1, Zenon DEF StoreCommands, EffectOf
  <2>2. Log!AppendAnswered(command.event, AppendAnswer(table, command.event, epoch))
    BY <2>1, AppendIsLogged, Zenon
  <2>3. AnswerTo(table, command, epoch) = AppendAnswer(table, command.event, epoch)
    BY <1>1, Zenon DEF AnswerTo
  <2> QED
    BY <1>1, <2>2, <2>3, Zenon DEF Log!Answered
<1>2. CASE command.kind = "get"
  <2>1. table' = table
    BY <1>2, Zenon DEF EffectOf
  <2>2. Log!GetAnswered(command.id, GetAnswer(table, command.id, epoch))
    BY <2>1, GetIsLogged, Zenon
  <2>3. AnswerTo(table, command, epoch) = GetAnswer(table, command.id, epoch)
    BY <1>2, Zenon DEF AnswerTo
  <2> QED
    BY <1>2, <2>2, <2>3, Zenon DEF Log!Answered
<1>3. CASE command.kind = "capture"
  <2>1. AnswerTo(table, command, epoch) = CaptureCheckpoint(table, epoch)
    BY <1>3, Zenon DEF AnswerTo
  <2> QED
    BY <1>3, <2>1, CaptureIsLogged, Zenon DEF Log!Answered
<1>4. CASE command.kind = "query"
  <2>1. command.query \in Queries
    BY <1>4, Zenon DEF StoreCommands
  <2>2. Log!QueryAnswered(command.query, QueryEvents(table, command.query, epoch))
    BY <2>1, QueryIsLogged, Zenon
  <2>3. AnswerTo(table, command, epoch) = QueryEvents(table, command.query, epoch)
    BY <1>4, Zenon DEF AnswerTo
  <2> QED
    BY <1>4, <2>2, <2>3, Zenon DEF Log!Answered
<1> QED
  BY <1>1, <1>2, <1>3, <1>4, Zenon DEF StoreCommands

\* The worker executes a command: the log performs it for its caller, or for
\* one that has gone.
LEMMA ExecuteIsLogged ==
  ASSUME Inv, AnswersOK, WaitInv, Execute
  PROVE  LogStep
<1>1. /\ queue # <<>> /\ Head(queue).kind = "call" /\ queue' = Tail(queue)
      /\ Deliver(Head(queue), AnswerTo(table, Head(queue).command, epoch))
      /\ table' = EffectOf(table, Head(queue).command)
      /\ cmd' = cmd /\ epoch' = epoch
  BY Zenon DEF Execute, Take
<1>2. /\ Head(queue).command \in StoreCommands
      /\ Head(queue).from \in Callers \cup {NoCaller}
  BY <1>1, HeadIsCommand, Zenon DEF Inv
<1>3. PICK command \in StoreCommands : command = Head(queue).command
  BY <1>2, Zenon
<1>4. Log!Effect(command) /\ Log!Answered(command, AnswerTo(table, command, epoch))
  BY <1>1, <1>3, EffectIsLogged, AnswerIsLogged, Zenon DEF Inv
<1>5. IF Head(queue).from = NoCaller
      THEN /\ command \in Orphaned(queue)
           /\ Orphaned(queue') \in {Orphaned(queue), Orphaned(queue) \ {command}}
      ELSE Orphaned(queue') = Orphaned(queue)
  BY <1>1, <1>3, TailOrphans, Zenon DEF Inv
<1>6. CASE Head(queue).from = NoCaller
  <2>1. answer' = answer
    BY <1>1, <1>6, Zenon DEF Deliver
  <2>2. Log!EndOrphan(command)
    BY <1>1, <1>4, <1>5, <1>6, <2>1, Zenon DEF Log!EndOrphan
  <2> QED
    BY <1>5, <1>6, <2>2, Zenon DEF LogStep, Log!Next
<1>7. CASE Head(queue).from # NoCaller
  <2>1. PICK c \in Callers : c = Head(queue).from
    BY <1>2, <1>7, Zenon
  <2>2. PICK a : a = AnswerTo(table, command, epoch)
    BY Zenon
  <2>3. answer' = [answer EXCEPT ![c] = <<a>>]
    BY <1>1, <1>3, <1>7, <2>1, <2>2, Zenon DEF Deliver
  <2>4. answer'[c] = <<a>>
    BY <2>3, Zenon DEF AnswersOK
  <2>5. answer'[c] # <<>> /\ answer'[c][1] = a
    BY <2>4
  <2>6. answer[c] = <<>> /\ cmd[c] = <<command>>
    BY <1>1, <1>3, <2>1, HeadWaits, Zenon DEF Inv
  <2>7. cmd[c] # <<>> /\ cmd[c][1] = command
    BY <2>6
  <2>8. answer' = [answer EXCEPT ![c] = answer'[c]]
    BY <2>3, <2>4, Zenon
  <2>9. Log!Perform(c)
    BY <1>1, <1>4, <1>5, <1>7, <2>2, <2>5, <2>6, <2>7, <2>8, Zenon
       DEF Log!Perform, Log!Waiting
  <2> QED
    BY <2>9, Zenon DEF LogStep, Log!Next
<1> QED
  BY <1>6, <1>7, Zenon

\* Every step of the store is a step of the log.
LEMMA NextIsLogged ==
  Inv /\ AnswersOK /\ AnsweredOK /\ WaitInv /\ [Next]_vars => LogStep
<1> SUFFICES ASSUME Inv, AnswersOK, AnsweredOK, WaitInv, [Next]_vars PROVE LogStep
  BY Zenon
<1>1. CASE ExecuteFails
  BY <1>1, DroppedIsLogged, Zenon DEF ExecuteFails, Take
<1>2. CASE UNCHANGED vars
  BY <1>2, Unseen, Zenon DEF vars, workerVars, callerVars
<1> QED
  BY <1>1, <1>2, DispatchIsLogged, ReceiveIsLogged, ExecuteIsLogged, ShutdownIsLogged,
     CrashIsLogged, OpenIsLogged, Zenon DEF Next

\* The store implements the append-only log: whatever the interleaving of
\* callers, the worker, shutdown, crashes and reopening, every call takes
\* effect at one moment between its invocation and its return, is answered from
\* the log as it is at that moment, or is refused without effect.
THEOREM AtomicLog == Spec => ImplementsLog
<1>1. Inv /\ AnswersOK /\ AnsweredOK /\ WaitInv /\ [Next]_vars =>
        [Log!Next]_(Log!logVars)
  BY NextIsLogged, Zenon DEF LogStep
<1> QED
  BY <1>1, InitInv, StepInv, NextIsPowerNext, AnswersStep, AnsweredStep, InitWaits,
     WaitStep, InitIsLogged, PTL DEF Spec, ImplementsLog, Log!Spec

\* With losses of power the store implements the log that may lose its newest
\* events, and nothing else: a lost suffix is the only other change.
THEOREM LossyLog == PowerSpec => ImplementsLossyLog
<1>1. Inv /\ AnswersOK /\ AnsweredOK /\ WaitInv /\ [PowerNext]_vars =>
        [Log!Next \/ Log!LosePower]_(Log!logVars)
  BY NextIsLogged, LossIsLogged, Zenon DEF LogStep, PowerNext
<1> QED
  BY <1>1, InitInv, StepInv, AnswersPower, InitWaits, WaitStep, InitIsLogged,
     PTL DEF PowerSpec, ImplementsLossyLog, Log!LossySpec
=============================================================================
