------------------------------ MODULE EventTable ------------------------------
(***************************************************************************)
(* What one SQLite transaction of the event store does: the events table,  *)
(* the commands the worker executes on it, and the answers it gives.       *)
(*                                                                         *)
(* A table maps append_sequence to the event of that row.  An event is its *)
(* EventId and a topic, which stands for everything else: two events with  *)
(* one id and two topics are two different events of that id, and a filter *)
(* (session, actor, event types) is a set of topics.                       *)
(*                                                                         *)
(* Cursors and checkpoints are tokens: a position and the continuation     *)
(* epoch of the opening that issued them.  Epochs count from 1; epoch 0    *)
(* stands for a token of another store.  Optional values are sequences of  *)
(* length at most one.                                                     *)
(***************************************************************************)
EXTENDS Integers, Sequences, FiniteSets, FiniteSetsExt

CONSTANTS EventIds, Topics

Events == [id: EventIds, topic: Topics]
Tokens == [epoch: Nat, position: Nat]
Optional(S) == {x \in Seq(S) : Len(x) <= 1}

Queries == [topics: SUBSET Topics, bound: Optional(Tokens),
            after: Optional(Tokens), limit: Nat \ {0}]

StoreCommands ==
  [kind: {"append"}, event: Events] \cup [kind: {"get"}, id: EventIds]
    \cup [kind: {"capture"}] \cup [kind: {"query"}, query: Queries]

-----------------------------------------------------------------------------
(* Answers: the rows returned, and the cursor or checkpoint.               *)
Ok(rows, token) == [tag |-> "ok", rows |-> rows, token |-> token]
EventConflict     == [tag |-> "conflict"]
InvalidCheckpoint == [tag |-> "invalid_checkpoint"]
InvalidCursor     == [tag |-> "invalid_cursor"]
BackendFailure    == [tag |-> "failure"]

NoRows == [n \in {} |-> {}]

RowsOf(table, S) == [n \in S |-> table[n]]

\* MAX(append_sequence) + 1
CurrentCount(table) == IF DOMAIN table = {} THEN 0 ELSE Max(DOMAIN table) + 1

\* The rows with this EventId.
RowsWithId(table, id) == {n \in DOMAIN table : table[n].id = id}

\* StoredEvent of row n: its cursor points behind it.
StoredEvent(table, n, epoch) ==
  Ok(RowsOf(table, {n}), <<[epoch |-> epoch, position |-> n + 1]>>)

\* Mutants: INSERT OR REPLACE, which gives the event a new row; no lookup of
\* the EventId.
AppendOrReplace(table, event) ==
  LET kept == DOMAIN table \ RowsWithId(table, event.id)
  IN [n \in kept \cup {CurrentCount(table)} |->
        IF n \in kept THEN table[n] ELSE event]
AppendAlways(table, event) ==
  [n \in DOMAIN table \cup ({CurrentCount(table)} \cap 0 .. 2) |->
     IF n \in DOMAIN table THEN table[n] ELSE event]

AppendEvent(table, event) ==
  IF RowsWithId(table, event.id) # {}
  THEN table
  ELSE [n \in DOMAIN table \cup {CurrentCount(table)} |->
          IF n = CurrentCount(table) THEN event ELSE table[n]]

AppendAnswer(table, event, epoch) ==
  LET same == RowsWithId(table, event.id)
      row  == CHOOSE n \in same : TRUE
  IN IF same = {}
     THEN StoredEvent(AppendEvent(table, event), CurrentCount(table), epoch)
     ELSE IF table[row] = event THEN StoredEvent(table, row, epoch)
                                ELSE EventConflict

GetAnswer(table, id, epoch) ==
  LET same == RowsWithId(table, id)
  IN IF same = {} THEN Ok(NoRows, <<>>)
                  ELSE StoredEvent(table, CHOOSE n \in same : TRUE, epoch)

CaptureCheckpoint(table, epoch) ==
  Ok(NoRows, <<[epoch |-> epoch, position |-> CurrentCount(table)]>>)

\* The limit smallest members of S.
Smallest(S, limit) == {n \in S : Cardinality({m \in S : m < n}) < limit}

\* Mutant: a checkpoint beyond the stored range is taken for its end.
QueryClamped(table, query, epoch) ==
  LET foreign(token) == token # <<>> /\ token[1].epoch # epoch
      upper == IF query.bound = <<>> THEN CurrentCount(table)
               ELSE query.bound[1].position
      start == IF query.after = <<>> THEN 0 ELSE query.after[1].position
      hits  == {n \in DOMAIN table :
                  start <= n /\ n < upper /\ table[n].topic \in query.topics}
      page  == Smallest(hits, query.limit)
  IN IF foreign(query.bound) THEN InvalidCheckpoint
     ELSE IF foreign(query.after) \/ (query.after # <<>> /\ start = 0)
               \/ start > upper
     THEN InvalidCursor
     ELSE Ok(RowsOf(table, page),
             IF page = hits THEN <<>>
             ELSE <<[epoch |-> epoch, position |-> Max(page) + 1]>>)

QueryEvents(table, query, epoch) ==
  LET count   == CurrentCount(table)
      foreign(token) == token # <<>> /\ token[1].epoch # epoch
      upper   == IF query.bound = <<>> THEN count ELSE query.bound[1].position
      start   == IF query.after = <<>> THEN 0 ELSE query.after[1].position
      hits    == {n \in DOMAIN table :
                    start <= n /\ n < upper /\ table[n].topic \in query.topics}
      page    == Smallest(hits, query.limit)
  IN IF foreign(query.bound) \/ upper > count THEN InvalidCheckpoint
     ELSE IF foreign(query.after) \/ (query.after # <<>> /\ start = 0)
               \/ start > upper
     THEN InvalidCursor
     ELSE Ok(RowsOf(table, page),
             IF page = hits THEN <<>>
             ELSE <<[epoch |-> epoch, position |-> Max(page) + 1]>>)

\* The answer the worker gives to a command, and what the command leaves.
AnswerTo(table, command, epoch) ==
  CASE command.kind = "append"  -> AppendAnswer(table, command.event, epoch)
    [] command.kind = "get"     -> GetAnswer(table, command.id, epoch)
    [] command.kind = "capture" -> CaptureCheckpoint(table, epoch)
    [] command.kind = "query"   -> QueryEvents(table, command.query, epoch)

EffectOf(table, command) ==
  IF command.kind = "append" THEN AppendEvent(table, command.event) ELSE table

\* The integrity scan of an opening: sequences are contiguous from 0.
VerifyAllEvents(table) == DOMAIN table = 0 .. CurrentCount(table) - 1
=============================================================================
