-------------------------------- MODULE Relay --------------------------------
(***************************************************************************)
(* The path of Canvas facts through the server: producers execute actions  *)
(* under the lease of their stroke (ScopeLease), rebuild the stroke from   *)
(* the event store, and hand the new events to PipelineAdapter, which      *)
(* appends the whole batch and then publishes it; clients subscribe, then  *)
(* page through the history below a checkpoint, and merge both by EventId. *)
(*                                                                         *)
(* The event store is the table of EventTable behind the queue of its      *)
(* worker: a call is refused or queued, queued commands are executed in    *)
(* order, also those of callers that have gone (StoreWorker, EventStore).  *)
(* An event is one chunk of a stroke: its number in the stroke, and the    *)
(* last number of its batch.  Runtime, Canvas handlers and event bus are   *)
(* external crates and are modelled as the server uses them.               *)
(***************************************************************************)
EXTENDS Integers, Sequences, FiniteSets, Functions

CONSTANTS
  Producers, Clients, NoTask,
  Strokes, NoStroke, Canvases,
  CanvasOf,           \* the canvas of each stroke
  Watched,            \* the canvas each client looks at
  LoadLimit,          \* page size of load_stroke: the store's default
  ScanLimit,          \* store_scan_limit of the history handler
  BusCapacity,        \* subscription_queue_capacity
  QueueCapacity,      \* command queue of the event store
  MaxActions,         \* bound: actions of one producer
  MaxChunks           \* bound: chunks of one stroke

ASSUME RelayAssumption ==
  /\ Producers \cap Clients = {} /\ NoTask \notin Producers \cup Clients
  /\ NoStroke \notin Strokes
  /\ CanvasOf \in [Strokes -> Canvases] /\ Watched \in [Clients -> Canvases]
  /\ {LoadLimit, ScanLimit, BusCapacity, QueueCapacity} \subseteq Nat \ {0}

VARIABLES
  table, queue,       \* the event store
  want, hold,         \* the leases: per producer, the stroke waited for, held
  pc, reply,          \* per task: where it is, the store's answer
  action,             \* per producer: <<[stroke, first, last]>>, or <<>>
  count,              \* per producer: actions so far
  cursor,             \* per producer: load_stroke's cursor
  projection,         \* per producer: chunks of its stroke applied so far
  todo,               \* per producer: events still to append, or to publish
  batch,              \* per producer: events of its dispatch not published
  sub, inbox, live,   \* per client: its subscription, queued, received
  bound, after,       \* per client: checkpoint and cursor of its paging
  history,            \* per client: events of the pages received
  cut                 \* history: events whose dispatch ended unpublished

Tasks == Producers \cup Clients
storeVars == <<table, queue>>
producerVars == <<action, count, cursor, projection, todo, batch>>
busVars == <<sub, inbox, live>>
pageVars == <<bound, after, history>>
clientVars == <<busVars, pageVars>>
leaseState == <<want, hold>>
vars == <<storeVars, leaseState, pc, reply, producerVars, clientVars, cut>>

Ids == Producers \X (1 .. MaxActions) \X (1 .. MaxChunks)

INSTANCE EventTable WITH EventIds <- Ids, Topics <- Canvases
INSTANCE ScopeLease WITH Tasks <- Producers, Scopes <- Strokes,
                         NoScope <- NoStroke

\* One opening of the store is enough here: its epoch.
Epoch == 1
Unavailable == [tag |-> "unavailable"]

Init ==
  /\ table = NoRows /\ queue = <<>>
  /\ LeaseInit
  /\ pc = [t \in Tasks |-> "idle"]
  /\ reply = [t \in Tasks |-> <<>>]
  /\ action = [p \in Producers |-> <<>>]
  /\ count = [p \in Producers |-> 0]
  /\ cursor = [p \in Producers |-> <<>>]
  /\ projection = [p \in Producers |-> 0]
  /\ todo = [p \in Producers |-> <<>>]
  /\ batch = [p \in Producers |-> <<>>]
  /\ sub = [c \in Clients |-> "none"]
  /\ inbox = [c \in Clients |-> <<>>]
  /\ live = [c \in Clients |-> <<>>]
  /\ bound = [c \in Clients |-> <<>>]
  /\ after = [c \in Clients |-> <<>>]
  /\ history = [c \in Clients |-> <<>>]
  /\ cut = {}

-----------------------------------------------------------------------------
(* The event store, as its callers see it.                                 *)

\* t awaits command in state step; the queue may be full or closed.
Await(t, step, command) ==
  /\ pc' = [pc EXCEPT ![t] = step]
  /\ \/ /\ Len(queue) < QueueCapacity
        /\ queue' = Append(queue, [from |-> t, command |-> command])
        /\ reply' = [reply EXCEPT ![t] = <<>>]
     \/ /\ reply' = [reply EXCEPT ![t] = <<Unavailable>>]
        /\ UNCHANGED queue

\* t goes on to step without a call.
Go(t, step) ==
  /\ pc' = [pc EXCEPT ![t] = step]
  /\ reply' = [reply EXCEPT ![t] = <<>>]
  /\ UNCHANGED queue

\* The caller t goes away: its command stays queued.
Abandon(t) ==
  /\ pc' = [pc EXCEPT ![t] = "idle"]
  /\ reply' = [reply EXCEPT ![t] = <<>>]
  /\ queue' = [i \in DOMAIN queue |->
                 IF queue[i].from = t
                 THEN [from |-> NoTask, command |-> queue[i].command]
                 ELSE queue[i]]

\* The worker executes the oldest command, or the database fails it.
Execute ==
  /\ queue # <<>>
  /\ queue' = Tail(queue)
  /\ LET t == Head(queue).from
         command == Head(queue).command
         answered(a) == reply' = IF t = NoTask THEN reply
                                 ELSE [reply EXCEPT ![t] = <<a>>]
     IN \/ /\ answered(AnswerTo(table, command, Epoch))
           /\ table' = EffectOf(table, command)
        \/ answered(BackendFailure) /\ UNCHANGED table
  /\ UNCHANGED <<leaseState, pc, producerVars, clientVars, cut>>

Answered(t, step) == pc[t] = step /\ reply[t] # <<>>
Succeeded(t) == reply[t][1].tag = "ok"

\* The events of a page, in append order.
PageEvents(rows) ==
  LET row(i) == CHOOSE n \in DOMAIN rows :
                  Cardinality({m \in DOMAIN rows : m < n}) = i - 1
  IN [i \in 1 .. Cardinality(DOMAIN rows) |-> rows[row(i)]]

QueryOf(upper, from, limit) ==
  [kind |-> "query", query |-> [topics |-> Canvases, bound |-> upper,
                                after |-> from, limit |-> limit]]
AppendOf(event) == [kind |-> "append", event |-> event]

-----------------------------------------------------------------------------
(* Producers: Runtime::execute, load_stroke, PipelineAdapter::dispatch.    *)

\* An action asks for the chunks first .. last of stroke s.
Act(p, s, first, last) ==
  /\ pc[p] = "idle" /\ count[p] < MaxActions
  /\ count' = [count EXCEPT ![p] = @ + 1]
  /\ action' = [action EXCEPT ![p] =
       <<[stroke |-> s, first |-> first, last |-> last]>>]
  /\ pc' = [pc EXCEPT ![p] = "acquiring"]
  /\ Request(p, s)
  /\ UNCHANGED <<storeVars, reply, cursor, projection, todo, batch,
                 clientVars, cut>>

\* The lease is granted; load_stroke asks for the first page.
Granted(p) ==
  /\ pc[p] = "acquiring"
  /\ Grant(p)
  /\ Await(p, "loading", QueryOf(<<>>, <<>>, LoadLimit))
  /\ UNCHANGED <<table, producerVars, clientVars, cut>>

\* The action is over, with or without success: the lease is dropped.
Finish(p) ==
  /\ Release(p)
  /\ action' = [action EXCEPT ![p] = <<>>]
  /\ cursor' = [cursor EXCEPT ![p] = <<>>]
  /\ projection' = [projection EXCEPT ![p] = 0]
  /\ todo' = [todo EXCEPT ![p] = <<>>]
  /\ batch' = [batch EXCEPT ![p] = <<>>]
  /\ cut' = cut \cup {batch[p][i].id : i \in DOMAIN batch[p]}
  /\ UNCHANGED <<table, count, clientVars>>

Stroke(p) == action[p][1].stroke

\* The rows of p's stroke among those of a page.
OwnRows(p, rows) == {n \in DOMAIN rows : rows[n].stroke = Stroke(p)}

\* StrokeProjector::apply, row by row, accepts the next chunk only.
Projects(p, rows) ==
  \A n \in OwnRows(p, rows) :
    rows[n].number =
      projection[p] + Cardinality({m \in OwnRows(p, rows) : m <= n})

\* Mutant: only the first page is read.
LoadedFirstPage(p) ==
  /\ Answered(p, "loading")
  /\ LET rows == reply[p][1].rows
     IN IF Succeeded(p) /\ Projects(p, rows)
        THEN /\ projection' = [projection EXCEPT ![p] =
                                 @ + Cardinality(OwnRows(p, rows))]
             /\ Go(p, "deciding")
             /\ UNCHANGED <<table, leaseState, action, count, cursor, todo,
                            batch, clientVars, cut>>
        ELSE Go(p, "idle") /\ Finish(p)

\* A page is applied; the next one is asked for until there is none.
Loaded(p) ==
  /\ Answered(p, "loading")
  /\ IF ~Succeeded(p) THEN Go(p, "idle") /\ Finish(p)
     ELSE LET rows == reply[p][1].rows
              next == reply[p][1].token
          IN IF ~Projects(p, rows) THEN Go(p, "idle") /\ Finish(p)
             ELSE /\ projection' = [projection EXCEPT ![p] =
                                      @ + Cardinality(OwnRows(p, rows))]
                  /\ cursor' = [cursor EXCEPT ![p] = next]
                  /\ IF next = <<>> THEN Go(p, "deciding")
                     ELSE Await(p, "loading", QueryOf(<<>>, next, LoadLimit))
                  /\ UNCHANGED <<table, leaseState, action, count, todo, batch,
                                 clientVars, cut>>

EventOf(p, n) ==
  [id |-> <<p, count[p], n>>, topic |-> CanvasOf[Stroke(p)],
   stroke |-> Stroke(p), number |-> n, last |-> action[p][1].last]

\* The events of chunks m .. n.
EventsOf(p, m, n) == [i \in 1 .. n - m + 1 |-> EventOf(p, m + i - 1)]

\* Mutant: an identical retry is not recognised.
DecideAgain(p) ==
  /\ pc[p] = "deciding"
  /\ LET a == action[p][1]
         events == EventsOf(p, a.first, a.last)
     IN IF a.first > projection[p] + 1 THEN Go(p, "idle") /\ Finish(p)
        ELSE /\ todo' = [todo EXCEPT ![p] = events]
             /\ batch' = [batch EXCEPT ![p] = events]
             /\ Await(p, "storing", AppendOf(events[1]))
             /\ UNCHANGED <<table, leaseState, action, count, cursor,
                            projection, clientVars, cut>>

\* The handler: chunks already there are an identical retry and make no
\* event, a gap is rejected; dispatch begins with the first append.
Decide(p) ==
  /\ pc[p] = "deciding"
  /\ LET a == action[p][1]
         events == EventsOf(p, projection[p] + 1, a.last)
     IN IF a.last <= projection[p] \/ a.first > projection[p] + 1
        THEN Go(p, "idle") /\ Finish(p)
        ELSE /\ todo' = [todo EXCEPT ![p] = events]
             /\ batch' = [batch EXCEPT ![p] = events]
             /\ Await(p, "storing", AppendOf(events[1]))
             /\ UNCHANGED <<table, leaseState, action, count, cursor,
                            projection, clientVars, cut>>

\* Mutant: events are published as soon as they are stored.
StoredPublishes(p) ==
  /\ Answered(p, "storing")
  /\ IF ~Succeeded(p) THEN Go(p, "idle") /\ Finish(p)
     ELSE /\ Go(p, "publishing")
          /\ UNCHANGED <<table, leaseState, producerVars, clientVars, cut>>

\* An append returned; an error ends the dispatch, and nothing is published.
Stored(p) ==
  /\ Answered(p, "storing")
  /\ IF ~Succeeded(p) THEN Go(p, "idle") /\ Finish(p)
     ELSE IF Len(todo[p]) > 1
     THEN /\ todo' = [todo EXCEPT ![p] = Tail(@)]
          /\ Await(p, "storing", AppendOf(todo[p][2]))
          /\ UNCHANGED <<table, leaseState, action, count, cursor, projection,
                         batch, clientVars, cut>>
     ELSE /\ todo' = [todo EXCEPT ![p] = batch[p]]
          /\ Go(p, "publishing")
          /\ UNCHANGED <<table, leaseState, action, count, cursor, projection,
                         batch, clientVars, cut>>

\* Mutant: a full subscription misses the event.
DeliverDropping(e) ==
  /\ inbox' = [c \in Clients |->
       IF sub[c] = "open" /\ Len(inbox[c]) < BusCapacity
       THEN Append(inbox[c], e) ELSE inbox[c]]
  /\ UNCHANGED sub

\* Every open subscription gets the event; one whose queue is full lags.
Deliver(e) ==
  /\ inbox' = [c \in Clients |->
       IF sub[c] = "open" /\ Len(inbox[c]) < BusCapacity
       THEN Append(inbox[c], e) ELSE inbox[c]]
  /\ sub' = [c \in Clients |->
       IF sub[c] = "open" /\ Len(inbox[c]) >= BusCapacity
       THEN "lagged" ELSE sub[c]]

Publish(p) ==
  /\ pc[p] = "publishing" /\ todo[p] # <<>>
  /\ Deliver(Head(todo[p]))
  /\ todo' = [todo EXCEPT ![p] = Tail(@)]
  /\ batch' = [batch EXCEPT ![p] = Tail(@)]
  /\ UNCHANGED <<storeVars, leaseState, pc, reply, action, count, cursor,
                 projection, live, pageVars, cut>>

\* All is published, or the bus fails.
Dispatched(p) ==
  /\ pc[p] = "publishing"
  /\ Go(p, "idle") /\ Finish(p)

\* The future of the action is dropped with its connection.
CancelAction(p) ==
  /\ pc[p] # "idle"
  /\ Abandon(p)
  /\ IF pc[p] = "acquiring"
     THEN /\ Withdraw(p)
          /\ action' = [action EXCEPT ![p] = <<>>]
          /\ UNCHANGED <<table, count, cursor, projection, todo, batch,
                         clientVars, cut>>
     ELSE Finish(p)

-----------------------------------------------------------------------------
(* Clients: subscribe, then canvas.history.page until complete.            *)

Subscribe(c) ==
  /\ pc[c] = "idle"
  /\ sub' = [sub EXCEPT ![c] = "open"]
  /\ Go(c, "subscribed")
  /\ UNCHANGED <<table, leaseState, producerVars, inbox, live, pageVars, cut>>

\* A First request, after catalog and authorizer: capture_checkpoint.
First(c) ==
  /\ pc[c] = "subscribed"
  /\ Await(c, "capturing", [kind |-> "capture"])
  /\ UNCHANGED <<table, leaseState, producerVars, clientVars, cut>>

\* Mutant: the query is not bounded by the checkpoint.
AskUnbounded(c, upper, from) == Await(c, "paging", QueryOf(<<>>, from, ScanLimit))

\* The page below the checkpoint upper, behind the cursor from.
AskPage(c, upper, from) == Await(c, "paging", QueryOf(upper, from, ScanLimit))

Captured(c) ==
  /\ Answered(c, "capturing")
  /\ IF ~Succeeded(c)
     THEN Go(c, "subscribed") /\ UNCHANGED bound
     ELSE /\ bound' = [bound EXCEPT ![c] = reply[c][1].token]
          /\ AskPage(c, reply[c][1].token, <<>>)
  /\ UNCHANGED <<table, leaseState, producerVars, busVars, after, history, cut>>

\* The events of the page on the watched canvas.
Shown(c, rows) ==
  PageEvents(RowsOf(rows, {n \in DOMAIN rows : rows[n].topic = Watched[c]}))

\* A page arrives, or the request fails: then its client repeats it, with a
\* new checkpoint if it was the first.
Paged(c) ==
  /\ Answered(c, "paging")
  /\ \/ /\ Succeeded(c)
        /\ history' = [history EXCEPT ![c] =
             @ \o Shown(c, reply[c][1].rows)]
        /\ after' = [after EXCEPT ![c] = reply[c][1].token]
        /\ Go(c, IF reply[c][1].token = <<>> THEN "complete" ELSE "continuing")
        /\ UNCHANGED bound
     \/ \* the store's error, or a response beyond max_message_bytes
        /\ IF after[c] = <<>>
           THEN Go(c, "subscribed") /\ bound' = [bound EXCEPT ![c] = <<>>]
           ELSE Go(c, "continuing") /\ UNCHANGED bound
        /\ UNCHANGED <<after, history>>
  /\ UNCHANGED <<table, leaseState, producerVars, busVars, cut>>

\* A Continue request, with the checkpoint and cursor of the last page.
Continue(c) ==
  /\ pc[c] = "continuing"
  /\ AskPage(c, bound[c], after[c])
  /\ UNCHANGED <<table, leaseState, producerVars, clientVars, cut>>

Receive(c) ==
  /\ inbox[c] # <<>>
  /\ live' = [live EXCEPT ![c] = Append(@, Head(inbox[c]))]
  /\ inbox' = [inbox EXCEPT ![c] = Tail(@)]
  /\ UNCHANGED <<storeVars, leaseState, pc, reply, producerVars, sub, pageVars,
                 cut>>

\* The connection ends, because its subscription lags or for its own reasons;
\* the client starts over on a new one.
Disconnect(c) ==
  /\ pc[c] # "idle"
  /\ Abandon(c)
  /\ sub' = [sub EXCEPT ![c] = "none"]
  /\ inbox' = [inbox EXCEPT ![c] = <<>>]
  /\ live' = [live EXCEPT ![c] = <<>>]
  /\ bound' = [bound EXCEPT ![c] = <<>>]
  /\ after' = [after EXCEPT ![c] = <<>>]
  /\ history' = [history EXCEPT ![c] = <<>>]
  /\ UNCHANGED <<table, leaseState, producerVars, cut>>

-----------------------------------------------------------------------------
ProducerStep(p) ==
  Loaded(p) \/ Decide(p) \/ Stored(p) \/ Publish(p) \/ Dispatched(p)

ClientStep(c) ==
  \/ Subscribe(c) \/ First(c) \/ Captured(c) \/ Paged(c) \/ Continue(c)
  \/ Receive(c) \/ Disconnect(c)

Next ==
  \/ \E p \in Producers :
       \/ \E s \in Strokes, first, last \in 1 .. MaxChunks :
            last \in first .. first + 1 /\ Act(p, s, first, last)
       \/ Granted(p) \/ ProducerStep(p) \/ CancelAction(p)
  \/ \E c \in Clients : ClientStep(c)
  \/ Execute

Spec == Init /\ [][Next]_vars

-----------------------------------------------------------------------------
\* What values the variables take.
RelayTypeOK ==
  /\ Len(queue) <= QueueCapacity
  /\ \A i \in DOMAIN queue : queue[i].from \in Tasks \cup {NoTask}
  /\ \A p \in Producers :
       /\ hold[p] \in Strokes \cup {NoStroke}
       /\ pc[p] \in {"idle", "acquiring", "loading", "deciding", "storing",
                     "publishing"}
       /\ pc[p] \notin {"idle", "acquiring"} <=> hold[p] # NoStroke
  /\ \A c \in Clients :
       /\ pc[c] \in {"idle", "subscribed", "capturing", "paging",
                     "continuing", "complete"}
       /\ Len(inbox[c]) <= BusCapacity

\* The chunks of stroke s in the table, in append order.
StrokeRows(s) == {n \in DOMAIN table : table[n].stroke = s}

\* Each chunk of a stroke is one fact: stored once and in order, whatever
\* producers retry, race for, or leave behind in the store's queue when they
\* are cancelled.  load_stroke reports anything else as corruption.
StrokeIsSound ==
  \A s \in Strokes : \A n \in StrokeRows(s) :
    table[n].number = Cardinality({m \in StrokeRows(s) : m <= n})

\* load_stroke reads page after page without a checkpoint while other strokes
\* go on: what a handler decides upon is still all of its stroke.
ProjectionIsCurrent ==
  \A p \in Producers :
    pc[p] = "deciding" => projection[p] = Cardinality(StrokeRows(Stroke(p)))

\* Nothing reaches a subscriber before its whole batch is stored.
BatchStoredFirst ==
  \A c \in Clients : \A e \in Range(inbox[c] \o live[c]) :
    \A k \in e.number .. e.last :
      \E n \in StrokeRows(e.stroke) : table[n].number = k

\* The pages of a client are exactly its canvas's events below the checkpoint
\* of its first page, each once and in append order, though the table grows
\* between the pages.
HistoryIsExact ==
  \A c \in Clients :
    LET end == IF pc[c] = "complete" THEN bound[c][1].position
               ELSE IF after[c] = <<>> THEN 0 ELSE after[c][1].position
    IN history[c] = Shown(c, RowsOf(table, {n \in DOMAIN table : n < end}))

\* What a client received on its subscription, and what of it is news: on its
\* canvas, and in none of its pages.
Stream(c) == live[c] \o inbox[c]
News(c) == {i \in DOMAIN Stream(c) :
              /\ Stream(c)[i].topic = Watched[c]
              /\ Stream(c)[i] \notin Range(history[c])}

HandedOver(c) == pc[c] = "complete" /\ sub[c] = "open"

InOrder(e, f) == e.stroke = f.stroke => e.number < f.number

\* A client that subscribed first and completed its history misses no event:
\* each one is in its pages, or on its subscription, or its dispatch is still
\* under way or ended before the event was published.  And it gets the chunks
\* of a stroke in order, in its pages and then in what is news to it.
HandoffIsGapless ==
  \A c \in Clients : HandedOver(c) =>
    /\ \A n \in DOMAIN table :
         table[n].topic = Watched[c] =>
           \/ table[n] \in Range(history[c]) \cup Range(Stream(c))
           \/ table[n].id \in cut
           \/ \E p \in Producers : table[n] \in Range(batch[p])
    /\ \A i, j \in DOMAIN history[c] :
         i < j => InOrder(history[c][i], history[c][j])
    /\ \A i \in DOMAIN history[c], j \in News(c) :
         InOrder(history[c][i], Stream(c)[j])
    /\ \A i, j \in News(c) : i < j => InOrder(Stream(c)[i], Stream(c)[j])
=============================================================================
