----------------------------- MODULE RelayProofs -----------------------------
(***************************************************************************)
(* Proofs about Relay, for any number of producers, strokes, canvases and  *)
(* clients: what clients read page by page, and what their subscriptions   *)
(* bring them.  The proofs take Counting, a few facts about finite sets,   *)
(* as a hypothesis; the section on finite sets shows it.                   *)
(***************************************************************************)
EXTENDS RelaySteps

\* Zenon proves what does not name another prover.
USE Zenon

-----------------------------------------------------------------------------
(* What a client has read, and what reaches it.                            *)

Begun == {"paging", "continuing", "complete"}
Got(t, step) == Answered(t, step) /\ Succeeded(t)
Position(token) == IF token = <<>> THEN 0 ELSE token[1].position

\* A checkpoint or cursor of rows that the table has.
IsMark(tb, token) ==
  /\ token # <<>> /\ token[1].position \in Nat
  /\ 0 .. token[1].position - 1 \subseteq DOMAIN tb

\* The answer a is a page: the rows from the cursor from on, up to the next
\* cursor or, on the last page, to the checkpoint upper.
PageIn(tb, a, from, upper) ==
  LET end == IF a.token = <<>> THEN Position(upper) ELSE Position(a.token)
  IN /\ a.token # <<>> => IsMark(tb, a.token)
     /\ Position(from) <= end /\ end <= Position(upper)
     /\ DOMAIN a.rows = Position(from) .. end - 1
     /\ \A m \in DOMAIN a.rows : a.rows[m] = tb[m]

HistoryEnd(c) ==
  IF pc[c] = "complete" THEN bound[c][1].position ELSE Position(after[c])

\* The pages so far hold what is in front of the cursor, and the page just
\* answered what comes next.
PagesInv(c) ==
  /\ pc[c] \notin Begun => after[c] = <<>>
  /\ pc[c] \in Begun => IsMark(table, bound[c])
  /\ after[c] # <<>> => /\ IsMark(table, after[c])
                        /\ Position(after[c]) <= Position(bound[c])
  /\ Got(c, "capturing") => IsMark(table, reply[c][1].token)
  /\ Got(c, "paging") => PageIn(table, reply[c][1], after[c], bound[c])
  /\ history[c] = Shown(c, Upto(table, HistoryEnd(c)))

\* Still to be published, or given up.
Owned(e) == e.id \in cut \/ \E p \in Producers : e \in Range(batch[p])

\* From its checkpoint on, an open subscription has or gets every event.
Covers(c, token) ==
  \A n \in DOMAIN table : Position(token) <= n =>
    table[n] \in Range(Stream(c)) \/ Owned(table[n])

CoverInv(c) ==
  sub[c] = "open" =>
    /\ pc[c] \in Begun => Covers(c, bound[c])
    /\ Got(c, "capturing") => Covers(c, reply[c][1].token)

\* A queued command of a client is the one it awaits; an append nobody awaits
\* is of a dispatch that ended.
ClientAwaits(c, command) ==
  /\ reply[c] = <<>>
  /\ \/ pc[c] = "capturing" /\ command = [kind |-> "capture"]
     \/ pc[c] = "paging" /\ command = QueryOf(bound[c], after[c], ScanLimit)

CallsInv ==
  /\ \A i \in 1 .. Len(queue) :
       /\ queue[i].from \in Clients => ClientAwaits(queue[i].from, queue[i].command)
       /\ IsAppend(i) => queue[i].from \in Producers \/ queue[i].command.event.id \in cut
  /\ \A i, j \in 1 .. Len(queue) :
       i < j /\ queue[i].from = queue[j].from => queue[i].from \notin Clients

\* What of p's batch is not in todo is stored.
StoredPart(p) ==
  \E d \in Nat :
    /\ Len(batch[p]) = d + Len(todo[p])
    /\ \A k \in 1 .. Len(todo[p]) : todo[p][k] = batch[p][d + k]
    /\ \A k \in 1 .. d : batch[p][k] \in Range(table)

BatchInv(p) ==
  /\ IsSeq(batch[p])
  /\ \A k \in 1 .. Len(batch[p]) : batch[p][k].stroke = hold[p]
  /\ \A k, l \in 1 .. Len(batch[p]) :
       k < l => batch[p][k].number < batch[p][l].number
  /\ pc[p] \notin {"storing", "publishing"} => batch[p] = <<>>
  /\ pc[p] = "storing" => StoredPart(p)
  /\ Got(p, "storing") => todo[p][1] \in Range(table)
  /\ pc[p] = "publishing" =>
       /\ todo[p] = batch[p]
       /\ \A k \in 1 .. Len(batch[p]) : batch[p][k] \in Range(table)

\* A subscription brings stored events, the chunks of a stroke in order, and
\* what is still to be published comes behind them.
StreamInv(c) ==
  /\ IsSeq(Stream(c))
  /\ \A i \in 1 .. Len(Stream(c)) : Stream(c)[i] \in Range(table)
  /\ \A i, j \in 1 .. Len(Stream(c)) :
       i < j => InOrder(Stream(c)[i], Stream(c)[j])
  /\ \A p \in Producers : \A k \in 1 .. Len(batch[p]) :
       \A i \in 1 .. Len(Stream(c)) : InOrder(Stream(c)[i], batch[p][k])

ReaderShape == /\ DOMAIN sub = Clients /\ DOMAIN bound = Clients
               /\ DOMAIN after = Clients /\ DOMAIN history = Clients

ReadInv ==
  /\ ReaderShape /\ CallsInv
  /\ \A c \in Clients : PagesInv(c) /\ CoverInv(c) /\ StreamInv(c)
  /\ \A p \in Producers : BatchInv(p)

-----------------------------------------------------------------------------
(* Steps that leave a task as it is.                                       *)

SameClient(c) ==
  /\ pc'[c] = pc[c] /\ reply'[c] = reply[c]
  /\ sub'[c] = sub[c] /\ inbox'[c] = inbox[c] /\ live'[c] = live[c]
  /\ bound'[c] = bound[c] /\ after'[c] = after[c] /\ history'[c] = history[c]

SameProducer(p) ==
  /\ pc'[p] = pc[p] /\ reply'[p] = reply[p] /\ hold'[p] = hold[p]
  /\ todo'[p] = todo[p] /\ batch'[p] = batch[p]

\* Events still to be published, or given up, stay so.
OwnedKept == \A n \in DOMAIN table : Owned(table[n]) => Owned(table[n])'

\* What a client has read stays as it is while its state does.
LEMMA PagesKept ==
  ASSUME NEW c, PagesInv(c), table' = table,
         pc'[c] = pc[c], reply'[c] = reply[c], bound'[c] = bound[c],
         after'[c] = after[c], history'[c] = history[c]
  PROVE  PagesInv(c)'
BY DEF PagesInv, Got, Answered, Succeeded, HistoryEnd

\* The subscription of a client that does not move still covers its canvas.
LEMMA CoverKept ==
  ASSUME NEW c, CoverInv(c), SameClient(c), table' = table, OwnedKept
  PROVE  CoverInv(c)'
<1>1. Stream(c)' = Stream(c)
  BY DEF Stream, SameClient
<1>2. /\ pc'[c] = pc[c] /\ sub'[c] = sub[c] /\ bound'[c] = bound[c]
      /\ reply'[c] = reply[c] /\ (Got(c, "capturing")' <=> Got(c, "capturing"))
  BY DEF SameClient, Got, Answered, Succeeded
<1> QED
  BY <1>1, <1>2 DEF CoverInv, Covers, OwnedKept

\* The batch of a producer that does not move.
LEMMA BatchKept ==
  ASSUME NEW p, BatchInv(p), SameProducer(p), table' = table
  PROVE  BatchInv(p)'
BY SMT DEF BatchInv, SameProducer, Got, Answered, Succeeded, StoredPart

\* The stream of a client that does not move, when the batches behind it do.
LEMMA StreamKept ==
  ASSUME NEW c, StreamInv(c), Stream(c)' = Stream(c), table' = table,
         \A p \in Producers : \A k \in 1 .. Len(batch'[p]) :
           \A i \in 1 .. Len(Stream(c)) : InOrder(Stream(c)[i], batch'[p][k])
  PROVE  StreamInv(c)'
BY DEF StreamInv, InOrder

\* A step of t sends a command at most.
SentBy(t, n) ==
  \/ Len(queue') = n
  \/ /\ Len(queue') = n + 1
     /\ queue'[n + 1].from = t
     /\ IsAppend(n + 1)' => t \in Producers
     /\ t \in Clients => ClientAwaits(t, queue[n + 1].command)' /\ NoneFrom(t)

\* The commands in the queue stay, or lose their caller.
KeptBy(t, n) ==
  \A i \in 1 .. n :
    /\ queue'[i].command = queue[i].command
    /\ \/ queue'[i].from = queue[i].from /\ (t \in Clients => queue[i].from # t)
       \/ /\ queue'[i].from = NoTask
          /\ IsAppend(i) => queue[i].command.event.id \in cut'

QueueMoves(t) ==
  \E n \in Nat : /\ Len(queue) = n /\ IsSeq(queue')
                 /\ SentBy(t, n) /\ KeptBy(t, n)

\* A step of one task keeps what is known of the calls of clients.
LEMMA CallsKept ==
  ASSUME QueueInv, CallsInv, NEW t, QueueMoves(t), cut \subseteq cut',
         \A c \in Clients : c # t =>
           /\ pc'[c] = pc[c] /\ reply'[c] = reply[c]
           /\ bound'[c] = bound[c] /\ after'[c] = after[c]
  PROVE  CallsInv'
<1>1. PICK n \in Nat : /\ Len(queue) = n /\ IsSeq(queue')
                       /\ SentBy(t, n) /\ KeptBy(t, n)
  BY DEF QueueMoves
<1>3. ASSUME NEW i \in 1 .. n
      PROVE  /\ queue'[i].from \in Clients =>
                  /\ queue'[i].from = queue[i].from /\ queue[i].from # t
                  /\ ClientAwaits(queue[i].from, queue[i].command)'
             /\ IsAppend(i)' => \/ queue'[i].from \in Producers
                                \/ queue'[i].command.event.id \in cut'
  <2>1. CASE queue'[i].from = queue[i].from /\ (t \in Clients => queue[i].from # t)
    <3>1. ASSUME queue'[i].from \in Clients
          PROVE  ClientAwaits(queue[i].from, queue[i].command)'
      <4>1. PICK c \in Clients : c = queue[i].from /\ c = queue'[i].from /\ c # t
        BY <2>1, <3>1
      <4>2. ClientAwaits(c, queue[i].command)
        BY <1>1, <4>1 DEF CallsInv
      <4> QED
        BY <1>1, <4>1, <4>2 DEF ClientAwaits, KeptBy
    <3> QED
      BY <1>1, <2>1, <3>1 DEF CallsInv, KeptBy, IsAppend
  <2>2. CASE /\ queue'[i].from = NoTask
             /\ IsAppend(i) => queue[i].command.event.id \in cut'
    BY <1>1, <2>2, RelayAssumption DEF KeptBy, IsAppend
  <2> QED
    BY <1>1, <2>1, <2>2 DEF KeptBy
<1>4. CASE Len(queue') = n
  <2>1. ASSUME NEW i \in 1 .. n, NEW j \in 1 .. n, i < j,
               queue'[i].from = queue'[j].from
        PROVE  queue'[i].from \notin Clients
    BY <1>1, <1>3, <2>1 DEF CallsInv
  <2> QED
    BY <1>3, <1>4, <2>1 DEF CallsInv
<1>5. CASE /\ Len(queue') = n + 1 /\ queue'[n + 1].from = t
           /\ IsAppend(n + 1)' => t \in Producers
           /\ t \in Clients => ClientAwaits(t, queue[n + 1].command)' /\ NoneFrom(t)
  <2>1. \A i \in 1 .. n + 1 : i \in 1 .. n \/ i = n + 1
    BY SMT
  <2>2. ASSUME NEW i \in 1 .. n + 1, NEW j \in 1 .. n + 1, i < j,
               queue'[i].from = queue'[j].from
        PROVE  queue'[i].from \notin Clients
    <3>1. i \in 1 .. n
      BY <2>2, SMT
    <3>2. CASE j \in 1 .. n
      BY <1>1, <1>3, <2>2, <3>1, <3>2 DEF CallsInv
    <3>3. CASE j = n + 1
      BY <1>3, <1>5, <2>2, <3>1, <3>3
    <3> QED
      BY <2>1, <3>2, <3>3
  <2>3. ASSUME NEW i \in 1 .. n + 1
        PROVE  /\ queue'[i].from \in Clients =>
                    ClientAwaits(queue[i].from, queue[i].command)'
               /\ IsAppend(i)' => \/ queue'[i].from \in Producers
                                  \/ queue'[i].command.event.id \in cut'
    <3>1. CASE i \in 1 .. n
      <4>1. ASSUME queue'[i].from \in Clients
            PROVE  ClientAwaits(queue[i].from, queue[i].command)'
        BY <1>3, <3>1, <4>1
      <4> QED
        BY <1>3, <3>1, <4>1
    <3>2. CASE i = n + 1
      <4>1. ASSUME t \in Clients
            PROVE  ClientAwaits(queue[i].from, queue[i].command)'
        BY <1>5, <3>2, <4>1 DEF ClientAwaits
      <4> QED
        BY <1>5, <3>2, <4>1
    <3> QED
      BY <2>1, <3>1, <3>2
  <2> QED
    BY <1>5, <2>2, <2>3 DEF CallsInv
<1> QED
  BY <1>1, <1>4, <1>5 DEF SentBy

\* The queue stays as it is.
LEMMA QueueRests ==
  ASSUME QueueInv, NEW t, t \in Clients => NoneFrom(t), queue' = queue
  PROVE  QueueMoves(t)
<1>1. PICK n \in Nat : Len(queue) = n
  BY SeqFacts DEF QueueInv
<1> QED
  BY <1>1 DEF QueueInv, QueueMoves, SentBy, KeptBy, NoneFrom

\* A command joins the queue.
LEMMA QueueTakes ==
  ASSUME QueueInv, NEW t, NEW command,
         queue' = Append(queue, [from |-> t, command |-> command]),
         command.kind = "append" => t \in Producers,
         t \in Clients => ClientAwaits(t, command)' /\ NoneFrom(t)
  PROVE  QueueMoves(t)
<1>1. PICK n \in Nat : Len(queue) = n
  BY SeqFacts DEF QueueInv
<1>2. /\ IsSeq(queue') /\ Len(queue') = n + 1
      /\ \A i \in 1 .. n : queue'[i] = queue[i]
      /\ queue'[n + 1] = [from |-> t, command |-> command]
  BY <1>1, AppendFacts, SMT DEF QueueInv
<1>3. queue'[n + 1].from = t /\ queue'[n + 1].command = command
  BY <1>2, SMT
<1>4. ASSUME t \in Clients PROVE ClientAwaits(t, queue[n + 1].command)'
  BY <1>3, <1>4 DEF ClientAwaits
<1> QED
  BY <1>1, <1>2, <1>3, <1>4 DEF QueueMoves, SentBy, IsAppend, KeptBy, NoneFrom

\* A caller goes away.
LEMMA QueueLeft ==
  ASSUME QueueInv, NEW t,
         queue' = [i \in DOMAIN queue |->
                     IF queue[i].from = t
                     THEN [from |-> NoTask, command |-> queue[i].command]
                     ELSE queue[i]],
         \A i \in 1 .. Len(queue) : IsAppend(i) /\ queue[i].from = t =>
           queue[i].command.event.id \in cut'
  PROVE  QueueMoves(t)
<1>1. PICK n \in Nat : Len(queue) = n /\ DOMAIN queue = 1 .. n
  BY SeqFacts DEF QueueInv
<1>2. IsSeq(queue') /\ Len(queue') = n
  <2> DEFINE f == [i \in 1 .. n |-> IF queue[i].from = t
                     THEN [from |-> NoTask, command |-> queue[i].command]
                     ELSE queue[i]]
  <2> HIDE DEF f
  <2> QED
    BY <1>1, MapFacts
<1> QED
  BY <1>1, <1>2 DEF QueueMoves, SentBy, KeptBy

-----------------------------------------------------------------------------
(* The steps of producers.                                                 *)

\* Every step of a producer keeps what is known of the readers.
LEMMA ProducersRead ==
  \A p \in Producers :
    /\ Counting
    /\ IInv
    /\ ReadInv
    /\ \/ \E s, first, last : Act(p, s, first, last)
       \/ Granted(p) \/ ProducerStep(p) \/ CancelAction(p)
    => ReadInv'
\* What a step of producer p must show, when it publishes nothing.
<1>ProducerReads.
    ASSUME IInv, ReadInv, NEW p \in Producers, table' = table,
           \A c \in Clients : SameClient(c), ReaderShape',
           \A q \in Producers : q # p => SameProducer(q),
           QueueMoves(p), cut \subseteq cut', BatchInv(p)',
           \A k \in 1 .. Len(batch[p]) :
             batch[p][k] \in Range(batch'[p]) \/ batch[p][k].id \in cut',
           \A c \in Clients : \A k \in 1 .. Len(batch'[p]) :
             \A i \in 1 .. Len(Stream(c)) : InOrder(Stream(c)[i], batch'[p][k])
    PROVE  ReadInv'
  <2> USE <1>ProducerReads
  <2>4. OwnedKept
    <3>1. SUFFICES ASSUME NEW n \in DOMAIN table, Owned(table[n])
                   PROVE  Owned(table[n])'
      BY DEF OwnedKept
    <3>2. PICK e : e = table[n] /\ e = table'[n]
      OBVIOUS
    <3>3. CASE e.id \in cut
      BY <3>2, <3>3 DEF Owned
    <3>4. CASE \E q \in Producers : e \in Range(batch[q])
      <4>1. PICK q \in Producers : e \in Range(batch[q])
        BY <3>4
      <4>2. CASE q = p
        <5>2. PICK k \in 1 .. Len(batch[p]) : e = batch[p][k]
          BY <4>1, <4>2, SeqFacts DEF Range, ReadInv, BatchInv
        <5> QED
          BY <3>2, <5>2 DEF Owned
      <4>3. CASE q # p
        BY <3>2, <4>1, <4>3 DEF Owned, SameProducer
      <4> QED
        BY <4>2, <4>3
    <3> QED
      BY <3>1, <3>2, <3>3, <3>4 DEF Owned
  <2>5. ASSUME NEW c \in Clients PROVE PagesInv(c)' /\ CoverInv(c)' /\ StreamInv(c)'
    <3>1. PagesInv(c) /\ CoverInv(c) /\ StreamInv(c) /\ SameClient(c)
      BY DEF ReadInv
    <3>2. PagesInv(c)'
      BY <3>1, PagesKept DEF SameClient
    <3>5. ASSUME NEW q \in Producers, NEW k \in 1 .. Len(batch'[q]),
                 NEW i \in 1 .. Len(Stream(c))
          PROVE  InOrder(Stream(c)[i], batch'[q][k])
      <4>1. CASE q = p
        BY <4>1
      <4>2. CASE q # p
        <5> QED
          BY <3>1, <4>2 DEF StreamInv, SameProducer
      <4> QED
        BY <4>1, <4>2
    <3> QED
      BY <2>4, <3>1, <3>2, <3>5, CoverKept, StreamKept DEF Stream, SameClient
  <2> QED
    BY <2>5, BatchKept, CallsKept, RelayAssumption DEF ReadInv, SameClient, IInv

\* What the steps of p that publish nothing have in common.
<1>ProducerSteps.
    ASSUME IInv, ReadInv, NEW p \in Producers, Others(p),
           DOMAIN pc' = Tasks, DOMAIN reply' = Tasks,
           \A c \in Clients : pc'[c] = pc[c] /\ reply'[c] = reply[c],
           UNCHANGED <<sub, inbox, live, bound, after, history>>
    PROVE  /\ table' = table /\ ReaderShape'
           /\ \A c \in Clients : SameClient(c)
           /\ \A q \in Producers : q # p => SameProducer(q)
  <2> USE <1>ProducerSteps
  <2> QED
    BY DEF Others, ReaderShape, SameClient, SameProducer, ReadInv

\* An action that ends gives up what it has not published.
<1>FinishReads.
    ASSUME IInv, ReadInv, NEW p \in Producers, Finish(p),
           \/ /\ Go(p, "idle")
              /\ pc[p] \notin {"loading", "storing"} \/ reply[p] # <<>>
           \/ Abandon(p)
    PROVE  ReadInv'
  <2> USE <1>FinishReads
  <2>1. Shape /\ QueueInv /\ p \in Tasks /\ p \notin Clients /\ BatchInv(p)
        /\ Clients \subseteq Tasks
    BY RelayAssumption DEF IInv, Tasks, ReadInv
  <2>2. Moves(p) /\ pc'[p] = "idle" /\ reply'[p] = <<>>
    BY <2>1, GoFacts, AbandonFacts
  <2>3. /\ Others(p) /\ hold'[p] = NoStroke /\ batch'[p] = <<>>
        /\ cut' = cut \cup {batch[p][i].id : i \in DOMAIN batch[p]}
        /\ UNCHANGED <<sub, inbox, live, bound, after, history>>
    <3> QED
      BY <2>1, <2>2, FinishFacts DEF Finish, Shape, clientVars, busVars, pageVars
  <2>4. /\ table' = table /\ ReaderShape'
        /\ \A c \in Clients : SameClient(c)
        /\ \A q \in Producers : q # p => SameProducer(q)
    BY <2>1, <2>2, <2>3, <1>ProducerSteps DEF Moves
  <2>5. cut \subseteq cut' /\ \A k \in 1 .. Len(batch[p]) : batch[p][k].id \in cut'
    <3>1. DOMAIN batch[p] = 1 .. Len(batch[p])
      BY <2>1, SeqFacts DEF BatchInv
    <3> QED
      BY <2>3, <3>1
  <2>6. QueueMoves(p)
    <3>1. CASE /\ Go(p, "idle")
               /\ pc[p] \notin {"loading", "storing"} \/ reply[p] # <<>>
      BY <2>1, <3>1, QueueRests DEF Go
    <3>2. CASE Abandon(p)
      <4>1. ASSUME NEW i \in 1 .. Len(queue), IsAppend(i), queue[i].from = p
            PROVE  queue[i].command.event.id \in cut'
        <5>2. pc[p] = "storing" /\ queue[i].command = AppendOf(todo[p][1])
          <6>1. QueryOf(<<>>, cursor[p], LoadLimit).kind # "append"
            BY DEF QueryOf
          <6> QED
            BY <2>1, <4>1, <6>1 DEF Awaited, IsAppend, QueueInv
        <5>4. PICK d \in Nat : /\ Len(batch[p]) = d + Len(todo[p])
                /\ \A k \in 1 .. Len(todo[p]) : todo[p][k] = batch[p][d + k]
          BY <2>1, <5>2 DEF BatchInv, StoredPart
        <5>5. Len(todo[p]) \in Nat /\ Len(todo[p]) >= 1
          BY <5>2, SeqFacts DEF IInv, TaskInv, StoreInv
        <5>6. todo[p][1] = batch[p][d + 1] /\ d + 1 \in 1 .. Len(batch[p])
          BY <5>4, <5>5, SMT
        <5> QED
          BY <2>5, <5>2, <5>6, SMT DEF AppendOf
      <4> QED
        BY <2>1, <3>2, <4>1, QueueLeft DEF Abandon
    <3> QED
      BY <3>1, <3>2
  <2>7. IsSeq(batch'[p]) /\ \A k \in 1 .. Len(batch'[p]) : FALSE
    BY <2>3, EmptyIsSeq, SMT
  <2>8. BatchInv(p)'
    BY <2>2, <2>3, <2>7 DEF BatchInv, Got, Answered
  <2> QED
    BY <2>4, <2>5, <2>6, <2>7, <2>8, <1>ProducerReads

\* A producer that has no batch before and after its step.
<1>QuietStep.
    ASSUME IInv, ReadInv, NEW p \in Producers, Others(p),
           DOMAIN pc' = Tasks, DOMAIN reply' = Tasks,
           \A c \in Clients : pc'[c] = pc[c] /\ reply'[c] = reply[c],
           UNCHANGED <<sub, inbox, live, bound, after, history, cut, batch>>,
           pc[p] \notin {"storing", "publishing"},
           pc'[p] \notin {"storing", "publishing"}, QueueMoves(p)
    PROVE  ReadInv'
  <2> USE <1>QuietStep
  <2>2. batch[p] = <<>> /\ batch'[p] = <<>>
    BY DEF BatchInv, ReadInv
  <2>3. /\ table' = table /\ ReaderShape'
        /\ \A c \in Clients : SameClient(c)
        /\ \A q \in Producers : q # p => SameProducer(q)
    BY <1>ProducerSteps
  <2>4. /\ IsSeq(batch'[p])
        /\ \A k \in 1 .. Len(batch[p]) : FALSE
        /\ \A k \in 1 .. Len(batch'[p]) : FALSE
    BY <2>2, EmptyIsSeq, SMT
  <2>5. BatchInv(p)'
    BY <2>2, <2>4 DEF BatchInv, Got, Answered
  <2>6. cut \subseteq cut'
    OBVIOUS
  <2> QED
    BY <2>3, <2>4, <2>5, <2>6, <1>ProducerReads

\* A call of a producer.
<1>ProducerCalls.
    ASSUME IInv, NEW p \in Producers, NEW step, NEW command, Await(p, step, command)
    PROVE  /\ Moves(p) /\ pc'[p] = step /\ QueueMoves(p)
           /\ reply'[p] = <<>> \/ reply'[p] = <<Unavailable>>
  <2> USE <1>ProducerCalls
  <2> QED
    BY QueueRests, QueueTakes, AwaitFacts, RelayAssumption DEF IInv, Tasks

\* The steps up to the handler's decision publish and store nothing.
<1>EarlySteps.
    ASSUME IInv, ReadInv, NEW p \in Producers,
           \/ \E s, first, last : Act(p, s, first, last)
           \/ Granted(p) \/ Loaded(p)
    PROVE  ReadInv'
  <2> USE <1>EarlySteps
  <2>1. Shape /\ QueueInv /\ p \in Tasks /\ p \notin Clients /\ Clients \subseteq Tasks
    BY RelayAssumption DEF IInv, Tasks
  <2>2. CASE \E s, first, last : Act(p, s, first, last)
    <3>1. PICK s : \E first, last : Act(p, s, first, last)
      BY <2>2
    <3>2. PICK first, last : Act(p, s, first, last)
      BY <3>1
    <3>3. /\ pc[p] = "idle" /\ pc' = [pc EXCEPT ![p] = "acquiring"]
          /\ queue' = queue /\ reply' = reply /\ table' = table
          /\ want' = [want EXCEPT ![p] = s] /\ hold' = hold
          /\ \E x : action' = [action EXCEPT ![p] = x]
          /\ UNCHANGED <<cursor, projection, todo, batch>>
          /\ UNCHANGED <<sub, inbox, live, bound, after, history, cut>>
      BY <3>2 DEF Act, Request, storeVars, clientVars, busVars, pageVars
    <3>4. /\ Others(p) /\ DOMAIN pc' = Tasks /\ DOMAIN reply' = Tasks
          /\ pc'[p] = "acquiring"
          /\ \A c \in Clients : pc'[c] = pc[c] /\ reply'[c] = reply[c]
      <4> QED
        BY <2>1, <3>3 DEF Others, Shape, Tasks
    <3>5. QueueMoves(p)
      BY <2>1, <3>3, QueueRests
    <3> QED
      BY <3>3, <3>4, <3>5, <1>QuietStep
  <2>3. CASE Granted(p)
    <3>1. /\ pc[p] = "acquiring" /\ table' = table
          /\ Await(p, "loading", QueryOf(<<>>, <<>>, LoadLimit))
          /\ hold' = [hold EXCEPT ![p] = want[p]]
          /\ want' = [want EXCEPT ![p] = NoStroke]
          /\ UNCHANGED <<action, cursor, projection, todo, batch>>
          /\ UNCHANGED <<sub, inbox, live, bound, after, history, cut>>
      BY <2>3 DEF Granted, Grant, producerVars, clientVars, busVars, pageVars
    <3>2. Moves(p) /\ pc'[p] = "loading" /\ QueueMoves(p)
      BY <3>1, <1>ProducerCalls
    <3> QED
      BY <1>QuietStep, <2>1, <3>1, <3>2 DEF Others, Shape, Moves, Tasks
  <2>4. CASE Loaded(p)
    <3>1. pc[p] = "loading" /\ reply[p] # <<>>
      BY <2>4 DEF Loaded, Answered
    <3>2. CASE Go(p, "idle") /\ Finish(p)
      BY <3>1, <3>2, <1>FinishReads
    <3>3. CASE /\ \E x : projection' = [projection EXCEPT ![p] = x]
               /\ \E x : cursor' = [cursor EXCEPT ![p] = x]
               /\ \/ Go(p, "deciding")
                  \/ \E command : Await(p, "loading", command)
               /\ UNCHANGED <<table, want, hold, action, todo, batch>>
               /\ UNCHANGED <<sub, inbox, live, bound, after, history, cut>>
      <4>1. /\ Moves(p) /\ QueueMoves(p)
            /\ pc'[p] = "deciding" \/ pc'[p] = "loading"
        <5>1. CASE Go(p, "deciding")
          BY <2>1, <5>1, GoFacts, QueueRests
        <5>2. CASE \E command : Await(p, "loading", command)
          BY <5>2, <1>ProducerCalls
        <5> QED
          BY <3>3, <5>1, <5>2
      <4> QED
        BY <1>QuietStep, <2>1, <3>1, <3>3, <4>1 DEF Others, Shape, Moves, Tasks
    <3> QED
      BY <2>4, <3>2, <3>3 DEF Loaded, leaseState, clientVars, busVars, pageVars
  <2> QED
    BY <2>2, <2>3, <2>4

\* The future of an action is dropped.
<1>CancelReads.
    ASSUME IInv, ReadInv, NEW p \in Producers, CancelAction(p)
    PROVE  ReadInv'
  <2> USE <1>CancelReads
  <2>1. Shape /\ QueueInv /\ p \in Tasks /\ p \notin Clients /\ Clients \subseteq Tasks
    BY RelayAssumption DEF IInv, Tasks
  <2>2. CASE Abandon(p) /\ Finish(p)
    BY <2>2, <1>FinishReads
  <2>3. CASE /\ pc[p] = "acquiring" /\ Abandon(p) /\ Withdraw(p)
             /\ action' = [action EXCEPT ![p] = <<>>]
             /\ UNCHANGED <<table, cursor, projection, todo, batch>>
             /\ UNCHANGED <<sub, inbox, live, bound, after, history, cut>>
    <3>1. Moves(p) /\ pc'[p] = "idle"
      BY <2>1, <2>3, AbandonFacts
    <3>3. /\ Others(p) /\ DOMAIN pc' = Tasks /\ DOMAIN reply' = Tasks
          /\ \A c \in Clients : pc'[c] = pc[c] /\ reply'[c] = reply[c]
      BY <2>1, <2>3, <3>1 DEF Others, Shape, Moves, Tasks, Withdraw
    <3>5. QueueMoves(p)
      BY <2>1, <2>3, QueueLeft, NothingQueued DEF Abandon, NoneFrom
    <3> QED
      BY <2>3, <3>1, <3>3, <3>5, <1>QuietStep
  <2> QED
    BY <2>2, <2>3 DEF CancelAction, clientVars, busVars, pageVars

\* The events a handler decides upon come behind all that is stored, and so
\* behind all that was delivered.
<1>DecideReads.
    ASSUME Counting, IInv, ReadInv, NEW p \in Producers, Decide(p)
    PROVE  ReadInv'
  <2> USE <1>DecideReads
  <2>1. Shape /\ p \in Tasks /\ p \notin Clients /\ Clients \subseteq Tasks
        /\ TableOK(table) /\ BatchInv(p)
    BY RelayAssumption DEF IInv, Tasks, ReadInv
  <2>2. pc[p] = "deciding"
    BY DEF Decide
  <2>3. CASE Go(p, "idle") /\ Finish(p)
    BY <2>2, <2>3, <1>FinishReads
  <2>4. ASSUME NEW events, events = EventsOf(p, projection[p] + 1, action[p][1].last),
               ~(action[p][1].last <= projection[p]),
               todo' = [todo EXCEPT ![p] = events],
               batch' = [batch EXCEPT ![p] = events],
               Await(p, "storing", AppendOf(events[1])),
               UNCHANGED <<table, want, hold, action, cursor, projection>>,
               UNCHANGED <<sub, inbox, live, bound, after, history, cut>>
        PROVE  ReadInv'
    <3>1. /\ LeaseOf(p) /\ hold[p] = Stroke(p) /\ Stroke(p) \in Strokes
          /\ action[p][1].last \in Nat
          /\ projection[p] = Chunks(table, hold[p]) /\ projection[p] \in Nat
      BY <2>2 DEF IInv, LeaseInv, LeaseOf, TaskInv, DecideInv
    <3>2. PICK last \in Nat : last = action[p][1].last
      BY <3>1
    <3>3. PICK stored \in Nat : stored = projection[p]
      BY <3>1
    <3>4. PICK m, n \in Nat : m = stored + 1 /\ n = last - stored
      BY <2>4, <3>2, <3>3, SMT
    <3>5. m >= 1 /\ m + n = last + 1
      BY <3>4, SMT
    <3>6. AreChunks(events, p, m, n)
      <4>1. events = EventsOf(p, m, last) /\ pc[p] # "idle"
        BY <2>2, <2>4, <3>2, <3>3, <3>4
      <4> QED
        BY <3>1, <3>2, <3>5, <4>1, EventsFacts
    <3>7. /\ IsSeq(events) /\ Len(events) = n
          /\ \A k \in 1 .. n : /\ events[k].stroke = hold[p]
                               /\ events[k].number = stored + k
      <4>1. \A k \in 1 .. n : m + k - 1 = stored + k
        BY <3>4, SMT
      <4> QED
        BY <3>1, <3>6, <4>1 DEF AreChunks
    <3>8. /\ Moves(p) /\ pc'[p] = "storing" /\ QueueMoves(p)
          /\ reply'[p] = <<>> \/ reply'[p] = <<Unavailable>>
      BY <2>4, <1>ProducerCalls
    <3>9. /\ Others(p) /\ DOMAIN pc' = Tasks /\ DOMAIN reply' = Tasks
          /\ \A c \in Clients : pc'[c] = pc[c] /\ reply'[c] = reply[c]
      BY <2>1, <2>4, <3>8 DEF Others, Shape, Moves, Tasks
    <3>10. /\ table' = table /\ ReaderShape'
           /\ \A c \in Clients : SameClient(c)
           /\ \A q \in Producers : q # p => SameProducer(q)
      BY <2>4, <3>9, <1>ProducerSteps
    <3>11. todo'[p] = events /\ batch'[p] = events /\ hold' = hold
      BY <2>1, <2>4 DEF Shape
    <3>12. ~Got(p, "storing")'
      BY <3>8, SMT DEF Got, Answered, Succeeded, Unavailable
    <3>13. StoredPart(p)'
      <4>1. /\ 0 \in Nat /\ n = 0 + n /\ \A k \in 1 .. n : 0 + k = k
            /\ \A k \in 1 .. 0 : FALSE
        BY SMT
      <4> QED
        BY <3>7, <3>11, <4>1 DEF StoredPart
    <3>14. BatchInv(p)'
      <4>2. \A k, l \in 1 .. n : k < l => events[k].number < events[l].number
        BY <3>7, SMT
      <4> QED
        BY <3>7, <3>8, <3>11, <3>12, <3>13, <4>2 DEF BatchInv
    <3>15. \A k \in 1 .. Len(batch[p]) : FALSE
      BY <2>1, <2>2, EmptyIsSeq, SMT DEF BatchInv
    <3>16. ASSUME NEW c \in Clients, NEW k \in 1 .. n, NEW i \in 1 .. Len(Stream(c))
           PROVE  InOrder(Stream(c)[i], events[k])
      <4>1. SUFFICES ASSUME Stream(c)[i].stroke = events[k].stroke
                     PROVE  Stream(c)[i].number < events[k].number
        BY DEF InOrder
      <4>2. PICK row \in DOMAIN table : Stream(c)[i] = table[row]
        BY DEF ReadInv, StreamInv, Range
      <4>4. table[row].number <= Chunks(table, hold[p])
        BY <2>1, <3>1, <3>7, <4>1, <4>2, NumbersAreChunks DEF RowsOfStroke
      <4>5. table[row].number \in Nat
        BY <2>1 DEF TableOK, EventOK
      <4>6. table[row].number <= stored /\ events[k].number = stored + k
        BY <3>1, <3>3, <3>7, <4>4
      <4>7. table[row].number < events[k].number
        BY <4>5, <4>6, SMT
      <4> QED
        BY <4>2, <4>7
    <3>17. cut \subseteq cut'
      BY <2>4
    <3> QED
      BY <3>7, <3>8, <3>10, <3>11, <3>14, <3>15, <3>16, <3>17, <1>ProducerReads
  <2> QED
    BY <2>3, <2>4 DEF Decide, leaseState, clientVars, busVars, pageVars

\* An append returned: its event is stored.
<1>StoredReads.
    ASSUME IInv, ReadInv, NEW p \in Producers, Stored(p)
    PROVE  ReadInv'
  <2> USE <1>StoredReads
  <2>1. Shape /\ QueueInv /\ p \in Tasks /\ p \notin Clients /\ Clients \subseteq Tasks
        /\ BatchInv(p)
    BY RelayAssumption DEF IInv, Tasks, ReadInv
  <2>2. pc[p] = "storing" /\ reply[p] # <<>>
    BY DEF Stored, Answered
  <2>3. CASE Go(p, "idle") /\ Finish(p)
    BY <2>2, <2>3, <1>FinishReads
  <2>4. ASSUME NEW step, step \in {"storing", "publishing"},
               Succeeded(p), batch' = batch,
               \/ Go(p, step)
               \/ \E command : Await(p, step, command),
               \E x : todo' = [todo EXCEPT ![p] = x],
               UNCHANGED <<table, want, hold, action, cursor, projection>>,
               UNCHANGED <<sub, inbox, live, bound, after, history, cut>>,
               step = "storing" => StoredPart(p)',
               step = "publishing" =>
                 /\ todo'[p] = batch[p]
                 /\ \A k \in 1 .. Len(batch[p]) : batch[p][k] \in Range(table)
        PROVE  ReadInv'
    <3>1. /\ Moves(p) /\ pc'[p] = step /\ QueueMoves(p)
          /\ reply'[p] = <<>> \/ reply'[p] = <<Unavailable>>
      <4>1. CASE Go(p, step)
        BY <2>1, <4>1, GoFacts, QueueRests
      <4>2. CASE \E command : Await(p, step, command)
        BY <4>2, <1>ProducerCalls
      <4> QED
        BY <2>4, <4>1, <4>2
    <3>2. /\ Others(p) /\ DOMAIN pc' = Tasks /\ DOMAIN reply' = Tasks
          /\ \A c \in Clients : pc'[c] = pc[c] /\ reply'[c] = reply[c]
      BY <2>1, <2>4, <3>1 DEF Others, Shape, Moves, Tasks
    <3>3. /\ table' = table /\ ReaderShape'
          /\ \A c \in Clients : SameClient(c)
          /\ \A q \in Producers : q # p => SameProducer(q)
      BY <2>4, <3>2, <1>ProducerSteps
    <3>5. BatchInv(p)'
      BY <2>1, <2>4, <3>1, SMT DEF BatchInv, Got, Answered, Succeeded, Unavailable
    <3>6. \A k \in 1 .. Len(batch[p]) : batch[p][k] \in Range(batch'[p])
      <4>1. DOMAIN batch[p] = 1 .. Len(batch[p])
        BY <2>1, SeqFacts DEF BatchInv
      <4> QED
        BY <2>4, <4>1 DEF Range
    <3>8. cut \subseteq cut'
      BY <2>4
    <3> QED
      BY <1>ProducerReads, <2>4, <3>1, <3>3, <3>5, <3>6, <3>8 DEF ReadInv, StreamInv
  <2>5. PICK d \in Nat :
          /\ Len(batch[p]) = d + Len(todo[p])
          /\ \A k \in 1 .. Len(todo[p]) : todo[p][k] = batch[p][d + k]
          /\ \A k \in 1 .. d : batch[p][k] \in Range(table)
    BY <2>1, <2>2 DEF BatchInv, StoredPart
  <2>6. IsSeq(todo[p]) /\ Len(todo[p]) \in Nat /\ Len(todo[p]) >= 1
    BY <2>2, SeqFacts DEF IInv, TaskInv, StoreInv
  <2>7. ASSUME Succeeded(p)
        PROVE  \A k \in 1 .. d + 1 : batch[p][k] \in Range(table)
    <3>1. todo[p][1] \in Range(table)
      BY <2>1, <2>2, <2>7 DEF BatchInv, Got, Answered
    <3>2. batch[p][d + 1] \in Range(table)
      BY <2>5, <2>6, <3>1, SMT
    <3> QED
      BY <2>5, <3>2, SMT
  <2>8. CASE /\ Succeeded(p) /\ Len(todo[p]) > 1
             /\ todo' = [todo EXCEPT ![p] = Tail(todo[p])]
             /\ Await(p, "storing", AppendOf(todo[p][2]))
             /\ UNCHANGED <<table, want, hold, action, cursor, projection, batch>>
             /\ UNCHANGED <<sub, inbox, live, bound, after, history, cut>>
    <3>1. PICK rest : rest = Tail(todo[p])
      OBVIOUS
    <3>2. /\ Len(rest) = Len(todo[p]) - 1
          /\ \A i \in 1 .. Len(todo[p]) - 1 : rest[i] = todo[p][i + 1]
      <4>1. todo[p] # <<>>
        BY <2>6, SeqFacts, SMT
      <4> QED
        BY <2>6, <3>1, <4>1, TailFacts
    <3>4. d + 1 \in Nat /\ Len(batch[p]) = (d + 1) + Len(rest)
      <4>1. PICK r \in Nat : r = Len(todo[p])
        BY <2>6
      <4>3. d + 1 \in Nat /\ d + r = (d + 1) + (r - 1)
        BY SMT
      <4> QED
        BY <2>5, <3>2, <4>1, <4>3
    <3>5. ASSUME NEW k \in 1 .. Len(rest) PROVE rest[k] = batch[p][(d + 1) + k]
      <4>1. k + 1 \in 1 .. Len(todo[p]) /\ d + (k + 1) = (d + 1) + k
            /\ k \in 1 .. Len(todo[p]) - 1
        BY <2>6, <3>2, SMT
      <4> QED
        BY <2>5, <3>2, <4>1
    <3>6. StoredPart(p)'
      <4>1. \E x \in Nat : /\ Len(batch'[p]) = x + Len(todo'[p])
                           /\ \A k \in 1 .. Len(todo'[p]) :
                                todo'[p][k] = batch'[p][x + k]
                           /\ \A k \in 1 .. x : batch'[p][k] \in Range(table')
        BY <2>1, <2>7, <2>8, <3>1, <3>4, <3>5 DEF Shape
      <4> QED
        BY <4>1 DEF StoredPart
    <3> QED
      BY <2>4, <2>8, <3>6
  <2>9. CASE /\ Succeeded(p) /\ ~(Len(todo[p]) > 1)
             /\ todo' = [todo EXCEPT ![p] = batch[p]] /\ Go(p, "publishing")
             /\ UNCHANGED <<table, want, hold, action, cursor, projection, batch>>
             /\ UNCHANGED <<sub, inbox, live, bound, after, history, cut>>
    <3>1. Len(batch[p]) = d + 1
      BY <2>5, <2>6, <2>9, SMT
    <3>3. todo'[p] = batch[p] /\ \E x : todo' = [todo EXCEPT ![p] = x]
      BY <2>1, <2>9 DEF Shape
    <3> QED
      BY <2>4, <2>7, <2>9, <3>1, <3>3
  <2> QED
    BY <2>3, <2>8, <2>9 DEF Stored, leaseState, clientVars, busVars, pageVars

\* A subscription gets an event behind the others.
<1>StreamGrows.
    ASSUME NEW q, NEW r, NEW e, IsSeq(q), IsSeq(r)
    PROVE  IsJoin(Append(q \o r, e), q, Append(r, e))
  <2> USE <1>StreamGrows
  <2>1. PICK j : j = q \o r
    OBVIOUS
  <2>2. PICK g : g = Append(j, e)
    OBVIOUS
  <2>3. PICK s : s = Append(r, e)
    OBVIOUS
  <2>4. /\ IsSeq(j) /\ Len(j) = Len(q) + Len(r)
        /\ \A i \in 1 .. Len(q) : j[i] = q[i]
        /\ \A i \in 1 .. Len(r) : j[Len(q) + i] = r[i]
    BY <2>1, JoinFacts, SMT
  <2>5. /\ IsSeq(g) /\ Len(g) = Len(j) + 1 /\ g[Len(j) + 1] = e
        /\ \A i \in 1 .. Len(j) : g[i] = j[i]
    BY <2>2, <2>4, AppendFacts, SMT
  <2>6. /\ IsSeq(s) /\ Len(s) = Len(r) + 1 /\ s[Len(r) + 1] = e
        /\ \A i \in 1 .. Len(r) : s[i] = r[i]
    BY <2>3, AppendFacts, SMT
  <2>7. Len(q) \in Nat /\ Len(r) \in Nat
    BY SeqFacts
  <2>8. Len(g) = Len(q) + Len(s) /\ \A i \in 1 .. Len(q) : g[i] = q[i]
    BY <2>4, <2>5, <2>6, <2>7, SMT
  <2>9. ASSUME NEW i \in 1 .. Len(s) PROVE g[Len(q) + i] = s[i]
    <3>1. CASE i \in 1 .. Len(r)
      BY <2>4, <2>5, <2>6, <2>7, <3>1, SMTT(15)
    <3>2. CASE i = Len(r) + 1
      BY <2>4, <2>5, <2>6, <2>7, <3>2, SMTT(15)
    <3> QED
      BY <2>6, <2>7, <3>1, <3>2, SMT
  <2>10. IsJoin(g, q, s)
    BY <2>5, <2>6, <2>8, <2>9, JoinedSeqs
  <2> QED
    BY <2>1, <2>2, <2>3, <2>10

\* An event reaches every open subscription that has room for it.
<1>PublishReads.
    ASSUME IInv, ReadInv, NEW p \in Producers, Publish(p)
    PROVE  ReadInv'
  <2> USE <1>PublishReads
  <2>1. Shape /\ QueueInv /\ p \in Tasks /\ p \notin Clients /\ BatchInv(p)
        /\ ReaderShape /\ CallsInv
    BY RelayAssumption DEF IInv, Tasks, ReadInv
  <2>2. PICK e, rest : e = Head(batch[p]) /\ rest = Tail(batch[p])
    OBVIOUS
  <2>3. /\ pc[p] = "publishing" /\ todo[p] = batch[p] /\ batch[p] # <<>>
        /\ IsSeq(batch[p]) /\ Deliver(e)
        /\ UNCHANGED <<table, queue, hold, pc, reply, live, bound, after,
                       history, cut>>
        /\ todo'[p] = rest /\ batch'[p] = rest
        /\ \A q \in Producers : q # p => todo'[q] = todo[q] /\ batch'[q] = batch[q]
    BY <2>1, <2>2 DEF Publish, BatchInv, Shape, storeVars, leaseState, pageVars
  <2>4. /\ IsSeq(rest) /\ Len(rest) = Len(batch[p]) - 1
        /\ \A i \in 1 .. Len(batch[p]) - 1 : rest[i] = batch[p][i + 1]
        /\ e = batch[p][1]
    BY <2>2, <2>3, TailFacts, SMT
  <2>5. Len(batch[p]) \in Nat /\ Len(batch[p]) >= 1 /\ 1 \in 1 .. Len(batch[p])
        /\ DOMAIN batch[p] = 1 .. Len(batch[p])
    BY <2>3, SeqFacts, SMT
  <2>6. \A k \in 1 .. Len(rest) : /\ k + 1 \in 1 .. Len(batch[p])
                                  /\ rest[k] = batch[p][k + 1] /\ 1 < k + 1
    BY <2>4, <2>5, SMT
  <2>7. /\ e \in Range(table) /\ e.stroke = hold[p]
        /\ \A k \in 1 .. Len(rest) : /\ rest[k].stroke = hold[p]
                                     /\ rest[k] \in Range(table)
                                     /\ e.number < rest[k].number
    BY <2>1, <2>3, <2>4, <2>5, <2>6, ZenonT(30) DEF BatchInv
  <2>8. BatchInv(p)'
    <3>2. \A k, l \in 1 .. Len(rest) : k < l => rest[k].number < rest[l].number
      BY <2>1, <2>4, <2>5, <2>6, SMTT(15) DEF BatchInv
    <3>3. pc'[p] = "publishing" /\ ~Got(p, "storing")'
      BY <2>3, SMT DEF Got, Answered
    <3> QED
      BY <2>3, <2>4, <2>7, <3>2, <3>3 DEF BatchInv
  <2>10. CallsInv'
    <3>1. QueueMoves(p)
      BY <2>1, <2>3, QueueRests
    <3> QED
      BY <2>1, <2>3, <3>1, CallsKept
  <2>11. ReaderShape'
    BY <2>1, <2>3 DEF ReaderShape, Deliver
  <2>12. ASSUME NEW n \in DOMAIN table, Owned(table[n])
         PROVE  Owned(table[n])' \/ table[n] = e
    <3>1. PICK f : f = table[n] /\ f = table'[n]
      BY <2>3
    <3>2. CASE f.id \in cut
      BY <2>3, <3>1, <3>2 DEF Owned
    <3>3. CASE \E q \in Producers : q # p /\ f \in Range(batch[q])
      BY <2>3, <3>1, <3>3 DEF Owned
    <3>4. CASE f \in Range(batch[p])
      <4>1. PICK k \in 1 .. Len(batch[p]) : f = batch[p][k]
        BY <2>5, <3>4 DEF Range
      <4>2. CASE k = 1
        BY <2>4, <3>1, <4>1, <4>2
      <4>3. CASE k # 1
        <5>1. PICK l : l = k - 1
          OBVIOUS
        <5>2. l \in 1 .. Len(batch[p]) - 1 /\ l + 1 = k
          BY <2>5, <4>3, <5>1, SMTT(15)
        <5>3. DOMAIN rest = 1 .. Len(batch[p]) - 1 /\ rest[l] = f
          BY <2>4, <4>1, <5>2, SeqFacts
        <5> QED
          BY <2>3, <3>1, <5>2, <5>3 DEF Owned, Range
      <4> QED
        BY <4>2, <4>3
    <3> QED
      BY <2>12, <3>1, <3>2, <3>3, <3>4 DEF Owned
  <2>13. ASSUME NEW q \in Producers, NEW k \in 1 .. Len(batch'[q])
         PROVE  /\ InOrder(e, batch'[q][k])
                /\ \E l \in 1 .. Len(batch[q]) : batch'[q][k] = batch[q][l]
    <3>1. CASE q = p
      BY <2>3, <2>6, <2>7, <3>1 DEF InOrder
    <3>2. CASE q # p
      <4>1. k \in 1 .. Len(batch[q]) /\ batch'[q][k] = batch[q][k]
        BY <2>3, <3>2
      <4>2. batch[q][k].stroke = hold[q]
        BY <4>1 DEF ReadInv, BatchInv
      <4>3. hold[p] # hold[q]
        <5>2. hold[p] # NoStroke
          BY <2>3, RelayAssumption DEF IInv, LeaseInv, LeaseOf
        <5> QED
          BY <3>2, <5>2 DEF IInv, LeaseInv
      <4> QED
        BY <2>7, <4>1, <4>2, <4>3 DEF InOrder
    <3> QED
      BY <3>1, <3>2
  <2>14. ASSUME NEW c \in Clients PROVE PagesInv(c)' /\ CoverInv(c)' /\ StreamInv(c)'
    <3>1. PagesInv(c) /\ CoverInv(c) /\ StreamInv(c)
      BY DEF ReadInv
    <3>2. PagesInv(c)'
      BY <2>3, <3>1, PagesKept
    <3>3. IsSeq(inbox[c]) /\ IsSeq(live[c])
      BY DEF IInv, SubInv, AllStored
    <3>4. PICK s : s = Stream(c)
      OBVIOUS
    <3>5. IsSeq(s) /\ Len(s) \in Nat /\ DOMAIN s = 1 .. Len(s)
      BY <3>1, <3>4, SeqFacts DEF StreamInv
    <3>6. /\ \A i \in 1 .. Len(s) : s[i] \in Range(table)
          /\ \A i, j \in 1 .. Len(s) : i < j => InOrder(s[i], s[j])
          /\ \A q \in Producers : \A k \in 1 .. Len(batch[q]) :
               \A i \in 1 .. Len(s) : InOrder(s[i], batch[q][k])
      BY <3>1, <3>4 DEF StreamInv
    <3>7. \A q \in Producers : \A k \in 1 .. Len(batch'[q]) :
            \A i \in 1 .. Len(s) : InOrder(s[i], batch'[q][k])
      BY <2>13, <3>6, ZenonT(30)
    <3>8. CASE sub[c] = "open" /\ Len(inbox[c]) < BusCapacity
      <4>1. PICK g : g = Append(s, e)
        OBVIOUS
      <4>2. Stream(c)' = g
        <5>2. IsJoin(Append(live[c] \o inbox[c], e), live[c], Append(inbox[c], e))
          BY <3>3, <1>StreamGrows
        <5> QED
          BY <2>3, <3>4, <3>8, <4>1, <5>2 DEF Stream, IsJoin, Deliver
      <4>3. /\ IsSeq(g) /\ Len(g) = Len(s) + 1 /\ g[Len(s) + 1] = e
            /\ \A i \in 1 .. Len(s) : g[i] = s[i]
        BY <3>5, <4>1, AppendFacts, SMT
      <4>4. /\ \A i \in 1 .. Len(g) : i \in 1 .. Len(s) \/ i = Len(s) + 1
            /\ \A i, j \in 1 .. Len(g) : i < j => i \in 1 .. Len(s)
        BY <3>5, <4>3, SMT
      <4>5. \A i \in 1 .. Len(g) : g[i] \in Range(table)
        BY <2>7, <3>6, <4>3, <4>4
      <4>6. \A i \in 1 .. Len(s) : InOrder(s[i], e)
        BY <2>4, <2>5, <3>6
      <4>7. ASSUME NEW i \in 1 .. Len(g), NEW j \in 1 .. Len(g), i < j
            PROVE  InOrder(g[i], g[j])
        <5>1. i \in 1 .. Len(s)
          BY <4>4, <4>7
        <5>2. CASE j \in 1 .. Len(s)
          BY <3>6, <4>3, <4>7, <5>1, <5>2
        <5>3. CASE j = Len(s) + 1
          BY <4>3, <4>6, <5>1, <5>3
        <5> QED
          BY <4>4, <5>2, <5>3
      <4>8. \A q \in Producers : \A k \in 1 .. Len(batch'[q]) :
              \A i \in 1 .. Len(g) : InOrder(g[i], batch'[q][k])
        BY <2>13, <3>7, <4>3, <4>4
      <4>9. StreamInv(c)'
        BY <2>3, <4>2, <4>3, <4>5, <4>7, <4>8 DEF StreamInv, InOrder
      <4>10. Range(s) \subseteq Range(g) /\ e \in Range(g)
        <5>2. Len(s) + 1 \in 1 .. Len(s) + 1
              /\ \A i \in 1 .. Len(s) : i \in 1 .. Len(s) + 1
          BY <3>5, SMT
        <5> QED
          BY <3>5, <4>3, <5>2, SeqFacts DEF Range
      <4>11. ASSUME NEW token, Covers(c, token) PROVE Covers(c, token)'
        <5>1. ASSUME NEW n \in DOMAIN table, Position(token) <= n
              PROVE  table[n] \in Range(g) \/ Owned(table[n])'
          BY <2>12, <3>4, <4>10, <4>11, <5>1 DEF Covers
        <5> QED
          BY <2>3, <4>2, <5>1 DEF Covers, Position
      <4>12. CoverInv(c)'
        <5>3. /\ pc[c] \in Begun => Covers(c, bound[c])'
              /\ Got(c, "capturing") => Covers(c, reply[c][1].token)'
          <6>1. ASSUME Covers(c, bound[c]) PROVE Covers(c, bound[c])'
            <7>1. PICK token : token = bound[c] /\ token = bound'[c]
              BY <2>3
            <7> QED
              BY <4>11, <6>1, <7>1 DEF Covers
          <6>2. ASSUME Covers(c, reply[c][1].token) PROVE Covers(c, reply[c][1].token)'
            <7>1. PICK token : token = reply[c][1].token /\ token = reply'[c][1].token
              BY <2>3
            <7> QED
              BY <4>11, <6>2, <7>1 DEF Covers
          <6> QED
            BY <3>1, <3>8, <6>1, <6>2 DEF CoverInv
        <5> QED
          BY <2>3, <5>3 DEF CoverInv, Got, Answered, Succeeded
      <4> QED
        BY <3>2, <4>9, <4>12
    <3>9. CASE ~(sub[c] = "open" /\ Len(inbox[c]) < BusCapacity)
      <4>2. Stream(c)' = Stream(c)
        BY <2>3, <3>9 DEF Stream, Deliver
      <4>3. StreamInv(c)'
        BY <2>3, <3>1, <3>4, <3>7, <4>2, StreamKept
      <4>4. sub'[c] # "open"
        <5>1. CASE sub[c] # "open"
          BY <2>3, <5>1 DEF Deliver
        <5>2. CASE sub[c] = "open"
          <6>1. Len(inbox[c]) \in Nat
            BY <3>3, SeqFacts
          <6>2. Len(inbox[c]) >= BusCapacity
            BY <3>9, <5>2, <6>1, RelayAssumption, SMTT(15)
          <6>3. sub'[c] = "lagged"
            BY <2>3, <5>2, <6>2 DEF Deliver
          <6> QED
            BY <6>3, SMT
        <5> QED
          BY <5>1, <5>2
      <4> QED
        BY <3>2, <4>3, <4>4 DEF CoverInv
    <3> QED
      BY <3>8, <3>9
  <2> QED
    BY <2>3, <2>8, <2>10, <2>11, <2>14, BatchKept DEF ReadInv, SameProducer

<1> SUFFICES ASSUME Counting, IInv, ReadInv, NEW p \in Producers,
                    \/ \E s, first, last : Act(p, s, first, last)
                    \/ Granted(p) \/ ProducerStep(p) \/ CancelAction(p)
             PROVE  ReadInv'
  OBVIOUS
<1>1. CASE (\E s, first, last : Act(p, s, first, last)) \/ Granted(p) \/ Loaded(p)
  BY <1>1, <1>EarlySteps
<1>2. CASE Dispatched(p)
  BY <1>FinishReads, <1>2 DEF Dispatched
<1> QED
  BY <1>1, <1>2, <1>DecideReads, <1>StoredReads, <1>PublishReads, <1>CancelReads DEF ProducerStep

-----------------------------------------------------------------------------
(* The steps of clients.                                                   *)

\* Nothing is delivered, stored or published.
LEMMA StreamRests ==
  ASSUME NEW c, StreamInv(c), Stream(c)' = Stream(c), UNCHANGED <<table, batch>>
  PROVE  StreamInv(c)'
BY StreamKept DEF StreamInv

\* The other clients have read what they had.
OthersRead(c) ==
  /\ ReaderShape'
  /\ \A d \in Clients : d # c => /\ bound'[d] = bound[d] /\ after'[d] = after[d]
                                /\ history'[d] = history[d]

\* Every step of a client keeps what is known of the readers.
LEMMA ClientsRead ==
  \A c \in Clients :
    /\ Counting
    /\ IInv
    /\ ReadInv
    /\ ClientStep(c)
    => ReadInv'
\* A client that awaits nothing has nothing in the store's queue.
<1>ClientRests.
    ASSUME CallsInv, NEW c \in Clients,
           reply[c] # <<>> \/ pc[c] \notin {"capturing", "paging"}
    PROVE  NoneFrom(c)
  BY <1>ClientRests DEF CallsInv, ClientAwaits, NoneFrom

\* What a step of client c must show.
<1>ClientReads.
    ASSUME IInv, ReadInv, NEW c \in Clients, QueueMoves(c), ReaderShape',
           UNCHANGED <<table, hold, todo, batch, cut>>,
           \A t \in Tasks : t # c => pc'[t] = pc[t] /\ reply'[t] = reply[t],
           \A d \in Clients : d # c =>
             /\ sub'[d] = sub[d] /\ inbox'[d] = inbox[d] /\ live'[d] = live[d]
             /\ bound'[d] = bound[d] /\ after'[d] = after[d]
             /\ history'[d] = history[d],
           PagesInv(c)', CoverInv(c)', StreamInv(c)'
    PROVE  ReadInv'
  <2> USE <1>ClientReads
  <2>1. /\ QueueInv /\ CallsInv /\ Clients \subseteq Tasks /\ Producers \subseteq Tasks
        /\ c \notin Producers
    BY RelayAssumption DEF IInv, ReadInv, Tasks
  <2>3. ASSUME NEW p \in Producers PROVE BatchInv(p)'
    BY <2>1, BatchKept DEF ReadInv, SameProducer
  <2>5. ASSUME NEW d \in Clients, d # c PROVE PagesInv(d)' /\ CoverInv(d)' /\ StreamInv(d)'
    <3>1. PagesInv(d) /\ CoverInv(d) /\ StreamInv(d) /\ SameClient(d)
      BY <2>1, <2>5 DEF ReadInv, SameClient
    <3>3. CoverInv(d)'
      BY <3>1, CoverKept DEF OwnedKept, Owned
    <3>5. \A p \in Producers : \A k \in 1 .. Len(batch'[p]) :
             \A i \in 1 .. Len(Stream(d)) : InOrder(Stream(d)[i], batch'[p][k])
      BY <3>1 DEF StreamInv
    <3>6. StreamInv(d)'
      BY <3>1, <3>5, StreamKept DEF Stream, SameClient
    <3> QED
      BY <3>1, <3>3, <3>6, PagesKept DEF SameClient
  <2> QED
    BY <2>1, <2>3, <2>5, CallsKept DEF ReadInv

<1>CoversRest.
    ASSUME NEW c, NEW token, Covers(c, token), Stream(c)' = Stream(c),
           UNCHANGED <<table, batch, cut>>
    PROVE  Covers(c, token)'
  BY <1>CoversRest DEF Covers, Owned

\* The steps of canvas.history.page: they leave the subscription as it is.
<1>PagingReads.
    ASSUME IInv, ReadInv, NEW c \in Clients, Moves(c), QueueMoves(c),
           UNCHANGED <<table, hold, todo, batch, cut, sub, inbox, live>>,
           OthersRead(c),
           PagesInv(c)', ~Got(c, "capturing")',
           sub[c] = "open" /\ pc'[c] \in Begun =>
             \E token : token = bound'[c] /\ Covers(c, token)
    PROVE  ReadInv'
  <2> USE <1>PagingReads
  <2>3. Stream(c)' = Stream(c)
    BY DEF Stream
  <2>5. CoverInv(c)'
    <3>1. SUFFICES ASSUME sub[c] = "open", pc'[c] \in Begun PROVE Covers(c, bound[c])'
      BY DEF CoverInv
    <3>2. PICK token : token = bound'[c] /\ Covers(c, token)
      BY <3>1
    <3> QED
      BY <1>CoversRest, <2>3, <3>2 DEF Covers
  <2> QED
    BY <1>ClientReads, <2>3, <2>5, StreamRests DEF OthersRead, ReadInv, Moves

\* A call of a client.
<1>ClientCalls.
    ASSUME IInv, NEW c \in Clients, NEW step, NEW command, Await(c, step, command),
           NoneFrom(c), command.kind # "append",
           pc'[c] = step /\ reply'[c] = <<>> => ClientAwaits(c, command)'
    PROVE  /\ Moves(c) /\ pc'[c] = step /\ QueueMoves(c)
           /\ \A s : ~Got(c, s)'
  <2> USE <1>ClientCalls
  <2>1. Shape /\ QueueInv /\ c \in Tasks
    BY DEF IInv, Tasks
  <2>2. /\ Moves(c) /\ pc'[c] = step
        /\ \/ /\ queue' = Append(queue, [from |-> c, command |-> command])
              /\ reply'[c] = <<>>
           \/ queue' = queue /\ reply'[c] = <<Unavailable>>
    BY <2>1, AwaitFacts
  <2>3. QueueMoves(c)
    BY <2>1, <2>2, QueueRests, QueueTakes
  <2>4. ASSUME NEW s PROVE ~Got(c, s)'
    BY <2>2, SMT DEF Got, Answered, Succeeded, Unavailable
  <2> QED
    BY <2>2, <2>3, <2>4

\* A client goes on without a call.
<1>ClientGoes.
    ASSUME IInv, NEW c \in Clients, NEW step, Go(c, step), NoneFrom(c)
    PROVE  /\ Moves(c) /\ pc'[c] = step /\ QueueMoves(c)
           /\ \A s : ~Got(c, s)'
  <2> USE <1>ClientGoes
  <2>1. Shape /\ QueueInv /\ c \in Tasks
    BY DEF IInv, Tasks
  <2>2. Moves(c) /\ pc'[c] = step /\ reply'[c] = <<>> /\ queue' = queue
    BY <2>1, GoFacts
  <2>3. QueueMoves(c)
    BY <2>1, <2>2, QueueRests
  <2> QED
    BY <2>2, <2>3 DEF Got, Answered

\* The steps that bring no page.
<1>PagesMove.
    ASSUME NEW c, PagesInv(c), table' = table, history'[c] = history[c],
           after'[c] = after[c], pc[c] # "complete", pc'[c] # "complete",
           \A s : ~Got(c, s)', pc'[c] \notin Begun => after[c] = <<>>,
           pc'[c] \in Begun => IsMark(table, bound'[c]),
           after[c] # <<>> => bound'[c] = bound[c]
    PROVE  PagesInv(c)'
  <2> USE <1>PagesMove
  <2> QED
    BY DEF PagesInv, HistoryEnd, Position

\* A page shows what comes behind its cursor.
<1>PageJoins.
    ASSUME Counting, NEW c, NEW tb, TableOK(tb), NEW from, NEW upper, NEW a,
           IsMark(tb, upper), from # <<>> => IsMark(tb, from),
           PageIn(tb, a, from, upper)
    PROVE  \E end \in Nat :
             /\ end = IF a.token = <<>> THEN Position(upper) ELSE Position(a.token)
             /\ end <= Position(upper)
             /\ IsJoin(Shown(c, Upto(tb, end)), Shown(c, Upto(tb, Position(from))),
                       Shown(c, a.rows))
  <2> USE <1>PageJoins
  <2>1. PICK end : end = IF a.token = <<>> THEN Position(upper) ELSE Position(a.token)
    OBVIOUS
  <2>2. /\ Position(from) <= end /\ end <= Position(upper)
        /\ DOMAIN a.rows = Position(from) .. end - 1
        /\ \A m \in DOMAIN a.rows : a.rows[m] = tb[m]
        /\ a.token # <<>> => IsMark(tb, a.token)
    BY <2>1 DEF PageIn
  <2>3. end \in Nat /\ 0 .. end - 1 \subseteq DOMAIN tb
    BY <2>1, <2>2 DEF IsMark, Position
  <2>4. PICK start \in Nat : start = Position(from)
    BY DEF IsMark, Position
  <2>5. PICK rows : rows = a.rows
    OBVIOUS
  <2>7. IsJoin(Shown(c, Upto(tb, end)), Shown(c, Upto(tb, start)), Shown(c, rows))
    BY <2>2, <2>3, <2>4, <2>5, ShownPages
  <2> QED
    BY <2>1, <2>2, <2>3, <2>4, <2>5, <2>7

\* subscribe, and the steps of canvas.history.page that bring no page.
<1>SubscribeReads.
    ASSUME IInv, ReadInv, NEW c \in Clients, Subscribe(c)
    PROVE  ReadInv'
  <2> USE <1>SubscribeReads
  <2>1. ReaderShape /\ CallsInv /\ PagesInv(c) /\ StreamInv(c) /\ c \in Tasks
    BY DEF ReadInv, Tasks
  <2>2. /\ pc[c] = "idle" /\ Go(c, "subscribed") /\ sub' = [sub EXCEPT ![c] = "open"]
        /\ UNCHANGED <<table, hold, todo, batch, cut, inbox, live, bound, after, history>>
    BY DEF Subscribe, leaseState, producerVars, pageVars
  <2>4. Moves(c) /\ pc'[c] = "subscribed" /\ QueueMoves(c) /\ \A s : ~Got(c, s)'
    BY <1>ClientGoes, <1>ClientRests, <2>1, <2>2
  <2>5. PagesInv(c)'
    <3>1. pc[c] \notin Begun /\ pc'[c] \notin Begun
      BY <2>2, <2>4 DEF Begun
    <3> QED
      BY <1>PagesMove, <2>1, <2>2, <2>4, <3>1 DEF PagesInv
  <2>8. StreamInv(c)'
    BY <2>1, <2>2, StreamRests DEF Stream
  <2>9. ReaderShape' /\ \A d \in Clients : d # c => sub'[d] = sub[d]
    BY <2>1, <2>2 DEF ReaderShape
  <2> QED
    BY <1>ClientReads, <2>2, <2>4, <2>5, <2>8, <2>9 DEF Moves, CoverInv, Begun

<1>FirstReads.
    ASSUME IInv, ReadInv, NEW c \in Clients, First(c)
    PROVE  ReadInv'
  <2> USE <1>FirstReads
  <2>1. CallsInv /\ PagesInv(c)
    BY DEF ReadInv
  <2>2. PICK command : command = [kind |-> "capture"]
    OBVIOUS
  <2>3. /\ pc[c] = "subscribed" /\ Await(c, "capturing", command)
        /\ UNCHANGED <<table, hold, todo, batch, cut, sub, inbox, live>>
        /\ UNCHANGED <<bound, after, history>>
    BY <2>2 DEF First, leaseState, producerVars, clientVars, busVars, pageVars
  <2>5. Moves(c) /\ pc'[c] = "capturing" /\ QueueMoves(c) /\ \A s : ~Got(c, s)'
    BY <1>ClientCalls, <1>ClientRests, <2>1, <2>2, <2>3 DEF ClientAwaits
  <2>6. pc[c] \notin Begun /\ pc'[c] \notin Begun
    BY <2>3, <2>5 DEF Begun
  <2>7. PagesInv(c)'
    BY <1>PagesMove, <2>1, <2>3, <2>5, <2>6 DEF PagesInv
  <2> QED
    BY <1>PagingReads, <2>3, <2>5, <2>6, <2>7 DEF ReadInv, ReaderShape, OthersRead

\* The checkpoint arrives, and the first page is asked for.
<1>CapturedReads.
    ASSUME IInv, ReadInv, NEW c \in Clients, Captured(c)
    PROVE  ReadInv'
  <2> USE <1>CapturedReads
  <2>1. CallsInv /\ PagesInv(c) /\ CoverInv(c) /\ ReaderShape
    BY DEF ReadInv
  <2>2. /\ pc[c] = "capturing" /\ reply[c] # <<>>
        /\ UNCHANGED <<table, hold, todo, batch, cut, sub, inbox, live, after, history>>
    BY DEF Captured, Answered, leaseState, producerVars, busVars
  <2>3. NoneFrom(c)
    BY <2>1, <2>2, <1>ClientRests
  <2>4. pc[c] \notin Begun /\ after[c] = <<>>
    BY <2>1, <2>2 DEF PagesInv, Begun
  <2>5. CASE Go(c, "subscribed") /\ UNCHANGED bound
    <3>1. Moves(c) /\ pc'[c] = "subscribed" /\ QueueMoves(c) /\ \A s : ~Got(c, s)'
      BY <2>3, <2>5, <1>ClientGoes
    <3>2. pc'[c] \notin Begun
      BY <3>1 DEF Begun
    <3>3. PagesInv(c)'
      BY <2>1, <2>2, <2>4, <2>5, <3>1, <3>2, <1>PagesMove
    <3> QED
      BY <1>PagingReads, <2>1, <2>2, <2>5, <3>1, <3>2, <3>3 DEF ReaderShape, OthersRead
  <2>6. CASE /\ Succeeded(c) /\ bound' = [bound EXCEPT ![c] = reply[c][1].token]
             /\ AskPage(c, reply[c][1].token, <<>>)
    <3>1. PICK token : token = reply[c][1].token
      OBVIOUS
    <3>2. PICK command : command = QueryOf(token, <<>>, ScanLimit)
      OBVIOUS
    <3>3. bound'[c] = token /\ after'[c] = <<>> /\ Await(c, "paging", command)
      BY <2>1, <2>2, <2>4, <2>6, <3>1, <3>2 DEF ReaderShape, AskPage
    <3>4. Got(c, "capturing")
      BY <2>2, <2>6 DEF Got, Answered
    <3>6. Moves(c) /\ pc'[c] = "paging" /\ QueueMoves(c) /\ \A s : ~Got(c, s)'
      BY <1>ClientCalls, <2>3, <3>2, <3>3 DEF ClientAwaits, QueryOf
    <3>7. IsMark(table, token)
      BY <2>1, <3>1, <3>4 DEF PagesInv
    <3>8. PagesInv(c)'
      BY <1>PagesMove, <2>1, <2>2, <2>4, <3>3, <3>6, <3>7 DEF Begun
    <3>9. OthersRead(c)
      BY <2>1, <2>2, <2>6 DEF ReaderShape, OthersRead
    <3>10. sub[c] = "open" => Covers(c, token)
      BY <2>1, <3>1, <3>4 DEF CoverInv
    <3> QED
      BY <2>2, <3>3, <3>6, <3>8, <3>9, <3>10, <1>PagingReads
  <2> QED
    BY <2>5, <2>6 DEF Captured

\* A page arrives, or fails to.
<1>PagedReads.
    ASSUME Counting, IInv, ReadInv, NEW c \in Clients, Paged(c)
    PROVE  ReadInv'
  <2> USE <1>PagedReads
  <2>1. CallsInv /\ PagesInv(c) /\ CoverInv(c) /\ ReaderShape
    BY DEF ReadInv
  <2>2. /\ pc[c] = "paging" /\ reply[c] # <<>>
        /\ UNCHANGED <<table, hold, todo, batch, cut, sub, inbox, live>>
    BY DEF Paged, Answered, leaseState, producerVars, busVars
  <2>3. NoneFrom(c)
    BY <2>1, <2>2, <1>ClientRests
  <2>4. pc[c] \in Begun /\ IsMark(table, bound[c])
    BY <2>1, <2>2 DEF PagesInv, Begun
  <2>5. sub[c] = "open" => Covers(c, bound[c])
    BY <2>1, <2>4 DEF CoverInv
  <2>6. CASE /\ IF after[c] = <<>>
                THEN Go(c, "subscribed") /\ bound' = [bound EXCEPT ![c] = <<>>]
                ELSE Go(c, "continuing") /\ UNCHANGED bound
             /\ UNCHANGED <<after, history>>
    <3>1. PICK step \in {"subscribed", "continuing"} :
            /\ Go(c, step) /\ (step = "subscribed" => after[c] = <<>>)
            /\ step = "continuing" => after[c] # <<>> /\ bound' = bound
      BY <2>6
    <3>2. Moves(c) /\ pc'[c] = step /\ QueueMoves(c) /\ \A s : ~Got(c, s)'
      BY <2>3, <3>1, <1>ClientGoes
    <3>4. pc'[c] \notin Begun => step = "subscribed"
      BY <3>1, <3>2 DEF Begun
    <3>5. /\ pc[c] # "complete" /\ pc'[c] # "complete"
          /\ after[c] # <<>> => bound'[c] = bound[c]
          /\ pc'[c] \in Begun => bound'[c] = bound[c]
          /\ pc'[c] \notin Begun => after[c] = <<>>
      BY <2>2, <3>1, <3>2, <3>4 DEF Begun
    <3>7. pc'[c] \in Begun => IsMark(table, bound'[c])
      BY <2>4, <3>5
    <3>8. PagesInv(c)'
      BY <1>PagesMove, <2>1, <2>2, <2>6, <3>2, <3>5, <3>7
    <3>9. OthersRead(c)
      BY <2>1, <2>2, <2>6 DEF ReaderShape, OthersRead
    <3> QED
      BY <2>2, <2>5, <3>2, <3>5, <3>8, <3>9, <1>PagingReads
  <2>7. CASE /\ Succeeded(c)
             /\ history' = [history EXCEPT ![c] = @ \o Shown(c, reply[c][1].rows)]
             /\ after' = [after EXCEPT ![c] = reply[c][1].token]
             /\ Go(c, IF reply[c][1].token = <<>> THEN "complete" ELSE "continuing")
             /\ UNCHANGED bound
    <3>1. PICK a, from, upper, h :
            a = reply[c][1] /\ from = after[c] /\ upper = bound[c] /\ h = history[c]
      OBVIOUS
    <3>2. PICK step : step = IF a.token = <<>> THEN "complete" ELSE "continuing"
      OBVIOUS
    <3>3. Moves(c) /\ pc'[c] = step /\ QueueMoves(c) /\ \A s : ~Got(c, s)'
      BY <2>3, <2>7, <3>1, <3>2, <1>ClientGoes
    <3>4. /\ history'[c] = h \o Shown(c, a.rows) /\ after'[c] = a.token
          /\ bound'[c] = upper
      BY <2>1, <2>7, <3>1 DEF ReaderShape
    <3>5. PageIn(table, a, from, upper)
      BY <2>1, <2>2, <2>7, <3>1 DEF PagesInv, Got, Answered
    <3>6. IsMark(table, upper) /\ (from # <<>> => IsMark(table, from))
      BY <2>1, <2>4, <3>1 DEF PagesInv
    <3>7. PICK end \in Nat :
            /\ end = IF a.token = <<>> THEN Position(upper) ELSE Position(a.token)
            /\ end <= Position(upper)
            /\ IsJoin(Shown(c, Upto(table, end)), Shown(c, Upto(table, Position(from))),
                      Shown(c, a.rows))
      BY <3>5, <3>6, <1>PageJoins DEF IInv
    <3>8. h = Shown(c, Upto(table, Position(from)))
      BY <2>1, <2>2, <3>1 DEF PagesInv, HistoryEnd
    <3>10. HistoryEnd(c)' = end
      <4>1. CASE a.token = <<>>
        BY <3>2, <3>3, <3>4, <3>6, <3>7, <4>1 DEF HistoryEnd, Position, IsMark
      <4>2. CASE a.token # <<>>
        BY <3>2, <3>3, <3>4, <3>7, <4>2 DEF HistoryEnd, Position
      <4> QED
        BY <4>1, <4>2
    <3>11. history[c]' = Shown(c, Upto(table, HistoryEnd(c)))'
      BY <2>2, <3>4, <3>7, <3>8, <3>10 DEF Shown, Upto, IsJoin
    <3>14. /\ (after[c] # <<>>)' => /\ IsMark(table, after[c])'
                                    /\ Position(after'[c]) <= Position(bound'[c])
      BY <2>2, <3>4, <3>5, <3>7 DEF PageIn
    <3>15. IsMark(table, bound[c])'
      BY <2>2, <3>4, <3>6
    <3>16. PagesInv(c)'
      BY <3>2, <3>3, <3>11, <3>14, <3>15 DEF PagesInv, Position, Begun
    <3>17. OthersRead(c)
      BY <2>1, <2>2, <2>7 DEF ReaderShape, OthersRead
    <3> QED
      BY <2>2, <2>5, <3>1, <3>3, <3>4, <3>16, <3>17, <1>PagingReads
  <2> QED
    BY <2>6, <2>7 DEF Paged

\* The next page is asked for.
<1>ContinueReads.
    ASSUME IInv, ReadInv, NEW c \in Clients, Continue(c)
    PROVE  ReadInv'
  <2> USE <1>ContinueReads
  <2>1. CallsInv /\ PagesInv(c) /\ CoverInv(c)
    BY DEF ReadInv
  <2>2. PICK command : command = QueryOf(bound[c], after[c], ScanLimit)
    OBVIOUS
  <2>3. /\ pc[c] = "continuing" /\ Await(c, "paging", command)
        /\ UNCHANGED <<table, hold, todo, batch, cut, sub, inbox, live>>
        /\ UNCHANGED <<bound, after, history>>
    BY <2>2 DEF Continue, AskPage, leaseState, producerVars, clientVars,
                       busVars, pageVars
  <2>5. pc'[c] = "paging" /\ reply'[c] = <<>> => ClientAwaits(c, command)'
    BY <2>2, <2>3 DEF ClientAwaits, QueryOf
  <2>6. Moves(c) /\ pc'[c] = "paging" /\ QueueMoves(c) /\ \A s : ~Got(c, s)'
    BY <1>ClientCalls, <1>ClientRests, <2>1, <2>2, <2>3, <2>5 DEF QueryOf
  <2>7. pc[c] \in Begun /\ pc'[c] \in Begun
    BY <2>3, <2>6 DEF Begun
  <2>8. PagesInv(c)'
    BY <1>PagesMove, <2>1, <2>3, <2>6, <2>7 DEF PagesInv
  <2>10. sub[c] = "open" => Covers(c, bound[c])
    BY <2>1, <2>7 DEF CoverInv
  <2> QED
    BY <1>PagingReads, <2>3, <2>6, <2>8, <2>10 DEF ReadInv, ReaderShape, OthersRead

\* The head of the inbox goes behind what was read.
<1>StreamMoves.
    ASSUME NEW q, NEW r, IsSeq(q), IsSeq(r), r # <<>>
    PROVE  IsJoin(q \o r, Append(q, Head(r)), Tail(r))
  <2> USE <1>StreamMoves
  <2>1. PICK g, s, u : g = q \o r /\ s = Append(q, Head(r)) /\ u = Tail(r)
    OBVIOUS
  <2>2. /\ IsSeq(g) /\ Len(g) = Len(q) + Len(r)
        /\ \A i \in 1 .. Len(q) : g[i] = q[i]
        /\ \A i \in 1 .. Len(r) : g[Len(q) + i] = r[i]
    BY <2>1, JoinFacts, SMT
  <2>3. /\ IsSeq(u) /\ Len(u) = Len(r) - 1 /\ Head(r) = r[1]
        /\ \A i \in 1 .. Len(r) - 1 : u[i] = r[i + 1]
    BY <2>1, TailFacts, SMT
  <2>4. /\ IsSeq(s) /\ Len(s) = Len(q) + 1 /\ s[Len(q) + 1] = r[1]
        /\ \A i \in 1 .. Len(q) : s[i] = q[i]
    BY <2>1, <2>3, AppendFacts, SMT
  <2>5. Len(q) \in Nat /\ Len(r) \in Nat /\ Len(r) >= 1
    BY SeqFacts, SMT
  <2>6. Len(g) = Len(s) + Len(u)
    BY <2>2, <2>3, <2>4, <2>5, SMTT(15)
  <2>7. ASSUME NEW i \in 1 .. Len(s) PROVE g[i] = s[i]
    <3>1. CASE i \in 1 .. Len(q)
      BY <2>2, <2>4, <3>1
    <3>2. CASE i = Len(q) + 1
      <4>1. 1 \in 1 .. Len(r)
        BY <2>5, SMT
      <4> QED
        BY <2>2, <2>4, <3>2, <4>1
    <3> QED
      BY <2>4, <2>5, <3>1, <3>2, SMTT(15)
  <2>8. ASSUME NEW i \in 1 .. Len(u) PROVE g[Len(s) + i] = u[i]
    <3>1. /\ i \in 1 .. Len(r) - 1 /\ i + 1 \in 1 .. Len(r)
          /\ Len(s) + i = Len(q) + (i + 1)
      BY <2>3, <2>4, <2>5, SMTT(15)
    <3> QED
      BY <2>2, <2>3, <3>1
  <2>9. IsJoin(g, s, u)
    BY <2>2, <2>3, <2>4, <2>6, <2>7, <2>8, JoinedSeqs
  <2> QED
    BY <2>1, <2>9

\* A client reads its inbox.
<1>ReceiveReads.
    ASSUME IInv, ReadInv, NEW c \in Clients, Receive(c)
    PROVE  ReadInv'
  <2> USE <1>ReceiveReads
  <2>1. /\ QueueInv /\ ReaderShape /\ CallsInv /\ Shape
        /\ PagesInv(c) /\ CoverInv(c) /\ StreamInv(c)
        /\ IsSeq(inbox[c]) /\ IsSeq(live[c])
    BY DEF IInv, SubInv, AllStored, ReadInv
  <2>2. /\ inbox[c] # <<>>
        /\ live' = [live EXCEPT ![c] = Append(live[c], Head(inbox[c]))]
        /\ inbox' = [inbox EXCEPT ![c] = Tail(inbox[c])]
        /\ UNCHANGED <<table, queue, hold, todo, batch, cut, pc, reply, sub, bound,
                       after, history>>
    BY DEF Receive, storeVars, leaseState, producerVars, pageVars
  <2>3. Stream(c)' = Stream(c)
    <3>2. IsJoin(live[c] \o inbox[c], Append(live[c], Head(inbox[c])), Tail(inbox[c]))
      BY <2>1, <2>2, <1>StreamMoves
    <3> QED
      BY <2>1, <2>2, <3>2 DEF Stream, IsJoin, Shape
  <2>4. PagesInv(c)'
    BY <2>1, <2>2, PagesKept
  <2>5. StreamInv(c)'
    BY <2>1, <2>2, <2>3, StreamRests
  <2>6. CoverInv(c)'
    BY <2>1, <2>2, <2>3 DEF CoverInv, Covers, Owned, Got, Answered, Succeeded
  <2>7. ASSUME NEW d \in Clients, d # c PROVE PagesInv(d)' /\ CoverInv(d)' /\ StreamInv(d)'
    <3>1. PagesInv(d) /\ CoverInv(d) /\ StreamInv(d)
      BY DEF ReadInv
    <3>2. Stream(d)' = Stream(d)
      BY <2>1, <2>2, <2>7 DEF Stream, Shape
    <3>4. StreamInv(d)'
      BY <2>2, <3>1, <3>2, StreamRests
    <3>5. CoverInv(d)'
      BY <2>2, <3>1, <3>2 DEF CoverInv, Covers, Owned, Got, Answered, Succeeded
    <3> QED
      BY <2>2, <3>1, <3>4, <3>5, PagesKept
  <2>8. CallsInv'
    BY <2>1, <2>2 DEF CallsInv, ClientAwaits, IsAppend
  <2>9. ASSUME NEW p \in Producers PROVE BatchInv(p)'
    BY <2>2, BatchKept DEF ReadInv, SameProducer
  <2>10. ReaderShape'
    BY <2>1, <2>2 DEF ReaderShape
  <2> QED
    BY <2>4, <2>5, <2>6, <2>7, <2>8, <2>9, <2>10 DEF ReadInv

\* A connection ends, and its client starts over.
<1>DisconnectReads.
    ASSUME Counting, IInv, ReadInv, NEW c \in Clients, Disconnect(c)
    PROVE  ReadInv'
  <2> USE <1>DisconnectReads
  <2>1. Shape /\ QueueInv /\ ReaderShape /\ c \in Tasks
    BY DEF IInv, ReadInv, Tasks
  <2>2. /\ Abandon(c) /\ UNCHANGED <<table, hold, todo, batch, cut>>
        /\ sub' = [sub EXCEPT ![c] = "none"]
        /\ inbox' = [inbox EXCEPT ![c] = <<>>] /\ live' = [live EXCEPT ![c] = <<>>]
        /\ bound' = [bound EXCEPT ![c] = <<>>] /\ after' = [after EXCEPT ![c] = <<>>]
        /\ history' = [history EXCEPT ![c] = <<>>]
    BY DEF Disconnect, leaseState, producerVars
  <2>3. Moves(c) /\ pc'[c] = "idle" /\ reply'[c] = <<>>
    BY <2>1, <2>2, AbandonFacts
  <2>4. QueueMoves(c)
    BY <2>1, <2>2, QueueLeft DEF Abandon, QueueInv
  <2>5. /\ sub'[c] = "none" /\ inbox'[c] = <<>> /\ live'[c] = <<>>
        /\ bound'[c] = <<>> /\ after'[c] = <<>> /\ history'[c] = <<>>
    BY <2>1, <2>2 DEF Shape, ReaderShape
  <2>6. ReaderShape'
    BY <2>1, <2>2 DEF ReaderShape
  <2>7. \A d \in Clients : d # c =>
          /\ sub'[d] = sub[d] /\ inbox'[d] = inbox[d] /\ live'[d] = live[d]
          /\ bound'[d] = bound[d] /\ after'[d] = after[d]
          /\ history'[d] = history[d]
    BY <2>1, <2>2 DEF Shape, ReaderShape
  <2>8. PagesInv(c)'
    <3>2. PICK rows : rows = Upto(table, 0)
      OBVIOUS
    <3>3. PICK n \in Nat : DOMAIN table = 0 .. n - 1
      BY DEF IInv, TableOK
    <3>5. DOMAIN rows = {}
      BY <3>2, <3>3, SMT DEF Upto, RowsOf
    <3>6. Shown(c, rows) = <<>>
      BY <3>5, ShowsNothing
    <3>7. history'[c] = Shown(c, Upto(table, HistoryEnd(c)))'
      BY <2>2, <2>3, <2>5, <3>2, <3>6 DEF Shown, Upto, HistoryEnd, Position
    <3> QED
      BY <2>3, <2>5, <3>7 DEF PagesInv, Begun, Got, Answered
  <2>9. CoverInv(c)'
    BY <2>5 DEF CoverInv
  <2>10. StreamInv(c)'
    <3>1. PICK s : s = Stream(c)'
      OBVIOUS
    <3>2. s = <<>> \o <<>>
      BY <2>5, <3>1 DEF Stream
    <3>3. IsSeq(s) /\ Len(s) = 0
      BY <3>2, EmptyIsSeq, JoinFacts, SMTT(15)
    <3>4. \A i \in 1 .. Len(s) : FALSE
      BY <3>3, SMT
    <3> QED
      BY <3>1, <3>3, <3>4 DEF StreamInv
  <2> QED
    BY <2>2, <2>3, <2>4, <2>6, <2>7, <2>8, <2>9, <2>10, <1>ClientReads DEF Moves

<1> SUFFICES ASSUME Counting, IInv, ReadInv, NEW c \in Clients, ClientStep(c)
             PROVE  ReadInv'
  OBVIOUS
<1> QED
  BY <1>SubscribeReads, <1>FirstReads, <1>CapturedReads, <1>PagedReads, <1>ContinueReads,
     <1>ReceiveReads, <1>DisconnectReads DEF ClientStep

-----------------------------------------------------------------------------
(* A step of the store: the table grows at most, and a caller is answered. *)

Grows(tb, new) == \A m \in DOMAIN tb : m \in DOMAIN new /\ new[m] = tb[m]

\* A worker's step keeps what clients have read and what reaches them.
LEMMA ExecuteReads ==
  /\ Counting
  /\ IInv
  /\ ReadInv
  /\ Execute
  => ReadInv'
\* What a growing table keeps: its marks, its events, the rows in front of a
\* mark, and the pages read from it.
<1>MarksStay.
    ASSUME NEW tb, NEW new, Grows(tb, new), NEW token, IsMark(tb, token)
    PROVE  IsMark(new, token)
  BY <1>MarksStay DEF Grows, IsMark

<1>FrontStays.
    ASSUME NEW tb, NEW new, TableOK(tb), TableOK(new), Grows(tb, new),
           NEW k \in Nat, 0 .. k - 1 \subseteq DOMAIN tb
    PROVE  Upto(new, k) = Upto(tb, k)
  <2> USE <1>FrontStays
  <2>1. PICK n \in Nat : DOMAIN tb = 0 .. n - 1
    BY DEF TableOK
  <2>2. PICK m \in Nat : DOMAIN new = 0 .. m - 1
    BY DEF TableOK
  <2>5. {i \in DOMAIN new : i < k} = 0 .. k - 1
    BY <2>2, SMT DEF Grows
  <2>7. [i \in 0 .. k - 1 |-> new[i]] = [i \in 0 .. k - 1 |-> tb[i]]
    BY DEF Grows
  <2> QED
    BY <2>1, <2>5, <2>7, SMTT(15) DEF Upto, RowsOf

<1>PagesStay.
    ASSUME NEW tb, NEW new, Grows(tb, new), NEW a, NEW from, NEW upper,
           IsMark(tb, upper), from # <<>> => IsMark(tb, from),
           PageIn(tb, a, from, upper)
    PROVE  PageIn(new, a, from, upper)
  <2> USE <1>PagesStay
  <2>1. PICK end : end = IF a.token = <<>> THEN Position(upper) ELSE Position(a.token)
    OBVIOUS
  <2>2. /\ a.token # <<>> => IsMark(tb, a.token)
        /\ Position(from) <= end /\ end <= Position(upper)
        /\ DOMAIN a.rows = Position(from) .. end - 1
        /\ \A m \in DOMAIN a.rows : a.rows[m] = tb[m]
    BY <2>1 DEF PageIn
  <2>3. end \in Nat /\ 0 .. end - 1 \subseteq DOMAIN tb /\ Position(from) \in Nat
    BY <2>1, <2>2 DEF IsMark, Position
  <2>5. \A m \in DOMAIN a.rows : a.rows[m] = new[m]
    BY <2>2, <2>3, SMT DEF Grows
  <2> QED
    BY <1>MarksStay, <2>1, <2>2, <2>5 DEF PageIn

\* The append a producer awaits is of its batch.
<1>AwaitedAppend.
    ASSUME IInv, ReadInv, NEW p \in Producers, NEW command, Awaited(p, command),
           command.kind = "append" \/ pc[p] = "storing"
    PROVE  /\ pc[p] = "storing" /\ command.kind = "append"
           /\ command.event = todo[p][1] /\ command.event \in Range(batch[p])
  <2> USE <1>AwaitedAppend
  <2>1. pc[p] = "storing" /\ command = AppendOf(todo[p][1])
    <3>1. QueryOf(<<>>, cursor[p], LoadLimit).kind # "append"
      BY DEF QueryOf
    <3> QED
      BY <3>1 DEF Awaited
  <2>2. command.kind = "append" /\ command.event = todo[p][1]
    BY <2>1, SMT DEF AppendOf
  <2>3. PICK d \in Nat : /\ Len(batch[p]) = d + Len(todo[p])
          /\ \A k \in 1 .. Len(todo[p]) : todo[p][k] = batch[p][d + k]
    BY <2>1 DEF ReadInv, BatchInv, StoredPart
  <2>4. Len(todo[p]) \in Nat /\ Len(todo[p]) >= 1
    BY <2>1, SeqFacts DEF IInv, TaskInv, StoreInv
  <2>5. todo[p][1] = batch[p][d + 1] /\ d + 1 \in 1 .. Len(batch[p])
    BY <2>3, <2>4, SMT
  <2>6. DOMAIN batch[p] = 1 .. Len(batch[p])
    BY SeqFacts DEF ReadInv, BatchInv
  <2> QED
    BY <2>1, <2>2, <2>5, <2>6 DEF Range

\* What a client has read, when the table grows and it may be answered.
<1>PagesGrow.
    ASSUME NEW c, PagesInv(c), TableOK(table), TableOK(table'), Grows(table, table'),
           pc'[c] = pc[c], bound'[c] = bound[c], after'[c] = after[c],
           history'[c] = history[c],
           Got(c, "capturing")' => IsMark(table', reply'[c][1].token),
           Got(c, "paging")' => PageIn(table', reply'[c][1], after[c], bound[c])
    PROVE  PagesInv(c)'
  <2> USE <1>PagesGrow
  <2>1. PICK tb : tb = table
    OBVIOUS
  <2>2. PICK new : new = table'
    OBVIOUS
  <2>3. PICK k : k = HistoryEnd(c) /\ k = HistoryEnd(c)'
    BY DEF HistoryEnd, Position
  <2>4. k \in Nat /\ 0 .. k - 1 \subseteq DOMAIN tb
    <3>1. CASE pc[c] = "complete"
      BY <2>1, <2>3, <3>1 DEF HistoryEnd, PagesInv, Begun, IsMark
    <3>2. CASE pc[c] # "complete" /\ after[c] = <<>>
      <4>1. k = 0
        BY <2>3, <3>2 DEF HistoryEnd, Position
      <4> QED
        BY <4>1, SMT
    <3>3. CASE pc[c] # "complete" /\ after[c] # <<>>
      BY <2>1, <2>3, <3>3 DEF HistoryEnd, PagesInv, IsMark, Position
    <3> QED
      BY <3>1, <3>2, <3>3
  <2>6. history'[c] = Shown(c, Upto(table, HistoryEnd(c)))'
    <3>1. history[c] = Shown(c, Upto(tb, k))
      BY <2>1, <2>3 DEF PagesInv
    <3>2. history'[c] = Shown(c, Upto(new, k))
      BY <1>FrontStays, <2>1, <2>2, <2>4, <3>1
    <3> QED
      BY <2>2, <2>3, <3>2 DEF Shown, Upto
  <2>7. pc[c] \in Begun => IsMark(table', bound[c])
    <3>1. PICK token : token = bound[c]
      OBVIOUS
    <3> QED
      BY <1>MarksStay, <2>1, <2>2, <3>1 DEF PagesInv
  <2>8. after[c] # <<>> => IsMark(table', after[c])
    <3>1. PICK token : token = after[c]
      OBVIOUS
    <3> QED
      BY <1>MarksStay, <2>1, <2>2, <3>1 DEF PagesInv
  <2> QED
    BY <2>6, <2>7, <2>8 DEF PagesInv, Position, IsMark, PageIn

\* A subscription covers new rows too, as they are still to be published.
<1>CoversGrow.
    ASSUME NEW c, NEW token, Covers(c, token), Grows(table, table'),
           \A m \in DOMAIN table' : m \in DOMAIN table \/ Owned(table'[m]),
           UNCHANGED <<live, inbox, batch, cut>>
    PROVE  Covers(c, token)'
  <2> USE <1>CoversGrow
  <2>1. Stream(c)' = Stream(c)
    BY DEF Stream
  <2>3. ASSUME NEW m \in DOMAIN table', Position(token) <= m
        PROVE  table'[m] \in Range(Stream(c)) \/ Owned(table'[m])
    BY <2>3 DEF Covers, Grows
  <2> QED
    BY <2>1, <2>3 DEF Covers, Owned, Position

\* A captured checkpoint is behind all rows of the table.
<1>CheckpointFacts.
    ASSUME Counting, NEW tb, TableOK(tb), NEW a, a = CaptureCheckpoint(tb, Epoch)
    PROVE  IsMark(tb, a.token) /\ \A n \in DOMAIN tb : ~(Position(a.token) <= n)
  <2> USE <1>CheckpointFacts
  <2>1. PICK n \in Nat : DOMAIN tb = 0 .. n - 1
    BY DEF TableOK
  <2>3. PICK mark : mark = [epoch |-> Epoch, position |-> n]
    OBVIOUS
  <2>4. a.token = <<mark>> /\ mark.position = n
    BY <2>1, <2>3, OkFacts, CountFacts, ZenonT(30) DEF CaptureCheckpoint
  <2>6. \A i \in DOMAIN tb : ~(n <= i)
    BY <2>1, SMT
  <2> QED
    BY <2>1, <2>4, <2>6, SMT DEF IsMark, Position

\* The answer to the query of a client is the page it asked for.
<1>AnswerIsPage.
    ASSUME Counting, NEW tb, TableOK(tb), NEW upper, IsMark(tb, upper),
           NEW from, from # <<>> => IsMark(tb, from),
           NEW a, a = QueryEvents(tb, QueryOf(upper, from, ScanLimit).query, Epoch),
           a.tag = "ok"
    PROVE  PageIn(tb, a, from, upper)
  <2> USE <1>AnswerIsPage
  <2>1. PICK n \in Nat : DOMAIN tb = 0 .. n - 1
    BY DEF TableOK
  <2>2. PICK top \in Nat : top = Position(upper) /\ top = upper[1].position
    BY DEF IsMark, Position
  <2>3. PICK start \in Nat : start = Position(from)
    BY DEF IsMark, Position
  <2>4. IsPage(top, tb, start, a) /\ start <= top /\ top <= n
    <3>1. \A m \in 0 .. n - 1 : tb[m].topic \in Canvases
      BY <2>1 DEF TableOK, EventOK
    <3>3. ScanLimit \in Nat /\ ScanLimit # 0
      BY RelayAssumption, SMT
    <3> QED
      BY <2>1, <2>2, <2>3, <3>1, <3>3, QueryFacts DEF IsMark, Position
  <2>5. PICK end : end = IF a.token = <<>> THEN top ELSE Position(a.token)
    OBVIOUS
  <2>6. a.token # <<>> => /\ end \in Nat /\ start < end /\ end <= top
                          /\ end = a.token[1].position
    <3>1. ASSUME a.token # <<>>
          PROVE  /\ a.token[1].position \in Nat /\ a.token[1].position > start
                 /\ a.token[1].position <= top
      BY <2>4, <3>1 DEF IsPage
    <3> QED
      BY <2>5, <3>1, SMT DEF Position
  <2>7. end \in Nat /\ start <= end /\ end <= top
    BY <2>4, <2>5, <2>6, SMTT(15)
  <2>8. DOMAIN a.rows = start .. end - 1
    <3>1. DOMAIN a.rows = {m \in 0 .. top - 1 : start <= m /\
            (a.token # <<>> => m < a.token[1].position)}
      BY <2>4 DEF IsPage
    <3>2. CASE a.token = <<>>
      BY <2>5, <3>1, <3>2, SMTT(15)
    <3>3. CASE a.token # <<>>
      <4>1. DOMAIN a.rows = {m \in 0 .. top - 1 : start <= m /\ m < end}
        BY <2>6, <3>1, <3>3
      <4> QED
        BY <2>7, <4>1, SMT
    <3> QED
      BY <3>2, <3>3
  <2>9. a.token # <<>> => IsMark(tb, a.token)
    <3>1. 0 .. end - 1 \subseteq DOMAIN tb
      BY <2>1, <2>4, <2>7, SMT
    <3> QED
      BY <2>6, <3>1 DEF IsMark
  <2> QED
    BY <2>2, <2>3, <2>4, <2>5, <2>7, <2>8, <2>9 DEF PageIn, IsPage

<1> SUFFICES ASSUME Counting, IInv, ReadInv, Execute
             PROVE  ReadInv'
  OBVIOUS
<1>1. PICK n \in Nat : \E t, command, answer :
        HeadAnswered(n, t, command, answer) /\ Leaves(command, answer)
  BY ExecuteFacts
<1>2. PICK t, command, answer :
        HeadAnswered(n, t, command, answer) /\ Leaves(command, answer)
  BY <1>1
<1>3. /\ QueueInv /\ CallsInv /\ ReaderShape /\ TableOK(table)
  BY DEF IInv, ReadInv
<1>4. /\ Len(queue) = n + 1 /\ IsSeq(queue') /\ Len(queue') = n
      /\ \A i \in 1 .. n : queue'[i] = queue[i + 1]
      /\ queue[1].from = t /\ queue[1].command = command
      /\ \A q \in Producers \cup Clients : q # t => reply'[q] = reply[q]
      /\ t \in Producers \cup Clients => reply'[t] = <<answer>>
      /\ UNCHANGED <<hold, pc, todo, batch>>
      /\ UNCHANGED <<sub, inbox, live, bound, after, history, cut>>
  BY <1>2 DEF HeadAnswered
<1>5. TableOK(table') /\ Grows(table, table')
  BY <1>2 DEF Leaves, Grows
<1>6. 1 \in 1 .. Len(queue)
      /\ \A i \in 1 .. n : i + 1 \in 1 .. Len(queue) /\ 1 < i + 1
  BY <1>4, SMT
<1>7. /\ t \in Producers => Awaited(t, command)
      /\ t \in Clients => ClientAwaits(t, command)
      /\ command.kind = "append" => t \in Producers \/ command.event.id \in cut
  BY <1>3, <1>4, <1>6 DEF QueueInv, CallsInv, IsAppend
<1>8. CallsInv'
  <2>1. ASSUME NEW i \in 1 .. n
        PROVE  /\ queue'[i].from \in Clients => ClientAwaits(queue[i].from, queue[i].command)'
               /\ IsAppend(i)' => \/ queue'[i].from \in Producers
                                  \/ queue'[i].command.event.id \in cut'
    <3>1. ASSUME queue'[i].from \in Clients
          PROVE  ClientAwaits(queue[i].from, queue[i].command)'
      <4>1. PICK c \in Clients : c = queue'[i].from /\ c = queue[i + 1].from
        BY <1>4, <3>1
      <4>2. ClientAwaits(c, queue[i + 1].command)
        BY <1>3, <1>6, <4>1 DEF CallsInv
      <4> QED
        BY <1>3, <1>4, <1>6, <4>1, <4>2 DEF ClientAwaits, CallsInv
    <3> QED
      BY <1>3, <1>4, <1>6, <3>1 DEF CallsInv, IsAppend
  <2>2. ASSUME NEW i \in 1 .. n, NEW j \in 1 .. n, i < j,
               queue'[i].from = queue'[j].from
        PROVE  queue'[i].from \notin Clients
    BY <1>3, <1>4, <1>6, <2>2, SMTT(15) DEF CallsInv
  <2> QED
    BY <1>4, <2>1, <2>2 DEF CallsInv
<1>9. ASSUME NEW m \in DOMAIN table' PROVE m \in DOMAIN table \/ Owned(table'[m])
  <2>1. SUFFICES ASSUME m \notin DOMAIN table PROVE Owned(table'[m])
    OBVIOUS
  <2>2. command.kind = "append" /\ table'[m] = command.event
    BY <1>2, <2>1 DEF Leaves
  <2>3. CASE t \in Producers
    <3>1. Awaited(t, command) /\ command.kind = "append"
      BY <1>7, <2>2, <2>3
    <3>2. command.event \in Range(batch[t])
      BY <2>3, <3>1, <1>AwaitedAppend
    <3> QED
      BY <2>2, <2>3, <3>2 DEF Owned
  <2>4. CASE command.event.id \in cut
    BY <2>2, <2>4 DEF Owned
  <2> QED
    BY <1>7, <2>2, <2>3, <2>4
<1>10. ASSUME NEW p \in Producers PROVE BatchInv(p)'
  <2>1. BatchInv(p)
    BY DEF ReadInv
  <2>2. \A e : e \in Range(table) => e \in Range(table')
    BY <1>5 DEF Grows, Range
  <2>4. ASSUME Got(p, "storing")' PROVE todo[p][1] \in Range(table')
    <3>1. CASE p # t
      BY <1>4, <2>1, <2>2, <2>4, <3>1 DEF BatchInv, Got, Answered, Succeeded
    <3>2. CASE p = t
      <4>1. pc[p] = "storing" /\ reply'[p] = <<answer>> /\ reply'[p][1].tag = "ok"
        BY <1>4, <2>4, <3>2 DEF Got, Answered, Succeeded
      <4>2. answer.tag = "ok"
        BY <4>1, SMT
      <4>3. command.kind = "append" /\ command.event = todo[p][1]
        BY <1>7, <3>2, <4>1, <1>AwaitedAppend
      <4> QED
        BY <1>2, <4>2, <4>3 DEF Leaves, Range
    <3> QED
      BY <3>1, <3>2
  <2>5. /\ pc'[p] = pc[p] /\ batch'[p] = batch[p] /\ todo'[p] = todo[p]
        /\ hold'[p] = hold[p]
    BY <1>4
  <2> QED
    BY <1>4, <2>1, <2>2, <2>4, <2>5, ZenonT(30) DEF BatchInv, StoredPart
<1>11. ASSUME NEW c \in Clients PROVE PagesInv(c)' /\ CoverInv(c)' /\ StreamInv(c)'
  <2>1. PagesInv(c) /\ CoverInv(c) /\ StreamInv(c)
    BY DEF ReadInv
  <2>2. /\ pc'[c] = pc[c] /\ bound'[c] = bound[c] /\ after'[c] = after[c]
        /\ history'[c] = history[c] /\ sub'[c] = sub[c]
    BY <1>4
  <2>3. Stream(c)' = Stream(c)
    BY <1>4 DEF Stream
  <2>4. StreamInv(c)'
    <3>1. \A e : e \in Range(table) => e \in Range(table')
      BY <1>5 DEF Grows, Range
    <3> QED
      BY <1>4, <2>1, <2>3, <3>1 DEF StreamInv, InOrder
  <2>5. ASSUME NEW token, Covers(c, token) PROVE Covers(c, token)'
    BY <1>4, <1>5, <1>9, <2>5, <1>CoversGrow
  <2>6. sub[c] = "open" /\ pc[c] \in Begun => Covers(c, bound[c])'
    <3>1. SUFFICES ASSUME sub[c] = "open", pc[c] \in Begun PROVE Covers(c, bound[c])'
      OBVIOUS
    <3>2. PICK token : token = bound[c] /\ token = bound'[c]
      BY <2>2
    <3> QED
      BY <2>1, <2>5, <3>1, <3>2 DEF Covers, CoverInv
  <2>7. SUFFICES
          /\ Got(c, "capturing")' =>
               /\ IsMark(table', reply'[c][1].token)
               /\ sub[c] = "open" => \E token : token = reply'[c][1].token /\ Covers(c, token)'
          /\ Got(c, "paging")' => PageIn(table', reply'[c][1], after[c], bound[c])
    <3>1. PagesInv(c)'
      BY <1>3, <1>5, <2>1, <2>2, <2>7, <1>PagesGrow
    <3>2. ASSUME Got(c, "capturing")', sub[c] = "open"
          PROVE  Covers(c, reply[c][1].token)'
      <4>1. PICK token : token = reply'[c][1].token /\ Covers(c, token)'
        BY <2>7, <3>2
      <4> QED
        BY <4>1 DEF Covers
    <3> QED
      BY <2>2, <2>4, <2>6, <3>1, <3>2 DEF CoverInv
  <2>8. CASE c # t
    <3>1. reply'[c] = reply[c]
      BY <1>4, <2>8
    <3>3. PICK tb, new, a, from, upper :
            /\ tb = table /\ new = table' /\ a = reply[c][1]
            /\ from = after[c] /\ upper = bound[c]
      OBVIOUS
    <3>4. ASSUME Got(c, "capturing")
          PROVE  /\ IsMark(table', a.token)
                 /\ sub[c] = "open" => Covers(c, a.token)'
      <4>2. IsMark(new, a.token)
        BY <1>MarksStay, <1>5, <2>1, <3>3, <3>4 DEF PagesInv
      <4> QED
        BY <2>1, <2>5, <3>3, <3>4, <4>2 DEF CoverInv
    <3>5. ASSUME Got(c, "paging") PROVE PageIn(new, a, from, upper)
      <4>2. /\ IsMark(tb, upper) /\ (from # <<>> => IsMark(tb, from))
            /\ PageIn(tb, a, from, upper)
        BY <2>1, <3>3, <3>5 DEF PagesInv, Got, Answered, Begun
      <4> QED
        BY <1>5, <3>3, <4>2, <1>PagesStay
    <3> QED
      BY <2>2, <3>1, <3>3, <3>4, <3>5 DEF Got, Answered, Succeeded
  <2>9. CASE c = t
    <3>1. reply'[c] = <<answer>> /\ ClientAwaits(c, command)
      BY <1>4, <1>7, <2>9
    <3>2. reply'[c][1] = answer
      BY <3>1, SMT
    <3>3. /\ command.kind # "append"
          /\ pc[c] = "capturing" => command.kind = "capture"
      <4>1. CASE pc[c] = "capturing" /\ command = [kind |-> "capture"]
        BY <4>1, SMT
      <4>2. CASE /\ pc[c] = "paging"
                 /\ command = QueryOf(bound[c], after[c], ScanLimit)
        BY <4>2, SMT DEF QueryOf
      <4> QED
        BY <3>1, <4>1, <4>2 DEF ClientAwaits
    <3>4. PICK tb : tb = table /\ tb = table'
      BY <1>2, <3>3 DEF Leaves
    <3>5. ASSUME Got(c, "capturing")'
          PROVE  /\ IsMark(table', answer.token)
                 /\ Covers(c, answer.token)'
      <4>1. command.kind = "capture" /\ answer.tag = "ok"
        BY <2>2, <3>2, <3>3, <3>5 DEF Got, Answered, Succeeded
      <4>3. IsMark(tb, answer.token) /\ \A m \in DOMAIN tb : ~(Position(answer.token) <= m)
        BY <1>CheckpointFacts, <1>2, <1>3, <3>4, <4>1 DEF Leaves
      <4> QED
        BY <3>4, <4>3 DEF Covers
    <3>6. ASSUME Got(c, "paging")'
          PROVE  PageIn(table', answer, after[c], bound[c])
      <4>1. pc[c] = "paging" /\ answer.tag = "ok"
        BY <2>2, <3>2, <3>6 DEF Got, Answered, Succeeded
      <4>2. PICK from, upper : from = after[c] /\ upper = bound[c]
        OBVIOUS
      <4>3. command = QueryOf(upper, from, ScanLimit)
        BY <3>1, <4>1, <4>2 DEF ClientAwaits
      <4>4. answer = QueryEvents(tb, QueryOf(upper, from, ScanLimit).query, Epoch)
        BY <1>2, <3>4, <4>1, <4>3 DEF Leaves, QueryOf
      <4>6. PageIn(tb, answer, from, upper)
        BY <1>AnswerIsPage, <1>3, <2>1, <3>4, <4>1, <4>2, <4>4 DEF PagesInv, Begun
      <4> QED
        BY <3>4, <4>2, <4>6
    <3>7. Got(c, "capturing")' => \E token : token = reply'[c][1].token /\ Covers(c, token)'
      <4>1. PICK token : token = answer.token
        OBVIOUS
      <4> QED
        BY <3>2, <3>5, <4>1
    <3> QED
      BY <3>2, <3>5, <3>6, <3>7
  <2> QED
    BY <2>8, <2>9
<1> QED
  BY <1>3, <1>4, <1>8, <1>10, <1>11 DEF ReadInv, ReaderShape

-----------------------------------------------------------------------------
(* All steps.                                                              *)

\* Nothing is read at first.
LEMMA InitReads ==
  ASSUME Counting, Init
  PROVE  ReadInv
<1>1. /\ table = NoRows /\ queue = <<>> /\ cut = {}
      /\ pc = [t \in Tasks |-> "idle"] /\ reply = [t \in Tasks |-> <<>>]
      /\ batch = [p \in Producers |-> <<>>]
      /\ sub = [c \in Clients |-> "none"] /\ inbox = [c \in Clients |-> <<>>]
      /\ live = [c \in Clients |-> <<>>] /\ bound = [c \in Clients |-> <<>>]
      /\ after = [c \in Clients |-> <<>>] /\ history = [c \in Clients |-> <<>>]
  BY DEF Init
<1>2. Clients \subseteq Tasks /\ Producers \subseteq Tasks
  BY DEF Tasks
<1>4. \A i \in 1 .. Len(queue) : FALSE
  BY <1>1, EmptyIsSeq, SMT
<1>5. CallsInv
  BY <1>4 DEF CallsInv
<1>6. ASSUME NEW p \in Producers PROVE BatchInv(p)
  <2>1. batch[p] = <<>> /\ pc[p] = "idle"
    BY <1>1, <1>2
  <2> QED
    BY <2>1, EmptyIsSeq, SMT DEF BatchInv, Got, Answered
<1>7. ASSUME NEW c \in Clients PROVE PagesInv(c) /\ CoverInv(c) /\ StreamInv(c)
  <2>1. /\ pc[c] = "idle" /\ reply[c] = <<>> /\ sub[c] = "none" /\ inbox[c] = <<>>
        /\ live[c] = <<>> /\ after[c] = <<>> /\ history[c] = <<>>
    BY <1>1, <1>2
  <2>2. PICK rows : rows = Upto(table, HistoryEnd(c))
    OBVIOUS
  <2>3. DOMAIN rows = {}
    BY <1>1, <2>2 DEF Upto, RowsOf, NoRows
  <2>5. PagesInv(c)
    BY <2>1, <2>2, <2>3, ShowsNothing DEF PagesInv, Begun, Got, Answered
  <2>6. PICK s : s = Stream(c)
    OBVIOUS
  <2>7. s = <<>> \o <<>>
    BY <2>1, <2>6 DEF Stream
  <2>8. IsSeq(s) /\ Len(s) = 0
    BY <2>7, EmptyIsSeq, JoinFacts, SMT
  <2>9. \A i \in 1 .. Len(s) : FALSE
    BY <2>8, SMT
  <2> QED
    BY <2>1, <2>5, <2>6, <2>8, <2>9 DEF CoverInv, StreamInv
<1> QED
  BY <1>1, <1>5, <1>6, <1>7 DEF ReadInv, ReaderShape

\* Every step keeps what readers rely on.
LEMMA StepReads ==
  ASSUME Counting, IInv, ReadInv, [Next]_vars
  PROVE  ReadInv'
<1>1. ASSUME NEW p \in Producers,
             \/ \E s, first, last : Act(p, s, first, last)
             \/ Granted(p) \/ ProducerStep(p) \/ CancelAction(p)
      PROVE  ReadInv'
  BY <1>1, ProducersRead
<1>2. ASSUME NEW c \in Clients, ClientStep(c) PROVE ReadInv'
  BY <1>2, ClientsRead
<1>3. CASE Execute
  BY <1>3, ExecuteReads
<1>4. CASE UNCHANGED vars
  <2>1. /\ UNCHANGED <<table, queue, hold, pc, reply, todo, batch, cut>>
        /\ UNCHANGED <<sub, inbox, live, bound, after, history>>
    BY <1>4 DEF vars, storeVars, leaseState, producerVars, clientVars,
                       busVars, pageVars
  <2>3. ASSUME NEW p \in Producers PROVE BatchInv(p)'
    BY <2>1, BatchKept DEF ReadInv, SameProducer
  <2>4. ASSUME NEW c \in Clients PROVE PagesInv(c)' /\ CoverInv(c)' /\ StreamInv(c)'
    <3>1. PagesInv(c) /\ CoverInv(c) /\ StreamInv(c)
      BY DEF ReadInv
    <3>2. Stream(c)' = Stream(c) /\ SameClient(c) /\ OwnedKept
      BY <2>1 DEF Stream, SameClient, OwnedKept, Owned
    <3>3. PagesInv(c)'
      BY <2>1, <3>1, PagesKept
    <3>5. CoverInv(c)'
      BY <2>1, <3>1, <3>2, CoverKept
    <3> QED
      BY <2>1, <3>1, <3>2, <3>3, <3>5, StreamRests
  <2> QED
    BY <2>1, <2>3, <2>4 DEF ReadInv, ReaderShape, CallsInv, ClientAwaits, IsAppend
<1> QED
  BY <1>1, <1>2, <1>3, <1>4 DEF Next

\* A completed history and an open subscription.
LEMMA HandsOver ==
  /\ Counting
  /\ IInv
  /\ ReadInv
  => HandoffIsGapless
\* A later row of a stroke has a greater number.
<1>NumbersGrow.
    ASSUME Counting, NEW tb, TableOK(tb), NEW m \in DOMAIN tb, NEW n \in DOMAIN tb, m < n
    PROVE  InOrder(tb[m], tb[n])
  <2> USE <1>NumbersGrow
  <2>1. SUFFICES ASSUME tb[m].stroke = tb[n].stroke PROVE tb[m].number < tb[n].number
    BY DEF InOrder
  <2>2. PICK s \in Strokes : s = tb[m].stroke
    BY DEF TableOK, EventOK
  <2>3. m \in RowsOfStroke(tb, s) /\ n \in RowsOfStroke(tb, s)
    BY <2>1, <2>2 DEF RowsOfStroke
  <2>4. PICK low, up : /\ low = {k \in RowsOfStroke(tb, s) : k <= m}
                       /\ up = {k \in RowsOfStroke(tb, s) : k <= n}
    OBVIOUS
  <2>5. tb[m].number = Cardinality(low) /\ tb[n].number = Cardinality(up)
    BY <2>3, <2>4 DEF TableOK
  <2>7. /\ IsFiniteSet(low) /\ Cardinality(low) \in Nat
        /\ IsFiniteSet(up) /\ Cardinality(up) \in Nat
    BY <2>4, RowsAreFinite
  <2>8. n \notin low /\ low \cup {n} \in SUBSET up
    <3>1. \A k \in RowsOfStroke(tb, s) : k \in Nat
      BY SMT DEF RowsOfStroke, TableOK
    <3>2. n \in Nat /\ m \in Nat /\ \A k \in Nat : k <= m => k <= n
      BY <2>3, <3>1, SMT
    <3>3. ~(n <= m) /\ n <= n
      BY <3>2, SMT
    <3> QED
      BY <2>3, <2>4, <3>1, <3>2, <3>3
  <2>9. /\ Cardinality(low \cup {n}) = Cardinality(low) + 1
        /\ Cardinality(low \cup {n}) <= Cardinality(up)
    BY <2>7, <2>8 DEF Counting
  <2> QED
    BY <2>5, <2>7, <2>9, SMT

<1> SUFFICES ASSUME Counting, IInv, ReadInv
             PROVE  HandoffIsGapless
  OBVIOUS
<1>1. SUFFICES ASSUME NEW c \in Clients, HandedOver(c)
      PROVE  /\ \A n \in DOMAIN table :
                  table[n].topic = Watched[c] =>
                    \/ table[n] \in Range(history[c]) \cup Range(Stream(c))
                    \/ table[n].id \in cut
                    \/ \E p \in Producers : table[n] \in Range(batch[p])
             /\ \A i, j \in DOMAIN history[c] :
                  i < j => InOrder(history[c][i], history[c][j])
             /\ \A i \in DOMAIN history[c], j \in News(c) :
                  InOrder(history[c][i], Stream(c)[j])
             /\ \A i, j \in News(c) : i < j => InOrder(Stream(c)[i], Stream(c)[j])
  BY DEF HandoffIsGapless
<1>2. PICK h, s, tb : h = history[c] /\ s = Stream(c) /\ tb = table
  OBVIOUS
<1>3. /\ TableOK(tb) /\ PagesInv(c) /\ CoverInv(c) /\ StreamInv(c)
      /\ pc[c] = "complete" /\ pc[c] \in Begun /\ sub[c] = "open"
  BY <1>1, <1>2 DEF IInv, ReadInv, HandedOver, Begun
<1>4. PICK k \in Nat : k = Position(bound[c]) /\ k = HistoryEnd(c)
  BY <1>3 DEF PagesInv, IsMark, Position, HistoryEnd
<1>6. ShowsFront(h, c, tb, k)
  BY <1>2, <1>3, <1>4, ShownFacts DEF PagesInv
<1>7. DOMAIN h = 1 .. Len(h) /\ DOMAIN s = 1 .. Len(s)
  BY <1>2, <1>3, <1>6, SeqFacts DEF StreamInv, ShowsFront
<1>8. \A n \in DOMAIN tb : n \in Nat /\ (n < k \/ k <= n)
  BY <1>3, SMT DEF TableOK
<1>9. ASSUME NEW n \in DOMAIN tb, tb[n].topic = Watched[c]
      PROVE  tb[n] \in Range(h) \/ tb[n] \in Range(s) \/ Owned(tb[n])
  <2>1. CASE n < k
    BY <1>6, <1>9, <2>1 DEF ShowsFront
  <2>2. CASE k <= n
    BY <1>2, <1>3, <1>4, <2>2 DEF CoverInv, Covers
  <2> QED
    BY <1>8, <2>1, <2>2
<1>10. ASSUME NEW i \in DOMAIN h, NEW j \in DOMAIN h, i < j PROVE InOrder(h[i], h[j])
  <2>1. PICK m \in DOMAIN tb : \E n \in DOMAIN tb :
          m < n /\ h[i] = tb[m] /\ h[j] = tb[n]
    <3>1. i \in 1 .. Len(h) /\ j \in 1 .. Len(h)
      BY <1>7
    <3> QED
      BY <1>6, <1>10, <3>1 DEF ShowsFront
  <2>2. PICK n \in DOMAIN tb : m < n /\ h[i] = tb[m] /\ h[j] = tb[n]
    BY <2>1
  <2> QED
    BY <1>NumbersGrow, <1>3, <2>2
<1>11. ASSUME NEW i \in DOMAIN h, NEW j \in News(c) PROVE InOrder(h[i], s[j])
  <2>1. j \in DOMAIN s /\ s[j].topic = Watched[c] /\ s[j] \notin Range(h)
    BY <1>2 DEF News
  <2>2. PICK m \in DOMAIN tb : m < k /\ h[i] = tb[m]
    BY <1>6, <1>7 DEF ShowsFront
  <2>3. PICK n \in DOMAIN tb : s[j] = tb[n]
    BY <1>2, <1>3, <1>7, <2>1 DEF StreamInv, Range
  <2>5. m < n
    BY <1>6, <1>8, <2>1, <2>2, <2>3, SMT DEF ShowsFront
  <2> QED
    BY <1>NumbersGrow, <1>3, <2>2, <2>3, <2>5
<1>12. ASSUME NEW i \in News(c), NEW j \in News(c), i < j PROVE InOrder(s[i], s[j])
  BY <1>2, <1>3, <1>7, <1>12 DEF StreamInv, News
<1> QED
  BY <1>2, <1>9, <1>10, <1>11, <1>12 DEF Owned

-----------------------------------------------------------------------------
(* Finite sets.                                                            *)

FST == INSTANCE FiniteSetTheorems

\* Sizes and finiteness are those of the theorems' module.
LEMMA SameSize ==
  ASSUME NEW S
  PROVE  /\ FST!Cardinality(S) = Cardinality(S)
         /\ FST!IsFiniteSet(S) <=> IsFiniteSet(S)
BY DEF FST!Cardinality, Cardinality, FST!IsFiniteSet, IsFiniteSet

\* A subset of a finite set is finite and no larger.
LEMMA SubsetSize ==
  ASSUME NEW S, IsFiniteSet(S), NEW T \in SUBSET S
  PROVE  /\ IsFiniteSet(T) /\ Cardinality(T) \in Nat
         /\ Cardinality(T) <= Cardinality(S)
<1>2. FST!IsFiniteSet(T) /\ FST!Cardinality(T) <= FST!Cardinality(S)
  BY FST!FS_Subset, SameSize
<1>4. /\ FST!Cardinality(T) = Cardinality(T) /\ FST!Cardinality(S) = Cardinality(S)
      /\ FST!IsFiniteSet(T) <=> IsFiniteSet(T)
  BY SameSize
<1> QED
  BY <1>2, <1>4, FST!FS_CardinalityType

\* One more element makes a set one larger.
LEMMA AddedSize ==
  ASSUME NEW S, IsFiniteSet(S), NEW x, x \notin S
  PROVE  IsFiniteSet(S \cup {x}) /\ Cardinality(S \cup {x}) = Cardinality(S) + 1
<1>2. /\ FST!IsFiniteSet(S \cup {x})
      /\ FST!Cardinality(S \cup {x}) = FST!Cardinality(S) + 1
  BY FST!FS_AddElement, SameSize
<1> QED
  BY <1>2, SameSize

\* The sizes of two sets that have nothing in common add up.
LEMMA UnionSize ==
  ASSUME NEW S, IsFiniteSet(S), NEW T, IsFiniteSet(T), S \cap T = {}
  PROVE  /\ Cardinality(S) \in Nat /\ Cardinality(T) \in Nat
         /\ Cardinality(S \cup T) = Cardinality(S) + Cardinality(T)
<1>1. FST!IsFiniteSet(S) /\ FST!IsFiniteSet(T)
  BY SameSize
<1>2. /\ FST!Cardinality(S \cup T)
           = FST!Cardinality(S) + FST!Cardinality(T) - FST!Cardinality(S \cap T)
      /\ FST!Cardinality(S) \in Nat /\ FST!Cardinality(T) \in Nat
      /\ FST!Cardinality(S \cap T) = 0
  BY <1>1, FST!FS_Union, FST!FS_CardinalityType, FST!FS_EmptySet
<1>3. /\ FST!Cardinality(S) = Cardinality(S) /\ FST!Cardinality(T) = Cardinality(T)
      /\ FST!Cardinality(S \cup T) = Cardinality(S \cup T)
  BY SameSize
<1> QED
  BY <1>2, <1>3, SMTT(15)

\* The empty set, and the rows of a table.
LEMMA FiniteRows ==
  ASSUME NEW n \in Nat
  PROVE  Cardinality({}) = 0 /\ IsFiniteSet(0 .. n - 1)
<1>1. FST!IsFiniteSet(0 .. n - 1)
  BY FST!FS_Interval, SMT
<1> QED
  BY <1>1, SameSize, FST!FS_EmptySet

\* A set of numbers that is not empty has a least one.
LEMMA HasLeast ==
  ASSUME NEW T \in SUBSET Nat, T # {}
  PROVE  \E x \in T : \A y \in T : x <= y
<1>1. PICK x \in T : \A y \in T : ~ (<<y, x>> \in FST!OpToRel(<, Nat))
  BY FST!NatLessThanWellFounded, FST!WFMin
<1>2. \A y \in T : ~(y < x)
  BY <1>1 DEF FST!OpToRel
<1> QED
  BY <1>2, SMT

\* What the proofs took of finite sets holds.
LEMMA Counted == Counting
<1>2. ASSUME NEW S, IsFiniteSet(S)
      PROVE  /\ Cardinality(S) \in Nat
             /\ \A T \in SUBSET S :
                  IsFiniteSet(T) /\ Cardinality(T) <= Cardinality(S)
  BY <1>2, SubsetSize
<1> QED
  BY <1>2, AddedSize, UnionSize, HasLeast, FiniteRows DEF Counting

\* The invariants hold in every state of the relay.
LEMMA SpecIInv == Spec => [](IInv /\ ReadInv)
<1>1. Init => IInv /\ ReadInv
  BY InitIInv, InitReads, Counted
<1>2. IInv /\ ReadInv /\ [Next]_vars => (IInv /\ ReadInv)'
  BY StepIInv, StepReads, Counted
<1> QED
  BY <1>1, <1>2, PTL DEF Spec

\* Each chunk of a stroke is stored once and in order, for any number of
\* producers, strokes, canvases and clients and whatever the page sizes and
\* queue capacities: a cancelled dispatch leaves its append in the queue, and a
\* later load_stroke reads the stroke behind it in the same queue.
THEOREM Sound == Spec => []StrokeIsSound
<1>1. IInv => StrokeIsSound
  BY DEF IInv, TableOK, StrokeIsSound, StrokeRows, RowsOfStroke
<1> QED
  BY <1>1, SpecIInv, PTL

\* What load_stroke projected page by page is all of its stroke when the
\* handler decides, though the pages were read at different times.
THEOREM Current == Spec => []ProjectionIsCurrent
<1>1. IInv => ProjectionIsCurrent
  <2> SUFFICES ASSUME IInv, NEW p \in Producers, pc[p] = "deciding"
               PROVE  projection[p] = Cardinality(StrokeRows(Stroke(p)))
    BY DEF ProjectionIsCurrent
  <2>1. hold[p] = Stroke(p)
    BY DEF IInv, LeaseInv, LeaseOf
  <2>2. projection[p] = Chunks(table, hold[p])
    BY DEF IInv, TaskInv, DecideInv
  <2> QED
    BY <2>1, <2>2 DEF Chunks, RowsOfStroke, StrokeRows
<1> QED
  BY <1>1, SpecIInv, PTL

\* An event in a subscriber's queue, or delivered to it, belongs to a batch
\* that is stored in full: dispatch appends all its events before it publishes
\* the first.
THEOREM StoredFirst == Spec => []BatchStoredFirst
<1>1. IInv => BatchStoredFirst
  <2> SUFFICES ASSUME IInv, NEW c \in Clients,
                      NEW e \in Range(inbox[c] \o live[c])
               PROVE  BatchIn(table, e)
    BY DEF BatchStoredFirst, BatchIn, StrokeRows, RowsOfStroke
  <2>1. AllStored(table, inbox[c]) /\ AllStored(table, live[c])
    BY DEF IInv, SubInv
  <2>2. \/ \E i \in 1 .. Len(inbox[c]) : e = inbox[c][i]
        \/ \E i \in 1 .. Len(live[c]) : e = live[c][i]
    BY <2>1, ConcatFacts, SMT DEF AllStored
  <2> QED
    BY <2>1, <2>2 DEF AllStored
<1> QED
  BY <1>1, SpecIInv, PTL

\* The pages a client has read are the events of its canvas in front of its
\* cursor, or of its checkpoint once it is complete: each once, in append order,
\* for any page size and whatever is appended between the pages.
THEOREM Exact == Spec => []HistoryIsExact
<1>1. ReadInv => HistoryIsExact
  BY DEF ReadInv, PagesInv, HistoryEnd, Position, Upto, HistoryIsExact
<1> QED
  BY <1>1, SpecIInv, PTL

\* A client that subscribes, captures its checkpoint behind the subscription and
\* reads all pages below it has, or gets, every event of its canvas that is not
\* given up, and the chunks of each stroke in order.
THEOREM Gapless == Spec => []HandoffIsGapless
<1>1. IInv /\ ReadInv => HandoffIsGapless
  BY HandsOver, Counted
<1> QED
  BY <1>1, SpecIInv, PTL

=============================================================================
