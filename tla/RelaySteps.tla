----------------------------- MODULE RelaySteps ------------------------------
(***************************************************************************)
(* The inductive invariant of Relay, and that every step keeps it, given   *)
(* what the proofs take of finite sets (Counting); and what a page of      *)
(* events is made of.  That Counting holds, what a client reads, and the   *)
(* theorems are in RelayProofs.                                            *)
(***************************************************************************)
EXTENDS Relay, TLAPS

\* Zenon proves what does not name another prover.
USE Zenon

-----------------------------------------------------------------------------
(* Sequences of anything.                                                  *)

IsSeq(q) == \E S : q \in Seq(S)

\* The empty sequence is a sequence.
LEMMA EmptyIsSeq == IsSeq(<<>>) /\ Len(<<>>) = 0
<1> QED
  BY SMT DEF IsSeq

\* The length and the domain of a sequence.
LEMMA SeqFacts ==
  ASSUME NEW q, IsSeq(q)
  PROVE  /\ Len(q) \in Nat /\ DOMAIN q = 1 .. Len(q)
         /\ q # <<>> <=> Len(q) > 0
<1>1. PICK S : q \in Seq(S)
  BY DEF IsSeq
<1> QED
  BY <1>1, SMT

\* What Append does to a sequence.
LEMMA AppendFacts ==
  \A q : \A x :
    /\ IsSeq(q)
    => /\ IsSeq(Append(q, x)) /\ Len(Append(q, x)) = Len(q) + 1
       /\ \A i \in 1 .. Len(q) : Append(q, x)[i] = q[i]
       /\ Append(q, x)[Len(q) + 1] = x
\* A sequence is a sequence over any set that holds its items.
<1>SeqOfItems.
    ASSUME NEW q, IsSeq(q), NEW T, {q[i] : i \in 1 .. Len(q)} \subseteq T
    PROVE  q \in Seq(T)
  <2> USE <1>SeqOfItems
  <2>1. PICK S : q \in Seq(S)
    BY DEF IsSeq
  <2> QED
    BY <2>1, SMT

<1> SUFFICES ASSUME NEW q, IsSeq(q), NEW x
             PROVE  /\ IsSeq(Append(q, x)) /\ Len(Append(q, x)) = Len(q) + 1
                    /\ \A i \in 1 .. Len(q) : Append(q, x)[i] = q[i]
                    /\ Append(q, x)[Len(q) + 1] = x
  BY SMT
<1> DEFINE T == {q[i] : i \in 1 .. Len(q)} \cup {x}
<1>1. q \in Seq(T) /\ x \in T
  BY <1>SeqOfItems
<1> HIDE DEF T
<1> QED
  BY <1>1, SMT DEF IsSeq

\* What Tail does to a sequence that is not empty.
LEMMA TailFacts ==
  ASSUME NEW q, IsSeq(q), q # <<>>
  PROVE  /\ IsSeq(Tail(q)) /\ Len(Tail(q)) = Len(q) - 1
         /\ \A i \in 1 .. Len(q) - 1 : Tail(q)[i] = q[i + 1]
         /\ Head(q) = q[1]
<1>1. PICK S : q \in Seq(S)
  BY DEF IsSeq
<1> QED
  BY <1>1, SMT DEF IsSeq

\* An item of a concatenation is an item of one of the two parts.
LEMMA ConcatFacts ==
  ASSUME NEW q, NEW r, IsSeq(q), IsSeq(r), NEW e \in Range(q \o r)
  PROVE  \/ \E i \in 1 .. Len(q) : e = q[i]
         \/ \E i \in 1 .. Len(r) : e = r[i]
<1>1. PICK S, T : q \in Seq(S) /\ r \in Seq(T)
  BY DEF IsSeq
<1>3. PICK i \in DOMAIN (q \o r) : e = (q \o r)[i]
  BY DEF Range
<1> QED
  BY <1>1, <1>3, SeqFacts, SMT

\* A function on 1 .. n is a sequence of length n.
LEMMA MapFacts ==
  ASSUME NEW n \in Nat, NEW f, f = [i \in 1 .. n |-> f[i]]
  PROVE  IsSeq(f) /\ Len(f) = n
<1> DEFINE S == {f[i] : i \in 1 .. n}
<1>1. f \in [1 .. n -> S]
  OBVIOUS
<1> HIDE DEF S
<1> QED
  BY <1>1, SMT DEF IsSeq

-----------------------------------------------------------------------------
(* The strokes in a table.                                                 *)

\* The rows of stroke s in the table tb, and those in front of row k.
RowsOfStroke(tb, s) == {n \in DOMAIN tb : tb[n].stroke = s}
Chunks(tb, s) == Cardinality(RowsOfStroke(tb, s))
RowsBefore(tb, s, k) == {n \in RowsOfStroke(tb, s) : n < k}

EventOK(e) == /\ e.topic \in Canvases /\ e.stroke \in Strokes
              /\ e.number \in Nat \ {0} /\ e.last \in Nat

\* The table is contiguous; the chunks of a stroke are numbered in order.
TableOK(tb) ==
  /\ \E n \in Nat : DOMAIN tb = 0 .. n - 1
  /\ \A n \in DOMAIN tb : EventOK(tb[n])
  /\ \A s \in Strokes : \A n \in RowsOfStroke(tb, s) :
       tb[n].number = Cardinality({m \in RowsOfStroke(tb, s) : m <= n})
  /\ \A s \in Strokes : \A k \in 1 .. Chunks(tb, s) :
       \E n \in RowsOfStroke(tb, s) : tb[n].number = k

BatchIn(tb, e) ==
  \A k \in e.number .. e.last :
    \E n \in RowsOfStroke(tb, e.stroke) : tb[n].number = k

\* A batch that is in the table stays in a table that only grows.
LEMMA BatchStays ==
  ASSUME NEW tb, NEW new, NEW x, BatchIn(tb, x),
         \A m \in DOMAIN tb : m \in DOMAIN new /\ new[m] = tb[m]
  PROVE  BatchIn(new, x)
BY DEF BatchIn, RowsOfStroke

\* Events whose batches are stored, in a sequence.
AllStored(tb, q) == IsSeq(q) /\ \A k \in 1 .. Len(q) : BatchIn(tb, q[k])

\* Every batch of an empty inbox is stored.
LEMMA NoneStored == ASSUME NEW tb PROVE AllStored(tb, <<>>)
BY EmptyIsSeq, SMT DEF AllStored

\* The batches of an inbox stay stored in a table that only grows.
LEMMA StoredStay ==
  ASSUME NEW tb, NEW new, NEW q, AllStored(tb, q),
         \A m \in DOMAIN tb : m \in DOMAIN new /\ new[m] = tb[m]
  PROVE  AllStored(new, q)
BY BatchStays DEF AllStored

\* Delivering a stored batch to an inbox leaves the batches of the inbox stored.
LEMMA StoredAppend ==
  ASSUME NEW tb, NEW q, AllStored(tb, q), NEW e, BatchIn(tb, e)
  PROVE  AllStored(tb, Append(q, e))
<1>3. PICK r : r = Append(q, e)
  OBVIOUS
<1> QED
  BY <1>3, SeqFacts, AppendFacts, SMT DEF AllStored

\* Receiving a batch takes a stored one and leaves stored ones.
LEMMA StoredTail ==
  ASSUME NEW tb, NEW q, AllStored(tb, q), q # <<>>
  PROVE  AllStored(tb, Tail(q)) /\ BatchIn(tb, Head(q))
<1>1. /\ Len(q) \in Nat /\ Len(q) > 0
      /\ IsSeq(Tail(q)) /\ Len(Tail(q)) = Len(q) - 1
      /\ \A i \in 1 .. Len(q) - 1 : Tail(q)[i] = q[i + 1]
      /\ Head(q) = q[1]
  BY SeqFacts, TailFacts DEF AllStored
<1>3. PICK r : r = Tail(q)
  OBVIOUS
<1> QED
  BY <1>1, <1>3, SMT DEF AllStored

-----------------------------------------------------------------------------
(* The inductive invariant.                                                *)

Shape ==
  /\ DOMAIN pc = Tasks /\ DOMAIN reply = Tasks
  /\ DOMAIN want = Producers /\ DOMAIN hold = Producers
  /\ DOMAIN action = Producers /\ DOMAIN cursor = Producers
  /\ DOMAIN projection = Producers /\ DOMAIN todo = Producers
  /\ DOMAIN batch = Producers
  /\ DOMAIN inbox = Clients /\ DOMAIN live = Clients

\* From the grant on a producer holds its stroke, and alone.
LeaseOf(p) ==
  /\ pc[p] \in {"idle", "acquiring", "loading", "deciding", "storing",
                "publishing"}
  /\ pc[p] # "idle" => /\ Stroke(p) \in Strokes
                       /\ action[p][1].first \in Nat
                       /\ action[p][1].last \in Nat
  /\ pc[p] = "acquiring" => want[p] = Stroke(p)
  /\ hold[p] = IF pc[p] \in {"idle", "acquiring"} THEN NoStroke ELSE Stroke(p)

LeaseInv ==
  /\ \A p \in Producers : LeaseOf(p)
  /\ \A p, q \in Producers : hold[p] = hold[q] /\ p # q => hold[p] = NoStroke

IsAppend(i) == queue[i].command.kind = "append"
AppendedTo(i) == queue[i].command.event.stroke

\* No chunk of s waits in the queue of the store.
NoAppend(s) == \A i \in 1 .. Len(queue) : IsAppend(i) => AppendedTo(i) # s
NoneFrom(p) == \A i \in 1 .. Len(queue) : queue[i].from # p
OnlyFrom(p) == \A i \in 1 .. Len(queue) :
                 IsAppend(i) /\ AppendedTo(i) = hold[p] => queue[i].from = p

\* A queued command is the one its producer awaits.
Awaited(p, command) ==
  /\ reply[p] = <<>>
  /\ \/ pc[p] = "loading" /\ command = QueryOf(<<>>, cursor[p], LoadLimit)
     \/ pc[p] = "storing" /\ command = AppendOf(todo[p][1])

\* A queued append is the next chunk of its stroke, and the only one queued;
\* it is not behind the query of a producer that loads the stroke.
QueueInv ==
  /\ IsSeq(queue)
  /\ \A i \in 1 .. Len(queue) :
       /\ queue[i].from \in Producers => Awaited(queue[i].from, queue[i].command)
       /\ queue[i].command.kind \in {"append", "query", "capture"}
       /\ IsAppend(i) =>
            /\ EventOK(queue[i].command.event)
            /\ queue[i].command.event.number = Chunks(table, AppendedTo(i)) + 1
            /\ queue[i].from \notin Clients
  /\ \A i, j \in 1 .. Len(queue) : i < j =>
       /\ queue[i].from = queue[j].from => queue[i].from \notin Producers
       /\ IsAppend(i) /\ IsAppend(j) => AppendedTo(i) # AppendedTo(j)
       /\ queue[i].from \in Producers /\ pc[queue[i].from] = "loading"
            /\ IsAppend(j) => AppendedTo(j) # hold[queue[i].from]

Start(p) == IF cursor[p] = <<>> THEN 0 ELSE cursor[p][1].position

\* The pages so far hold all the rows in front of the cursor, and the page
\* just answered those up to the next cursor.
LoadInv(p) ==
  pc[p] = "loading" =>
    /\ Start(p) \in Nat
    /\ cursor[p] = <<>> => projection[p] = 0
    /\ cursor[p] # <<>> =>
         /\ projection[p] = Cardinality(RowsBefore(table, hold[p], Start(p)))
         /\ NoAppend(hold[p])
    /\ reply[p] # <<>> /\ Succeeded(p) =>
         LET rows == reply[p][1].rows
             next == reply[p][1].token
         IN /\ NoAppend(hold[p])
            /\ next # <<>> => /\ next[1].position \in Nat
                              /\ next[1].position > Start(p)
            /\ OwnRows(p, rows) =
                 {n \in RowsOfStroke(table, hold[p]) : Start(p) <= n /\
                    (next # <<>> => n < next[1].position)}

DecideInv(p) ==
  pc[p] = "deciding" => /\ projection[p] = Chunks(table, hold[p])
                        /\ projection[p] \in Nat
                        /\ NoAppend(hold[p])

\* The events still to append are the next chunks, up to the batch's last.
StoreInv(p) ==
  pc[p] = "storing" =>
    /\ OnlyFrom(p)
    /\ IsSeq(todo[p]) /\ Len(todo[p]) >= 1
    /\ \A k \in 1 .. Len(todo[p]) :
         /\ EventOK(todo[p][k]) /\ todo[p][k].stroke = hold[p]
         /\ todo[p][k].number = todo[p][1].number + k - 1
    /\ action[p][1].last = todo[p][1].number + Len(todo[p]) - 1
    /\ IsSeq(batch[p])
    /\ \A k \in 1 .. Len(batch[p]) :
         /\ EventOK(batch[p][k]) /\ batch[p][k].stroke = hold[p]
         /\ batch[p][k].last = action[p][1].last
    /\ reply[p] # <<>> /\ Succeeded(p) =>
         todo[p][1].number = Chunks(table, hold[p])

PublishInv(p) == pc[p] = "publishing" => AllStored(table, todo[p])

RestInv(p) ==
  pc[p] \in {"idle", "acquiring"} => cursor[p] = <<>> /\ projection[p] = 0

TaskInv(p) ==
  RestInv(p) /\ LoadInv(p) /\ DecideInv(p) /\ StoreInv(p) /\ PublishInv(p)

SubInv ==
  \A c \in Clients : AllStored(table, inbox[c]) /\ AllStored(table, live[c])

IInv ==
  /\ TableOK(table) /\ Shape /\ LeaseInv /\ QueueInv /\ SubInv
  /\ \A p \in Producers : TaskInv(p)

-----------------------------------------------------------------------------
(* A step of task t: the others stay where they are.                       *)

Others(t) ==
  /\ table' = table
  /\ \A q \in Producers : q # t =>
       /\ pc'[q] = pc[q] /\ reply'[q] = reply[q]
       /\ want'[q] = want[q] /\ hold'[q] = hold[q]
       /\ action'[q] = action[q] /\ cursor'[q] = cursor[q]
       /\ projection'[q] = projection[q]
       /\ todo'[q] = todo[q] /\ batch'[q] = batch[q]

\* What a step of t leaves of the queue, for the others.
QueueKept(t) ==
  \A q \in Producers : q # t =>
    /\ NoAppend(hold[q]) => NoAppend(hold[q])'
    /\ OnlyFrom(q) => OnlyFrom(q)'

\* A task with no command in the queue may move while the queue stays as it is.
LEMMA QueueSame ==
  ASSUME QueueInv, NEW t \in Tasks, Others(t), queue' = queue,
         t \in Producers => NoneFrom(t)
  PROVE  QueueInv' /\ QueueKept(t)
<1>1. QueueKept(t)
  BY SMT DEF QueueKept, Others, NoAppend, OnlyFrom, IsAppend, AppendedTo
<1>2. ASSUME NEW i \in 1 .. Len(queue), queue[i].from \in Producers
      PROVE  /\ pc'[queue[i].from] = pc[queue[i].from]
             /\ hold'[queue[i].from] = hold[queue[i].from]
             /\ Awaited(queue[i].from, queue[i].command)
                  => Awaited(queue[i].from, queue[i].command)'
  BY <1>2 DEF Others, Awaited, NoneFrom
<1>3. QueueInv'
  BY <1>2, SMT DEF QueueInv, Others, IsAppend, AppendedTo
<1> QED
  BY <1>1, <1>3

\* A dropped call leaves its command in the queue, owned by nobody.
LEMMA QueueAbandoned ==
  \A t \in Tasks :
    /\ QueueInv
    /\ Others(t)
    /\ queue' = [i \in DOMAIN queue |->
                   IF queue[i].from = t
                   THEN [from |-> NoTask, command |-> queue[i].command]
                   ELSE queue[i]]
    => QueueInv' /\ QueueKept(t) /\ \A s : NoAppend(s) => NoAppend(s)'
\* Commands of a caller that went away stay in the queue, owned by nobody.
<1>CallerGone.
    ASSUME QueueInv, NEW t \in Tasks, Others(t), NEW n \in Nat, Len(queue) = n,
           IsSeq(queue'), Len(queue') = n,
           \A i \in 1 .. n :
             /\ queue'[i].command = queue[i].command
             /\ queue'[i].from = IF queue[i].from = t THEN NoTask ELSE queue[i].from
    PROVE  QueueInv' /\ QueueKept(t) /\ \A s : NoAppend(s) => NoAppend(s)'
  <2> USE <1>CallerGone
  <2>1. NoTask \notin Producers /\ NoTask \notin Clients
    BY RelayAssumption
  <2>2. \A i \in 1 .. n : /\ IsAppend(i)' <=> IsAppend(i)
                          /\ AppendedTo(i)' = AppendedTo(i)
    BY DEF IsAppend, AppendedTo
  <2>4. QueueKept(t)
    <3>1. ASSUME NEW q \in Producers, q # t, NoAppend(hold[q])
          PROVE  NoAppend(hold[q])'
      BY <2>2, <3>1, SMT DEF NoAppend, Others
    <3>2. ASSUME NEW q \in Producers, q # t, OnlyFrom(q) PROVE OnlyFrom(q)'
      BY <2>2, <3>2, SMT DEF OnlyFrom, Others
    <3> QED
      BY <3>1, <3>2 DEF QueueKept
  <2>5. ASSUME NEW i \in 1 .. n, queue'[i].from \in Producers
        PROVE  /\ queue'[i].from = queue[i].from
               /\ pc'[queue[i].from] = pc[queue[i].from]
               /\ hold'[queue[i].from] = hold[queue[i].from]
               /\ Awaited(queue[i].from, queue[i].command)
                    => Awaited(queue[i].from, queue[i].command)'
    BY <2>1, <2>5, SMT DEF Others, Awaited
  <2>7. ASSUME NEW i \in 1 .. n
         PROVE  /\ queue'[i].from \in Producers =>
                     Awaited(queue[i].from, queue[i].command)'
                /\ queue'[i].command.kind \in {"append", "query", "capture"}
                /\ IsAppend(i)' =>
                     /\ EventOK(queue'[i].command.event)
                     /\ queue'[i].command.event.number
                          = Chunks(table', AppendedTo(i)') + 1
                     /\ queue'[i].from \notin Clients
    BY <2>1, <2>2, <2>5, SMT DEF QueueInv, Others
  <2>8. ASSUME NEW i \in 1 .. n, NEW j \in 1 .. n, i < j
         PROVE  /\ queue'[i].from = queue'[j].from => queue'[i].from \notin Producers
                /\ IsAppend(i)' /\ IsAppend(j)' => AppendedTo(i)' # AppendedTo(j)'
                /\ queue'[i].from \in Producers /\ pc'[queue'[i].from] = "loading"
                     /\ IsAppend(j)' => AppendedTo(j)' # hold'[queue'[i].from]
    BY <2>1, <2>2, <2>5, <2>8, SMT DEF QueueInv
  <2>9. QueueInv'
    BY <2>7, <2>8 DEF QueueInv
  <2> QED
    BY <2>2, <2>4, <2>9 DEF NoAppend

<1> SUFFICES ASSUME QueueInv, NEW t \in Tasks, Others(t),
                    queue' = [i \in DOMAIN queue |->
                                IF queue[i].from = t
                                THEN [from |-> NoTask, command |-> queue[i].command]
                                ELSE queue[i]]
             PROVE  QueueInv' /\ QueueKept(t) /\ \A s : NoAppend(s) => NoAppend(s)'
  BY SMT
<1> DEFINE n == Len(queue)
<1>1. IsSeq(queue) /\ n \in Nat /\ DOMAIN queue = 1 .. n
  BY SeqFacts DEF QueueInv
<1>2. IsSeq(queue') /\ Len(queue') = n
  <2> DEFINE f == [i \in 1 .. n |-> IF queue[i].from = t
                     THEN [from |-> NoTask, command |-> queue[i].command]
                     ELSE queue[i]]
  <2> HIDE DEF f, n
  <2> QED
    BY <1>1, MapFacts
<1> QED
  BY <1>CallerGone, <1>1, <1>2

\* Sending a command keeps the invariant of the queue.
LEMMA QueueGrows ==
  \A t \in Tasks : \A command :
    /\ QueueInv
    /\ Others(t)
    /\ queue' = Append(queue, [from |-> t, command |-> command])
    /\ command.kind \in {"append", "query", "capture"}
    /\ t \in Producers => NoneFrom(t) /\ Awaited(t, command)'
    /\ command.kind = "append" =>
         /\ EventOK(command.event) /\ t \notin Clients
         /\ command.event.number = Chunks(table, command.event.stroke) + 1
         /\ NoAppend(command.event.stroke)
         /\ \A q \in Producers : q # t => hold[q] # command.event.stroke
    => /\ QueueInv' /\ QueueKept(t)
       /\ \A s : NoAppend(s) /\ (command.kind = "append" =>
                   command.event.stroke # s) => NoAppend(s)'
       /\ NoAppend(hold'[t]) => OnlyFrom(t)'
\* A command at the end of a queue: the invariant of the queue, item by item.
<1>CommandQueued.
    ASSUME QueueInv, NEW t \in Tasks, Others(t), NEW command,
           NEW n \in Nat, Len(queue) = n, IsSeq(queue'), Len(queue') = n + 1,
           \A i \in 1 .. n : queue'[i] = queue[i],
           queue'[n + 1].from = t, queue'[n + 1].command = command,
           command.kind \in {"append", "query", "capture"},
           t \in Producers => NoneFrom(t) /\ Awaited(t, command)',
           command.kind = "append" =>
             /\ EventOK(command.event) /\ t \notin Clients
             /\ command.event.number = Chunks(table, command.event.stroke) + 1
             /\ NoAppend(command.event.stroke)
             /\ \A q \in Producers : q # t => hold[q] # command.event.stroke
    PROVE  /\ QueueInv' /\ QueueKept(t)
           /\ \A s : NoAppend(s) /\ (command.kind = "append" =>
                       command.event.stroke # s) => NoAppend(s)'
           /\ NoAppend(hold'[t]) => OnlyFrom(t)'
  <2> USE <1>CommandQueued
  <2>1. \A i \in 1 .. n + 1 : i \in 1 .. n \/ i = n + 1
    BY SMT
  <2>2. /\ \A i \in 1 .. n : /\ IsAppend(i)' <=> IsAppend(i)
                             /\ AppendedTo(i)' = AppendedTo(i)
        /\ IsAppend(n + 1)' <=> command.kind = "append"
        /\ AppendedTo(n + 1)' = command.event.stroke
    BY DEF IsAppend, AppendedTo
  <2>4. QueueKept(t)
    <3>1. ASSUME NEW q \in Producers, q # t, NoAppend(hold[q])
          PROVE  NoAppend(hold[q])'
      <4>1. hold'[q] = hold[q]
        BY <3>1 DEF Others
      <4> QED
        BY <2>1, <2>2, <3>1, <4>1 DEF NoAppend
    <3>2. ASSUME NEW q \in Producers, q # t, OnlyFrom(q) PROVE OnlyFrom(q)'
      <4>1. hold'[q] = hold[q]
        BY <3>2 DEF Others
      <4> QED
        BY <2>1, <2>2, <3>2, <4>1, SMT DEF OnlyFrom
    <3> QED
      BY <3>1, <3>2 DEF QueueKept
  <2>5. ASSUME NEW i \in 1 .. n, queue[i].from \in Producers
        PROVE  /\ queue[i].from # t
               /\ pc'[queue[i].from] = pc[queue[i].from]
               /\ hold'[queue[i].from] = hold[queue[i].from]
               /\ Awaited(queue[i].from, queue[i].command)
                    => Awaited(queue[i].from, queue[i].command)'
    BY <2>5, SMT DEF Others, Awaited, NoneFrom
  <2>6. table' = table
    BY DEF Others
  <2>7. ASSUME NEW i \in 1 .. n + 1
        PROVE  /\ queue'[i].from \in Producers =>
                    Awaited(queue[i].from, queue[i].command)'
               /\ queue'[i].command.kind \in {"append", "query", "capture"}
               /\ IsAppend(i)' =>
                    /\ EventOK(queue'[i].command.event)
                    /\ queue'[i].command.event.number
                         = Chunks(table', AppendedTo(i)') + 1
                    /\ queue'[i].from \notin Clients
    <3>1. CASE i \in 1 .. n
      BY <2>2, <2>5, <2>6, <3>1, SMT DEF QueueInv
    <3>2. CASE i = n + 1
      BY <2>2, <2>6, <3>2 DEF Awaited
    <3> QED
      BY <2>1, <3>1, <3>2
  <2>8. ASSUME NEW i \in 1 .. n + 1, NEW j \in 1 .. n + 1, i < j
         PROVE  /\ queue'[i].from = queue'[j].from => queue'[i].from \notin Producers
                /\ IsAppend(i)' /\ IsAppend(j)' => AppendedTo(i)' # AppendedTo(j)'
                /\ queue'[i].from \in Producers /\ pc'[queue'[i].from] = "loading"
                     /\ IsAppend(j)' => AppendedTo(j)' # hold'[queue'[i].from]
    <3>1. i \in 1 .. n
      BY <2>8, SMTT(15)
    <3>2. CASE j \in 1 .. n
      BY <2>2, <2>5, <2>8, <3>1, <3>2, SMTT(15) DEF QueueInv
    <3>3. CASE j = n + 1
      BY <2>2, <2>5, <3>1, <3>3, SMT DEF NoAppend
    <3> QED
      BY <2>1, <3>2, <3>3
  <2>9. QueueInv'
    BY <2>7, <2>8 DEF QueueInv
  <2>10. NoAppend(hold'[t]) => OnlyFrom(t)'
    BY <2>1, <2>2, SMTT(15) DEF NoAppend, OnlyFrom
  <2> QED
    BY <2>1, <2>2, <2>4, <2>9, <2>10 DEF NoAppend

<1> SUFFICES ASSUME QueueInv, NEW t \in Tasks, Others(t), NEW command,
                    queue' = Append(queue, [from |-> t, command |-> command]),
                    command.kind \in {"append", "query", "capture"},
                    t \in Producers => NoneFrom(t) /\ Awaited(t, command)',
                    command.kind = "append" =>
                      /\ EventOK(command.event) /\ t \notin Clients
                      /\ command.event.number = Chunks(table, command.event.stroke) + 1
                      /\ NoAppend(command.event.stroke)
                      /\ \A q \in Producers : q # t => hold[q] # command.event.stroke
             PROVE  /\ QueueInv' /\ QueueKept(t)
                    /\ \A s : NoAppend(s) /\ (command.kind = "append" =>
                                command.event.stroke # s) => NoAppend(s)'
                    /\ NoAppend(hold'[t]) => OnlyFrom(t)'
  BY SMT
<1>1. IsSeq(queue) /\ Len(queue) \in Nat
  BY SeqFacts DEF QueueInv
<1>2. /\ IsSeq(queue') /\ Len(queue') = Len(queue) + 1
      /\ \A i \in 1 .. Len(queue) : queue'[i] = queue[i]
      /\ queue'[Len(queue) + 1] = [from |-> t, command |-> command]
  BY <1>1, AppendFacts, SMT
<1> QED
  BY <1>CommandQueued, <1>1, <1>2, SMT

\* A producer that awaits no answer has no command in the queue.
LEMMA NothingQueued ==
  ASSUME QueueInv, NEW p \in Producers,
         pc[p] \notin {"loading", "storing"} \/ reply[p] # <<>>
  PROVE  NoneFrom(p)
BY DEF QueueInv, NoneFrom, Awaited

\* What a step of one task must show for the invariant to be kept.
LEMMA StepKeeps ==
  \A t \in Tasks :
    /\ IInv
    /\ Others(t)
    /\ Shape'
    /\ QueueInv'
    /\ QueueKept(t)
    /\ SubInv'
    /\ t \in Producers =>
         /\ LeaseOf(t)' /\ TaskInv(t)'
         /\ \A q \in Producers : q # t /\ hold'[t] = hold[q] =>
              hold[q] = NoStroke
    => IInv'
\* A step of one task keeps what the invariant says of another producer.
<1>TaskKept.
    ASSUME NEW t, Others(t), QueueKept(t), NEW q \in Producers, q # t, TaskInv(q)
    PROVE  TaskInv(q)'
  <2> USE <1>TaskKept
  <2>1. LoadInv(q)'
    BY SMTT(15) DEF TaskInv, LoadInv, Others, QueueKept, Start, Succeeded, OwnRows, Stroke
  <2>3. StoreInv(q)'
    BY ZenonT(30) DEF TaskInv, StoreInv, Others, QueueKept, Succeeded
  <2>4. PublishInv(q)'
    BY DEF TaskInv, PublishInv, Others
  <2>5. RestInv(q)'
    BY DEF TaskInv, RestInv, Others
  <2> QED
    BY <2>1, <2>3, <2>4, <2>5 DEF TaskInv, DecideInv, Others, QueueKept

<1> SUFFICES ASSUME IInv, NEW t \in Tasks, Others(t), Shape', QueueInv', QueueKept(t),
                    SubInv',
                    t \in Producers =>
                      /\ LeaseOf(t)' /\ TaskInv(t)'
                      /\ \A q \in Producers : q # t /\ hold'[t] = hold[q] =>
                           hold[q] = NoStroke
             PROVE  IInv'
  BY SMT
<1>1. TableOK(table)'
  BY DEF IInv, Others
<1>2. \A q \in Producers : LeaseOf(q)'
  <2>1. ASSUME NEW q \in Producers, q # t PROVE LeaseOf(q)'
    BY <2>1, SMT DEF IInv, LeaseInv, LeaseOf, Others, Stroke
  <2> QED
    BY <2>1
<1>3. ASSUME NEW p \in Producers, NEW q \in Producers, hold'[p] = hold'[q], p # q
      PROVE  hold'[p] = NoStroke
  <2>1. CASE p # t /\ q # t
    BY <1>3, <2>1, SMT DEF IInv, LeaseInv, Others
  <2>2. CASE p = t
    BY <1>3, <2>2, SMT DEF Others
  <2>3. CASE q = t
    BY <1>3, <2>3 DEF Others
  <2> QED
    BY <2>1, <2>2, <2>3
<1> QED
  BY <1>TaskKept, <1>1, <1>2, <1>3 DEF IInv, LeaseInv

-----------------------------------------------------------------------------
(* The calls.                                                              *)

\* Only t moves.
Moves(t) ==
  /\ DOMAIN pc' = Tasks /\ DOMAIN reply' = Tasks
  /\ \A q \in Tasks : q # t => pc'[q] = pc[q] /\ reply'[q] = reply[q]

\* What Go changes.
LEMMA GoFacts ==
  ASSUME Shape, NEW t \in Tasks, NEW step, Go(t, step)
  PROVE  Moves(t) /\ pc'[t] = step /\ reply'[t] = <<>> /\ queue' = queue
BY DEF Shape, Go, Moves

\* What Await changes: the command is queued, or the store is unavailable.
LEMMA AwaitFacts ==
  ASSUME Shape, NEW t \in Tasks, NEW step, NEW command, Await(t, step, command)
  PROVE  /\ Moves(t) /\ pc'[t] = step
         /\ \/ /\ queue' = Append(queue, [from |-> t, command |-> command])
               /\ reply'[t] = <<>>
            \/ queue' = queue /\ reply'[t] = <<Unavailable>>
BY DEF Shape, Await, Moves

\* What Abandon changes.
LEMMA AbandonFacts ==
  ASSUME Shape, NEW t \in Tasks, Abandon(t)
  PROVE  /\ Moves(t) /\ pc'[t] = "idle" /\ reply'[t] = <<>>
         /\ queue' = [i \in DOMAIN queue |->
                        IF queue[i].from = t
                        THEN [from |-> NoTask, command |-> queue[i].command]
                        ELSE queue[i]]
BY DEF Shape, Abandon, Moves

\* Subscriptions that nothing touches keep their invariant.
LEMMA SubKept ==
  ASSUME SubInv, table' = table, inbox' = inbox, live' = live
  PROVE  SubInv'
BY DEF SubInv

-----------------------------------------------------------------------------
(* Clients.                                                                *)

\* Every step of a client keeps the invariant.
LEMMA ClientKeeps ==
  \A c \in Clients :
    /\ IInv
    /\ ClientStep(c)
    => IInv'
\* A client moves none of the state of the producers.
<1>ClientOthers.
    ASSUME Shape, NEW c \in Clients, Moves(c),
           UNCHANGED <<table, want, hold, action, cursor, projection, todo, batch>>
    PROVE  Others(c) /\ c \in Tasks /\ c \notin Producers
  <2> USE <1>ClientOthers
  <2> QED
    BY RelayAssumption DEF Others, Moves, Tasks

\* A call of a client, or none.
<1>ClientCall.
    ASSUME IInv, NEW c \in Clients, NEW step,
           UNCHANGED <<table, want, hold, action, cursor, projection, todo, batch>>,
           \/ Go(c, step) \/ Abandon(c)
           \/ Await(c, step, [kind |-> "capture"])
           \/ \E upper, from : Await(c, step, QueryOf(upper, from, ScanLimit))
    PROVE  Others(c) /\ Moves(c) /\ QueueInv' /\ QueueKept(c)
  <2> USE <1>ClientCall
  <2>1. Shape /\ QueueInv /\ c \in Tasks
    BY DEF IInv, Tasks
  <2>2. CASE Go(c, step)
    BY <1>ClientOthers, <2>1, <2>2, QueueSame, GoFacts
  <2>3. CASE Abandon(c)
    BY <1>ClientOthers, <2>1, <2>3, AbandonFacts, QueueAbandoned
  <2>4. ASSUME NEW command, Await(c, step, command),
               command.kind \in {"query", "capture"}
        PROVE  Others(c) /\ Moves(c) /\ QueueInv' /\ QueueKept(c)
    <3>1. /\ Moves(c)
          /\ \/ queue' = Append(queue, [from |-> c, command |-> command])
             \/ queue' = queue
      BY <2>1, <2>4, AwaitFacts
    <3>2. Others(c) /\ c \notin Producers
      BY <2>1, <3>1, <1>ClientOthers
    <3>3. CASE queue' = queue
      BY <2>1, <3>1, <3>2, <3>3, QueueSame
    <3>4. CASE queue' = Append(queue, [from |-> c, command |-> command])
      BY <2>1, <2>4, <3>1, <3>2, <3>4, QueueGrows
    <3> QED
      BY <3>1, <3>3, <3>4
  <2> QED
    BY <2>2, <2>3, <2>4 DEF QueryOf

\* What a step of a client must show for the invariant to be kept.
<1>ClientDone.
    ASSUME IInv, NEW c \in Clients, Others(c), Moves(c), QueueInv', QueueKept(c),
           UNCHANGED <<table, want, hold, action, cursor, projection, todo, batch>>,
           DOMAIN inbox' = Clients, DOMAIN live' = Clients, SubInv'
    PROVE  IInv'
  <2> USE <1>ClientDone
  <2> QED
    BY StepKeeps, RelayAssumption DEF Tasks, IInv, Shape, Moves

<1> SUFFICES ASSUME IInv, NEW c \in Clients, ClientStep(c)
             PROVE  IInv'
  BY SMT
<1> DEFINE same == UNCHANGED <<table, want, hold, action, cursor, projection,
                               todo, batch>>
<1>1. Shape /\ SubInv /\ c \in Tasks
  BY DEF IInv, Tasks
<1>2. DOMAIN inbox = Clients /\ DOMAIN live = Clients
  BY <1>1 DEF Shape
<1>3. ASSUME same, UNCHANGED <<inbox, live>>, NEW step,
             \/ Go(c, step)
             \/ Await(c, step, [kind |-> "capture"])
             \/ \E upper, from : Await(c, step, QueryOf(upper, from, ScanLimit))
      PROVE  IInv'
  BY <1>ClientDone, <1>ClientCall, <1>1, <1>2, <1>3, SubKept
<1>4. CASE Subscribe(c)
  BY <1>3, <1>4 DEF Subscribe, leaseState, producerVars
<1>5. CASE First(c)
  BY <1>3, <1>5 DEF First, leaseState, producerVars, clientVars, busVars
<1>6. CASE Captured(c)
  BY <1>3, <1>6 DEF Captured, AskPage, leaseState, producerVars, busVars
<1>7. CASE Paged(c)
  <2>2. \E step : Go(c, step)
    <3> DEFINE s1 == IF reply[c][1].token = <<>> THEN "complete" ELSE "continuing"
    <3> QED
      BY <1>7 DEF Paged
  <2> QED
    BY <1>3, <1>7, <2>2 DEF Paged, leaseState, producerVars, busVars
<1>8. CASE Continue(c)
  <2>1. /\ same /\ UNCHANGED <<inbox, live>>
        /\ Await(c, "paging", QueryOf(bound[c], after[c], ScanLimit))
    BY <1>8 DEF Continue, AskPage, leaseState, producerVars, clientVars, busVars
  <2> QED
    BY <1>3, <2>1
<1>9. CASE Receive(c)
  <2> DEFINE e == Head(inbox[c])
  <2>1. /\ same /\ pc' = pc /\ reply' = reply /\ queue' = queue
        /\ inbox[c] # <<>>
        /\ live' = [live EXCEPT ![c] = Append(live[c], e)]
        /\ inbox' = [inbox EXCEPT ![c] = Tail(inbox[c])]
    BY <1>9 DEF Receive, storeVars, leaseState, producerVars
  <2>2. Moves(c)
    BY <1>1, <2>1 DEF Moves, Shape
  <2>3. Others(c) /\ c \notin Producers
    BY <1>1, <2>1, <2>2, <1>ClientOthers
  <2>4. QueueInv' /\ QueueKept(c)
    BY <1>1, <2>1, <2>3, QueueSame DEF IInv
  <2>8. AllStored(table, Tail(inbox[c])) /\ AllStored(table, Append(live[c], e))
    BY <1>1, <2>1, StoredTail, StoredAppend DEF SubInv
  <2> HIDE DEF e
  <2>9. SubInv'
    BY <1>1, <1>2, <2>1, <2>8 DEF SubInv
  <2> QED
    BY <1>ClientDone, <1>2, <2>1, <2>2, <2>3, <2>4, <2>9
<1>10. CASE Disconnect(c)
  <2>1. /\ same /\ Abandon(c)
        /\ inbox' = [inbox EXCEPT ![c] = <<>>]
        /\ live' = [live EXCEPT ![c] = <<>>]
    BY <1>10 DEF Disconnect, leaseState, producerVars
  <2> QED
    BY <1>ClientDone, <1>ClientCall, <1>1, <1>2, <2>1, NoneStored DEF SubInv
<1> QED
  BY <1>4, <1>5, <1>6, <1>7, <1>8, <1>9, <1>10 DEF ClientStep

-----------------------------------------------------------------------------
(* Producers.                                                              *)

\* What the end of an action changes: the lease and the loaded state go.
LEMMA FinishFacts ==
  ASSUME Shape, NEW p \in Producers, Moves(p), Finish(p)
  PROVE  /\ Others(p) /\ Shape' /\ hold'[p] = NoStroke
         /\ cursor'[p] = <<>> /\ projection'[p] = 0
         /\ table' = table /\ inbox' = inbox /\ live' = live
<1>2. /\ table' = table /\ inbox' = inbox /\ live' = live /\ want' = want
      /\ hold' = [hold EXCEPT ![p] = NoStroke]
      /\ action' = [action EXCEPT ![p] = <<>>]
      /\ cursor' = [cursor EXCEPT ![p] = <<>>]
      /\ projection' = [projection EXCEPT ![p] = 0]
      /\ todo' = [todo EXCEPT ![p] = <<>>]
      /\ batch' = [batch EXCEPT ![p] = <<>>]
  BY DEF Finish, Release, clientVars, busVars
<1> QED
  BY <1>2 DEF Shape, Others, Moves, Tasks

\* The rows of p's stroke in the page it got come behind those it has applied.
PageAdds(p) ==
  LET own == OwnRows(p, reply[p][1].rows)
      total == projection[p] + Cardinality(own)
  IN /\ total \in Nat
     /\ total = Cardinality(RowsBefore(table, hold[p], Start(p)) \cup own)

\* The n chunks of p's stroke from chunk m on.
AreChunks(events, p, m, n) ==
  /\ IsSeq(events) /\ Len(events) = n
  /\ \A k \in 1 .. n :
       /\ EventOK(events[k]) /\ events[k].stroke = Stroke(p)
       /\ events[k].number = m + k - 1 /\ events[k].last = action[p][1].last

\* The events of a decision are the chunks from the next number to the last.
LEMMA EventsFacts ==
  ASSUME NEW p \in Producers, LeaseOf(p), pc[p] # "idle",
         NEW last \in Nat, last = action[p][1].last,
         NEW m \in Nat, m >= 1, NEW n \in Nat, m + n = last + 1,
         NEW events, events = EventsOf(p, m, last)
  PROVE  AreChunks(events, p, m, n)
<1>1. last \in Nat /\ Stroke(p) \in Strokes /\ last - m + 1 = n
  BY SMT DEF LeaseOf
<1>2. events = [k \in 1 .. n |-> EventOf(p, m + k - 1)]
  BY <1>1 DEF EventsOf
<1>4. ASSUME NEW k \in 1 .. n, NEW j \in Nat, m + k = j + 1
      PROVE  /\ EventOK(events[k]) /\ events[k].stroke = Stroke(p)
             /\ events[k].number = j /\ events[k].last = last
  <2>1. events[k] = EventOf(p, j)
    BY <1>2, <1>4, SMTT(15)
  <2>2. PICK e : e = events[k]
    OBVIOUS
  <2>3. /\ e.topic = CanvasOf[Stroke(p)] /\ e.stroke = Stroke(p)
        /\ e.number = j /\ e.last = last
    BY <2>1, <2>2, SMT DEF EventOf
  <2>5. j \in Nat \ {0}
    BY <1>1, <1>4, SMT
  <2> QED
    BY <1>1, <2>2, <2>3, <2>5, RelayAssumption DEF EventOK
<1> QED
  <2>1. ASSUME NEW k \in 1 .. n
        PROVE  /\ EventOK(events[k]) /\ events[k].stroke = Stroke(p)
               /\ events[k].number = m + k - 1
               /\ events[k].last = action[p][1].last
    <3>1. PICK j \in Nat : m + k = j + 1
      BY <2>1, SMT
    <3>3. j = m + k - 1
      BY <3>1, SMT
    <3> QED
      BY <1>4, <3>1, <3>3
  <2> QED
    BY <1>1, <1>2, <2>1, MapFacts DEF AreChunks

\* Every step of a producer keeps the invariant, when the page it loaded is whole.
LEMMA ProducerKeeps ==
  \A p \in Producers :
    /\ IInv
    /\ \/ \E s \in Strokes : \E first, last \in 1 .. MaxChunks : Act(p, s, first, last)
       \/ Granted(p) \/ ProducerStep(p) \/ CancelAction(p)
    /\ Loaded(p) /\ Succeeded(p) => PageAdds(p)
    => IInv'
\* The end of an action, whatever it was at.
<1>FinishKeeps.
    ASSUME IInv, NEW p \in Producers, Finish(p),
           \/ /\ Go(p, "idle")
              /\ pc[p] \notin {"loading", "storing"} \/ reply[p] # <<>>
           \/ Abandon(p)
    PROVE  IInv'
  <2> USE <1>FinishKeeps
  <2>1. Shape /\ QueueInv /\ SubInv /\ p \in Tasks
    BY DEF IInv, Tasks
  <2>2. Moves(p) /\ pc'[p] = "idle"
    BY <2>1, GoFacts, AbandonFacts
  <2>3. /\ Others(p) /\ Shape' /\ hold'[p] = NoStroke
        /\ cursor'[p] = <<>> /\ projection'[p] = 0
        /\ table' = table /\ inbox' = inbox /\ live' = live
    BY <2>1, <2>2, FinishFacts
  <2>4. QueueInv' /\ QueueKept(p)
    <3>1. CASE Abandon(p)
      BY <2>1, <2>3, <3>1, AbandonFacts, QueueAbandoned
    <3>2. CASE /\ Go(p, "idle")
               /\ pc[p] \notin {"loading", "storing"} \/ reply[p] # <<>>
      BY <2>1, <2>3, <3>2, GoFacts, QueueSame, NothingQueued
    <3> QED
      BY <3>1, <3>2
  <2>6. LeaseOf(p)'
    BY <2>2, <2>3 DEF LeaseOf
  <2>7. TaskInv(p)'
    BY <2>2, <2>3 DEF TaskInv, RestInv, LoadInv, DecideInv, StoreInv, PublishInv
  <2> QED
    BY <2>1, <2>3, <2>4, <2>6, <2>7, StepKeeps, SubKept

\* Starting an action keeps the invariant.
<1>ActKeeps.
    ASSUME IInv, NEW p \in Producers, NEW s \in Strokes, NEW first \in Nat,
           NEW last \in Nat, Act(p, s, first, last)
    PROVE  IInv'
  <2> USE <1>ActKeeps
  <2>1. Shape /\ QueueInv /\ SubInv /\ p \in Tasks /\ Producers \subseteq Tasks
    BY DEF IInv, Tasks
  <2>2. /\ pc[p] = "idle" /\ want' = [want EXCEPT ![p] = s] /\ hold' = hold
        /\ action' = [action EXCEPT ![p] =
                        <<[stroke |-> s, first |-> first, last |-> last]>>]
        /\ pc' = [pc EXCEPT ![p] = "acquiring"]
        /\ UNCHANGED <<table, queue, reply, cursor, projection, todo, batch,
                       inbox, live>>
    BY DEF Act, Request, storeVars, clientVars, busVars
  <2>3. Moves(p) /\ pc'[p] = "acquiring" /\ Shape'
    BY <2>1, <2>2 DEF Shape, Moves
  <2>4. Others(p)
    BY <2>1, <2>2 DEF Shape, Others
  <2>5. QueueInv' /\ QueueKept(p)
    BY <2>1, <2>2, <2>4, NothingQueued, QueueSame
  <2>6. SubInv'
    BY <2>1, <2>2, SubKept
  <2>7. hold[p] = NoStroke
    BY <2>2 DEF IInv, LeaseInv, LeaseOf
  <2>8. LeaseOf(p)'
    BY <2>1, <2>2, <2>3, <2>7, SMT DEF LeaseOf, Stroke, Shape
  <2>9. TaskInv(p)'
    <3>1. cursor'[p] = <<>> /\ projection'[p] = 0
      BY <2>2 DEF IInv, TaskInv, RestInv
    <3> QED
      BY <2>3, <3>1 DEF TaskInv, RestInv, LoadInv, DecideInv, StoreInv, PublishInv
  <2> QED
    BY <2>1, <2>2, <2>3, <2>4, <2>5, <2>6, <2>7, <2>8, <2>9, StepKeeps

\* A command of a producer that has none in the queue, accepted or not.
<1>ProducerCall.
    ASSUME IInv, NEW p \in Producers, Others(p), NoneFrom(p), NEW command,
           \/ queue' = Append(queue, [from |-> p, command |-> command])
           \/ queue' = queue,
           command.kind \in {"append", "query"}, Awaited(p, command)' \/ queue' = queue,
           command.kind = "append" =>
             /\ EventOK(command.event)
             /\ command.event.number = Chunks(table, command.event.stroke) + 1
             /\ NoAppend(command.event.stroke)
             /\ \A q \in Producers : q # p => hold[q] # command.event.stroke
    PROVE  /\ QueueInv' /\ QueueKept(p)
           /\ \A s : NoAppend(s) /\ (command.kind = "append" =>
                       command.event.stroke # s) => NoAppend(s)'
           /\ NoAppend(hold'[p]) => OnlyFrom(p)'
  <2> USE <1>ProducerCall
  <2>1. QueueInv /\ p \in Tasks /\ p \notin Clients
    BY RelayAssumption DEF IInv, Tasks
  <2>2. CASE queue' = queue
    <3>1. QueueInv' /\ QueueKept(p)
      BY <2>1, <2>2, QueueSame
    <3> QED
      BY <2>2, <3>1 DEF NoAppend, IsAppend, AppendedTo, OnlyFrom
  <2>3. CASE queue' # queue
    BY <2>1, <2>3, QueueGrows
  <2> QED
    BY <2>2, <2>3

\* Getting the lease keeps the invariant.
<1>GrantedKeeps.
    ASSUME IInv, NEW p \in Producers, Granted(p)
    PROVE  IInv'
  <2> USE <1>GrantedKeeps
  <2> DEFINE command == QueryOf(<<>>, <<>>, LoadLimit)
  <2>1. Shape /\ QueueInv /\ SubInv /\ p \in Tasks /\ Producers \subseteq Tasks
    BY DEF IInv, Tasks
  <2>2. /\ pc[p] = "acquiring" /\ \A q \in Producers : hold[q] # want[p]
        /\ hold' = [hold EXCEPT ![p] = want[p]]
        /\ want' = [want EXCEPT ![p] = NoStroke]
        /\ Await(p, "loading", command)
        /\ UNCHANGED <<table, action, cursor, projection, todo, batch, inbox, live>>
    BY DEF Granted, Grant, FreeScope, producerVars, clientVars, busVars
  <2> HIDE DEF command
  <2>3. /\ Moves(p) /\ pc'[p] = "loading"
        /\ \/ /\ queue' = Append(queue, [from |-> p, command |-> command])
              /\ reply'[p] = <<>>
           \/ queue' = queue /\ reply'[p] = <<Unavailable>>
    BY <2>1, <2>2, AwaitFacts
  <2>4. Shape' /\ Others(p) /\ hold'[p] = want[p]
    BY <2>1, <2>2, <2>3 DEF Shape, Others, Moves
  <2>5. cursor[p] = <<>> /\ projection[p] = 0 /\ want[p] = Stroke(p)
    BY <2>2 DEF IInv, TaskInv, RestInv, LeaseInv, LeaseOf
  <2>6. command.kind = "query" /\ (reply'[p] = <<>> => Awaited(p, command)')
    BY <2>2, <2>3, <2>5 DEF Awaited, QueryOf, command
  <2>7. QueueInv' /\ QueueKept(p)
    <3>1. NoneFrom(p)
      BY <2>1, <2>2, NothingQueued
    <3>2. command.kind \in {"append", "query"} /\ command.kind # "append"
      BY <2>6
    <3> QED
      BY <2>3, <2>4, <2>6, <3>1, <3>2, <1>ProducerCall
  <2>8. SubInv'
    BY <2>1, <2>2, SubKept
  <2>9. LeaseOf(p)'
    BY <2>2, <2>3, <2>4, <2>5 DEF LeaseOf, Stroke, IInv, LeaseInv
  <2>10. LoadInv(p)'
    <3>1. cursor'[p] = <<>> /\ Start(p)' = 0
      BY <2>2, <2>5 DEF Start
    <3>2. projection'[p] = 0
      BY <2>2, <2>5
    <3>3. ~(reply'[p] # <<>> /\ Succeeded(p)')
      BY <2>3, SMT DEF Succeeded, Unavailable
    <3> QED
      BY <3>1, <3>2, <3>3, SMT DEF LoadInv
  <2>11. TaskInv(p)'
    BY <2>3, <2>10 DEF TaskInv, RestInv, DecideInv, StoreInv, PublishInv
  <2> QED
    BY <2>1, <2>2, <2>4, <2>7, <2>8, <2>9, <2>11, StepKeeps

\* Applying a page of the load keeps the invariant.
<1>LoadedKeeps.
    ASSUME IInv, NEW p \in Producers, Loaded(p), Succeeded(p) => PageAdds(p)
    PROVE  IInv'
  <2> USE <1>LoadedKeeps
  <2> DEFINE rows == reply[p][1].rows
             next == reply[p][1].token
             s == hold[p]
             own == OwnRows(p, rows)
  <2>1. Shape /\ QueueInv /\ SubInv /\ p \in Tasks /\ Producers \subseteq Tasks
        /\ TableOK(table)
    BY DEF IInv, Tasks
  <2>2. pc[p] = "loading" /\ reply[p] # <<>>
    BY DEF Loaded, Answered
  <2>3. CASE Go(p, "idle") /\ Finish(p)
    BY <2>2, <2>3, <1>FinishKeeps
  <2>4. CASE /\ Succeeded(p)
             /\ projection' = [projection EXCEPT ![p] =
                                 projection[p] + Cardinality(own)]
             /\ cursor' = [cursor EXCEPT ![p] = next]
             /\ \/ next = <<>> /\ Go(p, "deciding")
                \/ /\ next # <<>>
                   /\ Await(p, "loading", QueryOf(<<>>, next, LoadLimit))
             /\ UNCHANGED <<table, want, hold, action, todo, batch, inbox, live>>
    <3>1. /\ Start(p) \in Nat
          /\ NoAppend(s)
          /\ next # <<>> => /\ next[1].position \in Nat
                            /\ next[1].position > Start(p)
          /\ own = {n \in RowsOfStroke(table, s) : Start(p) <= n /\
                      (next # <<>> => n < next[1].position)}
      BY <2>2, <2>4 DEF IInv, TaskInv, LoadInv
    <3>2. /\ hold[p] = Stroke(p) /\ Stroke(p) \in Strokes
          /\ \A q \in Producers : q # p => hold[q] # hold[p]
      BY <2>2, RelayAssumption DEF IInv, LeaseInv, LeaseOf
    <3>3. /\ projection'[p] = Cardinality(RowsBefore(table, s, Start(p)) \cup own)
          /\ projection'[p] \in Nat
      BY <2>1, <2>4 DEF Shape, PageAdds
    <3>4. \A n \in RowsOfStroke(table, s) : n \in Nat
      BY <2>1, SMT DEF TableOK, RowsOfStroke
    <3>5. /\ cursor'[p] = next /\ table' = table /\ hold' = hold
          /\ inbox' = inbox /\ live' = live
      BY <2>1, <2>4 DEF Shape
    <3>6. NoneFrom(p)
      BY <2>1, <2>2, NothingQueued
    <3>7. SubInv'
      BY <2>1, <3>5, SubKept
    <3>8. ASSUME Moves(p) PROVE Others(p) /\ Shape'
      BY <2>1, <2>4, <3>8 DEF Shape, Others, Moves
    <3>9. ASSUME pc'[p] \in {"loading", "deciding"} PROVE LeaseOf(p)'
      BY <2>2, <2>4, <3>9 DEF IInv, LeaseInv, LeaseOf, Stroke
    <3> HIDE DEF rows, own, next
    <3>10. CASE next = <<>> /\ Go(p, "deciding")
      <4>1. Moves(p) /\ pc'[p] = "deciding" /\ queue' = queue
        BY <2>1, <3>10, GoFacts
      <4>2. QueueInv' /\ QueueKept(p)
        BY <2>1, <3>6, <3>8, <4>1, QueueSame
      <4>3. RowsBefore(table, s, Start(p)) \cup own = RowsOfStroke(table, s)
        BY <3>1, <3>4, <3>10, SMT DEF RowsBefore
      <4>4. NoAppend(hold[p])'
        BY <3>1, <3>5, <4>1 DEF NoAppend, IsAppend, AppendedTo
      <4>5. DecideInv(p)'
        BY <3>3, <3>5, <4>3, <4>4 DEF DecideInv, Chunks
      <4>6. TaskInv(p)'
        BY <4>1, <4>5 DEF TaskInv, RestInv, LoadInv, StoreInv, PublishInv
      <4> QED
        BY <2>1, <3>2, <3>5, <3>7, <3>8, <3>9, <4>1, <4>2, <4>6, StepKeeps
    <3>11. CASE next # <<>> /\ Await(p, "loading", QueryOf(<<>>, next, LoadLimit))
      <4>0. PICK command : command = QueryOf(<<>>, next, LoadLimit)
        OBVIOUS
      <4>1. /\ Moves(p) /\ pc'[p] = "loading"
            /\ \/ /\ queue' = Append(queue, [from |-> p, command |-> command])
                  /\ reply'[p] = <<>>
               \/ queue' = queue /\ reply'[p] = <<Unavailable>>
        BY <2>1, <3>11, <4>0, AwaitFacts
      <4>4. /\ QueueInv' /\ QueueKept(p)
            /\ \A x : NoAppend(x) => NoAppend(x)'
        <5>1. command.kind \in {"append", "query"} /\ command.kind # "append"
          BY <4>0 DEF QueryOf
        <5> QED
          BY <1>ProducerCall, <3>5, <3>6, <3>8, <4>0, <4>1, <5>1 DEF Awaited
      <4>5. RowsBefore(table, s, Start(p)) \cup own
              = RowsBefore(table, s, next[1].position)
        BY <3>1, <3>4, <3>11, SMT DEF RowsBefore
      <4>6. Start(p)' = next[1].position
        BY <3>5, <3>11 DEF Start
      <4>7. NoAppend(hold[p])'
        <5>1. PICK x : x = hold[p]
          OBVIOUS
        <5> QED
          BY <3>1, <3>5, <4>4, <5>1 DEF NoAppend
      <4>8. ~(reply'[p] # <<>> /\ Succeeded(p)')
        BY <4>1, SMT DEF Succeeded, Unavailable
      <4>9. LoadInv(p)'
        <5>2. projection'[p] = Cardinality(RowsBefore(table', hold'[p], Start(p)'))
          BY <3>3, <3>5, <4>5, <4>6
        <5> QED
          BY <3>1, <3>5, <3>11, <4>6, <4>7, <4>8, <5>2 DEF LoadInv
      <4>10. TaskInv(p)'
        BY <4>1, <4>9 DEF TaskInv, RestInv, DecideInv, StoreInv, PublishInv
      <4> QED
        BY <2>1, <3>2, <3>5, <3>7, <3>8, <3>9, <4>1, <4>4, <4>10, StepKeeps
    <3> QED
      BY <2>4, <3>10, <3>11
  <2> QED
    BY <2>3, <2>4 DEF Loaded, leaseState, clientVars, busVars

\* Deciding which events to append keeps the invariant.
<1>DecideKeeps.
    ASSUME IInv, NEW p \in Producers, Decide(p)
    PROVE  IInv'
  <2> USE <1>DecideKeeps
  <2> DEFINE a == action[p][1]
  <2>1. Shape /\ QueueInv /\ SubInv /\ p \in Tasks /\ Producers \subseteq Tasks
        /\ TableOK(table)
    BY DEF IInv, Tasks
  <2>2. pc[p] = "deciding"
    BY DEF Decide
  <2>3. CASE Go(p, "idle") /\ Finish(p)
    BY <2>2, <2>3, <1>FinishKeeps
  <2>4. ASSUME NEW events, events = EventsOf(p, projection[p] + 1, a.last),
               ~(a.last <= projection[p]),
               todo' = [todo EXCEPT ![p] = events],
               batch' = [batch EXCEPT ![p] = events],
               Await(p, "storing", AppendOf(events[1])),
               UNCHANGED <<table, want, hold, action, cursor, projection,
                           inbox, live>>
        PROVE  IInv'
    <3>1. /\ LeaseOf(p) /\ hold[p] = Stroke(p) /\ Stroke(p) \in Strokes
          /\ a.last \in Nat
          /\ \A q \in Producers : q # p => hold[q] # hold[p]
      BY <2>2, RelayAssumption DEF IInv, LeaseInv, LeaseOf
    <3>2. /\ projection[p] = Chunks(table, hold[p]) /\ projection[p] \in Nat
          /\ NoAppend(hold[p])
      BY <2>2 DEF IInv, TaskInv, DecideInv
    <3>3. projection[p] \in Nat /\ projection[p] < a.last
      BY <2>4, <3>1, <3>2, SMT
    <3>4. /\ IsSeq(events) /\ Len(events) = a.last - projection[p]
          /\ \A k \in 1 .. a.last - projection[p] :
               /\ EventOK(events[k]) /\ events[k].stroke = Stroke(p)
               /\ events[k].number = projection[p] + k
               /\ events[k].last = a.last
      <4>1. PICK m \in Nat : m = projection[p] + 1 /\ m >= 1
        BY <3>3, SMT
      <4>2. PICK last \in Nat : last = action[p][1].last
        BY <3>1
      <4>3. PICK n \in Nat : n = a.last - projection[p]
        BY <3>3, <4>2, SMTT(15)
      <4>4. /\ events = EventsOf(p, m, last) /\ pc[p] # "idle"
            /\ m >= 1 /\ m + n = last + 1
        BY <2>2, <2>4, <3>3, <4>1, <4>2, <4>3, SMTT(15)
      <4>5. AreChunks(events, p, m, n)
        BY <3>1, <4>2, <4>4, EventsFacts
      <4>6. \A k \in 1 .. n : m + k - 1 = projection[p] + k
        BY <3>3, <4>1, SMTT(15)
      <4> QED
        BY <4>3, <4>5, <4>6 DEF AreChunks
    <3>5. Len(events) \in Nat /\ Len(events) >= 1 /\ 1 \in 1 .. Len(events)
      BY <3>1, <3>3, <3>4, SMT
    <3>6. PICK command : command = AppendOf(events[1])
      OBVIOUS
    <3>7. command.kind = "append" /\ command.event = events[1]
      BY <3>6 DEF AppendOf
    <3>8. /\ Moves(p) /\ pc'[p] = "storing"
          /\ \/ /\ queue' = Append(queue, [from |-> p, command |-> command])
                /\ reply'[p] = <<>>
             \/ queue' = queue /\ reply'[p] = <<Unavailable>>
      BY <2>1, <2>4, <3>6, AwaitFacts
    <3>9. Others(p) /\ Shape'
      BY <2>1, <2>4, <3>8 DEF Shape, Others, Moves
    <3>10. todo'[p] = events /\ batch'[p] = events /\ hold' = hold /\ table' = table
           /\ action' = action
      BY <2>1, <2>4 DEF Shape
    <3>12. /\ EventOK(events[1]) /\ events[1].stroke = hold[p]
           /\ events[1].number = projection[p] + 1
      BY <3>1, <3>4, <3>5
    <3>13. QueueInv' /\ QueueKept(p) /\ OnlyFrom(p)'
      <4>1. NoneFrom(p)
        BY <2>1, <2>2, NothingQueued
      <4>2. /\ EventOK(command.event)
            /\ command.event.number = Chunks(table, command.event.stroke) + 1
            /\ NoAppend(command.event.stroke)
            /\ \A q \in Producers : q # p => hold[q] # command.event.stroke
        BY <3>1, <3>2, <3>7, <3>12
      <4>3. command.kind \in {"append", "query"}
        BY <3>7
      <4>4. Awaited(p, command)' \/ queue' = queue
        BY <3>6, <3>8, <3>10 DEF Awaited
      <4>5. NoAppend(hold'[p])
        BY <3>2, <3>10
      <4> QED
        BY <3>8, <3>9, <4>1, <4>2, <4>3, <4>4, <4>5, <1>ProducerCall
    <3>14. ~(reply'[p] # <<>> /\ Succeeded(p)')
      BY <3>8, SMT DEF Succeeded, Unavailable
    <3>15. StoreInv(p)'
      <4>1. IsSeq(todo'[p]) /\ Len(todo'[p]) >= 1 /\ IsSeq(batch'[p])
        BY <3>4, <3>5, <3>10
      <4>2. \A k \in 1 .. Len(todo'[p]) :
              /\ EventOK(todo'[p][k]) /\ todo'[p][k].stroke = hold'[p]
              /\ todo'[p][k].number = todo'[p][1].number + k - 1
        <5>1. ASSUME NEW k \in 1 .. Len(events)
              PROVE  /\ EventOK(events[k]) /\ events[k].stroke = hold[p]
                     /\ events[k].number = events[1].number + k - 1
          BY <3>1, <3>3, <3>4, <3>12, SMTT(15)
        <5> QED
          BY <3>10, <5>1
      <4>3. action'[p][1].last = todo'[p][1].number + Len(todo'[p]) - 1
        BY <3>1, <3>3, <3>4, <3>10, <3>12, SMTT(15)
      <4>4. \A k \in 1 .. Len(batch'[p]) :
              /\ EventOK(batch'[p][k]) /\ batch'[p][k].stroke = hold'[p]
              /\ batch'[p][k].last = action'[p][1].last
        BY <3>1, <3>4, <3>10
      <4> QED
        BY <3>13, <3>14, <4>1, <4>2, <4>3, <4>4 DEF StoreInv
    <3>16. TaskInv(p)'
      BY <3>8, <3>15 DEF TaskInv, RestInv, LoadInv, DecideInv, PublishInv
    <3>17. LeaseOf(p)'
      BY <2>2, <2>4, <3>1, <3>8 DEF LeaseOf, Stroke
    <3>18. SubInv'
      BY <2>1, <2>4, SubKept
    <3> QED
      BY <2>1, <3>1, <3>9, <3>10, <3>13, <3>16, <3>17, <3>18, StepKeeps
  <2> QED
    BY <2>3, <2>4 DEF Decide, leaseState, clientVars, busVars

\* The answer to one append keeps the invariant.
<1>StoredKeeps.
    ASSUME IInv, NEW p \in Producers, Stored(p)
    PROVE  IInv'
  <2> USE <1>StoredKeeps
  <2> DEFINE s == hold[p]
             n == todo[p][1].number
  <2>1. Shape /\ QueueInv /\ SubInv /\ p \in Tasks /\ Producers \subseteq Tasks
        /\ TableOK(table)
    BY DEF IInv, Tasks
  <2>2. pc[p] = "storing" /\ reply[p] # <<>>
    BY DEF Stored, Answered
  <2>3. CASE Go(p, "idle") /\ Finish(p)
    BY <2>2, <2>3, <1>FinishKeeps
  <2>4. /\ LeaseOf(p) /\ s = Stroke(p) /\ s \in Strokes
        /\ \A q \in Producers : q # p => hold[q] # s
    BY <2>2, RelayAssumption DEF IInv, LeaseInv, LeaseOf
  <2>5. /\ OnlyFrom(p) /\ IsSeq(todo[p]) /\ Len(todo[p]) >= 1
        /\ \A k \in 1 .. Len(todo[p]) :
             /\ EventOK(todo[p][k]) /\ todo[p][k].stroke = s
             /\ todo[p][k].number = n + k - 1
        /\ action[p][1].last = n + Len(todo[p]) - 1
        /\ IsSeq(batch[p])
        /\ \A k \in 1 .. Len(batch[p]) :
             /\ EventOK(batch[p][k]) /\ batch[p][k].stroke = s
             /\ batch[p][k].last = action[p][1].last
        /\ Succeeded(p) => n = Chunks(table, s)
    BY <2>2 DEF IInv, TaskInv, StoreInv
  <2>6. NoneFrom(p) /\ NoAppend(s)
    BY <2>1, <2>2, <2>5, NothingQueued DEF NoneFrom, NoAppend, OnlyFrom
  <2>7. Len(todo[p]) \in Nat /\ n \in Nat
    <3>1. Len(todo[p]) \in Nat
      BY <2>5, SeqFacts
    <3>2. EventOK(todo[p][1])
      BY <2>5, <3>1, SMT
    <3> QED
      BY <3>1, <3>2 DEF EventOK
  <2>8. CASE /\ Succeeded(p) /\ Len(todo[p]) > 1
             /\ todo' = [todo EXCEPT ![p] = Tail(todo[p])]
             /\ Await(p, "storing", AppendOf(todo[p][2]))
             /\ UNCHANGED <<table, want, hold, action, cursor, projection, batch,
                            inbox, live>>
    <3>1. PICK rest : rest = Tail(todo[p])
      OBVIOUS
    <3>2. /\ IsSeq(rest) /\ Len(rest) = Len(todo[p]) - 1
          /\ \A i \in 1 .. Len(todo[p]) - 1 : rest[i] = todo[p][i + 1]
      <4>1. todo[p] # <<>>
        BY <2>5, <2>7, SeqFacts, SMT
      <4> QED
        BY <2>5, <3>1, <4>1, TailFacts
    <3>3. /\ todo'[p] = rest /\ hold' = hold /\ table' = table /\ action' = action
          /\ batch' = batch
      BY <2>1, <2>8, <3>1 DEF Shape
    <3>4. \A k \in 1 .. Len(rest) :
            EventOK(rest[k]) /\ rest[k].stroke = s /\ rest[k].number = n + k
      <4>1. ASSUME NEW k \in 1 .. Len(rest)
            PROVE  rest[k] = todo[p][k + 1] /\ k + 1 \in 1 .. Len(todo[p])
        BY <2>7, <3>2, SMT
      <4>2. ASSUME NEW k \in 1 .. Len(rest) PROVE n + (k + 1) - 1 = n + k
        BY <2>7, SMT
      <4> QED
        BY <2>5, <4>1, <4>2
    <3>5. /\ Len(rest) >= 1 /\ 1 \in 1 .. Len(rest) /\ rest[1] = todo[p][2]
          /\ Len(rest) \in Nat
      BY <2>7, <2>8, <3>2, SMT
    <3>6. EventOK(rest[1]) /\ rest[1].stroke = s /\ rest[1].number = n + 1
      BY <3>4, <3>5
    <3>7. PICK command : command = AppendOf(rest[1])
      OBVIOUS
    <3>8. command.kind = "append" /\ command.event = rest[1]
      BY <3>7 DEF AppendOf
    <3>9. /\ Moves(p) /\ pc'[p] = "storing"
          /\ \/ /\ queue' = Append(queue, [from |-> p, command |-> command])
                /\ reply'[p] = <<>>
             \/ queue' = queue /\ reply'[p] = <<Unavailable>>
      BY <2>1, <2>8, <3>5, <3>7, AwaitFacts, SMT
    <3>10. Others(p) /\ Shape'
      BY <2>1, <2>8, <3>9 DEF Shape, Others, Moves
    <3>11. QueueInv' /\ QueueKept(p) /\ OnlyFrom(p)'
      <4>1. Awaited(p, command)' \/ queue' = queue
        BY <3>3, <3>7, <3>9 DEF Awaited
      <4>2. /\ EventOK(command.event)
            /\ command.event.number = Chunks(table, command.event.stroke) + 1
            /\ NoAppend(command.event.stroke)
            /\ \A q \in Producers : q # p => hold[q] # command.event.stroke
        BY <2>4, <2>5, <2>6, <2>8, <3>6, <3>8
      <4>3. command.kind \in {"append", "query"}
        BY <3>8
      <4>4. NoAppend(hold'[p])
        BY <2>6, <3>3
      <4> QED
        BY <2>6, <3>9, <3>10, <4>1, <4>2, <4>3, <4>4, <1>ProducerCall
    <3>12. ~(reply'[p] # <<>> /\ Succeeded(p)')
      BY <3>9, SMT DEF Succeeded, Unavailable
    <3>13. StoreInv(p)'
      <4>1. \A k \in 1 .. Len(todo'[p]) :
              /\ EventOK(todo'[p][k]) /\ todo'[p][k].stroke = hold'[p]
              /\ todo'[p][k].number = todo'[p][1].number + k - 1
        <5>1. ASSUME NEW k \in 1 .. Len(rest)
              PROVE  rest[k].number = rest[1].number + k - 1
          <6> HIDE DEF n
          <6> QED
            BY <2>7, <3>4, <3>6, SMT
        <5> QED
          BY <3>3, <3>4, <5>1
      <4>2. action'[p][1].last = todo'[p][1].number + Len(todo'[p]) - 1
        <5> HIDE DEF n
        <5>3. \A i, j \in Nat : i + j - 1 = (i + 1) + (j - 1) - 1
          BY SMT
        <5> QED
          BY <2>5, <2>7, <3>2, <3>3, <3>6, <5>3
      <4>3. IsSeq(todo'[p]) /\ Len(todo'[p]) >= 1 /\ IsSeq(batch'[p])
        BY <2>5, <3>2, <3>3, <3>5
      <4> QED
        BY <2>5, <3>3, <3>11, <3>12, <4>1, <4>2, <4>3 DEF StoreInv
    <3>14. TaskInv(p)'
      BY <3>9, <3>13 DEF TaskInv, RestInv, LoadInv, DecideInv, PublishInv
    <3>15. LeaseOf(p)'
      BY <2>2, <2>4, <2>8, <3>9 DEF LeaseOf, Stroke
    <3>16. SubInv'
      BY <2>1, <2>8, SubKept
    <3> QED
      BY <2>1, <2>4, <3>3, <3>10, <3>11, <3>14, <3>15, <3>16, StepKeeps
  <2>9. CASE /\ Succeeded(p) /\ ~(Len(todo[p]) > 1)
             /\ todo' = [todo EXCEPT ![p] = batch[p]] /\ Go(p, "publishing")
             /\ UNCHANGED <<table, want, hold, action, cursor, projection, batch,
                            inbox, live>>
    <3>2. \A k \in 1 .. Len(batch[p]) : BatchIn(table, batch[p][k])
      <4>1. ASSUME NEW e, EventOK(e), e.stroke = s, e.last = Chunks(table, s)
            PROVE  BatchIn(table, e)
        <5>1. e.number \in Nat /\ e.number >= 1
          BY <4>1, SMT DEF EventOK
        <5>2. Chunks(table, s) \in Nat
          BY <4>1 DEF EventOK
        <5>3. \A k \in e.number .. e.last : k \in 1 .. Chunks(table, s)
          BY <4>1, <5>1, <5>2, SMT
        <5> QED
          BY <2>1, <2>4, <4>1, <5>3 DEF BatchIn, TableOK
      <4> QED
        BY <2>5, <2>7, <2>9, <4>1, SMT
    <3>3. AllStored(table, batch[p])
      BY <2>5, <3>2 DEF AllStored
    <3>4. Moves(p) /\ pc'[p] = "publishing" /\ queue' = queue
      BY <2>1, <2>9, GoFacts
    <3>5. Others(p) /\ Shape' /\ todo'[p] = batch[p] /\ table' = table
          /\ hold' = hold
      BY <2>1, <2>9, <3>4 DEF Shape, Others, Moves
    <3>6. QueueInv' /\ QueueKept(p)
      BY <2>1, <2>6, <3>4, <3>5, QueueSame
    <3>7. TaskInv(p)'
      BY <3>3, <3>4, <3>5
         DEF TaskInv, RestInv, LoadInv, DecideInv, StoreInv, PublishInv
    <3>8. LeaseOf(p)'
      BY <2>2, <2>4, <2>9, <3>4 DEF LeaseOf, Stroke
    <3>9. SubInv'
      BY <2>1, <2>9, SubKept
    <3> QED
      BY <2>1, <2>4, <3>5, <3>6, <3>7, <3>8, <3>9, StepKeeps
  <2> QED
    BY <2>3, <2>8, <2>9 DEF Stored, leaseState, clientVars, busVars

\* Publishing the batch keeps the invariant.
<1>PublishKeeps.
    ASSUME IInv, NEW p \in Producers, Publish(p)
    PROVE  IInv'
  <2> USE <1>PublishKeeps
  <2> DEFINE e == Head(todo[p])
  <2>1. Shape /\ QueueInv /\ SubInv /\ p \in Tasks /\ Producers \subseteq Tasks
    BY DEF IInv, Tasks
  <2>2. /\ pc[p] = "publishing" /\ todo[p] # <<>>
        /\ inbox' = [c \in Clients |->
             IF sub[c] = "open" /\ Len(inbox[c]) < BusCapacity
             THEN Append(inbox[c], e) ELSE inbox[c]]
        /\ todo' = [todo EXCEPT ![p] = Tail(todo[p])]
        /\ batch' = [batch EXCEPT ![p] = Tail(batch[p])]
        /\ UNCHANGED <<table, queue, want, hold, pc, reply, action, cursor,
                       projection, live>>
    BY DEF Publish, Deliver, storeVars, leaseState
  <2>3. AllStored(table, Tail(todo[p])) /\ BatchIn(table, e)
    BY <2>2, StoredTail DEF IInv, TaskInv, PublishInv
  <2> HIDE DEF e
  <2>4. SubInv'
    <3>1. ASSUME NEW c \in Clients
          PROVE  AllStored(table, inbox'[c]) /\ AllStored(table, live[c])
      <4> QED
        BY <2>1, <2>2, <2>3, StoredAppend DEF SubInv
    <3> QED
      BY <2>2, <3>1 DEF SubInv
  <2>5. Shape' /\ Others(p) /\ todo'[p] = Tail(todo[p])
    BY <2>1, <2>2 DEF Shape, Others
  <2>6. QueueInv' /\ QueueKept(p)
    BY <2>1, <2>2, <2>5, NothingQueued, QueueSame
  <2>7. TaskInv(p)'
    BY <2>2, <2>3, <2>5
       DEF TaskInv, RestInv, LoadInv, DecideInv, StoreInv, PublishInv
  <2>8. /\ LeaseOf(p)'
        /\ \A q \in Producers : q # p /\ hold'[p] = hold[q] => hold[q] = NoStroke
    BY <2>2 DEF IInv, LeaseInv, LeaseOf, Stroke
  <2> QED
    BY <2>1, <2>4, <2>5, <2>6, <2>7, <2>8, StepKeeps

\* Dropping the future of an action keeps the invariant.
<1>CancelKeeps.
    ASSUME IInv, NEW p \in Producers, CancelAction(p)
    PROVE  IInv'
  <2> USE <1>CancelKeeps
  <2>1. Shape /\ QueueInv /\ SubInv /\ p \in Tasks /\ Producers \subseteq Tasks
    BY DEF IInv, Tasks
  <2>2. CASE Abandon(p) /\ Finish(p)
    BY <2>2, <1>FinishKeeps
  <2>3. CASE /\ pc[p] = "acquiring" /\ Abandon(p)
             /\ want' = [want EXCEPT ![p] = NoStroke] /\ hold' = hold
             /\ action' = [action EXCEPT ![p] = <<>>]
             /\ UNCHANGED <<table, cursor, projection, todo, batch, inbox, live>>
    <3>1. Moves(p) /\ pc'[p] = "idle"
      BY <2>1, <2>3, AbandonFacts
    <3>2. Shape' /\ Others(p)
      BY <2>1, <2>3, <3>1 DEF Shape, Others, Moves
    <3>3. QueueInv' /\ QueueKept(p)
      BY <2>1, <2>3, <3>2, AbandonFacts, QueueAbandoned
    <3>4. hold[p] = NoStroke
      BY <2>3 DEF IInv, LeaseInv, LeaseOf
    <3>5. LeaseOf(p)'
      BY <2>3, <3>1, <3>4 DEF LeaseOf
    <3>6. TaskInv(p)'
      <4>1. cursor'[p] = <<>> /\ projection'[p] = 0
        BY <2>3 DEF IInv, TaskInv, RestInv
      <4> QED
        BY <3>1, <4>1
           DEF TaskInv, RestInv, LoadInv, DecideInv, StoreInv, PublishInv
    <3>7. SubInv'
      BY <2>1, <2>3, SubKept
    <3> QED
      BY <2>1, <2>3, <3>2, <3>3, <3>4, <3>5, <3>6, <3>7, StepKeeps
  <2> QED
    BY <2>2, <2>3 DEF CancelAction, Withdraw, clientVars, busVars

<1> SUFFICES ASSUME IInv, NEW p \in Producers,
                    \/ \E s \in Strokes : \E first, last \in 1 .. MaxChunks : Act(p, s, first, last)
                    \/ Granted(p) \/ ProducerStep(p) \/ CancelAction(p),
                    Loaded(p) /\ Succeeded(p) => PageAdds(p)
             PROVE  IInv'
  BY SMT
<1>1. CASE \E s \in Strokes : \E first, last \in 1 .. MaxChunks : Act(p, s, first, last)
  <2>1. PICK s \in Strokes, first \in 1 .. MaxChunks, last \in 1 .. MaxChunks :
          Act(p, s, first, last)
    BY <1>1
  <2> QED
    BY <1>ActKeeps, <2>1, SMT
<1>2. CASE Dispatched(p)
  BY <1>2, <1>FinishKeeps DEF Dispatched
<1>3. CASE Loaded(p)
  BY <1>3, <1>LoadedKeeps
<1> QED
  BY <1>1, <1>2, <1>3, <1>GrantedKeeps, <1>DecideKeeps, <1>StoredKeeps, <1>PublishKeeps,
     <1>CancelKeeps DEF ProducerStep

-----------------------------------------------------------------------------
(* What the worker's step leaves to the tasks.                             *)

\* What an answered command leaves: rows stay, only the stroke of an append
\* gets one more, and that is the chunk it brought.
Leaves(command, answer) ==
  /\ TableOK(table')
  /\ \A m \in DOMAIN table : m \in DOMAIN table' /\ table'[m] = table[m]
  /\ \A s : (command.kind = "append" => command.event.stroke # s) =>
       RowsOfStroke(table', s) = RowsOfStroke(table, s)
  /\ command.kind = "append" /\ answer.tag = "ok" =>
       /\ Chunks(table', command.event.stroke) = command.event.number
       /\ \E m \in DOMAIN table' : table'[m] = command.event
  /\ command.kind = "append" =>
       \A m \in DOMAIN table' : m \in DOMAIN table \/ table'[m] = command.event
  /\ command.kind # "append" => table' = table
  /\ command.kind = "query" /\ answer.tag = "ok" =>
       answer = QueryEvents(table, command.query, Epoch)
  /\ command.kind = "capture" /\ answer.tag = "ok" =>
       answer = CaptureCheckpoint(table, Epoch)

\* The oldest command leaves the queue, and its caller has the answer.
HeadAnswered(n, t, command, answer) ==
  /\ Len(queue) = n + 1 /\ IsSeq(queue') /\ Len(queue') = n
  /\ \A i \in 1 .. n : queue'[i] = queue[i + 1]
  /\ queue[1].from = t /\ queue[1].command = command
  /\ \A q \in Producers : q # t => reply'[q] = reply[q]
  /\ t \in Producers => reply'[t] = <<answer>>
  /\ \A q \in Clients : q # t => reply'[q] = reply[q]
  /\ t \in Clients => reply'[t] = <<answer>>
  /\ UNCHANGED <<want, hold, pc, action, cursor, projection, todo, batch>>
  /\ UNCHANGED <<sub, inbox, live, bound, after, history, cut>>

-----------------------------------------------------------------------------
(* Sets of natural numbers.                                                *)

\* What the proofs take of finite sets and of the natural numbers; shown at the
\* end of the module.
Counting ==
  /\ Cardinality({}) = 0
  /\ \A n \in Nat : IsFiniteSet(0 .. n - 1)
  /\ \A S : IsFiniteSet(S) =>
       /\ Cardinality(S) \in Nat
       /\ \A T \in SUBSET S : IsFiniteSet(T) /\ Cardinality(T) <= Cardinality(S)
       /\ \A x : x \notin S => Cardinality(S \cup {x}) = Cardinality(S) + 1
       /\ \A T : IsFiniteSet(T) /\ S \cap T = {} =>
            Cardinality(S \cup T) = Cardinality(S) + Cardinality(T)
  /\ \A T \in SUBSET Nat : T # {} => \E x \in T : \A y \in T : x <= y

\* The maximum of a bounded set of positions is one of them, and none is above it.
LEMMA MaxFacts ==
  ASSUME Counting, NEW n \in Nat, NEW T \in SUBSET (0 .. n - 1), T # {}
  PROVE  Max(T) \in T /\ \A y \in T : y <= Max(T)
<1> DEFINE U == {k \in Nat : \A y \in T : y <= k}
<1>1. n \in U
  BY SMT
<1>2. PICK u \in U : \A y \in U : u <= y
  BY <1>1 DEF Counting
<1>3. u \in T
  <2>1. SUFFICES ASSUME u \notin T PROVE FALSE
    OBVIOUS
  <2>2. u # 0
    <3>1. PICK y \in T : y <= u
      BY <1>2
    <3> QED
      BY <2>1, <3>1, SMT
  <2> QED
    BY <1>2, <2>1, <2>2, SMT
<1> QED
  BY <1>3 DEF Max

\* A page that is not all has a greatest row, and all the hits up to it.
LEMMA SmallestFacts ==
  ASSUME Counting, NEW n \in Nat, NEW hits, hits \subseteq 0 .. n - 1,
         NEW limit \in Nat, limit # 0, NEW page, page = Smallest(hits, limit)
  PROVE  /\ page \subseteq hits
         /\ page # hits => /\ Max(page) \in page
                          /\ \A k \in hits : k \in page <=> k <= Max(page)
<1> DEFINE Below(k) == {m \in hits : m < k}
<1>0. \A k \in hits : k \in Int
  BY SMT
<1>1. page = {k \in hits : Cardinality(Below(k)) < limit}
  BY DEF Smallest
<1>2. \A k : IsFiniteSet(Below(k))
  BY DEF Counting
<1>3. ASSUME NEW k \in page, NEW m \in hits, m < k
      PROVE  m \in page
  <2>1. Below(m) \subseteq Below(k)
    <3>2. \A x \in hits : x < m => x < k
      BY <1>0, <1>1, <1>3, SMT
    <3> QED
      BY <3>2
  <2> HIDE DEF Below
  <2> QED
    BY <1>1, <1>2, <2>1, SMT DEF Counting
<1>4. ASSUME page # hits PROVE page # {}
  <2>1. PICK k \in hits : \A m \in hits : k <= m
    BY <1>1, <1>4, SMT DEF Counting
  <2>2. Below(k) = {}
    <3>1. \A m \in hits : ~(m < k)
      BY <1>0, <2>1, SMT
    <3> QED
      BY <3>1
  <2> QED
    BY <1>1, <2>2, SMT DEF Counting
<1>5. ASSUME page # hits
      PROVE  Max(page) \in page /\ \A k \in page : k <= Max(page)
  BY <1>1, <1>4, <1>5, MaxFacts
<1>6. page \subseteq hits
  BY <1>1
<1>7. ASSUME page # hits PROVE \A k \in hits : k \in page <=> k <= Max(page)
  <2>1. Max(page) \in page /\ Max(page) \in Int
    BY <1>0, <1>5, <1>6, <1>7
  <2> QED
    BY <1>0, <1>3, <1>5, <1>7, <2>1, SMT
<1> QED
  BY <1>5, <1>6, <1>7

-----------------------------------------------------------------------------
(* The events table.                                                       *)

\* The journal counts the rows 0 .. n - 1 as n.
LEMMA CountFacts ==
  ASSUME Counting, NEW n \in Nat, NEW tb, DOMAIN tb = 0 .. n - 1
  PROVE  CurrentCount(tb) = n
<1>1. CASE n = 0
  BY <1>1, SMT DEF CurrentCount
<1>2. CASE n # 0
  <2>1. n - 1 \in 0 .. n - 1
    BY <1>2, SMT
  <2>2. Max(0 .. n - 1) \in 0 .. n - 1 /\ n - 1 <= Max(0 .. n - 1)
    BY <2>1, MaxFacts
  <2> QED
    BY <1>2, <2>2, SMT DEF CurrentCount
<1> QED
  BY <1>1, <1>2

\* The parts of a successful answer are the ones it was made of.
LEMMA OkFacts ==
  ASSUME NEW rows, NEW token
  PROVE  Ok(rows, token).rows = rows /\ Ok(rows, token).token = token
BY DEF Ok

\* A page: all rows below top from the cursor on, up to the next cursor.
IsPage(top, tb, start, a) ==
  /\ DOMAIN a.rows = {m \in 0 .. top - 1 : start <= m /\
       (a.token # <<>> => m < a.token[1].position)}
  /\ \A m \in DOMAIN a.rows : a.rows[m] = tb[m]
  /\ a.token # <<>> => /\ a.token[1].position \in Nat
                       /\ a.token[1].position > start /\ a.token[1].position <= top

\* The answer to a query for all canvases is a page: consecutive rows from where
\* it starts.
LEMMA QueryFacts ==
  ASSUME Counting, NEW n \in Nat, NEW tb, DOMAIN tb = 0 .. n - 1,
         \A m \in 0 .. n - 1 : tb[m].topic \in Canvases,
         NEW upper, NEW top \in Nat,
         top = IF upper = <<>> THEN n ELSE upper[1].position,
         NEW from, NEW start \in Nat,
         start = IF from = <<>> THEN 0 ELSE from[1].position,
         NEW limit \in Nat, limit # 0,
         NEW a, a = QueryEvents(tb, QueryOf(upper, from, limit).query, Epoch),
         a.tag = "ok"
  PROVE  IsPage(top, tb, start, a) /\ start <= top /\ top <= n
<1> DEFINE query == QueryOf(upper, from, limit).query
           hits == {m \in 0 .. top - 1 : start <= m}
           page == Smallest(hits, limit)
           token == IF page = hits THEN <<>>
                    ELSE <<[epoch |-> Epoch, position |-> Max(page) + 1]>>
<1>1. /\ query.topics = Canvases /\ query.bound = upper /\ query.after = from
      /\ query.limit = limit
  BY DEF QueryOf
<1>2. CurrentCount(tb) = n
  BY CountFacts
<1>3. ~(top > n) /\ ~(start > top)
  BY <1>1, <1>2 DEF QueryEvents, InvalidCheckpoint, InvalidCursor
<1>4. start <= top /\ top <= n
  BY <1>3, SMT
<1>5. {m \in DOMAIN tb : start <= m /\ m < top /\ tb[m].topic \in Canvases} = hits
  BY <1>3, SMT
<1>6. a = Ok(RowsOf(tb, page), token)
  BY <1>1, <1>2, <1>5 DEF QueryEvents, InvalidCheckpoint, InvalidCursor
<1>7. a.rows = RowsOf(tb, page) /\ a.token = token
  <2> HIDE DEF page, token
  <2> QED
    BY <1>6, OkFacts, SMT
<1>8. hits \subseteq 0 .. top - 1
  OBVIOUS
<1>9. /\ page \subseteq hits
      /\ page # hits => /\ Max(page) \in page
                       /\ \A k \in hits : k \in page <=> k <= Max(page)
  <2>1. page = Smallest(hits, limit)
    OBVIOUS
  <2> HIDE DEF hits, page
  <2> QED
    BY <1>8, <2>1, SmallestFacts
<1> HIDE DEF page
<1>10. DOMAIN a.rows = page /\ \A m \in page : a.rows[m] = tb[m]
  BY <1>7 DEF RowsOf
<1>11. CASE page = hits
  <2>1. a.token = <<>>
    BY <1>7, <1>11
  <2>2. DOMAIN a.rows = {m \in 0 .. top - 1 : start <= m /\
                           (a.token # <<>> => m < a.token[1].position)}
    <3> HIDE DEF token
    <3> QED
      BY <1>10, <1>11, <2>1
  <2> QED
    BY <1>10, <1>4, <2>1, <2>2 DEF IsPage
<1>12. CASE page # hits
  <2>1. a.token # <<>> /\ a.token[1].position = Max(page) + 1
    BY <1>7, <1>12, SMT
  <2>2. Max(page) \in Nat /\ Max(page) >= start /\ Max(page) < top
    <3>1. Max(page) \in hits
      BY <1>9, <1>12
    <3> QED
      BY <3>1, SMT
  <2>3. page = {m \in 0 .. top - 1 : start <= m /\ m < Max(page) + 1}
    <3>2. \A k \in hits : k \in page <=> k < Max(page) + 1
      BY <1>9, <1>12, <2>2, SMT
    <3> QED
      BY <1>9, <3>2
  <2> QED
    <3>1. /\ a.token[1].position \in Nat
          /\ a.token[1].position > start /\ a.token[1].position <= top
      BY <2>1, <2>2, SMT
    <3>2. DOMAIN a.rows = {m \in 0 .. top - 1 : start <= m /\
                             (a.token # <<>> => m < a.token[1].position)}
      <4> HIDE DEF hits, token
      <4> QED
        BY <1>10, <2>1, <2>3
    <3> QED
      BY <1>4, <1>10, <3>1, <3>2 DEF IsPage
<1> QED
  BY <1>11, <1>12

-----------------------------------------------------------------------------
(* What an append does to the table.                                       *)

\* The rows of a stroke, and any part of them, can be counted.
LEMMA RowsAreFinite ==
  ASSUME Counting, NEW tb, TableOK(tb), NEW s, NEW R, R \subseteq RowsOfStroke(tb, s)
  PROVE  IsFiniteSet(R) /\ Cardinality(R) \in Nat
<1>1. PICK n \in Nat : DOMAIN tb = 0 .. n - 1
  BY DEF TableOK
<1> QED
  BY <1>1 DEF Counting, RowsOfStroke

\* No row of a stroke has a number above the count of its rows.
LEMMA NumbersAreChunks ==
  ASSUME Counting, NEW tb, TableOK(tb), NEW s \in Strokes, NEW n \in RowsOfStroke(tb, s)
  PROVE  tb[n].number <= Chunks(tb, s)
<1> DEFINE R == {m \in RowsOfStroke(tb, s) : m <= n}
<1>1. tb[n].number = Cardinality(R)
  BY DEF TableOK
<1>2. R \subseteq RowsOfStroke(tb, s)
  OBVIOUS
<1> HIDE DEF R
<1>4. Cardinality(R) <= Cardinality(RowsOfStroke(tb, s))
  BY <1>2, RowsAreFinite DEF Counting
<1> QED
  BY <1>1, <1>4 DEF Chunks

-----------------------------------------------------------------------------
(* The pages of load_stroke.                                               *)

\* A page that was loaded takes the projection from the rows before it to the rows
\* before its end.
LEMMA PageCounted ==
  \A p \in Producers :
    /\ Counting
    /\ IInv
    /\ Loaded(p)
    /\ Succeeded(p)
    => PageAdds(p)
\* No row is before the first position.
<1>NoRowsBeforeZero.
    ASSUME Counting, NEW tb, TableOK(tb), NEW s
    PROVE  Cardinality(RowsBefore(tb, s, 0)) = 0
  <2> USE <1>NoRowsBeforeZero
  <2> QED
    BY SMT DEF Counting, TableOK, RowsBefore, RowsOfStroke

\* Rows in front of row k, and rows from there on.
<1>SplitRows.
    ASSUME Counting, NEW tb, TableOK(tb), NEW s, NEW k \in Nat, NEW R,
           R \subseteq RowsOfStroke(tb, s), \A n \in R : k <= n
    PROVE  Cardinality(RowsBefore(tb, s, k) \cup R)
             = Cardinality(RowsBefore(tb, s, k)) + Cardinality(R)
  <2> USE <1>SplitRows
  <2> DEFINE B == RowsBefore(tb, s, k)
  <2>3. B \cap R = {}
    BY SMT DEF RowsBefore, RowsOfStroke, TableOK
  <2> HIDE DEF B
  <2> QED
    BY <2>3, RowsAreFinite DEF B, Counting, RowsBefore

<1> SUFFICES ASSUME Counting, IInv, NEW p \in Producers, Loaded(p), Succeeded(p)
             PROVE  PageAdds(p)
  BY SMT
<1> DEFINE own == OwnRows(p, reply[p][1].rows)
           s == hold[p]
<1>1. /\ TableOK(table) /\ LoadInv(p) /\ pc[p] = "loading" /\ reply[p] # <<>>
  BY DEF IInv, TaskInv, Loaded, Answered
<1>2. PICK k \in Nat : k = Start(p)
  BY <1>1 DEF LoadInv
<1>3. own \subseteq RowsOfStroke(table, s) /\ \A n \in own : k <= n
  BY <1>1, <1>2 DEF LoadInv
<1> HIDE DEF own
<1>4. projection[p] = Cardinality(RowsBefore(table, s, k))
  <2>1. CASE cursor[p] = <<>>
    BY <1>NoRowsBeforeZero, <1>1, <1>2, <2>1 DEF LoadInv, Start
  <2>2. CASE cursor[p] # <<>>
    BY <1>1, <1>2, <2>2 DEF LoadInv
  <2> QED
    BY <2>1, <2>2
<1>5. projection[p] + Cardinality(own) = Cardinality(RowsBefore(table, s, k) \cup own)
  BY <1>1, <1>3, <1>4, <1>SplitRows, SMT
<1>6. Cardinality(own) \in Nat /\ projection[p] \in Nat
  BY <1>1, <1>3, <1>4, RowsAreFinite DEF RowsBefore
<1> QED
  BY <1>2, <1>5, <1>6, SMT DEF PageAdds, own

-----------------------------------------------------------------------------
(* The worker.                                                             *)

\* The step of the worker in terms of the command it takes.
LEMMA ExecuteFacts ==
  /\ Counting
  /\ IInv
  /\ Execute
  => \E n \in Nat : \E t, command, answer :
       HeadAnswered(n, t, command, answer) /\ Leaves(command, answer)
\* The next chunk e of a stroke with a new id gets the next row.
<1>AppendGrows.
    ASSUME Counting, NEW tb, TableOK(tb), NEW e, EventOK(e), RowsWithId(tb, e.id) = {},
           e.number = Chunks(tb, e.stroke) + 1
    PROVE  /\ TableOK(AppendEvent(tb, e))
           /\ \A m \in DOMAIN tb : /\ m \in DOMAIN AppendEvent(tb, e)
                                   /\ AppendEvent(tb, e)[m] = tb[m]
           /\ \A s : s # e.stroke =>
                RowsOfStroke(AppendEvent(tb, e), s) = RowsOfStroke(tb, s)
           /\ Chunks(AppendEvent(tb, e), e.stroke) = e.number
           /\ \E m \in DOMAIN AppendEvent(tb, e) : AppendEvent(tb, e)[m] = e
           /\ \A m \in DOMAIN AppendEvent(tb, e) :
                m \in DOMAIN tb \/ AppendEvent(tb, e)[m] = e
  <2> USE <1>AppendGrows
  <2> DEFINE new == AppendEvent(tb, e)
             old(s) == RowsOfStroke(tb, s)
             rows(s) == RowsOfStroke(new, s)
  <2>1. PICK n \in Nat : DOMAIN tb = 0 .. n - 1
    BY DEF TableOK
  <2>3. new = [m \in 0 .. n |-> IF m = n THEN e ELSE tb[m]]
    <3>1. DOMAIN tb \cup {n} = 0 .. n
      BY <2>1, SMT
    <3> QED
      BY <2>1, <3>1, CountFacts DEF AppendEvent
  <2>4. DOMAIN new = 0 .. (n + 1) - 1 /\ new[n] = e
    BY <2>3, SMT
  <2>5. \A m \in 0 .. n - 1 : m \in DOMAIN new /\ new[m] = tb[m] /\ m # n /\ m < n
    BY <2>3, SMT
  <2> HIDE DEF new
  <2>6. \A s : s # e.stroke => rows(s) = old(s)
    BY <2>1, <2>4, <2>5, SMT DEF RowsOfStroke
  <2>7. rows(e.stroke) = old(e.stroke) \cup {n} /\ n \notin old(e.stroke)
    BY <2>1, <2>4, <2>5, SMT DEF RowsOfStroke
  <2>8. IsFiniteSet(old(e.stroke)) /\ Cardinality(old(e.stroke)) \in Nat
    BY RowsAreFinite
  <2>9. Cardinality(rows(e.stroke)) = e.number
    <3> HIDE DEF old, rows
    <3>1. Cardinality(old(e.stroke)) + 1 = e.number
      BY DEF Chunks, old
    <3> QED
      BY <2>7, <2>8, <3>1 DEF Counting
  <2>10. \A m \in DOMAIN new : EventOK(new[m])
    <3>2. ASSUME NEW m \in DOMAIN new PROVE m = n \/ m \in 0 .. n - 1
      BY <2>4, SMT
    <3> QED
      BY <2>1, <2>4, <2>5, <3>2 DEF TableOK
  <2>11. ASSUME NEW s \in Strokes, NEW m \in rows(s)
         PROVE  new[m].number = Cardinality({k \in rows(s) : k <= m})
    <3>1. CASE m = n
      <4>2. {k \in rows(s) : k <= m} = rows(s)
        BY <2>4, <3>1, SMT DEF RowsOfStroke
      <4> QED
        BY <2>4, <2>9, <2>11, <3>1, <4>2 DEF RowsOfStroke
    <3>2. CASE m # n
      <4>1. m \in 0 .. n - 1
        BY <2>4, <2>11, <3>2, SMT DEF RowsOfStroke
      <4>2. m \in old(s)
        BY <2>1, <2>5, <2>11, <4>1 DEF RowsOfStroke
      <4>3. {k \in rows(s) : k <= m} = {k \in old(s) : k <= m}
        <5>1. ~(n <= m)
          BY <4>1, SMT
        <5>3. n \notin old(s)
          BY <2>1, SMT DEF RowsOfStroke
        <5> HIDE DEF rows, old
        <5> QED
          BY <2>6, <2>7, <5>1, <5>3
      <4>4. tb[m].number = Cardinality({k \in old(s) : k <= m})
        BY <4>2 DEF TableOK
      <4> QED
        BY <2>5, <4>1, <4>3, <4>4
    <3> QED
      BY <3>1, <3>2
  <2>12. ASSUME NEW s \in Strokes, NEW k \in 1 .. Cardinality(rows(s))
         PROVE  \E m \in rows(s) : new[m].number = k
    <3>1. CASE k \in 1 .. Cardinality(old(s))
      <4>1. PICK m \in old(s) : tb[m].number = k
        BY <3>1 DEF TableOK, Chunks
      <4> QED
        BY <2>1, <2>5, <2>6, <2>7, <4>1 DEF RowsOfStroke
    <3>2. CASE k \notin 1 .. Cardinality(old(s))
      <4>1. s = e.stroke
        <5> HIDE DEF rows, old
        <5> QED
          BY <2>6, <2>12, <3>2
      <4>2. k = e.number
        <5>1. Cardinality(old(e.stroke)) + 1 = e.number
          BY DEF Chunks
        <5> HIDE DEF rows, old
        <5> QED
          BY <2>8, <2>9, <2>12, <3>2, <4>1, <5>1, SMT
      <4> QED
        BY <2>4, <2>7, <4>1, <4>2
    <3> QED
      BY <3>1, <3>2
  <2>13. TableOK(new)
    <3>1. \E m \in Nat : DOMAIN new = 0 .. m - 1
      BY <2>4, SMT
    <3> QED
      BY <3>1, <2>10, <2>11, <2>12 DEF TableOK, Chunks
  <2>14. /\ \E m \in DOMAIN new : new[m] = e
         /\ \A m \in DOMAIN new : m \in DOMAIN tb \/ new[m] = e
    <3>1. n \in DOMAIN new /\ \A m \in DOMAIN new : m \in DOMAIN tb \/ m = n
      BY <2>1, <2>4, SMT
    <3> QED
      BY <2>4, <3>1
  <2> QED
    BY <2>1, <2>5, <2>6, <2>9, <2>13, <2>14 DEF new, Chunks

\* Otherwise the id is taken, by another event: the append is refused.
<1>AppendOutcome.
    ASSUME Counting, NEW tb, TableOK(tb), NEW e, EventOK(e),
           e.number = Chunks(tb, e.stroke) + 1
    PROVE  /\ TableOK(AppendEvent(tb, e))
           /\ \A m \in DOMAIN tb : /\ m \in DOMAIN AppendEvent(tb, e)
                                   /\ AppendEvent(tb, e)[m] = tb[m]
           /\ \A s : s # e.stroke =>
                RowsOfStroke(AppendEvent(tb, e), s) = RowsOfStroke(tb, s)
           /\ AppendAnswer(tb, e, Epoch).tag = "ok" =>
                /\ Chunks(AppendEvent(tb, e), e.stroke) = e.number
                /\ \E m \in DOMAIN AppendEvent(tb, e) : AppendEvent(tb, e)[m] = e
           /\ \A m \in DOMAIN AppendEvent(tb, e) :
                m \in DOMAIN tb \/ AppendEvent(tb, e)[m] = e
  <2> USE <1>AppendOutcome
  <2>1. CASE RowsWithId(tb, e.id) = {}
    BY <2>1, <1>AppendGrows
  <2>2. CASE RowsWithId(tb, e.id) # {}
    <3> DEFINE same == RowsWithId(tb, e.id)
               row == CHOOSE n \in same : TRUE
    <3>3. tb[row] # e
      <4>1. SUFFICES ASSUME tb[row] = e PROVE FALSE
        OBVIOUS
      <4>2. e.stroke \in Strokes /\ row \in RowsOfStroke(tb, e.stroke)
        BY <2>2, <4>1 DEF RowsOfStroke, EventOK, RowsWithId
      <4>4. Chunks(tb, e.stroke) \in Nat
        BY RowsAreFinite DEF Chunks
      <4> QED
        BY <4>1, <4>2, <4>4, NumbersAreChunks, SMT
    <3>4. AppendAnswer(tb, e, Epoch) = EventConflict
      BY <2>2, <3>3 DEF AppendAnswer
    <3> QED
      BY <2>2, <3>4, SMT DEF EventConflict, AppendEvent
  <2> QED
    BY <2>1, <2>2

\* What one command of the store worker leaves of the table, and what it answers.
<1>ExecuteLeaves.
    ASSUME Counting, IInv, NEW command, NEW answer,
           command.kind \in {"append", "query", "capture"},
           command.kind = "append" =>
             /\ EventOK(command.event)
             /\ command.event.number = Chunks(table, command.event.stroke) + 1,
           \/ /\ answer = AnswerTo(table, command, Epoch)
              /\ table' = EffectOf(table, command)
           \/ answer = BackendFailure /\ table' = table
    PROVE  Leaves(command, answer)
  <2> USE <1>ExecuteLeaves
  <2>1. TableOK(table)
    BY DEF IInv
  <2>2. CASE answer = BackendFailure /\ table' = table
    BY <2>1, <2>2 DEF Leaves, BackendFailure
  <2>3. CASE /\ answer = AnswerTo(table, command, Epoch)
             /\ table' = EffectOf(table, command)
    <3>1. CASE command.kind = "append"
      <4>1. PICK e : e = command.event
        OBVIOUS
      <4> QED
        BY <1>AppendOutcome, <2>1, <2>3, <3>1, <4>1, SMT DEF Leaves, AnswerTo, EffectOf
    <3>2. CASE command.kind # "append"
      BY <2>1, <2>3, <3>2 DEF Leaves, EffectOf, AnswerTo
    <3> QED
      BY <3>1, <3>2
  <2> QED
    BY <2>2, <2>3

<1> SUFFICES ASSUME Counting, IInv, Execute
             PROVE  \E n \in Nat : \E t, command, answer :
                      HeadAnswered(n, t, command, answer) /\ Leaves(command, answer)
  BY SMT
<1>1. QueueInv /\ Shape
  BY DEF IInv
<1>2. PICK q : q = queue
  OBVIOUS
<1>3. IsSeq(q) /\ q # <<>> /\ queue' = Tail(q)
  BY <1>1, <1>2 DEF QueueInv, Execute
<1>4. PICK n \in Nat : Len(q) = n + 1
  BY <1>3, SeqFacts, SMT
<1>5. /\ IsSeq(queue') /\ Len(queue') = n /\ Head(q) = q[1]
      /\ \A i \in 1 .. n : queue'[i] = q[i + 1]
  BY <1>3, <1>4, TailFacts, SMT
<1>6. PICK t : t = queue[1].from
  OBVIOUS
<1>7. PICK command : command = queue[1].command
  OBVIOUS
<1>9. PICK answer :
        /\ reply' = IF t = NoTask THEN reply ELSE [reply EXCEPT ![t] = <<answer>>]
        /\ \/ /\ answer = AnswerTo(table, command, Epoch)
              /\ table' = EffectOf(table, command)
           \/ answer = BackendFailure /\ table' = table
  BY <1>2, <1>5, <1>6, <1>7 DEF Execute
<1>10. UNCHANGED <<want, hold, pc, action, cursor, projection, todo, batch>>
  BY DEF Execute, leaseState, producerVars
<1>11. /\ \A p \in Producers \cup Clients : p # t => reply'[p] = reply[p]
       /\ t \in Producers \cup Clients => reply'[t] = <<answer>>
       /\ UNCHANGED <<sub, inbox, live, bound, after, history, cut>>
  <2>2. UNCHANGED <<sub, inbox, live, bound, after, history, cut>>
    BY DEF Execute, clientVars, busVars, pageVars
  <2> QED
    BY <1>1, <1>9, <2>2, RelayAssumption DEF Shape, Tasks
<1>12. HeadAnswered(n, t, command, answer)
  BY <1>2, <1>4, <1>5, <1>6, <1>7, <1>10, <1>11, ZenonT(30) DEF HeadAnswered
<1>13. Leaves(command, answer)
  <2>1. 1 \in 1 .. Len(queue)
    BY <1>2, <1>4, SMT
  <2>2. /\ command.kind \in {"append", "query", "capture"}
        /\ command.kind = "append" =>
             /\ EventOK(command.event)
             /\ command.event.number = Chunks(table, command.event.stroke) + 1
    BY <1>1, <1>7, <2>1 DEF QueueInv, IsAppend, AppendedTo
  <2> QED
    BY <1>9, <2>2, <1>ExecuteLeaves, SMT
<1> QED
  BY <1>12, <1>13

\* A step of the store worker keeps the invariant.
LEMMA ExecuteKeeps ==
  /\ Counting
  /\ IInv
  /\ Execute
  => IInv'
\* Answering the command at the head keeps the invariant of the queue.
<1>QueueServed.
    ASSUME QueueInv, NEW n \in Nat, NEW t, NEW command, NEW answer,
           HeadAnswered(n, t, command, answer), Leaves(command, answer)
    PROVE  /\ QueueInv'
           /\ \A s : NoAppend(s) => NoAppend(s)'
           /\ \A q \in Producers : OnlyFrom(q) => OnlyFrom(q)'
  <2> USE <1>QueueServed
  <2>1. \A i \in 1 .. n : /\ i + 1 \in 1 .. Len(queue) /\ 1 < i + 1
                          /\ queue'[i] = queue[i + 1]
    BY SMT DEF HeadAnswered
  <2>2. /\ Len(queue') = n /\ IsSeq(queue') /\ 1 \in 1 .. Len(queue) /\ hold' = hold
        /\ pc' = pc
    <3>2. 1 \in 1 .. n + 1
      BY SMT, SMT
    <3> QED
      BY <3>2 DEF HeadAnswered
  <2>3. \A i \in 1 .. n : /\ IsAppend(i)' <=> IsAppend(i + 1)
                          /\ AppendedTo(i)' = AppendedTo(i + 1)
    BY <2>1 DEF IsAppend, AppendedTo
  <2>5. \A q \in Producers : OnlyFrom(q) => OnlyFrom(q)'
    BY <2>1, <2>2, <2>3 DEF OnlyFrom
  <2>6. ASSUME NEW i \in 1 .. n
        PROVE  /\ queue'[i].from \in Producers =>
                    Awaited(queue[i].from, queue[i].command)'
               /\ queue'[i].command.kind \in {"append", "query", "capture"}
               /\ IsAppend(i)' =>
                    /\ EventOK(queue'[i].command.event)
                    /\ queue'[i].command.event.number
                         = Chunks(table', AppendedTo(i)') + 1
                    /\ queue'[i].from \notin Clients
    <3>1. PICK j \in 1 .. Len(queue) : j = i + 1 /\ 1 < j /\ queue'[i] = queue[j]
      BY <2>1
    <3>2. ASSUME queue[j].from \in Producers
          PROVE  Awaited(queue[i].from, queue[i].command)'
      <4>0. PICK c : c = queue[j].command
        OBVIOUS
      <4>1. PICK f \in Producers : f = queue[j].from
        BY <3>2
      <4>3. Awaited(f, c)
        BY <4>0, <4>1 DEF QueueInv
      <4>4. Awaited(f, c)'
        BY <2>2, <3>1, <4>1, <4>3 DEF Awaited, HeadAnswered, QueueInv
      <4> QED
        BY <3>1, <4>0, <4>1, <4>4 DEF Awaited
    <3>3. ASSUME IsAppend(j)
          PROVE  /\ EventOK(queue[j].command.event)
                 /\ queue[j].command.event.number = Chunks(table', AppendedTo(j)) + 1
                 /\ queue[j].from \notin Clients
      <4>2. RowsOfStroke(table', AppendedTo(j)) = RowsOfStroke(table, AppendedTo(j))
        BY <2>2, <3>1, <3>3 DEF Leaves, QueueInv, HeadAnswered, IsAppend, AppendedTo
      <4> QED
        BY <3>3, <4>2 DEF QueueInv, Chunks
    <3> QED
      BY <2>3, <3>1, <3>2, <3>3 DEF IsAppend, AppendedTo, QueueInv
  <2>7. ASSUME NEW i \in 1 .. n, NEW j \in 1 .. n, i < j
        PROVE  /\ queue'[i].from = queue'[j].from => queue'[i].from \notin Producers
               /\ IsAppend(i)' /\ IsAppend(j)' => AppendedTo(i)' # AppendedTo(j)'
               /\ queue'[i].from \in Producers /\ pc'[queue'[i].from] = "loading"
                    /\ IsAppend(j)' => AppendedTo(j)' # hold'[queue'[i].from]
    <3>1. PICK k, l \in 1 .. Len(queue) :
            /\ k < l /\ k = i + 1 /\ l = j + 1
            /\ queue'[i] = queue[k] /\ queue'[j] = queue[l]
      BY <2>1, <2>7, SMT
    <3>2. /\ IsAppend(i)' <=> IsAppend(k) /\ AppendedTo(i)' = AppendedTo(k)
          /\ IsAppend(j)' <=> IsAppend(l) /\ AppendedTo(j)' = AppendedTo(l)
      BY <3>1 DEF IsAppend, AppendedTo
    <3> QED
      BY <2>2, <3>1, <3>2, SMTT(15) DEF QueueInv
  <2>8. QueueInv'
    BY <2>2, <2>6, <2>7 DEF QueueInv
  <2> QED
    BY <2>1, <2>2, <2>3, <2>5, <2>8 DEF NoAppend

\* A task other than the caller: where its invariant counts the rows of its
\* stroke, the command that ran appends none of them.
<1>TaskServed.
    ASSUME IInv, NEW n \in Nat, NEW t, NEW command, NEW answer,
           HeadAnswered(n, t, command, answer), Leaves(command, answer),
           \A s : NoAppend(s) => NoAppend(s)',
           \A p \in Producers : OnlyFrom(p) => OnlyFrom(p)',
           NEW q \in Producers, q # t
    PROVE  TaskInv(q)'
  <2> USE <1>TaskServed
  <2>1. TaskInv(q) /\ TableOK(table) /\ TableOK(table')
    BY DEF IInv, Leaves
  <2>2. /\ pc' = pc /\ hold' = hold /\ cursor' = cursor /\ projection' = projection
        /\ todo' = todo /\ batch' = batch /\ action' = action
        /\ reply'[q] = reply[q]
    BY DEF HeadAnswered
  <2>3. 1 \in 1 .. Len(queue) /\ queue[1].from = t /\ queue[1].command = command
    BY SMT DEF HeadAnswered
  <2>4. ASSUME NoAppend(hold[q])
        PROVE  RowsOfStroke(table', hold[q]) = RowsOfStroke(table, hold[q])
    BY <2>3, <2>4 DEF Leaves, NoAppend, IsAppend, AppendedTo
  <2>5. ASSUME OnlyFrom(q)
        PROVE  RowsOfStroke(table', hold[q]) = RowsOfStroke(table, hold[q])
    BY <2>3, <2>5 DEF Leaves, OnlyFrom, IsAppend, AppendedTo
  <2>6. Start(q)' = Start(q) /\ (Succeeded(q)' <=> Succeeded(q))
    BY <2>2 DEF Start, Succeeded
  <2>7. RestInv(q)'
    BY <2>1, <2>2 DEF TaskInv, RestInv
  <2>8. LoadInv(q)'
    <3> SUFFICES ASSUME pc[q] = "loading" PROVE LoadInv(q)'
      BY <2>2 DEF LoadInv
    <3>1. PICK start \in Nat : start = Start(q)
      BY <2>1 DEF TaskInv, LoadInv
    <3>3. ASSUME cursor[q] # <<>>
          PROVE  /\ projection[q] = Cardinality(RowsBefore(table', hold[q], start))
                 /\ NoAppend(hold[q])'
      BY <2>1, <2>2, <2>4, <3>1, <3>3 DEF RowsBefore, TaskInv, LoadInv
    <3>5. ASSUME reply[q] # <<>>, Succeeded(q)
          PROVE  /\ NoAppend(hold[q])'
                 /\ reply[q][1].token # <<>> =>
                      /\ reply[q][1].token[1].position \in Nat
                      /\ reply[q][1].token[1].position > start
                 /\ OwnRows(q, reply[q][1].rows)' =
                      {m \in RowsOfStroke(table', hold[q]) : start <= m /\
                         (reply[q][1].token # <<>> =>
                            m < reply[q][1].token[1].position)}
      <4>2. OwnRows(q, reply[q][1].rows)' = OwnRows(q, reply[q][1].rows)
        BY <2>2 DEF OwnRows, Stroke
      <4>3. OwnRows(q, reply[q][1].rows) =
              {m \in RowsOfStroke(table, hold[q]) : start <= m /\
                 (reply[q][1].token # <<>> => m < reply[q][1].token[1].position)}
        BY <2>1, <3>1, <3>5 DEF TaskInv, LoadInv
      <4> QED
        BY <2>1, <2>2, <2>4, <3>1, <3>5, <4>2, <4>3 DEF TaskInv, LoadInv
    <3> QED
      BY <2>1, <2>2, <2>6, <3>1, <3>3, <3>5 DEF LoadInv, TaskInv
  <2>9. DecideInv(q)'
    BY <2>1, <2>2, <2>4 DEF TaskInv, DecideInv, Chunks
  <2>10. StoreInv(q)'
    BY <2>1, <2>2, <2>5, <2>6 DEF TaskInv, StoreInv, Chunks
  <2>11. PublishInv(q)'
    <3>2. pc[q] = "publishing" => AllStored(table', todo[q])
      BY <2>1, StoredStay DEF Leaves, TaskInv, PublishInv
    <3> QED
      BY <2>2, <3>2 DEF PublishInv
  <2> QED
    BY <2>7, <2>8, <2>9, <2>10, <2>11 DEF TaskInv

\* The caller: its answer is a page of the table, or its chunk's success.
<1>CallerServed.
    ASSUME Counting, IInv, NEW n \in Nat, NEW t \in Producers, NEW command, NEW answer,
           HeadAnswered(n, t, command, answer), Leaves(command, answer),
           \A p \in Producers : OnlyFrom(p) => OnlyFrom(p)'
    PROVE  TaskInv(t)'
  <2> USE <1>CallerServed
  <2>1. TaskInv(t) /\ TableOK(table) /\ QueueInv /\ LeaseOf(t)
    BY DEF IInv, LeaseInv
  <2>2. /\ pc' = pc /\ hold' = hold /\ cursor' = cursor /\ projection' = projection
        /\ todo' = todo /\ batch' = batch /\ action' = action
        /\ reply'[t] = <<answer>>
    BY DEF HeadAnswered
  <2>3. 1 \in 1 .. Len(queue) /\ queue[1].from = t /\ queue[1].command = command
    BY SMT DEF HeadAnswered
  <2>5. /\ reply'[t] # <<>> /\ reply'[t][1] = answer
        /\ Succeeded(t)' <=> answer.tag = "ok"
        /\ Start(t)' = Start(t)
    BY <2>2, SMT DEF Start, Succeeded
  <2>6. CASE pc[t] = "loading" /\ command = QueryOf(<<>>, cursor[t], LoadLimit)
    <3>1. command.kind = "query" /\ table' = table
      BY <2>6 DEF QueryOf, Leaves
    <3>2. PICK start \in Nat : start = Start(t)
      BY <2>1, <2>6 DEF TaskInv, LoadInv
    <3>3. NoAppend(hold[t])'
      <4>2. \A i \in 1 .. Len(queue) : 1 < i /\ IsAppend(i) => AppendedTo(i) # hold[t]
        BY <2>1, <2>3, <2>6 DEF QueueInv
      <4>3. Len(queue') = n
        BY DEF HeadAnswered
      <4> QED
        BY <2>2, <4>2, <4>3, SMT DEF NoAppend, IsAppend, AppendedTo, HeadAnswered
    <3>4. ASSUME answer.tag = "ok"
          PROVE  /\ answer.token # <<>> => /\ answer.token[1].position \in Nat
                                           /\ answer.token[1].position > start
                 /\ OwnRows(t, answer.rows)' =
                      {m \in RowsOfStroke(table, hold[t]) : start <= m /\
                         (answer.token # <<>> => m < answer.token[1].position)}
      <4>1. PICK k \in Nat : DOMAIN table = 0 .. k - 1
        BY <2>1 DEF TableOK
      <4>2. \A m \in 0 .. k - 1 : table[m].topic \in Canvases
        BY <2>1, <4>1 DEF TableOK, EventOK
      <4>4. answer = QueryEvents(table, QueryOf(<<>>, cursor[t], LoadLimit).query,
                                 Epoch)
        BY <2>6, <3>1, <3>4 DEF Leaves
      <4>5. IsPage(k, table, start, answer)
        <5>1. LoadLimit \in Nat /\ LoadLimit # 0
          BY RelayAssumption
        <5> QED
          BY <3>2, <3>4, <4>1, <4>2, <4>4, <5>1, QueryFacts DEF Start
      <4>7. OwnRows(t, answer.rows)' = {m \in DOMAIN answer.rows :
                                          answer.rows[m].stroke = hold[t]}
        BY <2>1, <2>2, <2>6 DEF OwnRows, Stroke, LeaseOf
      <4> QED
        <5>2. answer.token # <<>> => /\ answer.token[1].position \in Nat
                                     /\ answer.token[1].position > start
          BY <4>5 DEF IsPage
        <5> QED
          BY <4>1, <4>5, <4>7, <5>2 DEF RowsOfStroke, IsPage
    <3>5. LoadInv(t)'
      <4>1. /\ cursor[t] = <<>> => projection[t] = 0
            /\ cursor[t] # <<>> =>
                 projection[t] = Cardinality(RowsBefore(table, hold[t], start))
        BY <2>1, <2>6, <3>2 DEF TaskInv, LoadInv
      <4> QED
        BY <2>2, <2>5, <3>1, <3>2, <3>3, <3>4, <4>1 DEF LoadInv
    <3> QED
      BY <2>2, <2>6, <3>5 DEF TaskInv, RestInv, DecideInv, StoreInv, PublishInv
  <2>7. CASE pc[t] = "storing" /\ command = AppendOf(todo[t][1])
    <3>1. StoreInv(t)
      BY <2>1, Zenon DEF TaskInv
    <3>2. todo[t][1].stroke = hold[t] /\ Len(todo[t]) >= 1
      <4>1. /\ IsSeq(todo[t]) /\ Len(todo[t]) >= 1
            /\ \A k \in 1 .. Len(todo[t]) : todo[t][k].stroke = hold[t]
        BY <2>7, <3>1, Zenon DEF StoreInv
      <4>2. 1 \in 1 .. Len(todo[t])
        BY <4>1, SeqFacts, SMT
      <4> QED
        BY <4>1, <4>2, Zenon
    <3>3. answer.tag = "ok" => todo[t][1].number = Chunks(table', hold[t])
      BY <2>7, <3>2 DEF Leaves, AppendOf
    <3>4. StoreInv(t)'
      BY <2>1, <2>2, <2>5, <2>7, <3>3 DEF TaskInv, StoreInv
    <3> QED
      BY <2>2, <2>7, <3>4 DEF TaskInv, RestInv, DecideInv, LoadInv, PublishInv
  <2> QED
    BY <2>1, <2>3, <2>6, <2>7 DEF Awaited, QueueInv

<1> SUFFICES ASSUME Counting, IInv, Execute
             PROVE  IInv'
  BY SMT
<1>1. PICK n \in Nat : \E t, command, answer :
        HeadAnswered(n, t, command, answer) /\ Leaves(command, answer)
  BY ExecuteFacts
<1>2. PICK t, command, answer :
        HeadAnswered(n, t, command, answer) /\ Leaves(command, answer)
  BY <1>1
<1>3. /\ QueueInv'
      /\ \A s : NoAppend(s) => NoAppend(s)'
      /\ \A q \in Producers : OnlyFrom(q) => OnlyFrom(q)'
  BY <1>2, <1>QueueServed DEF IInv
<1>4. ASSUME NEW q \in Producers PROVE TaskInv(q)'
  <2>1. CASE q = t
    BY <1>2, <1>3, <2>1, <1>CallerServed
  <2>2. CASE q # t
    BY <1>2, <1>3, <2>2, <1>TaskServed
  <2> QED
    BY <2>1, <2>2
<1>5. SubInv'
  <2>1. inbox' = inbox /\ live' = live
    BY DEF Execute, clientVars, busVars
  <2>2. \A m \in DOMAIN table : m \in DOMAIN table' /\ table'[m] = table[m]
    BY <1>2 DEF Leaves
  <2>3. ASSUME NEW c \in Clients
        PROVE  AllStored(table, inbox[c]) /\ AllStored(table, live[c])
    BY DEF IInv, SubInv
  <2> QED
    BY <2>1, <2>2, <2>3, StoredStay DEF SubInv
<1>6. UNCHANGED <<want, hold, pc, action, cursor, projection, todo, batch>>
  BY <1>2 DEF HeadAnswered
<1>7. LeaseInv'
  BY <1>6 DEF IInv, LeaseInv, LeaseOf, Stroke
<1>8. Shape'
  BY <1>6 DEF IInv, Shape, Execute, clientVars, busVars
<1> QED
  BY <1>2, <1>3, <1>4, <1>5, <1>7, <1>8 DEF IInv, Leaves

-----------------------------------------------------------------------------
(* The invariant, and what follows.                                        *)

\* The relay starts in the invariant.
LEMMA InitIInv ==
  ASSUME Counting, Init
  PROVE  IInv
<1>1. /\ DOMAIN table = {} /\ queue = <<>>
      /\ \A p \in Producers : /\ pc[p] = "idle" /\ hold[p] = NoStroke
                              /\ cursor[p] = <<>> /\ projection[p] = 0
  BY DEF Init, NoRows, LeaseInit, Tasks
<1>2. TableOK(table)
  <2>1. DOMAIN table = 0 .. 0 - 1
    BY <1>1, SMT
  <2>2. \A s : RowsOfStroke(table, s) = {} /\ Chunks(table, s) = 0
    BY <1>1 DEF Counting, RowsOfStroke, Chunks
  <2> QED
    BY <1>1, <2>1, <2>2, SMT DEF TableOK
<1>4. LeaseInv
  BY <1>1 DEF LeaseInv, LeaseOf
<1>5. QueueInv
  BY <1>1, EmptyIsSeq, SMT DEF QueueInv
<1>6. SubInv
  BY NoneStored DEF Init, SubInv
<1>7. ASSUME NEW p \in Producers PROVE TaskInv(p)
  BY <1>1 DEF TaskInv, RestInv, LoadInv, DecideInv, StoreInv, PublishInv
<1> QED
  BY <1>2, <1>4, <1>5, <1>6, <1>7 DEF IInv, Init, LeaseInit, Shape

\* Every step of the relay keeps the invariant.
LEMMA StepIInv ==
  ASSUME Counting, IInv, [Next]_vars
  PROVE  IInv'
<1>1. ASSUME NEW p \in Producers,
             \/ \E s \in Strokes : \E first, last \in 1 .. MaxChunks : Act(p, s, first, last)
             \/ Granted(p) \/ ProducerStep(p) \/ CancelAction(p)
      PROVE  IInv'
  BY <1>1, ProducerKeeps, PageCounted
<1>2. ASSUME NEW c \in Clients, ClientStep(c) PROVE IInv'
  BY <1>2, ClientKeeps
<1>3. CASE Execute
  BY <1>3, ExecuteKeeps
<1>4. CASE UNCHANGED vars
  <2>1. /\ UNCHANGED <<table, queue, want, hold, pc, reply, action, cursor>>
        /\ UNCHANGED <<projection, todo, batch, inbox, live>>
    BY <1>4 DEF vars, storeVars, leaseState, producerVars, clientVars, busVars
  <2>2. QueueInv /\ SubInv /\ TableOK(table)
    BY DEF IInv
  <2>3. QueueInv' /\ SubInv' /\ TableOK(table)'
    <3>1. QueueInv'
      BY <2>1, <2>2, ZenonT(30) DEF QueueInv, Awaited, IsAppend, AppendedTo
    <3>2. SubInv' /\ TableOK(table)'
      BY <2>1, <2>2 DEF SubInv
    <3> QED
      BY <3>1, <3>2
  <2>4. ASSUME NEW p \in Producers PROVE TaskInv(p)'
    <3>1. TaskInv(p)
      BY DEF IInv
    <3>2. /\ \A s : NoAppend(s)' <=> NoAppend(s)
          /\ OnlyFrom(p)' <=> OnlyFrom(p)
      BY <2>1 DEF NoAppend, OnlyFrom, IsAppend, AppendedTo
    <3>3. LoadInv(p)'
      BY <2>1, <3>1, <3>2 DEF TaskInv, LoadInv, Start, Succeeded, OwnRows, Stroke
    <3>4. StoreInv(p)'
      BY <2>1, <3>1, <3>2 DEF TaskInv, StoreInv, Succeeded
    <3> QED
      BY <2>1, <3>1, <3>2, <3>3, <3>4 DEF TaskInv, RestInv, DecideInv, PublishInv
  <2> QED
    BY <2>1, <2>3, <2>4 DEF IInv, Shape, LeaseInv, LeaseOf, Stroke
<1> QED
  BY <1>1, <1>2, <1>3, <1>4 DEF Next

-----------------------------------------------------------------------------
(* Concatenation, and the events of a page.                                *)

\* The length and the items of a concatenation.
LEMMA JoinFacts ==
  ASSUME NEW q, NEW r, IsSeq(q), IsSeq(r)
  PROVE  /\ IsSeq(q \o r) /\ Len(q \o r) = Len(q) + Len(r)
         /\ \A i \in 1 .. Len(q) : (q \o r)[i] = q[i]
         /\ \A i \in 1 .. Len(r) : (q \o r)[Len(q) + i] = r[i]
<1>1. PICK S, T : q \in Seq(S) /\ r \in Seq(T)
  BY DEF IsSeq
<1>2. q \in Seq(S \cup T) /\ r \in Seq(S \cup T)
  BY <1>1, SMT
<1>4. IsSeq(q \o r)
  BY <1>2, SMT DEF IsSeq
<1> QED
  BY <1>2, <1>4, SMT

IsJoin(g, q, r) == g = q \o r

\* A sequence that has the items of two, one behind the other, is their concatenation.
LEMMA JoinedSeqs ==
  \A g : \A q : \A r :
    /\ IsSeq(g)
    /\ IsSeq(q)
    /\ IsSeq(r)
    /\ Len(g) = Len(q) + Len(r)
    /\ \A i \in 1 .. Len(q) : g[i] = q[i]
    /\ \A i \in 1 .. Len(r) : g[Len(q) + i] = r[i]
    => IsJoin(g, q, r)
\* Sequences with the same items are the same.
<1>SameSeqs.
    ASSUME NEW q, NEW r, IsSeq(q), IsSeq(r), Len(q) = Len(r),
           \A i \in 1 .. Len(q) : q[i] = r[i]
    PROVE  q = r
  <2> USE <1>SameSeqs
  <2>1. PICK S : q \in Seq(S)
    BY DEF IsSeq
  <2>2. PICK T : r \in Seq(T)
    BY DEF IsSeq
  <2> QED
    BY <2>1, <2>2, SMT

<1> SUFFICES ASSUME NEW g, NEW q, NEW r, IsSeq(g), IsSeq(q), IsSeq(r),
                    Len(g) = Len(q) + Len(r), \A i \in 1 .. Len(q) : g[i] = q[i],
                    \A i \in 1 .. Len(r) : g[Len(q) + i] = r[i]
             PROVE  IsJoin(g, q, r)
  OBVIOUS
<1>1. PICK j : j = q \o r
  OBVIOUS
<1>2. /\ IsSeq(j) /\ Len(j) = Len(q) + Len(r)
      /\ \A i \in 1 .. Len(q) : j[i] = q[i]
      /\ \A i \in 1 .. Len(r) : j[Len(q) + i] = r[i]
  BY <1>1, JoinFacts, SMT
<1>4. ASSUME NEW i \in 1 .. Len(g) PROVE g[i] = j[i]
  <2>1. CASE i \in 1 .. Len(q)
    BY <1>2, <2>1
  <2>2. CASE i \notin 1 .. Len(q)
    <3>1. PICK k : k = i - Len(q)
      OBVIOUS
    <3>2. k \in 1 .. Len(r) /\ i = Len(q) + k
      BY <2>2, <3>1, SeqFacts, SMT
    <3> QED
      BY <1>2, <3>2
  <2> QED
    BY <2>1, <2>2
<1> QED
  BY <1>SameSeqs, <1>1, <1>2, <1>4 DEF IsJoin

-----------------------------------------------------------------------------
(* The events of a page, in append order.                                  *)

\* How many rows of D are in front of row n.
Before(D, n) == {m \in D : m < n}
Rank(D, n) == Cardinality(Before(D, n))

\* Rows have ranks in their order, all below the number of rows.
LEMMA RankFacts ==
  ASSUME Counting, NEW N \in Nat, NEW D \in SUBSET (0 .. N - 1)
  PROVE  /\ IsFiniteSet(D) /\ Cardinality(D) \in Nat
         /\ \A n \in D : Rank(D, n) \in Nat /\ Rank(D, n) < Cardinality(D)
         /\ \A m, n \in D : m < n => Rank(D, m) < Rank(D, n)
<1>2. IsFiniteSet(D) /\ Cardinality(D) \in Nat
  BY DEF Counting
<1>3. ASSUME NEW T \in SUBSET D, NEW n \in D, Before(D, n) \subseteq T, n \in T
      PROVE  Rank(D, n) \in Nat /\ Rank(D, n) < Cardinality(T)
  <2>1. Before(D, n) \in SUBSET D /\ n \notin Before(D, n)
    BY SMT DEF Before
  <2>2. IsFiniteSet(Before(D, n)) /\ IsFiniteSet(T)
    BY <1>2, <2>1 DEF Counting
  <2>4. Cardinality(Before(D, n) \cup {n}) = Rank(D, n) + 1
    BY <2>1, <2>2 DEF Counting, Rank
  <2>6. Cardinality(Before(D, n) \cup {n}) <= Cardinality(T)
    BY <1>3, <2>2 DEF Counting
  <2> QED
    BY <2>2, <2>4, <2>6, SMT DEF Counting, Rank
<1>4. ASSUME NEW n \in D PROVE Rank(D, n) \in Nat /\ Rank(D, n) < Cardinality(D)
  BY <1>3 DEF Before
<1>5. ASSUME NEW m \in D, NEW n \in D, m < n PROVE Rank(D, m) < Rank(D, n)
  <2>1. Before(D, m) \subseteq Before(D, n)
    <3>1. \A k \in D : k < m => k < n
      BY <1>5, SMT
    <3> QED
      BY <3>1 DEF Before
  <2>3. Rank(D, m) < Cardinality(Before(D, n))
    BY <1>3, <1>5, <2>1 DEF Before
  <2> QED
    BY <2>3 DEF Rank
<1> QED
  BY <1>2, <1>4, <1>5

\* e has each row once, at the place of its rank.
IsPageOf(e, rows) ==
  /\ IsSeq(e) /\ Len(e) = Cardinality(DOMAIN rows)
  /\ \A n \in DOMAIN rows : /\ Rank(DOMAIN rows, n) + 1 \in 1 .. Len(e)
                            /\ e[Rank(DOMAIN rows, n) + 1] = rows[n]
  /\ \A i \in 1 .. Len(e) :
       \E n \in DOMAIN rows : Rank(DOMAIN rows, n) = i - 1 /\ e[i] = rows[n]

\* The events of a page are its rows, in append order.
LEMMA PageFacts ==
  \A N \in Nat : \A rows : \A e :
    /\ Counting
    /\ DOMAIN rows \in SUBSET (0 .. N - 1)
    /\ e = PageEvents(rows)
    => IsPageOf(e, rows)
\* The last row in front of k has one row less in front of it than k.
<1>LastRank.
    ASSUME Counting, NEW N \in Nat, NEW D \in SUBSET (0 .. N - 1), NEW T \in SUBSET D,
           T # {}, \A m \in T : Before(D, m) \subseteq T
    PROVE  \E x \in T : Cardinality(T) = Rank(D, x) + 1
  <2> USE <1>LastRank
  <2>1. T \in SUBSET (0 .. N - 1)
    OBVIOUS
  <2>3. PICK x \in T : \A y \in T : y <= x
    BY <2>1, MaxFacts
  <2>4. T = Before(D, x) \cup {x} /\ x \notin Before(D, x)
    <3>1. ~(x < x)
      BY <2>1, SMT
    <3>2. \A y \in T : y < x \/ y = x
      BY <2>1, <2>3, SMT
    <3> QED
      BY <2>3, <3>1, <3>2 DEF Before
  <2>8. Cardinality(T) = Rank(D, x) + 1
    BY <2>4, RankFacts DEF Counting, Rank, Before
  <2> QED
    BY <2>8

\* Every number below the number of rows is the rank of a row.
<1>RankOnto.
    ASSUME Counting, NEW N \in Nat, NEW D \in SUBSET (0 .. N - 1),
           NEW i \in Nat, i < Cardinality(D)
    PROVE  \E n \in D : Rank(D, n) = i
  <2> USE <1>RankOnto
  <2> DEFINE T == {n \in D : i <= Rank(D, n)}
  <2>1. /\ Cardinality(D) \in Nat
        /\ \A n \in D : n \in Nat /\ Rank(D, n) \in Nat
    <3>1. \A n \in D : n \in Nat
      BY SMT
    <3> QED
      BY <3>1, RankFacts
  <2>2. D # {} /\ \A m \in D : Before(D, m) \subseteq D
    <3>1. D # {}
      <4>1. ASSUME D = {} PROVE Cardinality(D) = 0
        BY <4>1 DEF Counting
      <4> QED
        BY <4>1, SMT
    <3> QED
      BY <3>1 DEF Before
  <2>3. PICK x \in D : Cardinality(D) = Rank(D, x) + 1
    BY <2>2, <1>LastRank
  <2>4. x \in T
    BY <2>1, <2>3, SMT
  <2>5. T \in SUBSET Nat
    BY <2>1
  <2>6. PICK n \in T : \A y \in T : n <= y
    BY <2>4, <2>5 DEF Counting
  <2>7. ASSUME Rank(D, n) # i PROVE FALSE
    <3>1. Before(D, n) # {}
      <4>1. ASSUME Before(D, n) = {} PROVE Rank(D, n) = 0
        BY <4>1 DEF Counting, Rank
      <4> QED
        BY <2>1, <2>7, <4>1, SMT
    <3>3. \A m \in Before(D, n) : Before(D, m) \subseteq Before(D, n)
      <4>1. \A k, m \in D : m < n /\ k < m => k < n
        BY <2>1, SMT
      <4> QED
        BY <4>1 DEF Before
    <3>4. PICK y \in Before(D, n) : Cardinality(Before(D, n)) = Rank(D, y) + 1
      BY <1>LastRank, <3>1, <3>3 DEF Before
    <3>5. y \in D /\ y < n /\ Rank(D, n) = Rank(D, y) + 1
      BY <3>4 DEF Before, Rank
    <3>7. n <= y
      BY <2>1, <2>6, <2>7, <3>5, SMT
    <3> QED
      BY <2>1, <3>5, <3>7, SMT
  <2> QED
    BY <2>7

\* Two rows with one rank are one row.
<1>RankApart.
    ASSUME Counting, NEW N \in Nat, NEW D \in SUBSET (0 .. N - 1),
           NEW m \in D, NEW n \in D, Rank(D, m) = Rank(D, n)
    PROVE  m = n
  <2> USE <1>RankApart
  <2>1. ~(m < n) /\ ~(n < m)
    <3>1. Rank(D, m) \in Nat
      BY RankFacts
    <3>2. ~(Rank(D, m) < Rank(D, n)) /\ ~(Rank(D, n) < Rank(D, m))
      BY <3>1, SMT
    <3> QED
      BY <3>2, RankFacts
  <2> QED
    BY <2>1, SMT

<1> SUFFICES ASSUME Counting, NEW N \in Nat, NEW rows, DOMAIN rows \in SUBSET (0 .. N - 1),
                    NEW e, e = PageEvents(rows)
             PROVE  IsPageOf(e, rows)
  OBVIOUS
<1> DEFINE D == DOMAIN rows
           row(i) == CHOOSE n \in D : Rank(D, n) = i - 1
           size == Cardinality(D)
<1>1. e = [i \in 1 .. size |-> rows[row(i)]]
  BY DEF PageEvents, Rank, Before
<1>2. size \in Nat /\ \A n \in D : Rank(D, n) \in Nat /\ Rank(D, n) < size
  BY RankFacts
<1>3. ASSUME NEW i \in 1 .. size PROVE row(i) \in D /\ Rank(D, row(i)) = i - 1
  <2>1. i - 1 \in Nat /\ i - 1 < size
    BY <1>2, SMT
  <2>2. \E n \in D : Rank(D, n) = i - 1
    BY <2>1, <1>RankOnto
  <2> QED
    BY <2>2
<1>0. D \in SUBSET (0 .. N - 1)
  OBVIOUS
<1> HIDE DEF row, size, D
<1>4. \A i \in 1 .. size : e[i] = rows[row(i)]
  BY <1>1
<1>6. IsSeq(e) /\ Len(e) = size
  BY <1>1, <1>2, MapFacts
<1>7. ASSUME NEW n \in D
      PROVE  Rank(D, n) + 1 \in 1 .. size /\ e[Rank(D, n) + 1] = rows[n]
  <2>1. Rank(D, n) + 1 \in 1 .. size /\ (Rank(D, n) + 1) - 1 = Rank(D, n)
    BY <1>2, SMT
  <2>2. row(Rank(D, n) + 1) \in D /\ Rank(D, row(Rank(D, n) + 1)) = Rank(D, n)
    BY <1>3, <2>1
  <2>3. row(Rank(D, n) + 1) = n
    BY <1>0, <2>2, <1>RankApart
  <2> QED
    BY <1>4, <2>1, <2>3
<1> QED
  <2>1. \A i \in 1 .. size : \E n \in D : Rank(D, n) = i - 1 /\ e[i] = rows[n]
    BY <1>3, <1>4
  <2> QED
    BY <1>6, <1>7, <2>1 DEF IsPageOf, D, size

\* The page both has the rows of r and, behind them, those of s.
Joins(r, s, both) ==
  /\ DOMAIN both = DOMAIN r \cup DOMAIN s
  /\ \A m \in DOMAIN r : \A n \in DOMAIN s : m < n
  /\ \A m \in DOMAIN r : both[m] = r[m]
  /\ \A n \in DOMAIN s : both[n] = s[n]

Joined(r, s, both) == PageEvents(both) = PageEvents(r) \o PageEvents(s)

\* A page of nothing shows nothing.
LEMMA ShowsNothing ==
  ASSUME Counting, NEW c, NEW rows, DOMAIN rows = {}
  PROVE  Shown(c, rows) = <<>>
<1>1. PICK r : r = RowsOf(rows, {n \in DOMAIN rows : rows[n].topic = Watched[c]})
  OBVIOUS
<1>2. DOMAIN r = {}
  BY <1>1 DEF RowsOf
<1>3. DOMAIN r \in SUBSET (0 .. 0 - 1) /\ 0 \in Nat
  BY <1>2, SMT
<1>4. PICK e : e = PageEvents(r)
  OBVIOUS
<1>5. IsSeq(e) /\ Len(e) = 0
  BY <1>2, <1>3, <1>4, PageFacts, ZenonT(30) DEF IsPageOf, Counting
<1> QED
  BY <1>1, <1>4, <1>5, SeqFacts, SMT DEF Shown

\* The rows of tb in front of row k.
Upto(tb, k) == RowsOf(tb, {n \in DOMAIN tb : n < k})

\* What the rows in front of row k show is what the rows in front of row j do,
\* followed by what the page from j to k does.
LEMMA ShownPages ==
  \A c : \A tb : \A j \in Nat : \A k \in Nat : \A rows :
    /\ Counting
    /\ TableOK(tb)
    /\ j <= k
    /\ 0 .. k - 1 \subseteq DOMAIN tb
    /\ DOMAIN rows = j .. k - 1
    /\ \A m \in j .. k - 1 : rows[m] = tb[m]
    => IsJoin(Shown(c, Upto(tb, k)), Shown(c, Upto(tb, j)), Shown(c, rows))
\* The events of two pages, one behind the other, are those of both in one.
<1>JoinedPages.
    ASSUME Counting, NEW N \in Nat, NEW r, NEW s, NEW both,
           DOMAIN both \in SUBSET (0 .. N - 1), Joins(r, s, both)
    PROVE  Joined(r, s, both)
  <2> USE <1>JoinedPages
  <2> DEFINE R == DOMAIN r
             S == DOMAIN s
             D == DOMAIN both
             size == Cardinality(R)
  <2>0. /\ D = R \cup S /\ \A m \in R : \A n \in S : m < n
        /\ \A m \in R : both[m] = r[m]
        /\ \A n \in S : both[n] = s[n]
    BY DEF Joins
  <2>1. R \in SUBSET (0 .. N - 1) /\ S \in SUBSET (0 .. N - 1)
    BY <2>0
  <2>2. PICK e, f, g : e = PageEvents(r) /\ f = PageEvents(s) /\ g = PageEvents(both)
    OBVIOUS
  <2>3. IsPageOf(e, r) /\ IsPageOf(f, s) /\ IsPageOf(g, both)
    BY <2>1, <2>2, PageFacts
  <2>4. /\ IsFiniteSet(R) /\ IsFiniteSet(S) /\ size \in Nat /\ Cardinality(S) \in Nat
        /\ \A n \in S : Rank(S, n) \in Nat
        /\ \A n \in R : Rank(R, n) \in Nat
    BY <2>1, RankFacts
  <2>5. ASSUME NEW n \in R PROVE Rank(D, n) = Rank(R, n)
    <3>2. Before(D, n) = Before(R, n)
      BY <2>0, <2>1, SMT DEF Before
    <3> QED
      BY <3>2 DEF Rank
  <2>6. ASSUME NEW n \in S PROVE Rank(D, n) = size + Rank(S, n)
    <3>1. Before(D, n) = R \cup Before(S, n)
      BY <2>0 DEF Before
    <3>2. R \cap Before(S, n) = {}
      BY <2>0, <2>1, SMT DEF Before
    <3>4. IsFiniteSet(Before(S, n))
      BY <2>4 DEF Counting, Before
    <3> HIDE DEF R, S, D
    <3> QED
      BY <2>4, <3>1, <3>2, <3>4 DEF Counting, Rank, size
  <2>7. R \cap S = {}
    BY <2>0, <2>1, SMT
  <2>8. Cardinality(D) = size + Cardinality(S)
    <3>1. D = R \cup S
      BY <2>0
    <3> HIDE DEF R, S, D
    <3> QED
      BY <2>4, <2>7, <3>1 DEF Counting, size
  <2> HIDE DEF R, S, D, size
  <2>9. /\ IsSeq(e) /\ IsSeq(f) /\ IsSeq(g)
        /\ Len(e) = size /\ Len(f) = Cardinality(S) /\ Len(g) = size + Cardinality(S)
    BY <2>3, <2>8 DEF IsPageOf, R, S, D, size
  <2>10. ASSUME NEW i \in 1 .. size PROVE g[i] = e[i]
    <3>1. PICK n \in R : Rank(R, n) = i - 1 /\ e[i] = r[n]
      BY <2>3, <2>9 DEF IsPageOf, R
    <3>2. n \in D /\ both[n] = r[n] /\ Rank(D, n) = i - 1
      BY <2>0, <2>5, <3>1
    <3>3. g[Rank(D, n) + 1] = both[n]
      BY <2>3, <3>2 DEF IsPageOf, D
    <3>4. (i - 1) + 1 = i
      BY <2>4, SMT
    <3> QED
      BY <3>1, <3>2, <3>3, <3>4
  <2>11. ASSUME NEW i \in 1 .. Cardinality(S) PROVE g[size + i] = f[i]
    <3>1. PICK n \in S : Rank(S, n) = i - 1 /\ f[i] = s[n]
      BY <2>3, <2>9 DEF IsPageOf, S
    <3>2. n \in D /\ both[n] = s[n] /\ Rank(D, n) = size + (i - 1)
      BY <2>0, <2>6, <3>1
    <3>3. g[Rank(D, n) + 1] = both[n]
      BY <2>3, <3>2 DEF IsPageOf, D
    <3>4. (size + (i - 1)) + 1 = size + i
      BY <2>4, SMT
    <3> QED
      BY <3>1, <3>2, <3>3, <3>4
  <2> QED
    BY <2>2, <2>4, <2>9, <2>10, <2>11, JoinedSeqs DEF Joined, IsJoin

<1> SUFFICES ASSUME Counting, NEW c, NEW tb, TableOK(tb), NEW j \in Nat, NEW k \in Nat, j <= k,
                    0 .. k - 1 \subseteq DOMAIN tb,
                    NEW rows, DOMAIN rows = j .. k - 1, \A m \in j .. k - 1 : rows[m] = tb[m]
             PROVE  IsJoin(Shown(c, Upto(tb, k)), Shown(c, Upto(tb, j)), Shown(c, rows))
  OBVIOUS
<1> DEFINE On(r) == RowsOf(r, {n \in DOMAIN r : r[n].topic = Watched[c]})
<1>1. PICK N \in Nat : DOMAIN tb = 0 .. N - 1
  BY DEF TableOK
<1>2. PICK up, low : up = Upto(tb, k) /\ low = Upto(tb, j)
  OBVIOUS
<1>3. /\ DOMAIN up = 0 .. k - 1 /\ \A n \in 0 .. k - 1 : up[n] = tb[n]
      /\ DOMAIN low = 0 .. j - 1 /\ \A n \in 0 .. j - 1 : low[n] = tb[n]
  <2>1. {n \in DOMAIN tb : n < k} = 0 .. k - 1 /\ {n \in DOMAIN tb : n < j} = 0 .. j - 1
    BY <1>1, SMTT(15)
  <2> QED
    BY <1>2, <2>1 DEF Upto, RowsOf
<1>4. PICK both, r, s : both = On(up) /\ r = On(low) /\ s = On(rows)
  OBVIOUS
<1>5. /\ DOMAIN both = {n \in 0 .. k - 1 : tb[n].topic = Watched[c]}
      /\ \A n \in DOMAIN both : both[n] = tb[n]
  BY <1>3, <1>4 DEF RowsOf
<1>6. /\ DOMAIN r = {n \in 0 .. j - 1 : tb[n].topic = Watched[c]}
      /\ \A n \in DOMAIN r : r[n] = tb[n]
  BY <1>3, <1>4 DEF RowsOf
<1>7. /\ DOMAIN s = {n \in j .. k - 1 : tb[n].topic = Watched[c]}
      /\ \A n \in DOMAIN s : s[n] = tb[n]
  BY <1>4 DEF RowsOf
<1>9. DOMAIN both = DOMAIN r \cup DOMAIN s /\ DOMAIN both \in SUBSET (0 .. k - 1)
  BY <1>5, <1>6, <1>7, SMT
<1>11. /\ \A m \in DOMAIN r : both[m] = r[m]
       /\ \A n \in DOMAIN s : both[n] = s[n]
  BY <1>5, <1>6, <1>7, <1>9
<1>12. Joined(r, s, both)
  <2>1. Joins(r, s, both)
    BY <1>6, <1>7, <1>9, <1>11, SMT DEF Joins
  <2> QED
    BY <1>9, <2>1, <1>JoinedPages
<1> QED
  BY <1>2, <1>4, <1>12 DEF Joined, Shown, IsJoin

ShowsFront(e, c, tb, k) ==
  /\ IsSeq(e)
  /\ \A n \in DOMAIN tb : n < k /\ tb[n].topic = Watched[c] => tb[n] \in Range(e)
  /\ \A i \in 1 .. Len(e) : \E n \in DOMAIN tb : n < k /\ e[i] = tb[n]
  /\ \A i, j \in 1 .. Len(e) : i < j =>
       \E m \in DOMAIN tb : \E n \in DOMAIN tb :
         m < n /\ e[i] = tb[m] /\ e[j] = tb[n]

\* What the rows in front of row k show: the events of the canvas among them, in
\* the order of their rows.
LEMMA ShownFacts ==
  ASSUME Counting, NEW c, NEW tb, TableOK(tb), NEW k \in Nat,
         NEW e, e = Shown(c, Upto(tb, k))
  PROVE  ShowsFront(e, c, tb, k)
<1> DEFINE D == {n \in DOMAIN tb : n < k /\ tb[n].topic = Watched[c]}
<1>1. PICK N \in Nat : DOMAIN tb = 0 .. N - 1
  BY DEF TableOK
<1>2. PICK rows : rows = RowsOf(Upto(tb, k),
        {n \in DOMAIN Upto(tb, k) : Upto(tb, k)[n].topic = Watched[c]})
  OBVIOUS
<1>3. DOMAIN rows = D /\ \A n \in D : rows[n] = tb[n]
  BY <1>2 DEF Upto, RowsOf
<1>4. D \in SUBSET (0 .. N - 1) /\ D \in SUBSET DOMAIN tb
  BY <1>1
<1>5. IsPageOf(e, rows)
  BY <1>2, <1>3, <1>4, PageFacts DEF Shown
<1>7. \A n \in D : Rank(D, n) \in Nat
  BY <1>4, RankFacts
<1>8. \A n \in D : n \in DOMAIN tb /\ n < k
  OBVIOUS
<1>9. \A n \in DOMAIN tb : n < k /\ tb[n].topic = Watched[c] => n \in D
  OBVIOUS
<1> HIDE DEF D
<1>10. /\ IsSeq(e)
       /\ \A n \in D : Rank(D, n) + 1 \in 1 .. Len(e) /\ e[Rank(D, n) + 1] = tb[n]
       /\ \A i \in 1 .. Len(e) : \E n \in D : Rank(D, n) = i - 1 /\ e[i] = tb[n]
  <2>1. /\ IsSeq(e)
        /\ \A n \in D : Rank(D, n) + 1 \in 1 .. Len(e) /\ e[Rank(D, n) + 1] = rows[n]
        /\ \A i \in 1 .. Len(e) : \E n \in D : Rank(D, n) = i - 1 /\ e[i] = rows[n]
    BY <1>3, <1>5, SMT DEF IsPageOf
  <2>2. ASSUME NEW i \in 1 .. Len(e)
        PROVE  \E n \in D : Rank(D, n) = i - 1 /\ e[i] = tb[n]
    <3>1. PICK n \in D : Rank(D, n) = i - 1 /\ e[i] = rows[n]
      BY <2>1
    <3> QED
      BY <1>3, <3>1
  <2>3. ASSUME NEW n \in D
        PROVE  Rank(D, n) + 1 \in 1 .. Len(e) /\ e[Rank(D, n) + 1] = tb[n]
    BY <1>3, <2>1
  <2> QED
    BY <2>1, <2>2, <2>3
<1>11. ASSUME NEW n \in D PROVE tb[n] \in Range(e)
  BY <1>10, SeqFacts DEF Range
<1>12. ASSUME NEW i \in 1 .. Len(e), NEW j \in 1 .. Len(e), i < j
       PROVE  \E m \in DOMAIN tb : \E n \in DOMAIN tb :
                m < n /\ e[i] = tb[m] /\ e[j] = tb[n]
  <2>1. PICK m \in D : Rank(D, m) = i - 1 /\ e[i] = tb[m]
    BY <1>10
  <2>2. PICK n \in D : Rank(D, n) = j - 1 /\ e[j] = tb[n]
    BY <1>10
  <2>4. ~(n < m) /\ n # m
    <3>1. Rank(D, m) < Rank(D, n) /\ Rank(D, m) \in Nat /\ Rank(D, n) \in Nat
      BY <1>7, <1>12, <2>1, <2>2, SMT
    <3>2. ~(Rank(D, n) < Rank(D, m)) /\ Rank(D, n) # Rank(D, m)
      BY <3>1, SMT
    <3> QED
      BY <1>4, <3>2, RankFacts
  <2>5. m < n
    BY <1>4, <2>4, SMT
  <2> QED
    BY <1>8, <2>1, <2>2, <2>5
<1> QED
  <2>1. \A i \in 1 .. Len(e) : \E n \in DOMAIN tb : n < k /\ e[i] = tb[n]
    BY <1>8, <1>10
  <2> QED
    BY <1>9, <1>10, <1>11, <1>12, <2>1 DEF ShowsFront

=============================================================================
