--------------------------- MODULE AssetStoreProofs ---------------------------
(***************************************************************************)
(* For any ingests, reads, closers, assets and contents, any queue and any *)
(* number of crashes and losses of power: published rows have their blobs, *)
(* found ones stay readable, acknowledged ones stay published, and a       *)
(* staged row has an ingest that is answerable for it.                     *)
(***************************************************************************)
EXTENDS AssetStore, TLAPS

\* Where an ingest is past its lookup, where it has verified the bytes, where
\* it holds the lock; and where a task awaits the worker.
Verify == {"staging", "renaming", "publishing", "quarantining", "removing"}
Working == Verify \cup {"writing"}
Locked == Working \cup {"looking"}
Calling == {"looking", "staging", "publishing", "removing", "finding"}
Phases == {"idle", "called", "checked", "cloned", "waiting", "answered"}

\* What the rows, the blobs and the late file operations hold of an asset.
Row(a, x, state) ==
  a \in DOMAIN rows /\ rows[a].content = x /\ rows[a].state = state
Absent(a) == a \notin DOMAIN rows
HasBlob(a, x) == a \in DOMAIN blobs /\ blobs[a] = x
NoLate(a) == \A o \in late : o.asset # a

\* Message m is to change the row of a.
Changes(m, a) ==
  m.kind = "call" /\ m.command.kind # "lookup" /\ m.command.asset = a
NoneOn(a) == \A i \in 1 .. Len(queue) : ~Changes(queue[i], a)
OwnOn(t, a) ==
  \A i \in 1 .. Len(queue) : Changes(queue[i], a) => queue[i].from = t
NoneFrom(t) == \A i \in 1 .. Len(queue) : queue[i].from # t

Told(t, tag) == pc[t] = "answered" /\ Tag(t) = tag

RowsOK(rs) == \A a \in DOMAIN rs : rs[a] \in Rows

\* The types that the proofs need.
Shape ==
  /\ RowsOK(rows) /\ RowsOK(disk.rows)
  /\ disk = [rows |-> disk.rows, blobs |-> disk.blobs]
  /\ queue \in Seq(Messages)
  /\ pc \in [Tasks -> Phases]
  /\ DOMAIN cmd = Tasks /\ DOMAIN answer = Tasks
  /\ DOMAIN at = Tasks /\ DOMAIN want = Tasks

\* A store that is not open has no process, recovery has removed the staged
\* rows before it sweeps, and only an opening after a loss of power may fail.
PhaseInv ==
  /\ phase \in {"down", "sweeping", "open"}
  /\ lock \in Ingesters \cup {NoTask}
  /\ doubtful \in BOOLEAN
  /\ phase # "open" =>
       /\ queue = <<>> /\ late = {} /\ ~held
       /\ \A t \in Tasks : at[t] = "idle"
       /\ \A k \in Closers : closing[k] = "idle"
  /\ doubtful => phase = "down"
  /\ phase = "sweeping" => \A a \in DOMAIN rows : Published(rows, a)

\* The command an ingest awaits in a step.
CommandAt(t, step) ==
  IF step = "looking" THEN [kind |-> "lookup", asset |-> Asset(t)]
  ELSE IF step = "staging"
  THEN [kind |-> "stage", asset |-> Asset(t), content |-> Content(t)]
  ELSE IF step = "publishing"
  THEN [kind |-> "publish", asset |-> Asset(t), content |-> Content(t)]
  ELSE [kind |-> "remove", asset |-> Asset(t)]

\* What an ingest may rely on, of the row and the blob of its asset.
RowInv(t) ==
  /\ at[t] = "writing" => Absent(Asset(t))
  /\ at[t] = "staging" =>
       /\ Told(t, "inserted") => Row(Asset(t), Content(t), "staged")
       /\ ~Told(t, "inserted") => Absent(Asset(t))
       /\ ~Told(t, "existing")
  /\ at[t] \in {"renaming", "quarantining"} => Row(Asset(t), Content(t), "staged")
  /\ at[t] = "publishing" =>
       /\ Told(t, "done") => Row(Asset(t), Content(t), "published")
       /\ ~Told(t, "done") =>
            Row(Asset(t), Content(t), "staged") /\ HasBlob(Asset(t), Content(t))
  /\ at[t] = "removing" =>
       /\ Told(t, "done") => Absent(Asset(t))
       /\ ~Told(t, "done") => Row(Asset(t), Content(t), "staged")

\* Nobody else is about to change the row or the blob of the asset.
AloneInv(t) ==
  /\ at[t] = "looking" /\ Told(t, "none") =>
       Absent(Asset(t)) /\ NoneOn(Asset(t)) /\ NoLate(Asset(t))
  /\ at[t] \in Working => OwnOn(t, Asset(t)) /\ NoLate(Asset(t))

\* What a lookup has found published.
FoundInv(t) ==
  Told(t, "found") /\ answer[t][1].row.state = "published" =>
    Row(cmd[t][1].asset, answer[t][1].row.content, "published")

IngestInv(t) ==
  /\ at[t] \in {"idle", "locking"} \cup Locked
  /\ at[t] \in Locked <=> lock = t
  /\ at[t] \in Calling <=> pc[t] # "idle"
  /\ at[t] # "idle" => Asset(t) \in Assets /\ Content(t) \in Contents
  /\ at[t] \in Calling => cmd[t] = <<CommandAt(t, at[t])>>
  /\ at[t] \in Verify => want[t][1].bytes = Content(t)
  /\ at[t] = "looking" => FoundInv(t)
  /\ AloneInv(t) /\ RowInv(t)

ReadInv(t) ==
  /\ at[t] \in {"idle", "finding", "opening"}
  /\ at[t] = "finding" <=> pc[t] # "idle"
  /\ at[t] = "finding" =>
       /\ \E a \in Assets : cmd[t] = <<[kind |-> "lookup", asset |-> a]>>
       /\ FoundInv(t)
  /\ at[t] = "opening" => Row(Asset(t), Content(t), "published")

\* What a queued command finds when it is executed.
Ready(c) ==
  /\ c.kind = "stage" => Absent(c.asset)
  /\ c.kind = "publish" =>
       Row(c.asset, c.content, "staged") /\ HasBlob(c.asset, c.content)
  /\ c.kind = "remove" => IsStaged(rows, c.asset)

MessageInv(m) ==
  /\ m.from \in Tasks => pc[m.from] = "waiting" /\ cmd[m.from] = <<m.command>>
  /\ m.command.kind # "lookup" =>
       /\ Ready(m.command) /\ NoLate(m.command.asset)
       /\ m.from = NoCaller => m.command.asset \in aborted

\* A task awaits one command, no two commands change the same row, and the
\* lookup of an ingest is behind what an earlier one left in the queue.
QueueInv ==
  /\ \A i \in 1 .. Len(queue) : queue[i].kind = "call" => MessageInv(queue[i])
  /\ \A i, j \in 1 .. Len(queue) :
       queue[i].from \in Tasks /\ queue[j].from = queue[i].from => i = j
  /\ \A i, j \in 1 .. Len(queue) : \A a \in Assets :
       Changes(queue[i], a) /\ Changes(queue[j], a) => i = j
  /\ \A i, j \in 1 .. Len(queue) :
       queue[i].from \in Ingesters /\ queue[i].command.kind = "lookup"
         /\ Changes(queue[j], queue[i].command.asset) => j < i

\* Who is answerable for a staged row.
StagedInv ==
  phase = "open" =>
    \A a \in DOMAIN rows : IsStaged(rows, a) =>
      a \in aborted \/ (lock \in Ingesters /\ at[lock] \in Verify /\ Asset(lock) = a)

LateInv == \A o \in late : o.asset \in aborted /\ IsStaged(rows, o.asset)

IInv ==
  /\ Shape /\ PhaseInv
  /\ \A t \in Ingesters : IngestInv(t)
  /\ \A t \in Readers : ReadInv(t)
  /\ QueueInv /\ StagedInv /\ LateInv
  /\ PublishedHasBlob /\ AckedStaysPublished

-----------------------------------------------------------------------------
(* What a step of one task leaves of the others.                           *)

Kept(s) ==
  /\ at'[s] = at[s] /\ want'[s] = want[s]
  /\ pc'[s] = pc[s] /\ cmd'[s] = cmd[s] /\ answer'[s] = answer[s]
Others(t) == \A s \in Tasks : s # t => Kept(s)

\* Published rows stay published.
RowsStay == \A a, x : Row(a, x, "published") => Row(a, x, "published")'

\* What an ingest relies on, of its asset a, is left alone.
Undisturbed(s, a) ==
  /\ Absent(a) => Absent(a)'
  /\ \A x, state : Row(a, x, state) => Row(a, x, state)'
  /\ \A x : HasBlob(a, x) => HasBlob(a, x)'
  /\ NoLate(a) => NoLate(a)'
  /\ NoneOn(a) => NoneOn(a)'
  /\ OwnOn(s, a) => OwnOn(s, a)'

\* An ingest relies on its asset once its lookup has told it to go on.
Relies(s) == at[s] \in Working \/ (at[s] = "looking" /\ Told(s, "none"))

\* An ingest that does not move keeps its invariant.
LEMMA IngestKept ==
  ASSUME NEW s \in Ingesters, IngestInv(s), Kept(s), lock' = s <=> lock = s,
         RowsStay, Relies(s) => Undisturbed(s, Asset(s))
  PROVE  IngestInv(s)'
<1> DEFINE a == Asset(s)
           x == Content(s)
<1>1. /\ Asset(s)' = a /\ Content(s)' = x 
      /\ CommandAt(s, at[s])' = CommandAt(s, at[s])
      /\ \A tag : Told(s, tag)' = Told(s, tag)
      /\ want'[s][1].bytes = want[s][1].bytes
  BY Zenon DEF Kept, Asset, Content, CommandAt, Told, Tag
<1>2. AloneInv(s)'
  BY <1>1, Zenon DEF IngestInv, AloneInv, Kept, Undisturbed, Relies
<1>3. RowInv(s)'
  BY <1>1, Zenon DEF IngestInv, RowInv, Kept, Undisturbed, Relies, Working, Verify
<1>4. at[s] = "looking" => FoundInv(s)'
  BY <1>1, Zenon DEF IngestInv, FoundInv, Kept, RowsStay
<1> QED
  BY <1>1, <1>2, <1>3, <1>4, Zenon DEF IngestInv, Kept

\* A read that does not move keeps its invariant.
LEMMA ReadKept ==
  ASSUME NEW s \in Readers, ReadInv(s), Kept(s), RowsStay
  PROVE  ReadInv(s)'
<1>1. Asset(s)' = Asset(s) /\ Content(s)' = Content(s)
      /\ \A tag : Told(s, tag)' = Told(s, tag)
  BY Zenon DEF Kept, Asset, Content, Told, Tag
<1>2. FoundInv(s) => FoundInv(s)'
  BY <1>1, Zenon DEF FoundInv, Kept, RowsStay
<1> QED
  BY <1>1, <1>2, Zenon DEF ReadInv, Kept, RowsStay

\* Messages of the queue.
LEMMA MessageFacts ==
  ASSUME Shape, NEW i \in 1 .. Len(queue)
  PROVE  /\ queue[i] \in Messages /\ Len(queue) \in Nat
         /\ queue[i].kind \in {"call", "shutdown"}
         /\ queue[i].kind = "shutdown" => queue[i].from \in Closers
         /\ queue[i].kind = "call" =>
              /\ queue[i].from \in Tasks \cup {NoCaller}
              /\ queue[i].command \in AssetCommands
              /\ queue[i].command.asset \in Assets
              /\ queue[i].command.kind \in {"lookup", "stage", "publish", "remove"}
<1>1. queue[i] \in Messages /\ Len(queue) \in Nat
  BY DEF Shape
<1> QED
  BY <1>1, Zenon DEF Messages, AssetCommands

\* A task that awaits no answer has no command in the queue.
LEMMA NothingQueued ==
  ASSUME Shape, QueueInv, NEW t \in Tasks, pc[t] # "waiting"
  PROVE  NoneFrom(t)
<1> SUFFICES ASSUME NEW i \in 1 .. Len(queue), queue[i].from = t PROVE FALSE
  BY Zenon DEF NoneFrom
<1>1. queue[i].kind = "call"
  BY MessageFacts, RolesAssumption, Zenon DEF Tasks
<1> QED
  BY <1>1, Zenon DEF QueueInv, MessageInv

\* So nothing in the queue concerns the asset of an ingest that awaits nothing.
LEMMA NothingOn ==
  ASSUME IInv, NEW t \in Ingesters, at[t] \in Working, pc[t] # "waiting"
  PROVE  NoneOn(Asset(t))
<1>1. NoneFrom(t)
  BY NothingQueued, Zenon DEF IInv, Tasks
<1>2. OwnOn(t, Asset(t))
  BY Zenon DEF IInv, IngestInv, AloneInv
<1> QED
  BY <1>1, <1>2, Zenon DEF NoneFrom, OwnOn, NoneOn

\* What is left alone of the asset of a message.
Spared(m) ==
  LET a == m.command.asset
  IN  /\ Absent(a) => Absent(a)'
      /\ \A x : Row(a, x, "staged") => Row(a, x, "staged")'
      /\ IsStaged(rows, a) => IsStaged(rows', a)
      /\ \A x : HasBlob(a, x) => HasBlob(a, x)'
      /\ NoLate(a) => NoLate(a)'

\* A message that a step does not concern keeps its invariant.
LEMMA MessageKept ==
  ASSUME NEW m, MessageInv(m), m.from \in Tasks => Kept(m.from),
         m.command.kind # "lookup" => Spared(m), aborted \subseteq aborted'
  PROVE  MessageInv(m)'
<1>1. m.from \in Tasks => pc'[m.from] = "waiting" /\ cmd'[m.from] = <<m.command>>
  BY Zenon DEF MessageInv, Kept
<1>2. m.command.kind # "lookup" => Ready(m.command)'
  BY Zenon DEF MessageInv, Ready, Spared
<1> QED
  BY <1>1, <1>2, Zenon DEF MessageInv, Spared

\* A queue that nobody touches keeps its invariant.
LEMMA QueueSame ==
  ASSUME Shape, QueueInv, NEW t \in Tasks, pc[t] # "waiting", Others(t),
         queue' = queue, aborted \subseteq aborted',
         \A i \in 1 .. Len(queue) :
           queue[i].kind = "call" /\ queue[i].command.kind # "lookup"
             => Spared(queue[i])
  PROVE  QueueInv'
<1>1. ASSUME NEW i \in 1 .. Len(queue), queue[i].kind = "call"
      PROVE  MessageInv(queue[i])'
  <2> DEFINE m == queue[i]
  <2>1. MessageInv(m) /\ m.from # t
    BY <1>1, NothingQueued, Zenon DEF QueueInv, NoneFrom
  <2>2. m.from \in Tasks => Kept(m.from)
    BY <2>1, Zenon DEF Others
  <2>3. PICK n : n = m
    BY Zenon
  <2>4. MessageInv(n)'
    BY <1>1, <2>1, <2>2, <2>3, MessageKept, Zenon
  <2>5. queue'[i] = n
    BY <2>3, Zenon
  <2> QED
    BY <2>4, <2>5, Zenon DEF MessageInv, Ready
<1> QED
  BY <1>1, Zenon DEF QueueInv, Changes

\* A task changes files only for the asset it has staged.
Touches(t) ==
  \/ blobs' = blobs /\ late' = late
  \/ /\ t \in Ingesters /\ at[t] \in {"renaming", "quarantining"}
     /\ \A a : a # Asset(t) =>
          /\ \A x : HasBlob(a, x) => HasBlob(a, x)'
          /\ NoLate(a) => NoLate(a)'

\* Whoever lets go of a staged row counts its asset as aborted.
Answerable(t) ==
  /\ aborted \subseteq aborted'
  /\ lock = t /\ at[t] \in Verify /\ IsStaged(rows, Asset(t)) =>
       \/ Asset(t) \in aborted'
       \/ lock' = t /\ at'[t] \in Verify /\ want'[t] = want[t]

\* A step of t beside the queue.
Moves(t) ==
  /\ pc[t] # "waiting" /\ Others(t)
  /\ queue' = queue /\ rows' = rows /\ disk'.rows = disk.rows
  /\ disk' = [rows |-> disk'.rows, blobs |-> disk'.blobs]
  /\ pc' \in [Tasks -> Phases]
  /\ DOMAIN cmd' = Tasks /\ DOMAIN answer' = Tasks
  /\ DOMAIN at' = Tasks /\ DOMAIN want' = Tasks
  /\ phase = "open" /\ phase' = phase /\ doubtful' = doubtful
  /\ lock' \in Ingesters \cup {NoTask}
  /\ \A s \in Ingesters : s # t => (lock' = s <=> lock = s)
  /\ Touches(t) /\ Answerable(t)
  /\ \A o \in late' \ late : o.asset \in aborted' /\ IsStaged(rows, o.asset)
  /\ \A d \in acked' \ acked : Row(d.asset, d.content, "published")

\* A step of t beside the queue leaves the published assets alone, and the
\* one of another ingest.
LEMMA MovesSpare ==
  ASSUME IInv, NEW t \in Tasks, Moves(t)
  PROVE  /\ RowsStay
         /\ \A a, x : Row(a, x, "published") /\ HasBlob(a, x) => HasBlob(a, x)'
         /\ \A s \in Ingesters : s # t /\ lock = s => Undisturbed(s, Asset(s))
         /\ \A i \in 1 .. Len(queue) :
              queue[i].kind = "call" /\ queue[i].command.kind # "lookup"
                => Spared(queue[i])
<1>1. \A a, x, state : Row(a, x, state)' = Row(a, x, state)
  BY Zenon DEF Moves, Row
<1>2. \A a : /\ Absent(a)' = Absent(a) /\ NoneOn(a)' = NoneOn(a)
             /\ \A s : OwnOn(s, a)' = OwnOn(s, a)
  BY Zenon DEF Moves, Absent, NoneOn, OwnOn
<1>3. CASE blobs' = blobs /\ late' = late
  <2>1. \A a : NoLate(a)' = NoLate(a) /\ \A x : HasBlob(a, x)' = HasBlob(a, x)
    BY <1>3, Zenon DEF NoLate, HasBlob
  <2>2. \A s, a : Undisturbed(s, a)
    BY <1>1, <1>2, <2>1, Zenon DEF Undisturbed
  <2>3. \A m : Spared(m)
    BY <1>1, <1>2, <2>1, Zenon DEF Spared, IsStaged, Moves
  <2> QED
    BY <1>1, <2>1, <2>2, <2>3, Zenon DEF RowsStay
<1>4. CASE /\ t \in Ingesters /\ at[t] \in {"renaming", "quarantining"}
           /\ \A a : a # Asset(t) =>
                /\ \A x : HasBlob(a, x) => HasBlob(a, x)'
                /\ NoLate(a) => NoLate(a)'
  <2>1. IngestInv(t) /\ at[t] \in Locked /\ at[t] \in Working
    BY <1>4, Zenon DEF IInv, Locked, Working, Verify
  <2>2. lock = t
    BY <2>1, Zenon DEF IngestInv
  <2>3. NoneOn(Asset(t))
    BY <1>4, <2>1, NothingOn, Zenon DEF Moves
  <2>4. Row(Asset(t), Content(t), "staged")
    BY <1>4, <2>1, Zenon DEF IngestInv, RowInv
  <2>5. \A a, x : Row(a, x, "published") => a # Asset(t)
    BY <2>4, Zenon DEF Row
  <2>6. ASSUME NEW i \in 1 .. Len(queue), queue[i].kind = "call",
               queue[i].command.kind # "lookup"
        PROVE  Spared(queue[i])
    <3>1. queue[i].command.asset # Asset(t)
      BY <2>3, <2>6, Zenon DEF NoneOn, Changes
    <3> QED
      BY <1>1, <1>2, <1>4, <3>1, Zenon DEF Spared, IsStaged, Moves
  <2> QED
    BY <1>1, <1>4, <2>2, <2>5, <2>6, Zenon DEF RowsStay
<1> QED
  BY <1>3, <1>4, Zenon DEF Moves, Touches

\* What a step of t beside the queue has to show for the invariant to be kept.
LEMMA MovesKeep ==
  ASSUME IInv, NEW t \in Tasks, Moves(t),
         t \in Ingesters => IngestInv(t)', t \in Readers => ReadInv(t)'
  PROVE  IInv'
<1> USE MovesSpare
<1>1. Shape'
  BY Zenon DEF IInv, Shape, Moves
<1>2. PhaseInv'
  BY Zenon DEF IInv, PhaseInv, Moves
<1>3. ASSUME NEW s \in Ingesters PROVE IngestInv(s)'
  <2>1. CASE s = t
    BY <2>1, Zenon
  <2>2. CASE s # t
    <3>1. IngestInv(s) /\ Kept(s) /\ (lock' = s <=> lock = s)
      BY <2>2, Zenon DEF IInv, Moves, Others, Tasks
    <3>2. at[s] \in Locked => Undisturbed(s, Asset(s))
      BY <2>2, <3>1, Zenon DEF IngestInv
    <3> QED
      BY <3>1, <3>2, IngestKept, Zenon DEF Locked, Relies
  <2> QED
    BY <2>1, <2>2, Zenon
<1>4. ASSUME NEW s \in Readers PROVE ReadInv(s)'
  <2>1. CASE s = t
    BY <2>1, Zenon
  <2>2. CASE s # t
    BY <2>2, ReadKept, Zenon DEF IInv, Moves, Others, Tasks
  <2> QED
    BY <2>1, <2>2, Zenon
<1>5. QueueInv'
  BY QueueSame, Zenon DEF IInv, Moves, Answerable
<1>6. StagedInv'
  <2> SUFFICES ASSUME NEW a \in DOMAIN rows, IsStaged(rows, a), a \notin aborted'
               PROVE  /\ lock' \in Ingesters /\ at'[lock'] \in Verify
                      /\ Asset(lock)' = a
    BY Zenon DEF StagedInv, Moves
  <2>1. lock \in Ingesters /\ at[lock] \in Verify /\ Asset(lock) = a
    BY Zenon DEF IInv, StagedInv, Moves, Answerable
  <2>2. CASE lock = t
    BY <2>1, <2>2, Zenon DEF Moves, Answerable, Asset
  <2>3. CASE lock # t
    BY <2>1, <2>3 DEF Moves, Others, Kept, Asset, Tasks
  <2> QED
    BY <2>2, <2>3, Zenon
<1>7. LateInv'
  BY Zenon DEF IInv, LateInv, Moves, Answerable
<1>8. PublishedHasBlob'
  BY Zenon DEF IInv, PublishedHasBlob, Published, Verified, Row, HasBlob, Moves
<1>9. AckedStaysPublished'
  BY Zenon DEF IInv, AckedStaysPublished, Published, Row, Moves
<1> QED
  BY <1>1, <1>2, <1>3, <1>4, <1>5, <1>6, <1>7, <1>8, <1>9, Zenon DEF IInv

-----------------------------------------------------------------------------
(* The steps of an ingest and of a read beside the queue.                  *)

\* What a step of t does to the calls, and to the positions, of the others.
CallsOnly(t) ==
  /\ pc' \in [Tasks -> Phases] /\ DOMAIN cmd' = Tasks /\ DOMAIN answer' = Tasks
  /\ \A s \in Tasks : s # t =>
       pc'[s] = pc[s] /\ cmd'[s] = cmd[s] /\ answer'[s] = answer[s]
StepsOnly(t) ==
  /\ DOMAIN at' = Tasks /\ DOMAIN want' = Tasks
  /\ \A s \in Tasks : s # t => at'[s] = at[s] /\ want'[s] = want[s]
Still ==
  /\ queue' = queue /\ rows' = rows /\ disk' = disk
  /\ blobs' = blobs /\ late' = late
  /\ phase' = phase /\ doubtful' = doubtful

\* Only an open store has tasks under way.
LEMMA IsOpen ==
  ASSUME IInv, NEW t \in Tasks, held \/ at[t] # "idle" \/ pc[t] # "idle"
  PROVE  phase = "open"
<1>1. at[t] = "idle" => pc[t] = "idle"
  BY Zenon DEF IInv, IngestInv, ReadInv, Calling, Tasks
<1> QED
  BY <1>1, Zenon DEF IInv, PhaseInv

\* What a call of the worker changes.
LEMMA CallFacts ==
  ASSUME Shape, NEW t \in Tasks, NEW command, Call(t, command)
  PROVE  /\ held /\ pc[t] = "idle" /\ pc'[t] = "called" /\ cmd'[t] = <<command>>
         /\ CallsOnly(t) /\ queue' = queue
BY Zenon DEF Shape, Call, CallsOnly, Phases

\* What the return of a call changes.
LEMMA ReturnFacts ==
  ASSUME Shape, NEW t \in Tasks, Return(t)
  PROVE  pc[t] = "answered" /\ pc'[t] = "idle" /\ CallsOnly(t) /\ queue' = queue
BY Zenon DEF Shape, Return, CallsOnly, Phases

\* What the end of an ingest or a read changes.
LEMMA FinishFacts ==
  ASSUME Shape, PhaseInv, NEW t \in Tasks, Finish(t)
  PROVE  /\ at'[t] = "idle" /\ StepsOnly(t)
         /\ lock' \in Ingesters \cup {NoTask} /\ (t \in Ingesters => lock' # t)
         /\ \A s \in Ingesters : s # t => (lock' = s <=> lock = s)
BY RolesAssumption, Zenon DEF Shape, PhaseInv, Finish, StepsOnly

\* A task that is idle relies on nothing.
LEMMA IdleOK ==
  ASSUME NEW t \in Tasks, at'[t] = "idle", pc'[t] = "idle"
  PROVE  (lock' # t => IngestInv(t)') /\ ReadInv(t)'
BY Zenon DEF IngestInv, ReadInv, AloneInv, RowInv, Locked, Working, Verify, Calling

\* A task may finish once it is not answerable for a staged row any more.
LEMMA FinishKeeps ==
  ASSUME IInv, NEW t \in Tasks, at[t] # "idle", pc[t] # "waiting",
         Finish(t), pc'[t] = "idle", CallsOnly(t), queue' = queue,
         rows' = rows, disk' = disk, phase' = phase, doubtful' = doubtful,
         Touches(t), aborted \subseteq aborted',
         lock = t /\ at[t] \in Verify /\ IsStaged(rows, Asset(t)) =>
           Asset(t) \in aborted',
         \A o \in late' \ late : o.asset \in aborted' /\ IsStaged(rows, o.asset),
         \A d \in acked' \ acked : Row(d.asset, d.content, "published")
  PROVE  IInv'
<1>1. /\ at'[t] = "idle" /\ StepsOnly(t)
      /\ lock' \in Ingesters \cup {NoTask} /\ (t \in Ingesters => lock' # t)
      /\ \A s \in Ingesters : s # t => (lock' = s <=> lock = s)
  BY FinishFacts, Zenon DEF IInv
<1>2. phase = "open"
  BY IsOpen, Zenon
<1>3. Others(t)
  BY <1>1, Zenon DEF Others, Kept, CallsOnly, StepsOnly
<1>4. disk = [rows |-> disk.rows, blobs |-> disk.blobs]
  BY Zenon DEF IInv, Shape
<1>5. Moves(t)
  BY <1>1, <1>2, <1>3, <1>4, Zenon DEF Moves, Answerable, CallsOnly, StepsOnly
<1> QED
  BY <1>1, <1>5, IdleOK, MovesKeep, Zenon

\* A step that touches neither the queue nor files and finishes nothing.
LEMMA StillMoves ==
  ASSUME IInv, NEW t \in Tasks, phase = "open", pc[t] # "waiting",
         CallsOnly(t), StepsOnly(t), Still, UNCHANGED <<acked, aborted>>,
         lock' \in Ingesters \cup {NoTask},
         \A s \in Ingesters : s # t => (lock' = s <=> lock = s),
         lock = t /\ at[t] \in Verify =>
           lock' = t /\ at'[t] \in Verify /\ want'[t] = want[t]
  PROVE  Moves(t)
<1>1. Others(t)
  BY Zenon DEF Others, Kept, CallsOnly, StepsOnly
<1>2. disk = [rows |-> disk.rows, blobs |-> disk.blobs]
  BY Zenon DEF IInv, Shape
<1> QED
  BY <1>1, <1>2, Zenon DEF Moves, Touches, Answerable, CallsOnly, StepsOnly, Still

\* Rows stay as they are for t while nothing changes them.
LEMMA RowsSame ==
  ASSUME rows' = rows
  PROVE  \A a : Absent(a)' = Absent(a) /\ \A x, st : Row(a, x, st)' = Row(a, x, st)
BY Zenon DEF Absent, Row

\* An ingest stays alone with its asset.
LEMMA StaysAlone ==
  ASSUME NEW t, AloneInv(t), at[t] \in Working, want'[t] = want[t],
         queue' = queue, late' = late
  PROVE  at'[t] # "looking" => AloneInv(t)'
BY Zenon DEF AloneInv, Asset, OwnOn, NoLate

\* ingest() begins.
LEMMA BeginKeeps ==
  ASSUME IInv, NEW t \in Ingesters, NEW a \in Assets, NEW x \in Contents,
         NEW bytes \in Contents, Begin(t, a, x, bytes)
  PROVE  IInv'
<1>1. t \in Tasks /\ IngestInv(t) /\ at[t] = "idle" /\ held
  BY Zenon DEF IInv, Tasks, Begin
<1>2. pc[t] = "idle" /\ lock # t
  BY <1>1, Zenon DEF IngestInv, Calling, Locked, Working, Verify
<1>3. /\ at'[t] = "locking" /\ StepsOnly(t)
      /\ want'[t] = <<[asset |-> a, content |-> x, bytes |-> bytes]>>
  BY <1>1, Zenon DEF Begin, IInv, Shape, StepsOnly
<1>4. CallsOnly(t) /\ Still /\ UNCHANGED <<acked, aborted, lock>> /\ pc' = pc
  BY <1>1, Zenon DEF Begin, callVars, fileVars, history, CallsOnly, Still, IInv, Shape
<1>5. Moves(t)
  BY <1>1, <1>2, <1>3, <1>4, IsOpen, StillMoves, Zenon DEF IInv, PhaseInv
<1>6. Asset(t)' = a /\ Content(t)' = x
  BY <1>3 DEF Asset, Content
<1>7. IngestInv(t)'
  BY <1>2, <1>3, <1>4, <1>6, Zenon
     DEF IngestInv, AloneInv, RowInv, Locked, Working, Verify, Calling
<1> QED
  BY <1>1, <1>5, <1>7, MovesKeep, RolesAssumption, Zenon

\* ingest() gets the lock and looks its asset up.
LEMMA LockKeeps ==
  ASSUME IInv, NEW t \in Ingesters, Lock(t)
  PROVE  IInv'
<1>1. t \in Tasks /\ IngestInv(t) /\ at[t] = "locking" /\ lock = NoTask /\ lock' = t
  BY Zenon DEF IInv, Tasks, Lock
<1>2. at'[t] = "looking" /\ StepsOnly(t) /\ want' = want
  BY <1>1, Zenon DEF Lock, GoCall, IInv, Shape, StepsOnly
<1>3. /\ pc[t] = "idle" /\ pc'[t] = "called" /\ CallsOnly(t) /\ queue' = queue
      /\ cmd'[t] = <<[kind |-> "lookup", asset |-> Asset(t)]>>
  BY <1>1, CallFacts, Zenon DEF Lock, GoCall, IInv
<1>4. Still /\ UNCHANGED <<acked, aborted>>
  BY <1>3, Zenon DEF Lock, fileVars, history, Still
<1>5. Moves(t)
  BY <1>1, <1>2, <1>3, <1>4, IsOpen, StillMoves, RolesAssumption, Zenon
<1>6. /\ Asset(t)' = Asset(t) /\ Content(t)' = Content(t)
      /\ Asset(t) \in Assets /\ Content(t) \in Contents
  BY <1>1, <1>2, Zenon DEF Asset, Content, IngestInv
<1>7. IngestInv(t)'
  BY <1>1, <1>2, <1>3, <1>6, Zenon DEF IngestInv, AloneInv, RowInv, FoundInv, Told,
     CommandAt, Locked, Working, Verify, Calling
<1> QED
  BY <1>1, <1>5, <1>7, MovesKeep, RolesAssumption, Zenon

\* The lookup returns: the asset is unknown, or the ingest is over.
LEMMA LookedKeeps ==
  ASSUME IInv, NEW t \in Ingesters, Looked(t)
  PROVE  IInv'
<1>1. t \in Tasks /\ IngestInv(t) /\ at[t] = "looking" /\ lock = t
  BY Zenon DEF IInv, Tasks, Looked, Returned, IngestInv, Locked
<1>2. pc[t] = "answered" /\ pc'[t] = "idle" /\ CallsOnly(t) /\ queue' = queue
  BY <1>1, ReturnFacts, Zenon DEF IInv, Looked, Returned
<1>3. Still /\ aborted' = aborted
  BY <1>2, Zenon DEF Looked, fileVars, Still
<1>4. CASE Tag(t) = "none"
  <2>1. /\ at' = [at EXCEPT ![t] = "writing"]
        /\ UNCHANGED <<lock, want, acked>>
    BY <1>4, Zenon DEF Looked
  <2>2. at'[t] = "writing" /\ StepsOnly(t) /\ want'[t] = want[t]
    BY <1>1, <2>1, Zenon DEF IInv, Shape, StepsOnly
  <2>3. Moves(t)
    <3>1. phase = "open"
      BY <1>1, IsOpen, Zenon
    <3>2. lock' \in Ingesters \cup {NoTask} /\ at[t] \notin Verify
      BY <1>1, <2>1, Zenon DEF Verify
    <3> QED
      BY <1>1, <1>2, <1>3, <2>1, <2>2, <3>1, <3>2, StillMoves, Zenon
  <2>4. Absent(Asset(t)) /\ NoneOn(Asset(t)) /\ NoLate(Asset(t))
    BY <1>1, <1>2, <1>4, Zenon DEF IngestInv, AloneInv, Told
  <2>5. /\ Asset(t)' = Asset(t) /\ Content(t)' = Content(t)
        /\ Asset(t) \in Assets /\ Content(t) \in Contents
    BY <1>1, <2>2, Zenon DEF Asset, Content, IngestInv
  <2>6. AloneInv(t)'
    BY <1>3, <2>2, <2>4, <2>5, Zenon DEF AloneInv, Still, NoneOn, OwnOn, NoLate
  <2>7. RowInv(t)'
    BY <1>3, <2>2, <2>4, <2>5, Zenon DEF RowInv, Still, Absent
  <2>8. IngestInv(t)'
    BY <1>1, <1>2, <2>1, <2>2, <2>5, <2>6, <2>7, Zenon
       DEF IngestInv, Locked, Working, Verify, Calling
  <2> QED
    BY <1>1, <2>3, <2>8, MovesKeep, RolesAssumption, Zenon
<1>5. CASE Tag(t) # "none"
  <2>1. /\ Finish(t)
        /\ acked' = IF Tag(t) = "found"
                       /\ answer[t][1].row = [content |-> Content(t),
                                              state |-> "published"]
                    THEN Acked(t) ELSE acked
    BY <1>5, Zenon DEF Looked
  <2>2. ASSUME NEW d \in acked' \ acked
        PROVE  Row(d.asset, d.content, "published")
    <3>1. /\ Tag(t) = "found" /\ d = [asset |-> Asset(t), content |-> Content(t)]
          /\ answer[t][1].row = [content |-> Content(t), state |-> "published"]
      BY <2>1, <2>2, Zenon DEF Acked
    <3>2. cmd[t][1].asset = Asset(t)
      BY <1>1 DEF IngestInv, CommandAt, Calling
    <3>3. FoundInv(t)
      BY <1>1, Zenon DEF IngestInv
    <3> QED
      BY <1>2, <3>1, <3>2, <3>3 DEF FoundInv, Told
  <2>3. at[t] \notin Verify /\ at[t] # "idle"
    BY <1>1, Zenon DEF Verify
  <2> QED
    BY <1>1, <1>2, <1>3, <2>1, <2>2, <2>3, FinishKeeps, Zenon DEF Still, Touches
<1> QED
  BY <1>4, <1>5, Zenon

\* An ingest past its lookup calls the worker and goes on to step.
LEMMA WorkCall ==
  ASSUME IInv, NEW t \in Ingesters, at[t] \in Working, NEW step, NEW command,
         GoCall(t, step, command), lock' = lock, want' = want, rows' = rows,
         late' = late, UNCHANGED <<phase, history>>, disk'.rows = disk.rows,
         disk' = [rows |-> disk'.rows, blobs |-> disk'.blobs], Touches(t),
         step \in {"staging", "publishing", "removing"},
         command = CommandAt(t, step),
         want[t][1].bytes = Content(t),
         step = "staging" => at[t] = "writing",
         step # "staging" => at[t] \in {"renaming", "quarantining"},
         step = "publishing" => HasBlob(Asset(t), Content(t))'
  PROVE  IInv'
<1>1. t \in Tasks /\ IngestInv(t) /\ lock = t /\ at[t] # "idle"
  BY Zenon DEF IInv, Tasks, IngestInv, Locked, Working, Verify
<1>2. at'[t] = step /\ StepsOnly(t)
  BY <1>1, Zenon DEF GoCall, IInv, Shape, StepsOnly
<1>3. /\ pc[t] = "idle" /\ pc'[t] = "called" /\ CallsOnly(t) /\ queue' = queue
      /\ cmd'[t] = <<command>>
  BY <1>1, CallFacts, Zenon DEF GoCall, IInv
<1>4. Moves(t)
  <2>1. phase = "open"
    BY <1>1, IsOpen, Zenon
  <2>2. Others(t)
    BY <1>2, <1>3, Zenon DEF Others, Kept, CallsOnly, StepsOnly
  <2>3. Answerable(t)
    BY <1>1, <1>2, Zenon DEF Answerable, history, Verify
  <2> QED
    BY <1>1, <1>2, <1>3, <2>1, <2>2, <2>3, Zenon DEF Moves, CallsOnly, StepsOnly, history
<1>5. /\ Asset(t)' = Asset(t) /\ Content(t)' = Content(t)
      /\ Asset(t) \in Assets /\ Content(t) \in Contents
  BY <1>1, Zenon DEF Asset, Content, IngestInv
<1>6. AloneInv(t)'
  BY <1>1, <1>2, <1>3, StaysAlone, Zenon DEF IngestInv
<1>7. RowInv(t)'
  <2>1. /\ step = "staging" => Absent(Asset(t))
        /\ step # "staging" => Row(Asset(t), Content(t), "staged")
    BY <1>1, Zenon DEF IngestInv, RowInv
  <2>2. \A tag : ~Told(t, tag)'
    BY <1>3, Zenon DEF Told
  <2> QED
    BY <1>2, <1>5, <2>1, <2>2, RowsSame, Zenon DEF RowInv
<1>8. cmd'[t] = <<CommandAt(t, at[t])>>'
  BY <1>2, <1>3, <1>5, Zenon DEF CommandAt
<1> QED
  <2>1. IngestInv(t)'
    BY <1>1, <1>2, <1>3, <1>5, <1>6, <1>7, <1>8, Zenon
       DEF IngestInv, Locked, Working, Verify, Calling
  <2> QED
    BY <1>1, <1>4, <2>1, MovesKeep, RolesAssumption, Zenon

\* The staging file is written, or the source fails.
LEMMA WriteKeeps ==
  ASSUME IInv, NEW t \in Ingesters, WriteStaging(t) \/ WriteFails(t)
  PROVE  IInv'
<1>1. t \in Tasks /\ IngestInv(t) /\ at[t] = "writing" /\ at[t] \in Working
  BY Zenon DEF IInv, Tasks, WriteStaging, WriteFails, Working
<1>2. disk = [rows |-> disk.rows, blobs |-> disk.blobs]
  BY Zenon DEF IInv, Shape
<1>3. CASE WriteStaging(t)
  BY <1>1, <1>2, <1>3, WorkCall, Zenon DEF WriteStaging, fileVars, Touches, CommandAt
<1>4. CASE WriteFails(t)
  <2>1. pc[t] = "idle" /\ at[t] \notin Verify
    BY <1>1, Zenon DEF IngestInv, Calling, Verify
  <2>2. pc' = pc /\ CallsOnly(t) /\ Still /\ UNCHANGED <<acked, aborted>> /\ Finish(t)
    BY <1>4, Zenon DEF WriteFails, callVars, fileVars, history, CallsOnly, Still, IInv, Shape
  <2> QED
    BY <1>1, <2>1, <2>2, FinishKeeps, Zenon DEF Still, Touches
<1> QED
  BY <1>3, <1>4, Zenon

\* A call of an ingest has returned, and it goes on to step with its row staged.
LEMMA WorkReturn ==
  ASSUME IInv, NEW t \in Ingesters, at[t] \in Verify, Return(t), NEW step,
         at' = [at EXCEPT ![t] = step], UNCHANGED <<lock, want, acked, aborted>>,
         Still, step \in {"renaming", "quarantining"},
         Row(Asset(t), Content(t), "staged")
  PROVE  IInv'
<1>1. t \in Tasks /\ IngestInv(t) /\ lock = t /\ at[t] # "idle" /\ at[t] \in Working
  BY Zenon DEF IInv, Tasks, IngestInv, Locked, Working, Verify
<1>2. pc[t] = "answered" /\ pc'[t] = "idle" /\ CallsOnly(t) /\ queue' = queue
  BY <1>1, ReturnFacts, Zenon DEF IInv
<1>3. at'[t] = step /\ StepsOnly(t) /\ want'[t] = want[t]
  BY <1>1, Zenon DEF IInv, Shape, StepsOnly
<1>4. Moves(t)
  <2>1. phase = "open"
    BY <1>1, IsOpen, Zenon
  <2>2. lock' = t /\ at'[t] \in Verify /\ lock' \in Ingesters \cup {NoTask}
    BY <1>1, <1>3, Zenon DEF Verify
  <2> QED
    BY <1>1, <1>2, <1>3, <2>1, <2>2, StillMoves, Zenon
<1>5. /\ Asset(t)' = Asset(t) /\ Content(t)' = Content(t)
      /\ want'[t][1].bytes = want[t][1].bytes
      /\ Asset(t) \in Assets /\ Content(t) \in Contents
  BY <1>1, <1>3, Zenon DEF Asset, Content, IngestInv
<1>6. AloneInv(t)'
  BY <1>1, <1>2, <1>3, StaysAlone, Zenon DEF IngestInv, Still
<1>7. RowInv(t)'
  BY <1>3, <1>5, RowsSame, Zenon DEF RowInv, Still
<1>8. IngestInv(t)'
  BY <1>1, <1>2, <1>3, <1>5, <1>6, <1>7, Zenon
     DEF IngestInv, Locked, Working, Verify, Calling
<1> QED
  BY <1>1, <1>4, <1>8, MovesKeep, RolesAssumption, Zenon

\* The stage command returns: the row is inserted, or the ingest is over.
LEMMA StagedKeeps ==
  ASSUME IInv, NEW t \in Ingesters, Staged(t)
  PROVE  IInv'
<1>1. /\ t \in Tasks /\ IngestInv(t) /\ at[t] = "staging" /\ Return(t)
      /\ at[t] \in Verify /\ at[t] # "idle"
  BY Zenon DEF IInv, Tasks, Staged, Returned, Verify
<1>2. pc[t] = "answered" /\ pc'[t] = "idle" /\ CallsOnly(t) /\ queue' = queue
  BY <1>1, ReturnFacts, Zenon DEF IInv
<1>3. Still /\ aborted' = aborted
  BY <1>2, Zenon DEF Staged, fileVars, Still
<1>4. CASE Tag(t) = "inserted"
  <2>1. Row(Asset(t), Content(t), "staged")
    BY <1>1, <1>2, <1>4, Zenon DEF IngestInv, RowInv, Told
  <2>2. at' = [at EXCEPT ![t] = "renaming"] /\ UNCHANGED <<lock, want, acked>>
    BY <1>4, Zenon DEF Staged
  <2> QED
    BY <1>1, <1>3, <2>1, <2>2, WorkReturn, Zenon
<1>5. CASE Tag(t) # "inserted"
  <2>1. Absent(Asset(t)) /\ Tag(t) # "existing"
    BY <1>1, <1>2, <1>5, Zenon DEF IngestInv, RowInv, Told
  <2>2. Finish(t) /\ acked' = acked
    BY <1>5, <2>1, Zenon DEF Staged
  <2>3. ~IsStaged(rows, Asset(t))
    BY <2>1, Zenon DEF Absent, IsStaged
  <2> QED
    BY <1>1, <1>2, <1>3, <2>2, <2>3, FinishKeeps, Zenon DEF Still, Touches
<1> QED
  BY <1>4, <1>5, Zenon

\* Files move beside the rows.
LEMMA MoveFacts ==
  ASSUME Shape, NEW new, Move(new)
  PROVE  /\ blobs' = new /\ disk'.rows = disk.rows
         /\ disk' = [rows |-> disk'.rows, blobs |-> disk'.blobs]
<1>1. disk = [rows |-> disk.rows, blobs |-> disk.blobs]
  BY Zenon DEF Shape
<1>2. PICK r, b : disk = [rows |-> r, blobs |-> b]
  BY <1>1, Zenon
<1>3. disk' = disk \/ disk' = [rows |-> r, blobs |-> new]
  BY <1>2, Zenon DEF Move
<1> QED
  BY <1>1, <1>2, <1>3, Zenon DEF Move

\* Replacing or removing one blob leaves the others.
LEMMA BlobFacts ==
  ASSUME NEW a, NEW y, blobs' = Set(blobs, a, y) \/ blobs' = Without(blobs, {a})
  PROVE  /\ \A b, x : b # a /\ HasBlob(b, x) => HasBlob(b, x)'
         /\ blobs' = Set(blobs, a, y) => HasBlob(a, y)'
BY Zenon DEF Set, Without, Restrict, HasBlob

\* The staging file is renamed to its blob, and the row is to be published.
LEMMA RenameKeeps ==
  ASSUME IInv, NEW t \in Ingesters, Rename(t)
  PROVE  IInv'
<1>1. IngestInv(t) /\ at[t] = "renaming" /\ at[t] \in Working /\ at[t] \in Verify
  BY Zenon DEF IInv, Rename, Working, Verify
<1>2. want[t][1].bytes = Content(t)
  BY <1>1, Zenon DEF IngestInv
<1>3. /\ blobs' = Set(blobs, Asset(t), Content(t)) /\ disk'.rows = disk.rows
      /\ disk' = [rows |-> disk'.rows, blobs |-> disk'.blobs]
  BY <1>2, MoveFacts, Zenon DEF IInv, Rename
<1>4. PICK a, x : a = Asset(t) /\ x = Content(t)
  BY Zenon
<1>5. a = Asset(t)' /\ x = Content(t)'
  BY <1>4, Zenon DEF Rename, Asset, Content
<1>6. (\A b, y : b # a /\ HasBlob(b, y) => HasBlob(b, y)') /\ HasBlob(a, x)'
  BY <1>3, <1>4, BlobFacts, Zenon
<1>7. Touches(t)
  BY <1>1, <1>4, <1>6, Zenon DEF Rename, Touches, NoLate
<1>8. HasBlob(Asset(t), Content(t))'
  BY <1>5, <1>6, Zenon DEF HasBlob
<1> QED
  BY <1>1, <1>2, <1>3, <1>7, <1>8, WorkCall, Zenon DEF Rename, CommandAt

\* The rename fails, or the blob goes to quarantine: the row is to be removed.
LEMMA RemoveKeeps ==
  ASSUME IInv, NEW t \in Ingesters, RenameFails(t) \/ Quarantine(t)
  PROVE  IInv'
<1>1. /\ IngestInv(t) /\ at[t] \in {"renaming", "quarantining"}
      /\ at[t] \in Working /\ at[t] \in Verify
  BY Zenon DEF IInv, RenameFails, Quarantine, Working, Verify
<1>2. want[t][1].bytes = Content(t)
  BY <1>1, Zenon DEF IngestInv
<1>3. disk = [rows |-> disk.rows, blobs |-> disk.blobs]
  BY Zenon DEF IInv, Shape
<1>4. CASE RenameFails(t)
  BY <1>1, <1>2, <1>3, <1>4, WorkCall, Zenon DEF RenameFails, fileVars, Touches, CommandAt
<1>5. CASE Quarantine(t) /\ UNCHANGED <<blobs, disk>>
  BY <1>1, <1>2, <1>3, <1>5, WorkCall, Zenon DEF Quarantine, Touches, CommandAt
<1>6. CASE Quarantine(t) /\ Move(Without(blobs, {Asset(t)}))
  <2>1. /\ blobs' = Without(blobs, {Asset(t)}) /\ disk'.rows = disk.rows
        /\ disk' = [rows |-> disk'.rows, blobs |-> disk'.blobs]
    BY <1>6, MoveFacts, Zenon DEF IInv
  <2>2. \A b, y : b # Asset(t) /\ HasBlob(b, y) => HasBlob(b, y)'
    BY <2>1, BlobFacts, Zenon
  <2>3. Touches(t)
    BY <1>1, <1>6, <2>2, Zenon DEF Quarantine, Touches, NoLate
  <2> QED
    BY <1>1, <1>2, <1>6, <2>1, <2>3, WorkCall, Zenon DEF Quarantine, CommandAt
<1> QED
  BY <1>4, <1>5, <1>6, Zenon DEF Quarantine

\* The publish command returns: the asset is published, or goes to quarantine.
LEMMA PublishReturnedKeeps ==
  ASSUME IInv, NEW t \in Ingesters, PublishReturned(t)
  PROVE  IInv'
<1>1. /\ t \in Tasks /\ IngestInv(t) /\ at[t] = "publishing" /\ Return(t)
      /\ at[t] \in Verify /\ at[t] # "idle"
  BY Zenon DEF IInv, Tasks, PublishReturned, Returned, Verify
<1>2. pc[t] = "answered" /\ pc'[t] = "idle" /\ CallsOnly(t) /\ queue' = queue
  BY <1>1, ReturnFacts, Zenon DEF IInv
<1>3. Still /\ aborted' = aborted
  BY <1>2, Zenon DEF PublishReturned, fileVars, Still
<1>4. CASE Tag(t) # "done"
  <2>1. Row(Asset(t), Content(t), "staged")
    BY <1>1, <1>2, <1>4, Zenon DEF IngestInv, RowInv, Told
  <2>2. at' = [at EXCEPT ![t] = "quarantining"] /\ UNCHANGED <<lock, want, acked>>
    BY <1>4, Zenon DEF PublishReturned
  <2> QED
    BY <1>1, <1>3, <2>1, <2>2, WorkReturn, Zenon
<1>5. CASE Tag(t) = "done"
  <2>1. Row(Asset(t), Content(t), "published")
    BY <1>1, <1>2, <1>5, Zenon DEF IngestInv, RowInv, Told
  <2>2. Finish(t) /\ acked' = Acked(t)
    BY <1>5, Zenon DEF PublishReturned
  <2>3. ~IsStaged(rows, Asset(t))
    BY <2>1, Zenon DEF Row, IsStaged
  <2>4. \A d \in acked' \ acked : Row(d.asset, d.content, "published")
    BY <2>1, <2>2 DEF Acked
  <2> QED
    BY <1>1, <1>2, <1>3, <2>2, <2>3, <2>4, FinishKeeps, Zenon DEF Still, Touches
<1> QED
  BY <1>4, <1>5, Zenon

\* The remove command returns: the row is gone, or its asset aborted.
LEMMA RemovedKeeps ==
  ASSUME IInv, NEW t \in Ingesters, Removed(t)
  PROVE  IInv'
<1>1. /\ t \in Tasks /\ IngestInv(t) /\ at[t] = "removing" /\ Return(t)
      /\ at[t] # "idle"
  BY Zenon DEF IInv, Tasks, Removed, Returned
<1>2. pc[t] = "answered" /\ pc'[t] = "idle" /\ CallsOnly(t) /\ queue' = queue
  BY <1>1, ReturnFacts, Zenon DEF IInv
<1>3. Still /\ acked' = acked /\ Finish(t) /\ aborted \subseteq aborted'
  BY <1>2, Zenon DEF Removed, fileVars, Still
<1>4. IsStaged(rows, Asset(t)) => Asset(t) \in aborted'
  BY <1>1, <1>2, Zenon DEF IngestInv, RowInv, Told, Absent, IsStaged, Removed
<1> QED
  BY <1>1, <1>2, <1>3, <1>4, FinishKeeps, Zenon DEF Still, Touches

\* read_range() begins with its lookup.
LEMMA ReadBeginKeeps ==
  ASSUME IInv, NEW t \in Readers, NEW a \in Assets, ReadBegin(t, a)
  PROVE  IInv'
<1>1. t \in Tasks /\ ReadInv(t) /\ at[t] = "idle" /\ at[t] \notin Verify
  BY Zenon DEF IInv, Tasks, ReadBegin, Verify
<1>2. at'[t] = "finding" /\ StepsOnly(t)
  BY <1>1, Zenon DEF ReadBegin, GoCall, IInv, Shape, StepsOnly
<1>3. /\ held /\ pc[t] = "idle" /\ pc'[t] = "called" /\ CallsOnly(t)
      /\ queue' = queue /\ cmd'[t] = <<[kind |-> "lookup", asset |-> a]>>
  BY <1>1, CallFacts, Zenon DEF ReadBegin, GoCall, IInv
<1>4. Still /\ UNCHANGED <<acked, aborted, lock>>
  BY <1>3, Zenon DEF ReadBegin, fileVars, history, Still
<1>5. Moves(t)
  BY <1>1, <1>2, <1>3, <1>4, IsOpen, StillMoves, Zenon DEF IInv, PhaseInv
<1>6. ReadInv(t)'
  BY <1>2, <1>3, Zenon DEF ReadInv, FoundInv, Told
<1> QED
  BY <1>1, <1>5, <1>6, MovesKeep, RolesAssumption, Zenon

\* The lookup of a read returns: the asset is published, or the read is over.
LEMMA ReadFoundKeeps ==
  ASSUME IInv, NEW t \in Readers, ReadFound(t)
  PROVE  IInv'
<1>1. /\ t \in Tasks /\ ReadInv(t) /\ Return(t)
      /\ at[t] = "finding" /\ at[t] \notin Verify
  BY Zenon DEF IInv, Tasks, ReadFound, Returned, Verify
<1>2. pc[t] = "answered" /\ pc'[t] = "idle" /\ CallsOnly(t) /\ queue' = queue
  BY <1>1, ReturnFacts, Zenon DEF IInv
<1>3. Still /\ UNCHANGED <<acked, aborted, lock>>
  BY <1>2, Zenon DEF ReadFound, fileVars, history, Still
<1>4. StepsOnly(t)
  BY <1>1, Zenon DEF ReadFound, IInv, Shape, StepsOnly
<1>5. Moves(t)
  BY <1>1, <1>2, <1>3, <1>4, IsOpen, StillMoves, Zenon DEF IInv, PhaseInv
<1> SUFFICES ReadInv(t)'
  BY <1>1, <1>5, MovesKeep, RolesAssumption, Zenon
<1>6. CASE Tag(t) = "found" /\ answer[t][1].row.state = "published"
  <2>1. Row(cmd[t][1].asset, answer[t][1].row.content, "published")
    BY <1>1, <1>2, <1>6, Zenon DEF ReadInv, FoundInv, Told
  <2>2. /\ at'[t] = "opening" /\ Asset(t)' = cmd[t][1].asset
        /\ Content(t)' = answer[t][1].row.content
    BY <1>1, <1>6 DEF ReadFound, IInv, Shape, Asset, Content
  <2>3. Row(Asset(t), Content(t), "published")'
    BY <1>3, <2>1, <2>2, Zenon DEF Row, Still
  <2> QED
    BY <1>2, <2>2, <2>3, Zenon DEF ReadInv
<1>7. CASE ~(Tag(t) = "found" /\ answer[t][1].row.state = "published")
  <2>1. at'[t] = "idle"
    BY <1>1, <1>7, Zenon DEF ReadFound, IInv, Shape
  <2> QED
    BY <1>1, <1>2, <2>1, IdleOK, Zenon
<1> QED
  BY <1>6, <1>7, Zenon

\* The blob is read, and the read is over.
LEMMA ReadBlobKeeps ==
  ASSUME IInv, NEW t \in Readers, ReadBlob(t)
  PROVE  IInv'
<1>1. t \in Tasks /\ ReadInv(t) /\ at[t] = "opening" /\ at[t] \notin Verify
  BY Zenon DEF IInv, Tasks, ReadBlob, Verify
<1>2. pc[t] = "idle" /\ at[t] # "idle"
  BY <1>1, Zenon DEF ReadInv, Shape, IInv, Phases
<1>3. pc' = pc /\ CallsOnly(t) /\ Still /\ UNCHANGED <<acked, aborted>> /\ Finish(t)
  BY Zenon DEF ReadBlob, callVars, fileVars, history, CallsOnly, Still, IInv, Shape
<1> QED
  BY <1>1, <1>2, <1>3, FinishKeeps, Zenon DEF Still, Touches

\* An ingest or a read is dropped beside its calls: a rename may go on, and
\* its asset counts as aborted.
LEMMA CancelFileKeeps ==
  ASSUME IInv, NEW t \in Tasks, CancelFile(t)
  PROVE  IInv'
<1>1. pc[t] = "idle" /\ at[t] # "idle"
  <2>1. t \in Ingesters => IngestInv(t)
    BY Zenon DEF IInv
  <2>2. t \in Readers => ReadInv(t)
    BY Zenon DEF IInv
  <2> QED
    BY <2>1, <2>2, Zenon DEF CancelFile, IngestInv, ReadInv, Calling, Tasks
<1>2. /\ pc' = pc /\ CallsOnly(t) /\ UNCHANGED <<acked, queue>> /\ Finish(t)
      /\ UNCHANGED <<rows, blobs, disk, phase, doubtful>>
      /\ aborted \subseteq aborted'
  BY Zenon DEF CancelFile, callVars, CallsOnly, IInv, Shape
<1>3. CASE at[t] \in {"renaming", "quarantining"}
  <2>1. t \in Ingesters
    BY <1>3, Zenon DEF IInv, ReadInv, Tasks
  <2>2. Row(Asset(t), Content(t), "staged")
    BY <1>3, <2>1, Zenon DEF IInv, IngestInv, RowInv
  <2>3. /\ late' = late \cup {[op |-> at[t], asset |-> Asset(t),
                              bytes |-> want[t][1].bytes]}
        /\ Asset(t) \in aborted'
    BY <1>3, Zenon DEF CancelFile
  <2>4. /\ Touches(t)
        /\ \A o \in late' \ late : o.asset \in aborted' /\ IsStaged(rows, o.asset)
    BY <1>2, <1>3, <2>1, <2>2, <2>3 DEF Touches, HasBlob, NoLate, Row, IsStaged
  <2> QED
    BY <1>1, <1>2, <2>3, <2>4, FinishKeeps, Zenon
<1>4. CASE at[t] \notin {"renaming", "quarantining"}
  <2>1. late' = late /\ at[t] \notin Verify
    BY <1>4, Zenon DEF CancelFile, Verify
  <2> QED
    BY <1>1, <1>2, <2>1, FinishKeeps, Zenon DEF Touches
<1> QED
  BY <1>3, <1>4, Zenon

-----------------------------------------------------------------------------
(* The calls of the worker.                                                *)

\* A step of the calls leaves the rest of the store alone.
Same == UNCHANGED <<rows, fileVars, lock, at, want, phase, history>>

\* What such a step keeps.
LEMMA SameRest ==
  ASSUME IInv, Same
  PROVE  /\ StagedInv' /\ LateInv' /\ PublishedHasBlob' /\ AckedStaysPublished'
         /\ RowsStay
         /\ phase = "open" => PhaseInv'
         /\ \A s \in Ingesters : lock' = s <=> lock = s
         /\ \A s : Asset(s)' = Asset(s) /\ Content(s)' = Content(s)
<1>1. /\ rows' = rows /\ blobs' = blobs /\ disk' = disk /\ late' = late
      /\ lock' = lock /\ at' = at /\ want' = want /\ phase' = phase
      /\ doubtful' = doubtful /\ acked' = acked /\ aborted' = aborted
  BY Zenon DEF Same, fileVars, history
<1>2. StagedInv' /\ LateInv'
  BY <1>1, Zenon DEF IInv, StagedInv, LateInv, IsStaged, Asset
<1>3. PublishedHasBlob' /\ AckedStaysPublished'
  BY <1>1, Zenon DEF IInv, PublishedHasBlob, AckedStaysPublished, Published, Verified
<1>4. RowsStay
  BY <1>1, Zenon DEF RowsStay, Row
<1>5. phase = "open" => PhaseInv'
  BY <1>1, Zenon DEF IInv, PhaseInv
<1> QED
  BY <1>1, <1>2, <1>3, <1>4, <1>5, Zenon DEF Asset, Content

\* A step in which at most t moves, put together.
LEMMA Together ==
  ASSUME IInv, Shape', PhaseInv', QueueInv', StagedInv', LateInv',
         PublishedHasBlob', AckedStaysPublished', RowsStay,
         NEW t, Others(t), t \in Ingesters => IngestInv(t)',
         t \in Readers => ReadInv(t)',
         \A s \in Ingesters : s # t => (lock' = s <=> lock = s),
         \A s \in Ingesters : s # t /\ Relies(s) => Undisturbed(s, Asset(s))
  PROVE  IInv'
<1>1. ASSUME NEW s \in Ingesters PROVE IngestInv(s)'
  <2>1. CASE s = t
    BY <2>1, Zenon
  <2>2. CASE s # t
    <3>1. IngestInv(s) /\ Kept(s) /\ (lock' = s <=> lock = s)
      BY <2>2, Zenon DEF IInv, Others, Tasks
    <3> QED
      BY <2>2, <3>1, IngestKept, Zenon
  <2> QED
    BY <2>1, <2>2, Zenon
<1>2. ASSUME NEW s \in Readers PROVE ReadInv(s)'
  <2>1. CASE s = t
    BY <2>1, Zenon
  <2>2. CASE s # t
    BY <2>2, ReadKept, Zenon DEF IInv, Others, Tasks
  <2> QED
    BY <2>1, <2>2, Zenon
<1> QED
  BY <1>1, <1>2, Zenon DEF IInv

\* The command that a task awaits: only the holder of the lock changes rows.
LEMMA AwaitedFacts ==
  ASSUME IInv, NEW t \in Tasks, pc[t] # "idle"
  PROVE  \E c \in AssetCommands :
           /\ cmd[t] = <<c>>
           /\ c.kind # "lookup" =>
                /\ t \in Ingesters /\ at[t] \in {"staging", "publishing", "removing"}
                /\ c = CommandAt(t, at[t]) /\ c.asset = Asset(t)
           /\ c.kind = "lookup" /\ t \in Ingesters =>
                at[t] = "looking" /\ c.asset = Asset(t)
           /\ t \in Ingesters => lock = t
<1>1. CASE t \in Ingesters
  <2>1. IngestInv(t) /\ at[t] \in Calling /\ at[t] # "idle"
    BY <1>1, Zenon DEF IInv, IngestInv, Calling
  <2>2. /\ Asset(t) \in Assets /\ Content(t) \in Contents /\ lock = t
        /\ cmd[t] = <<CommandAt(t, at[t])>>
        /\ at[t] \in {"looking", "staging", "publishing", "removing"}
    BY <2>1, Zenon DEF IngestInv, Calling, Locked, Working, Verify
  <2>3. /\ CommandAt(t, at[t]) \in AssetCommands
        /\ CommandAt(t, at[t]).asset = Asset(t)
        /\ CommandAt(t, at[t]).kind = "lookup" <=> at[t] = "looking"
    BY <2>2, Zenon DEF CommandAt, AssetCommands
  <2> QED
    BY <2>2, <2>3, <1>1, Zenon
<1>2. CASE t \notin Ingesters
  <2>1. PICK a \in Assets : cmd[t] = <<[kind |-> "lookup", asset |-> a]>>
    BY <1>2, Zenon DEF IInv, ReadInv, Tasks
  <2>2. [kind |-> "lookup", asset |-> a] \in AssetCommands
    BY Zenon DEF AssetCommands
  <2> QED
    BY <1>2, <2>1, <2>2, Zenon
<1> QED
  BY <1>1, <1>2, Zenon

\* What an answer tells the ingest or the read.
Telling == {"none", "found", "inserted", "existing", "done"}

\* A call goes on beside the queue, or is refused.
LEMMA CallGoesOn ==
  ASSUME IInv, NEW t \in Tasks, Same, CallsOnly(t), queue' = queue,
         pc[t] \notin {"idle", "waiting", "answered"}, pc'[t] # "idle",
         cmd' = cmd, \A tag \in Telling : ~Told(t, tag)'
  PROVE  IInv'
<1>1. phase = "open"
  BY IsOpen, Zenon
<1>2. /\ Still /\ UNCHANGED <<acked, aborted, lock, at, want>>
  BY Zenon DEF Same, Still, fileVars, history
<1>3. StepsOnly(t) /\ lock \in Ingesters \cup {NoTask}
  BY <1>2, Zenon DEF StepsOnly, IInv, Shape, PhaseInv
<1>4. Moves(t)
  BY <1>1, <1>2, <1>3, StillMoves, Zenon
<1>5. \A tag \in Telling : ~Told(t, tag)
  BY Zenon DEF Told
<1>6. \A a, x : HasBlob(a, x)' = HasBlob(a, x) /\ NoLate(a)' = NoLate(a)
  BY <1>2, Zenon DEF HasBlob, NoLate, Still
<1>7. Asset(t)' = Asset(t) /\ Content(t)' = Content(t)
      /\ CommandAt(t, at[t])' = CommandAt(t, at[t])
  BY <1>2, Zenon DEF Asset, Content, CommandAt
<1>8. ASSUME t \in Ingesters PROVE IngestInv(t)'
  <2>1. IngestInv(t)
    BY <1>8, Zenon DEF IInv
  <2>2. AloneInv(t)'
    BY <1>2, <1>5, <1>6, <1>7, <2>1, Zenon DEF IngestInv, AloneInv, OwnOn, Telling
  <2>3. RowInv(t)'
    BY <1>2, <1>5, <1>6, <1>7, <2>1, RowsSame, Zenon DEF IngestInv, RowInv, Telling, Still
  <2>4. FoundInv(t)'
    BY Zenon DEF FoundInv, Telling
  <2> QED
    BY <1>2, <1>7, <2>1, <2>2, <2>3, <2>4, Zenon DEF IngestInv
<1>9. ASSUME t \in Readers PROVE ReadInv(t)'
  <2>1. ReadInv(t)
    BY <1>9, Zenon DEF IInv
  <2>2. FoundInv(t)'
    BY Zenon DEF FoundInv, Telling
  <2> QED
    BY <1>2, <2>1, <2>2, Zenon DEF ReadInv
<1> QED
  BY <1>4, <1>8, <1>9, MovesKeep, Zenon

\* A refusal or a further step of dispatch().
LEMMA DispatchFacts ==
  ASSUME Shape, NEW t \in Tasks, NEW r \in Refusals, NEW step \in {"checked", "cloned"},
         Refuse(t, r) \/ Proceed(t, step)
  PROVE  /\ CallsOnly(t) /\ queue' = queue /\ pc'[t] # "idle" /\ cmd' = cmd
         /\ \A tag \in Telling : ~Told(t, tag)'
<1>1. CASE Refuse(t, r)
  <2>1. pc'[t] = "answered" /\ answer'[t] = <<r>> /\ cmd' = cmd /\ queue' = queue
    BY <1>1, Zenon DEF Refuse, Shape
  <2>2. CallsOnly(t)
    BY <1>1, Zenon DEF Refuse, Shape, CallsOnly, Phases
  <2>3. r.tag \notin Telling
    BY DEF Refusals, Closed, Unavailable, Full, Lost, Telling
  <2> QED
    BY <2>1, <2>2, <2>3 DEF Told, Tag
<1>2. CASE Proceed(t, step)
  BY <1>2, Zenon DEF Proceed, Shape, CallsOnly, Phases, Told
<1> QED
  BY <1>1, <1>2, Zenon

\* A message joins the queue.
LEMMA QueueGrows ==
  ASSUME Shape, QueueInv, NEW m \in Messages, queue' = Append(queue, m),
         \A i \in 1 .. Len(queue) : queue[i].kind = "call" => MessageInv(queue[i])',
         m.kind = "call" => MessageInv(m)',
         m.from \in Tasks => NoneFrom(m.from),
         \A a \in Assets : Changes(m, a) =>
           /\ NoneOn(a)
           /\ \A i \in 1 .. Len(queue) :
                ~(queue[i].from \in Ingesters /\ queue[i].command.kind = "lookup"
                    /\ queue[i].command.asset = a)
  PROVE  /\ QueueInv' /\ queue' \in Seq(Messages)
         /\ \A a : ~Changes(m, a) /\ NoneOn(a) => NoneOn(a)'
         /\ \A a, s : (m.from = s \/ ~Changes(m, a)) /\ OwnOn(s, a) => OwnOn(s, a)'
<1> DEFINE n == Len(queue)
<1>1. /\ queue \in Seq(Messages) /\ n \in Nat /\ queue' \in Seq(Messages)
      /\ Len(queue') = n + 1 /\ queue'[n + 1] = m
      /\ \A i \in 1 .. n : queue'[i] = queue[i]
  BY DEF Shape
<1>2. \A i \in 1 .. n + 1 : i = n + 1 \/ i \in 1 .. n
  BY <1>1
<1> HIDE DEF n
<1>3. \A i \in 1 .. n + 1 :
        (i = n + 1 /\ queue'[i] = m) \/ (i \in 1 .. n /\ queue'[i] = queue[i])
  BY <1>1, <1>2, Zenon
<1>4. \A i \in 1 .. n + 1 : queue'[i].kind = "call" => MessageInv(queue[i])'
  <2> SUFFICES ASSUME NEW i \in 1 .. n + 1, queue'[i].kind = "call"
               PROVE  MessageInv(queue[i])'
    BY Zenon
  <2>1. CASE i = n + 1
    <3>1. queue'[i] = m
      BY <1>1, <2>1, Zenon
    <3> QED
      BY <3>1, Zenon DEF MessageInv, Ready
  <2>2. CASE i \in 1 .. n
    BY <1>1, <2>2, Zenon DEF n
  <2> QED
    BY <1>2, <2>1, <2>2, Zenon
<1>5. ASSUME NEW i \in 1 .. n + 1, NEW j \in 1 .. n + 1,
             queue'[i].from \in Tasks, queue'[j].from = queue'[i].from
      PROVE  i = j
  BY <1>3, <1>5, Zenon DEF QueueInv, NoneFrom, n
<1>6. ASSUME NEW i \in 1 .. n + 1, NEW j \in 1 .. n + 1, NEW a \in Assets,
             Changes(queue'[i], a), Changes(queue'[j], a)
      PROVE  i = j
  BY <1>3, <1>6, Zenon DEF QueueInv, NoneOn, n
<1>7. ASSUME NEW i \in 1 .. n + 1, NEW j \in 1 .. n + 1,
             queue'[i].from \in Ingesters, queue'[i].command.kind = "lookup",
             Changes(queue'[j], queue'[i].command.asset)
      PROVE  j < i
  <2>1. CASE i = n + 1
    <3>1. ~Changes(queue'[i], queue'[i].command.asset)
      BY <1>7, Zenon DEF Changes
    <3> QED
      BY <1>1, <1>7, <2>1, <3>1
  <2>2. CASE i \in 1 .. n /\ j \in 1 .. n
    BY <1>1, <1>7, <2>2, Zenon DEF QueueInv, n
  <2>3. CASE i \in 1 .. n /\ j = n + 1
    <3>1. /\ queue[i].from \in Ingesters /\ queue[i].command.kind = "lookup"
          /\ Changes(m, queue[i].command.asset)
      BY <1>1, <1>7, <2>3, Zenon
    <3>2. queue[i].command.asset \in Assets
      BY <2>3, <3>1, MessageFacts, RolesAssumption, Zenon DEF n
    <3> QED
      BY <2>3, <3>1, <3>2, Zenon DEF n
  <2> QED
    BY <1>2, <2>1, <2>2, <2>3, Zenon
<1>8. QueueInv'
  BY <1>1, <1>4, <1>5, <1>6, <1>7, Zenon DEF QueueInv
<1>9. \A a : ~Changes(m, a) /\ NoneOn(a) => NoneOn(a)'
  BY <1>1, <1>3, Zenon DEF NoneOn, n
<1>10. \A a, s : (m.from = s \/ ~Changes(m, a)) /\ OwnOn(s, a) => OwnOn(s, a)'
  BY <1>1, <1>3, Zenon DEF OwnOn, n
<1> QED
  BY <1>1, <1>8, <1>9, <1>10, Zenon

\* What a message is about while the lookup of an ingest is in the queue.
LEMMA LookingFacts ==
  ASSUME IInv, NEW i \in 1 .. Len(queue), queue[i].from \in Ingesters
  PROVE  /\ queue[i].kind = "call" /\ lock = queue[i].from
         /\ cmd[queue[i].from] = <<queue[i].command>>
         /\ queue[i].command.kind = "lookup" => at[queue[i].from] = "looking"
<1>1. queue[i].kind = "call" /\ queue[i].from \in Tasks
  BY MessageFacts, RolesAssumption, Zenon DEF IInv, Tasks
<1>2. pc[queue[i].from] = "waiting" /\ cmd[queue[i].from] = <<queue[i].command>>
  BY <1>1, Zenon DEF IInv, QueueInv, MessageInv
<1> QED
  BY <1>1, <1>2, AwaitedFacts

\* try_send() puts the command of t in the queue.
LEMMA SendKeeps ==
  ASSUME IInv, NEW t \in Tasks, Same, pc[t] = "cloned",
         queue' = Append(queue, CallOf(t, cmd[t][1])),
         pc' = [pc EXCEPT ![t] = "waiting"], cmd' = cmd, answer' = answer
  PROVE  IInv'
<1>1. phase = "open"
  BY IsOpen, Zenon
<1>2. PICK c \in AssetCommands :
           /\ cmd[t] = <<c>>
           /\ c.kind # "lookup" =>
                /\ t \in Ingesters /\ at[t] \in {"staging", "publishing", "removing"}
                /\ c = CommandAt(t, at[t]) /\ c.asset = Asset(t)
           /\ c.kind = "lookup" /\ t \in Ingesters =>
                at[t] = "looking" /\ c.asset = Asset(t)
           /\ t \in Ingesters => lock = t
  BY AwaitedFacts, Zenon
<1>3. PICK m \in Messages : m = CallOf(t, c)
  BY Zenon DEF CallOf, Messages
<1>4. /\ m.kind = "call" /\ m.from = t /\ m.command = c
      /\ queue' = Append(queue, m)
  BY <1>2, <1>3 DEF CallOf
<1>5. /\ rows' = rows /\ blobs' = blobs /\ late' = late /\ at' = at /\ want' = want
      /\ lock' = lock /\ aborted' = aborted /\ disk' = disk
  BY Zenon DEF Same, fileVars, history
<1>6. /\ \A a : NoLate(a)' = NoLate(a) /\ Absent(a)' = Absent(a)
      /\ \A a, x : HasBlob(a, x)' = HasBlob(a, x)
      /\ \A a, x, state : Row(a, x, state)' = Row(a, x, state)
  BY <1>5, Zenon DEF NoLate, Absent, HasBlob, Row
<1>7. pc'[t] = "waiting" /\ Others(t) /\ Shape /\ QueueInv
  BY <1>5, Zenon DEF IInv, Shape, Others, Kept
<1>8. NoneFrom(t)
  BY <1>7, NothingQueued, Zenon
<1>9. ASSUME NEW i \in 1 .. Len(queue), queue[i].kind = "call"
      PROVE  MessageInv(queue[i])'
  <2>1. PICK n : n = queue[i]
    BY Zenon
  <2>2. MessageInv(n) /\ (n.from \in Tasks => Kept(n.from))
    BY <1>7, <1>8, <1>9, <2>1, Zenon DEF QueueInv, NoneFrom, Others
  <2>3. Spared(n)
    BY <1>5, <1>6, Zenon DEF Spared, IsStaged
  <2>4. MessageInv(n)'
    BY <1>5, <2>2, <2>3, MessageKept, Zenon
  <2>5. queue'[i] = n
    BY <1>4, <1>7, <2>1 DEF Shape
  <2> QED
    BY <2>4, <2>5, Zenon DEF MessageInv, Ready
<1>10. ASSUME c.kind # "lookup"
       PROVE  /\ Ready(c) /\ NoLate(c.asset) /\ NoneOn(c.asset)
              /\ lock = t /\ at[t] \in Verify
  <2>1. IngestInv(t) /\ at[t] \in Working /\ at[t] \in Verify
    BY <1>2, <1>10, Zenon DEF IInv, Working, Verify
  <2>2. \A tag : ~Told(t, tag)
    BY Zenon DEF Told
  <2>3. Ready(CommandAt(t, at[t]))
    BY <1>2, <1>10, <2>1, <2>2, Zenon DEF IngestInv, RowInv, CommandAt, Ready, Row, IsStaged
  <2> QED
    BY <1>2, <1>10, <2>1, <2>3, NothingOn, Zenon DEF IngestInv, AloneInv
<1>11. MessageInv(m)'
  <2>1. Ready(c)' = Ready(c)
    BY <1>5, <1>6, Zenon DEF Ready, IsStaged
  <2>2. m.from # NoCaller
    BY <1>4, RolesAssumption, Zenon DEF Tasks
  <2> QED
    BY <1>2, <1>4, <1>6, <1>7, <1>10, <2>1, <2>2, Zenon DEF MessageInv
<1>12. ASSUME NEW a \in Assets, Changes(m, a), NEW i \in 1 .. Len(queue),
              queue[i].from \in Ingesters, queue[i].command.kind = "lookup"
       PROVE  FALSE
  <2>1. lock = t /\ at[t] \in Verify
    BY <1>4, <1>10, <1>12, Zenon DEF Changes
  <2>2. lock = queue[i].from /\ at[queue[i].from] = "looking"
    BY <1>12, LookingFacts, Zenon
  <2> QED
    BY <2>1, <2>2, Zenon DEF Verify
<1>13. \A a : Changes(m, a) => NoneOn(a)
  BY <1>4, <1>10, Zenon DEF Changes
<1>14. /\ QueueInv' /\ queue' \in Seq(Messages)
       /\ \A a : ~Changes(m, a) /\ NoneOn(a) => NoneOn(a)'
       /\ \A a, s : (m.from = s \/ ~Changes(m, a)) /\ OwnOn(s, a) => OwnOn(s, a)'
  BY <1>4, <1>7, <1>8, <1>9, <1>11, <1>12, <1>13, QueueGrows, Zenon
<1>15. Shape'
  BY <1>5, <1>14, Zenon DEF IInv, Shape, Phases
<1>16. \A s \in Ingesters : s # t /\ Relies(s) => Undisturbed(s, Asset(s))
  <2> SUFFICES ASSUME NEW s \in Ingesters, s # t, Relies(s)
               PROVE  Undisturbed(s, Asset(s))
    BY Zenon
  <2>0. lock = s
    BY Zenon DEF IInv, IngestInv, Relies, Locked
  <2>1. \A a : ~Changes(m, a)
    BY <1>2, <1>4, <2>0, Zenon DEF Changes
  <2>2. \A a : Undisturbed(s, a)
    BY <1>6, <1>14, <2>1, Zenon DEF Undisturbed
  <2> QED
    BY <2>2, Zenon
<1>17. ASSUME t \in Ingesters PROVE IngestInv(t)'
  <2>1. IngestInv(t) /\ Asset(t)' = Asset(t) /\ Content(t)' = Content(t)
        /\ CommandAt(t, at[t])' = CommandAt(t, at[t])
    BY <1>5, <1>17, Zenon DEF IInv, Asset, Content, CommandAt
  <2>2. \A tag : ~Told(t, tag) /\ ~Told(t, tag)'
    BY <1>7, Zenon DEF Told
  <2>3. AloneInv(t)'
    BY <1>4, <1>5, <1>6, <1>14, <2>1, <2>2, Zenon DEF IngestInv, AloneInv
  <2>4. RowInv(t)'
    BY <1>5, <1>6, <2>1, <2>2, Zenon DEF IngestInv, RowInv
  <2>5. FoundInv(t)'
    BY <2>2, Zenon DEF FoundInv
  <2> QED
    BY <1>5, <1>7, <2>1, <2>3, <2>4, <2>5, Zenon DEF IngestInv
<1>18. ASSUME t \in Readers PROVE ReadInv(t)'
  <2>1. ReadInv(t) /\ at'[t] = "finding"
    BY <1>5, <1>18, Zenon DEF IInv, ReadInv
  <2>2. FoundInv(t)'
    BY <1>7, Zenon DEF FoundInv, Told
  <2> QED
    BY <1>5, <1>7, <2>1, <2>2, Zenon DEF ReadInv
<1> QED
  BY <1>1, <1>7, <1>14, <1>15, <1>16, <1>17, <1>18, SameRest, Together, Zenon

\* The steps of dispatch().
LEMMA DispatchKeeps ==
  ASSUME IInv, NEW t \in Tasks, Dispatch(t)
  PROVE  IInv'
<1>1. Same /\ Shape
  BY Zenon DEF Dispatch, Same, IInv
<1>2. pc[t] \notin {"idle", "waiting", "answered"}
  BY Zenon DEF Dispatch, CheckClosed, CloneSender, TrySend
<1>3. {Closed, Unavailable, Full} \subseteq Refusals
  BY Zenon DEF Refusals
<1>4. CASE \E r \in Refusals : Refuse(t, r)
  BY <1>1, <1>2, <1>4, DispatchFacts, CallGoesOn, Zenon
<1>5. CASE \E step \in {"checked", "cloned"} : Proceed(t, step)
  BY <1>1, <1>2, <1>3, <1>5, DispatchFacts, CallGoesOn, Zenon
<1>6. CASE /\ pc[t] = "cloned" /\ queue' = Append(queue, CallOf(t, cmd[t][1]))
           /\ pc' = [pc EXCEPT ![t] = "waiting"] /\ UNCHANGED <<cmd, answer>>
  BY <1>1, <1>6, SendKeeps, Zenon
<1> QED
  BY <1>3, <1>4, <1>5, <1>6, Zenon DEF Dispatch, CheckClosed, CloneSender, TrySend

-----------------------------------------------------------------------------
(* Futures dropped while they await the worker.                            *)

\* The queued command of a task that is dropped goes on without it.
LEMMA OrphanFacts ==
  ASSUME Shape, NEW t \in Tasks, Cancel(t)
  PROVE  /\ queue' \in Seq(Messages) /\ Len(queue') = Len(queue)
         /\ \A i \in 1 .. Len(queue) :
              /\ queue'[i].kind = queue[i].kind
              /\ queue[i].kind = "call" => queue'[i].command = queue[i].command
              /\ queue[i].from # t => queue'[i] = queue[i]
              /\ queue[i].from = t => queue'[i].from = NoCaller
<1>1. /\ queue \in Seq(Messages) /\ Len(queue) \in Nat
      /\ queue' = [i \in 1 .. Len(queue) |-> Orphan(t, queue[i])]
  BY DEF Shape, Cancel
<1>2. ASSUME NEW i \in 1 .. Len(queue)
      PROVE  /\ Orphan(t, queue[i]) \in Messages
             /\ Orphan(t, queue[i]).kind = queue[i].kind
             /\ queue[i].kind = "call" => Orphan(t, queue[i]).command = queue[i].command
             /\ queue[i].from # t => Orphan(t, queue[i]) = queue[i]
             /\ queue[i].from = t => Orphan(t, queue[i]).from = NoCaller
  <2>1. queue[i] \in Messages
    BY <1>1
  <2>2. CASE queue[i].kind = "call" /\ queue[i].from = t
    <3>1. PICK c \in AssetCommands :
            queue[i] = [kind |-> "call", from |-> t, command |-> c]
      BY <2>1, <2>2, Zenon DEF Messages
    <3>2. Orphan(t, queue[i]) = [kind |-> "call", from |-> NoCaller, command |-> c]
      BY <3>1 DEF Orphan
    <3> QED
      BY <3>1, <3>2 DEF Messages
  <2>3. CASE ~(queue[i].kind = "call" /\ queue[i].from = t)
    <3>1. Orphan(t, queue[i]) = queue[i]
      BY <2>3, Zenon DEF Orphan
    <3>2. queue[i].from # t
      BY <2>1, <2>3, RolesAssumption, Zenon DEF Messages, Tasks
    <3> QED
      BY <2>1, <3>1, <3>2, Zenon
  <2> QED
    BY <2>2, <2>3, Zenon
<1>3. queue' \in Seq(Messages) /\ Len(queue') = Len(queue)
  BY <1>1, <1>2
<1> QED
  BY <1>1, <1>2, <1>3, Zenon

\* An ingest or a read is dropped while it awaits the worker.
LEMMA CancelCallKeeps ==
  ASSUME IInv, NEW t \in Tasks, CancelCall(t)
  PROVE  IInv'
<1>1. /\ Shape /\ QueueInv /\ PhaseInv /\ Cancel(t) /\ Finish(t) /\ pc[t] = "waiting"
      /\ aborted \subseteq aborted'
      /\ at[t] \in {"staging", "publishing", "removing"} => Asset(t) \in aborted'
  BY Zenon DEF IInv, CancelCall, Cancel
<1>2. /\ UNCHANGED <<rows, blobs, disk, late, phase, doubtful, acked>>
      /\ pc'[t] = "idle" /\ CallsOnly(t)
  BY <1>1 DEF CancelCall, fileVars, Cancel, Shape, CallsOnly, Phases
<1>3. /\ at'[t] = "idle" /\ StepsOnly(t)
      /\ lock' \in Ingesters \cup {NoTask} /\ (t \in Ingesters => lock' # t)
      /\ \A s \in Ingesters : s # t => (lock' = s <=> lock = s)
  BY <1>1, FinishFacts, Zenon
<1>4. phase = "open" /\ Others(t)
  BY <1>1, <1>2, <1>3, IsOpen, Zenon DEF Others, Kept, CallsOnly, StepsOnly
<1>5. /\ \A a : NoLate(a)' = NoLate(a) /\ Absent(a)' = Absent(a)
      /\ \A a, x : HasBlob(a, x)' = HasBlob(a, x)
      /\ \A a, x, state : Row(a, x, state)' = Row(a, x, state)
  BY <1>2, Zenon DEF NoLate, Absent, HasBlob, Row
<1>6. /\ queue' \in Seq(Messages) /\ Len(queue') = Len(queue)
      /\ \A i \in 1 .. Len(queue) :
           /\ queue'[i].kind = queue[i].kind
           /\ queue[i].kind = "call" => queue'[i].command = queue[i].command
           /\ queue[i].from # t => queue'[i] = queue[i]
           /\ queue[i].from = t => queue'[i].from = NoCaller
  BY <1>1, OrphanFacts, Zenon
<1>7. ASSUME NEW i \in 1 .. Len(queue), queue[i].kind = "call"
      PROVE  MessageInv(queue[i])'
  <2>1. PICK n : n = queue'[i]
    BY Zenon
  <2>2. MessageInv(queue[i]) /\ n.command = queue[i].command
    BY <1>1, <1>6, <1>7, <2>1, Zenon DEF QueueInv
  <2>3. CASE queue[i].from # t
    <3>1. n = queue[i] /\ (n.from \in Tasks => Kept(n.from))
      BY <1>4, <1>6, <2>1, <2>3, Zenon DEF Others
    <3>2. Spared(n)
      BY <1>2, <1>5, Zenon DEF Spared, IsStaged
    <3>3. MessageInv(n)'
      BY <1>1, <2>2, <3>1, <3>2, MessageKept, Zenon
    <3> QED
      BY <2>1, <3>3, Zenon DEF MessageInv, Ready
  <2>4. CASE queue[i].from = t
    <3>1. n.from = NoCaller /\ n.from \notin Tasks
      BY <1>6, <2>1, <2>4, RolesAssumption, Zenon DEF Tasks
    <3>2. cmd[t] = <<n.command>>
      BY <2>2, <2>4, Zenon DEF MessageInv
    <3>3. n.command.kind # "lookup" => n.command.asset \in aborted'
      BY <1>1, <3>2, AwaitedFacts
    <3>4. n.command.kind # "lookup" => Ready(n.command)' /\ NoLate(n.command.asset)'
      BY <1>2, <1>5, <2>2, Zenon DEF MessageInv, Ready, IsStaged
    <3>5. MessageInv(n)'
      BY <3>1, <3>3, <3>4, Zenon DEF MessageInv
    <3> QED
      BY <2>1, <3>5, Zenon DEF MessageInv, Ready
  <2> QED
    BY <2>3, <2>4, Zenon
<1>8. /\ \A i \in 1 .. Len(queue) : \A a :
           Changes(queue'[i], a) <=> Changes(queue[i], a)
      /\ \A i \in 1 .. Len(queue) :
           queue'[i].from \in Tasks => queue'[i] = queue[i]
  BY <1>6, RolesAssumption, Zenon DEF Changes, Tasks
<1>9. QueueInv'
  <2>1. ASSUME NEW i \in 1 .. Len(queue), NEW j \in 1 .. Len(queue),
               queue'[i].from \in Tasks, queue'[j].from = queue'[i].from
        PROVE  i = j
    BY <1>1, <1>8, <2>1, Zenon DEF QueueInv
  <2>2. ASSUME NEW i \in 1 .. Len(queue), NEW j \in 1 .. Len(queue), NEW a \in Assets,
               Changes(queue'[i], a), Changes(queue'[j], a)
        PROVE  i = j
    BY <1>1, <1>8, <2>2, Zenon DEF QueueInv
  <2>3. ASSUME NEW i \in 1 .. Len(queue), NEW j \in 1 .. Len(queue),
               queue'[i].from \in Ingesters, queue'[i].command.kind = "lookup",
               Changes(queue'[j], queue'[i].command.asset)
        PROVE  j < i
    <3>1. queue'[i] = queue[i]
      BY <1>8, <2>3, Zenon DEF Tasks
    <3>2. /\ queue[i].from \in Ingesters /\ queue[i].command.kind = "lookup"
          /\ Changes(queue[j], queue[i].command.asset)
      BY <1>8, <2>3, <3>1, Zenon
    <3> QED
      BY <1>1, <3>2, Zenon DEF QueueInv
  <2>4. \A i \in 1 .. Len(queue') : queue'[i].kind = "call" => MessageInv(queue[i])'
    BY <1>6, <1>7, Zenon
  <2> QED
    BY <1>6, <2>1, <2>2, <2>3, <2>4, Zenon DEF QueueInv
<1>10. Shape'
  BY <1>1, <1>2, <1>3, <1>6, Zenon DEF Shape, CallsOnly, StepsOnly
<1>11. PhaseInv'
  BY <1>1, <1>2, <1>3, <1>4, Zenon DEF PhaseInv
<1>12. StagedInv'
  <2> SUFFICES ASSUME NEW a \in DOMAIN rows, IsStaged(rows, a), a \notin aborted'
               PROVE  /\ lock' \in Ingesters /\ at'[lock'] \in Verify
                      /\ Asset(lock)' = a
    BY <1>2, Zenon DEF StagedInv
  <2>1. lock \in Ingesters /\ at[lock] \in Verify /\ Asset(lock) = a
    BY <1>1, <1>4, Zenon DEF IInv, StagedInv
  <2>2. CASE lock = t
    <3>1. at[t] \in Calling
      BY <1>1, <2>1, <2>2, Zenon DEF IInv, IngestInv
    <3> QED
      BY <1>1, <2>1, <2>2, <3>1, Zenon DEF Calling, Verify
  <2>3. CASE lock # t
    BY <1>3, <1>4, <2>1, <2>3, Zenon DEF Others, Kept, Asset, Tasks
  <2> QED
    BY <2>2, <2>3, Zenon
<1>13. LateInv'
  BY <1>1, <1>2, Zenon DEF IInv, LateInv
<1>14. PublishedHasBlob' /\ AckedStaysPublished'
  BY <1>2, Zenon DEF IInv, PublishedHasBlob, AckedStaysPublished, Published, Verified
<1>15. \A s \in Ingesters : s # t /\ Relies(s) => Undisturbed(s, Asset(s))
  <2> SUFFICES ASSUME NEW s \in Ingesters, s # t
               PROVE  \A a : Undisturbed(s, a)
    BY Zenon
  <2>1. \A a : NoneOn(a) => NoneOn(a)'
    BY <1>6, <1>8, Zenon DEF NoneOn
  <2>2. \A a : OwnOn(s, a) => OwnOn(s, a)'
    BY <1>6, <1>8, SMTT(15) DEF OwnOn
  <2> QED
    BY <1>5, <2>1, <2>2, Zenon DEF Undisturbed
<1>16. RowsStay
  BY <1>5, Zenon DEF RowsStay
<1>17. (t \in Ingesters => IngestInv(t)') /\ (t \in Readers => ReadInv(t)')
  BY <1>2, <1>3, IdleOK, Zenon
<1> QED
  BY <1>3, <1>4, <1>9, <1>10, <1>11, <1>12, <1>13, <1>14, <1>15, <1>16, <1>17, Together, Zenon

-----------------------------------------------------------------------------
(* The worker's side.                                                      *)

\* What a command that finds what it relies on does to the rows.
LEMMA EffectFacts ==
  ASSUME RowsOK(rows), NEW c \in AssetCommands, c.kind # "lookup" => Ready(c),
         rows' = EffectOf(rows, c)
  PROVE  /\ RowsOK(rows')
         /\ c.kind = "lookup" => rows' = rows
         /\ \A b : b # c.asset =>
              /\ b \in DOMAIN rows' <=> b \in DOMAIN rows
              /\ b \in DOMAIN rows => rows'[b] = rows[b]
         /\ c.kind = "stage" =>
              AnswerTo(rows, c) = Answer("inserted") /\ Row(c.asset, c.content, "staged")'
         /\ c.kind = "publish" =>
              AnswerTo(rows, c) = Answer("done") /\ Row(c.asset, c.content, "published")'
         /\ c.kind = "remove" => AnswerTo(rows, c) = Answer("done") /\ Absent(c.asset)'
<1>1. CASE c.kind = "lookup"
  BY <1>1, Zenon DEF EffectOf
<1>2. CASE c.kind = "stage"
  <2>1. c.asset \notin DOMAIN rows /\ c.content \in Contents
    BY <1>2, Zenon DEF Ready, Absent, AssetCommands
  <2>2. AnswerTo(rows, c) = Answer("inserted")
    BY <1>2, <2>1, Zenon DEF AnswerTo, StageAsset, IsStaged, Published
  <2>3. rows' = [b \in DOMAIN rows \cup {c.asset} |->
          IF b = c.asset THEN [content |-> c.content, state |-> "staged"] ELSE rows[b]]
    BY <1>2, <2>2 DEF EffectOf, Answer, Set
  <2>4. Row(c.asset, c.content, "staged")'
    BY <2>3 DEF Row
  <2>5. RowsOK(rows')
    BY <2>1, <2>3 DEF RowsOK, Rows
  <2> QED
    BY <1>2, <2>2, <2>3, <2>4, <2>5, Zenon
<1>3. CASE c.kind = "publish"
  <2>1. IsStaged(rows, c.asset) /\ rows[c.asset].content = c.content
    BY <1>3, Zenon DEF Ready, Row, IsStaged
  <2>2. AnswerTo(rows, c) = Answer("done")
    BY <1>3, <2>1, Zenon DEF AnswerTo, PublishAsset
  <2>3. rows' = [rows EXCEPT ![c.asset].state = "published"]
    BY <1>3, <2>2 DEF EffectOf, Answer
  <2>4. c.asset \in DOMAIN rows /\ rows[c.asset] \in Rows
    BY <2>1, Zenon DEF IsStaged, RowsOK
  <2>5. rows'[c.asset] = [content |-> c.content, state |-> "published"]
    BY <2>1, <2>3, <2>4, Zenon DEF Rows
  <2>6. DOMAIN rows' = DOMAIN rows /\ \A b \in DOMAIN rows : b # c.asset => rows'[b] = rows[b]
    BY <2>3, Zenon
  <2>7. RowsOK(rows')
    <3>1. rows'[c.asset] \in Rows
      BY <2>1, <2>4, <2>5 DEF Rows
    <3> QED
      BY <2>6, <3>1, Zenon DEF RowsOK
  <2> QED
    BY <1>3, <2>2, <2>4, <2>5, <2>6, <2>7 DEF Row
<1>4. CASE c.kind = "remove"
  <2>1. IsStaged(rows, c.asset) /\ AnswerTo(rows, c) = Answer("done")
    BY <1>4, Zenon DEF Ready, AnswerTo
  <2>2. rows' = Without(rows, {c.asset})
    BY <1>4, <2>1, Zenon DEF EffectOf
  <2>3. rows' = [b \in DOMAIN rows \ {c.asset} |-> rows[b]]
    BY <2>2, Zenon DEF Without, Restrict
  <2> QED
    BY <1>4, <2>1, <2>3, Zenon DEF RowsOK, Absent
<1> QED
  BY <1>1, <1>2, <1>3, <1>4, Zenon DEF AssetCommands

\* The rest of the queue.
LEMMA TailFacts ==
  ASSUME Shape, queue # <<>>, queue' = Tail(queue)
  PROVE  /\ queue' \in Seq(Messages) /\ 1 \in 1 .. Len(queue) /\ Head(queue) = queue[1]
         /\ \A i \in 1 .. Len(queue') :
              i + 1 \in 1 .. Len(queue) /\ i + 1 # 1 /\ queue'[i] = queue[i + 1]
         /\ \A i \in 1 .. Len(queue) :
              i # 1 => i - 1 \in 1 .. Len(queue') /\ queue'[i - 1] = queue[i]
BY DEF Shape

\* What the queue loses with its head.
LEMMA HeadGone ==
  ASSUME Shape, QueueInv, queue # <<>>, queue' = Tail(queue),
         \A i \in 1 .. Len(queue') : queue'[i].kind = "call" => MessageInv(queue[i])'
  PROVE  /\ QueueInv'
         /\ \A a : NoneOn(a) => NoneOn(a)'
         /\ \A a, s : OwnOn(s, a) => OwnOn(s, a)'
<1>1. \A i \in 1 .. Len(queue') :
        i \in Int /\ i + 1 \in 1 .. Len(queue) /\ queue'[i] = queue[i + 1]
  BY TailFacts
<1>2. ASSUME NEW i \in 1 .. Len(queue'), NEW j \in 1 .. Len(queue'),
             queue'[i].from \in Tasks, queue'[j].from = queue'[i].from
      PROVE  i = j
  <2>1. i + 1 = j + 1
    BY <1>1, <1>2, Zenon DEF QueueInv
  <2> QED
    BY <2>1
<1>3. ASSUME NEW i \in 1 .. Len(queue'), NEW j \in 1 .. Len(queue'), NEW a \in Assets,
             Changes(queue'[i], a), Changes(queue'[j], a)
      PROVE  i = j
  <2>1. i + 1 = j + 1
    BY <1>1, <1>3, Zenon DEF QueueInv
  <2> QED
    BY <2>1
<1>4. ASSUME NEW i \in 1 .. Len(queue'), NEW j \in 1 .. Len(queue'),
             queue'[i].from \in Ingesters, queue'[i].command.kind = "lookup",
             Changes(queue'[j], queue'[i].command.asset)
      PROVE  j < i
  <2>1. j + 1 < i + 1
    BY <1>1, <1>4, Zenon DEF QueueInv
  <2> QED
    BY <2>1
<1>5. QueueInv'
  BY <1>2, <1>3, <1>4, Zenon DEF QueueInv
<1>6. \A a : NoneOn(a) => NoneOn(a)'
  BY <1>1, Zenon DEF NoneOn
<1>7. \A a, s : OwnOn(s, a) => OwnOn(s, a)'
  BY <1>1, Zenon DEF OwnOn
<1> QED
  BY <1>5, <1>6, <1>7, Zenon

\* The row of a is as it was.
Beside(a) ==
  /\ a \in DOMAIN rows' <=> a \in DOMAIN rows
  /\ a \in DOMAIN rows => rows'[a] = rows[a]

\* What becomes of a command c that is answered with ans.
Outcome(c, ans) ==
  \/ rows' = rows /\ ans.tag \notin Telling
  \/ rows' = rows /\ c.kind = "lookup" /\ ans = LookupAsset(rows, c.asset)
  \/ /\ c.kind = "stage" /\ ans.tag = "inserted"
     /\ Row(c.asset, c.content, "staged")'
  \/ /\ c.kind = "publish" /\ ans.tag = "done"
     /\ Row(c.asset, c.content, "published")' /\ HasBlob(c.asset, c.content)
  \/ c.kind = "remove" /\ ans.tag = "done" /\ Absent(c.asset)'

\* A row that is as it was.
LEMMA BesideFacts ==
  ASSUME NEW a, Beside(a)
  PROVE  /\ Absent(a)' <=> Absent(a)
         /\ \A x, state : Row(a, x, state)' <=> Row(a, x, state)
         /\ IsStaged(rows', a) <=> IsStaged(rows, a)
         /\ Published(rows', a) <=> Published(rows, a)
BY Zenon DEF Beside, Absent, Row, IsStaged, Published

\* The command at the head, and what becomes of it.
LEMMA OutcomeFacts ==
  ASSUME IInv, queue # <<>>, NEW m, m = Head(queue), m.kind = "call", NEW ans,
         \/ rows' = EffectOf(rows, m.command) /\ ans = AnswerTo(rows, m.command)
         \/ rows' = rows /\ ans.tag \notin Telling
  PROVE  /\ m \in Messages /\ m.command \in AssetCommands /\ MessageInv(m)
         /\ m.from \in Tasks \cup {NoCaller}
         /\ Outcome(m.command, ans) /\ RowsOK(rows') /\ RowsStay
         /\ \A b : b # m.command.asset \/ m.command.kind = "lookup" => Beside(b)
<1> DEFINE c == m.command
<1>1. Shape /\ QueueInv /\ RowsOK(rows)
  BY Zenon DEF IInv, Shape
<1>2. 1 \in 1 .. Len(queue) /\ m = queue[1] /\ m \in Messages
  <2>1. queue \in Seq(Messages)
    BY <1>1, Zenon DEF Shape
  <2> QED
    BY <2>1
<1>3. /\ MessageInv(m) /\ m.from \in Tasks \cup {NoCaller}
      /\ c \in AssetCommands /\ c.kind \in {"lookup", "stage", "publish", "remove"}
  BY <1>1, <1>2, MessageFacts, Zenon DEF QueueInv
<1>4. c.kind # "lookup" => Ready(c)
  BY <1>3, Zenon DEF MessageInv
<1> HIDE DEF c
<1>5. CASE rows' = rows /\ ans.tag \notin Telling
  BY <1>1, <1>2, <1>3, <1>5, Zenon DEF Outcome, RowsStay, Row, Beside, c
<1>6. CASE rows' = EffectOf(rows, c) /\ ans = AnswerTo(rows, c)
  <2>1. /\ RowsOK(rows')
        /\ c.kind = "lookup" => rows' = rows
        /\ \A b : b # c.asset =>
             /\ b \in DOMAIN rows' <=> b \in DOMAIN rows
             /\ b \in DOMAIN rows => rows'[b] = rows[b]
        /\ c.kind = "stage" =>
             ans = Answer("inserted") /\ Row(c.asset, c.content, "staged")'
        /\ c.kind = "publish" =>
             ans = Answer("done") /\ Row(c.asset, c.content, "published")'
        /\ c.kind = "remove" => ans = Answer("done") /\ Absent(c.asset)'
    BY <1>1, <1>3, <1>4, <1>6, EffectFacts, Zenon
  <2>2. \A b : b # c.asset \/ c.kind = "lookup" => Beside(b)
    BY <2>1, Zenon DEF Beside
  <2>3. c.kind = "lookup" => ans = LookupAsset(rows, c.asset)
    BY <1>6, Zenon DEF AnswerTo
  <2>4. c.kind = "publish" => HasBlob(c.asset, c.content)
    BY <1>4, Zenon DEF Ready
  <2>5. Outcome(c, ans)
    BY <1>3, <2>1, <2>3, <2>4 DEF Outcome, Answer
  <2>6. c.kind # "lookup" => \A x : ~Row(c.asset, x, "published")
    BY <1>3, <1>4, Zenon DEF Ready, Absent, Row, IsStaged
  <2>7. RowsStay
    BY <2>2, <2>6, BesideFacts, Zenon DEF RowsStay
  <2> QED
    BY <1>2, <1>3, <2>1, <2>2, <2>5, <2>7, Zenon DEF c
<1> QED
  BY <1>5, <1>6, Zenon DEF c

\* The worker is done with m, the head of the queue, and answers it with ans.
Settled(m, ans) ==
  /\ queue # <<>> /\ m = Head(queue) /\ m.kind = "call" /\ queue' = Tail(queue)
  /\ UNCHANGED <<cmd, blobs, late, lock, at, want, phase, history>>
  /\ pc' \in [Tasks -> Phases] /\ DOMAIN answer' = Tasks
  /\ \A s \in Tasks :
       IF s = m.from THEN pc'[s] = "answered" /\ answer'[s] = <<ans>>
                     ELSE pc'[s] = pc[s] /\ answer'[s] = answer[s]
  /\ Outcome(m.command, ans) /\ RowsStay
  /\ \A b : b # m.command.asset \/ m.command.kind = "lookup" => Beside(b)

\* What the answer tells.
LEMMA ToldFacts ==
  ASSUME NEW m, NEW ans, Settled(m, ans), NEW t \in Tasks, t = m.from
  PROVE  /\ \A tag : Told(t, tag)' <=> ans.tag = tag
         /\ answer'[t][1] = ans
BY DEF Settled, Told, Tag

\* The messages behind m are not concerned.
LEMMA BehindKept ==
  ASSUME IInv, NEW m, NEW ans, Settled(m, ans)
  PROVE  /\ QueueInv' /\ queue' \in Seq(Messages)
         /\ \A a : NoneOn(a) => NoneOn(a)'
         /\ \A a, s : OwnOn(s, a) => OwnOn(s, a)'
         /\ m.from \in Ingesters /\ m.command.kind = "lookup" =>
              NoneOn(m.command.asset)'
<1>1. /\ Shape /\ QueueInv /\ queue # <<>> /\ queue' = Tail(queue)
      /\ m = Head(queue) /\ m.kind = "call"
  BY Zenon DEF IInv, Settled
<1>2. /\ queue' \in Seq(Messages) /\ 1 \in 1 .. Len(queue) /\ m = queue[1]
      /\ \A i \in 1 .. Len(queue') :
           i + 1 \in 1 .. Len(queue) /\ i + 1 # 1 /\ queue'[i] = queue[i + 1]
  BY <1>1, TailFacts, Zenon
<1>3. ASSUME NEW i \in 1 .. Len(queue'), queue'[i].kind = "call"
      PROVE  MessageInv(queue[i])'
  <2>1. PICK n : n = queue'[i]
    BY Zenon
  <2>2. /\ i + 1 \in 1 .. Len(queue) /\ n = queue[i + 1] /\ n.kind = "call"
        /\ n.command.asset \in Assets
    BY <1>1, <1>2, <1>3, <2>1, MessageFacts, Zenon
  <2>3. MessageInv(n)
    BY <1>1, <2>2, Zenon DEF QueueInv
  <2>4. n.from \in Tasks => n.from # m.from
    BY <1>1, <1>2, <2>2, Zenon DEF QueueInv
  <2>5. n.from \in Tasks => Kept(n.from)
    BY <2>4, Zenon DEF Settled, Kept
  <2>6. n.command.kind # "lookup" => Spared(n)
    <3> SUFFICES ASSUME n.command.kind # "lookup" PROVE Spared(n)
      BY Zenon
    <3>1. Changes(n, n.command.asset)
      BY <2>2, Zenon DEF Changes
    <3>2. ~Changes(m, n.command.asset)
      BY <1>1, <1>2, <2>2, <3>1, Zenon DEF QueueInv
    <3>3. m.command.kind = "lookup" \/ n.command.asset # m.command.asset
      BY <1>1, <3>2, Zenon DEF Changes
    <3>4. PICK a : a = n.command.asset
      BY Zenon
    <3>5. Beside(a)
      BY <3>3, <3>4, Zenon DEF Settled
    <3>6. /\ Absent(a)' <=> Absent(a)
          /\ \A x, state : Row(a, x, state)' <=> Row(a, x, state)
          /\ IsStaged(rows', a) <=> IsStaged(rows, a)
      BY <3>5, BesideFacts, Zenon
    <3>7. (\A x : HasBlob(a, x)' <=> HasBlob(a, x)) /\ (NoLate(a)' <=> NoLate(a))
      BY Zenon DEF HasBlob, NoLate, Settled
    <3> QED
      BY <3>4, <3>6, <3>7, Zenon DEF Spared
  <2>7. MessageInv(n)'
    BY <2>3, <2>5, <2>6, MessageKept, Zenon DEF Settled, history
  <2> QED
    BY <2>1, <2>7, Zenon DEF MessageInv, Ready
<1>4. /\ QueueInv'
      /\ \A a : NoneOn(a) => NoneOn(a)'
      /\ \A a, s : OwnOn(s, a) => OwnOn(s, a)'
  BY <1>1, <1>3, HeadGone, Zenon
<1>5. ASSUME m.from \in Ingesters, m.command.kind = "lookup"
      PROVE  NoneOn(m.command.asset)
  <2> SUFFICES ASSUME NEW j \in 1 .. Len(queue), Changes(queue[j], m.command.asset)
               PROVE  FALSE
    BY Zenon DEF NoneOn
  <2>1. j < 1
    BY <1>1, <1>2, <1>5, Zenon DEF QueueInv
  <2> QED
    BY <2>1
<1> QED
  BY <1>2, <1>4, <1>5, Zenon

\* The ingest that awaited the answer.
LEMMA SettledIngest ==
  ASSUME IInv, NEW m, NEW ans, Settled(m, ans), MessageInv(m),
         NEW t \in Ingesters, t = m.from
  PROVE  IngestInv(t)'
<1>0. PICK c, a, x : c = m.command /\ a = Asset(t) /\ x = Content(t)
  BY Zenon
<1>1. t \in Tasks /\ IngestInv(t) /\ pc[t] = "waiting" /\ cmd[t] = <<c>>
  BY <1>0, Zenon DEF IInv, Tasks, MessageInv
<1>2. /\ lock' = lock /\ at' = at /\ want' = want /\ cmd' = cmd /\ pc'[t] = "answered"
      /\ late' = late /\ blobs' = blobs
  BY <1>1, Zenon DEF Settled
<1>3. \A tag : (Told(t, tag)' <=> ans.tag = tag) /\ ~Told(t, tag)
  BY <1>1, ToldFacts DEF Told
<1>4. /\ Asset(t)' = a /\ Content(t)' = x /\ CommandAt(t, at[t])' = CommandAt(t, at[t])
      /\ want'[t][1].bytes = want[t][1].bytes
  BY <1>0, <1>2, Zenon DEF Asset, Content, CommandAt
<1>5. /\ at[t] \in {"looking", "staging", "publishing", "removing"}
      /\ c = CommandAt(t, at[t]) /\ c.asset = a
      /\ c.kind = "lookup" <=> at[t] = "looking"
      /\ c.kind = "stage" <=> at[t] = "staging"
      /\ c.kind = "publish" <=> at[t] = "publishing"
      /\ c.kind = "remove" <=> at[t] = "removing"
      /\ at[t] \in {"staging", "publishing"} => c.content = x
  <2>1. /\ at[t] \in {"looking", "staging", "publishing", "removing"}
        /\ cmd[t] = <<CommandAt(t, at[t])>>
    BY <1>1, Zenon DEF IngestInv, Calling, Locked, Working, Verify
  <2>2. c = CommandAt(t, at[t])
    BY <1>1, <2>1
  <2> QED
    BY <1>0, <2>1, <2>2 DEF CommandAt
<1>6. Outcome(c, ans)
  BY <1>0, Zenon DEF Settled
<1>7. /\ \A b : NoneOn(b) => NoneOn(b)'
      /\ \A b, s : OwnOn(s, b) => OwnOn(s, b)'
      /\ c.kind = "lookup" => NoneOn(a)'
  <2>1. c.kind = "lookup" => NoneOn(c.asset)'
    BY <1>0, BehindKept, Zenon
  <2> QED
    BY <1>5, <2>1, BehindKept, Zenon
<1>8. \A b : (NoLate(b)' <=> NoLate(b)) /\ \A y : HasBlob(b, y)' <=> HasBlob(b, y)
  BY <1>2, Zenon DEF NoLate, HasBlob
<1>9. RowInv(t)'
  <2>1. CASE rows' = rows /\ ans.tag \notin Telling
    <3>1. \A b, y, st : (Absent(b)' <=> Absent(b)) /\ (Row(b, y, st)' <=> Row(b, y, st))
      BY <2>1, Zenon DEF Absent, Row
    <3>2. \A tag \in Telling : ~Told(t, tag)'
      BY <1>3, <2>1, Zenon
    <3> QED
      BY <1>0, <1>1, <1>2, <1>3, <1>4, <1>5, <1>8, <3>1, <3>2, Zenon
         DEF IngestInv, RowInv, Telling
  <2>2. CASE c.kind = "lookup"
    BY <1>2, <1>5, <2>2, Zenon DEF RowInv
  <2>3. CASE /\ c.kind = "stage" /\ ans.tag = "inserted"
             /\ Row(c.asset, c.content, "staged")'
    BY <1>2, <1>3, <1>4, <1>5, <2>3, Zenon DEF RowInv
  <2>4. CASE /\ c.kind = "publish" /\ ans.tag = "done"
             /\ Row(c.asset, c.content, "published")'
    BY <1>2, <1>3, <1>4, <1>5, <2>4, Zenon DEF RowInv
  <2>5. CASE c.kind = "remove" /\ ans.tag = "done" /\ Absent(c.asset)'
    BY <1>2, <1>3, <1>4, <1>5, <2>5, Zenon DEF RowInv
  <2> QED
    BY <1>6, <2>1, <2>2, <2>3, <2>4, <2>5, Zenon DEF Outcome
<1>10. AloneInv(t)'
  <2>1. CASE at[t] = "looking"
    <3>1. CASE ans.tag = "none"
      <4>1. rows' = rows /\ ans = LookupAsset(rows, a)
        BY <1>5, <1>6, <2>1, <3>1, Zenon DEF Outcome, Telling
      <4>2. a \notin DOMAIN rows
        BY <3>1, <4>1, Zenon DEF LookupAsset, Found
      <4>3. NoLate(a)
        BY <4>2, Zenon DEF IInv, LateInv, IsStaged, NoLate
      <4>4. Absent(a)' /\ NoneOn(a)' /\ NoLate(a)'
        BY <1>5, <1>7, <1>8, <2>1, <4>1, <4>2, <4>3, Zenon DEF Absent
      <4> QED
        BY <1>2, <1>4, <2>1, <4>4, Zenon DEF AloneInv, Working, Verify
    <3>2. CASE ans.tag # "none"
      BY <1>2, <1>3, <2>1, <3>2, Zenon DEF AloneInv, Working, Verify
    <3> QED
      BY <3>1, <3>2, Zenon
  <2>2. CASE at[t] # "looking"
    BY <1>0, <1>1, <1>2, <1>4, <1>7, <1>8, <2>2, Zenon DEF IngestInv, AloneInv
  <2> QED
    BY <2>1, <2>2, Zenon
<1>11. at[t] = "looking" => FoundInv(t)'
  <2> SUFFICES ASSUME at[t] = "looking", ans.tag = "found"
               PROVE  Row(a, ans.row.content, ans.row.state)'
    BY <1>1, <1>2, <1>3, <1>5, ToldFacts DEF FoundInv
  <2>1. rows' = rows /\ ans = LookupAsset(rows, a)
    BY <1>5, <1>6, Zenon DEF Outcome, Telling
  <2> QED
    BY <2>1, Zenon DEF LookupAsset, Found, Answer, Row
<1> QED
  BY <1>0, <1>1, <1>2, <1>4, <1>9, <1>10, <1>11, Zenon DEF IngestInv

\* The read that awaited the answer.
LEMMA SettledRead ==
  ASSUME IInv, NEW m, NEW ans, Settled(m, ans), MessageInv(m),
         NEW t \in Readers, t = m.from
  PROVE  ReadInv(t)'
<1>0. PICK c, a : c = m.command /\ a = c.asset
  BY Zenon
<1>1. t \in Tasks /\ ReadInv(t) /\ pc[t] = "waiting" /\ cmd[t] = <<c>>
  BY <1>0, Zenon DEF IInv, Tasks, MessageInv
<1>2. at[t] = "finding" /\ at' = at /\ cmd' = cmd /\ pc'[t] = "answered"
  BY <1>1, Zenon DEF Settled, ReadInv
<1>3. PICK b \in Assets : cmd[t] = <<[kind |-> "lookup", asset |-> b]>>
  BY <1>1, <1>2, Zenon DEF ReadInv
<1>4. c.kind = "lookup" /\ cmd[t][1].asset = a
  BY <1>0, <1>1, <1>3
<1>5. FoundInv(t)'
  <2> SUFFICES ASSUME ans.tag = "found"
               PROVE  Row(a, ans.row.content, ans.row.state)'
    BY <1>1, <1>2, <1>4, ToldFacts, SMTT(15) DEF FoundInv
  <2>1. rows' = rows /\ ans = LookupAsset(rows, a)
    BY <1>0, <1>4, Zenon DEF Settled, Outcome, Telling
  <2> QED
    BY <2>1, Zenon DEF LookupAsset, Found, Answer, Row
<1> QED
  BY <1>2, <1>3, <1>5, Zenon DEF ReadInv

\* Another ingest is not disturbed: it is alone with its asset.
LEMMA SettledOthers ==
  ASSUME IInv, NEW m, NEW ans, Settled(m, ans),
         NEW s \in Ingesters, s # m.from, Relies(s)
  PROVE  Undisturbed(s, Asset(s))
<1>0. PICK a : a = Asset(s)
  BY Zenon
<1>1. NoneOn(a) \/ OwnOn(s, a)
  BY <1>0, Zenon DEF IInv, IngestInv, AloneInv, Relies
<1>2. 1 \in 1 .. Len(queue) /\ m = queue[1] /\ m.kind = "call"
  BY TailFacts, Zenon DEF IInv, Settled
<1>3. ~Changes(m, a)
  BY <1>1, <1>2, Zenon DEF NoneOn, OwnOn
<1>4. Beside(a)
  BY <1>2, <1>3, Zenon DEF Changes, Settled
<1>5. /\ Absent(a)' <=> Absent(a)
      /\ \A x, state : Row(a, x, state)' <=> Row(a, x, state)
  BY <1>4, BesideFacts, Zenon
<1>6. (NoLate(a)' <=> NoLate(a)) /\ \A y : HasBlob(a, y)' <=> HasBlob(a, y)
  BY Zenon DEF NoLate, HasBlob, Settled
<1>7. Undisturbed(s, a)
  BY <1>5, <1>6, BehindKept, Zenon DEF Undisturbed
<1> QED
  BY <1>0, <1>7, Zenon

\* The worker is done with the command at the head.
LEMMA SettledKeeps ==
  ASSUME IInv, NEW m, NEW ans, Settled(m, ans), MessageInv(m),
         m.from \in Tasks \cup {NoCaller}, RowsOK(rows'), RowsOK(disk'.rows),
         disk' = [rows |-> disk'.rows, blobs |-> disk'.blobs]
  PROVE  IInv'
<1>0. PICK c : c = m.command
  BY Zenon
<1>1. /\ UNCHANGED <<cmd, blobs, late, lock, at, want, phase, history>>
      /\ aborted' = aborted /\ doubtful' = doubtful /\ acked' = acked
      /\ queue # <<>> /\ RowsStay /\ Outcome(c, ans)
  BY <1>0, Zenon DEF Settled, history
<1>2. phase = "open"
  BY <1>1, Zenon DEF IInv, PhaseInv
<1>3. QueueInv' /\ queue' \in Seq(Messages)
  BY BehindKept, Zenon
<1>4. Shape'
  BY <1>1, <1>3, Zenon DEF IInv, Shape, Settled
<1>5. PhaseInv'
  BY <1>1, <1>2, Zenon DEF IInv, PhaseInv
<1>6. c.kind # "lookup" =>
        /\ NoLate(c.asset)
        /\ \/ c.asset \in aborted
           \/ lock \in Ingesters /\ at[lock] \in Verify /\ Asset(lock) = c.asset
  <2> SUFFICES ASSUME c.kind # "lookup", m.from \in Tasks
               PROVE  lock \in Ingesters /\ at[lock] \in Verify /\ Asset(lock) = c.asset
    BY <1>0, Zenon DEF MessageInv
  <2>1. pc[m.from] # "idle" /\ cmd[m.from] = <<c>>
    BY <1>0, Zenon DEF MessageInv
  <2> QED
    BY <2>1, AwaitedFacts DEF Verify
<1>7. \A b : b # c.asset \/ c.kind = "lookup" =>
        /\ IsStaged(rows', b) <=> IsStaged(rows, b)
        /\ Published(rows', b) <=> Published(rows, b)
        /\ b \in DOMAIN rows => rows'[b] = rows[b]
  BY <1>0, BesideFacts, Zenon DEF Settled, Beside
<1>8. StagedInv'
  <2> SUFFICES ASSUME NEW b, IsStaged(rows', b), b \notin aborted
               PROVE  lock \in Ingesters /\ at[lock] \in Verify /\ Asset(lock) = b
    BY <1>1, Zenon DEF StagedInv, Asset
  <2>1. CASE b # c.asset \/ c.kind = "lookup"
    BY <1>2, <1>7, <2>1, Zenon DEF IInv, StagedInv, IsStaged
  <2>2. CASE b = c.asset /\ c.kind # "lookup"
    BY <1>6, <2>2, Zenon
  <2> QED
    BY <2>1, <2>2, Zenon
<1>9. LateInv'
  BY <1>1, <1>6, <1>7, Zenon DEF IInv, LateInv, NoLate
<1>10. PublishedHasBlob'
  <2> SUFFICES ASSUME NEW b, Published(rows', b), ~doubtful
               PROVE  b \in DOMAIN blobs /\ blobs[b] = rows'[b].content
    BY <1>1, Zenon DEF PublishedHasBlob, Verified, Published
  <2>1. CASE b # c.asset \/ c.kind = "lookup" \/ rows' = rows
    BY <1>7, <2>1, Zenon DEF IInv, PublishedHasBlob, Verified, Published
  <2>2. CASE b = c.asset /\ c.kind # "lookup" /\ rows' # rows
    BY <1>1, <2>2, Zenon DEF Outcome, Row, Absent, Published, HasBlob
  <2> QED
    BY <2>1, <2>2, Zenon
<1>11. AckedStaysPublished'
  BY <1>1, ZenonT(30) DEF IInv, AckedStaysPublished, RowsStay, Row, Published
<1>12. Others(m.from)
  BY <1>1, Zenon DEF Others, Kept, Settled
<1>13. \A s \in Ingesters : s # m.from /\ Relies(s) => Undisturbed(s, Asset(s))
  BY SettledOthers, Zenon
<1>14. /\ m.from \in Ingesters => IngestInv(m.from)'
       /\ m.from \in Readers => ReadInv(m.from)'
  BY SettledIngest, SettledRead, Zenon
<1> QED
  BY <1>1, <1>3, <1>4, <1>5, <1>8, <1>9, <1>10, <1>11, <1>12, <1>13, <1>14, Together, Zenon

\* A transaction commits beside the files.
LEMMA CommitFacts ==
  ASSUME Shape, NEW new, Commit(new), RowsOK(new)
  PROVE  /\ RowsOK(disk'.rows)
         /\ disk' = [rows |-> disk'.rows, blobs |-> disk'.blobs]
<1>1. disk = [rows |-> disk.rows, blobs |-> disk.blobs] /\ RowsOK(disk.rows)
  BY Zenon DEF Shape
<1>2. PICK r, b : disk = [rows |-> r, blobs |-> b]
  BY <1>1, Zenon
<1>3. disk' = disk \/ disk' = [rows |-> new, blobs |-> b]
  BY <1>2, Zenon DEF Commit
<1> QED
  BY <1>1, <1>2, <1>3

\* What an answer changes of the calls.
LEMMA DeliverFacts ==
  ASSUME Shape, NEW m \in Messages, m.kind = "call", NEW ans, Deliver(m, ans)
  PROVE  /\ pc' \in [Tasks -> Phases] /\ DOMAIN answer' = Tasks
         /\ \A s \in Tasks :
              IF s = m.from THEN pc'[s] = "answered" /\ answer'[s] = <<ans>>
                            ELSE pc'[s] = pc[s] /\ answer'[s] = answer[s]
<1>1. m.from \in Tasks \cup {NoCaller} /\ NoCaller \notin Tasks
  BY RolesAssumption, Zenon DEF Messages, Tasks
<1>2. CASE m.from = NoCaller
  BY <1>1, <1>2, Zenon DEF Deliver, Shape
<1>3. CASE m.from # NoCaller
  BY <1>1, <1>3, Zenon DEF Deliver, Shape, Phases
<1> QED
  BY <1>2, <1>3, Zenon

\* The worker executes a command, fails it, or drops it with its receiver.
LEMMA HeadKeeps ==
  ASSUME IInv, queue # <<>>, Head(queue).kind = "call", queue' = Tail(queue), cmd' = cmd,
         UNCHANGED <<blobs, late, lock, at, want, phase, history>>,
         NEW ans, Deliver(Head(queue), ans),
         \/ /\ Commit(EffectOf(rows, Head(queue).command))
            /\ ans = AnswerTo(rows, Head(queue).command)
         \/ rows' = rows /\ disk' = disk /\ ans.tag \notin Telling
  PROVE  IInv'
<1>1. PICK m : m = Head(queue)
  BY Zenon
<1>2. Shape
  BY Zenon DEF IInv
<1>3. /\ m \in Messages /\ m.command \in AssetCommands /\ MessageInv(m)
      /\ m.from \in Tasks \cup {NoCaller}
      /\ Outcome(m.command, ans) /\ RowsOK(rows') /\ RowsStay
      /\ \A b : b # m.command.asset \/ m.command.kind = "lookup" => Beside(b)
  BY <1>1, OutcomeFacts, Zenon DEF Commit
<1>4. RowsOK(disk'.rows) /\ disk' = [rows |-> disk'.rows, blobs |-> disk'.blobs]
  <2>1. CASE disk' = disk
    BY <1>2, <2>1, Zenon DEF Shape
  <2>2. CASE Commit(EffectOf(rows, Head(queue).command))
    BY <1>2, <1>3, <2>2, CommitFacts, Zenon DEF Commit
  <2> QED
    BY <2>1, <2>2, Zenon
<1>5. Settled(m, ans)
  BY <1>1, <1>2, <1>3, DeliverFacts, Zenon DEF Settled
<1> QED
  BY <1>3, <1>4, <1>5, SettledKeeps, Zenon

\* The worker executes the command at the head, or the database fails it.
LEMMA ExecuteKeeps ==
  ASSUME IInv, Execute \/ ExecuteFails
  PROVE  IInv'
<1>1. CASE Execute
  BY <1>1, HeadKeeps, Zenon DEF Execute, Take
<1>2. CASE ExecuteFails
  <2>1. Answer("failure").tag \notin Telling
    BY Zenon DEF Answer, Telling
  <2> QED
    BY <1>2, <2>1, HeadKeeps, Zenon DEF ExecuteFails, Take, fileVars
<1> QED
  BY <1>1, <1>2, Zenon

-----------------------------------------------------------------------------
(* Shutdown, late file operations, crash and recovery.                     *)

\* A message keeps its invariant in a step that moves no task.
LEMMA MessagesStay ==
  ASSUME Same, \A s \in Tasks : Kept(s), NEW n, MessageInv(n)
  PROVE  MessageInv(n)'
<1>1. rows' = rows /\ blobs' = blobs /\ late' = late /\ aborted' = aborted
  BY Zenon DEF Same, fileVars, history
<1>2. Spared(n)
  BY <1>1, Zenon DEF Spared, Absent, Row, IsStaged, HasBlob, NoLate
<1> QED
  BY <1>1, <1>2, MessageKept, Zenon

\* What is to be shown of a step that moves no task.
LEMMA NobodyMoves ==
  ASSUME IInv, Same, \A s \in Tasks : Kept(s), Shape', PhaseInv', QueueInv',
         \A a : NoneOn(a) => NoneOn(a)', \A a, s : OwnOn(s, a) => OwnOn(s, a)'
  PROVE  IInv'
<1>1. rows' = rows /\ blobs' = blobs /\ late' = late
  BY Zenon DEF Same, fileVars
<1>2. \A s, a : Undisturbed(s, a)
  BY <1>1, Zenon DEF Undisturbed, Absent, Row, HasBlob, NoLate
<1>3. Others(NoCaller) /\ NoCaller \notin Ingesters /\ NoCaller \notin Readers
  BY RolesAssumption, Zenon DEF Others
<1> QED
  BY <1>2, <1>3, SameRest, Together, Zenon

\* A step of close() or of the thread that leaves the queue alone.
LEMMA QuietKeeps ==
  ASSUME IInv, Same, UNCHANGED <<queue, pc, cmd, answer>>,
         phase # "open" => ~held' /\ closing' = closing
  PROVE  IInv'
<1>1. \A s \in Tasks : Kept(s)
  BY Zenon DEF Same, Kept
<1>2. /\ rows' = rows /\ disk' = disk /\ late' = late /\ at' = at /\ want' = want
      /\ phase' = phase /\ lock' = lock /\ doubtful' = doubtful
  BY Zenon DEF Same, fileVars, history
<1>3. Shape'
  BY <1>2, Zenon DEF IInv, Shape
<1>4. PhaseInv'
  BY <1>2, Zenon DEF IInv, PhaseInv
<1>5. ASSUME NEW i \in 1 .. Len(queue), queue[i].kind = "call"
      PROVE  MessageInv(queue[i])'
  <2>1. PICK n : n = queue[i]
    BY Zenon
  <2>2. MessageInv(n)
    BY <1>5, <2>1, Zenon DEF IInv, QueueInv
  <2>3. MessageInv(n)'
    BY <1>1, <2>2, MessagesStay, Zenon
  <2> QED
    BY <2>1, <2>3, Zenon DEF MessageInv, Ready
<1>6. QueueInv'
  BY <1>5, Zenon DEF IInv, QueueInv, Changes
<1>7. (\A a : NoneOn(a) => NoneOn(a)') /\ (\A a, s : OwnOn(s, a) => OwnOn(s, a)')
  BY Zenon DEF NoneOn, OwnOn
<1> QED
  BY <1>1, <1>3, <1>4, <1>6, <1>7, NobodyMoves, Zenon

\* close() queues its message.
LEMMA CloseSendKeeps ==
  ASSUME IInv, Same, NEW k \in Closers, CloseSend(k)
  PROVE  IInv'
<1>1. /\ phase = "open" /\ UNCHANGED <<pc, cmd, answer>>
      /\ queue' = Append(queue, ShutdownOf(k))
  BY Zenon DEF IInv, PhaseInv, CloseSend, callerVars
<1>2. PICK m \in Messages : m = ShutdownOf(k)
  BY Zenon DEF ShutdownOf, Messages
<1>3. m.kind = "shutdown" /\ m.from = k /\ k \notin Tasks
  BY <1>2, RolesAssumption, Zenon DEF ShutdownOf, Tasks
<1>4. \A a : ~Changes(m, a)
  BY <1>3, Zenon DEF Changes
<1>5. \A s \in Tasks : Kept(s)
  BY <1>1, Zenon DEF Same, Kept
<1>6. ASSUME NEW i \in 1 .. Len(queue), queue[i].kind = "call"
      PROVE  MessageInv(queue[i])'
  <2>1. PICK n : n = queue[i]
    BY Zenon
  <2>2. MessageInv(n)
    BY <1>6, <2>1, Zenon DEF IInv, QueueInv
  <2>3. MessageInv(n)'
    BY <1>5, <2>2, MessagesStay, Zenon
  <2>4. queue'[i] = n
    BY <1>1, <2>1 DEF IInv, Shape
  <2> QED
    BY <2>3, <2>4, Zenon DEF MessageInv, Ready
<1>7. /\ QueueInv' /\ queue' \in Seq(Messages)
      /\ \A a : ~Changes(m, a) /\ NoneOn(a) => NoneOn(a)'
      /\ \A a, s : (m.from = s \/ ~Changes(m, a)) /\ OwnOn(s, a) => OwnOn(s, a)'
  BY <1>1, <1>2, <1>3, <1>4, <1>6, QueueGrows, Zenon DEF IInv
<1>8. Shape'
  BY <1>1, <1>7, Zenon DEF IInv, Shape, Same, fileVars
<1>9. PhaseInv'
  BY <1>1, SameRest, Zenon
<1> QED
  BY <1>4, <1>5, <1>7, <1>8, <1>9, NobodyMoves, Zenon

\* The message of close() leaves the queue.
LEMMA ShutdownGone ==
  ASSUME IInv, Same, queue # <<>>, queue' = Tail(queue), cmd' = cmd,
         pc' \in [Tasks -> Phases], DOMAIN answer' = Tasks,
         \A s \in Tasks : pc'[s] = pc[s] /\ answer'[s] = answer[s]
  PROVE  IInv'
<1>1. phase = "open" /\ Shape /\ QueueInv
  BY Zenon DEF IInv, PhaseInv
<1>2. \A s \in Tasks : Kept(s)
  BY Zenon DEF Same, Kept
<1>3. /\ queue' \in Seq(Messages)
      /\ \A i \in 1 .. Len(queue') : i + 1 \in 1 .. Len(queue) /\ queue'[i] = queue[i + 1]
  BY <1>1, TailFacts, Zenon
<1>4. ASSUME NEW i \in 1 .. Len(queue'), queue'[i].kind = "call"
      PROVE  MessageInv(queue[i])'
  <2>1. PICK n : n = queue'[i]
    BY Zenon
  <2>2. MessageInv(n)
    BY <1>1, <1>3, <1>4, <2>1, Zenon DEF QueueInv
  <2>3. MessageInv(n)'
    BY <1>2, <2>2, MessagesStay, Zenon
  <2> QED
    BY <2>1, <2>3, Zenon DEF MessageInv, Ready
<1>5. /\ QueueInv'
      /\ \A a : NoneOn(a) => NoneOn(a)'
      /\ \A a, s : OwnOn(s, a) => OwnOn(s, a)'
  BY <1>1, <1>4, HeadGone, Zenon
<1>6. Shape'
  BY <1>1, <1>3, Zenon DEF Shape, Same, fileVars
<1>7. PhaseInv'
  BY <1>1, SameRest, Zenon
<1> QED
  BY <1>2, <1>5, <1>6, <1>7, NobodyMoves, Zenon

\* The thread ends, close() goes on, or the last handle is dropped.
LEMMA ShutdownKeeps ==
  ASSUME IInv, Shutdown
  PROVE  IInv'
<1>1. Same /\ Shape /\ PhaseInv
  BY Zenon DEF IInv, Shutdown, Same
<1>2. CASE TakeShutdown
  BY <1>1, <1>2, ShutdownGone, Zenon DEF TakeShutdown, callerVars, Shape
<1>3. CASE Discard /\ Head(queue).kind = "call"
  <2>1. Lost.tag \notin Telling
    BY Zenon DEF Lost, Telling
  <2> QED
    BY <1>1, <1>3, <2>1, HeadKeeps, Zenon DEF Discard, Same, fileVars
<1>4. CASE Discard /\ Head(queue).kind # "call"
  <2>1. PICK m \in Messages : m = Head(queue)
    BY <1>1, <1>4 DEF Discard, Shape
  <2>2. m.from \notin Tasks
    BY <1>4, <2>1, RolesAssumption, Zenon DEF Messages, Tasks
  <2>3. Deliver(m, Lost)
    BY <1>4, <2>1, Zenon DEF Discard
  <2>4. /\ pc' \in [Tasks -> Phases] /\ DOMAIN answer' = Tasks
        /\ \A s \in Tasks : pc'[s] = pc[s] /\ answer'[s] = answer[s]
    BY <1>1, <2>2, <2>3, ZenonT(30) DEF Deliver, Shape
  <2> QED
    BY <1>1, <1>4, <2>4, ShutdownGone, Zenon DEF Discard
<1>5. CASE RecvNone \/ DropReceiver \/ ThreadEnds
  BY <1>1, <1>5, QuietKeeps
     DEF RecvNone, DropReceiver, ThreadEnds, callerVars, handleVars, PhaseInv
<1>6. ASSUME NEW k \in Closers, CloseSwap(k, TRUE) \/ CloserStep(k)
      PROVE  IInv'
  <2>1. phase = "open"
    BY <1>1, <1>6, Zenon DEF PhaseInv, CloseSwap, CloserStep, CloseTake, CloseSend,
       CloseTakeJoin, CloseJoined
  <2>2. CASE CloseSend(k)
    BY <1>1, <2>2, CloseSendKeeps, Zenon
  <2>3. CASE CloseSwap(k, TRUE) \/ CloseTake(k) \/ CloseTakeJoin(k) \/ CloseJoined(k)
    BY <1>1, <2>1, <2>3, QuietKeeps, Zenon
       DEF CloseSwap, CloseTake, CloseTakeJoin, CloseJoined, callerVars
  <2> QED
    BY <1>6, <2>2, <2>3, Zenon DEF CloserStep
<1>7. CASE DropHandle
  BY <1>1, <1>7, QuietKeeps, Zenon DEF DropHandle, callerVars
<1> QED
  BY <1>2, <1>3, <1>4, <1>5, <1>6, <1>7, Zenon DEF Shutdown, ThreadEnding

\* A file operation that was handed to the blocking pool ends.
LEMMA LateFileKeeps ==
  ASSUME IInv, NEW o \in late, LateFile(o)
  PROVE  IInv'
<1>1. /\ Shape /\ PhaseInv /\ QueueInv /\ LateInv
      /\ IsStaged(rows, o.asset) /\ phase = "open"
  BY Zenon DEF IInv, LateInv, PhaseInv
<1>2. /\ UNCHANGED <<rows, lock, at, want, phase, queue, pc, cmd, answer>>
      /\ UNCHANGED <<doubtful, acked, aborted>> /\ late' = late \ {o}
  BY Zenon DEF LateFile, history, callVars
<1>3. PICK y, oa : y = o.bytes /\ oa = o.asset
  BY Zenon
<1>4. /\ \A b, x : b # oa /\ HasBlob(b, x) => HasBlob(b, x)'
      /\ disk'.rows = disk.rows /\ disk' = [rows |-> disk'.rows, blobs |-> disk'.blobs]
  <2>1. CASE UNCHANGED <<blobs, disk>>
    BY <1>1, <2>1, Zenon DEF HasBlob, Shape
  <2>2. CASE Move(Set(blobs, oa, y))
    <3>1. /\ blobs' = Set(blobs, oa, y) /\ disk'.rows = disk.rows
          /\ disk' = [rows |-> disk'.rows, blobs |-> disk'.blobs]
      BY <1>1, <2>2, MoveFacts, Zenon
    <3>2. \A b, x : b # oa /\ HasBlob(b, x) => HasBlob(b, x)'
      BY <3>1, BlobFacts, Zenon
    <3> QED
      BY <3>1, <3>2, Zenon
  <2>3. CASE Move(Without(blobs, {oa}))
    BY <1>1, <2>3, MoveFacts, BlobFacts, Zenon
  <2> QED
    BY <1>3, <2>1, <2>2, <2>3, Zenon DEF LateFile
<1>5. /\ \A a : NoLate(a) => NoLate(a)' /\ a # oa
      /\ \A a : (Absent(a)' <=> Absent(a)) /\ (NoneOn(a)' <=> NoneOn(a))
      /\ \A a, s : OwnOn(s, a)' <=> OwnOn(s, a)
      /\ \A a, x, state : Row(a, x, state)' <=> Row(a, x, state)
  BY <1>2, <1>3, Zenon DEF NoLate, Absent, NoneOn, OwnOn, Row
<1>6. \A s \in Tasks : Kept(s)
  BY <1>2, Zenon DEF Kept
<1>7. ASSUME NEW i \in 1 .. Len(queue), queue[i].kind = "call"
      PROVE  MessageInv(queue[i])'
  <2>1. PICK n : n = queue[i]
    BY Zenon
  <2>2. MessageInv(n)
    BY <1>1, <1>7, <2>1, Zenon DEF QueueInv
  <2>3. ASSUME n.command.kind # "lookup" PROVE Spared(n)
    <3>1. PICK a : a = n.command.asset
      BY Zenon
    <3>2. NoLate(a)
      BY <2>2, <2>3, <3>1, Zenon DEF MessageInv
    <3> QED
      BY <1>2, <1>4, <1>5, <3>1, <3>2, Zenon DEF Spared, IsStaged
  <2>4. MessageInv(n)'
    BY <1>2, <1>6, <2>2, <2>3, MessageKept, Zenon
  <2> QED
    BY <1>2, <2>1, <2>4, Zenon DEF MessageInv, Ready
<1>8. QueueInv'
  BY <1>1, <1>2, <1>7, Zenon DEF QueueInv, Changes
<1>9. Shape' /\ PhaseInv'
  BY <1>1, <1>2, <1>4, Zenon DEF Shape, PhaseInv
<1>10. StagedInv' /\ LateInv' /\ AckedStaysPublished'
  BY <1>2, Zenon DEF IInv, StagedInv, LateInv, AckedStaysPublished, Asset
<1>11. PublishedHasBlob'
  BY <1>1, <1>2, <1>3, <1>4, Zenon
     DEF IInv, PublishedHasBlob, Published, IsStaged, Verified, HasBlob
<1>12. \A s \in Ingesters : Relies(s) => Undisturbed(s, Asset(s))
  <2> SUFFICES ASSUME NEW s \in Ingesters, Relies(s) PROVE Undisturbed(s, Asset(s))
    BY Zenon
  <2>1. PICK a : a = Asset(s)
    BY Zenon
  <2>2. NoLate(a)
    BY <2>1, Zenon DEF IInv, IngestInv, AloneInv, Relies
  <2>3. Undisturbed(s, a)
    BY <1>4, <1>5, <2>2, Zenon DEF Undisturbed
  <2> QED
    BY <2>1, <2>3, Zenon
<1>13. /\ Others(NoCaller) /\ NoCaller \notin Ingesters /\ NoCaller \notin Readers
       /\ RowsStay /\ \A s \in Ingesters : lock' = s <=> lock = s
  BY <1>2, <1>5, <1>6, RolesAssumption, Zenon DEF Others, RowsStay
<1> QED
  BY <1>8, <1>9, <1>10, <1>11, <1>12, <1>13, Together, Zenon

\* A store that is not open is at rest ...
LEMMA AtRest ==
  ASSUME IInv, phase # "open"
  PROVE  /\ queue = <<>> /\ late = {} /\ \A t \in Ingesters : lock # t
         /\ \A t \in Tasks : at[t] = "idle" /\ pc[t] = "idle"
<1>1. queue = <<>> /\ late = {} /\ \A t \in Tasks : at[t] = "idle"
  BY Zenon DEF IInv, PhaseInv
<1> QED
  BY <1>1, Zenon DEF IInv, IngestInv, ReadInv, Calling, Locked, Working, Verify, Tasks

\* ... and at rest little is to be shown.
LEMMA RestKeeps ==
  ASSUME Shape', PhaseInv', StagedInv', PublishedHasBlob', AckedStaysPublished',
         queue' = <<>>, late' = {}, \A t \in Ingesters : lock' # t,
         \A t \in Tasks : at'[t] = "idle" /\ pc'[t] = "idle"
  PROVE  IInv'
<1>1. \A t \in Ingesters : IngestInv(t)'
  BY IdleOK, Zenon DEF Tasks
<1>2. \A t \in Readers : ReadInv(t)'
  BY IdleOK, Zenon DEF Tasks
<1>3. QueueInv' /\ LateInv'
  BY DEF QueueInv, LateInv
<1> QED
  BY <1>1, <1>2, <1>3, Zenon DEF IInv

\* The process dies, or the machine loses power.
LEMMA DownKeeps ==
  ASSUME IInv, Crash \/ PowerLoss
  PROVE  IInv'
<1>1. Down /\ Shape /\ PhaseInv
  BY Zenon DEF IInv, Crash, PowerLoss
<1>2. /\ queue' = <<>> /\ late' = {} /\ lock' = NoTask /\ phase' = "down" /\ held' = FALSE
      /\ pc' = [t \in Tasks |-> "idle"] /\ cmd' = [t \in Tasks |-> <<>>]
      /\ answer' = [t \in Tasks |-> <<>>] /\ closing' = [k \in Closers |-> "idle"]
      /\ at' = [t \in Tasks |-> "idle"] /\ want' = [t \in Tasks |-> <<>>]
  BY <1>1, Zenon DEF Down, ProcessDies
<1>3. RowsOK(rows') /\ disk' = disk /\ doubtful' \in BOOLEAN
  BY <1>1, Zenon DEF Crash, PowerLoss, Shape, PhaseInv, history
<1>4. Shape'
  BY <1>1, <1>2, <1>3 DEF Shape, Phases
<1>5. PhaseInv' /\ StagedInv'
  BY <1>2, <1>3, Zenon DEF PhaseInv, StagedInv
<1>6. PublishedHasBlob'
  BY DEF IInv, Crash, PowerLoss, history, PublishedHasBlob, Published, Verified
<1>7. AckedStaysPublished'
  BY Zenon DEF IInv, Crash, PowerLoss, history, AckedStaysPublished, Published
<1> QED
  BY <1>2, <1>4, <1>5, <1>6, <1>7, RestKeeps, RolesAssumption, Zenon

\* Recovery verifies the published rows and deletes the staged ones.
LEMMA RecoverKeeps ==
  ASSUME IInv, RecoverRows
  PROVE  IInv'
<1>1. /\ Shape /\ PhaseInv /\ phase = "down" /\ phase' = "sweeping" /\ doubtful' = FALSE
      /\ UNCHANGED <<blobs, late, lock, at, want, acked, queue, pc, cmd, answer>>
      /\ UNCHANGED <<held, closing>>
  BY Zenon DEF IInv, RecoverRows, callVars
<1>2. rows' = [a \in {b \in DOMAIN rows : Published(rows, b)} |-> rows[a]]
  BY Zenon DEF RecoverRows, Commit, Restrict
<1>3. RowsOK(rows')
  BY <1>1, <1>2, Zenon DEF Shape, RowsOK
<1>4. RowsOK(disk'.rows) /\ disk' = [rows |-> disk'.rows, blobs |-> disk'.blobs]
  BY <1>1, <1>3, CommitFacts, Zenon DEF RecoverRows, Commit
<1>5. Shape'
  BY <1>1, <1>3, <1>4, Zenon DEF Shape
<1>6. \A a \in DOMAIN rows' : Published(rows', a)
  BY <1>2, Zenon DEF Published
<1>7. PhaseInv'
  BY <1>1, <1>6, Zenon DEF PhaseInv
<1>8. PublishedHasBlob'
  BY <1>1, <1>2, Zenon DEF RecoverRows, PublishedHasBlob, Published, Verified
<1>9. AckedStaysPublished'
  BY <1>1, <1>2, Zenon DEF IInv, AckedStaysPublished, Published
<1>10. StagedInv'
  BY <1>1, Zenon DEF StagedInv
<1> QED
  BY <1>1, <1>5, <1>7, <1>8, <1>9, <1>10, AtRest, RestKeeps, Zenon

\* A blob without a published row goes to quarantine.
LEMMA SweepKeeps ==
  ASSUME IInv, NEW a, SweepBlob(a)
  PROVE  IInv'
<1>1. /\ Shape /\ PhaseInv /\ phase = "sweeping" /\ ~Published(rows, a)
      /\ UNCHANGED <<rows, late, lock, at, want, phase, queue, pc, cmd, answer>>
      /\ UNCHANGED <<held, closing, doubtful, acked, aborted>>
  BY Zenon DEF IInv, SweepBlob, callVars, history
<1>2. /\ blobs' = Without(blobs, {a}) /\ disk'.rows = disk.rows
      /\ disk' = [rows |-> disk'.rows, blobs |-> disk'.blobs]
  BY <1>1, MoveFacts, Zenon DEF SweepBlob
<1>3. Shape' /\ PhaseInv' /\ StagedInv'
  BY <1>1, <1>2, Zenon DEF Shape, PhaseInv, StagedInv
<1>4. PublishedHasBlob'
  <2>1. \A b, x : b # a /\ HasBlob(b, x) => HasBlob(b, x)'
    BY <1>2, BlobFacts, Zenon
  <2>2. ASSUME NEW b \in DOMAIN rows, Published(rows, b), ~doubtful
        PROVE  HasBlob(b, rows[b].content)
    BY <2>2, Zenon DEF IInv, PublishedHasBlob, Verified, HasBlob
  <2>3. ASSUME NEW b \in DOMAIN rows, Published(rows, b), ~doubtful
        PROVE  \E x : x = rows[b].content /\ HasBlob(b, x)'
    BY <1>1, <2>1, <2>2, <2>3, Zenon
  <2> QED
    BY <1>1, <2>3, Zenon DEF PublishedHasBlob, Verified, HasBlob
<1>5. AckedStaysPublished'
  BY <1>1, Zenon DEF IInv, AckedStaysPublished
<1> QED
  BY <1>1, <1>3, <1>4, <1>5, AtRest, RestKeeps, Zenon

\* The store opens.
LEMMA OpenKeeps ==
  ASSUME IInv, Open
  PROVE  IInv'
<1>1. /\ Shape /\ PhaseInv /\ phase = "sweeping" /\ phase' = "open"
      /\ UNCHANGED <<rows, blobs, disk, late, lock, at, want, queue, pc, cmd, answer>>
      /\ UNCHANGED <<doubtful, acked>>
  BY Zenon DEF IInv, Open, WorkerStarts, callerVars, fileVars
<1>2. Shape' /\ PhaseInv'
  BY <1>1, Zenon DEF Shape, PhaseInv
<1>3. StagedInv'
  BY <1>1, Zenon DEF PhaseInv, StagedInv, Published, IsStaged
<1>4. PublishedHasBlob' /\ AckedStaysPublished'
  BY <1>1, Zenon DEF IInv, PublishedHasBlob, Verified, Published, AckedStaysPublished
<1> QED
  BY <1>1, <1>2, <1>3, <1>4, AtRest, RestKeeps, Zenon

-----------------------------------------------------------------------------
(* The invariant, and what follows from it.                                *)

\* A new store satisfies the invariant.
LEMMA InitIInv == Init => IInv
<1> SUFFICES ASSUME Init PROVE IInv
  BY Zenon
<1>1. Shape
  BY DEF Init, WorkerInit, Shape, RowsOK, Phases
<1>2. PhaseInv /\ StagedInv
  <2>1. rows = <<>> /\ DOMAIN rows = {}
    BY DEF Init
  <2>2. StagedInv
    BY <2>1, Zenon DEF StagedInv
  <2>3. PhaseInv
    BY Zenon DEF Init, WorkerInit, PhaseInv
  <2> QED
    BY <2>2, <2>3, Zenon
<1>3. PublishedHasBlob /\ AckedStaysPublished
  BY DEF Init, PublishedHasBlob, AckedStaysPublished
<1>4. QueueInv /\ LateInv
  BY DEF Init, WorkerInit, QueueInv, LateInv
<1>5. \A t \in Tasks : at[t] = "idle" /\ pc[t] = "idle" /\ (t \in Ingesters => lock # t)
  BY RolesAssumption, Zenon DEF Init, WorkerInit
<1>6. \A t \in Ingesters : IngestInv(t)
  BY <1>5, Zenon DEF IngestInv, AloneInv, RowInv, Locked, Working, Verify, Calling, Tasks
<1>7. \A t \in Readers : ReadInv(t)
  BY <1>5, Zenon DEF ReadInv, Tasks
<1> QED
  BY <1>1, <1>2, <1>3, <1>4, <1>6, <1>7, Zenon DEF IInv

\* A step of an ingest keeps the invariant.
LEMMA IngestStepKeeps ==
  ASSUME IInv, NEW t \in Ingesters, IngestStep(t)
  PROVE  IInv'
BY LockKeeps, LookedKeeps, WriteKeeps, StagedKeeps, RenameKeeps, RemoveKeeps,
   PublishReturnedKeeps, RemovedKeeps, Zenon DEF IngestStep

\* A step that changes nothing keeps the invariant.
LEMMA StutterKeeps ==
  ASSUME IInv, UNCHANGED vars
  PROVE  IInv'
<1>1. Same /\ UNCHANGED <<queue, pc, cmd, answer, held, closing>>
  BY Zenon DEF vars, Same, callVars
<1> QED
  BY <1>1, QuietKeeps, Zenon DEF IInv, PhaseInv

\* Every step keeps the invariant.
LEMMA StepIInv == IInv /\ [Next]_vars => IInv'
<1> SUFFICES ASSUME IInv, [Next]_vars PROVE IInv'
  BY Zenon
<1>1. ASSUME NEW t \in Ingesters,
             \/ \E a \in Assets, x, bytes \in Contents : Begin(t, a, x, bytes)
             \/ IngestStep(t)
      PROVE  IInv'
  BY <1>1, BeginKeeps, IngestStepKeeps, Zenon
<1>2. ASSUME NEW t \in Readers, (\E a \in Assets : ReadBegin(t, a)) \/ ReadStep(t)
      PROVE  IInv'
  BY <1>2, ReadBeginKeeps, ReadFoundKeeps, ReadBlobKeeps, Zenon DEF ReadStep
<1>3. ASSUME NEW t \in Tasks, Dispatch(t) \/ CancelCall(t) \/ CancelFile(t)
      PROVE  IInv'
  BY <1>3, DispatchKeeps, CancelCallKeeps, CancelFileKeeps, Zenon
<1>4. ASSUME NEW o \in late, LateFile(o) PROVE IInv'
  BY <1>4, LateFileKeeps, Zenon
<1>5. CASE Execute \/ ExecuteFails
  BY <1>5, ExecuteKeeps, Zenon
<1>6. CASE Shutdown \/ Crash \/ PowerLoss
  BY <1>6, ShutdownKeeps, DownKeeps, Zenon
<1>7. CASE Recovery
  BY <1>7, RecoverKeeps, SweepKeeps, OpenKeeps, Zenon DEF Recovery
<1>8. CASE UNCHANGED vars
  BY <1>8, StutterKeeps, Zenon
<1> QED
  BY <1>1, <1>2, <1>3, <1>4, <1>5, <1>6, <1>7, <1>8, Zenon DEF Next

\* The store keeps its rows, its blobs, its queue and its tasks in step.
LEMMA SpecIInv == Spec => []IInv
BY InitIInv, StepIInv, PTL DEF Spec

\* A published row has its blob, with the descriptor's content, after any
\* ingests, cancelled futures, late renames, failed commands and crashes;
\* only between a loss of power and the next opening may it lack one.
THEOREM HasBlobs == Spec => []PublishedHasBlob
<1>1. IInv => PublishedHasBlob
  BY Zenon DEF IInv
<1> QED
  BY <1>1, SpecIInv, PTL

\* An ingest that has returned Ok is not undone by another ingest, by a late
\* file operation or by recovery.
THEOREM AckedStay == Spec => []AckedStaysPublished
<1>1. IInv => AckedStaysPublished
  BY Zenon DEF IInv
<1> QED
  BY <1>1, SpecIInv, PTL

\* read_range() opens its blob after the lookup, outside of the worker: the
\* blob is there and has the content that was looked up.
THEOREM Readable == Spec => []FoundIsReadable
<1>1. IInv => FoundIsReadable
  <2> SUFFICES ASSUME IInv, NEW t \in Readers, at[t] = "opening"
               PROVE  Asset(t) \in DOMAIN blobs /\ blobs[Asset(t)] = Content(t)
    BY Zenon DEF FoundIsReadable
  <2>1. Row(Asset(t), Content(t), "published")
    BY Zenon DEF IInv, ReadInv
  <2>2. ~doubtful
    BY IsOpen, Zenon DEF IInv, PhaseInv, Tasks
  <2> QED
    BY <2>1, <2>2, Zenon DEF IInv, PublishedHasBlob, Published, Verified, Row
<1> QED
  BY <1>1, SpecIInv, PTL

\* A staged row of an open store belongs to the ingest that holds the lock,
\* or to one that was cut off before it could take the row away.
THEOREM StagedOwned == Spec => []StagedHasIngest
<1>1. IInv => StagedHasIngest
  BY Zenon DEF IInv, StagedInv, StagedHasIngest
<1> QED
  BY <1>1, SpecIInv, PTL

-----------------------------------------------------------------------------
(* What the return of close() says about the worker thread.                *)

Joining == \E j \in Closers : closing[j] = "joining"

\* While the thread runs: the join handle is in its place, or with a closer
\* that waits, or gone with the last clone of the store, and then no close()
\* was ever called.
QuietInv ==
  /\ closing \in [Closers -> {"idle", "taking", "sending", "waiting",
                              "ending", "joining", "done"}]
  /\ thread = "running" =>
       /\ ~held => \A k \in Closers : closing[k] = "idle"
       /\ held /\ ~join => Joining
       /\ (\E k \in Closers : closing[k] = "done") => Joining

\* What every step does that no closer takes, in an open store.
NoCloser ==
  \/ UNCHANGED <<handleVars, closing>> /\ thread' = thread
  \/ thread' # "running" /\ closing' = closing

\* Such a step keeps what the closers rely on.
LEMMA NoCloserQuiet ==
  ASSUME QuietInv, NoCloser
  PROVE  QuietInv'
BY DEF QuietInv, NoCloser, Joining, handleVars

\* The steps of tasks and files, and the commands of the worker.
LEMMA TasksQuiet ==
  ASSUME NEW t,
         \/ \E a, x, bytes : Begin(t, a, x, bytes)
         \/ IngestStep(t) \/ (\E a : ReadBegin(t, a)) \/ ReadStep(t)
         \/ Dispatch(t) \/ CancelCall(t) \/ CancelFile(t)
         \/ (\E o : LateFile(o)) \/ Execute \/ ExecuteFails
         \/ RecoverRows \/ (\E a : SweepBlob(a)) \/ UNCHANGED vars
  PROVE  NoCloser
<1>1. CASE \/ \E a, x, bytes : Begin(t, a, x, bytes)
           \/ WriteFails(t) \/ ReadBlob(t) \/ CancelFile(t) \/ (\E o : LateFile(o))
           \/ RecoverRows \/ (\E a : SweepBlob(a)) \/ UNCHANGED vars
  BY <1>1, Zenon DEF Begin, WriteFails, ReadBlob, CancelFile, LateFile, RecoverRows,
     SweepBlob, vars, callVars, NoCloser, handleVars
<1>2. CASE \/ Lock(t) \/ WriteStaging(t) \/ Rename(t) \/ RenameFails(t)
           \/ Quarantine(t) \/ \E a : ReadBegin(t, a)
  BY <1>2, Zenon DEF Lock, WriteStaging, Rename, RenameFails, Quarantine, ReadBegin,
     GoCall, Call, NoCloser
<1>3. CASE \/ Looked(t) \/ Staged(t) \/ PublishReturned(t) \/ Removed(t)
           \/ ReadFound(t)
  BY <1>3, Zenon DEF Looked, Staged, PublishReturned, Removed, ReadFound, Returned,
     Return, NoCloser
<1>4. CASE Dispatch(t) \/ CancelCall(t) \/ Execute \/ ExecuteFails
  BY <1>4, Zenon DEF Dispatch, CheckClosed, CloneSender, TrySend, Refuse, Proceed,
     CancelCall, Cancel, Execute, ExecuteFails, Take, NoCloser
<1> QED
  BY <1>1, <1>2, <1>3, <1>4, Zenon DEF IngestStep, ReadStep

\* The steps of shutdown.
LEMMA ShutdownQuiet ==
  ASSUME QuietInv, Shutdown
  PROVE  QuietInv'
<1>1. CASE TakeShutdown
  BY <1>1, Zenon DEF TakeShutdown, QuietInv
<1>2. ASSUME NEW k \in Closers, CloseSwap(k, TRUE) PROVE QuietInv'
  <2>1. closing' = [closing EXCEPT ![k] = "taking"]
          \/ closing' = [closing EXCEPT ![k] = "ending"]
    BY <1>2, Zenon DEF CloseSwap
  <2>2. Joining => Joining'
    BY <1>2, <2>1, Zenon DEF CloseSwap, Joining, QuietInv
  <2> QED
    BY <1>2, <2>1, <2>2, Zenon DEF CloseSwap, QuietInv
<1>3. ASSUME NEW k \in Closers, CloseTake(k) \/ CloseSend(k) PROVE QuietInv'
  <2>1. /\ closing[k] \in {"taking", "sending"} /\ UNCHANGED <<held, join, thread>>
        /\ \/ closing' = [closing EXCEPT ![k] = "sending"]
           \/ closing' = [closing EXCEPT ![k] = "waiting"]
    BY <1>3, Zenon DEF CloseTake, CloseSend, handleVars
  <2>2. Joining => Joining'
    BY <2>1, Zenon DEF Joining, QuietInv
  <2> QED
    BY <2>1, <2>2, Zenon DEF QuietInv
<1>4. ASSUME NEW k \in Closers, CloseTakeJoin(k) PROVE QuietInv'
  <2>1. thread = "running" => held
    BY <1>4, Zenon DEF CloseTakeJoin, QuietInv
  <2>2. CASE join
    <3>1. closing' = [closing EXCEPT ![k] = "joining"]
      BY <1>4, <2>2, Zenon DEF CloseTakeJoin
    <3>2. Joining'
      BY <3>1, Zenon DEF Joining, QuietInv
    <3> QED
      BY <1>4, <2>1, <3>1, <3>2, Zenon DEF CloseTakeJoin, QuietInv
  <2>3. CASE ~join
    <3>1. closing' = [closing EXCEPT ![k] = "done"]
      BY <1>4, <2>3, Zenon DEF CloseTakeJoin
    <3>2. Joining => Joining'
      BY <1>4, <3>1, Zenon DEF Joining, QuietInv, CloseTakeJoin
    <3> QED
      BY <1>4, <2>1, <2>3, <3>1, <3>2, Zenon DEF CloseTakeJoin, QuietInv
  <2> QED
    BY <2>2, <2>3, Zenon
<1>5. ASSUME NEW k \in Closers, CloseJoined(k) PROVE QuietInv'
  BY <1>5, Zenon DEF CloseJoined, QuietInv
<1>6. CASE DropHandle
  BY <1>6, Zenon DEF DropHandle, QuietInv, Joining
<1>7. CASE RecvNone \/ DropReceiver \/ Discard \/ ThreadEnds
  <2>1. NoCloser
    BY <1>7, Zenon DEF RecvNone, DropReceiver, Discard, ThreadEnds, NoCloser
  <2> QED
    BY <2>1, NoCloserQuiet, Zenon
<1> QED
  BY <1>1, <1>2, <1>3, <1>4, <1>5, <1>6, <1>7, Zenon
     DEF Shutdown, ThreadEnding, CloserStep

\* ClosedIsQuiet for the worker of LocalAssetStore, over any crashes and
\* reopenings: of any number of close() calls that race with each other and
\* with any ingests and reads, each returns when the worker has left its
\* loop, or while another of them waits for it.
THEOREM Quiet == Spec => []ClosedIsQuiet(TRUE)
<1>1. QuietInv => ClosedIsQuiet(TRUE)
  BY Zenon DEF QuietInv, Joining, ClosedIsQuiet
<1>2. Init => QuietInv
  BY Zenon DEF Init, WorkerInit, QuietInv
<1>3. QuietInv /\ [Next]_vars => QuietInv'
  <2> SUFFICES ASSUME QuietInv, [Next]_vars PROVE QuietInv'
    BY Zenon
  <2>1. CASE Crash \/ PowerLoss
    BY <2>1, Zenon DEF Crash, PowerLoss, Down, ProcessDies, QuietInv
  <2>2. CASE Open
    BY <2>2, Zenon DEF Open, WorkerStarts, QuietInv
  <2> QED
    BY <2>1, <2>2, ShutdownQuiet, TasksQuiet, NoCloserQuiet, Zenon DEF Next, Recovery
<1> QED
  BY <1>1, <1>2, <1>3, PTL DEF Spec
=============================================================================
