------------------------------ MODULE StoreWorker ------------------------------
(***************************************************************************)
(* The command worker that SQLiteEventStore, SQLiteCatalogStore and        *)
(* LocalAssetStore each own: a handle shared by every clone of the store,  *)
(* a bounded mpsc queue, and one thread that owns the SQLite connection,   *)
(* takes commands in order and answers each over a oneshot channel.        *)
(*                                                                         *)
(* A call checks the closed flag, then clones the sender under its lock,   *)
(* then tries to queue its command: three separate steps, so a call may    *)
(* hold a sender that close() has already taken out of the handle.  What a *)
(* command does is left to the module that uses this one: Take(a) removes  *)
(* the command at the head of the queue and answers it with a.             *)
(***************************************************************************)
EXTENDS Naturals, Sequences, FiniteSets

CONSTANTS
  Callers,          \* tasks that call the store
  Closers,          \* tasks that call close()
  Commands,         \* the commands of the store
  Answers,          \* what the worker may answer
  NoCaller,         \* whom a command answers whose caller has gone
  QueueCapacity     \* capacity of the mpsc queue

ASSUME CapacityAssumption == QueueCapacity \in Nat \ {0}
ASSUME TasksAssumption == NoCaller \notin Callers /\ Callers \cap Closers = {}

VARIABLES
  held,       \* some clone of the store is alive
  closed,     \* WorkerHandle.closed
  sender,     \* WorkerHandle.sender still holds the sender
  join,       \* WorkerHandle.join still holds the thread's handle
  queue,      \* the mpsc queue
  thread,     \* the worker thread: running, leaving (its loop is over),
              \* dropping (its receiver), stopped
  pc,         \* per caller: idle, called, checked, cloned, waiting, answered
  cmd,        \* per caller: its command, <<>> when idle, else <<command>>
  answer,     \* per caller: <<>>, or <<answer>> once answered
  closing     \* per closer: idle, taking, sending, waiting, ending,
              \* joining, done

handleVars == <<held, closed, sender, join>>
callerVars == <<pc, cmd, answer>>
workerVars == <<handleVars, queue, thread, callerVars, closing>>

-----------------------------------------------------------------------------
(* Refusals a caller may get instead of the worker's answer.               *)
Closed      == [tag |-> "closed"]        \* the closed flag was set
Unavailable == [tag |-> "unavailable"]   \* no sender, or no receiver
Full        == [tag |-> "full"]          \* try_send found no room
Lost        == [tag |-> "lost"]          \* the command was dropped unanswered

Refusals == {Closed, Unavailable, Full, Lost}

CallOf(c, command) == [kind |-> "call", from |-> c, command |-> command]
ShutdownOf(k) == [kind |-> "shutdown", from |-> k]

Messages ==
  [kind: {"call"}, from: Callers \cup {NoCaller}, command: Commands]
    \cup [kind: {"shutdown"}, from: Closers]

WorkerInit ==
  /\ held = TRUE /\ closed = FALSE /\ sender = TRUE /\ join = TRUE
  /\ queue = <<>>
  /\ thread = "running"
  /\ pc = [c \in Callers |-> "idle"]
  /\ cmd = [c \in Callers |-> <<>>]
  /\ answer = [c \in Callers |-> <<>>]
  /\ closing = [k \in Closers |-> "idle"]

-----------------------------------------------------------------------------
(* The calling side: dispatch().                                           *)

Call(c, command) ==
  /\ held /\ pc[c] = "idle"
  /\ pc' = [pc EXCEPT ![c] = "called"]
  /\ cmd' = [cmd EXCEPT ![c] = <<command>>]
  /\ UNCHANGED <<handleVars, queue, thread, answer, closing>>

\* c's call ends with the refusal r, before its command was queued.
Refuse(c, r) ==
  /\ pc' = [pc EXCEPT ![c] = "answered"]
  /\ answer' = [answer EXCEPT ![c] = <<r>>]
  /\ UNCHANGED <<handleVars, queue, thread, cmd, closing>>

Proceed(c, step) ==
  /\ pc' = [pc EXCEPT ![c] = step]
  /\ UNCHANGED <<handleVars, queue, thread, cmd, answer, closing>>

CheckClosed(c) ==
  /\ pc[c] = "called"
  /\ \/ closed /\ Refuse(c, Closed)
     \/ ~closed /\ Proceed(c, "checked")

CloneSender(c) ==
  /\ pc[c] = "checked"
  /\ \/ ~sender /\ Refuse(c, Unavailable)
     \/ sender /\ Proceed(c, "cloned")

Receiving == thread \in {"running", "leaving"}

TrySend(c) ==
  /\ pc[c] = "cloned"
  /\ \/ ~Receiving /\ Refuse(c, Unavailable)
     \/ Receiving /\ Len(queue) >= QueueCapacity /\ Refuse(c, Full)
     \/ /\ Receiving /\ Len(queue) < QueueCapacity
        /\ queue' = Append(queue, CallOf(c, cmd[c][1]))
        /\ pc' = [pc EXCEPT ![c] = "waiting"]
        /\ UNCHANGED <<handleVars, thread, cmd, answer, closing>>

Return(c) ==
  /\ pc[c] = "answered"
  /\ pc' = [pc EXCEPT ![c] = "idle"]
  /\ cmd' = [cmd EXCEPT ![c] = <<>>]
  /\ answer' = [answer EXCEPT ![c] = <<>>]
  /\ UNCHANGED <<handleVars, queue, thread, closing>>

\* The caller's future is dropped at its only await: the command stays queued
\* and is executed, and its answer goes nowhere.
Orphan(c, m) == IF m.kind = "call" /\ m.from = c
                THEN [m EXCEPT !.from = NoCaller] ELSE m

\* Mutant: the queued command keeps its reply channel to the caller.
CancelKeepsReply(c) ==
  /\ pc[c] = "waiting"
  /\ pc' = [pc EXCEPT ![c] = "idle"]
  /\ cmd' = [cmd EXCEPT ![c] = <<>>]
  /\ UNCHANGED <<handleVars, queue, thread, answer, closing>>

Cancel(c) ==
  /\ pc[c] = "waiting"
  /\ pc' = [pc EXCEPT ![c] = "idle"]
  /\ cmd' = [cmd EXCEPT ![c] = <<>>]
  /\ queue' = [i \in DOMAIN queue |-> Orphan(c, queue[i])]
  /\ UNCHANGED <<handleVars, thread, answer, closing>>

-----------------------------------------------------------------------------
(* The worker thread: run_worker() and the end of its receiver.            *)

\* The message's caller, if it still waits, gets a.
Deliver(m, a) ==
  IF m.from = NoCaller
  THEN UNCHANGED <<pc, answer>>
  ELSE /\ pc' = [pc EXCEPT ![m.from] = "answered"]
       /\ answer' = [answer EXCEPT ![m.from] = <<a>>]

\* Take the command at the head and answer it with a.
Take(a) ==
  /\ thread = "running"
  /\ queue # <<>> /\ Head(queue).kind = "call"
  /\ queue' = Tail(queue)
  /\ Deliver(Head(queue), a)
  /\ UNCHANGED <<handleVars, thread, cmd, closing>>

TakeShutdown ==
  /\ thread = "running"
  /\ queue # <<>> /\ Head(queue).kind = "shutdown"
  /\ queue' = Tail(queue)
  /\ thread' = "leaving"
  /\ closing' = [closing EXCEPT ![Head(queue).from] = "ending"]
  /\ UNCHANGED <<handleVars, callerVars>>

\* A sender lives in the handle, in every call that cloned it (until the call
\* returns) and in the closer that took it (until it is answered).
SenderAlive ==
  \/ sender
  \/ \E c \in Callers : pc[c] \in {"cloned", "waiting"}
  \/ \E k \in Closers : closing[k] \in {"sending", "waiting"}

\* blocking_recv() returns None: the queue is empty and no sender is left.
RecvNone ==
  /\ thread = "running"
  /\ queue = <<>> /\ ~SenderAlive
  /\ thread' = "leaving"
  /\ UNCHANGED <<handleVars, queue, callerVars, closing>>

DropReceiver ==
  /\ thread = "leaving"
  /\ thread' = "dropping"
  /\ UNCHANGED <<handleVars, queue, callerVars, closing>>

\* The receiver's destructor drops what is still queued, one by one.
Discard ==
  /\ thread = "dropping"
  /\ queue # <<>>
  /\ queue' = Tail(queue)
  /\ Deliver(Head(queue), Lost)
  /\ UNCHANGED <<handleVars, thread, cmd, closing>>

ThreadEnds ==
  /\ thread = "dropping"
  /\ queue = <<>>
  /\ thread' = "stopped"
  /\ UNCHANGED <<handleVars, queue, callerVars, closing>>

-----------------------------------------------------------------------------
(* close(), and the destructor of the handle.                              *)

\* A close() that finds the store closed goes on to join the thread in the
\* catalog and the asset store (joins), and returns at once in the event store.
CloseSwap(k, joins) ==
  /\ held /\ closing[k] = "idle"
  /\ closed' = TRUE
  /\ closing' = [closing EXCEPT ![k] =
       IF ~closed THEN "taking" ELSE IF joins THEN "ending" ELSE "done"]
  /\ UNCHANGED <<held, sender, join, queue, thread, callerVars>>

\* Mutant: close() joins the thread without telling it to stop.
CloseTakeNothing(k) ==
  /\ closing[k] = "taking"
  /\ closing' = [closing EXCEPT ![k] = "ending"]
  /\ UNCHANGED <<handleVars, queue, thread, callerVars>>

CloseTake(k) ==
  /\ closing[k] = "taking"
  /\ sender' = FALSE
  /\ closing' = [closing EXCEPT ![k] = "sending"]
  /\ UNCHANGED <<held, closed, join, queue, thread, callerVars>>

\* Mutant: close() uses try_send, and returns the error of a full queue.
CloseTrySend(k) ==
  /\ closing[k] = "sending"
  /\ \/ /\ Len(queue) >= QueueCapacity
        /\ closing' = [closing EXCEPT ![k] = "done"]
        /\ queue' = queue
     \/ /\ Len(queue) < QueueCapacity
        /\ closing' = [closing EXCEPT ![k] = "waiting"]
        /\ queue' = Append(queue, ShutdownOf(k))
  /\ UNCHANGED <<handleVars, thread, callerVars>>

\* send().await: waits for room, unlike the callers' try_send.
CloseSend(k) ==
  /\ closing[k] = "sending"
  /\ Len(queue) < QueueCapacity
  /\ queue' = Append(queue, ShutdownOf(k))
  /\ closing' = [closing EXCEPT ![k] = "waiting"]
  /\ UNCHANGED <<handleVars, thread, callerVars>>

CloseTakeJoin(k) ==
  /\ closing[k] = "ending"
  /\ join' = FALSE
  /\ closing' = [closing EXCEPT ![k] = IF join THEN "joining" ELSE "done"]
  /\ UNCHANGED <<held, closed, sender, queue, thread, callerVars>>

CloseJoined(k) ==
  /\ closing[k] = "joining"
  /\ thread = "stopped"
  /\ closing' = [closing EXCEPT ![k] = "done"]
  /\ UNCHANGED <<handleVars, queue, thread, callerVars>>

\* Every clone of the store is dropped: no call and no close() is under way.
DropHandle ==
  /\ held
  /\ \A c \in Callers : pc[c] = "idle"
  /\ \A k \in Closers : closing[k] \in {"idle", "done"}
  /\ held' = FALSE /\ closed' = TRUE /\ sender' = FALSE /\ join' = FALSE
  /\ UNCHANGED <<queue, thread, callerVars, closing>>

-----------------------------------------------------------------------------
(* The process dies, and a store is opened where none is in use.           *)

ProcessDies ==
  /\ held' = FALSE /\ closed' = TRUE /\ sender' = FALSE /\ join' = FALSE
  /\ queue' = <<>> /\ thread' = "stopped"
  /\ pc' = [c \in Callers |-> "idle"]
  /\ cmd' = [c \in Callers |-> <<>>]
  /\ answer' = [c \in Callers |-> <<>>]
  /\ closing' = [k \in Closers |-> "idle"]

WorkerStarts ==
  /\ thread = "stopped" /\ \A c \in Callers : pc[c] = "idle"
  /\ \A k \in Closers : closing[k] \in {"idle", "done"}
  /\ held' = TRUE /\ closed' = FALSE /\ sender' = TRUE /\ join' = TRUE
  /\ thread' = "running"
  /\ closing' = [k \in Closers |-> "idle"]
  /\ UNCHANGED <<queue, callerVars>>

-----------------------------------------------------------------------------
CallerStep(c) == CheckClosed(c) \/ CloneSender(c) \/ TrySend(c) \/ Return(c)

CloserStep(k) ==
  CloseTake(k) \/ CloseSend(k) \/ CloseTakeJoin(k) \/ CloseJoined(k)

\* What the thread does apart from executing commands.
ThreadEnding ==
  TakeShutdown \/ RecvNone \/ DropReceiver \/ Discard \/ ThreadEnds

\* What values the variables take.
TypeOK ==
  /\ {held, closed, sender, join} \subseteq BOOLEAN
  /\ queue \in Seq(Messages) /\ Len(queue) <= QueueCapacity
  /\ thread \in {"running", "leaving", "dropping", "stopped"}
  /\ pc \in [Callers ->
       {"idle", "called", "checked", "cloned", "waiting", "answered"}]
  /\ \A c \in Callers :
       /\ cmd[c] \in Seq(Commands) /\ Len(cmd[c]) <= 1
       /\ answer[c] \in Seq(Answers \cup Refusals) /\ Len(answer[c]) <= 1
       /\ pc[c] = "idle" <=> cmd[c] = <<>>
       /\ pc[c] = "answered" <=> answer[c] # <<>>
  /\ closing \in [Closers ->
       {"idle", "taking", "sending", "waiting", "ending", "joining", "done"}]

\* When a close() has returned, the thread has left its loop and executes no
\* accepted command any more, with one exception for each kind of store.  Where
\* every close() joins, another one has taken the join handle and waits for the
\* thread; where a second close() returns at once, the first is on its way to
\* the thread's acknowledgement.
ClosedIsQuiet(joins) ==
  \A k \in Closers : closing[k] = "done" =>
    \/ thread # "running"
    \/ joins /\ \E j \in Closers : closing[j] = "joining"
    \/ ~joins /\ \E j \in Closers : closing[j] \in {"taking", "sending", "waiting"}
=============================================================================
