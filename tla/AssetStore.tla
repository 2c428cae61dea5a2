------------------------------ MODULE AssetStore ------------------------------
(***************************************************************************)
(* LocalAssetStore: immutable assets, their metadata in SQLite behind the  *)
(* command worker of StoreWorker and their bytes in files.  An ingest      *)
(* writes and verifies a staging file, stages a row, renames the file to   *)
(* its blob and publishes the row, under a lock of the adapter; a read     *)
(* looks the row up and opens the blob later.  Recovery of an opening      *)
(* repairs what a crash left between the two.                              *)
(*                                                                         *)
(* The database commits to a write-ahead log with synchronous = NORMAL and *)
(* a rename is not followed by a sync of its directory, so a loss of power *)
(* may undo the last commits and the last renames.  Which of them it would *)
(* undo is chosen when they are made: disk is what it would leave.         *)
(*                                                                         *)
(* A descriptor is its AssetId and a content, which stands for hash and    *)
(* length; the bytes a source delivers may be those of another content.    *)
(* A blob is named after its AssetId.  Staging files have names of their   *)
(* own and matter to nobody else, so only their verified bytes are kept.   *)
(***************************************************************************)
EXTENDS Naturals, Sequences, FiniteSets, Functions

CONSTANTS
  Ingesters, Readers, Closers, NoCaller, NoTask,
  Assets, Contents,
  QueueCapacity,
  MaxCrashes          \* bound: how often the process dies or power is lost

ASSUME RolesAssumption ==
  /\ Ingesters \cap Readers = {} /\ NoTask \notin Ingesters
  /\ NoCaller \notin Ingesters \cup Readers
  /\ (Ingesters \cup Readers) \cap Closers = {}

VARIABLES
  rows,               \* table assets: AssetId -> content and publication state
  blobs,              \* directory blobs: AssetId -> content
  disk,               \* rows and blobs as a loss of power would leave them
  late,               \* file operations whose futures were dropped
  lock,               \* ingest_lock
  at,                 \* per task: where its ingest or read is
  want,               \* per task: <<[asset, content, bytes]>>, or <<>>
  phase,              \* down, sweeping (recovery), open
  crashes,
  doubtful,           \* power was lost, and nothing has been verified since
  acked,              \* history: descriptors whose ingest returned Ok
  aborted,            \* history: assets whose ingest was cut off in this
                      \* process before its row was published or removed
  held, closed, sender, join, queue, thread, pc, cmd, answer, closing

Tasks == Ingesters \cup Readers
fileVars == <<blobs, disk, late>>
history == <<doubtful, acked, aborted>>
callVars == <<held, closed, sender, join, queue, thread, pc, cmd, answer, closing>>

Rows == [content: Contents, state: {"staged", "published"}]

AssetCommands ==
  [kind: {"lookup", "remove"}, asset: Assets]
    \cup [kind: {"stage", "publish"}, asset: Assets, content: Contents]

Found(row) == [tag |-> "found", row |-> row]
Answer(tag) == [tag |-> tag]
AssetAnswers ==
  {Found(row) : row \in Rows}
    \cup {Answer(tag) : tag \in {"none", "inserted", "existing", "conflict",
                                 "in_progress", "done", "corruption", "failure"}}

INSTANCE StoreWorker WITH
  Callers <- Tasks, Commands <- AssetCommands, Answers <- AssetAnswers

vars == <<rows, fileVars, lock, at, want, phase, crashes, history, callVars>>

Init ==
  /\ rows = <<>> /\ blobs = <<>> /\ late = {}
  /\ disk = [rows |-> <<>>, blobs |-> <<>>]
  /\ lock = NoTask
  /\ at = [t \in Tasks |-> "idle"]
  /\ want = [t \in Tasks |-> <<>>]
  /\ phase = "open" /\ crashes = 0
  /\ doubtful = FALSE /\ acked = {} /\ aborted = {}
  /\ WorkerInit

\* A transaction commits, and is checkpointed before the next one or not.
Commit(new) ==
  /\ rows' = new
  /\ disk' \in {disk, [disk EXCEPT !.rows = new]}

\* Directory entries change, and reach the disk or not.
Move(new) ==
  /\ blobs' = new
  /\ disk' \in {disk, [disk EXCEPT !.blobs = new]}

-----------------------------------------------------------------------------
(* What the worker does with one command, on the rows rs.                  *)

Set(f, a, x) == [b \in DOMAIN f \cup {a} |-> IF b = a THEN x ELSE f[b]]
Without(f, S) == Restrict(f, DOMAIN f \ S)

Published(rs, a) == a \in DOMAIN rs /\ rs[a].state = "published"
IsStaged(rs, a) == a \in DOMAIN rs /\ rs[a].state = "staged"

LookupAsset(rs, a) == IF a \in DOMAIN rs THEN Found(rs[a]) ELSE Answer("none")

StageAsset(rs, a, x) ==
  IF IsStaged(rs, a) THEN Answer("in_progress")
  ELSE IF ~Published(rs, a) THEN Answer("inserted")
  ELSE IF rs[a].content = x THEN Answer("existing") ELSE Answer("conflict")

PublishAsset(rs, a, x) ==
  IF IsStaged(rs, a) /\ rs[a].content = x
  THEN Answer("done") ELSE Answer("corruption")

AnswerTo(rs, c) ==
  CASE c.kind = "lookup"  -> LookupAsset(rs, c.asset)
    [] c.kind = "stage"   -> StageAsset(rs, c.asset, c.content)
    [] c.kind = "publish" -> PublishAsset(rs, c.asset, c.content)
    [] c.kind = "remove"  -> Answer("done")

EffectOf(rs, c) ==
  CASE c.kind = "stage" /\ AnswerTo(rs, c).tag = "inserted" ->
         Set(rs, c.asset, [content |-> c.content, state |-> "staged"])
    [] c.kind = "publish" /\ AnswerTo(rs, c).tag = "done" ->
         [rs EXCEPT ![c.asset].state = "published"]
    [] c.kind = "remove" /\ IsStaged(rs, c.asset) -> Without(rs, {c.asset})
    [] OTHER -> rs

Execute ==
  /\ Take(AnswerTo(rows, Head(queue).command))
  /\ Commit(EffectOf(rows, Head(queue).command))
  /\ UNCHANGED <<blobs, late, lock, at, want, phase, crashes, history>>

\* The database fails the command, and its transaction is rolled back.
ExecuteFails ==
  /\ Take(Answer("failure"))
  /\ UNCHANGED <<rows, fileVars, lock, at, want, phase, crashes, history>>

-----------------------------------------------------------------------------
(* ingest()                                                                *)

Asset(t) == want[t][1].asset
Content(t) == want[t][1].content

Begin(t, a, x, bytes) ==
  /\ held /\ at[t] = "idle"
  /\ at' = [at EXCEPT ![t] = "locking"]
  /\ want' = [want EXCEPT ![t] =
       <<[asset |-> a, content |-> x, bytes |-> bytes]>>]
  /\ UNCHANGED <<rows, fileVars, lock, phase, crashes, history, callVars>>

\* t goes on to step, with a call of the worker.
GoCall(t, step, command) ==
  /\ at' = [at EXCEPT ![t] = step]
  /\ Call(t, command)

Lock(t) ==
  /\ at[t] = "locking" /\ lock = NoTask
  /\ lock' = t
  /\ GoCall(t, "looking", [kind |-> "lookup", asset |-> Asset(t)])
  /\ UNCHANGED <<rows, fileVars, want, phase, crashes, history>>

\* t's call of the worker in this step has returned.
Returned(t, step) == at[t] = step /\ Return(t)
Tag(t) == answer[t][1].tag

\* The ingest or read is over; an ingest drops its guard.
Finish(t) ==
  /\ at' = [at EXCEPT ![t] = "idle"]
  /\ want' = [want EXCEPT ![t] = <<>>]
  /\ lock' = IF lock = t THEN NoTask ELSE lock

Acked(t) == acked \cup {[asset |-> Asset(t), content |-> Content(t)]}

Looked(t) ==
  /\ Returned(t, "looking")
  /\ \/ /\ Tag(t) = "none"
        /\ at' = [at EXCEPT ![t] = "writing"]
        /\ UNCHANGED <<lock, want, acked>>
     \/ /\ Tag(t) # "none"
        /\ Finish(t)
        /\ acked' = IF Tag(t) = "found"
                       /\ answer[t][1].row = [content |-> Content(t),
                                              state |-> "published"]
                    THEN Acked(t) ELSE acked
  /\ UNCHANGED <<rows, fileVars, phase, crashes, doubtful, aborted>>

\* The source has been copied to the staging file and has the descriptor's
\* length and hash ...
WriteStaging(t) ==
  /\ at[t] = "writing"
  /\ want[t][1].bytes = Content(t)
  /\ GoCall(t, "staging",
       [kind |-> "stage", asset |-> Asset(t), content |-> Content(t)])
  /\ UNCHANGED <<rows, fileVars, lock, want, phase, crashes, history>>

\* ... or not, or it could not be read or written.
WriteFails(t) ==
  /\ at[t] = "writing"
  /\ Finish(t)
  /\ UNCHANGED <<rows, fileVars, phase, crashes, history, callVars>>

Staged(t) ==
  /\ Returned(t, "staging")
  /\ \/ /\ Tag(t) = "inserted"
        /\ at' = [at EXCEPT ![t] = "renaming"]
        /\ UNCHANGED <<lock, want, acked>>
     \/ /\ Tag(t) # "inserted"
        /\ Finish(t)
        /\ acked' = IF Tag(t) = "existing" THEN Acked(t) ELSE acked
  /\ UNCHANGED <<rows, fileVars, phase, crashes, doubtful, aborted>>

Rename(t) ==
  /\ at[t] = "renaming"
  /\ Move(Set(blobs, Asset(t), want[t][1].bytes))
  /\ GoCall(t, "publishing",
       [kind |-> "publish", asset |-> Asset(t), content |-> Content(t)])
  /\ UNCHANGED <<rows, late, lock, want, phase, crashes, history>>

\* Mutant: a failing rename leaves the staged row.
RenameFailsOnly(t) ==
  /\ at[t] = "renaming"
  /\ Finish(t)
  /\ UNCHANGED <<rows, fileVars, phase, crashes, history, callVars>>

RenameFails(t) ==
  /\ at[t] = "renaming"
  /\ GoCall(t, "removing", [kind |-> "remove", asset |-> Asset(t)])
  /\ UNCHANGED <<rows, fileVars, lock, want, phase, crashes, history>>

\* Mutant: a lost reply is taken for success.
PublishAssumed(t) ==
  /\ Returned(t, "publishing")
  /\ \/ /\ Tag(t) \in {"done", "lost"}
        /\ acked' = Acked(t)
        /\ Finish(t)
     \/ /\ Tag(t) \notin {"done", "lost"}
        /\ at' = [at EXCEPT ![t] = "quarantining"]
        /\ UNCHANGED <<lock, want, acked>>
  /\ UNCHANGED <<rows, fileVars, phase, crashes, doubtful, aborted>>

PublishReturned(t) ==
  /\ Returned(t, "publishing")
  /\ \/ /\ Tag(t) = "done"
        /\ acked' = Acked(t)
        /\ Finish(t)
     \/ /\ Tag(t) # "done"
        /\ at' = [at EXCEPT ![t] = "quarantining"]
        /\ UNCHANGED <<lock, want, acked>>
  /\ UNCHANGED <<rows, fileVars, phase, crashes, doubtful, aborted>>

\* The rename into quarantine may fail: its result is ignored.
Quarantine(t) ==
  /\ at[t] = "quarantining"
  /\ Move(Without(blobs, {Asset(t)})) \/ UNCHANGED <<blobs, disk>>
  /\ GoCall(t, "removing", [kind |-> "remove", asset |-> Asset(t)])
  /\ UNCHANGED <<rows, late, lock, want, phase, crashes, history>>

Removed(t) ==
  /\ Returned(t, "removing")
  /\ Finish(t)
  /\ aborted' = IF Tag(t) = "done" THEN aborted ELSE aborted \cup {Asset(t)}
  /\ UNCHANGED <<rows, fileVars, phase, crashes, doubtful, acked>>

-----------------------------------------------------------------------------
(* read_range(); get_asset() is its lookup.                                *)

ReadBegin(t, a) ==
  /\ at[t] = "idle"
  /\ GoCall(t, "finding", [kind |-> "lookup", asset |-> a])
  /\ UNCHANGED <<rows, fileVars, lock, want, phase, crashes, history>>

\* Mutant: a staged row is readable.
ReadFoundAny(t) ==
  /\ Returned(t, "finding") /\ Tag(t) = "found"
  /\ at' = [at EXCEPT ![t] = "opening"]
  /\ want' = [want EXCEPT ![t] =
       <<[asset |-> cmd[t][1].asset, content |-> answer[t][1].row.content,
          bytes |-> answer[t][1].row.content]>>]
  /\ UNCHANGED <<rows, fileVars, lock, phase, crashes, history>>

ReadFound(t) ==
  /\ Returned(t, "finding")
  /\ LET a == cmd[t][1].asset
     IN \/ /\ Tag(t) = "found" /\ answer[t][1].row.state = "published"
           /\ at' = [at EXCEPT ![t] = "opening"]
           /\ want' = [want EXCEPT ![t] =
                <<[asset |-> a, content |-> answer[t][1].row.content,
                   bytes |-> answer[t][1].row.content]>>]
        \/ /\ ~(Tag(t) = "found" /\ answer[t][1].row.state = "published")
           /\ at' = [at EXCEPT ![t] = "idle"]
           /\ UNCHANGED want
  /\ UNCHANGED <<rows, fileVars, lock, phase, crashes, history>>

\* The blob is opened and read, or the file system fails.
ReadBlob(t) ==
  /\ at[t] = "opening"
  /\ Finish(t)
  /\ UNCHANGED <<rows, fileVars, phase, crashes, history, callVars>>

-----------------------------------------------------------------------------
(* Futures dropped at an await.                                            *)

\* The ingest or read is dropped while it waits for the worker: its command
\* stays queued.
CancelCall(t) ==
  /\ Cancel(t)
  /\ Finish(t)
  /\ aborted' = IF at[t] \in {"staging", "publishing", "removing"}
                THEN aborted \cup {Asset(t)} ELSE aborted
  /\ UNCHANGED <<rows, fileVars, phase, crashes, doubtful, acked>>

\* ... or elsewhere: a rename handed to the blocking pool goes on.
CancelFile(t) ==
  /\ at[t] \in {"locking", "writing", "renaming", "quarantining", "opening"}
  /\ Finish(t)
  /\ late' = IF at[t] \in {"renaming", "quarantining"}
             THEN late \cup {[op |-> at[t], asset |-> Asset(t),
                              bytes |-> want[t][1].bytes]}
             ELSE late
  /\ aborted' = IF at[t] \in {"renaming", "quarantining"}
                THEN aborted \cup {Asset(t)} ELSE aborted
  /\ UNCHANGED <<rows, blobs, disk, phase, crashes, doubtful, acked, callVars>>

LateFile(o) ==
  /\ late' = late \ {o}
  /\ \/ Move(IF o.op = "renaming" THEN Set(blobs, o.asset, o.bytes)
                                   ELSE Without(blobs, {o.asset}))
     \/ UNCHANGED <<blobs, disk>>
  /\ UNCHANGED <<rows, lock, at, want, phase, crashes, history, callVars>>

-----------------------------------------------------------------------------
(* Shutdown, crash, recovery.                                              *)

Dispatch(t) ==
  /\ CheckClosed(t) \/ CloneSender(t) \/ TrySend(t)
  /\ UNCHANGED <<rows, fileVars, lock, at, want, phase, crashes, history>>

Shutdown ==
  /\ \/ ThreadEnding
     \/ \E k \in Closers : CloseSwap(k, TRUE) \/ CloserStep(k)
     \/ DropHandle /\ \A t \in Tasks : at[t] = "idle"
  /\ UNCHANGED <<rows, fileVars, lock, at, want, phase, crashes, history>>

\* What ends the process ends its tasks.
Down ==
  /\ crashes < MaxCrashes
  /\ crashes' = crashes + 1
  /\ ProcessDies
  /\ phase' = "down"
  /\ late' = {} /\ lock' = NoTask
  /\ at' = [t \in Tasks |-> "idle"]
  /\ want' = [t \in Tasks |-> <<>>]

\* The process dies, also in the middle of recovery.
Crash ==
  /\ Down
  /\ UNCHANGED <<rows, blobs, disk, history>>

\* The machine loses power; an acknowledgement holds if its row was on disk.
PowerLoss ==
  /\ Down
  /\ rows' = disk.rows /\ blobs' = disk.blobs
  /\ doubtful' = TRUE
  /\ acked' = {d \in acked : Published(disk.rows, d.asset)
                             /\ disk.rows[d.asset].content = d.content}
  /\ UNCHANGED <<disk, aborted>>

\* verify_blob
Verified(a) == a \in DOMAIN blobs /\ blobs[a] = rows[a].content

\* Mutant: the published rows are not verified.
RecoverUnverified ==
  /\ phase = "down"
  /\ Commit(Restrict(rows, {a \in DOMAIN rows : Published(rows, a)}))
  /\ phase' = "sweeping" /\ doubtful' = FALSE
  /\ UNCHANGED <<blobs, late, lock, at, want, crashes, acked, aborted, callVars>>

\* recover_storage(): published rows are verified, staged rows deleted in one
\* transaction; a row without its blob fails the opening, and every later one
\* ...
RecoverRows ==
  /\ phase = "down"
  /\ \A a \in DOMAIN rows : Published(rows, a) => Verified(a)
  /\ Commit(Restrict(rows, {a \in DOMAIN rows : Published(rows, a)}))
  /\ phase' = "sweeping" /\ doubtful' = FALSE
  /\ UNCHANGED <<blobs, late, lock, at, want, crashes, acked, aborted, callVars>>

\* ... and blobs without a published row moved to quarantine, one by one.
SweepBlob(a) ==
  /\ phase = "sweeping"
  /\ a \in DOMAIN blobs /\ ~Published(rows, a)
  /\ Move(Without(blobs, {a}))
  /\ UNCHANGED <<rows, late, lock, at, want, phase, crashes, history, callVars>>

Open ==
  /\ phase = "sweeping"
  /\ \A a \in DOMAIN blobs : Published(rows, a)
  /\ phase' = "open"
  /\ aborted' = {}
  /\ WorkerStarts
  /\ UNCHANGED <<rows, fileVars, lock, at, want, crashes, doubtful, acked>>

Recovery == RecoverRows \/ (\E a \in Assets : SweepBlob(a)) \/ Open

-----------------------------------------------------------------------------
IngestStep(t) ==
  \/ Lock(t) \/ Looked(t) \/ WriteStaging(t) \/ WriteFails(t) \/ Staged(t)
  \/ Rename(t) \/ RenameFails(t) \/ PublishReturned(t) \/ Quarantine(t)
  \/ Removed(t)

ReadStep(t) == ReadFound(t) \/ ReadBlob(t)

Next ==
  \/ \E t \in Ingesters :
       \/ \E a \in Assets, x, bytes \in Contents : Begin(t, a, x, bytes)
       \/ IngestStep(t)
  \/ \E t \in Readers : (\E a \in Assets : ReadBegin(t, a)) \/ ReadStep(t)
  \/ \E t \in Tasks : Dispatch(t) \/ CancelCall(t) \/ CancelFile(t)
  \/ \E o \in late : LateFile(o)
  \/ Execute \/ ExecuteFails
  \/ Shutdown \/ Crash \/ PowerLoss \/ Recovery

Spec == Init /\ [][Next]_vars

-----------------------------------------------------------------------------
\* What values the variables take.
AssetTypeOK ==
  /\ DOMAIN rows \subseteq Assets /\ Range(rows) \subseteq Rows
  /\ DOMAIN blobs \subseteq Assets /\ Range(blobs) \subseteq Contents
  /\ late \subseteq [op: {"renaming", "quarantining"}, asset: Assets,
                     bytes: Contents]
  /\ lock \in Ingesters \cup {NoTask}
  /\ at \in [Tasks -> {"idle", "locking", "looking", "writing", "staging",
                       "renaming", "publishing", "quarantining", "removing",
                       "finding", "opening"}]
  /\ \A t \in Tasks : Len(want[t]) <= 1
  /\ phase \in {"down", "sweeping", "open"}
  /\ TypeOK

\* A published asset always has its blob, whole and with the descriptor's
\* content, whatever was cancelled, refused or cut off by a crash, so that
\* recovery, which fails on a published row without its blob, never fails
\* after one.  Loss of power may leave such a row: then the store does not open.
PublishedHasBlob ==
  \A a \in DOMAIN rows : Published(rows, a) => Verified(a) \/ doubtful

\* read_range() opens the blob after its lookup: the blob of the row that it
\* found is still there, and still has that content.
FoundIsReadable ==
  \A t \in Readers :
    at[t] = "opening"
      => Asset(t) \in DOMAIN blobs /\ blobs[Asset(t)] = Content(t)

\* An ingest that returned Inserted or Existing is never undone, not by
\* another ingest's clean-up, not by a late file operation of a cancelled
\* one, not by recovery; loss of power undoes only what was not on disk yet.
AckedStaysPublished ==
  \A d \in acked :
    Published(rows, d.asset) /\ rows[d.asset].content = d.content

\* An AssetId answers AssetInProgress only while an ingest of it is under
\* way, or after one was cancelled or could not remove its row: every other
\* failure path takes the staged row away again.
StagedHasIngest ==
  \A a \in DOMAIN rows :
    phase = "open" /\ IsStaged(rows, a) /\ a \notin aborted
      => \E t \in Ingesters : lock = t /\ Asset(t) = a
=============================================================================
