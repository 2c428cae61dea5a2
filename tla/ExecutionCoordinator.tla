------------------------- MODULE ExecutionCoordinator -------------------------
(***************************************************************************)
(* TokioExecutionCoordinator: one asynchronous mutex per ExecutionScope,   *)
(* kept alive only by the tasks that hold or wait for it.  The map entries *)
(* holds weak references, a KeyedMutex removes its own key when its last   *)
(* strong reference goes, and every acquire first prunes dead keys.  The   *)
(* map has a blocking lock of its own.                                     *)
(*                                                                         *)
(* A task is a client of the coordinator on a thread of its own.  Strong   *)
(* references are counted by who holds them: Strong(e).  An entry is a     *)
(* KeyedMutex allocation; its address is free again once nothing refers to *)
(* it, not even weakly.                                                    *)
(***************************************************************************)
EXTENDS Naturals, Sequences

CONSTANTS Tasks, Scopes, Entries, NoTask, NoScope, NoEntry

ASSUME SentinelAssumption ==
  NoTask \notin Tasks /\ NoScope \notin Scopes /\ NoEntry \notin Entries

VARIABLES
  entries,    \* CoordinatorState.entries: scope -> weak entry or NoEntry
  lock,       \* the thread that holds the map's lock
  mutex,      \* KeyedMutex.mutex: entry -> task that owns it
  line,       \* the tasks queued on that mutex, in order
  pc,         \* where each task is
  scope,      \* the scope a task asked for (NoScope in key_count)
  ent,        \* the strong reference a task holds, until its destructor is over
  temp,       \* the reference prune_stale upgrades for one key
  todo        \* the keys prune_stale has still to visit

vars == <<entries, lock, mutex, line, pc, scope, ent, temp, todo>>

\* Tasks whose reference ent is still strong.
Owning == {"polling", "waiting", "held", "released"}

Owns(t, e) == pc[t] \in Owning /\ ent[t] = e

Strong(e) == \E t \in Tasks : Owns(t, e) \/ temp[t] = e

\* No reference to e is left: its memory may be allocated anew.
Free(e) == (\A t \in Tasks : ent[t] # e /\ temp[t] # e)
           /\ (\A s \in Scopes : entries[s] # e)

Init ==
  /\ entries = [s \in Scopes |-> NoEntry]
  /\ lock = NoTask
  /\ mutex = [e \in Entries |-> NoTask]
  /\ line = [e \in Entries |-> <<>>]
  /\ pc = [t \in Tasks |-> "idle"]
  /\ scope = [t \in Tasks |-> NoScope]
  /\ ent = [t \in Tasks |-> NoEntry]
  /\ temp = [t \in Tasks |-> NoEntry]
  /\ todo = [t \in Tasks |-> {}]

-----------------------------------------------------------------------------
\* acquire(s), or key_count() when s is NoScope.
Acquire(t, s) ==
  /\ pc[t] = "idle"
  /\ pc' = [pc EXCEPT ![t] = "locking"]
  /\ scope' = [scope EXCEPT ![t] = s]
  /\ UNCHANGED <<entries, lock, mutex, line, ent, temp, todo>>

\* prune_stale() takes the lock and visits the keys one by one ...
PruneLock(t) ==
  /\ pc[t] = "locking"
  /\ lock = NoTask
  /\ lock' = t
  /\ todo' = [todo EXCEPT ![t] = {s \in Scopes : entries[s] # NoEntry}]
  /\ pc' = [pc EXCEPT ![t] = "pruning"]
  /\ UNCHANGED <<entries, mutex, line, scope, ent, temp>>

\* ... upgrading each weak reference: a dead key goes, a live one leaves
\* prune_stale with a strong reference of its own ...
PruneUpgrade(t, s) ==
  /\ pc[t] = "pruning" /\ temp[t] = NoEntry
  /\ s \in todo[t]
  /\ todo' = [todo EXCEPT ![t] = @ \ {s}]
  /\ \/ /\ Strong(entries[s])
        /\ temp' = [temp EXCEPT ![t] = entries[s]]
        /\ UNCHANGED entries
     \/ /\ ~Strong(entries[s])
        /\ entries' = [entries EXCEPT ![s] = NoEntry]
        /\ UNCHANGED temp
  /\ UNCHANGED <<lock, mutex, line, pc, scope, ent>>

\* ... which it drops before the next key, still under the lock.  If every
\* other reference went meanwhile, this runs KeyedMutex::drop.
PruneDrop(t) ==
  /\ pc[t] = "pruning" /\ temp[t] # NoEntry
  /\ temp' = [temp EXCEPT ![t] = NoEntry]
  /\ pc' = [pc EXCEPT ![t] =
       IF \E u \in Tasks : Owns(u, temp[t]) THEN "pruning" ELSE "selfdrop"]
  /\ ent' = [ent EXCEPT ![t] =
       IF \E u \in Tasks : Owns(u, temp[t]) THEN @ ELSE temp[t]]
  /\ UNCHANGED <<entries, lock, mutex, line, scope, todo>>

\* Mutant: the guard of prune_stale is still alive when acquire locks again.
PruneKeepsLock(t) ==
  /\ pc[t] = "pruning" /\ temp[t] = NoEntry /\ todo[t] = {}
  /\ pc' = [pc EXCEPT ![t] = IF scope[t] = NoScope THEN "idle" ELSE "lookup"]
  /\ UNCHANGED <<entries, lock, mutex, line, scope, ent, temp, todo>>

PruneUnlock(t) ==
  /\ pc[t] = "pruning" /\ temp[t] = NoEntry /\ todo[t] = {}
  /\ lock' = NoTask
  /\ pc' = [pc EXCEPT ![t] = IF scope[t] = NoScope THEN "idle" ELSE "lookup"]
  /\ UNCHANGED <<entries, mutex, line, scope, ent, temp, todo>>

\* Mutant: a new entry even if the scope has a live one.
LookupAnew(t) ==
  /\ pc[t] = "lookup"
  /\ lock = NoTask
  /\ \E e \in Entries :
       /\ Free(e)
       /\ ent' = [ent EXCEPT ![t] = e]
       /\ entries' = [entries EXCEPT ![scope[t]] = e]
       /\ mutex' = [mutex EXCEPT ![e] = NoTask]
       /\ line' = [line EXCEPT ![e] = <<>>]
  /\ pc' = [pc EXCEPT ![t] = "polling"]
  /\ UNCHANGED <<lock, scope, temp, todo>>

\* The live entry of the scope, or a new one, under the lock.
Lookup(t) ==
  /\ pc[t] = "lookup"
  /\ lock = NoTask
  /\ \/ /\ entries[scope[t]] # NoEntry /\ Strong(entries[scope[t]])
        /\ ent' = [ent EXCEPT ![t] = entries[scope[t]]]
        /\ UNCHANGED <<entries, mutex, line>>
     \/ /\ entries[scope[t]] = NoEntry \/ ~Strong(entries[scope[t]])
        /\ \E e \in Entries :
             /\ Free(e)
             /\ ent' = [ent EXCEPT ![t] = e]
             /\ entries' = [entries EXCEPT ![scope[t]] = e]
             /\ mutex' = [mutex EXCEPT ![e] = NoTask]
             /\ line' = [line EXCEPT ![e] = <<>>]
  /\ pc' = [pc EXCEPT ![t] = "polling"]
  /\ UNCHANGED <<lock, scope, temp, todo>>

-----------------------------------------------------------------------------
(* The fair asynchronous mutex of an entry, and the lease.                 *)

Poll(t) ==
  /\ pc[t] = "polling"
  /\ \/ /\ mutex[ent[t]] = NoTask
        /\ mutex' = [mutex EXCEPT ![ent[t]] = t]
        /\ pc' = [pc EXCEPT ![t] = "held"]
        /\ UNCHANGED line
     \/ /\ mutex[ent[t]] # NoTask
        /\ line' = [line EXCEPT ![ent[t]] = Append(@, t)]
        /\ pc' = [pc EXCEPT ![t] = "waiting"]
        /\ UNCHANGED mutex
  /\ UNCHANGED <<entries, lock, scope, ent, temp, todo>>

\* Mutant: any wake-up is taken for the mutex.
GrantedSpuriously(t) ==
  /\ pc[t] = "waiting"
  /\ pc' = [pc EXCEPT ![t] = "held"]
  /\ UNCHANGED <<entries, lock, mutex, line, scope, ent, temp, todo>>

\* The mutex was handed to t while it waited.
Granted(t) ==
  /\ pc[t] = "waiting" /\ mutex[ent[t]] = t
  /\ pc' = [pc EXCEPT ![t] = "held"]
  /\ UNCHANGED <<entries, lock, mutex, line, scope, ent, temp, todo>>

\* The owner lets go of the mutex of e: the first in line gets it.
HandOver(e) ==
  IF line[e] = <<>>
  THEN mutex' = [mutex EXCEPT ![e] = NoTask] /\ UNCHANGED line
  ELSE /\ mutex' = [mutex EXCEPT ![e] = Head(line[e])]
       /\ line' = [line EXCEPT ![e] = Tail(@)]

\* The lease's destructor drops the guard, then the entry.
DropGuard(t) ==
  /\ pc[t] = "held"
  /\ HandOver(ent[t])
  /\ pc' = [pc EXCEPT ![t] = "released"]
  /\ UNCHANGED <<entries, lock, scope, ent, temp, todo>>

\* The future of acquire is dropped while it waits: its place in the line
\* goes, or the mutex if it was already handed over.
Cancel(t) ==
  /\ pc[t] = "waiting"
  /\ \/ mutex[ent[t]] = t /\ HandOver(ent[t])
     \/ /\ mutex[ent[t]] # t
        /\ \E i \in DOMAIN line[ent[t]] :
             /\ line[ent[t]][i] = t
             /\ line' = [line EXCEPT ![ent[t]] =
                  SubSeq(@, 1, i - 1) \o SubSeq(@, i + 1, Len(@))]
        /\ UNCHANGED mutex
  /\ pc' = [pc EXCEPT ![t] = "released"]
  /\ UNCHANGED <<entries, lock, scope, ent, temp, todo>>

\* Dropping the entry: the last strong reference runs the destructor.
DropEntry(t) ==
  /\ pc[t] = "released"
  /\ IF \E u \in Tasks : (u # t /\ Owns(u, ent[t])) \/ temp[u] = ent[t]
     THEN /\ pc' = [pc EXCEPT ![t] = "idle"]
          /\ ent' = [ent EXCEPT ![t] = NoEntry]
          /\ scope' = [scope EXCEPT ![t] = NoScope]
     ELSE pc' = [pc EXCEPT ![t] = "destroy"] /\ UNCHANGED <<ent, scope>>
  /\ UNCHANGED <<entries, lock, mutex, line, temp, todo>>

\* Mutants: the key is removed whatever it names; the key is never removed.
DestroyAnyKey(t) ==
  /\ pc[t] = "destroy" /\ lock = NoTask
  /\ entries' = [entries EXCEPT ![scope[t]] = NoEntry]
  /\ pc' = [pc EXCEPT ![t] = "idle"]
  /\ ent' = [ent EXCEPT ![t] = NoEntry]
  /\ scope' = [scope EXCEPT ![t] = NoScope]
  /\ UNCHANGED <<lock, mutex, line, temp, todo>>
DestroyKeepsKey(t) ==
  /\ pc[t] = "destroy"
  /\ pc' = [pc EXCEPT ![t] = "idle"]
  /\ ent' = [ent EXCEPT ![t] = NoEntry]
  /\ scope' = [scope EXCEPT ![t] = NoScope]
  /\ UNCHANGED <<entries, lock, mutex, line, temp, todo>>

\* KeyedMutex::drop takes the lock and removes its key if it is still its own.
Destroy(t) ==
  /\ pc[t] = "destroy"
  /\ lock = NoTask
  /\ entries' = IF entries[scope[t]] = ent[t]
                THEN [entries EXCEPT ![scope[t]] = NoEntry] ELSE entries
  /\ pc' = [pc EXCEPT ![t] = "idle"]
  /\ ent' = [ent EXCEPT ![t] = NoEntry]
  /\ scope' = [scope EXCEPT ![t] = NoScope]
  /\ UNCHANGED <<lock, mutex, line, temp, todo>>

-----------------------------------------------------------------------------
\* The steps of a task that the scheduler takes by itself.  A task in
\* selfdrop waits for a lock that it holds: it has none.
Step(t) ==
  \/ PruneLock(t)
  \/ \E s \in Scopes : PruneUpgrade(t, s)
  \/ PruneDrop(t) \/ PruneUnlock(t)
  \/ Lookup(t) \/ Poll(t) \/ Granted(t)
  \/ DropEntry(t) \/ Destroy(t)

Next ==
  \E t \in Tasks :
    \/ \E s \in Scopes \cup {NoScope} : Acquire(t, s)
    \/ Step(t)
    \/ DropGuard(t) \/ Cancel(t)

\* Ready tasks run; a lease may be held, and a scope left alone, for ever.
Spec == Init /\ [][Next]_vars /\ \A t \in Tasks : WF_vars(Step(t))

-----------------------------------------------------------------------------
\* What values the variables take.
TypeOK ==
  /\ entries \in [Scopes -> Entries \cup {NoEntry}]
  /\ lock \in Tasks \cup {NoTask}
  /\ mutex \in [Entries -> Tasks \cup {NoTask}]
  /\ line \in [Entries -> Seq(Tasks)]
  /\ pc \in [Tasks -> {"idle", "locking", "pruning", "selfdrop", "lookup",
                      "polling", "waiting", "held", "released", "destroy"}]
  /\ scope \in [Tasks -> Scopes \cup {NoScope}]
  /\ ent \in [Tasks -> Entries \cup {NoEntry}]
  /\ temp \in [Tasks -> Entries \cup {NoEntry}]
  /\ todo \in [Tasks -> SUBSET Scopes]
  /\ \A t \in Tasks : lock = t <=> pc[t] \in {"pruning", "selfdrop"}

Acquiring(t) == pc[t] \in {"locking", "pruning", "selfdrop", "lookup",
                          "polling", "waiting"}

\* The coordinator seen as the leases it promises.
Lease == INSTANCE ScopeLease WITH
  want <- [t \in Tasks |-> IF Acquiring(t) THEN scope[t] ELSE NoScope],
  hold <- [t \in Tasks |-> IF pc[t] = "held" THEN scope[t] ELSE NoScope]

\* Implements ScopeLease: acquire grants a scope only when no other lease on
\* it is alive, whatever entry the scope had before.
ImplementsLease == Lease!LeaseSpec

\* Two leases of one scope never coexist, although the scope's KeyedMutex
\* may have been destroyed and replaced between two acquisitions.
MutualExclusion ==
  \A t, u \in Tasks :
    pc[t] = "held" /\ pc[u] = "held" /\ scope[t] = scope[u] => t = u

\* Whoever holds or waits for a scope does so on the entry the map names: the
\* late destructor of an older entry never removes its replacement.
OwnedEntryIsCurrent ==
  \A t \in Tasks : pc[t] \in Owning => entries[scope[t]] = ent[t]

\* Keys do not pile up: when no task is in the coordinator, the map is empty.
NoKeyLeft ==
  (\A t \in Tasks : pc[t] = "idle") => \A s \in Scopes : entries[s] = NoEntry

\* A thread inside prune_stale waits for the lock it holds itself.
SelfLocked == \E t \in Tasks : pc[t] = "selfdrop"

\* u enters and leaves the coordinator for ever.
Recurs(u) == []<>(pc[u] = "idle") /\ []<>(pc[u] # "idle")

\* An acquire that never ends waits for a lease on its own scope that is never
\* released, or for the map's unfair lock which others take again and again:
\* neither leases of other scopes, nor waiters that were cancelled (even after
\* the mutex was handed to them), nor entries being destroyed, hold it up.
OnlyItsScopeBlocks ==
  \A t \in Tasks : \A s \in Scopes :
    <>[](Acquiring(t) /\ scope[t] = s)
      => \/ <>[](\E u \in Tasks : pc[u] = "held" /\ scope[u] = s)
         \/ \E u \in Tasks : Recurs(u)

\* The same in every behaviour in which prune_stale, under the map's lock,
\* never drops the last reference to an entry.
OnlyItsScopeBlocksUnlessSelfLocked == []~SelfLocked => OnlyItsScopeBlocks
=============================================================================
