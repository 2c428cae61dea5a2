---------------------- MODULE ExecutionCoordinatorProofs ----------------------
(***************************************************************************)
(* For any number of tasks, scopes and entries: the coordinator's leases   *)
(* are exclusive, an owned entry is always the current one of its scope,   *)
(* and the coordinator implements ScopeLease.                              *)
(***************************************************************************)
EXTENDS ExecutionCoordinator, SequenceTheorems, TLAPS

\* A task that has chosen an entry, or is to choose one, has a scope.
ScopeKnown ==
  \A t \in Tasks :
    pc[t] \in Owning \cup {"lookup", "destroy"} => scope[t] \in Scopes

\* An owned entry exists and is the one the map names for its scope.
OwnedIsCurrent ==
  \A t \in Tasks :
    pc[t] \in Owning => ent[t] \in Entries /\ entries[scope[t]] = ent[t]

\* An entry whose destructor runs is not revived: upgrading it fails.
DyingStaysDead ==
  \A t \in Tasks :
    pc[t] = "destroy" => ent[t] \in Entries /\ ~Strong(ent[t])

\* Whoever has a lease owns the mutex of its entry.
HolderOwnsMutex ==
  \A t \in Tasks : pc[t] = "held" => mutex[ent[t]] = t

IInv == /\ TypeOK /\ ScopeKnown /\ OwnedIsCurrent /\ DyingStaysDead
        /\ HolderOwnsMutex

\* Handing a mutex over keeps owners and lines well typed.
LEMMA HandOverType ==
  ASSUME TypeOK, NEW e \in Entries, HandOver(e)
  PROVE  /\ mutex' \in [Entries -> Tasks \cup {NoTask}]
         /\ line' \in [Entries -> Seq(Tasks)]
         /\ \A f \in Entries : f # e => mutex'[f] = mutex[f]
<1>1. line[e] \in Seq(Tasks)
  BY Zenon DEF TypeOK
<1>2. CASE line[e] = <<>>
  BY <1>2, Zenon DEF HandOver, TypeOK
<1>3. CASE line[e] # <<>>
  <2>1. Head(line[e]) \in Tasks /\ Tail(line[e]) \in Seq(Tasks)
    BY <1>1, <1>3, HeadTailProperties, Zenon
  <2> QED
    BY <1>3, <2>1, Zenon DEF HandOver, TypeOK
<1> QED
  BY <1>2, <1>3, Zenon

\* Taking one task out of a line leaves a line.
LEMMA RemovalType ==
  ASSUME NEW q \in Seq(Tasks), NEW i \in DOMAIN q
  PROVE  SubSeq(q, 1, i - 1) \o SubSeq(q, i + 1, Len(q)) \in Seq(Tasks)
<1>1. Len(q) \in Nat /\ i \in 1 .. Len(q)
  BY LenProperties, Zenon
<1>2. SubSeq(q, 1, i - 1) \in Seq(Tasks)
  BY <1>1, SubSeqProperties
<1>3. SubSeq(q, i + 1, Len(q)) \in Seq(Tasks)
  BY <1>1, SubSeqProperties
<1> QED
  BY <1>2, <1>3, ConcatProperties, Zenon

\* The coordinator without entries satisfies the inductive invariant.
LEMMA InitIInv == Init => IInv
BY SentinelAssumption DEF Init, IInv, TypeOK, ScopeKnown, OwnedIsCurrent,
     DyingStaysDead, HolderOwnsMutex, Owning

\* Every step keeps the inductive invariant.
LEMMA StepIInv == IInv /\ [Next]_vars => IInv'
<1> SUFFICES ASSUME IInv, [Next]_vars PROVE IInv'
  BY Zenon
<1> USE SentinelAssumption
<1>1. ASSUME NEW t \in Tasks, NEW s \in Scopes \cup {NoScope}, Acquire(t, s)
      PROVE  IInv'
  BY <1>1 DEF Acquire, IInv, TypeOK, ScopeKnown, OwnedIsCurrent,
       DyingStaysDead, HolderOwnsMutex, Owning, Strong, Owns
<1>2. ASSUME NEW t \in Tasks, PruneLock(t) PROVE IInv'
  <2>1. TypeOK'
    BY <1>2, Zenon DEF PruneLock, IInv, TypeOK, ScopeKnown, OwnedIsCurrent, Owning
  <2>2. ScopeKnown'
    BY <1>2, Zenon DEF PruneLock, IInv, TypeOK, ScopeKnown, Owning
  <2>3. OwnedIsCurrent'
    BY <1>2, Zenon DEF PruneLock, IInv, TypeOK, ScopeKnown, OwnedIsCurrent,
         Owning, Strong, Owns
  <2>4. DyingStaysDead'
    BY <1>2, Zenon DEF PruneLock, IInv, TypeOK, OwnedIsCurrent, DyingStaysDead,
         Owning, Strong, Owns
  <2>5. HolderOwnsMutex'
    BY <1>2, Zenon DEF PruneLock, IInv, TypeOK, OwnedIsCurrent,
         HolderOwnsMutex, Owning
  <2> QED
    BY <2>1, <2>2, <2>3, <2>4, <2>5, Zenon DEF IInv
<1>3. ASSUME NEW t \in Tasks, NEW s \in Scopes, PruneUpgrade(t, s) PROVE IInv'
  <2>1. TypeOK'
    <3>1. todo' \in [Tasks -> SUBSET Scopes]
      BY <1>3, Zenon DEF PruneUpgrade, IInv, TypeOK
    <3>2. /\ temp' \in [Tasks -> Entries \cup {NoEntry}]
          /\ entries' \in [Scopes -> Entries \cup {NoEntry}]
      BY <1>3 DEF PruneUpgrade, IInv, TypeOK
    <3> QED
      BY <1>3, <3>1, <3>2, Zenon DEF PruneUpgrade, IInv, TypeOK
  <2>2. ScopeKnown'
    BY <1>3, Zenon DEF PruneUpgrade, IInv, TypeOK, ScopeKnown, Owning
  <2>3. OwnedIsCurrent'
    BY <1>3 DEF PruneUpgrade, IInv, TypeOK, ScopeKnown, OwnedIsCurrent,
         Owning, Strong, Owns
  <2>4. DyingStaysDead'
    BY <1>3 DEF PruneUpgrade, IInv, TypeOK, OwnedIsCurrent, DyingStaysDead,
         Owning, Strong, Owns
  <2>5. HolderOwnsMutex'
    BY <1>3, Zenon DEF PruneUpgrade, IInv, TypeOK, OwnedIsCurrent,
         HolderOwnsMutex, Owning
  <2> QED
    BY <2>1, <2>2, <2>3, <2>4, <2>5, Zenon DEF IInv
<1>4. ASSUME NEW t \in Tasks, PruneDrop(t) PROVE IInv'
  BY <1>4 DEF PruneDrop, IInv, TypeOK, ScopeKnown, OwnedIsCurrent,
       DyingStaysDead, HolderOwnsMutex, Owning, Strong, Owns
<1>5. ASSUME NEW t \in Tasks, PruneUnlock(t) PROVE IInv'
  <2>1. TypeOK'
    BY <1>5, Zenon DEF PruneUnlock, IInv, TypeOK, ScopeKnown, OwnedIsCurrent, Owning
  <2>2. ScopeKnown'
    BY <1>5, Zenon DEF PruneUnlock, IInv, TypeOK, ScopeKnown, Owning
  <2>3. OwnedIsCurrent'
    BY <1>5, Zenon DEF PruneUnlock, IInv, TypeOK, ScopeKnown, OwnedIsCurrent,
         Owning, Strong, Owns
  <2>4. DyingStaysDead'
    BY <1>5, Zenon DEF PruneUnlock, IInv, TypeOK, OwnedIsCurrent, DyingStaysDead,
         Owning, Strong, Owns
  <2>5. HolderOwnsMutex'
    BY <1>5, Zenon DEF PruneUnlock, IInv, TypeOK, OwnedIsCurrent,
         HolderOwnsMutex, Owning
  <2> QED
    BY <2>1, <2>2, <2>3, <2>4, <2>5, Zenon DEF IInv
<1>6. ASSUME NEW t \in Tasks, Lookup(t) PROVE IInv'
  <2>1. TypeOK'
    <3>1. <<>> \in Seq(Tasks)
      OBVIOUS
    <3>2. scope[t] \in Scopes
      BY <1>6, Zenon DEF Lookup, IInv, ScopeKnown
    <3>3. CASE /\ ent' = [ent EXCEPT ![t] = entries[scope[t]]]
               /\ UNCHANGED <<entries, mutex, line>>
      BY <1>6, <3>2, <3>3, Zenon DEF Lookup, IInv, TypeOK
    <3>4. CASE \E e \in Entries :
                 /\ ent' = [ent EXCEPT ![t] = e]
                 /\ entries' = [entries EXCEPT ![scope[t]] = e]
                 /\ mutex' = [mutex EXCEPT ![e] = NoTask]
                 /\ line' = [line EXCEPT ![e] = <<>>]
      BY <1>6, <3>1, <3>2, <3>4 DEF Lookup, IInv, TypeOK
    <3> QED
      BY <1>6, <3>3, <3>4, Zenon DEF Lookup
  <2>2. ScopeKnown'
    BY <1>6, Zenon DEF Lookup, IInv, TypeOK, ScopeKnown, Owning
  <2>3. OwnedIsCurrent'
    BY <1>6 DEF Lookup, IInv, TypeOK, ScopeKnown, OwnedIsCurrent,
         Owning, Strong, Owns, Free
  <2>4. DyingStaysDead'
    BY <1>6 DEF Lookup, IInv, TypeOK, OwnedIsCurrent, DyingStaysDead,
         Owning, Strong, Owns, Free
  <2>5. HolderOwnsMutex'
    BY <1>6 DEF Lookup, IInv, TypeOK, OwnedIsCurrent,
         HolderOwnsMutex, Owning, Free
  <2> QED
    BY <2>1, <2>2, <2>3, <2>4, <2>5, Zenon DEF IInv
<1>7. ASSUME NEW t \in Tasks, Poll(t) PROVE IInv'
  <2>1. TypeOK'
    <3>1. ent[t] \in Entries
      BY <1>7, Zenon DEF Poll, IInv, OwnedIsCurrent, Owning
    <3>2. Append(line[ent[t]], t) \in Seq(Tasks)
      BY <3>1, AppendProperties, Zenon DEF IInv, TypeOK
    <3>3. line' \in [Entries -> Seq(Tasks)]
      BY <1>7, <3>1, <3>2, Zenon DEF Poll, IInv, TypeOK
    <3>4. mutex' \in [Entries -> Tasks \cup {NoTask}]
      BY <1>7, <3>1, Zenon DEF Poll, IInv, TypeOK
    <3>5. PICK p \in {"held", "waiting"} : pc' = [pc EXCEPT ![t] = p]
      BY <1>7, Zenon DEF Poll
    <3>6. pc' \in [Tasks -> {"idle", "locking", "pruning", "selfdrop", "lookup",
                      "polling", "waiting", "held", "released", "destroy"}]
      BY <3>5, Zenon DEF IInv, TypeOK
    <3>7. \A u \in Tasks : lock' = u <=> pc'[u] \in {"pruning", "selfdrop"}
      BY <1>7, <3>5, Zenon DEF Poll, IInv, TypeOK
    <3> QED
      BY <1>7, <3>3, <3>4, <3>6, <3>7, Zenon DEF Poll, IInv, TypeOK
  <2>2. ScopeKnown'
    BY <1>7, Zenon DEF Poll, IInv, TypeOK, ScopeKnown, Owning
  <2>3. OwnedIsCurrent'
    BY <1>7 DEF Poll, IInv, TypeOK, ScopeKnown, OwnedIsCurrent,
         Owning, Strong, Owns
  <2>4. DyingStaysDead'
    BY <1>7 DEF Poll, IInv, TypeOK, OwnedIsCurrent, DyingStaysDead,
         Owning, Strong, Owns
  <2>5. HolderOwnsMutex'
    BY <1>7 DEF Poll, IInv, TypeOK, OwnedIsCurrent,
         HolderOwnsMutex, Owning
  <2> QED
    BY <2>1, <2>2, <2>3, <2>4, <2>5, Zenon DEF IInv
<1>8. ASSUME NEW t \in Tasks, Granted(t) PROVE IInv'
  BY <1>8 DEF Granted, IInv, TypeOK, ScopeKnown, OwnedIsCurrent,
       DyingStaysDead, HolderOwnsMutex, Owning, Strong, Owns
<1>9. ASSUME NEW t \in Tasks, DropGuard(t) PROVE IInv'
  <2>1. TypeOK'
    BY <1>9, HandOverType, Zenon DEF DropGuard, IInv, TypeOK, ScopeKnown, OwnedIsCurrent, Owning
  <2>2. ScopeKnown'
    BY <1>9, Zenon DEF DropGuard, IInv, TypeOK, ScopeKnown, Owning
  <2>3. OwnedIsCurrent'
    BY <1>9, Zenon DEF DropGuard, IInv, TypeOK, ScopeKnown, OwnedIsCurrent,
         Owning, Strong, Owns
  <2>4. DyingStaysDead'
    BY <1>9, Zenon DEF DropGuard, IInv, TypeOK, OwnedIsCurrent, DyingStaysDead,
         Owning, Strong, Owns
  <2>5. HolderOwnsMutex'
    <3>1. ent[t] \in Entries
      BY <1>9, Zenon DEF DropGuard, IInv, OwnedIsCurrent, Owning
    <3>2. \A f \in Entries : mutex[f] # t => mutex'[f] = mutex[f]
      BY <1>9, <3>1, HandOverType, Zenon DEF DropGuard, IInv, HolderOwnsMutex
    <3>3. \A u \in Tasks : pc'[u] = "held" =>
            u # t /\ pc[u] = "held" /\ ent'[u] = ent[u]
      BY <1>9, Zenon DEF DropGuard, IInv, TypeOK
    <3>4. \A u \in Tasks : pc[u] = "held" => ent[u] \in Entries /\ mutex[ent[u]] = u
      BY Zenon DEF IInv, OwnedIsCurrent, HolderOwnsMutex, Owning
    <3> QED
      BY <3>2, <3>3, <3>4, Zenon DEF HolderOwnsMutex
  <2> QED
    BY <2>1, <2>2, <2>3, <2>4, <2>5, Zenon DEF IInv
<1>10. ASSUME NEW t \in Tasks, Cancel(t) PROVE IInv'
  <2>a. /\ pc[t] = "waiting" /\ pc' = [pc EXCEPT ![t] = "released"]
        /\ UNCHANGED <<entries, lock, scope, ent, temp, todo>>
    BY <1>10, Zenon DEF Cancel
  <2>1. TypeOK'
    <3>1. ent[t] \in Entries
      BY <2>a, Zenon DEF IInv, OwnedIsCurrent, Owning
    <3>2. CASE HandOver(ent[t])
      <4>1. /\ mutex' \in [Entries -> Tasks \cup {NoTask}]
            /\ line' \in [Entries -> Seq(Tasks)]
        BY <3>1, <3>2, HandOverType, Zenon DEF IInv
      <4> QED
        BY <2>a, <4>1, Zenon DEF IInv, TypeOK
    <3>3. CASE mutex[ent[t]] # t
      <4>1. PICK i \in DOMAIN line[ent[t]] :
              line' = [line EXCEPT ![ent[t]] =
                         SubSeq(@, 1, i - 1) \o SubSeq(@, i + 1, Len(@))]
        BY <1>10, <3>3, Zenon DEF Cancel
      <4>2. line[ent[t]] \in Seq(Tasks)
        BY <3>1, Zenon DEF IInv, TypeOK
      <4>3. line' \in [Entries -> Seq(Tasks)]
        BY <3>1, <4>1, <4>2, RemovalType, Zenon DEF IInv, TypeOK
      <4>4. mutex' = mutex
        BY <1>10, <3>3, Zenon DEF Cancel
      <4> QED
        BY <2>a, <4>3, <4>4, Zenon DEF IInv, TypeOK
    <3> QED
      BY <1>10, <3>2, <3>3, Zenon DEF Cancel
  <2>2. ScopeKnown'
    BY <2>a, Zenon DEF IInv, TypeOK, ScopeKnown, Owning
  <2>3. OwnedIsCurrent'
    BY <2>a, Zenon DEF IInv, TypeOK, ScopeKnown, OwnedIsCurrent, Owning
  <2>4. DyingStaysDead'
    BY <2>a, Zenon DEF IInv, TypeOK, DyingStaysDead, Owning, Strong, Owns
  <2>5. HolderOwnsMutex'
    <3>1. ent[t] \in Entries
      BY <1>10, Zenon DEF Cancel, IInv, OwnedIsCurrent, Owning
    <3>2. \A f \in Entries : mutex[f] # t => mutex'[f] = mutex[f]
      BY <1>10, <3>1, HandOverType, Zenon DEF Cancel, IInv, HolderOwnsMutex
    <3>3. \A u \in Tasks : pc'[u] = "held" =>
            u # t /\ pc[u] = "held" /\ ent'[u] = ent[u]
      BY <1>10, Zenon DEF Cancel, IInv, TypeOK
    <3>4. \A u \in Tasks : pc[u] = "held" => ent[u] \in Entries /\ mutex[ent[u]] = u
      BY Zenon DEF IInv, OwnedIsCurrent, HolderOwnsMutex, Owning
    <3> QED
      BY <3>2, <3>3, <3>4, Zenon DEF HolderOwnsMutex
  <2> QED
    BY <2>1, <2>2, <2>3, <2>4, <2>5, Zenon DEF IInv
<1>11. ASSUME NEW t \in Tasks, DropEntry(t) PROVE IInv'
  <2>1. CASE \E u \in Tasks : (u # t /\ Owns(u, ent[t])) \/ temp[u] = ent[t]
    <3>1. /\ pc' = [pc EXCEPT ![t] = "idle"]
          /\ ent' = [ent EXCEPT ![t] = NoEntry]
          /\ scope' = [scope EXCEPT ![t] = NoScope]
          /\ UNCHANGED <<entries, lock, mutex, line, temp, todo>>
      BY <1>11, <2>1, Zenon DEF DropEntry
    <3>2. pc[t] = "released"
      BY <1>11, Zenon DEF DropEntry
    <3>3. TypeOK'
      BY <3>1, <3>2, Zenon DEF IInv, TypeOK
    <3>4. ScopeKnown' /\ OwnedIsCurrent' /\ DyingStaysDead' /\ HolderOwnsMutex'
      BY <3>1 DEF IInv, TypeOK, ScopeKnown, OwnedIsCurrent, DyingStaysDead,
           HolderOwnsMutex, Owning, Strong, Owns
    <3> QED
      BY <3>3, <3>4, Zenon DEF IInv
  <2>2. CASE ~\E u \in Tasks : (u # t /\ Owns(u, ent[t])) \/ temp[u] = ent[t]
    <3>1. /\ pc[t] = "released"
          /\ pc' = [pc EXCEPT ![t] = "destroy"]
          /\ UNCHANGED <<ent, scope, entries, lock, mutex, line, temp, todo>>
      BY <1>11, <2>2, Zenon DEF DropEntry
    <3>2. TypeOK' /\ ScopeKnown' /\ OwnedIsCurrent' /\ HolderOwnsMutex'
      BY <3>1, Zenon DEF IInv, TypeOK, ScopeKnown, OwnedIsCurrent, HolderOwnsMutex,
           Owning
    <3>3. DyingStaysDead'
      BY <2>2, <3>1, Zenon DEF IInv, TypeOK, OwnedIsCurrent, DyingStaysDead, Owning,
           Strong, Owns
    <3> QED
      BY <3>2, <3>3, Zenon DEF IInv
  <2> QED
    BY <2>1, <2>2, Zenon
<1>12. ASSUME NEW t \in Tasks, Destroy(t) PROVE IInv'
  BY <1>12 DEF Destroy, IInv, TypeOK, ScopeKnown, OwnedIsCurrent,
       DyingStaysDead, HolderOwnsMutex, Owning, Strong, Owns
<1>13. CASE UNCHANGED vars
  BY <1>13, Zenon DEF vars, IInv, TypeOK, ScopeKnown, OwnedIsCurrent,
       DyingStaysDead, HolderOwnsMutex, Owning, Strong, Owns
<1> QED
  BY <1>1, <1>2, <1>3, <1>4, <1>5, <1>6, <1>7, <1>8, <1>9, <1>10, <1>11,
     <1>12, <1>13, Zenon DEF Next, Step

\* The inductive invariant gives exclusion: two leases of one scope sit on the
\* same entry, whose mutex has one owner.
LEMMA IInvExcludes == IInv => MutualExclusion
BY DEF IInv, OwnedIsCurrent, HolderOwnsMutex, MutualExclusion, Owning

\* The coordinator's state is well typed in every reachable state.
THEOREM TypeCorrect == Spec => []TypeOK
<1>1. IInv => TypeOK
  BY Zenon DEF IInv
<1> QED
  BY <1>1, InitIInv, StepIInv, PTL DEF Spec

\* acquire() never grants a scope that another live lease holds.
THEOREM Exclusion == Spec => []MutualExclusion
BY InitIInv, StepIInv, IInvExcludes, PTL DEF Spec

\* KeyedMutex::drop and prune_stale never remove the key of an entry that
\* some task still owns.
THEOREM CurrentEntry == Spec => []OwnedEntryIsCurrent
<1>1. IInv => OwnedEntryIsCurrent
  BY Zenon DEF IInv, OwnedIsCurrent, OwnedEntryIsCurrent
<1> QED
  BY <1>1, InitIInv, StepIInv, PTL DEF Spec

-----------------------------------------------------------------------------
(* Keys do not pile up.                                                    *)

\* A key names an entry that some task still owns, destroys or has upgraded,
\* unless a task is stuck in prune_stale for ever.
KeyHeld ==
  \A s \in Scopes : entries[s] # NoEntry =>
    \E t \in Tasks :
      \/ pc[t] \in Owning \cup {"destroy"} /\ ent[t] = entries[s]
      \/ temp[t] = entries[s]
      \/ pc[t] = "selfdrop"

\* Only prune_stale has an upgraded reference.
TempPruning == \A t \in Tasks : temp[t] # NoEntry => pc[t] = "pruning"

\* An entry belongs to one key, that of the scope its users asked for; so its
\* destructor removes the only key there is.
OneKey ==
  /\ \A s, r \in Scopes : entries[s] # NoEntry /\ entries[s] = entries[r] => s = r
  /\ \A t \in Tasks : \A s \in Scopes :
       pc[t] \in Owning \cup {"destroy"} /\ entries[s] = ent[t] => s = scope[t]

KeyInv == KeyHeld /\ TempPruning /\ OneKey

\* A step that leaves the map, the references and the scopes alone, and moves
\* no task out of the states in which it owns or destroys an entry.
LEMMA KeysUntouched ==
  ASSUME TypeOK, KeyInv, NEW t \in Tasks, UNCHANGED <<entries, ent, temp, scope>>,
         NEW step, pc' = [pc EXCEPT ![t] = step],
         \/ pc[t] \in Owning /\ step \in Owning \cup {"destroy"}
         \/ pc[t] \in {"locking", "pruning"} /\ temp[t] = NoEntry
              /\ step \notin Owning \cup {"destroy"}
  PROVE  KeyInv'
<1>1. \A u \in Tasks : pc'[u] = IF u = t THEN step ELSE pc[u]
  BY Zenon DEF TypeOK
<1>2. KeyHeld'
  BY <1>1 DEF KeyInv, KeyHeld, Owning
<1>3. TempPruning'
  BY <1>1, Zenon DEF KeyInv, TempPruning, Owning
<1>4. OneKey'
  BY <1>1 DEF KeyInv, OneKey, Owning
<1> QED
  BY <1>2, <1>3, <1>4, Zenon DEF KeyInv

\* Every step keeps what is known of the keys.
LEMMA StepKeyInv == IInv /\ KeyInv /\ [Next]_vars => KeyInv'
<1> SUFFICES ASSUME IInv, KeyInv, [Next]_vars PROVE KeyInv'
  BY Zenon
<1> USE SentinelAssumption
<1>0. TypeOK
  BY Zenon DEF IInv
<1>1. ASSUME NEW t \in Tasks, NEW s \in Scopes \cup {NoScope}, Acquire(t, s)
      PROVE  KeyInv'
  <2>1. KeyHeld'
    BY <1>0, <1>1, Zenon DEF Acquire, KeyInv, KeyHeld, TypeOK, Owning
  <2>2. TempPruning'
    BY <1>0, <1>1, Zenon DEF Acquire, KeyInv, TempPruning, TypeOK
  <2>3. OneKey'
    BY <1>0, <1>1, Zenon DEF Acquire, KeyInv, OneKey, TypeOK, Owning
  <2> QED
    BY <2>1, <2>2, <2>3, Zenon DEF KeyInv
<1>2. ASSUME NEW t \in Tasks, PruneLock(t) PROVE KeyInv'
  <2>1. temp[t] = NoEntry
    BY <1>2, Zenon DEF PruneLock, KeyInv, TempPruning
  <2> QED
    BY <1>0, <1>2, <2>1, KeysUntouched, Zenon DEF PruneLock, Owning
<1>3. ASSUME NEW t \in Tasks, NEW s \in Scopes, PruneUpgrade(t, s)
      PROVE  KeyInv'
  <2>1. KeyHeld'
    <3>1. CASE temp' = [temp EXCEPT ![t] = entries[s]] /\ entries' = entries
      BY <1>0, <1>3, <3>1 DEF PruneUpgrade, KeyInv, KeyHeld, TypeOK
    <3>2. CASE temp' = temp /\ entries' = [entries EXCEPT ![s] = NoEntry]
      BY <1>0, <1>3, <3>2, Zenon DEF PruneUpgrade, KeyInv, KeyHeld, TypeOK
    <3> QED
      BY <1>3, <3>1, <3>2, Zenon DEF PruneUpgrade
  <2>2. TempPruning'
    BY <1>0, <1>3, Zenon DEF PruneUpgrade, KeyInv, TempPruning, TypeOK
  <2>3. \A r \in Scopes : entries'[r] = entries[r] \/ entries'[r] = NoEntry
    BY <1>0, <1>3, Zenon DEF PruneUpgrade, TypeOK
  <2>4. \A u \in Tasks : pc[u] \in Owning \cup {"destroy"} => ent[u] \in Entries
    BY Zenon DEF IInv, OwnedIsCurrent, DyingStaysDead
  <2>5. OneKey'
    BY <1>3, <2>3, <2>4 DEF PruneUpgrade, KeyInv, OneKey
  <2> QED
    BY <2>1, <2>2, <2>5, Zenon DEF KeyInv
<1>4. ASSUME NEW t \in Tasks, PruneDrop(t) PROVE KeyInv'
  <2>1. CASE \E u \in Tasks : Owns(u, temp[t])
    <3>1. PICK u \in Tasks : Owns(u, temp[t])
      BY <2>1, Zenon
    <3>2. /\ temp' = [temp EXCEPT ![t] = NoEntry] /\ pc' = pc /\ ent' = ent
          /\ UNCHANGED <<entries, scope>>
      BY <1>0, <1>4, <2>1, Zenon DEF PruneDrop, TypeOK
    <3>3. KeyHeld'
      BY <1>0, <3>1, <3>2, ZenonT(30) DEF KeyInv, KeyHeld, TypeOK, Owns
    <3>4. TempPruning'
      BY <1>0, <3>2, Zenon DEF KeyInv, TempPruning, TypeOK
    <3>5. OneKey'
      BY <3>2, Zenon DEF KeyInv, OneKey
    <3> QED
      BY <3>3, <3>4, <3>5, Zenon DEF KeyInv
  <2>2. CASE ~\E u \in Tasks : Owns(u, temp[t])
    <3>1. /\ temp' = [temp EXCEPT ![t] = NoEntry]
          /\ pc' = [pc EXCEPT ![t] = "selfdrop"]
          /\ ent' = [ent EXCEPT ![t] = temp[t]]
          /\ UNCHANGED <<entries, scope>>
      BY <1>4, <2>2, Zenon DEF PruneDrop
    <3>2. pc'[t] = "selfdrop"
      BY <1>0, <3>1, Zenon DEF TypeOK
    <3>3. KeyHeld'
      BY <3>2, Zenon DEF KeyHeld
    <3>4. TempPruning'
      BY <1>0, <3>1, Zenon DEF KeyInv, TempPruning, TypeOK
    <3>5. OneKey'
      BY <1>0, <3>1, Zenon DEF KeyInv, OneKey, TypeOK, Owning
    <3> QED
      BY <3>3, <3>4, <3>5, Zenon DEF KeyInv
  <2> QED
    BY <2>1, <2>2, Zenon
<1>5. ASSUME NEW t \in Tasks, PruneUnlock(t) PROVE KeyInv'
  <2>1. PICK step \in {"idle", "lookup"} : pc' = [pc EXCEPT ![t] = step]
    BY <1>5, Zenon DEF PruneUnlock
  <2> QED
    BY <1>0, <1>5, <2>1, KeysUntouched, Zenon DEF PruneUnlock, Owning
<1>6. ASSUME NEW t \in Tasks, Lookup(t) PROVE KeyInv'
  <2>1. scope[t] \in Scopes
    BY <1>6, Zenon DEF Lookup, IInv, ScopeKnown
  <2>2. /\ pc[t] = "lookup" /\ pc' = [pc EXCEPT ![t] = "polling"]
        /\ UNCHANGED <<scope, temp>>
    BY <1>6, Zenon DEF Lookup
  <2>3. TempPruning'
    BY <1>0, <2>2, Zenon DEF KeyInv, TempPruning, TypeOK
  <2>4. CASE /\ entries[scope[t]] # NoEntry
             /\ ent' = [ent EXCEPT ![t] = entries[scope[t]]] /\ entries' = entries
    <3>1. KeyHeld'
      BY <1>0, <2>2, <2>4, Zenon DEF KeyInv, KeyHeld, TypeOK, Owning
    <3>2. OneKey'
      BY <1>0, <2>1, <2>2, <2>4 DEF KeyInv, OneKey, TypeOK, Owning
    <3> QED
      BY <2>3, <3>1, <3>2, Zenon DEF KeyInv
  <2>5. ASSUME NEW e \in Entries, Free(e), ent' = [ent EXCEPT ![t] = e],
               entries' = [entries EXCEPT ![scope[t]] = e]
        PROVE  KeyInv'
    <3>0. /\ ent'[t] = e /\ pc'[t] = "polling"
          /\ \A u \in Tasks : u # t => pc'[u] = pc[u] /\ ent'[u] = ent[u]
          /\ \A s \in Scopes : s # scope[t] => entries'[s] = entries[s]
          /\ entries'[scope[t]] = e
      BY <1>0, <2>1, <2>2, <2>5, Zenon DEF TypeOK
    <3>1. KeyHeld'
      <4> SUFFICES ASSUME NEW s \in Scopes, entries'[s] # NoEntry
                   PROVE  \E u \in Tasks :
                            \/ /\ pc'[u] \in Owning \cup {"destroy"}
                               /\ ent'[u] = entries'[s]
                            \/ temp'[u] = entries'[s]
                            \/ pc'[u] = "selfdrop"
        BY Zenon DEF KeyHeld, Owning
      <4>1. CASE s = scope[t]
        BY <3>0, <4>1, Zenon DEF Owning
      <4>2. CASE s # scope[t]
        <5>1. PICK u \in Tasks :
                \/ pc[u] \in Owning \cup {"destroy"} /\ ent[u] = entries[s]
                \/ temp[u] = entries[s]
                \/ pc[u] = "selfdrop"
          BY <3>0, <4>2, Zenon DEF KeyInv, KeyHeld
        <5> QED
          BY <2>2, <3>0, <4>2, <5>1, Zenon DEF Owning
      <4> QED
        BY <4>1, <4>2, Zenon
    <3>2. OneKey'
      BY <1>0, <2>1, <2>2, <2>5, Zenon DEF KeyInv, OneKey, TypeOK, Owning, Free
    <3> QED
      BY <2>3, <3>1, <3>2, Zenon DEF KeyInv
  <2> QED
    BY <1>6, <2>4, <2>5, Zenon DEF Lookup
<1>7. ASSUME NEW t \in Tasks, Poll(t) PROVE KeyInv'
  <2>1. PICK step \in {"held", "waiting"} : pc' = [pc EXCEPT ![t] = step]
    BY <1>7, Zenon DEF Poll
  <2> QED
    BY <1>0, <1>7, <2>1, KeysUntouched, Zenon DEF Poll, Owning
<1>8. ASSUME NEW t \in Tasks, Granted(t) \/ DropGuard(t) \/ Cancel(t)
      PROVE  KeyInv'
  <2>1. /\ pc[t] \in {"waiting", "held"} /\ UNCHANGED <<entries, ent, temp, scope>>
        /\ \E step \in {"held", "released"} : pc' = [pc EXCEPT ![t] = step]
    BY <1>8, Zenon DEF Granted, DropGuard, Cancel
  <2> QED
    BY <1>0, <2>1, KeysUntouched, Zenon DEF Owning
<1>9. ASSUME NEW t \in Tasks, DropEntry(t) PROVE KeyInv'
  <2>1. CASE \E u \in Tasks : (u # t /\ Owns(u, ent[t])) \/ temp[u] = ent[t]
    <3>1. /\ pc' = [pc EXCEPT ![t] = "idle"]
          /\ ent' = [ent EXCEPT ![t] = NoEntry]
          /\ scope' = [scope EXCEPT ![t] = NoScope]
          /\ UNCHANGED <<entries, temp>> /\ pc[t] = "released"
      BY <1>9, <2>1, Zenon DEF DropEntry
    <3>2. KeyHeld'
      BY <1>0, <2>1, <3>1 DEF KeyInv, KeyHeld, TypeOK, Owns, Owning
    <3>3. TempPruning'
      BY <1>0, <3>1, Zenon DEF KeyInv, TempPruning, TypeOK
    <3>4. OneKey'
      BY <1>0, <3>1, Zenon DEF KeyInv, OneKey, TypeOK, Owning
    <3> QED
      BY <3>2, <3>3, <3>4, Zenon DEF KeyInv
  <2>2. CASE ~\E u \in Tasks : (u # t /\ Owns(u, ent[t])) \/ temp[u] = ent[t]
    <3>1. /\ pc' = [pc EXCEPT ![t] = "destroy"] /\ pc[t] = "released"
          /\ UNCHANGED <<entries, ent, temp, scope>>
      BY <1>9, <2>2, Zenon DEF DropEntry
    <3> QED
      BY <1>0, <3>1, KeysUntouched, Zenon DEF Owning
  <2> QED
    BY <2>1, <2>2, Zenon
<1>10. ASSUME NEW t \in Tasks, Destroy(t) PROVE KeyInv'
  <2>1. /\ pc[t] = "destroy" /\ scope[t] \in Scopes /\ ent[t] \in Entries
        /\ pc' = [pc EXCEPT ![t] = "idle"]
        /\ ent' = [ent EXCEPT ![t] = NoEntry]
        /\ scope' = [scope EXCEPT ![t] = NoScope]
        /\ temp' = temp
    BY <1>10, Zenon DEF Destroy, IInv, ScopeKnown, DyingStaysDead
  <2>2. \A s \in Scopes :
          \/ entries'[s] = NoEntry
          \/ entries'[s] = entries[s] /\ entries[s] # ent[t]
    BY <1>0, <1>10, <2>1, Zenon DEF Destroy, KeyInv, OneKey, TypeOK
  <2>3. KeyHeld'
    <3> SUFFICES ASSUME NEW s \in Scopes, entries'[s] # NoEntry
                 PROVE  \E u \in Tasks :
                          \/ /\ pc'[u] \in Owning \cup {"destroy"}
                             /\ ent'[u] = entries'[s]
                          \/ temp'[u] = entries'[s]
                          \/ pc'[u] = "selfdrop"
      BY Zenon DEF KeyHeld, Owning
    <3>1. entries'[s] = entries[s] /\ entries[s] # ent[t]
      BY <2>2, Zenon
    <3>2. PICK u \in Tasks :
            \/ pc[u] \in Owning \cup {"destroy"} /\ ent[u] = entries[s]
            \/ temp[u] = entries[s]
            \/ pc[u] = "selfdrop"
      BY <3>1, Zenon DEF KeyInv, KeyHeld
    <3> QED
      BY <1>0, <2>1, <3>1, <3>2, Zenon DEF TypeOK
  <2>4. TempPruning'
    BY <1>0, <2>1, Zenon DEF KeyInv, TempPruning, TypeOK
  <2>5. \A u \in Tasks : pc[u] \in Owning \cup {"destroy"} => ent[u] \in Entries
    BY Zenon DEF IInv, OwnedIsCurrent, DyingStaysDead
  <2>6. OneKey'
    BY <1>0, <2>1, <2>2, <2>5 DEF KeyInv, OneKey, TypeOK, Owning
  <2> QED
    BY <2>3, <2>4, <2>6, Zenon DEF KeyInv
<1>11. CASE UNCHANGED vars
  BY <1>11, Zenon DEF vars, KeyInv, KeyHeld, TempPruning, OneKey
<1> QED
  BY <1>1, <1>2, <1>3, <1>4, <1>5, <1>6, <1>7, <1>8, <1>9, <1>10, <1>11, Zenon
     DEF Next, Step

\* When no task is in the coordinator, KeyedMutex::drop has removed every key,
\* however late the destructors ran.
THEOREM KeysGo == Spec => []NoKeyLeft
<1>1. Init => KeyInv
  BY ZenonT(30) DEF Init, KeyInv, KeyHeld, TempPruning, OneKey, Owning
<1>2. IInv /\ KeyInv => NoKeyLeft
  BY Zenon DEF KeyInv, KeyHeld, TempPruning, NoKeyLeft, Owning
<1> QED
  BY <1>1, <1>2, InitIInv, StepIInv, StepKeyInv, PTL DEF Spec

-----------------------------------------------------------------------------
(* The refinement of ScopeLease.  wanted and holding name the mapping.     *)

wanted == [t \in Tasks |-> IF Acquiring(t) THEN scope[t] ELSE NoScope]
holding == [t \in Tasks |-> IF pc[t] = "held" THEN scope[t] ELSE NoScope]

\* Where only t moves, the lease changes at most at t.
LEMMA ViewOfOthers ==
  ASSUME NEW t \in Tasks,
         \A u \in Tasks \ {t} : pc'[u] = pc[u] /\ scope'[u] = scope[u]
  PROVE  /\ wanted' = [wanted EXCEPT ![t] = wanted'[t]]
         /\ holding' = [holding EXCEPT ![t] = holding'[t]]
BY Zenon DEF wanted, holding, Acquiring

\* Where what is wanted stays the same at t too, it does not change.
LEMMA WantedStays ==
  ASSUME NEW t \in Tasks,
         \A u \in Tasks \ {t} : pc'[u] = pc[u] /\ scope'[u] = scope[u],
         wanted'[t] = wanted[t]
  PROVE  wanted' = wanted
<1>1. \A u \in Tasks : wanted'[u] = wanted[u]
  BY Zenon DEF wanted, Acquiring
<1>2. /\ wanted = [u \in Tasks |-> wanted[u]]
      /\ wanted' = [u \in Tasks |-> wanted'[u]]
  BY Zenon DEF wanted
<1> QED
  BY <1>1, <1>2, Zenon

\* Likewise what is held.
LEMMA HoldingStays ==
  ASSUME NEW t \in Tasks,
         \A u \in Tasks \ {t} : pc'[u] = pc[u] /\ scope'[u] = scope[u],
         holding'[t] = holding[t]
  PROVE  holding' = holding
<1>1. \A u \in Tasks : holding'[u] = holding[u]
  BY Zenon DEF holding
<1>2. /\ holding = [u \in Tasks |-> holding[u]]
      /\ holding' = [u \in Tasks |-> holding'[u]]
  BY Zenon DEF holding
<1> QED
  BY <1>1, <1>2, Zenon

\* A task that becomes a holder is granted its scope: by exclusion in the new
\* state, nobody else holds it.
LEMMA GrantStep ==
  ASSUME IInv, IInv', NEW t \in Tasks,
         pc[t] \in {"polling", "waiting"},
         pc' = [pc EXCEPT ![t] = "held"], scope' = scope
  PROVE  Lease!LeaseNext
<1>1. MutualExclusion'
  BY IInvExcludes, PTL
<1>2. scope[t] \in Scopes /\ scope[t] # NoScope
  BY SentinelAssumption, Zenon DEF IInv, ScopeKnown, Owning
<1>3. \A u \in Tasks : u # t => pc'[u] = pc[u]
  BY Zenon DEF IInv, TypeOK
<1>4. \A u \in Tasks : holding[u] # scope[t]
  BY <1>1, <1>2, <1>3, Zenon DEF MutualExclusion, holding, IInv, TypeOK
<1>5. wanted[t] = scope[t]
  BY Zenon DEF wanted, Acquiring
<1>6. holding' = [holding EXCEPT ![t] = wanted[t]]
  BY <1>5, Zenon DEF holding, IInv, TypeOK
<1>7. wanted' = [wanted EXCEPT ![t] = NoScope]
  BY Zenon DEF wanted, Acquiring, IInv, TypeOK
<1>8. Lease!Grant(t)
  BY <1>2, <1>4, <1>5, <1>6, <1>7, Zenon
     DEF Lease!Grant, Lease!FreeScope, wanted, holding
<1> QED
  BY <1>8, Zenon DEF Lease!LeaseNext

\* The other steps of ScopeLease, by what they do to the mapping.
LEMMA RequestStep ==
  ASSUME NEW t \in Tasks, NEW s \in Scopes,
         wanted[t] = NoScope, holding[t] = NoScope,
         wanted' = [wanted EXCEPT ![t] = s], holding' = holding
  PROVE  Lease!LeaseNext
<1>1. Lease!Request(t, s)
  BY Zenon DEF Lease!Request, wanted, holding
<1> QED
  BY <1>1, Zenon DEF Lease!LeaseNext

\* A task gives up.
LEMMA WithdrawStep ==
  ASSUME NEW t \in Tasks, wanted[t] # NoScope,
         wanted' = [wanted EXCEPT ![t] = NoScope], holding' = holding
  PROVE  Lease!LeaseNext
<1>1. Lease!Withdraw(t)
  BY Zenon DEF Lease!Withdraw, wanted, holding
<1> QED
  BY <1>1, Zenon DEF Lease!LeaseNext

\* A task releases what it holds.
LEMMA ReleaseStep ==
  ASSUME NEW t \in Tasks, holding[t] # NoScope,
         holding' = [holding EXCEPT ![t] = NoScope], wanted' = wanted
  PROVE  Lease!LeaseNext
<1>1. Lease!Release(t)
  BY Zenon DEF Lease!Release, wanted, holding
<1> QED
  BY <1>1, Zenon DEF Lease!LeaseNext

\* Every step of the coordinator is a step of ScopeLease or leaves it alone.
LEMMA RefinementStep ==
  IInv /\ IInv' /\ [Next]_vars => [Lease!LeaseNext]_<<wanted, holding>>
<1> SUFFICES ASSUME IInv, IInv', [Next]_vars
             PROVE  Lease!LeaseNext \/ UNCHANGED <<wanted, holding>>
  BY Zenon
<1> USE SentinelAssumption
<1>1. ASSUME NEW t \in Tasks, NEW s \in Scopes \cup {NoScope}, Acquire(t, s)
      PROVE  Lease!LeaseNext \/ UNCHANGED <<wanted, holding>>
  <2>1. \A u \in Tasks \ {t} : pc'[u] = pc[u] /\ scope'[u] = scope[u]
    BY <1>1, Zenon DEF Acquire, IInv, TypeOK
  <2>2. wanted[t] = NoScope /\ holding[t] = NoScope
    BY <1>1, Zenon DEF Acquire, wanted, holding, Acquiring
  <2>3. wanted'[t] = s /\ holding'[t] = NoScope
    BY <1>1, Zenon DEF Acquire, wanted, holding, Acquiring, IInv, TypeOK
  <2>4. holding' = holding
    BY <2>1, <2>2, <2>3, HoldingStays, Zenon
  <2>5. CASE s = NoScope
    BY <2>1, <2>2, <2>3, <2>4, <2>5, WantedStays, Zenon
  <2>6. CASE s \in Scopes
    BY <2>1, <2>2, <2>3, <2>4, <2>6, ViewOfOthers, RequestStep, Zenon
  <2> QED
    BY <2>5, <2>6, Zenon
<1>2. ASSUME NEW t \in Tasks, PruneLock(t) PROVE UNCHANGED <<wanted, holding>>
  <2>1. \A u \in Tasks \ {t} : pc'[u] = pc[u] /\ scope'[u] = scope[u]
    BY <1>2, Zenon DEF PruneLock, IInv, TypeOK
  <2>2. wanted'[t] = wanted[t] /\ holding'[t] = holding[t]
    BY <1>2, Zenon DEF PruneLock, wanted, holding, Acquiring, IInv, TypeOK
  <2> QED
    BY <2>1, <2>2, WantedStays, HoldingStays, Zenon
<1>3. ASSUME NEW t \in Tasks, NEW s \in Scopes, PruneUpgrade(t, s)
      PROVE  UNCHANGED <<wanted, holding>>
  BY <1>3, Zenon DEF PruneUpgrade, wanted, holding, Acquiring
<1>4. ASSUME NEW t \in Tasks, PruneDrop(t) PROVE UNCHANGED <<wanted, holding>>
  <2>1. \A u \in Tasks \ {t} : pc'[u] = pc[u] /\ scope'[u] = scope[u]
    BY <1>4, Zenon DEF PruneDrop, IInv, TypeOK
  <2>2. wanted'[t] = wanted[t] /\ holding'[t] = holding[t]
    BY <1>4, Zenon DEF PruneDrop, wanted, holding, Acquiring, IInv, TypeOK
  <2> QED
    BY <2>1, <2>2, WantedStays, HoldingStays, Zenon
<1>5. ASSUME NEW t \in Tasks, PruneUnlock(t) PROVE UNCHANGED <<wanted, holding>>
  <2>1. \A u \in Tasks \ {t} : pc'[u] = pc[u] /\ scope'[u] = scope[u]
    BY <1>5, Zenon DEF PruneUnlock, IInv, TypeOK
  <2>2. wanted'[t] = wanted[t] /\ holding'[t] = holding[t]
    BY <1>5, Zenon DEF PruneUnlock, wanted, holding, Acquiring, IInv, TypeOK
  <2> QED
    BY <2>1, <2>2, WantedStays, HoldingStays, Zenon
<1>6. ASSUME NEW t \in Tasks, Lookup(t) PROVE UNCHANGED <<wanted, holding>>
  <2>1. \A u \in Tasks \ {t} : pc'[u] = pc[u] /\ scope'[u] = scope[u]
    BY <1>6, Zenon DEF Lookup, IInv, TypeOK
  <2>2. wanted'[t] = wanted[t] /\ holding'[t] = holding[t]
    BY <1>6, Zenon DEF Lookup, wanted, holding, Acquiring, IInv, TypeOK
  <2> QED
    BY <2>1, <2>2, WantedStays, HoldingStays, Zenon
<1>7. ASSUME NEW t \in Tasks, Poll(t)
      PROVE  Lease!LeaseNext \/ UNCHANGED <<wanted, holding>>
  <2>1. CASE mutex[ent[t]] = NoTask
    BY <1>7, <2>1, GrantStep, Zenon DEF Poll
  <2>2. CASE mutex[ent[t]] # NoTask
    <3>1. \A u \in Tasks \ {t} : pc'[u] = pc[u] /\ scope'[u] = scope[u]
      BY <1>7 DEF Poll, IInv, TypeOK
    <3>2. wanted'[t] = wanted[t] /\ holding'[t] = holding[t]
      BY <1>7, <2>2 DEF Poll, wanted, holding, Acquiring, IInv, TypeOK
    <3> QED
      BY <3>1, <3>2, WantedStays, HoldingStays, Zenon
  <2> QED
    BY <2>1, <2>2, Zenon
<1>8. ASSUME NEW t \in Tasks, Granted(t) PROVE Lease!LeaseNext
  BY <1>8, GrantStep, Zenon DEF Granted
<1>9. ASSUME NEW t \in Tasks, DropGuard(t) PROVE Lease!LeaseNext
  <2>1. \A u \in Tasks \ {t} : pc'[u] = pc[u] /\ scope'[u] = scope[u]
    BY <1>9, Zenon DEF DropGuard, IInv, TypeOK
  <2>2. holding[t] = scope[t] /\ scope[t] # NoScope
    BY <1>9, Zenon DEF DropGuard, holding, IInv, ScopeKnown, Owning
  <2>3. holding'[t] = NoScope /\ wanted'[t] = NoScope /\ wanted[t] = NoScope
    BY <1>9, Zenon DEF DropGuard, wanted, holding, Acquiring, IInv, TypeOK
  <2>4. holding' = [holding EXCEPT ![t] = NoScope]
    BY <2>1, <2>3, ViewOfOthers, Zenon
  <2>5. wanted' = wanted
    BY <2>1, <2>3, WantedStays, Zenon
  <2> QED
    BY <2>2, <2>4, <2>5, ReleaseStep, Zenon
<1>10. ASSUME NEW t \in Tasks, Cancel(t) PROVE Lease!LeaseNext
  <2>1. \A u \in Tasks \ {t} : pc'[u] = pc[u] /\ scope'[u] = scope[u]
    BY <1>10, Zenon DEF Cancel, IInv, TypeOK
  <2>2. wanted[t] = scope[t] /\ scope[t] # NoScope
    BY <1>10, Zenon DEF Cancel, wanted, Acquiring, IInv, ScopeKnown, Owning
  <2>3. wanted'[t] = NoScope /\ holding'[t] = NoScope /\ holding[t] = NoScope
    BY <1>10, Zenon DEF Cancel, wanted, holding, Acquiring, IInv, TypeOK
  <2>4. wanted' = [wanted EXCEPT ![t] = NoScope]
    BY <2>1, <2>3, ViewOfOthers, Zenon
  <2>5. holding' = holding
    BY <2>1, <2>3, HoldingStays, Zenon
  <2> QED
    BY <2>2, <2>4, <2>5, WithdrawStep, Zenon
<1>11. ASSUME NEW t \in Tasks, DropEntry(t) PROVE UNCHANGED <<wanted, holding>>
  <2>1. \A u \in Tasks \ {t} : pc'[u] = pc[u] /\ scope'[u] = scope[u]
    BY <1>11, Zenon DEF DropEntry, IInv, TypeOK
  <2>2. wanted'[t] = wanted[t] /\ holding'[t] = holding[t]
    BY <1>11 DEF DropEntry, wanted, holding, Acquiring, IInv, TypeOK
  <2> QED
    BY <2>1, <2>2, WantedStays, HoldingStays, Zenon
<1>12. ASSUME NEW t \in Tasks, Destroy(t) PROVE UNCHANGED <<wanted, holding>>
  <2>1. \A u \in Tasks \ {t} : pc'[u] = pc[u] /\ scope'[u] = scope[u]
    BY <1>12, Zenon DEF Destroy, IInv, TypeOK
  <2>2. wanted'[t] = wanted[t] /\ holding'[t] = holding[t]
    BY <1>12, Zenon DEF Destroy, wanted, holding, Acquiring, IInv, TypeOK
  <2> QED
    BY <2>1, <2>2, WantedStays, HoldingStays, Zenon
<1>13. CASE UNCHANGED vars
  BY <1>13, Zenon DEF vars, wanted, holding, Acquiring
<1> QED
  BY <1>1, <1>2, <1>3, <1>4, <1>5, <1>6, <1>7, <1>8, <1>9, <1>10, <1>11,
     <1>12, <1>13, Zenon DEF Next, Step

\* The coordinator implements ScopeLease: what the command path relies on.
THEOREM Refinement == Spec => ImplementsLease
<1>1. Init => Lease!LeaseInit
  BY Zenon DEF Init, Lease!LeaseInit, Acquiring
<1>2. IInv /\ IInv' /\ [Next]_vars => [Lease!LeaseNext]_(Lease!leaseVars)
  BY RefinementStep, Zenon DEF Lease!leaseVars, wanted, holding
<1> QED
  BY <1>1, <1>2, InitIInv, StepIInv, PTL DEF Spec, ImplementsLease, Lease!LeaseSpec
=============================================================================
