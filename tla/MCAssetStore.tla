----------------------------- MODULE MCAssetStore -----------------------------
(* Model checking of AssetStore.                                           *)
EXTENDS AssetStore, TLC

\* Bounds: no reads while the store is being closed; while something may be
\* undone by a loss of power, or after a crash, one ingest at a time, beside
\* what cancelled ones left behind, and no closing; after the last crash only
\* reads.
SmallEnough ==
  LET ingests == Cardinality({t \in Ingesters : at[t] # "idle"})
      closes == \E k \in Closers : closing[k] # "idle"
      behind == disk # [rows |-> rows, blobs |-> blobs]
  IN  /\ closes => \A t \in Readers : at[t] = "idle"
      /\ behind \/ crashes > 0 => ingests <= 1 /\ ~closes
      /\ crashes = MaxCrashes => ingests = 0

Symmetry == Permutations(Ingesters)

\* Nothing depends on disk once power cannot be lost any more.
View ==
  <<rows, blobs, IF crashes < MaxCrashes THEN <<disk>> ELSE <<>>, late, lock,
    at, want, phase, crashes, history, callVars>>
=============================================================================
