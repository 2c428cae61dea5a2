----------------------------- MODULE MCStoreWorker -----------------------------
(***************************************************************************)
(* The command worker by itself, with commands whose effect does not       *)
(* matter: how calls, close(), cancellation and the destructor of the      *)
(* handle interleave with the worker thread.  A behaviour is one of a      *)
(* store whose every close() joins the thread (the catalog, the asset      *)
(* store), or of one whose second close() returns at once (the event       *)
(* store).                                                                 *)
(***************************************************************************)
EXTENDS StoreWorker

VARIABLE joins   \* every close() of this store joins

vars == <<workerVars, joins>>

Done == [tag |-> "done"]
MCCommands == {"command"}
MCAnswers == {Done}

Init == WorkerInit /\ joins \in BOOLEAN

Step ==
  \/ \E c \in Callers :
       \/ \E command \in Commands : Call(c, command)
       \/ CallerStep(c)
       \/ Cancel(c)
  \/ \E a \in Answers : Take(a)
  \/ ThreadEnding
  \/ \E k \in Closers : CloseSwap(k, joins) \/ CloserStep(k)
  \/ DropHandle

Next == Step /\ UNCHANGED joins

\* The executor runs every ready task and the thread is scheduled; nobody is
\* bound to call, to cancel or to close.
Fairness ==
  /\ \A c \in Callers : WF_vars(CallerStep(c) /\ UNCHANGED joins)
  /\ WF_vars(((\E a \in Answers : Take(a)) \/ ThreadEnding) /\ UNCHANGED joins)
  /\ \A k \in Closers : WF_vars(CloserStep(k) /\ UNCHANGED joins)

Spec == Init /\ [][Next]_vars /\ Fairness

-----------------------------------------------------------------------------
\* No close() of any of the three stores leaves the thread executing commands
\* behind it, save where another close() is still waiting for the thread.
CloseReturnsQuiet == ClosedIsQuiet(joins)

\* Every call returns: a command that is refused, executed, or still queued
\* when the thread goes away, ends the call that waits for it.  Every close()
\* returns, the first, which may find the queue full, and those that race it.
EveryoneReturns ==
  /\ \A c \in Callers : pc[c] = "called" ~> pc[c] = "idle"
  /\ \A k \in Closers : closing[k] # "idle" ~> closing[k] = "done"

\* What the rustdoc of close() promises: accepted commands are drained, so no
\* caller whose command was queued is told that its response was lost.
AcceptedCommandsDrained ==
  \A c \in Callers : answer[c] # <<Lost>>
=============================================================================
