------------------------------ MODULE ScopeLease ------------------------------
(***************************************************************************)
(* What the command path relies on when it acquires an ExecutionScope: a   *)
(* task asks for a scope, is granted it only while nobody else holds it,   *)
(* and may give up before it is granted.                                   *)
(***************************************************************************)
CONSTANTS Tasks, Scopes, NoScope

VARIABLES want, hold   \* per task: the scope it waits for, the scope it holds

leaseVars == <<want, hold>>

LeaseInit ==
  /\ want = [t \in Tasks |-> NoScope]
  /\ hold = [t \in Tasks |-> NoScope]

FreeScope(s) == \A t \in Tasks : hold[t] # s

Request(t, s) ==
  /\ want[t] = NoScope /\ hold[t] = NoScope
  /\ want' = [want EXCEPT ![t] = s]
  /\ UNCHANGED hold

Grant(t) ==
  /\ want[t] # NoScope /\ FreeScope(want[t])
  /\ hold' = [hold EXCEPT ![t] = want[t]]
  /\ want' = [want EXCEPT ![t] = NoScope]

Withdraw(t) ==
  /\ want[t] # NoScope
  /\ want' = [want EXCEPT ![t] = NoScope]
  /\ UNCHANGED hold

Release(t) ==
  /\ hold[t] # NoScope
  /\ hold' = [hold EXCEPT ![t] = NoScope]
  /\ UNCHANGED want

LeaseNext ==
  \E t \in Tasks :
    \/ \E s \in Scopes : Request(t, s)
    \/ Grant(t) \/ Withdraw(t) \/ Release(t)

LeaseSpec == LeaseInit /\ [][LeaseNext]_leaseVars
=============================================================================
