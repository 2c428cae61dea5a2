------------------------------- MODULE EventLog -------------------------------
(***************************************************************************)
(* What the event store promises: an append-only log on which each call    *)
(* takes effect at once, between its invocation and its return.  A call    *)
(* may be refused without effect.  A caller may go away; its call may then *)
(* still take effect later.  A crash forgets the calls and keeps the log.  *)
(*                                                                         *)
(* Positions count from 0: log[n + 1] is the event at position n.          *)
(***************************************************************************)
EXTENDS Integers, Sequences, FiniteSets

CONSTANTS Callers, Commands

VARIABLES
  log,        \* the events, in order of acceptance
  epoch,      \* which opening of the log this is
  pending,    \* per caller: <<command>> of its call, or <<>>
  answer,     \* per caller: <<answer>> of its call, or <<>>
  orphans     \* commands whose callers went away

logVars == <<log, epoch, pending, answer, orphans>>

Positions == 0 .. Len(log) - 1

IsRow(a, n) == /\ a.tag = "ok" /\ DOMAIN a.rows = {n}
               /\ a.rows[n] = log'[n + 1]
               /\ a.token = <<[epoch |-> epoch, position |-> n + 1]>>

\* An append is answered with the place of its event, old or new, or with a
\* conflict when another event has its id.
AppendAnswered(event, a) ==
  IF \E n \in Positions : log[n + 1].id = event.id /\ log[n + 1] # event
  THEN a.tag = "conflict"
  ELSE \E n \in 0 .. Len(log') - 1 : log'[n + 1] = event /\ IsRow(a, n)

GetAnswered(id, a) ==
  \/ \E n \in Positions : log[n + 1].id = id /\ IsRow(a, n)
  \/ /\ \A n \in Positions : log[n + 1].id # id
     /\ a.tag = "ok" /\ DOMAIN a.rows = {} /\ a.token = <<>>

CaptureAnswered(a) ==
  /\ a.tag = "ok" /\ DOMAIN a.rows = {}
  /\ a.token = <<[epoch |-> epoch, position |-> Len(log)]>>

\* A page: the first matching events of the window, in order and without a
\* gap, at most limit of them, and a cursor exactly if more are left.
IsPage(query, start, end, a) ==
  LET hit(n) == start <= n /\ n < end /\ log[n + 1].topic \in query.topics
      missed == {n \in Positions : hit(n)} \ DOMAIN a.rows
  IN /\ DOMAIN a.rows \subseteq Positions
     /\ \A n \in DOMAIN a.rows : hit(n) /\ a.rows[n] = log[n + 1]
     /\ \A n \in DOMAIN a.rows, m \in missed : n < m
     /\ IF missed = {}
        THEN Cardinality(DOMAIN a.rows) <= query.limit /\ a.token = <<>>
        ELSE /\ Cardinality(DOMAIN a.rows) = query.limit
             /\ a.token[1].epoch = epoch
             /\ a.token[1].position - 1 \in DOMAIN a.rows
             /\ \A n \in DOMAIN a.rows : n < a.token[1].position

QueryAnswered(query, a) ==
  LET validBound == query.bound = <<>>
        \/ (query.bound[1].epoch = epoch /\ query.bound[1].position <= Len(log))
      end == IF query.bound = <<>> THEN Len(log) ELSE query.bound[1].position
      validCursor == query.after = <<>>
        \/ (query.after[1].epoch = epoch /\ query.after[1].position \in 1 .. end)
      start == IF query.after = <<>> THEN 0 ELSE query.after[1].position
  IN CASE ~validBound -> a.tag = "invalid_checkpoint"
       [] validBound /\ ~validCursor -> a.tag = "invalid_cursor"
       [] OTHER -> a.tag = "ok" /\ IsPage(query, start, end, a)

Answered(command, a) ==
  CASE command.kind = "append"  -> AppendAnswered(command.event, a)
    [] command.kind = "get"     -> GetAnswered(command.id, a)
    [] command.kind = "capture" -> CaptureAnswered(a)
    [] command.kind = "query"   -> QueryAnswered(command.query, a)

\* Only the append of an event with a new id changes the log.
Effect(command) ==
  log' = IF /\ command.kind = "append"
            /\ \A n \in Positions : log[n + 1].id # command.event.id
         THEN Append(log, command.event) ELSE log

-----------------------------------------------------------------------------
Init ==
  /\ log = <<>> /\ epoch = 1
  /\ pending = [c \in Callers |-> <<>>]
  /\ answer = [c \in Callers |-> <<>>]
  /\ orphans = {}

Invoke(c) ==
  /\ pending[c] = <<>>
  /\ \E command \in Commands : pending' = [pending EXCEPT ![c] = <<command>>]
  /\ UNCHANGED <<log, epoch, answer, orphans>>

Waiting(c) == pending[c] # <<>> /\ answer[c] = <<>>

Perform(c) ==
  /\ Waiting(c)
  /\ answer'[c] # <<>>
  /\ Effect(pending[c][1])
  /\ Answered(pending[c][1], answer'[c][1])
  /\ answer' = [answer EXCEPT ![c] = answer'[c]]
  /\ UNCHANGED <<epoch, pending, orphans>>

Refuse(c) ==
  /\ Waiting(c)
  /\ answer'[c] # <<>>
  /\ answer'[c][1].tag \in {"closed", "unavailable", "full", "lost", "failure"}
  /\ answer' = [answer EXCEPT ![c] = answer'[c]]
  /\ UNCHANGED <<log, epoch, pending, orphans>>

Return(c) ==
  /\ answer[c] # <<>>
  /\ pending' = [pending EXCEPT ![c] = <<>>]
  /\ answer' = [answer EXCEPT ![c] = <<>>]
  /\ UNCHANGED <<log, epoch, orphans>>

Abandon(c) ==
  /\ Waiting(c)
  /\ pending' = [pending EXCEPT ![c] = <<>>]
  /\ orphans' = orphans \cup {pending[c][1]}
  /\ UNCHANGED <<log, epoch, answer>>

\* An abandoned call takes effect, or none; others like it may be left.
EndOrphan(command) ==
  /\ Effect(command) \/ UNCHANGED log
  /\ orphans' \in {orphans, orphans \ {command}}
  /\ UNCHANGED <<epoch, pending, answer>>

Crash ==
  /\ pending' = [c \in Callers |-> <<>>]
  /\ answer' = [c \in Callers |-> <<>>]
  /\ orphans' = {}
  /\ UNCHANGED <<log, epoch>>

Reopen ==
  /\ epoch' = epoch + 1
  /\ UNCHANGED <<log, pending, answer, orphans>>

Next ==
  \/ \E c \in Callers :
       Invoke(c) \/ Perform(c) \/ Refuse(c) \/ Return(c) \/ Abandon(c)
  \/ \E command \in orphans : EndOrphan(command)
  \/ Crash
  \/ Reopen

Spec == Init /\ [][Next]_logVars

\* A loss of power is a crash that may also take the newest events away.
LosePower ==
  /\ \E n \in 0 .. Len(log) : log' = SubSeq(log, 1, n)
  /\ pending' = [c \in Callers |-> <<>>]
  /\ answer' = [c \in Callers |-> <<>>]
  /\ orphans' = {}
  /\ UNCHANGED epoch

LossySpec == Init /\ [][Next \/ LosePower]_logVars
=============================================================================
