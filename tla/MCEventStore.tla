----------------------------- MODULE MCEventStore -----------------------------
(* Model checking of EventStore.                                           *)
EXTENDS EventStore, TLC

CONSTANTS i1, i2, a, b

Event(id, topic) == [id |-> id, topic |-> topic]
AppendOf(event) == [kind |-> "append", event |-> event]
GetOf(id) == [kind |-> "get", id |-> id]
Capture == [kind |-> "capture"]

NoToken == <<>>
Token(e, p) == <<[epoch |-> e, position |-> p]>>
QueryOf(topics, bound, after, limit) ==
  [kind |-> "query", query |-> [topics |-> topics, bound |-> bound,
                                after |-> after, limit |-> limit]]

\* Two events, and a second one with the id of the first.
Appends ==
  {AppendOf(Event(i1, a)), AppendOf(Event(i1, b)), AppendOf(Event(i2, a))}

\* Appends, and every way to look at what is stored, with tokens of
\* this epoch, of another store's, and beyond what is stored.
Looks ==
  {AppendOf(Event(i1, a)), AppendOf(Event(i2, b)), GetOf(i1), Capture,
   QueryOf({b}, NoToken, NoToken, 1), QueryOf({a, b}, Token(1, 2), NoToken, 2)}
    \cup {QueryOf({a, b}, bound, after, 1) :
            bound \in {NoToken, Token(0, 1)} \cup {Token(1, p) : p \in 1 .. 3},
            after \in {NoToken, Token(0, 1)} \cup {Token(1, p) : p \in 0 .. 2}}

Symmetry == Permutations(Callers)
=============================================================================
