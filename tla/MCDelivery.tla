------------------------------ MODULE MCDelivery ------------------------------
(* Model checking of Delivery: one connection tries every range of numbers  *)
(* up to one beyond the largest that parses, another competes with it.      *)
EXTENDS Delivery

Lengths == [a |-> 2, b |-> 0]

Single(first, last) == [kind |-> "single", first |-> first, last |-> last]
Other(kind) == [kind |-> kind, first |-> Empty, last |-> Empty]

Ranges == {Single(f, l) : f, l \in -1..MaxU64 + 1}
            \cup {Other(k) : k \in {"none", "malformed", "multiple"}}

Get(a, t, r) == [method |-> "GET", asset |-> a, token |-> t, range |-> r]

AllRequests ==
  [c1 |-> {Get("a", 1, r) : r \in Ranges} \cup {Get("b", 1, Single(0, 0)),
            Get("b", 1, Single(Empty, 1)), Get("b", 1, Other("none")),
            [Get("a", 1, Other("none")) EXCEPT !.method = "HEAD"]},
   c2 |-> {Get("a", t, Other("none")) : t \in 1..2}]

\* Bound: ranges are tried with a clock that is not set back.
RangesOrSetBacks == setBacks = 0 \/ req["c1"].range.kind # "single"
=============================================================================
