------------------------------- MODULE Delivery -------------------------------
(***************************************************************************)
(* Asset delivery: grants for assets, issued to queries and validated for  *)
(* HTTP requests by a shared issuer, and HTTP connections that answer a    *)
(* range of an asset's bytes chunk by chunk under a limit of downloads.    *)
(*                                                                         *)
(* The clock is read before the issuer's lock is taken, so a call may hold *)
(* the lock with a time that others have passed; and the clock may be set  *)
(* back.  Tokens are model values: their text is checked to be the         *)
(* canonical one of 32 bytes before it is looked up.  What comes before    *)
(* the bearer token (origin, method, path) is one refusal.                 *)
(***************************************************************************)
EXTENDS Integers, Sequences, FiniteSets

CONSTANTS
  Issuers,        \* queries for access
  Connections,    \* HTTP connections
  Requests,       \* Requests[c]: the requests of connection c
  Length,         \* Length[a]: the byte length of asset a
  Ttl, MaxGrants, MaxDownloads, ChunkSize,
  MaxU64,         \* stands for 2^64 - 1, the largest number that parses
  MaxStamp,       \* the last time a Timestamp can hold
  MaxTime, MaxGrant, MaxSetBacks
                  \* bounds: of the clock, of grants ever issued, of how often
                  \* the clock is set back

ASSUME DeliveryAssumption ==
  /\ {Ttl, MaxGrants, MaxDownloads, ChunkSize} \subseteq Nat \ {0}
  /\ {MaxStamp, MaxTime, MaxGrant, MaxSetBacks} \subseteq Nat
  /\ MaxU64 \in Nat
  /\ IsFiniteSet(Connections)
  /\ Length \in [DOMAIN Length -> Nat]

VARIABLES
  now,            \* the clock
  latest,         \* history: the latest time it has shown
  setBacks,       \* how often it was set back
  entries,        \* the registry: tokens whose grants it holds
  issued,         \* token -> grant; tokens are 1, 2, ... as they are issued
  overdue,        \* history: tokens that a call has found expired
  query,          \* issuer -> the time it has read, -1 when it has none
  pc,             \* connection -> where handle_connection is
  req,            \* connection -> its request
  time,           \* connection -> the time validate has read for it
  reply,          \* connection -> status, and first byte and length of a body
  sent,           \* connection -> the bytes sent, by their offsets
  permits         \* free download permits

clock == <<now, latest, setBacks>>
grants == <<entries, issued, overdue>>
conn == <<pc, req, time, reply, sent>>
vars == <<clock, grants, query, conn, permits>>

Assets == DOMAIN Length
Nothing == -1
Empty == -1           \* a bound of a range that is left out

RangeHeader ==
  [kind: {"none", "single", "malformed", "multiple"},
   first: Nat \cup {Empty}, last: Nat \cup {Empty}]

HttpRequest ==
  [method: {"none", "GET", "HEAD"}, asset: Assets \cup {"none"}, token: Int,
   range: RangeHeader]

ASSUME RequestsAssumption == Requests \in [Connections -> SUBSET HttpRequest]

NoRequest ==
  [method |-> "none", asset |-> "none", token |-> Nothing,
   range |-> [kind |-> "none", first |-> Empty, last |-> Empty]]

NoReply == [status |-> 0, start |-> 0, length |-> 0]

Init ==
  /\ now = 0 /\ latest = 0 /\ setBacks = 0
  /\ entries = {} /\ issued = <<>> /\ overdue = {}
  /\ query = [i \in Issuers |-> Nothing]
  /\ pc = [c \in Connections |-> "accepted"]
  /\ req = [c \in Connections |-> NoRequest]
  /\ time = [c \in Connections |-> Nothing]
  /\ reply = [c \in Connections |-> NoReply]
  /\ sent = [c \in Connections |-> <<>>]
  /\ permits = MaxDownloads

Tick ==
  /\ now < MaxTime
  /\ now' = now + 1
  /\ latest' = IF now < latest THEN latest ELSE now + 1
  /\ UNCHANGED <<setBacks, grants, query, conn, permits>>

\* The wall clock is set back.
SetBack ==
  /\ setBacks < MaxSetBacks
  /\ setBacks' = setBacks + 1
  /\ now' \in {n \in 0..MaxTime : n < now}
  /\ UNCHANGED <<latest, grants, query, conn, permits>>

-----------------------------------------------------------------------------
(* AssetAccessGrantIssuer.  A grant never changes, so that the registry is *)
(* the set of tokens it holds.                                             *)

\* The query has been authorized, and issue reads the clock.
ReadTime(i) ==
  /\ query[i] = Nothing
  /\ query' = [query EXCEPT ![i] = now]
  /\ UNCHANGED <<clock, grants, conn, permits>>

\* Mutant: a grant is dropped in its last second.
LiveTooShort(t0) == {t \in entries : issued[t].expires > t0 + 1}

\* retain: what has not expired at the time that was read.
Live(t0) == {t \in entries : issued[t].expires > t0}

Expired(t0) == {t \in entries : issued[t].expires <= t0}

\* issue, under the lock: expired grants go, then there is room and randomness
\* for a token or not.
Issue(i) ==
  /\ query[i] # Nothing /\ query[i] + Ttl <= MaxStamp
  /\ overdue' = overdue \cup Expired(query[i])
  /\ \/ /\ entries' = Live(query[i])
        /\ UNCHANGED issued
     \/ /\ Cardinality(Live(query[i])) < MaxGrants /\ Len(issued) < MaxGrant
        /\ entries' = Live(query[i]) \cup {Len(issued) + 1}
        /\ \E a \in Assets :
             issued' = Append(issued, [asset |-> a, expires |-> query[i] + Ttl])
  /\ query' = [query EXCEPT ![i] = Nothing]
  /\ UNCHANGED <<clock, conn, permits>>

\* The time of expiry is none: refused before the lock.
IssueOverflows(i) ==
  /\ query[i] # Nothing /\ query[i] + Ttl > MaxStamp
  /\ query' = [query EXCEPT ![i] = Nothing]
  /\ UNCHANGED <<clock, grants, conn, permits>>

-----------------------------------------------------------------------------
(* parse_range.  A range is [kind, first, last] with kind single, malformed *)
(* or multiple; numbers above MaxU64 do not parse.                          *)

Resolved(start, end) ==
  IF start > end THEN [is |-> "unsatisfiable"]
  ELSE [is |-> "range", start |-> start, end |-> end]

ParseSuffix(n, total) ==
  IF n = Empty \/ n > MaxU64 THEN [is |-> "malformed"]
  ELSE IF n = 0 \/ total = 0 THEN [is |-> "unsatisfiable"]
  ELSE Resolved(IF n > total THEN 0 ELSE total - n, total - 1)

\* Mutant: the last byte is not limited to the asset.
ParseRangeUnclamped(r, total) ==
  IF r.kind # "single" THEN [is |-> r.kind]
  ELSE IF r.first = Empty THEN ParseSuffix(r.last, total)
  ELSE IF r.first > MaxU64 THEN [is |-> "malformed"]
  ELSE IF total = 0 \/ r.first >= total THEN [is |-> "unsatisfiable"]
  ELSE IF r.last = Empty THEN Resolved(r.first, total - 1)
  ELSE IF r.last > MaxU64 THEN [is |-> "malformed"]
  ELSE Resolved(r.first, r.last)

ParseRange(r, total) ==
  IF r.kind # "single" THEN [is |-> r.kind]
  ELSE IF r.first = Empty THEN ParseSuffix(r.last, total)
  ELSE IF r.first > MaxU64 THEN [is |-> "malformed"]
  ELSE IF total = 0 \/ r.first >= total THEN [is |-> "unsatisfiable"]
  ELSE IF r.last = Empty THEN Resolved(r.first, total - 1)
  ELSE IF r.last > MaxU64 THEN [is |-> "malformed"]
  ELSE Resolved(r.first, IF r.last < total - 1 THEN r.last ELSE total - 1)

-----------------------------------------------------------------------------
(* handle_connection                                                       *)

Go(c, step) == pc' = [pc EXCEPT ![c] = step]

\* A response without a body, and the connection is closed and forgotten; the
\* request of a 416 is kept for the properties.
Answer(c, status) ==
  /\ Go(c, "closed")
  /\ req' = IF status = 416 THEN req ELSE [req EXCEPT ![c] = NoRequest]
  /\ time' = [time EXCEPT ![c] = Nothing]
  /\ reply' = [reply EXCEPT ![c] = [NoReply EXCEPT !.status = status]]
  /\ sent' = [sent EXCEPT ![c] = <<>>]

\* The request is read and all that is checked before the token; or not.
\* validate reads the clock.
Request(c) ==
  /\ pc[c] = "accepted"
  /\ \/ /\ Go(c, "validating")
        /\ \E r \in Requests[c] : req' = [req EXCEPT ![c] = r]
        /\ time' = [time EXCEPT ![c] = now]
        /\ UNCHANGED <<reply, sent>>
     \/ Answer(c, 400)
  /\ UNCHANGED <<clock, grants, query, permits>>

\* What validate finds under the lock.
Known(c) == {req[c].token} \cap entries
Late(c) == {t \in Known(c) : issued[t].expires <= time[c]}

\* Mutant: the asset of the grant is not compared.
ValidateAnyAsset(c) ==
  /\ pc[c] = "validating"
  /\ entries' = entries \ Late(c)
  /\ overdue' = overdue \cup Late(c)
  /\ IF Known(c) \ Late(c) # {}
     THEN Go(c, "looking") /\ UNCHANGED <<req, time, reply, sent>>
     ELSE Answer(c, 401)
  /\ UNCHANGED <<clock, issued, query, permits>>

\* Mutant: an expired grant is refused and kept.
ValidateKeeps(c) ==
  /\ pc[c] = "validating"
  /\ overdue' = overdue \cup Late(c)
  /\ IF \E t \in Known(c) \ Late(c) : issued[t].asset = req[c].asset
     THEN Go(c, "looking") /\ UNCHANGED <<req, time, reply, sent>>
     ELSE Answer(c, 401)
  /\ UNCHANGED <<clock, entries, issued, query, permits>>

\* validate, under the lock: an expired grant is removed.
Validate(c) ==
  /\ pc[c] = "validating"
  /\ entries' = entries \ Late(c)
  /\ overdue' = overdue \cup Late(c)
  /\ IF \E t \in Known(c) \ Late(c) : issued[t].asset = req[c].asset
     THEN Go(c, "looking") /\ UNCHANGED <<req, time, reply, sent>>
     ELSE Answer(c, 401)
  /\ UNCHANGED <<clock, issued, query, permits>>

\* Sends the headers, with a permit where there is a body.
Serve(c, status, start, length) ==
  IF length = 0
  THEN Answer(c, status) /\ UNCHANGED permits
  ELSE IF permits = 0
  THEN Answer(c, 503) /\ UNCHANGED permits
  ELSE /\ permits' = permits - 1
       /\ Go(c, "streaming")
       /\ reply' = [reply EXCEPT ![c] =
            [status |-> status, start |-> start, length |-> length]]
       /\ UNCHANGED <<req, time, sent>>

\* The asset is looked up, which may fail, and the range resolved.
Look(c) ==
  /\ pc[c] = "looking"
  /\ LET r == req[c]
         total == Length[r.asset]
         range == ParseRange(r.range, total)
     IN  \/ Answer(c, 503) /\ UNCHANGED permits
         \/ IF r.method = "HEAD" THEN Answer(c, 200) /\ UNCHANGED permits
            ELSE IF r.range.kind = "none" THEN Serve(c, 200, 0, total)
            ELSE IF range.is = "malformed" THEN Answer(c, 400) /\ UNCHANGED permits
            ELSE IF range.is # "range" THEN Answer(c, 416) /\ UNCHANGED permits
            ELSE Serve(c, 206, range.start, range.end - range.start + 1)
  /\ UNCHANGED <<clock, grants, query>>

\* Where a connection holds a permit.
Downloading == {"streaming", "reading"}

\* The connection ends and with it its permit.
End(c) == Answer(c, 0) /\ permits' = permits + 1

\* Mutant: a connection that is cut keeps its permit.
CutKeepsPermit(c) ==
  /\ pc[c] \in Downloading
  /\ Answer(c, 0)
  /\ UNCHANGED <<clock, grants, query, permits>>

\* A header or a chunk is not written in time, the reader fails, or the
\* server cancels its connections.
Cut(c) ==
  /\ pc[c] \in Downloading
  /\ End(c)
  /\ UNCHANGED <<clock, grants, query>>

\* Mutant: an empty chunk is taken.
AcceptedEmpty(c, offset, n) ==
  /\ offset = reply[c].start + Len(sent[c])
  /\ n <= reply[c].length - Len(sent[c]) /\ n <= ChunkSize

\* What the reader may return for the rest of a body: at most the chunk asked
\* for; n = 0 and a foreign offset are answers the loop refuses.
Accepted(c, offset, n) ==
  /\ offset = reply[c].start + Len(sent[c])
  /\ n > 0 /\ n <= reply[c].length - Len(sent[c]) /\ n <= ChunkSize

\* The next chunk is asked for ...
Ask(c) ==
  /\ pc[c] = "streaming"
  /\ Go(c, "reading")
  /\ UNCHANGED <<clock, grants, query, req, time, reply, sent, permits>>

\* ... checked and written; the last one ends the response ...
Stream(c) ==
  /\ pc[c] = "reading"
  /\ \E n \in 0..ChunkSize + 1 :
       LET offset == reply[c].start + Len(sent[c])
       IN  /\ Accepted(c, offset, n)
           /\ sent' = [sent EXCEPT ![c] = @ \o [j \in 1..n |-> offset + j - 1]]
           /\ IF Len(sent[c]) + n = reply[c].length
              THEN Go(c, "complete") /\ permits' = permits + 1
              ELSE Go(c, "streaming") /\ UNCHANGED permits
  /\ UNCHANGED <<clock, grants, query, req, time, reply>>

\* ... or refused.
Refuse(c) ==
  /\ pc[c] = "reading"
  /\ \E offset \in {reply[c].start, reply[c].start + Len(sent[c])},
        n \in 0..ChunkSize + 1 : ~Accepted(c, offset, n)
  /\ End(c)
  /\ UNCHANGED <<clock, grants, query>>

Step(c) == Request(c) \/ Validate(c) \/ Look(c) \/ Cut(c) \/ Ask(c) \/ Stream(c)
           \/ Refuse(c)

Next ==
  \/ Tick \/ SetBack
  \/ \E i \in Issuers : ReadTime(i) \/ Issue(i) \/ IssueOverflows(i)
  \/ \E c \in Connections : Step(c)

\* What a connection does without waiting for a store: the request and every
\* write have a timeout, get_asset and read_range have none.
OwnStep(c) == Request(c) \/ Validate(c) \/ Ask(c)

\* A connection's task is polled; no store is bound to answer it.
Spec == Init /\ [][Next]_vars /\ \A c \in Connections : WF_vars(OwnStep(c))

-----------------------------------------------------------------------------
\* The bytes a range asks for, of an asset of the given length.
AskedBytes(r, total) ==
  {n \in 0..total - 1 :
     IF r.first = Empty THEN n >= total - r.last
     ELSE n >= r.first /\ (r.last = Empty \/ n <= r.last)}

Body(c) == {sent[c][j] : j \in DOMAIN sent[c]}

\* What values the variables take.
DeliveryTypeOK ==
  /\ {now, latest} \subseteq 0..MaxTime /\ permits \in 0..MaxDownloads
  /\ entries \subseteq DOMAIN issued /\ overdue \subseteq DOMAIN issued
  /\ Cardinality(entries) <= MaxGrants
  /\ \A c \in Connections :
       pc[c] \in {"accepted", "validating", "looking", "streaming",
                       "reading", "closed", "complete"}

\* A token is good until it expires: no call of issue or validate drops a
\* grant that is still live, whatever time it has read before the lock; a
\* clock that is set back shortens no grant.  (That grants past their time are
\* dropped is ExpiredIsFinal's part, and only where a call has met them.)
GrantsLast ==
  \A t \in DOMAIN issued : issued[t].expires > latest => t \in entries

\* What is looked up and sent belongs to the asset of a grant that had not
\* expired at the time read for the request.
ServedUnderGrant ==
  \A c \in Connections : pc[c] \in Downloading \cup {"looking", "complete"} =>
    /\ req[c].token \in DOMAIN issued
    /\ LET g == issued[req[c].token]
       IN  g.asset = req[c].asset /\ g.expires > time[c]

\* A token that one call has found expired is never accepted again, though
\* another has read an earlier time, or the clock is set back.
ExpiredIsFinal ==
  [][\A c \in Connections :
       pc[c] = "validating" /\ pc'[c] = "looking"
         => req[c].token \notin overdue]_vars

\* The body is the bytes that were asked for, in order and none twice; all of
\* them when the response completes, a prefix when it is cut; and 416 is
\* the answer only when a range asks for no byte of the asset.
BodyIsTheRange ==
  \A c \in Connections :
    LET total == Length[req[c].asset]
        asked == IF reply[c].status = 206 THEN AskedBytes(req[c].range, total)
                                          ELSE 0..total - 1
    IN  /\ pc[c] \in Downloading \cup {"complete"} =>
             /\ Body(c) \subseteq asked /\ reply[c].length = Cardinality(asked)
             /\ \A j \in DOMAIN sent[c] :
                  Cardinality({n \in asked : n < sent[c][j]}) = j - 1
             /\ pc[c] = "complete" => Body(c) = asked
        /\ reply[c].status = 416 /\ req[c].range.kind = "single" =>
             AskedBytes(req[c].range, total) = {}

\* Every permit is free or belongs to a connection that is streaming.
PermitsComeBack ==
  permits + Cardinality({c \in Connections : pc[c] \in Downloading})
    = MaxDownloads

\* Every request is answered or cut, whatever chunks the reader gives, empty
\* ones included, unless one call of the catalog or of the reader never
\* returns: it holds the request, and its permit, until the server cancels it.
EveryRequestEnds ==
  \A c \in Connections :
    \/ <>(pc[c] \in {"closed", "complete"})
    \/ <>[](pc[c] = "looking") \/ <>[](pc[c] = "reading")
=============================================================================
