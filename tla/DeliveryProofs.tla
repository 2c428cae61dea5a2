---------------------------- MODULE DeliveryProofs ----------------------------
(***************************************************************************)
(* For any number of queries, connections and grants, and any clock: a     *)
(* grant lasts until it expires, what is served is served under a grant,   *)
(* an expired token stays refused, and download permits come back.         *)
(***************************************************************************)
EXTENDS Delivery, FiniteSetTheorems, SequenceTheorems, TLAPS

Grants == [asset: Assets, expires: Int]

Steps == {"accepted", "validating", "looking", "streaming", "reading",
          "closed", "complete"}

\* The types of the connections' state that the proofs need.
ConnInv ==
  /\ pc \in [Connections -> Steps]
  /\ req \in [Connections -> HttpRequest]
  /\ time \in [Connections -> Int]

\* The inductive part: types; the times that calls hold are none the clock
\* has not shown; and the registry holds no token that a call found expired.
GrantInv ==
  /\ now \in Nat /\ latest \in Nat /\ now <= latest
  /\ issued \in Seq(Grants)
  /\ entries \subseteq DOMAIN issued /\ overdue \subseteq DOMAIN issued
  /\ entries \cap overdue = {}
  /\ query \in [Issuers -> Int] /\ \A i \in Issuers : query[i] <= latest
  /\ \A c \in Connections : time[c] <= latest

Inv == ConnInv /\ GrantInv /\ GrantsLast /\ ServedUnderGrant

-----------------------------------------------------------------------------
\* What a step of a connection does to the part of its state that the
\* invariant speaks of; the others are left alone.
ConnStepOK(c) ==
  /\ ConnInv'
  /\ \A d \in Connections \ {c} :
       pc'[d] = pc[d] /\ req'[d] = req[d] /\ time'[d] = time[d]
  /\ \/ pc'[c] = "closed" /\ time'[c] = Nothing
     \/ pc[c] = "accepted" /\ pc'[c] = "validating" /\ time'[c] = now
     \/ /\ time'[c] = time[c] /\ req'[c] = req[c]
        /\ \/ pc[c] = "validating" /\ pc'[c] = "looking"
           \/ pc[c] = "looking" /\ pc'[c] = "streaming"
           \/ /\ pc[c] \in {"streaming", "reading"}
              /\ pc'[c] \in {"streaming", "reading", "complete"}

\* A connection that is answered is closed.
LEMMA AnswerStep ==
  ASSUME ConnInv, NEW c \in Connections, NEW status, Answer(c, status)
  PROVE  ConnStepOK(c) /\ pc'[c] = "closed"
<1>1. NoRequest \in HttpRequest
  BY DEF NoRequest, HttpRequest, RangeHeader, Nothing, Empty
<1> QED
  BY <1>1 DEF Answer, Go, ConnInv, ConnStepOK, Steps, Nothing

\* Looking the asset up ends in an answer, or in a download with a permit.
LEMMA LookOutcome ==
  ASSUME NEW c \in Connections, Look(c)
  PROVE  \/ \E status \in Int : Answer(c, status) /\ permits' = permits
         \/ /\ Go(c, "streaming") /\ permits' = permits - 1
            /\ req' = req /\ time' = time
<1> DEFINE Outcome ==
      \/ \E status \in Int : Answer(c, status) /\ permits' = permits
      \/ /\ Go(c, "streaming") /\ permits' = permits - 1
         /\ req' = req /\ time' = time
<1>1. ASSUME NEW status \in Int, Answer(c, status), UNCHANGED permits
      PROVE  Outcome
  BY <1>1, Zenon
<1>2. ASSUME NEW status \in Int, NEW start, NEW length,
             Serve(c, status, start, length)
      PROVE  Outcome
  <2>1. CASE length = 0
    BY <1>1, <1>2, <2>1, Zenon DEF Serve
  <2>2. CASE length # 0 /\ permits = 0
    <3>1. Answer(c, 503) /\ UNCHANGED permits
      BY <1>2, <2>2, Zenon DEF Serve
    <3> QED
      BY <3>1
  <2>3. CASE length # 0 /\ permits # 0
    BY <1>2, <2>3, Zenon DEF Serve
  <2> QED
    BY <2>1, <2>2, <2>3, Zenon
<1>3. {503, 200, 400, 416, 206} \subseteq Int
  OBVIOUS
<1> HIDE DEF Outcome
<1>4. Outcome
  BY <1>1, <1>2, <1>3 DEF Look
<1> QED
  BY <1>4, Zenon DEF Outcome

\* A step of one connection keeps what ConnInv says of that connection.
LEMMA StepOfConnection ==
  ASSUME ConnInv, now \in Nat, NEW c \in Connections, Step(c)
  PROVE  ConnStepOK(c)
<1>1. CASE Request(c)
  <2>1. Requests[c] \subseteq HttpRequest
    BY RequestsAssumption, Zenon
  <2> QED
    BY <1>1, <2>1, AnswerStep DEF Request, Go, ConnInv, ConnStepOK, Steps
<1>2. CASE Validate(c)
  BY <1>2, AnswerStep DEF Validate, Go, ConnInv, ConnStepOK, Steps
<1>3. CASE Look(c)
  <2>1. pc[c] = "looking"
    BY <1>3, Zenon DEF Look
  <2>2. CASE Go(c, "streaming") /\ req' = req /\ time' = time
    BY <2>1, <2>2, Zenon DEF Go, ConnInv, ConnStepOK, Steps
  <2> QED
    BY <1>3, <2>2, LookOutcome, AnswerStep, Zenon
<1>4. CASE Cut(c) \/ Refuse(c)
  BY <1>4, AnswerStep, Zenon DEF Cut, Refuse, End
<1>5. CASE Ask(c) \/ Stream(c)
  BY <1>5, Zenon DEF Ask, Stream, Go, ConnInv, ConnStepOK, Steps
<1> QED
  BY <1>1, <1>2, <1>3, <1>4, <1>5, Zenon DEF Step

\* Every step of a connection but validate leaves the grants alone.
LEMMA StepKeepsGrants ==
  ASSUME NEW c \in Connections, Step(c), ~Validate(c)
  PROVE  UNCHANGED <<clock, grants, query>>
BY Zenon DEF Step, Request, Look, Cut, Ask, Stream, Refuse

\* The gateway starts in the invariant.
LEMMA InitInv == Init => Inv
<1> SUFFICES ASSUME Init PROVE Inv
  BY Zenon
<1>1. NoRequest \in HttpRequest
  BY DEF NoRequest, HttpRequest, RangeHeader, Nothing, Empty
<1>2. ConnInv
  BY <1>1 DEF Init, ConnInv, Steps, Nothing
<1>3. issued \in Seq(Grants) /\ DOMAIN issued = {}
  BY DEF Init
<1>4. GrantInv
  BY <1>3 DEF Init, GrantInv, Nothing
<1>5. GrantsLast
  BY <1>3, Zenon DEF GrantsLast
<1>6. ServedUnderGrant
  <2>1. \A c \in Connections : pc[c] = "accepted"
    BY Zenon DEF Init
  <2> QED
    BY <2>1, Zenon DEF ServedUnderGrant, Downloading
<1> QED
  BY <1>2, <1>4, <1>5, <1>6, Zenon DEF Inv

\* Every expiry that was ever issued is a number.
LEMMA GrantTimes ==
  ASSUME GrantInv
  PROVE  \A t \in DOMAIN issued : issued[t].expires \in Int
<1>1. \A t \in DOMAIN issued : issued[t] \in Grants
  BY LenProperties DEF GrantInv
<1> QED
  BY <1>1, Zenon DEF Grants

\* A step of the clock: no call's time is ahead of the latest one.
LEMMA ClockStep ==
  ASSUME Inv, Tick \/ SetBack
  PROVE  Inv'
<1>1. ConnInv'
  BY Zenon DEF Inv, ConnInv, Tick, SetBack, conn
<1>2. latest' \in Nat /\ now' \in Nat /\ now' <= latest' /\ latest <= latest'
  BY DEF Inv, GrantInv, Tick, SetBack
<1>3. UNCHANGED <<entries, issued, overdue, query, pc, req, time>>
  BY Zenon DEF Tick, SetBack, grants, conn
<1>4. \A t \in DOMAIN issued : issued[t].expires \in Int
  BY GrantTimes, Zenon DEF Inv
<1>5. GrantInv'
  BY <1>2, <1>3 DEF Inv, GrantInv, ConnInv
<1>6. GrantsLast'
  BY <1>2, <1>3, <1>4 DEF Inv, GrantInv, GrantsLast
<1>7. ServedUnderGrant'
  BY <1>3, Zenon DEF Inv, ServedUnderGrant
<1> QED
  BY <1>1, <1>5, <1>6, <1>7, Zenon DEF Inv

\* The registry and the grants under issue: what is dropped has expired at a
\* time that is not ahead of the latest one.
LEMMA IssueStep ==
  ASSUME Inv, NEW i \in Issuers, Issue(i)
  PROVE  Inv'
<1> DEFINE token == Len(issued) + 1
<1>1. UNCHANGED <<now, latest, pc, req, time>>
  BY Zenon DEF Issue, clock, conn
<1>2. /\ now \in Nat /\ latest \in Nat /\ now <= latest
      /\ query[i] \in Int /\ query[i] <= latest /\ Ttl \in Nat
      /\ issued \in Seq(Grants)
  BY DeliveryAssumption, Zenon DEF Inv, GrantInv
<1>3. /\ DOMAIN issued = 1..Len(issued) /\ Len(issued) \in Nat
      /\ \A t \in DOMAIN issued : issued[t] \in Grants
  BY <1>2, LenProperties, Zenon
<1>4. query' \in [Issuers -> Int] /\ \A j \in Issuers : query'[j] <= latest
  BY <1>2 DEF Inv, GrantInv, Issue, Nothing
<1>5. /\ Live(query[i]) \cap Expired(query[i]) = {}
      /\ Live(query[i]) \subseteq entries /\ Expired(query[i]) \subseteq entries
      /\ \A t \in entries \ Live(query[i]) : issued[t].expires <= latest
  BY <1>2, <1>3 DEF Inv, GrantInv, Live, Expired, Grants
<1>6. CASE entries' = Live(query[i]) /\ UNCHANGED issued
  <2>1. GrantInv'
    BY <1>1, <1>2, <1>4, <1>5, <1>6, Zenon DEF Inv, GrantInv, Issue
  <2>2. GrantsLast'
    BY <1>1, <1>2, <1>3, <1>5, <1>6 DEF Inv, GrantsLast, Grants
  <2> QED
    BY <1>1, <1>6, <2>1, <2>2, Zenon DEF Inv, ConnInv, ServedUnderGrant
<1>7. ASSUME NEW a \in Assets, entries' = Live(query[i]) \cup {token},
             issued' = Append(issued, [asset |-> a, expires |-> query[i] + Ttl])
      PROVE  Inv'
  <2> DEFINE new == [asset |-> a, expires |-> query[i] + Ttl]
  <2>1. new \in Grants
    BY <1>2 DEF Grants
  <2>2. /\ issued' \in Seq(Grants) /\ DOMAIN issued' = DOMAIN issued \cup {token}
        /\ token \notin DOMAIN issued
        /\ \A t \in DOMAIN issued : issued'[t] = issued[t]
    BY <1>2, <1>3, <1>7, <2>1, AppendProperties
  <2>3. GrantInv'
    BY <1>1, <1>2, <1>4, <1>5, <1>7, <2>2, Zenon DEF Inv, GrantInv, Issue
  <2>4. GrantsLast'
    BY <1>1, <1>2, <1>3, <1>5, <1>7, <2>2 DEF Inv, GrantsLast, Grants
  <2>5. ServedUnderGrant'
    BY <1>1, <2>2, Zenon DEF Inv, ServedUnderGrant
  <2> QED
    BY <1>1, <2>3, <2>4, <2>5, Zenon DEF Inv, ConnInv
<1>8. \/ entries' = Live(query[i]) /\ UNCHANGED issued
      \/ \E a \in Assets :
           /\ entries' = Live(query[i]) \cup {token}
           /\ issued' = Append(issued, [asset |-> a, expires |-> query[i] + Ttl])
  BY Zenon DEF Issue
<1> QED
  BY <1>6, <1>7, <1>8, Zenon

\* validate removes an expired grant, and lets a live one pass.
LEMMA ValidateStep ==
  ASSUME Inv, NEW c \in Connections, Validate(c)
  PROVE  Inv' /\ (pc'[c] = "looking" => req[c].token \notin overdue)
<1>1. ConnStepOK(c)
  BY StepOfConnection, Zenon DEF Inv, GrantInv, Step
<1>2. UNCHANGED <<now, latest, issued, query>>
  BY Zenon DEF Validate, clock
<1>3. /\ latest \in Nat /\ now \in Nat /\ now <= latest /\ time[c] \in Int
      /\ time[c] <= latest /\ issued \in Seq(Grants)
  BY Zenon DEF Inv, GrantInv, ConnInv
<1>4. \A t \in DOMAIN issued : issued[t].expires \in Int
  BY GrantTimes, Zenon DEF Inv
<1>5. Late(c) \subseteq entries /\ \A t \in Late(c) : issued[t].expires <= latest
  BY <1>3, <1>4 DEF Inv, GrantInv, Late, Known
<1>6. \A d \in Connections : time'[d] <= latest
  BY <1>1, <1>3 DEF Inv, GrantInv, ConnStepOK, Nothing
<1>7. GrantInv'
  BY <1>2, <1>5, <1>6 DEF Inv, GrantInv, Validate
<1>8. GrantsLast'
  BY <1>2, <1>3, <1>4, <1>5 DEF Inv, GrantsLast, Validate
<1>9. pc'[c] = "looking" =>
        \E t \in Known(c) \ Late(c) : issued[t].asset = req[c].asset
  BY AnswerStep, Zenon DEF Validate, Inv
<1>10. ASSUME pc'[c] = "looking"
       PROVE  /\ req[c].token \in entries
              /\ issued[req[c].token].asset = req[c].asset
              /\ issued[req[c].token].expires > time[c]
  BY <1>3, <1>4, <1>9, <1>10 DEF Known, Late, Inv, GrantInv
<1>11. ServedUnderGrant'
  <2>1. ASSUME NEW d \in Connections \ {c}
        PROVE  pc'[d] = pc[d] /\ req'[d] = req[d] /\ time'[d] = time[d]
    BY <1>1, Zenon DEF ConnStepOK
  <2>2. pc'[c] \in Downloading \cup {"looking", "complete"} =>
          pc'[c] = "looking" /\ req'[c] = req[c] /\ time'[c] = time[c]
    BY <1>1, Zenon DEF ConnStepOK, Downloading, Validate
  <2> QED
    BY <1>2, <1>10, <2>1, <2>2, Zenon DEF Inv, GrantInv, ServedUnderGrant
<1>12. ConnInv'
  BY <1>1, Zenon DEF ConnStepOK
<1> QED
  BY <1>7, <1>8, <1>10, <1>11, <1>12, Zenon DEF Inv, GrantInv

\* Every other step of a connection moves it along under the grant it has.
LEMMA OtherStep ==
  ASSUME Inv, NEW c \in Connections, Step(c), ~Validate(c)
  PROVE  Inv' /\ ~(pc[c] = "validating" /\ pc'[c] = "looking")
<1>1. ConnStepOK(c)
  BY StepOfConnection, Zenon DEF Inv, GrantInv
<1>2. UNCHANGED <<now, latest, issued, entries, overdue, query>>
  BY StepKeepsGrants, Zenon DEF clock, grants
<1>3. pc[c] # "validating"
  BY Zenon DEF Step, Request, Look, Cut, Ask, Stream, Refuse, Downloading
<1>4. \A d \in Connections : time'[d] <= latest
  <2>1. time'[c] \in {Nothing, now, time[c]}
    BY <1>1, Zenon DEF ConnStepOK
  <2>2. \A d \in Connections \ {c} : time'[d] = time[d]
    BY <1>1, Zenon DEF ConnStepOK
  <2> QED
    BY <2>1, <2>2 DEF Inv, GrantInv, Nothing
<1>5. GrantInv'
  BY <1>2, <1>4, Zenon DEF Inv, GrantInv
<1>6. ServedUnderGrant'
  <2>1. ASSUME NEW d \in Connections \ {c}
        PROVE  pc'[d] = pc[d] /\ req'[d] = req[d] /\ time'[d] = time[d]
    BY <1>1, Zenon DEF ConnStepOK
  <2>2. pc'[c] \in Downloading \cup {"looking", "complete"} =>
          /\ pc[c] \in Downloading \cup {"looking", "complete"}
          /\ req'[c] = req[c] /\ time'[c] = time[c]
    BY <1>1, <1>3, Zenon DEF ConnStepOK, Downloading
  <2>3. ASSUME NEW d \in Connections,
               pc'[d] \in Downloading \cup {"looking", "complete"}
        PROVE  /\ pc[d] \in Downloading \cup {"looking", "complete"}
               /\ req'[d] = req[d] /\ time'[d] = time[d]
    BY <2>1, <2>2, <2>3, Zenon
  <2> QED
    BY <1>2, <2>3, Zenon DEF Inv, ServedUnderGrant
<1> QED
  BY <1>1, <1>2, <1>3, <1>5, <1>6, Zenon DEF Inv, GrantsLast, ConnStepOK

\* Every step keeps the invariant, and passes no token that was overdue.
LEMMA StepInv ==
  ASSUME Inv, [Next]_vars
  PROVE  /\ Inv'
         /\ \A c \in Connections :
              pc[c] = "validating" /\ pc'[c] = "looking"
                => req[c].token \notin overdue
<1> DEFINE Passes == \A c \in Connections :
                       pc[c] = "validating" /\ pc'[c] = "looking"
                         => req[c].token \notin overdue
<1>1. CASE Tick \/ SetBack
  <2>1. pc' = pc
    BY <1>1, Zenon DEF Tick, SetBack, conn
  <2> QED
    BY <1>1, <2>1, ClockStep, Zenon
<1>2. ASSUME NEW i \in Issuers, Issue(i)
      PROVE  Inv' /\ Passes
  <2>1. pc' = pc
    BY <1>2, Zenon DEF Issue, conn
  <2> QED
    BY <1>2, <2>1, IssueStep, Zenon
<1>3. ASSUME NEW i \in Issuers, ReadTime(i) \/ IssueOverflows(i)
      PROVE  Inv' /\ Passes
  <2>1. UNCHANGED <<now, latest, entries, issued, overdue, pc, req, time>>
    BY <1>3, Zenon DEF ReadTime, IssueOverflows, clock, grants, conn
  <2>2. query' \in [Issuers -> Int] /\ \A j \in Issuers : query'[j] <= latest
    BY <1>3 DEF Inv, GrantInv, ReadTime, IssueOverflows, Nothing
  <2>3. GrantInv'
    BY <2>1, <2>2, Zenon DEF Inv, GrantInv
  <2> QED
    BY <2>1, <2>3, Zenon DEF Inv, ConnInv, GrantsLast, ServedUnderGrant
<1>4. ASSUME NEW c \in Connections, Step(c)
      PROVE  Inv' /\ Passes
  <2>1. \A d \in Connections \ {c} : pc'[d] = pc[d]
    BY <1>4, StepOfConnection, Zenon DEF Inv, GrantInv, ConnStepOK
  <2> QED
    BY <1>4, <2>1, ValidateStep, OtherStep, Zenon
<1>5. CASE UNCHANGED vars
  <2>1. UNCHANGED <<now, latest, entries, issued, overdue, query, pc, req, time>>
    BY <1>5, Zenon DEF vars, clock, grants, conn
  <2>2. GrantInv'
    BY <2>1, Zenon DEF Inv, GrantInv
  <2> QED
    BY <2>1, <2>2, Zenon DEF Inv, ConnInv, GrantsLast, ServedUnderGrant
<1> QED
  BY <1>1, <1>2, <1>3, <1>4, <1>5, Zenon DEF Next

\* The invariant holds in every state of the gateway.
LEMMA Invariance == Spec => []Inv
<1>1. Inv /\ [Next]_vars => Inv'
  BY StepInv, Zenon
<1> QED
  BY InitInv, <1>1, PTL DEF Spec

\* A grant is in the registry until it expires, whatever time a call of issue
\* or validate has read before the lock, and though the clock is set back.
THEOREM Lasting == Spec => []GrantsLast
<1>1. Inv => GrantsLast
  BY Zenon DEF Inv
<1> QED
  BY Invariance, <1>1, PTL

\* handle_connection looks up and sends only the asset of a grant that had not
\* expired at the time it read.
THEOREM Granted == Spec => []ServedUnderGrant
<1>1. Inv => ServedUnderGrant
  BY Zenon DEF Inv
<1> QED
  BY Invariance, <1>1, PTL

\* No request passes validate with a token that a call has found expired.
THEOREM Final == Spec => ExpiredIsFinal
<1> DEFINE Passes == \A c \in Connections :
                       pc[c] = "validating" /\ pc'[c] = "looking"
                         => req[c].token \notin overdue
<1>1. Inv /\ [Next]_vars => [Passes]_vars
  BY StepInv, Zenon
<1> QED
  BY Invariance, <1>1, PTL DEF Spec, ExpiredIsFinal

-----------------------------------------------------------------------------
Holders == {c \in Connections : pc[c] \in Downloading}

PermitInv == ConnInv /\ now \in Nat /\ permits \in Int /\ PermitsComeBack

\* How many connections hold a permit, after a step of c.
LEMMA HoldersAfter ==
  ASSUME ConnInv, NEW c \in Connections,
         \A d \in Connections \ {c} : pc'[d] = pc[d]
  PROVE  /\ Cardinality(Holders) \in Nat
         /\ c \in Holders' /\ c \notin Holders =>
              Cardinality(Holders') = Cardinality(Holders) + 1
         /\ c \notin Holders' /\ c \in Holders =>
              Cardinality(Holders') = Cardinality(Holders) - 1
         /\ (c \in Holders' <=> c \in Holders) => Holders' = Holders
<1>1. IsFiniteSet(Holders)
  BY DeliveryAssumption, FS_Subset, Zenon DEF Holders
<1>2. Cardinality(Holders) \in Nat
  BY <1>1, FS_CardinalityType, Zenon
<1>3. \A d \in Connections \ {c} : d \in Holders' <=> d \in Holders
  BY Zenon DEF Holders
<1>4. Holders \subseteq Connections /\ Holders' \subseteq Connections
  BY Zenon DEF Holders
<1>5. c \in Holders' /\ c \notin Holders => Holders' = Holders \cup {c}
  BY <1>3, <1>4, Zenon
<1>6. c \notin Holders' /\ c \in Holders => Holders' = Holders \ {c}
  BY <1>3, <1>4, Zenon
<1>7. (c \in Holders' <=> c \in Holders) => Holders' = Holders
  BY <1>3, <1>4
<1>8. c \notin Holders => Cardinality(Holders \cup {c}) = Cardinality(Holders) + 1
  BY <1>1, FS_AddElement, Zenon
<1>9. c \in Holders => Cardinality(Holders \ {c}) = Cardinality(Holders) - 1
  BY <1>1, FS_RemoveElement, Zenon
<1> HIDE DEF Holders
<1> QED
  BY <1>2, <1>5, <1>6, <1>7, <1>8, <1>9, Zenon

\* A permit is taken exactly when a connection begins to send a body, and
\* given back exactly when it stops.
LEMMA PermitMoves ==
  ASSUME ConnInv, now \in Nat, permits \in Int, NEW c \in Connections, Step(c)
  PROVE  /\ permits' \in Int
         /\ c \in Holders' /\ c \notin Holders => permits' = permits - 1
         /\ c \notin Holders' /\ c \in Holders => permits' = permits + 1
         /\ (c \in Holders' <=> c \in Holders) => permits' = permits
<1>1. pc' \in [Connections -> Steps]
  BY StepOfConnection, Zenon DEF ConnStepOK, ConnInv
<1>2. /\ c \in Holders <=> pc[c] \in Downloading
      /\ c \in Holders' <=> pc'[c] \in Downloading
  BY Zenon DEF Holders, Downloading
<1>3. CASE Request(c) \/ Validate(c)
  <2>1. permits' = permits /\ pc[c] \in {"accepted", "validating"}
    BY <1>3, Zenon DEF Request, Validate
  <2>2. pc'[c] \in {"validating", "looking", "closed"}
    BY <1>3, AnswerStep, Zenon DEF Request, Validate, Go, ConnInv
  <2> QED
    BY <1>2, <2>1, <2>2, Zenon DEF Downloading
<1>4. CASE Look(c)
  <2>1. ASSUME NEW status, Answer(c, status)
        PROVE  pc'[c] = "closed"
    BY <2>1, AnswerStep, Zenon
  <2>2. Go(c, "streaming") => pc'[c] = "streaming"
    BY Zenon DEF Go, ConnInv
  <2>3. \/ pc'[c] = "closed" /\ permits' = permits
        \/ pc'[c] = "streaming" /\ permits' = permits - 1
    BY <1>4, <2>1, <2>2, LookOutcome, Zenon
  <2>4. pc[c] = "looking"
    BY <1>4, Zenon DEF Look
  <2> QED
    BY <1>2, <2>3, <2>4 DEF Downloading
<1>5. CASE Cut(c) \/ Refuse(c)
  <2>1. pc'[c] = "closed" /\ permits' = permits + 1
    BY <1>5, AnswerStep, Zenon DEF Cut, Refuse, End
  <2>2. pc[c] \in Downloading
    BY <1>5, Zenon DEF Cut, Refuse, Downloading
  <2> QED
    BY <1>2, <2>1, <2>2 DEF Downloading
<1>6. CASE Ask(c)
  <2>1. pc[c] = "streaming" /\ pc'[c] = "reading" /\ permits' = permits
    BY <1>6, Zenon DEF Ask, Go, ConnInv
  <2> QED
    BY <1>2, <2>1, Zenon DEF Downloading
<1>7. CASE Stream(c)
  <2>1. pc[c] = "reading"
    BY <1>7, Zenon DEF Stream
  <2>2. \/ pc'[c] = "complete" /\ permits' = permits + 1
        \/ pc'[c] = "streaming" /\ permits' = permits
    BY <1>7, Zenon DEF Stream, Go, ConnInv
  <2> QED
    BY <1>2, <2>1, <2>2 DEF Downloading
<1> QED
  BY <1>3, <1>4, <1>5, <1>6, <1>7, Zenon DEF Step

\* Every step keeps the count of the permits.
LEMMA PermitStep == PermitInv /\ [Next]_vars => PermitInv'
<1> SUFFICES ASSUME PermitInv, [Next]_vars PROVE PermitInv'
  BY Zenon
<1>1. PermitsComeBack <=> permits + Cardinality(Holders) = MaxDownloads
  BY Zenon DEF PermitsComeBack, Holders
<1>2. PermitsComeBack' <=> permits' + Cardinality(Holders') = MaxDownloads
  BY Zenon DEF PermitsComeBack, Holders
<1>3. CASE \/ Tick \/ SetBack \/ UNCHANGED vars
           \/ \E i \in Issuers : ReadTime(i) \/ Issue(i) \/ IssueOverflows(i)
  <2>1. UNCHANGED <<pc, req, time, permits>>
    BY <1>3, Zenon DEF Tick, SetBack, ReadTime, Issue, IssueOverflows, vars, conn
  <2>2. now' \in Nat
    BY <1>3 DEF Tick, SetBack, ReadTime, Issue, IssueOverflows, vars, clock,
       PermitInv
  <2> QED
    BY <2>1, <2>2, Zenon DEF PermitInv, ConnInv, PermitsComeBack
<1>4. ASSUME NEW c \in Connections, Step(c)
      PROVE  PermitInv'
  <2>1. ConnStepOK(c)
    BY <1>4, StepOfConnection, Zenon DEF PermitInv
  <2>2. now' \in Nat
    BY <1>4, Zenon DEF Step, Request, Validate, Look, Cut, Ask, Stream, Refuse, clock, PermitInv
  <2>3. /\ permits' \in Int
        /\ c \in Holders' /\ c \notin Holders => permits' = permits - 1
        /\ c \notin Holders' /\ c \in Holders => permits' = permits + 1
        /\ (c \in Holders' <=> c \in Holders) => permits' = permits
    BY <1>4, PermitMoves, Zenon DEF PermitInv
  <2>4. /\ Cardinality(Holders) \in Nat
        /\ c \in Holders' /\ c \notin Holders =>
             Cardinality(Holders') = Cardinality(Holders) + 1
        /\ c \notin Holders' /\ c \in Holders =>
             Cardinality(Holders') = Cardinality(Holders) - 1
        /\ (c \in Holders' <=> c \in Holders) => Holders' = Holders
    BY <2>1, HoldersAfter, Zenon DEF PermitInv, ConnStepOK
  <2>5. permits' + Cardinality(Holders') = MaxDownloads
    BY <1>1, <2>3, <2>4, DeliveryAssumption DEF PermitInv
  <2> QED
    BY <1>2, <2>1, <2>2, <2>3, <2>5, Zenon DEF PermitInv, ConnStepOK
<1> QED
  BY <1>3, <1>4, Zenon DEF Next

\* Every download permit is free or held by a connection that is streaming,
\* however connections end.
THEOREM Permits == Spec => []PermitsComeBack
<1>1. Init => PermitInv
  <2> SUFFICES ASSUME Init PROVE PermitInv
    BY Zenon
  <2>1. ConnInv
    BY InitInv, Zenon DEF Inv
  <2>2. {c \in Connections : pc[c] \in Downloading} = {}
    BY Zenon DEF Init, Downloading
  <2>3. MaxDownloads \in Nat /\ permits = MaxDownloads /\ now \in Nat
    BY DeliveryAssumption, Zenon DEF Init
  <2> QED
    BY <2>1, <2>2, <2>3, FS_EmptySet DEF PermitInv, PermitsComeBack
<1>2. PermitInv => PermitsComeBack
  BY Zenon DEF PermitInv
<1> QED
  BY <1>1, <1>2, PermitStep, PTL DEF Spec

-----------------------------------------------------------------------------
(* The body is the range.                                                  *)

\* parse_range resolves a single range to the bytes it asks for, and finds it
\* unsatisfiable only if these are none.
LEMMA ParsedIsAsked ==
  ASSUME NEW r \in RangeHeader, NEW total \in Nat, r.kind = "single"
  PROVE  /\ ParseRange(r, total).is = "range" =>
              \E s, e \in Nat : /\ ParseRange(r, total).start = s
                                /\ ParseRange(r, total).end = e
                                /\ s <= e /\ AskedBytes(r, total) = s .. e
         /\ ParseRange(r, total).is = "unsatisfiable" =>
              AskedBytes(r, total) = {}
<1> DEFINE p == ParseRange(r, total)
           Good(q) == /\ q.is = "range" =>
                           \E s, e \in Nat : /\ q.start = s /\ q.end = e
                                             /\ s <= e
                                             /\ AskedBytes(r, total) = s .. e
                      /\ q.is = "unsatisfiable" => AskedBytes(r, total) = {}
<1>1. /\ r.first \in Int /\ r.first >= -1 /\ r.last \in Int /\ r.last >= -1
      /\ MaxU64 \in Nat
  BY DeliveryAssumption DEF RangeHeader, Empty
<1>2. Good([is |-> "malformed"])
  BY Zenon
<1>3. ASSUME AskedBytes(r, total) = {} PROVE Good([is |-> "unsatisfiable"])
  BY <1>3, Zenon
<1>4. ASSUME NEW s \in Nat, NEW e \in Int, AskedBytes(r, total) = s .. e
      PROVE  Good(Resolved(s, e))
  <2>1. CASE s > e
    BY <1>4, <2>1 DEF Resolved
  <2>2. CASE s <= e
    <3>1. Resolved(s, e) = [is |-> "range", start |-> s, end |-> e] /\ e \in Nat
      BY <2>2 DEF Resolved
    <3> QED
      BY <1>4, <2>2, <3>1
  <2> QED
    BY <2>1, <2>2
<1>5. CASE r.first = Empty
  <2>1. p = ParseSuffix(r.last, total)
    BY <1>5, Zenon DEF ParseRange
  <2>2. AskedBytes(r, total) = {n \in 0 .. total - 1 : n >= total - r.last}
    BY <1>5, Zenon DEF AskedBytes
  <2>3. CASE r.last = Empty \/ r.last > MaxU64
    BY <1>2, <2>1, <2>3, Zenon DEF ParseSuffix
  <2>4. CASE ~(r.last = Empty \/ r.last > MaxU64) /\ (r.last = 0 \/ total = 0)
    <3>1. AskedBytes(r, total) = {}
      BY <1>1, <2>2, <2>4
    <3> QED
      BY <1>3, <2>1, <2>4, <3>1, Zenon DEF ParseSuffix
  <2>5. CASE ~(r.last = Empty \/ r.last > MaxU64) /\ ~(r.last = 0 \/ total = 0)
    <3> DEFINE s == IF r.last > total THEN 0 ELSE total - r.last
    <3>1. s \in Nat /\ p = Resolved(s, total - 1)
      BY <1>1, <2>1, <2>5 DEF ParseSuffix
    <3>2. AskedBytes(r, total) = s .. total - 1
      BY <1>1, <2>2, <2>5 DEF Empty
    <3> QED
      BY <1>4, <3>1, <3>2
  <2> QED
    BY <2>3, <2>4, <2>5, Zenon
<1>6. CASE r.first # Empty
  <2>1. r.first \in Nat
    BY <1>1, <1>6 DEF Empty
  <2>2. AskedBytes(r, total) =
          {n \in 0 .. total - 1 : n >= r.first /\ (r.last = Empty \/ n <= r.last)}
    BY <1>6, Zenon DEF AskedBytes
  <2>3. CASE r.first > MaxU64
    BY <1>2, <1>6, <2>3, Zenon DEF ParseRange
  <2>4. CASE ~(r.first > MaxU64) /\ (total = 0 \/ r.first >= total)
    <3>1. AskedBytes(r, total) = {}
      BY <2>1, <2>2, <2>4
    <3> QED
      BY <1>3, <1>6, <2>4, <3>1, Zenon DEF ParseRange
  <2>5. CASE ~(r.first > MaxU64) /\ ~(total = 0 \/ r.first >= total)
    <3>1. CASE r.last = Empty
      <4>1. AskedBytes(r, total) = r.first .. total - 1
        BY <2>1, <2>2, <3>1
      <4>2. p = Resolved(r.first, total - 1)
        BY <1>6, <2>5, <3>1, Zenon DEF ParseRange
      <4> QED
        BY <1>4, <2>1, <4>1, <4>2
    <3>2. CASE r.last # Empty /\ r.last > MaxU64
      BY <1>2, <1>6, <2>5, <3>2, Zenon DEF ParseRange
    <3>3. CASE r.last # Empty /\ ~(r.last > MaxU64)
      <4> DEFINE e == IF r.last < total - 1 THEN r.last ELSE total - 1
      <4>1. AskedBytes(r, total) = r.first .. e
        BY <1>1, <2>1, <2>2, <3>3
      <4>2. p = Resolved(r.first, e) /\ e \in Int
        BY <1>1, <1>6, <2>5, <3>3 DEF ParseRange
      <4> QED
        BY <1>4, <2>1, <4>1, <4>2
    <3> QED
      BY <3>1, <3>2, <3>3, Zenon
  <2> QED
    BY <2>3, <2>4, <2>5, Zenon
<1>7. Good(p)
  BY <1>5, <1>6, Zenon
<1> QED
  BY <1>7, Zenon

\* Another kind of header is never resolved to a range.
LEMMA OthersAreRefused ==
  ASSUME NEW r \in RangeHeader, NEW total, r.kind # "single"
  PROVE  ParseRange(r, total).is # "range"
BY Zenon DEF ParseRange, RangeHeader

\* The bytes that the answer rp to the request rq has to send.
Asked(rp, rq) ==
  IF rp.status = 206 THEN AskedBytes(rq.range, Length[rq.asset])
                     ELSE 0 .. Length[rq.asset] - 1

\* A body of n bytes from s, of which the first k are sent.
Sending(rp, rq, body, s, n, k) ==
  /\ rp.start = s /\ rp.length = n /\ k <= n
  /\ Asked(rp, rq) = s .. s + n - 1
  /\ body = [j \in 1 .. k |-> s + j - 1]

\* Before the answer nothing is sent; a body is a prefix of what was asked for
\* until it is complete; and 416 answers a range of no bytes.
ConnBody(step, rq, rp, body) ==
  /\ step \in {"accepted", "validating", "looking"} => rp = NoReply /\ body = <<>>
  /\ step \in Downloading \cup {"complete"} =>
       \E s \in Nat, n \in Nat \ {0}, k \in Nat :
         Sending(rp, rq, body, s, n, k) /\ (step = "complete" <=> k = n)
  /\ rp.status = 416 /\ rq.range.kind = "single" =>
       AskedBytes(rq.range, Length[rq.asset]) = {}

BodyInv ==
  /\ reply = [c \in Connections |-> reply[c]]
  /\ sent = [c \in Connections |-> sent[c]]
  /\ \A c \in Connections : ConnBody(pc[c], req[c], reply[c], sent[c])

\* The body holds the first of the bytes asked for, in order.
IsPrefix(rp, rq, body) ==
  /\ {body[j] : j \in DOMAIN body} \subseteq Asked(rp, rq)
  /\ rp.length = Cardinality(Asked(rp, rq))
  /\ \A j \in DOMAIN body :
       Cardinality({m \in Asked(rp, rq) : m < body[j]}) = j - 1

IsWhole(rp, rq, body) == {body[j] : j \in DOMAIN body} = Asked(rp, rq)

\* Sending in order and without gap makes the body what was asked for.
LEMMA BodyFacts ==
  ASSUME NEW rp, NEW rq, NEW body, NEW s \in Nat, NEW n \in Nat \ {0},
         NEW k \in Nat, Sending(rp, rq, body, s, n, k)
  PROVE  IsPrefix(rp, rq, body) /\ (k = n => IsWhole(rp, rq, body))
<1>1. /\ DOMAIN body = 1 .. k /\ \A j \in 1 .. k : body[j] = s + j - 1
      /\ Asked(rp, rq) = s .. s + n - 1 /\ k <= n /\ rp.length = n
  BY Zenon DEF Sending
<1>2. {body[j] : j \in DOMAIN body} \subseteq Asked(rp, rq)
  BY <1>1
<1>3. Cardinality(s .. s + n - 1) = n
  BY FS_Interval
<1>4. ASSUME NEW j \in 1 .. k
      PROVE  Cardinality({m \in Asked(rp, rq) : m < body[j]}) = j - 1
  <2>1. {m \in Asked(rp, rq) : m < body[j]} = s .. s + j - 2
    BY <1>1
  <2>2. Cardinality(s .. s + j - 2) = j - 1
    BY FS_Interval
  <2> QED
    BY <2>1, <2>2, Zenon
<1>5. ASSUME k = n, NEW m \in s .. s + n - 1
      PROVE  \E j \in DOMAIN body : m = body[j]
  <2>1. m - s + 1 \in 1 .. k /\ body[m - s + 1] = m
    BY <1>1, <1>5
  <2> QED
    BY <1>1, <2>1, Zenon
<1> QED
  BY <1>1, <1>2, <1>3, <1>4, <1>5, Zenon DEF IsPrefix, IsWhole

\* What a connection sends is, at every moment, what it was asked for.
LEMMA BodyInvHolds == BodyInv => BodyIsTheRange
<1> SUFFICES ASSUME BodyInv, NEW c \in Connections
             PROVE  LET asked == Asked(reply[c], req[c])
                    IN  /\ pc[c] \in Downloading \cup {"complete"} =>
                             /\ Body(c) \subseteq asked
                             /\ reply[c].length = Cardinality(asked)
                             /\ \A j \in DOMAIN sent[c] :
                                  Cardinality({n \in asked : n < sent[c][j]}) = j - 1
                             /\ pc[c] = "complete" => Body(c) = asked
                        /\ reply[c].status = 416 /\ req[c].range.kind = "single" =>
                             AskedBytes(req[c].range, Length[req[c].asset]) = {}
  BY DEF BodyIsTheRange, Asked
<1>1. ConnBody(pc[c], req[c], reply[c], sent[c])
  BY Zenon DEF BodyInv
<1>2. CASE pc[c] \in Downloading \cup {"complete"}
  <2>1. PICK s \in Nat, n \in Nat \ {0}, k \in Nat :
          /\ Sending(reply[c], req[c], sent[c], s, n, k)
          /\ pc[c] = "complete" <=> k = n
    BY <1>1, <1>2, Zenon DEF ConnBody
  <2>2. /\ IsPrefix(reply[c], req[c], sent[c])
        /\ k = n => IsWhole(reply[c], req[c], sent[c])
    BY <2>1, BodyFacts, Zenon
  <2> QED
    BY <1>1, <2>1, <2>2, Zenon DEF ConnBody, Body, IsPrefix, IsWhole
<1> QED
  BY <1>1, <1>2, Zenon DEF ConnBody

\* A step of c changes nothing of the other connections, and keeps c's part.
LEMMA OneBody ==
  ASSUME ConnInv, BodyInv, NEW c \in Connections, NEW step, NEW rq, NEW rp,
         NEW body, pc' = [pc EXCEPT ![c] = step], req' = [req EXCEPT ![c] = rq],
         reply' = [reply EXCEPT ![c] = rp], sent' = [sent EXCEPT ![c] = body],
         ConnBody(step, rq, rp, body)
  PROVE  BodyInv'
<1>1. /\ reply' = [d \in Connections |-> reply'[d]]
      /\ sent' = [d \in Connections |-> sent'[d]]
  BY Zenon DEF BodyInv
<1>2. ASSUME NEW d \in Connections
      PROVE  ConnBody(pc'[d], req'[d], reply'[d], sent'[d])
  <2>1. CASE d = c
    <3>1. pc'[d] = step /\ req'[d] = rq /\ reply'[d] = rp /\ sent'[d] = body
      BY <2>1, Zenon DEF ConnInv, BodyInv
    <3> QED
      BY <3>1, Zenon
  <2>2. CASE d # c
    <3>1. /\ pc'[d] = pc[d] /\ req'[d] = req[d] /\ reply'[d] = reply[d]
          /\ sent'[d] = sent[d]
      BY <2>2, Zenon DEF ConnInv, BodyInv
    <3> QED
      BY <3>1, Zenon DEF BodyInv
  <2> QED
    BY <2>1, <2>2, Zenon
<1> QED
  BY <1>1, <1>2, Zenon DEF BodyInv

\* An answer without a body; 416 only for a range that asks for nothing.
LEMMA AnswerBody ==
  ASSUME ConnInv, BodyInv, NEW c \in Connections, NEW status, Answer(c, status),
         status = 416 /\ req[c].range.kind = "single" =>
           AskedBytes(req[c].range, Length[req[c].asset]) = {}
  PROVE  BodyInv'
<1> DEFINE rp == [NoReply EXCEPT !.status = status]
           rq == IF status = 416 THEN req[c] ELSE NoRequest
<1>1. /\ pc' = [pc EXCEPT ![c] = "closed"] /\ reply' = [reply EXCEPT ![c] = rp]
      /\ sent' = [sent EXCEPT ![c] = <<>>]
  BY Zenon DEF Answer, Go
<1>2. req' = [req EXCEPT ![c] = rq]
  BY Zenon DEF Answer, ConnInv
<1>3. rp.status = status
  BY Zenon DEF NoReply
<1>4. ConnBody("closed", rq, rp, <<>>)
  BY <1>3, Zenon DEF ConnBody, Downloading
<1> HIDE DEF rp, rq
<1> QED
  BY <1>1, <1>2, <1>4, OneBody, Zenon

\* Where c's answer begins, its request stays and nothing is sent yet.
LEMMA BeginBody ==
  ASSUME ConnInv, BodyInv, NEW c \in Connections, NEW rp,
         pc' = [pc EXCEPT ![c] = "streaming"], reply' = [reply EXCEPT ![c] = rp],
         UNCHANGED <<req, sent>>, ConnBody("streaming", req[c], rp, sent[c])
  PROVE  BodyInv'
<1>1. sent' = [sent EXCEPT ![c] = sent[c]] /\ req' = [req EXCEPT ![c] = req[c]]
  BY Zenon DEF BodyInv, ConnInv
<1> QED
  BY <1>1, OneBody, Zenon

\* A body begins where the resolved range does, with its length.
LEMMA ServeBody ==
  ASSUME ConnInv, BodyInv, NEW c \in Connections, pc[c] = "looking",
         NEW status \in {200, 206}, NEW s \in Nat, NEW n \in Nat,
         Serve(c, status, s, n),
         Asked([status |-> status, start |-> s, length |-> n], req[c])
           = s .. s + n - 1
  PROVE  BodyInv'
<1>1. CASE n = 0
  BY <1>1, AnswerBody DEF Serve
<1>2. CASE n # 0 /\ permits = 0
  <2>1. Answer(c, 503)
    BY <1>2, Zenon DEF Serve
  <2> QED
    BY <2>1, AnswerBody
<1>3. CASE n # 0 /\ permits # 0
  <2> DEFINE rp == [status |-> status, start |-> s, length |-> n]
  <2>1. /\ pc' = [pc EXCEPT ![c] = "streaming"]
        /\ reply' = [reply EXCEPT ![c] = rp] /\ req' = req /\ sent' = sent
    BY <1>3, Zenon DEF Serve, Go
  <2>2. sent[c] = <<>>
    BY Zenon DEF BodyInv, ConnBody
  <2>4. sent[c] = [j \in 1 .. 0 |-> s + j - 1]
    BY <2>2
  <2>5. Asked(rp, req[c]) = s .. s + n - 1
    BY Zenon
  <2>6. Sending(rp, req[c], sent[c], s, n, 0)
    BY <2>4, <2>5 DEF Sending
  <2>7. rp.status # 416
    OBVIOUS
  <2>8. ConnBody("streaming", req[c], rp, sent[c])
    BY <1>3, <2>6, <2>7 DEF ConnBody
  <2> HIDE DEF rp
  <2> QED
    BY <2>1, <2>8, BeginBody, Zenon
<1> QED
  BY <1>1, <1>2, <1>3, Zenon

\* The range is resolved against the length that was looked up.
LEMMA LookBody ==
  ASSUME Inv, BodyInv, NEW c \in Connections, Look(c)
  PROVE  BodyInv'
<1> DEFINE r == req[c]
           total == Length[r.asset]
           range == ParseRange(r.range, total)
<1>0. ConnInv /\ pc[c] = "looking"
  BY Zenon DEF Look, Inv
<1>1. r.asset \in Assets
  <2>1. /\ r.token \in DOMAIN issued /\ issued[r.token].asset = r.asset
    BY <1>0, Zenon DEF Inv, ServedUnderGrant
  <2>2. issued[r.token] \in Grants
    BY <2>1, LenProperties DEF Inv, GrantInv
  <2> QED
    BY <2>1, <2>2, Zenon DEF Grants
<1>2. total \in Nat /\ r.range \in RangeHeader
  BY <1>0, <1>1, DeliveryAssumption, Zenon DEF ConnInv, HttpRequest, Assets
<1>3. ASSUME NEW status \in {503, 200, 400}, Answer(c, status) PROVE BodyInv'
  BY <1>0, <1>3, AnswerBody
<1>4. CASE Serve(c, 200, 0, total)
  <2>1. Asked([status |-> 200, start |-> 0, length |-> total], req[c])
          = 0 .. 0 + total - 1
    BY <1>2 DEF Asked
  <2> QED
    BY <1>0, <1>2, <1>4, <2>1, ServeBody
<1>5. CASE range.is # "malformed" /\ range.is # "range" /\ Answer(c, 416)
  <2>1. ASSUME r.range.kind = "single" PROVE AskedBytes(r.range, total) = {}
    <3>1. range.is = "unsatisfiable"
      BY <1>5, <2>1, Zenon DEF ParseRange, ParseSuffix, Resolved
    <3> QED
      BY <1>2, <2>1, <3>1, ParsedIsAsked, Zenon
  <2> QED
    BY <1>0, <1>5, <2>1, AnswerBody
<1>6. CASE /\ range.is = "range"
           /\ Serve(c, 206, range.start, range.end - range.start + 1)
  <2>1. r.range.kind = "single"
    BY <1>2, <1>6, OthersAreRefused, Zenon
  <2>2. PICK s, e \in Nat : /\ range.start = s /\ range.end = e /\ s <= e
                            /\ AskedBytes(r.range, total) = s .. e
    BY <1>2, <1>6, <2>1, ParsedIsAsked
  <2>3. /\ e - s + 1 \in Nat /\ Serve(c, 206, s, e - s + 1)
        /\ s .. e = s .. s + (e - s + 1) - 1
    BY <1>6, <2>2
  <2>4. Asked([status |-> 206, start |-> s, length |-> e - s + 1], req[c])
          = s .. s + (e - s + 1) - 1
    BY <2>2, <2>3, Zenon DEF Asked
  <2> QED
    BY <1>0, <2>2, <2>3, <2>4, ServeBody
<1> HIDE DEF range, total
<1>7. \/ Answer(c, 503) \/ Answer(c, 200) \/ Answer(c, 400)
      \/ Serve(c, 200, 0, total)
      \/ range.is # "malformed" /\ range.is # "range" /\ Answer(c, 416)
      \/ range.is = "range" /\ Serve(c, 206, range.start, range.end - range.start + 1)
  BY Zenon DEF Look, range, total
<1> QED
  BY <1>3, <1>4, <1>5, <1>6, <1>7

\* The next chunk continues the body.
LEMMA StreamBody ==
  ASSUME ConnInv, BodyInv, NEW c \in Connections, Stream(c)
  PROVE  BodyInv'
<1>1. pc[c] = "reading" /\ ConnBody(pc[c], req[c], reply[c], sent[c])
  BY Zenon DEF Stream, BodyInv
<1>2. PICK s \in Nat, n \in Nat \ {0}, k \in Nat :
        Sending(reply[c], req[c], sent[c], s, n, k) /\ k # n
  BY <1>1, Zenon DEF ConnBody, Downloading
<1>3. PICK m \in 0 .. ChunkSize + 1 :
        LET offset == reply[c].start + Len(sent[c])
        IN  /\ Accepted(c, offset, m)
            /\ sent' = [sent EXCEPT ![c] = @ \o [j \in 1 .. m |-> offset + j - 1]]
            /\ IF Len(sent[c]) + m = reply[c].length
               THEN Go(c, "complete") ELSE Go(c, "streaming")
  BY Zenon DEF Stream
<1>4. /\ sent[c] = [j \in 1 .. k |-> s + j - 1] /\ Len(sent[c]) = k
      /\ reply[c].start = s /\ reply[c].length = n /\ k <= n
  BY <1>2 DEF Sending
<1>5. m \in Nat /\ m > 0 /\ m <= n - k
  BY <1>3, <1>4, DeliveryAssumption DEF Accepted
<1> DEFINE body == sent[c] \o [j \in 1 .. m |-> s + k + j - 1]
           step == IF k + m = n THEN "complete" ELSE "streaming"
<1>6. body = [j \in 1 .. k + m |-> s + j - 1]
  <2>1. /\ sent[c] \in Seq(Int) /\ [j \in 1 .. m |-> s + k + j - 1] \in Seq(Int)
        /\ Len([j \in 1 .. m |-> s + k + j - 1]) = m
    BY <1>4, <1>5
  <2>2. /\ DOMAIN body = 1 .. k + m
        /\ body = [j \in DOMAIN body |-> body[j]]
        /\ \A j \in 1 .. k + m : body[j] = s + j - 1
    BY <1>4, <1>5, <2>1
  <2> HIDE DEF body
  <2> QED
    BY <2>2, Zenon
<1>7. Sending(reply[c], req[c], body, s, n, k + m)
  BY <1>2, <1>5, <1>6 DEF Sending
<1>8. ConnBody(step, req[c], reply[c], body)
  <2>1. k + m \in Nat /\ (step = "complete" <=> k + m = n)
    BY <1>5
  <2>2. step \notin {"accepted", "validating", "looking"}
    BY Zenon
  <2>3. reply[c].status = 416 /\ req[c].range.kind = "single" =>
          AskedBytes(req[c].range, Length[req[c].asset]) = {}
    BY <1>1, Zenon DEF ConnBody
  <2> HIDE DEF step, body
  <2> QED
    BY <1>7, <2>1, <2>2, <2>3, Zenon DEF ConnBody
<1>9. sent' = [sent EXCEPT ![c] = body] /\ pc' = [pc EXCEPT ![c] = step]
  BY <1>3, <1>4, Zenon DEF Go
<1>10. req' = [req EXCEPT ![c] = req[c]] /\ reply' = [reply EXCEPT ![c] = reply[c]]
  BY Zenon DEF Stream, BodyInv, ConnInv
<1> HIDE DEF body, step
<1> QED
  BY <1>8, <1>9, <1>10, OneBody, Zenon

\* Every step keeps the bodies what was asked for.
LEMMA StepBody == Inv /\ BodyInv /\ [Next]_vars => BodyInv'
<1> SUFFICES ASSUME Inv, BodyInv, [Next]_vars PROVE BodyInv'
  BY Zenon
<1>0. ConnInv
  BY Zenon DEF Inv
<1>1. ASSUME NEW c \in Connections, Request(c) PROVE BodyInv'
  <2>1. CASE Answer(c, 400)
    BY <1>0, <2>1, AnswerBody
  <2>2. ASSUME NEW r, pc' = [pc EXCEPT ![c] = "validating"],
               req' = [req EXCEPT ![c] = r], UNCHANGED <<reply, sent>>
        PROVE  BodyInv'
    <3>1. reply[c] = NoReply /\ sent[c] = <<>>
      BY <1>1, Zenon DEF Request, BodyInv, ConnBody
    <3>2. ConnBody("validating", r, reply[c], sent[c])
      BY <3>1 DEF ConnBody, NoReply, Downloading
    <3>3. /\ reply' = [reply EXCEPT ![c] = reply[c]]
          /\ sent' = [sent EXCEPT ![c] = sent[c]]
      BY <2>2, Zenon DEF BodyInv
    <3>4. pc' = [pc EXCEPT ![c] = "validating"] /\ req' = [req EXCEPT ![c] = r]
      BY <2>2, Zenon
    <3> QED
      BY <1>0, <3>2, <3>3, <3>4, OneBody, Zenon
  <2> QED
    BY <1>1, <2>1, <2>2, Zenon DEF Request, Go
<1>2. ASSUME NEW c \in Connections, NEW step,
             \/ pc[c] = "validating" /\ step = "looking"
             \/ pc[c] = "streaming" /\ step = "reading",
             pc' = [pc EXCEPT ![c] = step], UNCHANGED <<req, reply, sent>>
      PROVE  BodyInv'
  <2>1. ConnBody(pc[c], req[c], reply[c], sent[c])
    BY Zenon DEF BodyInv
  <2>2. ConnBody(step, req[c], reply[c], sent[c])
    BY <1>2, <2>1, Zenon DEF ConnBody, Downloading
  <2>3. /\ reply' = [reply EXCEPT ![c] = reply[c]]
        /\ sent' = [sent EXCEPT ![c] = sent[c]] /\ req' = [req EXCEPT ![c] = req[c]]
    BY <1>2, Zenon DEF BodyInv, Inv, ConnInv
  <2>4. pc' = [pc EXCEPT ![c] = step]
    BY <1>2, Zenon
  <2> QED
    BY <1>0, <2>2, <2>3, <2>4, OneBody, Zenon
<1>3. ASSUME NEW c \in Connections, Validate(c) PROVE BodyInv'
  <2>1. CASE Answer(c, 401)
    BY <1>0, <2>1, AnswerBody
  <2> QED
    BY <1>2, <1>3, <2>1, Zenon DEF Validate, Go
<1>4. ASSUME NEW c \in Connections, Cut(c) \/ Refuse(c) PROVE BodyInv'
  <2>1. Answer(c, 0)
    BY <1>4, Zenon DEF Cut, Refuse, End
  <2> QED
    BY <1>0, <2>1, AnswerBody
<1>5. ASSUME NEW c \in Connections, Step(c) PROVE BodyInv'
  BY <1>0, <1>1, <1>2, <1>3, <1>4, <1>5, LookBody, StreamBody, Zenon DEF Step, Ask, Go
<1>6. ASSUME UNCHANGED conn PROVE BodyInv'
  BY <1>6, Zenon DEF conn, BodyInv
<1> QED
  BY <1>5, <1>6, Zenon DEF Next, Tick, SetBack, ReadTime, Issue, IssueOverflows, vars

\* parse_range and the streaming loop of handle_connection together send the
\* bytes that were asked for, in order and none twice, whatever chunks the
\* reader returns; and refuse with 416 only a range of no bytes.
THEOREM Exact == Spec => []BodyIsTheRange
<1>1. Init => BodyInv
  BY DEF Init, BodyInv, ConnBody, NoReply, Downloading
<1> QED
  BY <1>1, Invariance, StepBody, BodyInvHolds, PTL DEF Spec
=============================================================================
