----------------------- MODULE ComputePlacementProofs -----------------------
(***************************************************************************)
(* Safety of placement, observation, discovery and publication, for any    *)
(* finite table, any profiles and signals and any number of requests.      *)
(***************************************************************************)
EXTENDS ComputePlacement, Sequences, WellFoundedInduction, TLAPS

Verdict == [state : States, retry_at : Nat \cup {None}]

\* What a request is about at each step.
Working(r) ==
    /\ pc[r] = "idle" => attempt[r] = 0
    /\ pc[r] \in {"load", "store"} => op[r] \in {"put", "observe", "discover", "chat"}
    /\ pc[r] = "list" => op[r] \in {"route", "chat", "discover", "publish"}
    /\ pc[r] \in {"relist", "waiting"} => op[r] \in {"route", "chat"}
    /\ pc[r] = "post" => op[r] = "chat"
    /\ pc[r] = "next" => op[r] = "discover"
    /\ pc[r] \in {"replace", "published"} => op[r] = "publish"
    /\ op[r] \in {"route", "chat"} => asks[r] \in Kinds /\ at[r] \in 0..MaxTime
    /\ op[r] = "chat" /\ pc[r] \notin {"load", "store"} => attempt[r] < MaxAttempts
    /\ attempt[r] = 0 => tried[r] = None

\* What it is to store.
Storing(r) ==
    pc[r] \in {"load", "store"} =>
        /\ op[r] = "put" => new[r] \in Row
        /\ op[r] = "discover" => new[r] = Probationary
        /\ op[r] \in {"observe", "chat"} => new[r] \in Verdict
        /\ op[r] = "chat" => new[r].state # "AVAILABLE" /\ attempt[r] # 0
        /\ pc[r] = "store" =>
              /\ seen[r][target[r]] = None => op[r] \in {"put", "discover"}
              /\ seen[r][target[r]] # None => rows[target[r]] # None

\* A chat that has recorded a failure finds it in the table until others store the row.
Noted(r) ==
    op[r] = "chat" /\ tried[r] # None =>
        /\ new[r] \in Verdict /\ new[r].state # "AVAILABLE"
        /\ pc[r] = "store" =>
              /\ target[r] = tried[r]
              /\ tried[r] \notin disturbed[r] => rows[tried[r]] = seen[r][tried[r]]
        /\ pc[r] \in {"list", "relist", "waiting", "post"} /\ tried[r] \notin disturbed[r] =>
              /\ rows[tried[r]] # None
              /\ rows[tried[r]].state = new[r].state
              /\ rows[tried[r]].retry_at = new[r].retry_at

Chosen(r) ==
    pc[r] = "post" =>
        /\ Eligible(seen[r][target[r]], asks[r], at[r])
        /\ target[r] = tried[r] /\ target[r] \notin disturbed[r] =>
              new[r].retry_at # None /\ new[r].retry_at <= at[r]

\* A request that waits has found nothing, and the reset it names is the first.
Waiting(r) ==
    pc[r] \in {"relist", "waiting"} /\ disturbed[r] = {} =>
        /\ \A d \in Deployments : ~Eligible(rows[d], asks[r], at[r])
        /\ pc[r] = "waiting" => wake[r] = NextRetry(rows, asks[r], at[r])

Rendered(r) ==
    pc[r] = "published" =>
        published = {d \in Deployments : Materializable(seen[r][d], at[r])}

Sound(r) == Working(r) /\ Storing(r) /\ Noted(r) /\ Chosen(r) /\ Waiting(r) /\ Rendered(r)

OnePublication ==
    \A r, q \in Requests : op[r] = "publish" /\ op[q] = "publish" => r = q

IInv ==
    /\ TypeOK
    /\ \A r \in Requests : Sound(r)
    /\ OnePublication

-----------------------------------------------------------------------------
\* Rows and what is stored in them

Columns == {"enabled", "state", "retry_at", "cost_class", "accepted_sensitivity",
            "capability_scores", "reliability", "latency_score", "development_only"}

LEMMA RowColumns ==
    ASSUME NEW row \in Row
    PROVE  /\ DOMAIN row = Columns
           /\ row.enabled \in BOOLEAN /\ row.state \in States /\ row.retry_at \in Nat \cup {None}
           /\ row.cost_class \in CostClasses /\ row.accepted_sensitivity \in SUBSET Sensitivities
           /\ row.capability_scores \in [Capabilities -> Nat]
           /\ row.reliability \in Nat /\ row.latency_score \in Nat
           /\ row.development_only \in BOOLEAN
BY DEF Row, Columns

LEMMA VerdictColumns ==
    ASSUME NEW values \in Verdict
    PROVE  /\ DOMAIN values = {"state", "retry_at"}
           /\ values.state \in States /\ values.retry_at \in Nat \cup {None}
BY DEF Verdict

LEMMA ProbationaryRow == Probationary \in Row /\ None \notin Row
BY SetAssumption, NoneAssumption DEF Probationary, Discovery, Row, States

LEMMA IsRow ==
    ASSUME NEW s, s = [c \in Columns |-> s[c]],
           s.enabled \in BOOLEAN, s.state \in States, s.retry_at \in Nat \cup {None},
           s.cost_class \in CostClasses, s.accepted_sensitivity \in SUBSET Sensitivities,
           s.capability_scores \in [Capabilities -> Nat],
           s.reliability \in Nat, s.latency_score \in Nat, s.development_only \in BOOLEAN
    PROVE  s \in Row
<1>1. s = [enabled |-> s.enabled, state |-> s.state, retry_at |-> s.retry_at,
           cost_class |-> s.cost_class, accepted_sensitivity |-> s.accepted_sensitivity,
           capability_scores |-> s.capability_scores, reliability |-> s.reliability,
           latency_score |-> s.latency_score, development_only |-> s.development_only]
  BY DEF Columns
<1> QED BY <1>1 DEF Row

\* Each column of an update keeps the row's value or takes the new one.
LEMMA StoredColumns ==
    ASSUME NEW row \in Row, NEW read \in Row, NEW values \in Row \cup Verdict
    PROVE  LET s == Stored(row, read, values) IN
           /\ s \in Row
           /\ \A c \in Columns : s[c] = row[c] \/ (c \in DOMAIN values /\ s[c] = values[c])
           /\ row = read => s.state = values.state /\ s.retry_at = values.retry_at
<1> DEFINE Column(c) == IF c \in DOMAIN values /\ values[c] # read[c] THEN values[c] ELSE row[c]
           s == [c \in DOMAIN row |-> Column(c)]
<1>1. Stored(row, read, values) = s
  BY NoneAssumption DEF Stored
<1>2. DOMAIN row = Columns
  BY RowColumns
<1>3. /\ DOMAIN s = Columns /\ s = [c \in Columns |-> s[c]]
      /\ \A c \in Columns : s[c] = Column(c)
  BY <1>2
<1>4. "state" \in DOMAIN values /\ "retry_at" \in DOMAIN values
  BY RowColumns, VerdictColumns DEF Columns
<1> HIDE DEF s
<1>5. /\ \A c \in Columns : s[c] = row[c] \/ (c \in DOMAIN values /\ s[c] = values[c])
      /\ row = read => s.state = values.state /\ s.retry_at = values.retry_at
  BY <1>3, <1>4 DEF Columns
<1>6. CASE values \in Row
  <2>1. \A c \in Columns : s[c] = row[c] \/ s[c] = values[c]
    BY <1>5
  <2>2. /\ s.enabled \in BOOLEAN /\ s.state \in States /\ s.retry_at \in Nat \cup {None}
        /\ s.cost_class \in CostClasses /\ s.accepted_sensitivity \in SUBSET Sensitivities
    BY <1>6, <2>1, RowColumns DEF Columns
  <2>3. /\ s.capability_scores \in [Capabilities -> Nat]
        /\ s.reliability \in Nat /\ s.latency_score \in Nat /\ s.development_only \in BOOLEAN
    BY <1>6, <2>1, RowColumns DEF Columns
  <2> QED BY <1>1, <1>3, <1>5, <2>2, <2>3, IsRow
<1>7. CASE values \in Verdict
  <2>1. \A c \in Columns \ {"state", "retry_at"} : s[c] = row[c]
    BY <1>5, <1>7, VerdictColumns
  <2>2. s.state \in {row.state, values.state} /\ s.retry_at \in {row.retry_at, values.retry_at}
    BY <1>5 DEF Columns
  <2>3. s.state \in States /\ s.retry_at \in Nat \cup {None}
    BY <1>7, <2>2, RowColumns, VerdictColumns
  <2>4. /\ s.enabled = row.enabled /\ s.cost_class = row.cost_class
        /\ s.accepted_sensitivity = row.accepted_sensitivity
        /\ s.capability_scores = row.capability_scores /\ s.reliability = row.reliability
        /\ s.latency_score = row.latency_score /\ s.development_only = row.development_only
    BY <2>1 DEF Columns
  <2> QED BY <1>1, <1>3, <1>5, <2>3, <2>4, RowColumns, IsRow
<1> QED BY <1>6, <1>7

-----------------------------------------------------------------------------
\* First resets and best scores

LEMMA Least ==
    ASSUME NEW S \in SUBSET Nat, S # {}
    PROVE  \E x \in S : \A y \in S : x <= y
<1> DEFINE R == OpToRel(<, Nat)
<1>1. IsWellFoundedOn(R, Nat)
  BY NatLessThanWellFounded
<1>2. \A x, y \in Nat : y < x => <<y, x>> \in R
  BY DEF OpToRel
<1> HIDE DEF R
<1>3. PICK x \in S : \A y \in S : ~(<<y, x>> \in R)
  BY <1>1, WFMin, Zenon
<1>4. \A y \in S : ~(y < x)
  BY <1>2, <1>3
<1> QED BY <1>4

LEMMA SequenceBounded ==
    ASSUME NEW N \in Nat, NEW g \in [1..N -> Nat]
    PROVE  \E b \in Nat : \A m \in 1..N : g[m] <= b
<1> DEFINE Unbounded == {n \in 0..N : \A b \in Nat : \E m \in 1..n : g[m] > b}
<1>1. ASSUME Unbounded # {} PROVE FALSE
  <2>1. Unbounded \in SUBSET Nat
    OBVIOUS
  <2>2. PICK n \in Unbounded : \A m \in Unbounded : n <= m
    <3> HIDE DEF Unbounded
    <3> QED BY <1>1, <2>1, Least
  <2>3. n \in 0..N /\ \A b \in Nat : \E m \in 1..n : g[m] > b
    OBVIOUS
  <2>4. n # 0
    BY <2>3
  <2>5. n \in 1..N /\ n - 1 \in 0..N /\ g[n] \in Nat
    BY <2>3, <2>4
  <2>6. n - 1 \notin Unbounded
    <3> HIDE DEF Unbounded
    <3> QED BY <2>2, <2>5
  <2>7. PICK b \in Nat : \A m \in 1..(n - 1) : ~(g[m] > b)
    BY <2>5, <2>6
  <2>8. \A m \in 1..n : m = n \/ m \in 1..(n - 1)
    BY <2>5
  <2>9. CASE g[n] <= b
    <3>1. PICK m \in 1..n : g[m] > b
      BY <2>3
    <3> QED BY <2>5, <2>7, <2>8, <2>9, <3>1
  <2>10. CASE g[n] > b
    <3>1. PICK m \in 1..n : g[m] > g[n]
      BY <2>3, <2>5
    <3>2. m \in 1..N /\ g[m] \in Nat
      BY <2>5
    <3> QED BY <2>5, <2>7, <2>8, <2>10, <3>1, <3>2
  <2> QED BY <2>5, <2>9, <2>10
<1>2. N \notin Unbounded
  <2> HIDE DEF Unbounded
  <2> QED BY <1>1
<1>3. PICK b \in Nat : \A m \in 1..N : ~(g[m] > b)
  BY <1>2
<1>4. \A m \in 1..N : g[m] <= b
  <2> SUFFICES ASSUME NEW m \in 1..N PROVE g[m] <= b
    OBVIOUS
  <2>1. g[m] \in Nat /\ ~(g[m] > b)
    BY <1>3
  <2> HIDE DEF Unbounded
  <2> QED BY <2>1
<1> QED BY <1>4

LEMMA Bounded ==
    ASSUME NEW S, IsFiniteSet(S), NEW f \in [S -> Nat]
    PROVE  \E b \in Nat : \A s \in S : f[s] <= b
<1>1. PICK e \in Seq(S) : \A s \in S : \E n \in 1..Len(e) : e[n] = s
  BY DEF IsFiniteSet
<1> DEFINE g == [n \in 1..Len(e) |-> f[e[n]]]
<1>2. Len(e) \in Nat /\ g \in [1..Len(e) -> Nat]
  BY <1>1
<1>3. PICK b \in Nat : \A n \in 1..Len(e) : g[n] <= b
  <2> HIDE DEF g
  <2> QED BY <1>2, SequenceBounded
<1> QED BY <1>1, <1>3

LEMMA WorthNatural ==
    ASSUME NEW row \in Row, NEW k \in Kinds
    PROVE  Worth(row, k) \in Nat
<1>1. /\ row.capability_scores[k.capability] \in Nat
      /\ row.reliability \in Nat /\ row.latency_score \in Nat
  BY RowColumns, SetAssumption DEF RouteRequest
<1> QED BY <1>1 DEF Worth

\* If nothing is selected then nothing is eligible.
LEMMA BestExists ==
    ASSUME NEW table \in [Deployments -> Row \cup {None}], NEW k \in Kinds, NEW t \in Nat,
           Best(table, k, t) = {}
    PROVE  \A d \in Deployments : ~Eligible(table[d], k, t)
<1> DEFINE eligible == {d \in Deployments : Eligible(table[d], k, t)}
           worth == [d \in Deployments |-> IF Fits(table[d], k) THEN Worth(table[d], k) ELSE 0]
<1>1. worth \in [Deployments -> Nat]
  BY WorthNatural DEF Fits
<1>2. PICK b \in Nat : \A d \in Deployments : worth[d] <= b
  <2> HIDE DEF worth
  <2> QED BY <1>1, Bounded, FiniteAssumption
<1> DEFINE gaps == {b - worth[d] : d \in eligible}
<1>3. SUFFICES ASSUME eligible # {} PROVE FALSE
  OBVIOUS
<1>4. gaps \in SUBSET Nat /\ gaps # {}
  BY <1>1, <1>2, <1>3
<1>5. PICK x \in gaps : \A y \in gaps : x <= y
  <2> HIDE DEF gaps
  <2> QED BY <1>4, Least
<1>6. PICK d \in eligible : x = b - worth[d]
  BY <1>5
<1>7. \A c \in eligible : worth[c] <= worth[d]
  <2> SUFFICES ASSUME NEW c \in eligible PROVE worth[c] <= worth[d]
    OBVIOUS
  <2>1. b - worth[c] \in gaps
    OBVIOUS
  <2>2. worth[c] \in Nat /\ worth[d] \in Nat
    BY <1>1
  <2>3. b - worth[d] <= b - worth[c]
    BY <1>5, <1>6, <2>1
  <2> HIDE DEF worth
  <2> QED BY <2>2, <2>3
<1>8. \A c \in eligible : worth[c] = Worth(table[c], k)
  BY DEF Eligible
<1>9. d \in Best(table, k, t)
  BY <1>7, <1>8 DEF Best
<1> QED BY <1>9

LEMMA NextRetryLeast ==
    ASSUME NEW table \in [Deployments -> Row \cup {None}], NEW k \in Kinds, NEW t \in Nat
    PROVE  LET later == Resets(table, k, t)
               x == NextRetry(table, k, t)
           IN  /\ later \subseteq Nat
               /\ later = {} => x = None
               /\ later # {} => x \in later /\ \A y \in later : x <= y
<1> DEFINE later == Resets(table, k, t)
<1>1. later \subseteq Nat
  BY RowColumns DEF Resets, Fits
<1> HIDE DEF later
<1>2. later # {} => \E x \in later : \A y \in later : x <= y
  BY <1>1, Least
<1> USE DEF later
<1> QED BY <1>1, <1>2 DEF NextRetry

-----------------------------------------------------------------------------
\* Steps seen by the other requests

Kept(q) ==
    /\ pc'[q] = pc[q] /\ op'[q] = op[q] /\ asks'[q] = asks[q] /\ todo'[q] = todo[q]
    /\ target'[q] = target[q] /\ seen'[q] = seen[q] /\ new'[q] = new[q] /\ at'[q] = at[q]
    /\ attempt'[q] = attempt[q] /\ wake'[q] = wake[q] /\ tried'[q] = tried[q]

\* A request stays sound while others leave the table alone.
LEMMA KeptSound ==
    ASSUME NEW q \in Requests, Sound(q), Kept(q), disturbed'[q] = disturbed[q], rows' = rows,
           published' = published \/ op[q] # "publish"
    PROVE  Sound(q)'
<1>1. Working(q)' /\ Storing(q)'
  BY DEF Sound, Kept, Working, Storing
<1>2. Noted(q)' /\ Chosen(q)'
  BY DEF Sound, Kept, Noted, Chosen
<1>3. Waiting(q)'
  BY DEF Sound, Kept, Waiting
<1>4. Rendered(q)'
  BY DEF Sound, Kept, Working, Rendered
<1> QED BY <1>1, <1>2, <1>3, <1>4 DEF Sound

\* It stays sound when another one commits a row.
LEMMA DisturbedSound ==
    ASSUME TypeOK, NEW q \in Requests, Sound(q), Kept(q), NEW d \in Deployments, NEW v \in Row,
           rows' = [rows EXCEPT ![d] = v], published' = published,
           disturbed'[q] = IF op[q] \in {"route", "chat"} THEN disturbed[q] \cup {d} ELSE disturbed[q]
    PROVE  Sound(q)'
<1>1. /\ rows'[d] = v /\ v # None
      /\ \A e \in Deployments : e # d => rows'[e] = rows[e]
  BY NoneAssumption DEF TypeOK
<1>2. Working(q)'
  BY DEF Sound, Kept, Working
<1>3. Storing(q)'
  <2>1. pc[q] \in {"load", "store"} => target[q] \in Deployments
    BY DEF TypeOK
  <2> QED BY <1>1, <2>1 DEF Sound, Kept, Storing
<1>4. Noted(q)'
  <2>1. tried[q] # None => tried[q] \in Deployments
    BY DEF TypeOK
  <2>2. op[q] = "chat" => disturbed'[q] = disturbed[q] \cup {d}
    OBVIOUS
  <2> QED BY <1>1, <2>1, <2>2 DEF Sound, Kept, Noted
<1>5. Chosen(q)'
  BY DEF Sound, Kept, Working, Chosen
<1>6. Waiting(q)'
  <2>1. op[q] \in {"route", "chat"} => disturbed'[q] # {}
    OBVIOUS
  <2> QED BY <2>1 DEF Sound, Kept, Working, Waiting
<1>7. Rendered(q)'
  BY DEF Sound, Kept, Rendered
<1> QED BY <1>2, <1>3, <1>4, <1>5, <1>6, <1>7 DEF Sound

\* What is left to show of a step of r that leaves the table alone.
LEMMA OwnStep ==
    ASSUME IInv, NEW r \in Requests,
           TypeOK', Sound(r)', rows' = rows,
           \A q \in Requests \ {r} : Kept(q) /\ disturbed'[q] = disturbed[q],
           published' = published \/ op[r] = "publish",
           op'[r] = "publish" => op[r] = "publish" \/ \A q \in Requests : op[q] # "publish"
    PROVE  IInv'
<1>1. ASSUME NEW q \in Requests PROVE Sound(q)'
  <2>1. CASE q = r
    BY <2>1
  <2>2. CASE q # r
    <3>1. Sound(q) /\ Kept(q) /\ disturbed'[q] = disturbed[q]
      BY <2>2 DEF IInv
    <3>2. published' = published \/ op[q] # "publish"
      BY <2>2 DEF IInv, OnePublication
    <3> QED BY <3>1, <3>2, KeptSound
  <2> QED BY <2>1, <2>2
<1>2. OnePublication'
  <2>1. \A q \in Requests \ {r} : op'[q] = op[q]
    BY DEF Kept
  <2> QED BY <2>1 DEF IInv, OnePublication
<1> QED BY <1>1, <1>2 DEF IInv

LEMMA ReleaseStep ==
    ASSUME IInv, NEW r \in Requests, Release(r), UNCHANGED shared
    PROVE  IInv'
<1> USE DEF Release, Clear, Goto, shared
<1>1. TypeOK'
  BY NoneAssumption, NumberAssumption DEF IInv, TypeOK, PC, Ops, Empty
<1>2. /\ pc'[r] = "idle" /\ op'[r] = None /\ attempt'[r] = 0 /\ tried'[r] = None
      /\ None \notin Ops
  BY NoneAssumption DEF IInv, TypeOK
<1>3. Sound(r)'
  BY <1>2 DEF Sound, Working, Storing, Noted, Chosen, Waiting, Rendered, Ops
<1>4. \A q \in Requests \ {r} : Kept(q) /\ disturbed'[q] = disturbed[q]
  BY DEF IInv, TypeOK, Kept
<1> QED BY <1>1, <1>2, <1>3, <1>4, OwnStep DEF Ops

-----------------------------------------------------------------------------
\* Requests arrive

LEMMA ClassifyVerdict ==
    ASSUME NEW s \in Observation, NEW t \in Nat
    PROVE  /\ Classify(s, t) \in Verdict
           /\ s.status \in {"unavailable", "limited"} => Classify(s, t).state # "AVAILABLE"
<1>1. /\ s.delay \in (Nat \ {0}) \cup {None} /\ DefaultDelay \in Nat
      /\ s.status \in {"ok", "auth", "credit", "gone", "unavailable", "limited", "error"}
  BY NumberAssumption DEF Observation
<1> DEFINE delay == IF s.delay = None THEN DefaultDelay ELSE s.delay
<1>2. t + delay \in Nat /\ t + DefaultDelay \in Nat
  BY <1>1
<1> HIDE DEF delay
<1> QED BY <1>1, <1>2 DEF Classify, Verdict, States, delay

LEMMA TickStep ==
    ASSUME IInv, Tick
    PROVE  IInv'
<1>1. TypeOK'
  BY NumberAssumption DEF IInv, TypeOK, Tick, local
<1>2. \A q \in Requests : Kept(q) /\ disturbed'[q] = disturbed[q]
  BY DEF Tick, local, Kept
<1>3. \A q \in Requests : Sound(q)'
  BY <1>2, KeptSound DEF IInv, Tick
<1>4. OnePublication'
  BY DEF IInv, OnePublication, Tick, local
<1> QED BY <1>1, <1>3, <1>4 DEF IInv

LEMMA ReceivePutStep ==
    ASSUME IInv, NEW r \in Requests, NEW d \in Deployments, NEW values \in Puts,
           ReceivePut(r, d, values)
    PROVE  IInv'
<1> USE DEF ReceivePut, Receive, Goto, Signal
<1>1. values \in Row
  BY SetAssumption
<1>2. TypeOK'
  BY <1>1, NoneAssumption, NumberAssumption DEF IInv, TypeOK, PC, Ops
<1>3. Sound(r)'
  <2>1. /\ pc'[r] = "load" /\ op'[r] = "put" /\ new'[r] = values
        /\ attempt'[r] = attempt[r] /\ tried'[r] = tried[r]
    BY DEF IInv, TypeOK
  <2>2. attempt[r] = 0 /\ tried[r] = None
    BY DEF IInv, Sound, Working
  <2> QED BY <1>1, <2>1, <2>2 DEF Sound, Working, Storing, Noted, Chosen, Waiting, Rendered
<1>4. \A q \in Requests \ {r} : Kept(q) /\ disturbed'[q] = disturbed[q]
  BY DEF IInv, TypeOK, Kept
<1>5. op'[r] = "put"
  BY DEF IInv, TypeOK
<1> QED BY <1>2, <1>3, <1>4, <1>5, OwnStep

LEMMA ReceiveObservationStep ==
    ASSUME IInv, NEW r \in Requests, NEW d \in Deployments, NEW s \in Observations,
           ReceiveObservation(r, d, s)
    PROVE  IInv'
<1> USE DEF ReceiveObservation, Receive, Goto, Signal
<1>1. Classify(s, now) \in Verdict
  BY ClassifyVerdict, SetAssumption, NumberAssumption DEF IInv, TypeOK
<1>2. TypeOK'
  BY <1>1, NoneAssumption, NumberAssumption DEF IInv, TypeOK, PC, Ops, Verdict
<1>3. op'[r] = "observe" /\ pc'[r] = "load" /\ new'[r] \in Verdict
  BY <1>1 DEF IInv, TypeOK
<1>4. Sound(r)'
  <2>1. /\ attempt'[r] = 0 /\ tried'[r] = None
    BY DEF IInv, TypeOK, Sound, Working
  <2> QED BY <1>3, <2>1 DEF Sound, Working, Storing, Noted, Chosen, Waiting, Rendered
<1>5. \A q \in Requests \ {r} : Kept(q) /\ disturbed'[q] = disturbed[q]
  BY DEF IInv, TypeOK, Kept
<1> QED BY <1>2, <1>3, <1>4, <1>5, OwnStep

LEMMA ReceivePlacementStep ==
    ASSUME IInv, NEW r \in Requests, NEW kind \in {"route", "chat"}, NEW k \in Kinds,
           ReceivePlacement(r, kind, k)
    PROVE  IInv'
<1> USE DEF ReceivePlacement, Receive, Goto, shared
<1>1. TypeOK'
  BY NoneAssumption, NumberAssumption DEF IInv, TypeOK, PC, Ops
<1>2. op'[r] = kind /\ pc'[r] = "list" /\ asks'[r] = k /\ at'[r] = now /\ now \in 0..MaxTime
  BY DEF IInv, TypeOK
<1>3. Sound(r)'
  <2>1. attempt'[r] = 0 /\ tried'[r] = None /\ 0 < MaxAttempts
    BY NumberAssumption DEF IInv, TypeOK, Sound, Working
  <2> QED BY <1>2, <2>1 DEF Sound, Working, Storing, Noted, Chosen, Waiting, Rendered
<1>4. \A q \in Requests \ {r} : Kept(q) /\ disturbed'[q] = disturbed[q]
  BY DEF IInv, TypeOK, Kept
<1> QED BY <1>1, <1>2, <1>3, <1>4, OwnStep

LEMMA ReceiveJobStep ==
    ASSUME IInv, NEW r \in Requests, NEW kind \in {"discover", "publish"}, ReceiveJob(r, kind)
    PROVE  IInv'
<1> USE DEF ReceiveJob, Receive, Goto, shared
<1>1. TypeOK'
  BY NoneAssumption, NumberAssumption DEF IInv, TypeOK, PC, Ops
<1>2. op'[r] = kind /\ pc'[r] = "list"
  BY DEF IInv, TypeOK
<1>3. Sound(r)'
  <2>1. attempt'[r] = 0 /\ tried'[r] = None
    BY DEF IInv, TypeOK, Sound, Working
  <2> QED BY <1>2, <2>1 DEF Sound, Working, Storing, Noted, Chosen, Waiting, Rendered
<1>4. \A q \in Requests \ {r} : Kept(q) /\ disturbed'[q] = disturbed[q]
  BY DEF IInv, TypeOK, Kept
<1> QED BY <1>1, <1>2, <1>3, <1>4, OwnStep

-----------------------------------------------------------------------------
\* A row is read and stored

LEMMA LoadStep ==
    ASSUME IInv, NEW r \in Requests, Load(r)
    PROVE  IInv'
<1> USE DEF Load, Goto, shared
<1> DEFINE d == target[r]
<1>1. d \in Deployments /\ rows[d] \in Row \cup {None}
  BY DEF IInv, TypeOK
<1>2. /\ pc'[r] = "store" /\ op'[r] = op[r] /\ target'[r] = d /\ new'[r] = new[r]
      /\ attempt'[r] = attempt[r] /\ rows' = rows
      /\ seen'[r] = [Empty EXCEPT ![d] = rows[d]] /\ seen'[r][d] = rows[d]
  BY <1>1 DEF IInv, TypeOK, Empty
<1>3. op[r] \in {"put", "observe", "discover", "chat"} /\ Storing(r)
  BY DEF IInv, Sound, Working
<1>4. op[r] \in {"put", "discover"} => new[r] \in Row
  BY <1>3, ProbationaryRow DEF Storing
<1>5. TypeOK'
  <2>1. [Empty EXCEPT ![d] = rows[d]] \in [Deployments -> Row \cup {None}]
    BY <1>1 DEF Empty
  <2>2. /\ pc' \in [Requests -> PC] /\ seen' \in [Requests -> [Deployments -> Row \cup {None}]]
        /\ tried' \in [Requests -> Deployments \cup {None}]
        /\ disturbed' \in [Requests -> SUBSET Deployments]
    BY <1>1, <2>1 DEF IInv, TypeOK, PC
  <2>3. \A q \in Requests : pc'[q] # "idle" <=> op'[q] # None
    BY DEF IInv, TypeOK
  <2>4. \A q \in Requests : pc'[q] \in {"load", "store", "post"} => target'[q] \in Deployments
    BY <1>1 DEF IInv, TypeOK
  <2>5. \A q \in Requests : pc'[q] = "store" /\ seen'[q][target'[q]] = None => new'[q] \in Row
    <3>1. \A q \in Requests \ {r} : /\ pc'[q] = pc[q] /\ seen'[q] = seen[q]
                                    /\ target'[q] = target[q] /\ new'[q] = new[q]
      BY DEF IInv, TypeOK
    <3>2. rows[d] = None => new[r] \in Row
      BY <1>4
    <3> QED BY <1>2, <3>1, <3>2 DEF IInv, TypeOK
  <2> QED BY <2>2, <2>3, <2>4, <2>5 DEF IInv, TypeOK
<1>6. op[r] = "chat" => tried'[r] = d /\ disturbed'[r] = {}
  BY DEF IInv, TypeOK
<1>7. op[r] # "chat" => tried'[r] = tried[r]
  OBVIOUS
<1>8. Working(r)' /\ Chosen(r)' /\ Waiting(r)' /\ Rendered(r)'
  <2>1. asks'[r] = asks[r] /\ at'[r] = at[r]
    OBVIOUS
  <2>2. op[r] = "chat" => attempt[r] # 0
    BY <1>3 DEF Storing
  <2> QED BY <1>2, <1>3, <1>6, <1>7, <2>1, <2>2
         DEF IInv, Sound, Working, Chosen, Waiting, Rendered
<1>9. Storing(r)'
  BY <1>2, <1>3 DEF Storing
<1>10. Noted(r)'
  BY <1>2, <1>3, <1>6, <1>7 DEF Storing, Noted
<1>11. \A q \in Requests \ {r} : Kept(q) /\ disturbed'[q] = disturbed[q]
  BY DEF IInv, TypeOK, Kept
<1> QED BY <1>2, <1>3, <1>5, <1>8, <1>9, <1>10, <1>11, OwnStep DEF Sound

\* The committed row.
LEMMA CommitRow ==
    ASSUME IInv, NEW r \in Requests, Commit(r)
    PROVE  LET d == target[r]
               v == Stored(rows[d], seen[r][d], new[r])
           IN  /\ d \in Deployments
               /\ v \in Row
               /\ rows' = [rows EXCEPT ![d] = v]
               /\ rows'[d] = v
               /\ op[r] = "chat" /\ rows[d] = seen[r][d] =>
                      v.state = new[r].state /\ v.retry_at = new[r].retry_at
<1> DEFINE d == target[r]
           v == Stored(rows[d], seen[r][d], new[r])
<1>1. /\ d \in Deployments /\ rows \in [Deployments -> Row \cup {None}]
      /\ rows[d] \in Row \cup {None} /\ seen[r][d] \in Row \cup {None}
      /\ Storing(r) /\ Working(r) /\ pc[r] = "store"
  BY DEF IInv, TypeOK, Sound, Commit
<1>2. rows' = [rows EXCEPT ![d] = v] /\ rows'[d] = v
  BY <1>1 DEF Commit
<1>3. CASE seen[r][d] = None
  <2>1. new[r] \in Row /\ op[r] # "chat"
    BY <1>1, <1>3, ProbationaryRow DEF Storing
  <2>2. v = new[r]
    BY <1>3 DEF Stored
  <2> QED BY <1>1, <1>2, <2>1, <2>2
<1>4. CASE seen[r][d] # None
  <2>1. rows[d] \in Row /\ seen[r][d] \in Row
    BY <1>1, <1>4 DEF Storing
  <2>2. new[r] \in Row \cup Verdict
    BY <1>1, ProbationaryRow DEF Storing, Working
  <2> HIDE DEF d
  <2>3. /\ v \in Row
        /\ rows[d] = seen[r][d] => v.state = new[r].state /\ v.retry_at = new[r].retry_at
    BY <2>1, <2>2, StoredColumns
  <2> QED BY <1>1, <1>2, <2>3 DEF d
<1> QED BY <1>3, <1>4

\* What is left to show of a commit.
LEMMA CommitStep ==
    ASSUME IInv, NEW r \in Requests, Commit(r), TypeOK', Sound(r)',
           \A q \in Requests \ {r} : Kept(q) /\ disturbed'[q] = DisturbedBy(r)[q],
           op'[r] \in {op[r], None}
    PROVE  IInv'
<1>1. target[r] \in Deployments /\ published' = published
  BY CommitRow DEF Commit
<1>2. PICK v \in Row : rows' = [rows EXCEPT ![target[r]] = v]
  BY CommitRow
<1>3. ASSUME NEW q \in Requests PROVE Sound(q)'
  <2>1. CASE q = r
    BY <2>1
  <2>2. CASE q # r
    <3>1. disturbed'[q] = IF op[q] \in {"route", "chat"}
                          THEN disturbed[q] \cup {target[r]} ELSE disturbed[q]
      BY <2>2 DEF DisturbedBy
    <3>2. Sound(q) /\ Kept(q) /\ TypeOK
      BY <2>2 DEF IInv
    <3> QED BY <1>1, <1>2, <3>1, <3>2, DisturbedSound
  <2> QED BY <2>1, <2>2
<1>4. OnePublication'
  <2>1. \A q \in Requests \ {r} : op'[q] = op[q]
    BY DEF Kept
  <2> QED BY <2>1, NoneAssumption DEF IInv, OnePublication, Ops
<1> QED BY <1>3, <1>4 DEF IInv

LEMMA DisturbedType ==
    ASSUME TypeOK, NEW r \in Requests, target[r] \in Deployments
    PROVE  DisturbedBy(r) \in [Requests -> SUBSET Deployments]
BY DEF DisturbedBy, TypeOK

LEMMA StoreEndsStep ==
    ASSUME IInv, NEW r \in Requests, StoreEnds(r)
    PROVE  IInv'
<1> USE DEF StoreEnds, Clear, Goto
<1>1. target[r] \in Deployments /\ DisturbedBy(r) \in [Requests -> SUBSET Deployments]
  BY CommitRow, DisturbedType DEF IInv
<1>2. rows' \in [Deployments -> Row \cup {None}]
  <2>1. PICK v \in Row : rows' = [rows EXCEPT ![target[r]] = v]
    BY CommitRow
  <2> QED BY <2>1 DEF IInv, TypeOK
<1>3. TypeOK'
  BY <1>1, <1>2, NoneAssumption, NumberAssumption DEF IInv, TypeOK, PC, Ops, Empty, Commit
<1>4. /\ pc'[r] = "idle" /\ op'[r] = None /\ attempt'[r] = 0 /\ tried'[r] = None
      /\ None \notin Ops
  BY NoneAssumption DEF IInv, TypeOK
<1>5. Sound(r)'
  BY <1>4 DEF Sound, Working, Storing, Noted, Chosen, Waiting, Rendered, Ops
<1>6. \A q \in Requests \ {r} : Kept(q) /\ disturbed'[q] = DisturbedBy(r)[q]
  BY <1>1 DEF IInv, TypeOK, Kept
<1> QED BY <1>3, <1>4, <1>5, <1>6, CommitStep

LEMMA StoreRetriesStep ==
    ASSUME IInv, NEW r \in Requests, StoreRetries(r)
    PROVE  IInv'
<1> USE DEF StoreRetries, Goto
<1>1. target[r] \in Deployments /\ DisturbedBy(r) \in [Requests -> SUBSET Deployments]
  BY CommitRow, DisturbedType DEF IInv
<1>2. rows' \in [Deployments -> Row \cup {None}]
  <2>1. PICK v \in Row : rows' = [rows EXCEPT ![target[r]] = v]
    BY CommitRow
  <2> QED BY <2>1 DEF IInv, TypeOK
<1>3. TypeOK'
  <2>1. pc' \in [Requests -> PC] /\ pc[r] = "store" /\ pc'[r] = "list"
    BY DEF IInv, TypeOK, PC, Commit
  <2>2. at' \in [Requests -> 0..MaxTime \cup {None}] /\ disturbed' \in [Requests -> SUBSET Deployments]
    BY <1>1 DEF IInv, TypeOK
  <2>3. \A q \in Requests \ {r} : pc'[q] = pc[q]
    BY DEF IInv, TypeOK
  <2>4. \A q \in Requests : pc'[q] # "idle" <=> op'[q] # None
    BY <2>1, <2>3 DEF IInv, TypeOK
  <2>5. \A q \in Requests : pc'[q] \in {"load", "store", "post"} =>
            /\ target'[q] \in Deployments
            /\ pc'[q] = "store" /\ seen'[q][target'[q]] = None => new'[q] \in Row
    BY <2>1, <2>3 DEF IInv, TypeOK
  <2> QED BY <1>2, <2>1, <2>2, <2>4, <2>5 DEF IInv, TypeOK, Commit
<1>4. /\ pc'[r] = "list" /\ op'[r] = "chat" /\ at'[r] \in 0..MaxTime
      /\ attempt'[r] = attempt[r] /\ attempt[r] < MaxAttempts /\ asks'[r] = asks[r]
      /\ tried'[r] = tried[r] /\ new'[r] = new[r]
      /\ disturbed'[r] = disturbed[r]
  BY DEF IInv, TypeOK, DisturbedBy
<1>5. Working(r) /\ Storing(r) /\ Noted(r) /\ pc[r] = "store" /\ op[r] = "chat"
  BY DEF IInv, Sound, Commit
<1>6. Working(r)' /\ Storing(r)' /\ Chosen(r)' /\ Waiting(r)' /\ Rendered(r)'
  BY <1>4, <1>5 DEF Working, Storing, Chosen, Waiting, Rendered
<1>7. Noted(r)'
  <2>1. tried[r] # None => target[r] = tried[r] /\ new[r] \in Verdict /\ new[r].state # "AVAILABLE"
    BY <1>5 DEF Noted
  <2>2. tried[r] # None /\ tried[r] \notin disturbed[r] => rows[target[r]] = seen[r][target[r]]
    BY <1>5 DEF Noted
  <2>3. /\ rows'[target[r]] \in Row
        /\ rows[target[r]] = seen[r][target[r]] =>
              /\ rows'[target[r]].state = new[r].state
              /\ rows'[target[r]].retry_at = new[r].retry_at
    BY <1>5, CommitRow
  <2> QED BY <1>4, <2>1, <2>2, <2>3, ProbationaryRow DEF Noted
<1>8. \A q \in Requests \ {r} : Kept(q) /\ disturbed'[q] = DisturbedBy(r)[q]
  BY <1>1 DEF IInv, TypeOK, Kept
<1>9. op'[r] = op[r]
  OBVIOUS
<1> QED BY <1>3, <1>6, <1>7, <1>8, <1>9, CommitStep DEF Sound

LEMMA StoreDiscoveredStep ==
    ASSUME IInv, NEW r \in Requests, StoreDiscovered(r)
    PROVE  IInv'
<1> USE DEF StoreDiscovered, Goto
<1>1. target[r] \in Deployments /\ DisturbedBy(r) \in [Requests -> SUBSET Deployments]
  BY CommitRow, DisturbedType DEF IInv
<1>2. rows' \in [Deployments -> Row \cup {None}]
  <2>1. PICK v \in Row : rows' = [rows EXCEPT ![target[r]] = v]
    BY CommitRow
  <2> QED BY <2>1 DEF IInv, TypeOK
<1>3. TypeOK'
  <2>1. pc' \in [Requests -> PC] /\ pc[r] = "store" /\ pc'[r] = "next"
    BY DEF IInv, TypeOK, PC, Commit
  <2>2. at' \in [Requests -> 0..MaxTime \cup {None}] /\ disturbed' \in [Requests -> SUBSET Deployments]
    BY <1>1 DEF IInv, TypeOK
  <2>3. \A q \in Requests \ {r} : pc'[q] = pc[q]
    BY DEF IInv, TypeOK
  <2>4. \A q \in Requests : pc'[q] # "idle" <=> op'[q] # None
    BY <2>1, <2>3 DEF IInv, TypeOK
  <2>5. \A q \in Requests : pc'[q] \in {"load", "store", "post"} =>
            /\ target'[q] \in Deployments
            /\ pc'[q] = "store" /\ seen'[q][target'[q]] = None => new'[q] \in Row
    BY <2>1, <2>3 DEF IInv, TypeOK
  <2> QED BY <1>2, <2>1, <2>2, <2>4, <2>5 DEF IInv, TypeOK, Commit
<1>4. /\ pc'[r] = "next" /\ op'[r] = "discover"
      /\ attempt'[r] = attempt[r] /\ tried'[r] = tried[r]
  BY DEF IInv, TypeOK
<1>5. Sound(r)'
  BY <1>4 DEF IInv, Sound, Working, Storing, Noted, Chosen, Waiting, Rendered
<1>6. \A q \in Requests \ {r} : Kept(q) /\ disturbed'[q] = DisturbedBy(r)[q]
  BY <1>1 DEF IInv, TypeOK, Kept
<1>7. op'[r] = op[r]
  OBVIOUS
<1> QED BY <1>3, <1>5, <1>6, <1>7, CommitStep

-----------------------------------------------------------------------------
\* Discovery

LEMMA ListKnownStep ==
    ASSUME IInv, NEW r \in Requests, ListKnown(r)
    PROVE  IInv'
<1> USE DEF ListKnown, Goto, shared
<1>1. TypeOK'
  BY NoneAssumption, NumberAssumption DEF IInv, TypeOK, PC, Ops
<1>2. /\ pc'[r] = "next" /\ op'[r] = "discover"
      /\ attempt'[r] = attempt[r] /\ tried'[r] = tried[r]
  BY DEF IInv, TypeOK
<1>3. Sound(r)'
  BY <1>2 DEF IInv, Sound, Working, Storing, Noted, Chosen, Waiting, Rendered
<1>4. \A q \in Requests \ {r} : Kept(q) /\ disturbed'[q] = disturbed[q]
  BY DEF IInv, TypeOK, Kept
<1> QED BY <1>1, <1>2, <1>3, <1>4, OwnStep

LEMMA CreateNextStep ==
    ASSUME IInv, NEW r \in Requests, NEW d \in Discovered, CreateNext(r, d)
    PROVE  IInv'
<1> USE DEF CreateNext, Goto, shared
<1>1. d \in Deployments /\ Probationary \in Row
  BY SetAssumption, ProbationaryRow
<1>2. TypeOK'
  BY <1>1, NoneAssumption, NumberAssumption DEF IInv, TypeOK, PC, Ops
<1>3. op[r] = "discover"
  BY DEF IInv, Sound, Working
<1>4. /\ pc'[r] = "load" /\ op'[r] = "discover" /\ new'[r] = Probationary
      /\ attempt'[r] = attempt[r] /\ tried'[r] = tried[r]
  BY <1>3 DEF IInv, TypeOK
<1>5. Sound(r)'
  BY <1>4 DEF IInv, Sound, Working, Storing, Noted, Chosen, Waiting, Rendered
<1>6. \A q \in Requests \ {r} : Kept(q) /\ disturbed'[q] = disturbed[q]
  BY DEF IInv, TypeOK, Kept
<1> QED BY <1>2, <1>4, <1>5, <1>6, OwnStep

-----------------------------------------------------------------------------
\* Placement

LEMMA PlaceStep ==
    ASSUME IInv, NEW r \in Requests, Place(r)
    PROVE  IInv'
<1> USE DEF Place, Goto, shared, Undisturbed
<1>1. PICK d \in Best(rows, asks[r], at[r]) : target' = [target EXCEPT ![r] = d]
  OBVIOUS
<1>2. d \in Deployments /\ Eligible(rows[d], asks[r], at[r])
  BY DEF Best
<1>3. TypeOK'
  BY <1>1, <1>2, NoneAssumption, NumberAssumption DEF IInv, TypeOK, PC, Ops
<1>4. /\ op[r] \in {"route", "chat"} /\ op'[r] = op[r] /\ asks'[r] = asks[r] /\ at'[r] = at[r]
      /\ attempt'[r] = attempt[r] /\ tried'[r] = tried[r] /\ new'[r] = new[r]
      /\ target'[r] = d /\ seen'[r] = rows /\ rows' = rows
      /\ pc'[r] = IF op[r] = "chat" THEN "post" ELSE "placed"
  BY <1>1 DEF IInv, TypeOK
<1>5. disturbed'[r] = IF attempt[r] = 0 THEN {} ELSE disturbed[r]
  BY DEF IInv, TypeOK
<1>6. Working(r) /\ Noted(r) /\ pc[r] = "list"
  BY DEF IInv, Sound
<1>7. tried'[r] # None => disturbed'[r] = disturbed[r]
  BY <1>4, <1>5, <1>6 DEF Working
<1>8. Working(r)' /\ Storing(r)' /\ Waiting(r)' /\ Rendered(r)'
  BY <1>4, <1>6 DEF Working, Storing, Waiting, Rendered
<1>9. Noted(r)'
  BY <1>4, <1>6, <1>7 DEF Noted
<1>10. Chosen(r)'
  <2>1. ASSUME pc'[r] = "post", d = tried[r], d \notin disturbed'[r]
        PROVE  new[r].retry_at # None /\ new[r].retry_at <= at[r]
    <3>1. op[r] = "chat" /\ tried[r] # None /\ tried[r] \notin disturbed[r]
      BY <1>2, <1>4, <1>7, <2>1, NoneAssumption
    <3>2. /\ rows[d].state = new[r].state /\ new[r].state # "AVAILABLE"
          /\ rows[d].retry_at = new[r].retry_at
      BY <1>6, <2>1, <3>1 DEF Noted
    <3> QED BY <1>2, <3>2 DEF Eligible, Usable
  <2> QED BY <1>2, <1>4, <2>1 DEF Chosen
<1>11. \A q \in Requests \ {r} : Kept(q) /\ disturbed'[q] = disturbed[q]
  BY <1>1 DEF IInv, TypeOK, Kept
<1> QED BY <1>3, <1>4, <1>8, <1>9, <1>10, <1>11, OwnStep DEF Sound

LEMMA NoEligibleModelStep ==
    ASSUME IInv, NEW r \in Requests, NoEligibleModel(r)
    PROVE  IInv'
<1> USE DEF NoEligibleModel, Goto, shared, Undisturbed
<1>1. TypeOK'
  BY NoneAssumption, NumberAssumption DEF IInv, TypeOK, PC, Ops
<1>2. /\ op[r] \in {"route", "chat"} /\ op'[r] = op[r] /\ asks'[r] = asks[r] /\ at'[r] = at[r]
      /\ attempt'[r] = attempt[r] /\ tried'[r] = tried[r] /\ new'[r] = new[r]
      /\ pc'[r] = "relist" /\ rows' = rows
  BY DEF IInv, TypeOK
<1>3. disturbed'[r] = IF attempt[r] = 0 THEN {} ELSE disturbed[r]
  BY DEF IInv, TypeOK
<1>4. Working(r) /\ Noted(r) /\ pc[r] = "list"
  BY DEF IInv, Sound
<1>5. Working(r)' /\ Storing(r)' /\ Chosen(r)' /\ Rendered(r)'
  BY <1>2, <1>4 DEF Working, Storing, Chosen, Rendered
<1>6. Noted(r)'
  <2>1. tried'[r] # None => disturbed'[r] = disturbed[r]
    BY <1>2, <1>3, <1>4 DEF Working
  <2> QED BY <1>2, <1>4, <2>1 DEF Noted
<1>7. Waiting(r)'
  <2>1. asks[r] \in Kinds /\ at[r] \in Nat
    BY <1>2, <1>4, NumberAssumption DEF Working
  <2>2. rows \in [Deployments -> Row \cup {None}]
    BY DEF IInv, TypeOK
  <2>3. \A d \in Deployments : ~Eligible(rows[d], asks[r], at[r])
    BY <2>1, <2>2, BestExists
  <2> QED BY <1>2, <2>3 DEF Waiting
<1>8. \A q \in Requests \ {r} : Kept(q) /\ disturbed'[q] = disturbed[q]
  BY DEF IInv, TypeOK, Kept
<1> QED BY <1>1, <1>2, <1>5, <1>6, <1>7, <1>8, OwnStep DEF Sound

LEMMA WaitForComputeStep ==
    ASSUME IInv, NEW r \in Requests, WaitForCompute(r)
    PROVE  IInv'
<1> USE DEF WaitForCompute, Goto, shared
<1>1. Sound(r) /\ pc[r] = "relist" /\ op[r] \in {"route", "chat"}
      /\ asks[r] \in Kinds /\ at[r] \in Nat
  BY NumberAssumption DEF IInv, Sound, Working
<1>2. NextRetry(rows, asks[r], at[r]) \in Nat \cup {None}
  <2>1. rows \in [Deployments -> Row \cup {None}]
    BY DEF IInv, TypeOK
  <2> QED BY <1>1, <2>1, NextRetryLeast
<1>3. TypeOK'
  BY <1>2, NoneAssumption, NumberAssumption DEF IInv, TypeOK, PC, Ops
<1>4. /\ op'[r] = op[r] /\ asks'[r] = asks[r] /\ at'[r] = at[r]
      /\ attempt'[r] = attempt[r] /\ tried'[r] = tried[r] /\ new'[r] = new[r]
      /\ disturbed'[r] = disturbed[r] /\ pc'[r] = "waiting" /\ rows' = rows
      /\ wake'[r] = NextRetry(rows, asks[r], at[r])
  BY DEF IInv, TypeOK
<1>5. Working(r)' /\ Storing(r)' /\ Noted(r)' /\ Chosen(r)' /\ Rendered(r)'
  BY <1>1, <1>4 DEF Sound, Working, Storing, Noted, Chosen, Rendered
<1>6. Waiting(r)'
  BY <1>1, <1>4 DEF Sound, Waiting
<1>7. \A q \in Requests \ {r} : Kept(q) /\ disturbed'[q] = disturbed[q]
  BY DEF IInv, TypeOK, Kept
<1> QED BY <1>3, <1>4, <1>5, <1>6, <1>7, OwnStep DEF Sound

LEMMA PostRetryableStep ==
    ASSUME IInv, NEW r \in Requests, NEW s \in Retryable, PostRetryable(r, s)
    PROVE  IInv'
<1> USE DEF PostRetryable, Goto, Signal
<1>1. Classify(s, now) \in Verdict /\ Classify(s, now).state # "AVAILABLE"
  BY ClassifyVerdict, SetAssumption, NumberAssumption DEF IInv, TypeOK, Retryable
<1>2. Sound(r) /\ pc[r] = "post" /\ op[r] = "chat" /\ attempt[r] < MaxAttempts
      /\ attempt[r] \in Nat
  BY NumberAssumption DEF IInv, TypeOK, Sound, Working
<1>3. TypeOK'
  BY <1>1, <1>2, NoneAssumption, NumberAssumption DEF IInv, TypeOK, PC, Ops, Verdict
<1>4. /\ pc'[r] = "load" /\ op'[r] = op[r] /\ asks'[r] = asks[r] /\ at'[r] = at[r]
      /\ attempt'[r] = attempt[r] + 1 /\ tried'[r] = tried[r]
      /\ new'[r] = Classify(s, now)
  BY DEF IInv, TypeOK
<1>5. Sound(r)'
  BY <1>1, <1>2, <1>4 DEF Sound, Working, Storing, Noted, Chosen, Waiting, Rendered
<1>6. \A q \in Requests \ {r} : Kept(q) /\ disturbed'[q] = disturbed[q]
  BY DEF IInv, TypeOK, Kept
<1> QED BY <1>2, <1>3, <1>4, <1>5, <1>6, OwnStep

-----------------------------------------------------------------------------
\* Publication

LEMMA LoadDeploymentsStep ==
    ASSUME IInv, NEW r \in Requests, LoadDeployments(r)
    PROVE  IInv'
<1> USE DEF LoadDeployments, Goto, shared
<1>1. TypeOK'
  BY NoneAssumption, NumberAssumption DEF IInv, TypeOK, PC, Ops
<1>2. /\ pc'[r] = "replace" /\ op'[r] = "publish" /\ op[r] = "publish"
      /\ attempt'[r] = attempt[r] /\ tried'[r] = tried[r]
  BY DEF IInv, TypeOK
<1>3. Sound(r)'
  BY <1>2 DEF IInv, Sound, Working, Storing, Noted, Chosen, Waiting, Rendered
<1>4. \A q \in Requests \ {r} : Kept(q) /\ disturbed'[q] = disturbed[q]
  BY DEF IInv, TypeOK, Kept
<1> QED BY <1>1, <1>2, <1>3, <1>4, OwnStep

LEMMA PublishConfigStep ==
    ASSUME IInv, NEW r \in Requests, PublishConfig(r)
    PROVE  IInv'
<1> USE DEF PublishConfig, Goto
<1>1. TypeOK'
  BY NoneAssumption, NumberAssumption DEF IInv, TypeOK, PC, Ops
<1>2. op[r] = "publish"
  BY DEF IInv, Sound, Working
<1>3. /\ pc'[r] = "published" /\ op'[r] = "publish"
      /\ attempt'[r] = attempt[r] /\ tried'[r] = tried[r]
      /\ at'[r] = now /\ seen'[r] = seen[r]
  BY <1>2 DEF IInv, TypeOK
<1>4. Rendered(r)'
  BY <1>3 DEF Rendered
<1>5. Sound(r)'
  BY <1>3, <1>4 DEF IInv, Sound, Working, Storing, Noted, Chosen, Waiting
<1>6. \A q \in Requests \ {r} : Kept(q) /\ disturbed'[q] = disturbed[q]
  BY DEF IInv, TypeOK, Kept
<1> QED BY <1>1, <1>2, <1>5, <1>6, OwnStep

-----------------------------------------------------------------------------
\* The invariant

LEMMA InitEstablishes == Init => IInv
<1> SUFFICES ASSUME Init PROVE IInv
  OBVIOUS
<1>1. TypeOK
  BY NumberAssumption, NoneAssumption DEF Init, TypeOK, PC, Ops, Empty
<1>2. \A r \in Requests : Sound(r)
  BY NoneAssumption
     DEF Init, Sound, Working, Storing, Noted, Chosen, Waiting, Rendered, Ops
<1>3. OnePublication
  BY NoneAssumption DEF Init, OnePublication, Ops
<1> QED BY <1>1, <1>2, <1>3 DEF IInv

LEMMA NextPreserves == IInv /\ [Next]_vars => IInv'
<1> SUFFICES ASSUME IInv, [Next]_vars PROVE IInv'
  OBVIOUS
<1>1. CASE UNCHANGED vars
  <2>1. TypeOK'
    BY <1>1 DEF IInv, TypeOK, vars, shared, local
  <2>2. \A q \in Requests : Sound(q)'
    BY <1>1, KeptSound DEF IInv, Kept, vars, shared, local
  <2>3. OnePublication'
    BY <1>1 DEF IInv, OnePublication, vars, local
  <2> QED BY <2>1, <2>2, <2>3 DEF IInv
<1>2. CASE Tick
  BY <1>2, TickStep
<1>3. ASSUME NEW r \in Requests,
             \/ \E d \in Deployments, values \in Puts : ReceivePut(r, d, values)
             \/ \E d \in Deployments, s \in Observations : ReceiveObservation(r, d, s)
             \/ \E kind \in {"route", "chat"}, k \in Kinds : ReceivePlacement(r, kind, k)
             \/ \E kind \in {"discover", "publish"} : ReceiveJob(r, kind)
      PROVE  IInv'
  BY <1>3, ReceivePutStep, ReceiveObservationStep, ReceivePlacementStep, ReceiveJobStep
<1>4. ASSUME NEW r \in Requests, LoadFails(r) \/ StoreFails(r) \/ Synced(r) \/ Answer(r) \/ Abort(r)
      PROVE  IInv'
  BY <1>4, ReleaseStep DEF LoadFails, StoreFails, Synced, Answer, Abort
<1>5. ASSUME NEW r \in Requests,
             \/ Load(r) \/ StoreEnds(r) \/ StoreRetries(r) \/ StoreDiscovered(r)
             \/ ListKnown(r) \/ \E d \in Discovered : CreateNext(r, d)
      PROVE  IInv'
  BY <1>5, LoadStep, StoreEndsStep, StoreRetriesStep, StoreDiscoveredStep,
     ListKnownStep, CreateNextStep
<1>6. ASSUME NEW r \in Requests,
             \/ Place(r) \/ NoEligibleModel(r) \/ WaitForCompute(r)
             \/ \E s \in Retryable : PostRetryable(r, s)
             \/ LoadDeployments(r) \/ PublishConfig(r)
      PROVE  IInv'
  BY <1>6, PlaceStep, NoEligibleModelStep, WaitForComputeStep, PostRetryableStep,
     LoadDeploymentsStep, PublishConfigStep
<1> QED BY <1>1, <1>2, <1>3, <1>4, <1>5, <1>6 DEF Next

\* What every interleaving of puts, observations, placements, discoveries and
\* publications keeps (the asyncio tasks of the controller).
LEMMA Invariance == Spec => []IInv
<1>1. Init => IInv
  BY InitEstablishes
<1>2. IInv /\ [Next]_vars => IInv'
  BY NextPreserves
<1> QED BY <1>1, <1>2, PTL DEF Spec

\* The table, the published set and every request stay well formed (the API's
\* handlers, record_availability, forward_chat_completion).
THEOREM TypeCorrect == Spec => []TypeOK
<1>1. IInv => TypeOK
  BY DEF IInv
<1> QED BY <1>1, Invariance, PTL

LEMMA InvariantHonest == IInv => WaitIsHonest
<1> SUFFICES ASSUME IInv, NEW r \in Requests, pc[r] = "waiting", disturbed[r] = {},
                    NEW t \in at[r]..MaxTime
             PROVE  (\E d \in Deployments : Eligible(rows[d], asks[r], t))
                        <=> (wake[r] # None /\ wake[r] <= t)
  BY DEF WaitIsHonest
<1> DEFINE k == asks[r]
           later == Resets(rows, k, at[r])
<1>1. Waiting(r) /\ k \in Kinds /\ at[r] \in Nat /\ t \in Nat /\ at[r] <= t
  BY NumberAssumption DEF IInv, Sound, Working
<1>2. rows \in [Deployments -> Row \cup {None}]
  BY DEF IInv, TypeOK
<1>3. /\ \A d \in Deployments : ~Eligible(rows[d], k, at[r])
      /\ wake[r] = NextRetry(rows, k, at[r])
  BY <1>1 DEF Waiting
<1>4. /\ later \subseteq Nat
      /\ later = {} => wake[r] = None
      /\ later # {} => wake[r] \in later /\ \A y \in later : wake[r] <= y
  BY <1>1, <1>2, <1>3, NextRetryLeast
<1>5. None \notin Nat
  BY NoneAssumption
<1>6. ASSUME NEW d \in Deployments, Eligible(rows[d], k, t)
      PROVE  wake[r] # None /\ wake[r] <= t
  <2>1. Fits(rows[d], k) /\ Usable(rows[d], t) /\ ~Usable(rows[d], at[r])
    BY <1>3, <1>6 DEF Eligible
  <2>2. rows[d].retry_at \in Nat /\ rows[d].retry_at <= t /\ ~(rows[d].retry_at <= at[r])
    BY <1>2, <1>5, <2>1, RowColumns DEF Fits, Usable
  <2>3. rows[d].retry_at \in later
    BY <1>1, <1>5, <2>1, <2>2 DEF Resets
  <2> HIDE DEF later
  <2>4. wake[r] \in Nat /\ wake[r] <= rows[d].retry_at
    BY <1>4, <2>3
  <2> QED BY <1>1, <1>5, <2>2, <2>4
<1>7. ASSUME wake[r] # None, wake[r] <= t
      PROVE  \E d \in Deployments : Eligible(rows[d], k, t)
  <2>1. wake[r] \in later
    BY <1>4, <1>7
  <2>2. PICK d \in Deployments : Fits(rows[d], k) /\ wake[r] = rows[d].retry_at
    BY <2>1 DEF Resets
  <2> QED BY <1>7, <2>2 DEF Eligible, Usable
<1> QED BY <1>6, <1>7

\* A WAITING_COMPUTE answer names the first time at which a deployment will be
\* usable if none changes (place, next_retry_at).
THEOREM WaitingIsHonest == Spec => []WaitIsHonest
<1> QED BY Invariance, InvariantHonest, PTL

\* The gateway does not repeat a failed call at once (forward_chat_completion).
THEOREM RetriesGoElsewhere == Spec => []RetryElsewhere
<1>1. IInv => RetryElsewhere
  BY DEF IInv, Sound, Chosen, RetryElsewhere
<1> QED BY <1>1, Invariance, PTL

\* What select_candidate selects, is_materializable publishes.
THEOREM SelectionIsServed == Spec => []SelectedIsServed
<1>1. IInv => SelectedIsServed
  <2> SUFFICES ASSUME IInv, NEW r \in Requests, NEW q \in Requests,
                      pc[r] = "post", pc[q] = "published",
                      seen[r] = seen[q], at[r] = at[q]
               PROVE  target[r] \in published \/ seen[r][target[r]].development_only
    BY DEF SelectedIsServed
  <2>1. Eligible(seen[r][target[r]], asks[r], at[r]) /\ asks[r] \in Kinds
    BY DEF IInv, Sound, Working, Chosen
  <2>2. published = {d \in Deployments : Materializable(seen[q][d], at[q])}
    BY DEF IInv, Sound, Rendered
  <2>3. target[r] \in Deployments
    BY DEF IInv, TypeOK
  <2>4. asks[r].capability \in Capabilities
    BY <2>1, SetAssumption DEF RouteRequest
  <2> QED BY <2>1, <2>2, <2>3, <2>4 DEF Eligible, Fits, Serveable, Materializable
<1> QED BY <1>1, Invariance, PTL

-----------------------------------------------------------------------------
\* Discovery

\* An update with the values of a discovered deployment.
LEMMA ProbationaryUpdate ==
    ASSUME NEW row \in Row, NEW read \in Row, NEW c \in Capabilities, NEW t \in Nat,
           InService(Stored(row, read, Probationary), c, t)
    PROVE  InService(row, c, t)
<1> DEFINE v == Stored(row, read, Probationary)
<1>1. /\ Probationary.enabled = FALSE /\ Probationary.capability_scores[c] = 0
      /\ Probationary.state = "QUARANTINED" /\ Probationary.retry_at = None
      /\ Probationary \in Row \cup Verdict
  BY ProbationaryRow DEF Probationary, Discovery
<1>2. \A x \in Columns : v[x] \in {row[x], Probationary[x]}
  BY <1>1, StoredColumns
<1>3. v.enabled /\ v.capability_scores[c] > 0 /\ Usable(v, t)
  BY DEF InService
<1> HIDE DEF v
<1>4. /\ v.enabled \in {row.enabled, Probationary.enabled}
      /\ v.state \in {row.state, Probationary.state}
      /\ v.retry_at \in {row.retry_at, Probationary.retry_at}
      /\ v.capability_scores \in {row.capability_scores, Probationary.capability_scores}
  BY <1>2 DEF Columns
<1>5. row.enabled
  BY <1>1, <1>3, <1>4
<1>6. row.capability_scores[c] > 0
  BY <1>1, <1>3, <1>4
<1>7. Usable(row, t)
  BY <1>1, <1>3, <1>4 DEF Usable
<1> QED BY <1>5, <1>6, <1>7, ProbationaryRow DEF InService

LEMMA DiscoveredRow ==
    ASSUME IInv, NEW r \in Requests, StoreDiscovered(r),
           NEW d \in Deployments, NEW k \in Capabilities, NEW t \in 0..MaxTime,
           InService(rows'[d], k, t)
    PROVE  InService(rows[d], k, t)
<1> DEFINE c == target[r]
           v == Stored(rows[c], seen[r][c], new[r])
<1>1. /\ c \in Deployments /\ rows' = [rows EXCEPT ![c] = v] /\ rows'[c] = v
      /\ rows \in [Deployments -> Row \cup {None}]
  BY CommitRow DEF StoreDiscovered, IInv, TypeOK
<1>2. CASE d # c
  BY <1>1, <1>2
<1>3. CASE d = c
  <2>1. /\ new[r] = Probationary /\ Probationary \in Row /\ seen[r][c] \in Row \cup {None}
        /\ seen[r][c] # None => rows[c] \in Row
    BY <1>1, ProbationaryRow DEF IInv, TypeOK, Sound, Storing, StoreDiscovered, Commit
  <2>2. CASE seen[r][c] = None
    <3>1. v = Probationary
      BY <2>1, <2>2 DEF Stored
    <3> QED BY <1>1, <1>3, <3>1 DEF InService, Probationary, Discovery
  <2>3. CASE seen[r][c] # None
    <3>1. rows[c] \in Row /\ seen[r][c] \in Row /\ v = Stored(rows[c], seen[r][c], Probationary)
      BY <2>1, <2>3
    <3>2. InService(v, k, t)
      BY <1>1, <1>3
    <3> HIDE DEF v, c
    <3> QED BY <1>3, <3>1, <3>2, ProbationaryUpdate
  <2> QED BY <2>2, <2>3
<1> QED BY <1>2, <1>3

\* Only StoreDiscovered takes a request from its commit to the next model.
LEMMA DiscoveryCommits ==
    ASSUME IInv, [Next]_vars, NEW r \in Requests, pc[r] = "store", pc'[r] = "next"
    PROVE  StoreDiscovered(r)
<1>1. ASSUME NEW q \in Requests, NEW step \in PC,
             pc' = [pc EXCEPT ![q] = step], q # r \/ step # "next"
      PROVE  FALSE
  BY <1>1 DEF IInv, TypeOK
<1>2. ASSUME UNCHANGED pc PROVE FALSE
  BY <1>2
<1>3. CASE UNCHANGED vars \/ Tick
  BY <1>2, <1>3 DEF vars, local, Tick
<1>4. PICK q \in Requests :
          \/ \E d \in Deployments, values \in Puts : ReceivePut(q, d, values)
          \/ \E d \in Deployments, s \in Observations : ReceiveObservation(q, d, s)
          \/ \E kind \in {"route", "chat"}, k \in Kinds : ReceivePlacement(q, kind, k)
          \/ \E kind \in {"discover", "publish"} : ReceiveJob(q, kind)
          \/ Load(q) \/ LoadFails(q) \/ StoreEnds(q) \/ StoreRetries(q) \/ StoreDiscovered(q)
          \/ StoreFails(q) \/ ListKnown(q) \/ \E d \in Discovered : CreateNext(q, d)
          \/ Synced(q) \/ Place(q) \/ NoEligibleModel(q) \/ WaitForCompute(q)
          \/ \E s \in Retryable : PostRetryable(q, s)
          \/ Answer(q) \/ LoadDeployments(q) \/ PublishConfig(q) \/ Abort(q)
  BY <1>3 DEF Next
<1>5. \A step \in PC : pc' = [pc EXCEPT ![q] = step] => q = r /\ step = "next"
  BY <1>1
<1>6. CASE StoreDiscovered(q)
  BY <1>5, <1>6 DEF StoreDiscovered, Goto, PC
<1>7. CASE ListKnown(q)
  BY <1>5, <1>7 DEF ListKnown, Goto, PC
<1>8. CASE ~StoreDiscovered(q) /\ ~ListKnown(q)
  <2>1. \E step \in PC \ {"next"} : pc' = [pc EXCEPT ![q] = step]
    BY <1>4, <1>8
       DEF ReceivePut, ReceiveObservation, ReceivePlacement, ReceiveJob, Receive, Load, LoadFails,
           StoreEnds, StoreRetries, StoreFails, CreateNext, Synced, Place, NoEligibleModel,
           WaitForCompute, PostRetryable, Answer, LoadDeployments, PublishConfig, Abort,
           Release, Clear, Goto, PC
  <2> QED BY <1>5, <2>1
<1> QED BY <1>6, <1>7, <1>8

\* What a discovery commits puts no deployment into service that was not, however
\* its columns mix with what others have stored (sync_provider_discovery,
\* upsert_deployment).
THEOREM DiscoveryIsHarmless == Spec => DiscoveryQualifiesNothing
<1>1. IInv /\ [Next]_vars =>
          [\A r \in Requests :
              pc[r] = "store" /\ pc'[r] = "next" =>
                  \A d \in Deployments, c \in Capabilities, t \in 0..MaxTime :
                      InService(rows'[d], c, t) => InService(rows[d], c, t)]_vars
  BY DiscoveryCommits, DiscoveredRow
<1> QED BY <1>1, Invariance, PTL DEF Spec, DiscoveryQualifiesNothing

=============================================================================
