----------------------------- MODULE RiskProofs -----------------------------
(***************************************************************************)
(* Theorems about Risk, for every set of transactions, of anomalies and of *)
(* requests at once, whatever the payments, the thresholds and the digits  *)
(* that deviate.                                                           *)
(***************************************************************************)
EXTENDS Risk, FiniteSetTheorems, TLAPS

Scanning(p) == requests[p].step = "scanning"

Reviewing(p) == requests[p].step \in {"reviewing", "reselected"}

Scoring(p) == requests[p].step \in {"listed", "rated"}

LEMMA RequestKinds ==
    ASSUME TypeOK, NEW p \in Worker
    PROVE  /\ Scanning(p) => requests[p] \in ScanRequest
           /\ Reviewing(p) => requests[p] \in DispositionRequest
           /\ Scoring(p) => requests[p] \in ScoreRequest
           /\ requests[p] = Idle => ~ Scanning(p) /\ ~ Reviewing(p) /\ ~ Scoring(p)
  BY DEF TypeOK, Idle, ScanRequest, DispositionRequest, ScoreRequest, Scanning, Reviewing,
         Scoring

(***************************************************************************)
(* The inductive invariant                                                 *)
(***************************************************************************)
OnRecord(key) == \E a \in Anomaly : anomalies[a] # None /\ KeyOf(anomalies[a].candidate) = key

\* The severity is that of an anomaly of the transaction.
Rated(t, severity) ==
    \E a \in Anomaly :
        /\ anomalies[a] # None
        /\ anomalies[a].candidate.transaction = t
        /\ anomalies[a].candidate.severity = severity

\* An open row, as it is or as it was loaded, names no one.
Pristine(row) == row.status = "open" => row.reviewed_by = None

\* What a request has found and no other request takes back.
RequestFits(p) ==
    LET q == requests[p]
    IN  /\ Scanning(p) => /\ \A c \in q.found : Supported(c)
                          /\ \A key \in q.open : OnRecord(key)
        /\ Reviewing(p) => /\ anomalies[q.anomaly] # None
                           /\ Pristine(q.row)
                           /\ q.row.status # "open" => anomalies[q.anomaly].status # "open"
        /\ Scoring(p) => /\ q.listed \subseteq transactions
                         /\ \A t \in Transaction, s \in Severity :
                               q.rule[t] = s => Rated(t, s)

AnomalyFits(a) ==
    anomalies[a] # None =>
        /\ Pristine(anomalies[a])
        /\ \A c \in AnomalyCandidate : anomalies[a].candidate = c => Supported(c)

ScoreFits(t) ==
    scores[t] # None =>
        /\ t \in transactions
        /\ \A s \in Severity : scores[t].rule = s => Rated(t, s)

RiskInv ==
    /\ TypeOK
    /\ IsFiniteSet(transactions)
    /\ \A p \in Worker : RequestFits(p)
    /\ \A a \in Anomaly : AnomalyFits(a)
    /\ \A t \in Transaction : ScoreFits(t)
    /\ \A key \in covered : OnRecord(key)

LEMMA InvFlags == RiskInv => FlagsSupported
  <1> SUFFICES ASSUME RiskInv PROVE FlagsSupported
    OBVIOUS
  <1>1. ASSUME NEW a \in Anomaly, anomalies[a] # None
        PROVE  Supported(anomalies[a].candidate)
    <2>1. AnomalyFits(a) /\ anomalies[a].candidate \in AnomalyCandidate
      BY <1>1 DEF RiskInv, TypeOK, AnomalyRow
    <2> QED BY <1>1, <2>1 DEF AnomalyFits
  <1>2. ASSUME NEW t \in Transaction, scores[t] # None
        PROVE  /\ t \in transactions
               /\ \/ scores[t].rule = None
                  \/ \E a \in Anomaly :
                        /\ anomalies[a] # None /\ anomalies[a].candidate.transaction = t
                        /\ anomalies[a].candidate.severity = scores[t].rule
    <2>1. ScoreFits(t) /\ scores[t].rule \in Severity \cup {None}
      BY <1>2 DEF RiskInv, TypeOK, Score
    <2> QED BY <1>2, <2>1 DEF ScoreFits, Rated
  <1> QED BY <1>1, <1>2 DEF FlagsSupported

LEMMA InvScans == RiskInv => ScansLeaveNothing
  BY DEF RiskInv, OnRecord, ScansLeaveNothing

LEMMA InitRiskInv == Init => RiskInv
  <1> SUFFICES ASSUME Init PROVE RiskInv
    OBVIOUS
  <1>1. TypeOK
    BY DEF Init, TypeOK
  <1>2. ASSUME NEW p \in Worker PROVE RequestFits(p)
    BY DEF Init, RequestFits, Scanning, Reviewing, Scoring, Idle
  <1>3. ASSUME NEW a \in Anomaly PROVE AnomalyFits(a)
    BY DEF Init, AnomalyFits
  <1>4. \A t \in Transaction : ScoreFits(t)
    BY DEF Init, ScoreFits
  <1>5. IsFiniteSet(transactions)
    BY FS_EmptySet DEF Init
  <1> QED BY <1>1, <1>2, <1>3, <1>4, <1>5 DEF Init, RiskInv

(***************************************************************************)
(* What the steps do                                                       *)
(***************************************************************************)
\* The others' requests are left alone.
Others(p) == \A o \in Worker : o # p => requests'[o] = requests[o]

RequestsTyped ==
    requests' \in [Worker -> {Idle} \cup ScanRequest \cup DispositionRequest \cup ScoreRequest]

LEMMA EndsRequest ==
    ASSUME TypeOK, NEW p \in Worker, Done(p)
    PROVE  requests'[p] = Idle /\ Others(p) /\ RequestsTyped /\ RequestFits(p)'
  BY DEF TypeOK, Done, Others, RequestsTyped, RequestFits, Scanning, Reviewing, Scoring, Idle

\* What every step leaves to the others: transactions and anomalies stay, and an
\* anomaly never opens again.
Advances ==
    /\ transactions \subseteq transactions'
    /\ \A a \in Anomaly : anomalies[a] # None =>
          /\ anomalies'[a] # None
          /\ anomalies'[a].candidate = anomalies[a].candidate
          /\ anomalies[a].status # "open" => anomalies'[a].status # "open"

LEMMA SupportedStays ==
    ASSUME NEW c \in AnomalyCandidate, Supported(c), transactions \subseteq transactions'
    PROVE  Supported(c)'
  <1>1. c.type \in AnomalyType
    BY DEF AnomalyCandidate
  <1> QED BY <1>1 DEF Supported, AnomalyType

LEMMA RecordStays ==
    ASSUME Advances
    PROVE  /\ \A key : OnRecord(key) => OnRecord(key)'
           /\ \A t, s : Rated(t, s) => Rated(t, s)'
  <1>1. ASSUME NEW key, OnRecord(key) PROVE OnRecord(key)'
    BY <1>1 DEF Advances, OnRecord, KeyOf
  <1>2. ASSUME NEW t, NEW s, Rated(t, s) PROVE Rated(t, s)'
    BY <1>2 DEF Advances, Rated
  <1> QED BY <1>1, <1>2

LEMMA OthersFit ==
    ASSUME RiskInv, NEW p \in Worker, Others(p), Advances, NEW o \in Worker, o # p
    PROVE  RequestFits(o)'
  <1>1. RequestFits(o) /\ requests'[o] = requests[o] /\ TypeOK
    BY DEF RiskInv, Others
  <1>2. /\ Scanning(o)' = Scanning(o) /\ Reviewing(o)' = Reviewing(o)
        /\ Scoring(o)' = Scoring(o)
    BY <1>1 DEF Scanning, Reviewing, Scoring
  <1>3. ASSUME Scanning(o), NEW c \in requests[o].found PROVE Supported(c)'
    <2>1. Supported(c) /\ c \in AnomalyCandidate
      BY <1>1, <1>3, RequestKinds DEF RequestFits, ScanRequest
    <2> QED BY <2>1, SupportedStays DEF Advances
  <1>4. ASSUME Scanning(o), NEW key \in requests[o].open PROVE OnRecord(key)'
    BY <1>1, <1>4, RecordStays DEF RequestFits
  <1>5. ASSUME Scoring(o), NEW t \in Transaction, NEW s \in Severity, requests[o].rule[t] = s
        PROVE  Rated(t, s)'
    BY <1>1, <1>5, RecordStays DEF RequestFits
  <1>6. Scoring(o) => requests[o].listed \subseteq transactions'
    BY <1>1 DEF RequestFits, Advances
  <1>7. ASSUME Reviewing(o)
        PROVE  LET q == requests[o]
               IN  /\ anomalies'[q.anomaly] # None /\ Pristine(q.row)
                   /\ q.row.status # "open" => anomalies'[q.anomaly].status # "open"
    <2>1. requests[o].anomaly \in Anomaly
      BY <1>1, <1>7, RequestKinds DEF DispositionRequest
    <2> QED BY <1>1, <1>7, <2>1 DEF RequestFits, Advances
  <1> QED BY <1>1, <1>2, <1>3, <1>4, <1>5, <1>6, <1>7 DEF RequestFits, Pristine

\* A step that leaves the transactions and the anomalies alone.
LEMMA AnomaliesUnchanged ==
    ASSUME RiskInv, UNCHANGED <<transactions, anomalies>>
    PROVE  \A a \in Anomaly : AnomalyFits(a)'
  <1> SUFFICES ASSUME NEW a \in Anomaly PROVE AnomalyFits(a)'
    OBVIOUS
  <1>1. AnomalyFits(a)
    BY DEF RiskInv
  <1>2. ASSUME NEW c \in AnomalyCandidate, Supported(c) PROVE Supported(c)'
    BY <1>2, SupportedStays
  <1> QED BY <1>1, <1>2 DEF AnomalyFits, Pristine

\* A step that writes no table.
LEMMA TablesUnchanged ==
    ASSUME RiskInv, UNCHANGED <<transactions, anomalies, scores, events, covered>>,
           NEW p \in Worker, Others(p), RequestsTyped, RequestFits(p)'
    PROVE  RiskInv'
  <1>1. TypeOK'
    BY DEF RiskInv, TypeOK, RequestsTyped
  <1>2. Advances
    BY DEF Advances
  <1>3. \A o \in Worker : RequestFits(o)'
    BY <1>2, OthersFit
  <1>4. \A a \in Anomaly : AnomalyFits(a)'
    BY AnomaliesUnchanged
  <1>5. /\ \A t \in Transaction : ScoreFits(t)'
        /\ \A key \in covered' : OnRecord(key)'
    BY DEF RiskInv, ScoreFits, Rated, OnRecord
  <1> QED BY <1>1, <1>3, <1>4, <1>5 DEF RiskInv

LEMMA ImportKeeps ==
    ASSUME RiskInv, NEW batch \in SUBSET Transaction, ImportTransactions(batch)
    PROVE  RiskInv'
  <1>1. /\ transactions' = transactions \cup batch /\ IsFiniteSet(batch)
        /\ UNCHANGED <<anomalies, scores, events, requests, covered>>
    BY DEF ImportTransactions
  <1>2. TypeOK'
    BY <1>1 DEF RiskInv, TypeOK
  <1>3. IsFiniteSet(transactions')
    BY <1>1, FS_Union DEF RiskInv
  <1>4. ASSUME NEW p \in Worker PROVE RequestFits(p)'
    <2>1. RequestFits(p) /\ TypeOK /\ requests'[p] = requests[p]
      BY <1>1 DEF RiskInv
    <2>2. ASSUME Scanning(p), NEW c \in requests[p].found PROVE Supported(c)'
      <3>1. Supported(c) /\ c \in AnomalyCandidate
        BY <2>1, <2>2, RequestKinds DEF RequestFits, ScanRequest
      <3> QED BY <1>1, <3>1, SupportedStays
    <2> QED BY <1>1, <2>1, <2>2
        DEF RequestFits, Scanning, Reviewing, Scoring, OnRecord, Rated, Pristine
  <1>5. ASSUME NEW a \in Anomaly PROVE AnomalyFits(a)'
    BY <1>1, SupportedStays DEF RiskInv, AnomalyFits
  <1>6. /\ \A t \in Transaction : ScoreFits(t)'
        /\ \A key \in covered' : OnRecord(key)'
    BY <1>1 DEF RiskInv, ScoreFits, Rated, OnRecord
  <1> QED BY <1>2, <1>3, <1>4, <1>5, <1>6 DEF RiskInv

(***************************************************************************)
(* A scan                                                                  *)
(***************************************************************************)
\* Whatever the order of the list, the rules say what holds of the transactions.
LEMMA CandidatesSupported ==
    ASSUME transactions \subseteq Transaction, IsFiniteSet(transactions),
           NEW order \in Orders(transactions), NEW under \in Structuring,
           NEW c \in Candidates(transactions, order, under)
    PROVE  c \in AnomalyCandidate /\ Supported(c)
  <1>1. CASE c \in Deviations(transactions)
    <2>1. PICK D \in DOMAIN Deviation \cap {transactions} :
              c = [type |-> "benford_deviation", transaction |-> None,
                   severity |-> Deviation[D]]
      BY <1>1 DEF Deviations
    <2>2. Deviation[D] \in Severity
      BY TransactionAssumption DEF Severity
    <2> QED BY <2>1, <2>2 DEF AnomalyCandidate, AnomalyType, Supported
  <1>2. CASE c \in Duplicates(order)
    <2> DEFINE n == Cardinality(transactions)
    <2>1. n \in Nat
      BY FS_CardinalityType
    <2>2. /\ order \in [1 .. n -> transactions]
          /\ \A i, j \in 1 .. n :
                i < j => order[i] # order[j] /\ Day[order[i]] <= Day[order[j]]
      BY DEF Orders
    <2>3. PICK j \in {k \in DOMAIN order :
                         Payment[order[k]] # None /\ EarlierPayments(order, k) # {}} :
              c = [type |-> "duplicate_payment", transaction |-> order[j],
                   severity |-> IF \E t \in EarlierPayments(order, j) : Day[t] = Day[order[j]]
                                THEN 3 ELSE 2]
      BY <1>2 DEF Duplicates
    <2>4. j \in 1 .. n /\ Payment[order[j]] # None
      BY <2>2, <2>3
    <2>5. PICK s : s \in EarlierPayments(order, j)
      BY <2>3
    <2>6. PICK i \in {k \in 1 .. (j - 1) :
                         /\ Payment[order[k]] = Payment[order[j]]
                         /\ Day[order[j]] - Day[order[k]] <= ProximityDays} :
              s = order[i]
      BY <2>5 DEF EarlierPayments
    <2> HIDE DEF n
    <2>7. i \in 1 .. n /\ i < j
      BY <2>1, <2>4, <2>6
    <2>8. /\ s \in transactions \ {order[j]} /\ order[j] \in transactions
          /\ Payment[s] = Payment[order[j]] /\ Payment[s] # None
          /\ Day[s] <= Day[order[j]] /\ Day[order[j]] - Day[s] <= ProximityDays
      BY <2>2, <2>4, <2>6, <2>7
    <2>9. c.type = "duplicate_payment" /\ c.transaction = order[j] /\ c \in AnomalyCandidate
      BY <2>3, <2>8 DEF AnomalyCandidate, AnomalyType, Severity
    <2> QED BY <2>8, <2>9 DEF Supported
  <1>3. CASE c \in Amounts(transactions, under)
    <2>1. under \subseteq UNION Structuring
      OBVIOUS
    <2>2. \/ \E t \in transactions \cap under :
                c = [type |-> "threshold_structuring", transaction |-> t, severity |-> 3]
          \/ \E t \in transactions \cap RoundDollar :
                c = [type |-> "round_dollar", transaction |-> t, severity |-> 1]
      BY <1>3 DEF Amounts
    <2>3. ASSUME NEW t \in transactions \cap under,
                 c = [type |-> "threshold_structuring", transaction |-> t, severity |-> 3]
          PROVE  c \in AnomalyCandidate /\ Supported(c)
      BY <2>1, <2>3 DEF AnomalyCandidate, AnomalyType, Severity, Supported
    <2>4. ASSUME NEW t \in transactions \cap RoundDollar,
                 c = [type |-> "round_dollar", transaction |-> t, severity |-> 1]
          PROVE  c \in AnomalyCandidate /\ Supported(c)
      BY <2>4 DEF AnomalyCandidate, AnomalyType, Severity, Supported
    <2> QED BY <2>2, <2>3, <2>4
  <1> QED BY <1>1, <1>2, <1>3 DEF Candidates

LEMMA BeginScanKeeps ==
    ASSUME RiskInv, NEW p \in Worker, BeginScan(p)
    PROVE  RiskInv'
  <1>1. PICK order \in Orders(transactions), under \in Structuring :
            LET found == Candidates(transactions, order, under)
            IN  requests' = [requests EXCEPT ![p] =
                   [step |-> "scanning", found |-> found,
                    todo |-> {c.type : c \in found}, open |-> {}]]
    BY DEF BeginScan
  <1> DEFINE found == Candidates(transactions, order, under)
             q == [step |-> "scanning", found |-> found,
                   todo |-> {c.type : c \in found}, open |-> {}]
  <1>2. \A c \in found : c \in AnomalyCandidate /\ Supported(c)
    BY CandidatesSupported DEF RiskInv, TypeOK
  <1>3. requests' = [requests EXCEPT ![p] = q]
    BY <1>1
  <1> HIDE DEF found
  <1>4. q \in ScanRequest /\ q.step = "scanning" /\ q.found = found /\ q.open = {}
    BY <1>2 DEF ScanRequest, AnomalyCandidate
  <1> HIDE DEF q
  <1>5. requests'[p] = q /\ Others(p) /\ RequestsTyped
    BY <1>3, <1>4 DEF RiskInv, TypeOK, Others, RequestsTyped
  <1>6. UNCHANGED <<transactions, anomalies, scores, events, covered>>
    BY DEF BeginScan
  <1>7. ASSUME NEW c \in found PROVE Supported(c)'
    BY <1>2, <1>6, <1>7, SupportedStays
  <1>8. RequestFits(p)'
    BY <1>4, <1>5, <1>7 DEF RequestFits, Scanning, Reviewing, Scoring
  <1> QED BY <1>5, <1>6, <1>8, TablesUnchanged

LEMMA OpenKeysOnRecord ==
    ASSUME TypeOK, NEW type
    PROVE  OpenKeys(type) \subseteq Key /\ \A key \in OpenKeys(type) : OnRecord(key)
  <1> SUFFICES ASSUME NEW key \in OpenKeys(type) PROVE key \in Key /\ OnRecord(key)
    OBVIOUS
  <1>1. PICK a \in Anomaly : anomalies[a] # None /\ key = KeyOf(anomalies[a].candidate)
    BY DEF OpenKeys
  <1>2. anomalies[a].candidate \in AnomalyCandidate
    BY <1>1 DEF TypeOK, AnomalyRow
  <1> QED BY <1>1, <1>2 DEF OnRecord, KeyOf, Key, AnomalyCandidate

LEMMA ReadOpenKeeps ==
    ASSUME RiskInv, NEW p \in Worker, ReadOpen(p)
    PROVE  RiskInv'
  <1>0. TypeOK /\ RequestFits(p) /\ Scanning(p)
    BY DEF RiskInv, ReadOpen, Scanning
  <1>1. requests[p] \in ScanRequest
    BY <1>0, RequestKinds
  <1>2. PICK type \in requests[p].todo :
            requests' = [requests EXCEPT ![p].todo = @ \ {type},
                                         ![p].open = @ \cup OpenKeys(type)]
    BY DEF ReadOpen
  <1> DEFINE q == [requests[p] EXCEPT !.todo = @ \ {type}, !.open = @ \cup OpenKeys(type)]
  <1>3. OpenKeys(type) \subseteq Key /\ \A key \in OpenKeys(type) : OnRecord(key)
    BY <1>0, OpenKeysOnRecord
  <1>4. /\ q \in ScanRequest /\ q.step = "scanning" /\ q.found = requests[p].found
        /\ q.open = requests[p].open \cup OpenKeys(type)
    BY <1>1, <1>3 DEF ScanRequest
  <1>5. requests' = [requests EXCEPT ![p] = q]
    BY <1>0, <1>1, <1>2 DEF TypeOK, ScanRequest
  <1> HIDE DEF q
  <1>6. requests'[p] = q /\ Others(p) /\ RequestsTyped
    BY <1>0, <1>4, <1>5 DEF TypeOK, Others, RequestsTyped
  <1>7. UNCHANGED <<transactions, anomalies, scores, events, covered>>
    BY DEF ReadOpen
  <1>8. ASSUME NEW c \in requests[p].found PROVE Supported(c)'
    BY <1>0, <1>1, <1>7, <1>8, SupportedStays DEF RequestFits, ScanRequest
  <1>9. ASSUME NEW key \in q.open PROVE OnRecord(key)'
    BY <1>0, <1>3, <1>4, <1>7, <1>9 DEF RequestFits, OnRecord
  <1>10. RequestFits(p)'
    BY <1>4, <1>6, <1>8, <1>9 DEF RequestFits, Scanning, Reviewing, Scoring
  <1> QED BY <1>6, <1>7, <1>10, TablesUnchanged

\* The rows of a scan: an open one for each candidate without one on record, under
\* an identifier of its own; the rows that are there stay.
LEMMA CommitScanEffect ==
    ASSUME RiskInv, NEW p \in Worker, CommitScan(p)
    PROVE  /\ anomalies' \in [Anomaly -> AnomalyRow \cup {None}]
           /\ \A a \in Anomaly :
                 \/ anomalies'[a] = anomalies[a]
                 \/ /\ anomalies[a] = None
                    /\ \E c \in NewCandidates(p) : anomalies'[a] = OpenAnomaly(c)
           /\ \A c \in NewCandidates(p) :
                 \E a \in Anomaly : anomalies'[a] = OpenAnomaly(c)
  <1>0. TypeOK /\ Scanning(p)
    BY DEF RiskInv, CommitScan, Scanning
  <1> DEFINE N == NewCandidates(p)
             free == {a \in Anomaly : anomalies[a] = None}
  <1>1. N \subseteq AnomalyCandidate
    BY <1>0, RequestKinds DEF NewCandidates, ScanRequest
  <1>2. PICK row \in [N -> free] :
            /\ \A c, d \in N : row[c] = row[d] => c = d
            /\ anomalies' = [a \in Anomaly |->
                  IF \E c \in N : row[c] = a THEN OpenAnomaly(CHOOSE c \in N : row[c] = a)
                  ELSE anomalies[a]]
    BY DEF CommitScan
  <1> HIDE DEF N
  <1>3. ASSUME NEW c \in N
        PROVE  /\ row[c] \in Anomaly /\ anomalies[row[c]] = None
               /\ anomalies'[row[c]] = OpenAnomaly(c)
    <2>1. row[c] \in free
      BY <1>2
    <2>2. (CHOOSE d \in N : row[d] = row[c]) = c
      BY <1>2
    <2> QED BY <1>2, <2>1, <2>2
  <1>4. ASSUME NEW a \in Anomaly
        PROVE  \/ anomalies'[a] = anomalies[a]
               \/ anomalies[a] = None /\ \E c \in N : anomalies'[a] = OpenAnomaly(c)
    <2>1. CASE \E c \in N : row[c] = a
      BY <1>3, <2>1
    <2>2. CASE ~ \E c \in N : row[c] = a
      BY <1>2, <2>2
    <2> QED BY <2>1, <2>2
  <1>5. \A c \in N : OpenAnomaly(c) \in AnomalyRow
    BY <1>1 DEF OpenAnomaly, AnomalyRow, AnomalyStatus
  <1>6. ASSUME NEW a \in Anomaly PROVE anomalies'[a] \in AnomalyRow \cup {None}
    BY <1>0, <1>4, <1>5 DEF TypeOK
  <1>7. anomalies' = [a \in Anomaly |-> anomalies'[a]]
    BY <1>2
  <1>8. anomalies' \in [Anomaly -> AnomalyRow \cup {None}]
    BY <1>6, <1>7
  <1> QED BY <1>3, <1>4, <1>8 DEF N

LEMMA CommitScanKeeps ==
    ASSUME RiskInv, NEW p \in Worker, CommitScan(p)
    PROVE  RiskInv'
  <1>0. TypeOK /\ RequestFits(p) /\ Scanning(p)
    BY DEF RiskInv, CommitScan, Scanning
  <1>1. requests[p] \in ScanRequest
    BY <1>0, RequestKinds
  <1>2. /\ Done(p) /\ UNCHANGED <<transactions, scores, events>>
        /\ covered' = covered \cup {KeyOf(c) : c \in requests[p].found}
    BY DEF CommitScan
  <1>3. requests'[p] = Idle /\ Others(p) /\ RequestsTyped /\ RequestFits(p)'
    BY <1>0, <1>2, EndsRequest
  <1>4. ASSUME NEW c \in NewCandidates(p)
        PROVE  /\ c \in AnomalyCandidate /\ c \in requests[p].found /\ Supported(c)
               /\ OpenAnomaly(c).candidate = c /\ OpenAnomaly(c).status = "open"
               /\ OpenAnomaly(c).reviewed_by = None
               /\ OpenAnomaly(c) # None
    <2>1. c \in AnomalyCandidate /\ c \in requests[p].found /\ Supported(c)
      BY <1>0, <1>1 DEF NewCandidates, ScanRequest, RequestFits
    <2>2. OpenAnomaly(c) \in AnomalyRow
      BY <2>1 DEF OpenAnomaly, AnomalyRow, AnomalyStatus
    <2> QED BY <2>1, <2>2, NoneAssumption DEF OpenAnomaly
  <1>5. TypeOK'
    <2>1. covered' \subseteq Key
      BY <1>0, <1>1, <1>2 DEF TypeOK, ScanRequest, AnomalyCandidate, KeyOf, Key
    <2> QED BY <1>0, <1>2, <1>3, <2>1, CommitScanEffect DEF TypeOK, RequestsTyped
  <1>6. Advances
    BY <1>2, CommitScanEffect DEF Advances
  <1>7. \A o \in Worker : RequestFits(o)'
    BY <1>3, <1>6, OthersFit
  <1>8. ASSUME NEW a \in Anomaly PROVE AnomalyFits(a)'
    <2>1. AnomalyFits(a)
      BY DEF RiskInv
    <2>2. CASE anomalies'[a] = anomalies[a]
      BY <1>2, <2>1, <2>2, SupportedStays DEF AnomalyFits
    <2>3. ASSUME anomalies[a] = None, NEW c \in NewCandidates(p),
                 anomalies'[a] = OpenAnomaly(c)
          PROVE  AnomalyFits(a)'
      <3>1. Supported(c)'
        BY <1>2, <1>4, SupportedStays
      <3> QED BY <1>4, <2>3, <3>1 DEF AnomalyFits, Pristine
    <2> QED BY <2>2, <2>3, CommitScanEffect
  <1>9. ASSUME NEW t \in Transaction PROVE ScoreFits(t)'
    BY <1>2, <1>6, RecordStays DEF RiskInv, ScoreFits
  <1>10. ASSUME NEW key \in covered' PROVE OnRecord(key)'
    <2>1. CASE key \in covered
      BY <1>6, <2>1, RecordStays DEF RiskInv
    <2>2. ASSUME NEW c \in requests[p].found, key = KeyOf(c) PROVE OnRecord(key)'
      <3>1. CASE key \in requests[p].open
        BY <1>0, <1>6, <3>1, RecordStays DEF RequestFits
      <3>2. CASE key \notin requests[p].open
        <4>1. c \in NewCandidates(p)
          BY <2>2, <3>2 DEF NewCandidates
        <4>2. PICK a \in Anomaly : anomalies'[a] = OpenAnomaly(c)
          BY <4>1, CommitScanEffect
        <4> QED BY <1>4, <2>2, <4>1, <4>2 DEF OnRecord, KeyOf
      <3> QED BY <3>1, <3>2
    <2> QED BY <1>2, <2>1, <2>2
  <1> QED BY <1>2, <1>5, <1>7, <1>8, <1>9, <1>10 DEF RiskInv

(***************************************************************************)
(* A disposition                                                           *)
(***************************************************************************)
LEMMA ReviewKeeps ==
    ASSUME RiskInv, NEW p \in Worker, NEW u \in Reviewer, NEW a \in Anomaly,
           NEW to \in Disposed, ReviewAnomaly(p, u, a, to)
    PROVE  RiskInv'
  <1> DEFINE q == [step |-> "reviewing", anomaly |-> a, by |-> u, to |-> to,
                   row |-> anomalies[a]]
  <1>1. /\ anomalies[a] # None /\ anomalies[a].status = "open"
        /\ requests' = [requests EXCEPT ![p] = q]
        /\ UNCHANGED <<transactions, anomalies, scores, events, covered>>
    BY DEF ReviewAnomaly
  <1>2. /\ TypeOK /\ anomalies[a] \in AnomalyRow /\ Pristine(anomalies[a])
    BY <1>1 DEF RiskInv, TypeOK, AnomalyFits
  <1>3. /\ q \in DispositionRequest /\ q.step = "reviewing"
        /\ q.anomaly = a /\ q.row = anomalies[a]
    BY <1>2 DEF DispositionRequest
  <1> HIDE DEF q
  <1>4. requests'[p] = q /\ Others(p) /\ RequestsTyped
    BY <1>1, <1>2, <1>3 DEF TypeOK, Others, RequestsTyped
  <1>5. RequestFits(p)'
    BY <1>1, <1>2, <1>3, <1>4 DEF RequestFits, Scanning, Reviewing, Scoring, Pristine
  <1> QED BY <1>1, <1>4, <1>5, TablesUnchanged

LEMMA ReselectKeeps ==
    ASSUME RiskInv, NEW p \in Worker, ReselectAnomaly(p)
    PROVE  RiskInv'
  <1>0. TypeOK /\ RequestFits(p) /\ Reviewing(p)
    BY DEF RiskInv, ReselectAnomaly, Reviewing
  <1>1. requests[p] \in DispositionRequest
    BY <1>0, RequestKinds
  <1>2. PICK a \in Anomaly : requests[p].anomaly = a
    BY <1>1 DEF DispositionRequest
  <1>3. anomalies[a] # None /\ anomalies[a] \in AnomalyRow /\ Pristine(anomalies[a])
    BY <1>0, <1>2 DEF RiskInv, RequestFits, TypeOK, AnomalyFits
  <1> DEFINE q == [requests[p] EXCEPT !.step = "reselected", !.row = anomalies[a]]
  <1>4. /\ q \in DispositionRequest /\ q.step = "reselected"
        /\ q.anomaly = a /\ q.row = anomalies[a]
    BY <1>1, <1>2, <1>3 DEF DispositionRequest
  <1>5. requests' = [requests EXCEPT ![p] = q]
    BY <1>0, <1>1, <1>2 DEF ReselectAnomaly, TypeOK, DispositionRequest
  <1> HIDE DEF q
  <1>6. requests'[p] = q /\ Others(p) /\ RequestsTyped
    BY <1>0, <1>4, <1>5 DEF TypeOK, Others, RequestsTyped
  <1>7. UNCHANGED <<transactions, anomalies, scores, events, covered>>
    BY DEF ReselectAnomaly
  <1>8. RequestFits(p)'
    BY <1>3, <1>4, <1>6, <1>7 DEF RequestFits, Scanning, Reviewing, Scoring, Pristine
  <1> QED BY <1>6, <1>7, <1>8, TablesUnchanged

\* What a disposition makes of the row: it keeps the candidate, and nobody opens it
\* or takes the reviewer off.
LEMMA DisposedRowFits ==
    ASSUME RiskInv, NEW p \in Worker, Reviewing(p), NEW a \in Anomaly,
           requests[p].anomaly = a
    PROVE  /\ DisposedRow(p) \in AnomalyRow
           /\ DisposedRow(p).candidate = anomalies[a].candidate
           /\ DisposedRow(p).status # "open"
           /\ DisposedRow(p).status =
                 Flushed(requests[p].row.status, requests[p].to, anomalies[a].status)
           /\ DisposedRow(p).reviewed_by =
                 Flushed(requests[p].row.reviewed_by, requests[p].by, anomalies[a].reviewed_by)
  <1> DEFINE q == requests[p]
             c == anomalies[a]
             status == Flushed(q.row.status, q.to, c.status)
             reviewer == Flushed(q.row.reviewed_by, q.by, c.reviewed_by)
  <1>0. TypeOK /\ RequestFits(p)
    BY DEF RiskInv
  <1>1. q \in DispositionRequest /\ q.row \in AnomalyRow /\ q.to \in Disposed /\ q.by \in Reviewer
    BY <1>0, RequestKinds DEF DispositionRequest
  <1>2. c \in AnomalyRow /\ (q.row.status # "open" => c.status # "open")
    BY <1>0 DEF RequestFits, TypeOK
  <1>3. DisposedRow(p) = [c EXCEPT !.status = status, !.reviewed_by = reviewer]
    BY <1>2 DEF DisposedRow, AnomalyRow
  <1>4. reviewer \in Reviewer \cup {None}
    BY <1>1, <1>2 DEF Flushed, AnomalyRow
  <1>5. status \in AnomalyStatus /\ status # "open"
    BY <1>1, <1>2 DEF Flushed, Disposed, AnomalyRow, AnomalyStatus
  <1> HIDE DEF status, reviewer
  <1>6. DisposedRow(p).status = status /\ DisposedRow(p).reviewed_by = reviewer
    BY <1>2, <1>3 DEF AnomalyRow
  <1> QED BY <1>2, <1>3, <1>4, <1>5, <1>6 DEF AnomalyRow, status, reviewer

LEMMA DispositionKeeps ==
    ASSUME RiskInv, NEW p \in Worker, CommitDisposition(p)
    PROVE  RiskInv'
  <1>0. TypeOK /\ RequestFits(p) /\ Reviewing(p)
    BY DEF RiskInv, CommitDisposition, Reviewing
  <1>1. requests[p] \in DispositionRequest
    BY <1>0, RequestKinds
  <1>2. PICK a \in Anomaly : requests[p].anomaly = a
    BY <1>1 DEF DispositionRequest
  <1>3. PICK row \in AnomalyRow :
            /\ row = DisposedRow(p) /\ row.candidate = anomalies[a].candidate
            /\ row.status # "open"
    BY <1>0, <1>2, DisposedRowFits
  <1> DEFINE e == [anomaly |-> a, actor |-> requests[p].by, before |-> "open",
                   after |-> requests[p].to]
  <1>4. /\ anomalies' = [anomalies EXCEPT ![a] = row] /\ events' = Append(events, e)
        /\ Done(p) /\ UNCHANGED <<transactions, scores, covered>>
    BY <1>2, <1>3 DEF CommitDisposition
  <1>5. e \in AuditEvent
    BY <1>1 DEF AuditEvent, AnomalyStatus, DispositionRequest
  <1> HIDE DEF e
  <1>6. requests'[p] = Idle /\ Others(p) /\ RequestsTyped /\ RequestFits(p)'
    BY <1>0, <1>4, EndsRequest
  <1>7. /\ anomalies[a] # None /\ row # None
        /\ anomalies'[a] = row /\ \A b \in Anomaly : b # a => anomalies'[b] = anomalies[b]
        /\ anomalies' \in [Anomaly -> AnomalyRow \cup {None}]
    BY <1>0, <1>2, <1>4, NoneAssumption DEF TypeOK, RequestFits
  <1>8. events' \in Seq(AuditEvent)
    BY <1>0, <1>4, <1>5 DEF TypeOK
  <1>9. TypeOK'
    BY <1>0, <1>4, <1>6, <1>7, <1>8 DEF TypeOK, RequestsTyped
  <1>10. Advances
    BY <1>3, <1>4, <1>7 DEF Advances
  <1>11. \A o \in Worker : RequestFits(o)'
    BY <1>6, <1>10, OthersFit
  <1>12. ASSUME NEW b \in Anomaly PROVE AnomalyFits(b)'
    <2>1. AnomalyFits(b) /\ AnomalyFits(a)
      BY DEF RiskInv
    <2>2. CASE b = a
      BY <1>3, <1>4, <1>7, <2>1, <2>2, SupportedStays DEF AnomalyFits, Pristine
    <2>3. CASE b # a
      BY <1>4, <1>7, <2>1, <2>3, SupportedStays DEF AnomalyFits
    <2> QED BY <2>2, <2>3
  <1>13. ASSUME NEW t \in Transaction PROVE ScoreFits(t)'
    BY <1>4, <1>10, RecordStays DEF RiskInv, ScoreFits
  <1>14. ASSUME NEW key \in covered' PROVE OnRecord(key)'
    BY <1>4, <1>10, RecordStays DEF RiskInv
  <1> QED BY <1>4, <1>9, <1>11, <1>12, <1>13, <1>14 DEF RiskInv

(***************************************************************************)
(* A computation of scores                                                 *)
(***************************************************************************)
LEMMA BeginScoreKeeps ==
    ASSUME RiskInv, NEW p \in Worker, BeginScore(p)
    PROVE  RiskInv'
  <1> DEFINE q == [step |-> "listed", listed |-> transactions, rule |-> NoRatings]
  <1>1. /\ requests' = [requests EXCEPT ![p] = q]
        /\ UNCHANGED <<transactions, anomalies, scores, events, covered>>
    BY DEF BeginScore
  <1>2. NoRatings \in [Transaction -> Severity \cup {None}]
    BY DEF NoRatings
  <1>3. /\ q \in ScoreRequest /\ q.step = "listed" /\ q.listed = transactions
        /\ \A t \in Transaction, s \in Severity : q.rule[t] # s
    BY <1>2, NoneAssumption DEF RiskInv, TypeOK, ScoreRequest, NoRatings
  <1> HIDE DEF q
  <1>4. requests'[p] = q /\ Others(p) /\ RequestsTyped
    BY <1>1, <1>3 DEF RiskInv, TypeOK, Others, RequestsTyped
  <1>5. RequestFits(p)'
    BY <1>1, <1>3, <1>4 DEF RequestFits, Scanning, Reviewing, Scoring
  <1> QED BY <1>1, <1>4, <1>5, TablesUnchanged

\* The highest severity of a set is one of it.
LEMMA HighestOf ==
    ASSUME NEW S \in SUBSET Severity
    PROVE  Highest(S) \in S \cup {None} /\ (Highest(S) = None <=> S = {})
  <1>1. CASE S = {}
    BY <1>1 DEF Highest
  <1>2. CASE S # {}
    <2>1. \E s \in S : \A other \in S : other <= s
      <3>1. \A s \in S : s = 1 \/ s = 2 \/ s = 3
        BY DEF Severity
      <3>2. CASE 3 \in S
        BY <3>1, <3>2
      <3>3. CASE 3 \notin S /\ 2 \in S
        BY <3>1, <3>3
      <3>4. CASE 3 \notin S /\ 2 \notin S
        BY <1>2, <3>1, <3>4
      <3> QED BY <3>2, <3>3, <3>4
    <2>2. Highest(S) \in S
      BY <1>2, <2>1 DEF Highest
    <2> QED BY <1>2, <2>2, NoneAssumption
  <1> QED BY <1>1, <1>2

LEMMA RateKeeps ==
    ASSUME RiskInv, NEW p \in Worker, RateTransactions(p)
    PROVE  RiskInv'
  <1>0. TypeOK /\ RequestFits(p) /\ Scoring(p)
    BY DEF RiskInv, RateTransactions, Scoring
  <1>1. requests[p] \in ScoreRequest
    BY <1>0, RequestKinds
  <1> DEFINE rule == [t \in Transaction |->
                 IF t \in requests[p].listed THEN Highest(SeveritiesOf(t)) ELSE None]
             q == [requests[p] EXCEPT !.step = "rated", !.rule = rule]
  <1>2. ASSUME NEW t \in Transaction
        PROVE  /\ rule[t] \in Severity \cup {None}
               /\ \A s \in Severity : rule[t] = s => Rated(t, s)
    <2>1. SeveritiesOf(t) \subseteq Severity
      <3> SUFFICES ASSUME NEW a \in Anomaly, anomalies[a] # None
                   PROVE  anomalies[a].candidate.severity \in Severity
        BY DEF SeveritiesOf
      <3>1. anomalies[a].candidate \in AnomalyCandidate
        BY <1>0 DEF TypeOK, AnomalyRow
      <3> QED BY <3>1 DEF AnomalyCandidate
    <2>2. Highest(SeveritiesOf(t)) \in SeveritiesOf(t) \cup {None}
      BY <2>1, HighestOf
    <2>3. \A s \in SeveritiesOf(t) : Rated(t, s)
      BY DEF SeveritiesOf, Rated
    <2> QED BY <2>1, <2>2, <2>3, NoneAssumption
  <1>3. rule \in [Transaction -> Severity \cup {None}]
    BY <1>2
  <1>4. UNCHANGED <<transactions, anomalies, scores, events, covered>>
    BY DEF RateTransactions
  <1>5. requests' = [requests EXCEPT ![p].step = "rated", ![p].rule = rule]
    BY DEF RateTransactions
  <1> HIDE DEF rule
  <1>6. /\ q \in ScoreRequest /\ q.step = "rated" /\ q.rule = rule
        /\ q.listed = requests[p].listed
    BY <1>1, <1>3 DEF ScoreRequest
  <1>7. requests' = [requests EXCEPT ![p] = q]
    BY <1>0, <1>1, <1>5 DEF TypeOK, ScoreRequest
  <1> HIDE DEF q
  <1>8. requests'[p] = q /\ Others(p) /\ RequestsTyped
    BY <1>0, <1>6, <1>7 DEF TypeOK, Others, RequestsTyped
  <1>9. RequestFits(p)'
    BY <1>0, <1>2, <1>4, <1>6, <1>8 DEF RequestFits, Scanning, Reviewing, Scoring, Rated
  <1> QED BY <1>4, <1>8, <1>9, TablesUnchanged

LEMMA CommitScoresKeeps ==
    ASSUME RiskInv, NEW p \in Worker, CommitScores(p)
    PROVE  RiskInv'
  <1>0. TypeOK /\ RequestFits(p) /\ Scoring(p)
    BY DEF RiskInv, CommitScores, Scoring
  <1>1. requests[p] \in ScoreRequest
    BY <1>0, RequestKinds
  <1>2. /\ Done(p) /\ UNCHANGED <<transactions, anomalies, events, covered>>
        /\ scores' = [t \in Transaction |->
              IF t \in requests[p].listed THEN [rule |-> requests[p].rule[t]] ELSE scores[t]]
    BY DEF CommitScores
  <1>3. requests'[p] = Idle /\ Others(p) /\ RequestsTyped /\ RequestFits(p)'
    BY <1>0, <1>2, EndsRequest
  <1>4. scores' \in [Transaction -> Score \cup {None}]
    BY <1>0, <1>1, <1>2 DEF TypeOK, ScoreRequest, Score
  <1>5. TypeOK'
    BY <1>0, <1>2, <1>3, <1>4 DEF TypeOK, RequestsTyped
  <1>6. Advances
    BY <1>2 DEF Advances
  <1>7. \A o \in Worker : RequestFits(o)'
    BY <1>3, <1>6, OthersFit
  <1>8. \A a \in Anomaly : AnomalyFits(a)'
    BY <1>2, AnomaliesUnchanged
  <1>9. ASSUME NEW t \in Transaction PROVE ScoreFits(t)'
    <2>1. CASE t \in requests[p].listed
      BY <1>0, <1>2, <2>1 DEF RequestFits, ScoreFits, Rated
    <2>2. CASE t \notin requests[p].listed
      BY <1>2, <2>2 DEF RiskInv, ScoreFits, Rated
    <2> QED BY <2>1, <2>2
  <1>10. \A key \in covered' : OnRecord(key)'
    BY <1>2 DEF RiskInv, OnRecord
  <1> QED BY <1>2, <1>5, <1>7, <1>8, <1>9, <1>10 DEF RiskInv

LEMMA FailKeeps ==
    ASSUME RiskInv, NEW p \in Worker, Fail(p)
    PROVE  RiskInv'
  BY EndsRequest, TablesUnchanged DEF RiskInv, Fail

LEMMA RiskInvStep == RiskInv /\ [Next]_vars => RiskInv'
  <1> SUFFICES ASSUME RiskInv, [Next]_vars PROVE RiskInv'
    OBVIOUS
  <1>1. CASE UNCHANGED vars
    <2>1. UNCHANGED <<transactions, anomalies, scores, events, requests, covered>>
      BY <1>1 DEF vars
    <2>2. TypeOK' /\ IsFiniteSet(transactions')
      BY <2>1 DEF RiskInv, TypeOK
    <2>3. \A p \in Worker : RequestFits(p)'
      <3>1. /\ \A c : Supported(c)' = Supported(c)
            /\ \A key : OnRecord(key)' = OnRecord(key)
            /\ \A t, s : Rated(t, s)' = Rated(t, s)
        BY <2>1 DEF Supported, OnRecord, Rated
      <3> QED BY <2>1, <3>1 DEF RiskInv, RequestFits, Scanning, Reviewing, Scoring, Pristine
    <2>4. \A a \in Anomaly : AnomalyFits(a)'
      BY <2>1, AnomaliesUnchanged
    <2>5. /\ \A t \in Transaction : ScoreFits(t)'
          /\ \A key \in covered' : OnRecord(key)'
      BY <2>1 DEF RiskInv, ScoreFits, Rated, OnRecord
    <2> QED BY <2>2, <2>3, <2>4, <2>5 DEF RiskInv
  <1>2. CASE Next
    BY <1>2, ImportKeeps, BeginScanKeeps, ReadOpenKeeps, CommitScanKeeps, ReviewKeeps,
       ReselectKeeps, DispositionKeeps, BeginScoreKeeps, RateKeeps, CommitScoresKeeps,
       FailKeeps
    DEF Next
  <1> QED BY <1>1, <1>2

LEMMA RiskInvAlways == Spec => []RiskInv
  BY InitRiskInv, RiskInvStep, PTL DEF Spec

(***************************************************************************)
(* The trail                                                               *)
(***************************************************************************)
\* Anomaly a has the status (the reviewer) of event j or of a later one.
StatusSince(j, a) ==
    \/ anomalies[a].status = events[j].after
    \/ \E k \in EventsOf(a) : j < k /\ anomalies[a].status = events[k].after

ReviewerSince(j, a) ==
    \/ anomalies[a].reviewed_by = events[j].actor
    \/ \E k \in EventsOf(a) : j < k /\ anomalies[a].reviewed_by = events[k].actor

\* A decision or a reviewer that a disposition found on the row is explained by an
\* event, and so is what became of it since.
LoadedTrailed(p) ==
    LET q == requests[p]
        a == q.anomaly
    IN  /\ q.row.status # "open" =>
              \E j \in EventsOf(a) : events[j].after = q.row.status /\ StatusSince(j, a)
        /\ q.row.reviewed_by # None =>
              \E j \in EventsOf(a) :
                 events[j].actor = q.row.reviewed_by /\ ReviewerSince(j, a)

Trailed(a) ==
    IF anomalies[a] # None /\ anomalies[a].status # "open"
    THEN \E i \in EventsOf(a) :
            /\ \A j \in EventsOf(a) : j <= i
            /\ StatusFrom(i, a)
            /\ ReviewerFrom(i, a)
    ELSE EventsOf(a) = {}

TrailInv ==
    /\ \A a \in Anomaly : Trailed(a)
    /\ \A p \in Worker : Reviewing(p) => LoadedTrailed(p)

LEMMA InitTrailInv == Init => TrailInv
  BY DEF Init, TrailInv, Trailed, EventsOf, Reviewing, Idle

\* A step that records no disposition: anomalies stay as they are, new ones are open.
LEMMA NoneDisposed ==
    ASSUME RiskInv, TrailInv, UNCHANGED events,
           \A a \in Anomaly :
              \/ anomalies'[a] = anomalies[a]
              \/ anomalies[a] = None /\ anomalies'[a].status = "open",
           \A o \in Worker : Reviewing(o)' => requests'[o] = requests[o] \/ LoadedTrailed(o)'
    PROVE  TrailInv'
  <1>1. \A a : EventsOf(a)' = EventsOf(a)
    BY DEF EventsOf
  <1>2. ASSUME NEW a \in Anomaly PROVE Trailed(a)'
    <2>1. Trailed(a)
      BY DEF TrailInv
    <2>2. CASE anomalies'[a] = anomalies[a]
      BY <1>1, <2>1, <2>2 DEF Trailed, StatusFrom, ReviewerFrom
    <2>3. CASE anomalies[a] = None /\ anomalies'[a].status = "open"
      BY <1>1, <2>1, <2>3 DEF Trailed
    <2> QED BY <2>2, <2>3
  <1>3. ASSUME NEW o \in Worker, Reviewing(o)' PROVE LoadedTrailed(o)'
    <2>1. CASE requests'[o] = requests[o]
      <3>1. Reviewing(o) /\ LoadedTrailed(o) /\ RequestFits(o) /\ TypeOK
        BY <1>3, <2>1 DEF Reviewing, TrailInv, RiskInv
      <3>2. PICK a \in Anomaly : requests[o].anomaly = a
        BY <3>1, RequestKinds DEF DispositionRequest
      <3>3. anomalies'[a] = anomalies[a]
        BY <3>1, <3>2 DEF RequestFits
      <3> QED BY <1>1, <2>1, <3>1, <3>2, <3>3 DEF LoadedTrailed, StatusSince, ReviewerSince
    <2> QED BY <1>3, <2>1
  <1> QED BY <1>2, <1>3 DEF TrailInv

LEMMA ReviewTrails ==
    ASSUME RiskInv, TrailInv, NEW p \in Worker, NEW u \in Reviewer, NEW a \in Anomaly,
           NEW to \in Disposed, ReviewAnomaly(p, u, a, to)
    PROVE  TrailInv'
  <1>1. /\ anomalies[a].status = "open" /\ anomalies[a].reviewed_by = None
        /\ UNCHANGED <<anomalies, events>>
    BY DEF ReviewAnomaly, RiskInv, AnomalyFits, Pristine
  <1>2. requests'[p].row = anomalies[a] /\ \A o \in Worker : o # p => requests'[o] = requests[o]
    BY DEF ReviewAnomaly, RiskInv, TypeOK
  <1>3. LoadedTrailed(p)'
    BY <1>1, <1>2 DEF LoadedTrailed
  <1> QED BY <1>1, <1>2, <1>3, NoneDisposed

LEMMA ReselectTrails ==
    ASSUME RiskInv, TrailInv, NEW p \in Worker, ReselectAnomaly(p)
    PROVE  TrailInv'
  <1>1. TypeOK /\ Reviewing(p) /\ requests[p] \in DispositionRequest /\ RequestFits(p)
    BY RequestKinds DEF RiskInv, ReselectAnomaly, Reviewing
  <1>2. PICK a \in Anomaly : requests[p].anomaly = a
    BY <1>1 DEF DispositionRequest
  <1>3. UNCHANGED <<anomalies, events>>
    BY DEF ReselectAnomaly
  <1>4. /\ requests'[p].row = anomalies[a] /\ requests'[p].anomaly = a
        /\ \A o \in Worker : o # p => requests'[o] = requests[o]
    BY <1>1, <1>2 DEF ReselectAnomaly, TypeOK, DispositionRequest
  <1>5. /\ anomalies[a] # None /\ Trailed(a)
        /\ anomalies[a].reviewed_by # None => anomalies[a].status # "open"
    BY <1>1, <1>2 DEF TrailInv, RiskInv, RequestFits, AnomalyFits, Pristine
  <1>6. EventsOf(a)' = EventsOf(a)
    BY <1>3 DEF EventsOf
  <1>7. anomalies[a].status # "open" =>
            /\ \E j \in EventsOf(a) : events[j].after = anomalies[a].status
            /\ \/ anomalies[a].reviewed_by = None
               \/ \E j \in EventsOf(a) : events[j].actor = anomalies[a].reviewed_by
    BY <1>5 DEF Trailed, StatusFrom, ReviewerFrom
  <1>8. LoadedTrailed(p)'
    BY <1>3, <1>4, <1>5, <1>6, <1>7 DEF LoadedTrailed, StatusSince, ReviewerSince
  <1> QED BY <1>3, <1>4, <1>8, NoneDisposed

LEMMA DispositionTrails ==
    ASSUME RiskInv, TrailInv, NEW p \in Worker, CommitDisposition(p)
    PROVE  TrailInv'
  <1>0. TypeOK /\ Reviewing(p) /\ RequestFits(p) /\ LoadedTrailed(p)
    BY DEF RiskInv, TrailInv, CommitDisposition, Reviewing
  <1>1. requests[p] \in DispositionRequest
    BY <1>0, RequestKinds
  <1>2. PICK a \in Anomaly : requests[p].anomaly = a
    BY <1>1 DEF DispositionRequest
  <1>3. PICK to \in Disposed, u \in Reviewer : requests[p].to = to /\ requests[p].by = u
    BY <1>1 DEF DispositionRequest
  <1>4. PICK row \in AnomalyRow :
            /\ row = DisposedRow(p) /\ row.status # "open"
            /\ row.status = Flushed(requests[p].row.status, to, anomalies[a].status)
            /\ row.reviewed_by = Flushed(requests[p].row.reviewed_by, u, anomalies[a].reviewed_by)
    BY <1>0, <1>2, <1>3, DisposedRowFits
  <1> DEFINE e == [anomaly |-> a, actor |-> u, before |-> "open", after |-> to]
  <1>5. /\ anomalies' = [anomalies EXCEPT ![a] = row] /\ events' = Append(events, e) /\ Done(p)
    BY <1>2, <1>3, <1>4 DEF CommitDisposition
  <1>6. e \in AuditEvent /\ e.anomaly = a /\ e.actor = u /\ e.after = to
    BY DEF AuditEvent, AnomalyStatus
  <1> HIDE DEF e
  <1>7. /\ anomalies[a] # None /\ row # None
        /\ anomalies'[a] = row /\ \A b \in Anomaly : b # a => anomalies'[b] = anomalies[b]
    BY <1>0, <1>2, <1>5, NoneAssumption DEF TypeOK, RequestFits
  <1>8. PICK n : /\ n \in Nat /\ n \notin DOMAIN events
                 /\ DOMAIN events' = DOMAIN events \cup {n} /\ events'[n] = e
                 /\ \A m \in DOMAIN events : events'[m] = events[m] /\ m \in Nat /\ m < n
    <2>1. /\ Len(events) + 1 \in Nat /\ Len(events) + 1 \notin DOMAIN events
          /\ DOMAIN events' = DOMAIN events \cup {Len(events) + 1}
          /\ events'[Len(events) + 1] = e
          /\ \A m \in DOMAIN events :
                events'[m] = events[m] /\ m \in Nat /\ m < Len(events) + 1
      BY <1>0, <1>5, <1>6 DEF TypeOK
    <2> QED BY <2>1
  <1>9. /\ EventsOf(a)' = EventsOf(a) \cup {n}
        /\ \A b \in Anomaly : b # a => EventsOf(b)' = EventsOf(b)
        /\ \A b : EventsOf(b) \subseteq DOMAIN events
    BY <1>6, <1>8 DEF EventsOf
  <1>10. StatusFrom(n, a)'
    <2>1. CASE row.status = to
      BY <1>6, <1>7, <1>8, <2>1 DEF StatusFrom
    <2>2. CASE row.status # to
      <3>1. row.status = anomalies[a].status /\ requests[p].row.status = to /\ to # "open"
        BY <1>4, <2>2 DEF Flushed, Disposed
      <3>2. PICK j \in EventsOf(a) : events[j].after = to /\ StatusSince(j, a)
        BY <1>0, <1>2, <3>1 DEF LoadedTrailed
      <3>3. PICK k \in EventsOf(a) : j < k /\ anomalies[a].status = events[k].after
        BY <2>2, <3>1, <3>2 DEF StatusSince
      <3> QED BY <1>6, <1>7, <1>8, <1>9, <3>1, <3>2, <3>3 DEF StatusFrom
    <2> QED BY <2>1, <2>2
  <1>11. ReviewerFrom(n, a)'
    <2>1. CASE row.reviewed_by = u
      BY <1>6, <1>7, <1>8, <2>1 DEF ReviewerFrom
    <2>2. CASE row.reviewed_by # u
      <3>1. row.reviewed_by = anomalies[a].reviewed_by /\ requests[p].row.reviewed_by = u
            /\ u # None
        BY <1>4, <2>2, NoneAssumption DEF Flushed
      <3>2. PICK j \in EventsOf(a) : events[j].actor = u /\ ReviewerSince(j, a)
        BY <1>0, <1>2, <3>1 DEF LoadedTrailed
      <3>3. PICK k \in EventsOf(a) : j < k /\ anomalies[a].reviewed_by = events[k].actor
        BY <2>2, <3>1, <3>2 DEF ReviewerSince
      <3> QED BY <1>6, <1>7, <1>8, <1>9, <3>1, <3>2, <3>3 DEF ReviewerFrom
    <2> QED BY <2>1, <2>2
  <1>12. ASSUME NEW b \in Anomaly PROVE Trailed(b)'
    <2>1. Trailed(b)
      BY DEF TrailInv
    <2>2. CASE b = a
      <3>1. n \in EventsOf(a)' /\ \A j \in EventsOf(a)' : j <= n
        BY <1>8, <1>9
      <3> QED BY <1>4, <1>7, <1>10, <1>11, <2>2, <3>1 DEF Trailed
    <2>3. CASE b # a
      <3>1. /\ EventsOf(b)' = EventsOf(b) /\ anomalies'[b] = anomalies[b]
            /\ \A m \in EventsOf(b) : events'[m] = events[m]
        BY <1>7, <1>8, <1>9, <2>3
      <3> QED BY <2>1, <3>1 DEF Trailed, StatusFrom, ReviewerFrom
    <2> QED BY <2>2, <2>3
  <1>13. ASSUME NEW o \in Worker, Reviewing(o)' PROVE LoadedTrailed(o)'
    <2>1. o # p /\ requests'[o] = requests[o] /\ Reviewing(o) /\ LoadedTrailed(o)
      BY <1>0, <1>5, <1>13 DEF Done, Reviewing, Idle, TypeOK, TrailInv
    <2>2. PICK b \in Anomaly : requests[o].anomaly = b
      BY <1>0, <2>1, RequestKinds DEF DispositionRequest
    <2>3. \A m \in EventsOf(b) : m \in EventsOf(b)' /\ events'[m] = events[m] /\ m < n
      BY <1>8, <1>9
    <2>4. CASE b = a
      <3>1. ASSUME NEW j \in EventsOf(a), StatusSince(j, a) PROVE StatusSince(j, a)'
        <4>1. row.status = to \/ row.status = anomalies[a].status
          BY <1>4 DEF Flushed
        <4> QED BY <1>6, <1>7, <1>8, <1>9, <2>3, <2>4, <3>1, <4>1 DEF StatusSince
      <3>2. ASSUME NEW j \in EventsOf(a), ReviewerSince(j, a) PROVE ReviewerSince(j, a)'
        <4>1. row.reviewed_by = u \/ row.reviewed_by = anomalies[a].reviewed_by
          BY <1>4 DEF Flushed
        <4> QED BY <1>6, <1>7, <1>8, <1>9, <2>3, <2>4, <3>2, <4>1 DEF ReviewerSince
      <3> QED BY <2>1, <2>2, <2>3, <2>4, <3>1, <3>2 DEF LoadedTrailed
    <2>5. CASE b # a
      <3>1. EventsOf(b)' = EventsOf(b) /\ anomalies'[b] = anomalies[b]
        BY <1>7, <1>9, <2>5
      <3> QED BY <2>1, <2>2, <2>3, <3>1 DEF LoadedTrailed, StatusSince, ReviewerSince
    <2> QED BY <2>4, <2>5
  <1> QED BY <1>12, <1>13 DEF TrailInv

LEMMA TrailInvStep == RiskInv /\ TrailInv /\ [Next]_vars => TrailInv'
  <1> SUFFICES ASSUME RiskInv, TrailInv, [Next]_vars PROVE TrailInv'
    OBVIOUS
  <1>1. CASE UNCHANGED vars
    BY <1>1, NoneDisposed DEF vars
  <1>2. ASSUME NEW batch \in SUBSET Transaction, ImportTransactions(batch) PROVE TrailInv'
    BY <1>2, NoneDisposed DEF ImportTransactions
  <1>3. ASSUME NEW p \in Worker, CommitScan(p) PROVE TrailInv'
    <2>1. \A c : OpenAnomaly(c).status = "open"
      BY DEF OpenAnomaly
    <2>2. UNCHANGED events /\ Done(p)
      BY <1>3 DEF CommitScan
    <2>3. \A o \in Worker : Reviewing(o)' => requests'[o] = requests[o]
      BY <2>2 DEF RiskInv, TypeOK, Done, Reviewing, Idle
    <2> QED BY <1>3, <2>1, <2>2, <2>3, CommitScanEffect, NoneDisposed
  <1>4. ASSUME NEW p \in Worker,
               Fail(p) \/ CommitScores(p) \/ BeginScan(p) \/ BeginScore(p)
        PROVE  TrailInv'
    <2>1. UNCHANGED <<anomalies, events>>
      BY <1>4 DEF Fail, CommitScores, BeginScan, BeginScore
    <2>2. \A o \in Worker : Reviewing(o)' => requests'[o] = requests[o]
      BY <1>4
      DEF Fail, CommitScores, BeginScan, BeginScore, RiskInv, TypeOK, Done, Reviewing, Idle
    <2> QED BY <2>1, <2>2, NoneDisposed
  <1>5. ASSUME NEW p \in Worker, ReadOpen(p) \/ RateTransactions(p) PROVE TrailInv'
    <2>1. UNCHANGED <<anomalies, events>>
      BY <1>5 DEF ReadOpen, RateTransactions
    <2>2. requests'[p].step \in {"scanning", "rated"}
      <3>1. TypeOK
        BY DEF RiskInv
      <3>2. CASE ReadOpen(p)
        <4>1. requests[p] \in ScanRequest /\ requests[p].step = "scanning"
          BY <3>1, <3>2, RequestKinds DEF ReadOpen, Scanning
        <4>2. requests'[p].step = requests[p].step
          BY <3>1, <3>2, <4>1 DEF ReadOpen, TypeOK, ScanRequest
        <4> QED BY <4>1, <4>2
      <3>3. CASE RateTransactions(p)
        <4>1. requests[p] \in ScoreRequest
          BY <3>1, <3>3, RequestKinds DEF RateTransactions, Scoring
        <4> QED BY <3>1, <3>3, <4>1 DEF RateTransactions, TypeOK, ScoreRequest
      <3> QED BY <1>5, <3>2, <3>3
    <2>3. \A o \in Worker : o # p => requests'[o] = requests[o]
      BY <1>5 DEF ReadOpen, RateTransactions, RiskInv, TypeOK
    <2> QED BY <2>1, <2>2, <2>3, NoneDisposed DEF Reviewing
  <1> QED BY <1>1, <1>2, <1>3, <1>4, <1>5, ReviewTrails, ReselectTrails, DispositionTrails
      DEF Next

LEMMA TrailInvAlways == Spec => []TrailInv
  BY InitTrailInv, TrailInvStep, RiskInvAlways, PTL DEF Spec

(***************************************************************************)
(* The theorems                                                            *)
(***************************************************************************)
\* The tables, the trail and the requests of the risk context stay well formed.
THEOREM TypeCorrect == Spec => []TypeOK
  <1>1. RiskInv => TypeOK
    BY DEF RiskInv
  <1> QED BY <1>1, RiskInvAlways, PTL

\* Whatever the rules are given and in whatever order the list is read, no anomaly is
\* a false accusation by its own rule, and no score is another transaction's.
THEOREM FlagsAlwaysSupported == Spec => []FlagsSupported
  BY RiskInvAlways, InvFlags, PTL

\* _filter_already_open never drops a finding that is not on record, however many
\* scans and dispositions overlap.
THEOREM ScansAlwaysRecord == Spec => []ScansLeaveNothing
  BY RiskInvAlways, InvScans, PTL

\* However many dispositions of an anomaly overlap, of one user or of several, the
\* trail accounts for its row.
THEOREM TrailAlwaysAccounts == Spec => []TrailAccountsForAnomaly
  <1>1. RiskInv /\ TrailInv => TrailAccountsForAnomaly
    BY DEF TrailInv, Trailed, TrailAccountsForAnomaly
  <1> QED BY <1>1, RiskInvAlways, TrailInvAlways, PTL
=============================================================================
