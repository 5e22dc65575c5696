------------------------------- MODULE Risk -------------------------------
(***************************************************************************)
(* The risk context of apps/api: imported transactions, the rule engine's  *)
(* scan, the disposition of an anomaly and the risk scores.  Requests are  *)
(* transactions, as in Reporting.                                          *)
(*                                                                         *)
(* Abstracted: amounts, currencies and payloads, to what the rules ask of  *)
(* them; the Benford statistic, to the sets of transactions that deviate;  *)
(* the machine-learning and graph signals of a score, which are computed   *)
(* from data no other action here changes.                                 *)
(***************************************************************************)
EXTENDS Naturals, Sequences, FiniteSets

CONSTANTS
    Transaction,   \* transactions that may be imported into the engagement
    Payment,       \* vendor and amount of each, None where no vendor is named
    Day,           \* transaction_date of each
    Structuring,   \* for each threshold a scan may ask for, those just under it
    RoundDollar,   \* those of a round amount
    Deviation,     \* of the sets whose leading digits deviate: how severely
    ProximityDays, \* date_proximity_days
    Anomaly,       \* identifiers anomalies may be given
    Worker,        \* requests served at the same time
    Reviewer,      \* the users who dispose of anomalies
    None

ASSUME TransactionAssumption ==
    /\ Day \in [Transaction -> Nat]
    /\ DOMAIN Payment = Transaction
    /\ Structuring \subseteq SUBSET Transaction
    /\ RoundDollar \subseteq Transaction
    /\ DOMAIN Deviation \subseteq SUBSET Transaction
    /\ \A S \in DOMAIN Deviation : Deviation[S] \in {2, 3}
    /\ ProximityDays \in Nat

VARIABLES
    transactions,  \* risk.transactions
    anomalies,     \* risk.anomalies
    scores,        \* risk.risk_scores: the rule-engine signal of each
    events,        \* the audit events of this context, in commit order
    requests,      \* what each worker is doing
    covered        \* history: what the scans that were answered had found

vars == <<transactions, anomalies, scores, events, requests, covered>>

AnomalyType ==
    {"benford_deviation", "duplicate_payment", "threshold_structuring", "round_dollar"}

Disposed == {"true_positive", "false_positive"}

AnomalyStatus == {"open"} \cup Disposed

\* AnomalySeverity by its rank: low, medium, high.  No rule says critical.
Severity == 1 .. 3

\* What the filter of a scan compares.
Key == AnomalyType \X (Transaction \cup {None})

AnomalyCandidate ==
    [type : AnomalyType, transaction : Transaction \cup {None}, severity : Severity]

AnomalyRow ==
    [candidate : AnomalyCandidate, status : AnomalyStatus, reviewed_by : Reviewer \cup {None}]

AuditEvent ==
    [anomaly : Anomaly, actor : Reviewer, before : AnomalyStatus, after : Disposed]

Score == [rule : Severity \cup {None}]

Idle == [step |-> "idle"]

ScanRequest ==
    [step : {"scanning"}, found : SUBSET AnomalyCandidate,
     todo : SUBSET AnomalyType, open : SUBSET Key]

DispositionRequest ==
    [step : {"reviewing", "reselected"}, anomaly : Anomaly, by : Reviewer,
     to : Disposed, row : AnomalyRow]

ScoreRequest ==
    [step : {"listed", "rated"}, listed : SUBSET Transaction,
     rule : [Transaction -> Severity \cup {None}]]

ASSUME NoneAssumption ==
    None \notin Transaction \cup Reviewer \cup Severity \cup AnomalyRow \cup Score

KeyOf(candidate) == <<candidate.type, candidate.transaction>>

Init ==
    /\ transactions = {}
    /\ anomalies = [a \in Anomaly |-> None]
    /\ scores = [t \in Transaction |-> None]
    /\ events = <<>>
    /\ requests = [p \in Worker |-> Idle]
    /\ covered = {}

Done(p) == requests' = [requests EXCEPT ![p] = Idle]

\* POST .../transactions: all the records of a request, a list, or none.
ImportTransactions(batch) ==
    /\ batch # {}
    /\ IsFiniteSet(batch)
    /\ batch \cap transactions = {}
    /\ transactions' = transactions \cup batch
    /\ UNCHANGED <<anomalies, scores, events, requests, covered>>

----------------------------------------------------------------------------
(***************************************************************************)
(* The rule engine                                                         *)
(***************************************************************************)
\* A list of the transactions by date.  The order of those of one day is the
\* SELECT's, which asks for none.
Orders(S) ==
    {order \in [1 .. Cardinality(S) -> S] :
        /\ \A i, j \in 1 .. Cardinality(S) :
              i < j => order[i] # order[j] /\ Day[order[i]] <= Day[order[j]]}

\* The payments of the same vendor and amount that precede the j-th in the list
\* by no more than the proximity; the last of them is the one it duplicates.
EarlierPayments(order, j) ==
    {order[i] : i \in {k \in 1 .. (j - 1) :
        /\ Payment[order[k]] = Payment[order[j]]
        /\ Day[order[j]] - Day[order[k]] <= ProximityDays}}

Duplicates(order) ==
    {[type |-> "duplicate_payment", transaction |-> order[j],
      severity |-> IF \E t \in EarlierPayments(order, j) : Day[t] = Day[order[j]]
                   THEN 3 ELSE 2] :
        j \in {k \in DOMAIN order : Payment[order[k]] # None /\ EarlierPayments(order, k) # {}}}

Deviations(S) ==
    {[type |-> "benford_deviation", transaction |-> None, severity |-> Deviation[D]] :
        D \in DOMAIN Deviation \cap {S}}

Amounts(S, under) ==
    {[type |-> "threshold_structuring", transaction |-> t, severity |-> 3] :
        t \in S \cap under}
    \cup
    {[type |-> "round_dollar", transaction |-> t, severity |-> 1] : t \in S \cap RoundDollar}

Candidates(S, order, under) ==
    Deviations(S) \cup Duplicates(order) \cup Amounts(S, under)

----------------------------------------------------------------------------
(***************************************************************************)
(* scan_for_anomalies                                                      *)
(***************************************************************************)
BeginScan(p) ==
    /\ requests[p] = Idle
    /\ \E order \in Orders(transactions), under \in Structuring :
          LET found == Candidates(transactions, order, under)
          IN  requests' = [requests EXCEPT ![p] =
                 [step |-> "scanning", found |-> found,
                  todo |-> {c.type : c \in found}, open |-> {}]]
    /\ UNCHANGED <<transactions, anomalies, scores, events, covered>>

OpenKeys(type) ==
    {KeyOf(row.candidate) :
        row \in {anomalies[a] : a \in {b \in Anomaly :
            /\ anomalies[b] # None
            /\ anomalies[b].status = "open"
            /\ anomalies[b].candidate.type = type}}}

\* _filter_already_open: one SELECT for each type among the candidates.
ReadOpen(p) ==
    /\ requests[p].step = "scanning"
    /\ \E type \in requests[p].todo :
          requests' = [requests EXCEPT ![p].todo = @ \ {type},
                                       ![p].open = @ \cup OpenKeys(type)]
    /\ UNCHANGED <<transactions, anomalies, scores, events, covered>>

\* Mutated form: an open anomaly of the type hides the others of the type.
NewOfNewType(p) ==
    {c \in requests[p].found : \A key \in requests[p].open : key[1] # c.type}

NewCandidates(p) ==
    {c \in requests[p].found : KeyOf(c) \notin requests[p].open}

OpenAnomaly(candidate) ==
    [candidate |-> candidate, status |-> "open", reviewed_by |-> None]

\* bulk_create and commit.  Nothing keeps another scan's rows apart from these.
CommitScan(p) ==
    /\ requests[p].step = "scanning"
    /\ requests[p].todo = {}
    /\ \E row \in [NewCandidates(p) -> {a \in Anomaly : anomalies[a] = None}] :
          /\ \A c, d \in NewCandidates(p) : row[c] = row[d] => c = d
          /\ anomalies' = [a \in Anomaly |->
                IF \E c \in NewCandidates(p) : row[c] = a
                THEN OpenAnomaly(CHOOSE c \in NewCandidates(p) : row[c] = a)
                ELSE anomalies[a]]
    /\ covered' = covered \cup {KeyOf(c) : c \in requests[p].found}
    /\ Done(p)
    /\ UNCHANGED <<transactions, scores, events>>

----------------------------------------------------------------------------
(***************************************************************************)
(* disposition_anomaly                                                     *)
(***************************************************************************)
\* Nothing keeps one user from having several requests under way.
ReviewAnomaly(p, u, a, to) ==
    /\ requests[p] = Idle
    /\ anomalies[a] # None
    /\ anomalies[a].status = "open"
    /\ requests' = [requests EXCEPT ![p] =
          [step |-> "reviewing", anomaly |-> a, by |-> u, to |-> to, row |-> anomalies[a]]]
    /\ UNCHANGED <<transactions, anomalies, scores, events, covered>>

\* update_disposition loads the row again and does not look at its status.
ReselectAnomaly(p) ==
    /\ requests[p].step = "reviewing"
    /\ requests' = [requests EXCEPT ![p].step = "reselected",
                                    ![p].row = anomalies[requests[p].anomaly]]
    /\ UNCHANGED <<transactions, anomalies, scores, events, covered>>

\* The UPDATE names the columns that differ from the row that was loaded.
Flushed(loaded, new, current) == IF new = loaded THEN current ELSE new

\* Mutated form: an UPDATE guarded by status = 'open' whose row count nobody
\* looks at.
DisposedRowIfOpen(p) ==
    LET q == requests[p]
    IN  IF anomalies[q.anomaly].status = "open"
        THEN [anomalies[q.anomaly] EXCEPT !.status = q.to, !.reviewed_by = q.by]
        ELSE anomalies[q.anomaly]

DisposedRow(p) ==
    LET q == requests[p]
    IN  [anomalies[q.anomaly] EXCEPT
            !.status = Flushed(q.row.status, q.to, @),
            !.reviewed_by = Flushed(q.row.reviewed_by, q.by, @)]

CommitDisposition(p) ==
    LET q == requests[p]
    IN  /\ q.step = "reselected"
        /\ anomalies' = [anomalies EXCEPT ![q.anomaly] = DisposedRow(p)]
        /\ events' = Append(events, [anomaly |-> q.anomaly, actor |-> q.by,
                                     before |-> "open", after |-> q.to])
        /\ Done(p)
        /\ UNCHANGED <<transactions, scores, covered>>

----------------------------------------------------------------------------
(***************************************************************************)
(* compute_risk_scores                                                     *)
(***************************************************************************)
NoRatings == [t \in Transaction |-> None]

BeginScore(p) ==
    /\ requests[p] = Idle
    /\ transactions # {}
    /\ requests' = [requests EXCEPT ![p] =
          [step |-> "listed", listed |-> transactions, rule |-> NoRatings]]
    /\ UNCHANGED <<transactions, anomalies, scores, events, covered>>

\* Mutated form: the severities of the transactions that share the payment.
SeveritiesOfPayment(t) ==
    {anomalies[a].candidate.severity : a \in {b \in Anomaly :
        /\ anomalies[b] # None
        /\ anomalies[b].candidate.transaction # None
        /\ Payment[anomalies[b].candidate.transaction] = Payment[t]}}

\* Of every anomaly of the transaction, dispositioned ones included.
SeveritiesOf(t) ==
    {anomalies[a].candidate.severity : a \in {b \in Anomaly :
        /\ anomalies[b] # None
        /\ anomalies[b].candidate.transaction = t}}

\* Mutated form: no anomaly counts as a severity of zero.
HighestOrZero(severities) ==
    IF severities = {} THEN 0
    ELSE CHOOSE s \in severities : \A other \in severities : other <= s

Highest(severities) ==
    IF severities = {} THEN None
    ELSE CHOOSE s \in severities : \A other \in severities : other <= s

RateTransactions(p) ==
    /\ requests[p].step = "listed"
    /\ requests' = [requests EXCEPT ![p].step = "rated",
          ![p].rule = [t \in Transaction |->
              IF t \in requests[p].listed THEN Highest(SeveritiesOf(t)) ELSE None]]
    /\ UNCHANGED <<transactions, anomalies, scores, events, covered>>

\* bulk_upsert: one row for each transaction and score version, refreshed.
CommitScores(p) ==
    /\ requests[p].step = "rated"
    /\ scores' = [t \in Transaction |->
          IF t \in requests[p].listed THEN [rule |-> requests[p].rule[t]] ELSE scores[t]]
    /\ Done(p)
    /\ UNCHANGED <<transactions, anomalies, events, covered>>

----------------------------------------------------------------------------
\* The transaction rolls back; two upserts that lock the same rows in different
\* orders end here for one of them.
Fail(p) ==
    /\ requests[p] # Idle
    /\ Done(p)
    /\ UNCHANGED <<transactions, anomalies, scores, events, covered>>

Next ==
    \/ \E batch \in SUBSET Transaction : ImportTransactions(batch)
    \/ \E p \in Worker : BeginScan(p)
    \/ \E p \in Worker : ReadOpen(p)
    \/ \E p \in Worker : CommitScan(p)
    \/ \E p \in Worker, u \in Reviewer, a \in Anomaly, to \in Disposed :
          ReviewAnomaly(p, u, a, to)
    \/ \E p \in Worker : ReselectAnomaly(p)
    \/ \E p \in Worker : CommitDisposition(p)
    \/ \E p \in Worker : BeginScore(p)
    \/ \E p \in Worker : RateTransactions(p)
    \/ \E p \in Worker : CommitScores(p)
    \/ \E p \in Worker : Fail(p)

Spec == Init /\ [][Next]_vars

----------------------------------------------------------------------------
(***************************************************************************)
(* Properties                                                              *)
(***************************************************************************)
\* Rows, events and requests are well formed.
TypeOK ==
    /\ transactions \subseteq Transaction
    /\ anomalies \in [Anomaly -> AnomalyRow \cup {None}]
    /\ scores \in [Transaction -> Score \cup {None}]
    /\ events \in Seq(AuditEvent)
    /\ requests \in [Worker -> {Idle} \cup ScanRequest \cup DispositionRequest
                                 \cup ScoreRequest]
    /\ covered \subseteq Key

\* What a rule says of an anomaly holds of the imported transactions, in
\* whatever order the scan saw them and whatever was imported since.
Supported(candidate) ==
    LET t == candidate.transaction
    IN  CASE candidate.type = "benford_deviation" ->
                 t = None /\ \E S \in DOMAIN Deviation : S \subseteq transactions
          [] candidate.type = "duplicate_payment" ->
                 /\ t \in transactions
                 /\ \E s \in transactions \ {t} :
                       /\ Payment[s] = Payment[t] /\ Payment[s] # None
                       /\ Day[s] <= Day[t] /\ Day[t] - Day[s] <= ProximityDays
          [] candidate.type = "threshold_structuring" -> t \in transactions \cap UNION Structuring
          [] candidate.type = "round_dollar" -> t \in transactions \cap RoundDollar

\* No anomaly is a false accusation by its own rule, and a score's rule-engine
\* signal is the severity of an anomaly of the very transaction it scores.
FlagsSupported ==
    /\ \A a \in Anomaly : anomalies[a] # None => Supported(anomalies[a].candidate)
    /\ \A t \in Transaction : scores[t] # None =>
          /\ t \in transactions
          /\ \/ scores[t].rule = None
             \/ \E a \in Anomaly : anomalies[a] # None /\ anomalies[a].candidate.transaction = t
                                    /\ anomalies[a].candidate.severity = scores[t].rule

\* A scan's filter drops only what is on record: once a scan has been answered,
\* everything it found has an anomaly, though others were dispositioning them.
ScansLeaveNothing ==
    \A key \in covered :
        \E a \in Anomaly : anomalies[a] # None /\ KeyOf(anomalies[a].candidate) = key

EventsOf(a) == {i \in DOMAIN events : events[i].anomaly = a}

\* The committed status is the one event i decided, or event i repeated an
\* earlier decision and its flush kept that of an event between the two.
StatusFrom(i, a) ==
    \/ anomalies[a].status = events[i].after
    \/ \E j, k \in EventsOf(a) :
          /\ j < k /\ k < i
          /\ events[j].after = events[i].after
          /\ anomalies[a].status = events[k].after

ReviewerFrom(i, a) ==
    \/ anomalies[a].reviewed_by = events[i].actor
    \/ \E j, k \in EventsOf(a) :
          /\ j < k /\ k < i
          /\ events[j].actor = events[i].actor
          /\ anomalies[a].reviewed_by = events[k].actor

\* The audit trail accounts for an anomaly's row, although several requests, of
\* one user or of several, may dispose of it at once: an open one has no
\* disposition event; any other has the status and the reviewer of the last
\* event, each except where the last repeats an earlier one and another event
\* lies between.
TrailAccountsForAnomaly ==
    \A a \in Anomaly : anomalies[a] # None =>
        IF anomalies[a].status = "open"
        THEN EventsOf(a) = {}
        ELSE \E i \in EventsOf(a) :
                /\ \A j \in EventsOf(a) : j <= i
                /\ StatusFrom(i, a)
                /\ ReviewerFrom(i, a)
=============================================================================
