--------------------------- MODULE KnowledgeGraph ---------------------------
(***************************************************************************)
(* Vendor resolution of apps/api: kg/application/services.py over the      *)
(* bridge tables in PostgreSQL (one candidate row per transaction, with    *)
(* the graph id it resolved to) and the Vendor nodes and PAID edges in     *)
(* Neo4j.                                                                  *)
(*                                                                         *)
(* A resolution is one PostgreSQL transaction: its candidates are visible  *)
(* to others when it commits and gone when it raises.  Each MERGE is a     *)
(* Neo4j transaction of its own, visible at once and never undone.  An     *)
(* INSERT of a row that another transaction has inserted and not committed *)
(* waits for that transaction.  One engagement: every query of the two     *)
(* stores names the engagement.                                            *)
(***************************************************************************)
EXTENDS Naturals, FiniteSets

CONSTANTS
    Transaction,   \* risk.transactions of the engagement
    Spelling,      \* vendor names as they are written
    VendorName,    \* the name in each transaction's raw_payload
    Normalize,     \* normalize_vendor_name
    Blank,         \* spellings that SQL's trim() leaves empty
    Request,       \* POST .../knowledge-graph/resolve, each made once
    None

ASSUME NameAssumption ==
    /\ VendorName \in [Transaction -> Spelling]
    /\ Normalize \in [Spelling -> Spelling]
    /\ Blank \subseteq Spelling

VARIABLES
    imported,    \* the committed rows of risk.transactions
    candidates,  \* committed rows of kg: the vendor a transaction resolved to
    vendors,     \* Neo4j: the normalized name of each Vendor node
    paid,        \* Neo4j: the PAID edges
    requests     \* what each request is doing

vars == <<imported, candidates, vendors, paid, requests>>

\* A minted uuid is told apart by who minted it and for which name: a request
\* mints at most once for a name.
Vendor == Request \X Spelling

ASSUME NoneAssumption == None \notin Vendor \cup Spelling \cup Transaction

Candidates == [Transaction -> Vendor \cup {None}]

NoCandidates == [t \in Transaction |-> None]

\* listed: what the SELECT returned; todo: what is left of it; vendor:
\* that of the group in progress; txn: the transaction in progress; rows: the
\* candidates inserted and not yet committed; history: known, the names that
\* had a committed vendor when the request read its transactions, and after,
\* the requests that had failed by then.
ResolveRequest ==
    [step : {"new", "grouping", "recording", "merging", "resolved", "failed"},
     listed : SUBSET Transaction, todo : SUBSET Transaction,
     vendor : Vendor \cup {None}, txn : Transaction \cup {None},
     rows : Candidates, known : SUBSET Spelling, after : SUBSET Request]

NewRequest ==
    [step |-> "new", listed |-> {}, todo |-> {}, vendor |-> None, txn |-> None,
     rows |-> NoCandidates, known |-> {}, after |-> {}]

Active(r) == requests[r].step \in {"grouping", "recording", "merging"}

Init ==
    /\ imported = {}
    /\ candidates = NoCandidates
    /\ vendors = [v \in Vendor |-> None]
    /\ paid = {}
    /\ requests = [r \in Request |-> NewRequest]

----------------------------------------------------------------------------
\* normalized_name of a transaction's row.
NameOf(t) == Normalize[VendorName[t]]

\* The vendors that rows of this name resolved to.
NamedIn(rows, name) ==
    {rows[t] : t \in {u \in Transaction : rows[u] # None /\ NameOf(u) = name}}

\* POST .../transactions, elsewhere: a row is inserted and never changed.
ImportTransaction(t) ==
    /\ t \notin imported
    /\ imported' = imported \cup {t}
    /\ UNCHANGED <<candidates, vendors, paid, requests>>

\* The transactions of the engagement that have a vendor name.
ListTransactionsWithVendor == {t \in imported : VendorName[t] \notin Blank}

\* resolve_vendors: constraints, then the transactions.  Their order, and so
\* that of the groups, is whatever the SELECT returns.
BeginResolve(r) ==
    /\ requests[r].step = "new"
    /\ requests' = [requests EXCEPT ![r] =
          [NewRequest EXCEPT !.step = "grouping",
                             !.listed = ListTransactionsWithVendor,
                             !.todo = ListTransactionsWithVendor,
                             !.known = {n \in Spelling : NamedIn(candidates, n) # {}},
                             !.after = {q \in Request : requests[q].step = "failed"}]]
    /\ UNCHANGED <<imported, candidates, vendors, paid>>

\* Mutated form: the rows are compared by the name as it was written.
ExistingAsWritten(r, name) ==
    LET written(rows) == {t \in Transaction : rows[t] # None /\ VendorName[t] = name}
    IN  {candidates[t] : t \in written(candidates)}
            \cup {requests[r].rows[t] : t \in written(requests[r].rows)}

\* find_existing_vendor_id: any row of the name, committed or the request's own.
ExistingVendors(r, name) == NamedIn(candidates, name) \cup NamedIn(requests[r].rows, name)

\* The id of the group: one that exists, or else a new one.
VendorIds(r, name) ==
    IF ExistingVendors(r, name) # {} THEN ExistingVendors(r, name) ELSE {<<r, name>>}

\* The next group starts with t; a request commits when none is left.
BeginGroup(r) ==
    /\ requests[r].step = "grouping"
    /\ \E t \in requests[r].todo : \E v \in VendorIds(r, NameOf(t)) :
          requests' = [requests EXCEPT ![r].step = "recording", ![r].vendor = v,
                                       ![r].txn = t]
    /\ UNCHANGED <<imported, candidates, vendors, paid>>

\* r's INSERT waits: q has inserted the same key and has not ended.
WaitsFor(r, q) ==
    /\ requests[r].step = "recording"
    /\ requests[q].rows[requests[r].txn] # None

\* Mutated form: each row is committed on its own.
RecordCandidateAtOnce(r) ==
    /\ requests[r].step = "recording"
    /\ candidates' = [candidates EXCEPT ![requests[r].txn] =
          IF @ = None THEN requests[r].vendor ELSE @]
    /\ requests' = [requests EXCEPT ![r].step = "merging"]
    /\ UNCHANGED <<imported, vendors, paid>>

\* record_candidate_and_resolution: both rows, or neither if the transaction
\* has a candidate.
RecordCandidate(r) ==
    LET t == requests[r].txn
    IN  /\ requests[r].step = "recording"
        /\ \A q \in Request : ~WaitsFor(r, q)
        /\ requests' = [requests EXCEPT ![r].step = "merging", ![r].rows =
              IF candidates[t] = None THEN [@ EXCEPT ![t] = requests[r].vendor] ELSE @]
        /\ UNCHANGED <<imported, candidates, vendors, paid>>

\* The rest of the group, in any order.
RestOfGroup(r) ==
    {t \in requests[r].todo \ {requests[r].txn} : NameOf(t) = NameOf(requests[r].txn)}

\* merge_vendor_and_transaction: the vendor's node with its name, unless it
\* exists, and the edge, whether or not the candidate was new; then the loop
\* goes on.
MergeVendorAndTransaction(r) ==
    LET t == requests[r].txn  v == requests[r].vendor
    IN  /\ requests[r].step = "merging"
        /\ vendors' = [vendors EXCEPT ![v] = IF @ = None THEN NameOf(t) ELSE @]
        /\ paid' = paid \cup {<<t, v>>}
        /\ IF RestOfGroup(r) = {}
           THEN requests' = [requests EXCEPT ![r].step = "grouping", ![r].todo = @ \ {t}]
           ELSE \E u \in RestOfGroup(r) :
                   requests' = [requests EXCEPT ![r].step = "recording",
                                                ![r].todo = @ \ {t}, ![r].txn = u]
        /\ UNCHANGED <<imported, candidates>>

\* get_db_session commits, and the request is answered.
CommitResolve(r) ==
    /\ requests[r].step = "grouping"
    /\ requests[r].todo = {}
    /\ candidates' = [t \in Transaction |->
          IF requests[r].rows[t] # None THEN requests[r].rows[t] ELSE candidates[t]]
    /\ requests' = [requests EXCEPT ![r].step = "resolved", ![r].rows = NoCandidates]
    /\ UNCHANGED <<imported, vendors, paid>>

\* Mutated form: the transaction is left open.
FailOpen(r) ==
    /\ Active(r)
    /\ requests' = [requests EXCEPT ![r].step = "failed"]
    /\ UNCHANGED <<imported, candidates, vendors, paid>>

\* A statement, a MERGE (done or not) or the commit raises: get_db_session
\* rolls back.  The graph keeps what it was given.
Fail(r) ==
    /\ Active(r)
    /\ requests' = [requests EXCEPT ![r].step = "failed", ![r].rows = NoCandidates]
    /\ UNCHANGED <<imported, candidates, vendors, paid>>

\* PostgreSQL ends one of the transactions that wait for each other in a circle.
Deadlocked(r) ==
    \E S \in SUBSET Request :
        /\ r \in S
        /\ \A q \in S : (\E w \in S : WaitsFor(q, w)) /\ (\E w \in S : WaitsFor(w, q))

\* What a request does once it has begun.
Continue(r) ==
    \/ BeginGroup(r)
    \/ RecordCandidate(r)
    \/ MergeVendorAndTransaction(r)
    \/ CommitResolve(r)
    \/ Deadlocked(r) /\ Fail(r)

Next ==
    \/ \E t \in Transaction : ImportTransaction(t)
    \/ \E r \in Request : BeginResolve(r) \/ Continue(r) \/ Fail(r)

Spec == Init /\ [][Next]_vars

\* Every awaited call returns or raises, and the event loop goes on with it.
FairSpec == Spec /\ \A r \in Request : WF_vars(Continue(r))

----------------------------------------------------------------------------
(***************************************************************************)
(* Properties                                                              *)
(***************************************************************************)
\* Rows, nodes, edges and requests are well formed, and a request that is not
\* in progress holds no rows.
TypeOK ==
    /\ imported \subseteq Transaction
    /\ candidates \in Candidates
    /\ vendors \in [Vendor -> Spelling \cup {None}]
    /\ paid \subseteq Transaction \X Vendor
    /\ requests \in [Request -> ResolveRequest]
    /\ \A r \in Request : requests[r].rows # NoCandidates => Active(r)

\* get_vendor_network: the transactions paid to a vendor.
VendorNetwork(v) == {t \in Transaction : <<t, v>> \in paid}

\* list_vendors: each vendor of the graph, whatever the bridge tables say.
ListVendors == {v \in Vendor : VendorNetwork(v) # {}}

\* Whatever fails or overlaps, the graph follows the bridge tables: a committed
\* candidate's transaction is in the network of the vendor it resolved to, a
\* network holds transactions of one normalized name, and a request that was
\* answered has resolved every transaction it listed.
ResolutionReachesGraph ==
    /\ \A t \in Transaction : candidates[t] # None => t \in VendorNetwork(candidates[t])
    /\ \A v \in ListVendors : \A t \in VendorNetwork(v) : vendors[v] = NameOf(t)
    /\ \A r \in Request : requests[r].step = "resolved" =>
          \A t \in requests[r].listed : candidates[t] # None

\* "A previously-resolved vendor name is looked up and reused, never re-minted":
\* a request gives a new id, in the tables or in the graph, only to a name that
\* had none when it read its transactions.
KnownNamesReused ==
    \A r \in Request : \A n \in requests[r].known :
        /\ <<r, n>> \notin ListVendors
        /\ \A t \in Transaction : <<r, n>> \notin {candidates[t], requests[r].rows[t]}

\* Every resolution comes to an end, waiting for each other's rows included.
EveryRequestAnswered ==
    \A r \in Request : Active(r) ~> requests[r].step \in {"resolved", "failed"}

\* "A partial failure in an earlier run ... is corrected by simply running this
\* again."  A run that follows failed runs only should leave each transaction it
\* listed paid to one vendor.  A run that failed after a MERGE has left an edge
\* to a vendor that no row knows, and the next one mints another.
SelfHealed ==
    \A r \in Request :
        requests[r].step = "resolved" /\ requests[r].after = Request \ {r} =>
            \A t \in requests[r].listed :
                Cardinality({v \in ListVendors : t \in VendorNetwork(v)}) = 1
=============================================================================
