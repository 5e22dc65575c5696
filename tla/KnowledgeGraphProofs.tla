------------------------ MODULE KnowledgeGraphProofs ------------------------
(***************************************************************************)
(* Theorems about KnowledgeGraph, for every set of transactions, names and *)
(* overlapping resolutions.                                                *)
(***************************************************************************)
EXTENDS KnowledgeGraph, FiniteSetTheorems, WellFoundedInduction, TLAPS

LEMMA NamesOfTransactions ==
    ASSUME NEW t \in Transaction
    PROVE  NameOf(t) \in Spelling
  BY NameAssumption DEF NameOf

LEMMA NoneIsNothing ==
    /\ None \notin Vendor
    /\ None \notin Transaction
    /\ None \notin Spelling
  BY NoneAssumption

LEMMA EmptyRows ==
    /\ NoCandidates \in Candidates
    /\ \A t \in Transaction : NoCandidates[t] = None
  BY DEF NoCandidates, Candidates

\* The id of a group is a row's, or new: in either case a vendor.
LEMMA IdsOfGroups ==
    ASSUME candidates \in Candidates, NEW r \in Request, requests[r].rows \in Candidates,
           NEW t \in Transaction, NEW v \in VendorIds(r, NameOf(t))
    PROVE  /\ v \in Vendor
           /\ \/ \E u \in Transaction : /\ NameOf(u) = NameOf(t)
                                        /\ v \in {candidates[u], requests[r].rows[u]}
              \/ /\ v = <<r, NameOf(t)>>
                 /\ NamedIn(candidates, NameOf(t)) = {}
  <1>1. CASE v \in ExistingVendors(r, NameOf(t))
    BY <1>1 DEF ExistingVendors, NamedIn, Candidates
  <1>2. CASE v \notin ExistingVendors(r, NameOf(t))
    <2>1. v = <<r, NameOf(t)>> /\ ExistingVendors(r, NameOf(t)) = {}
      BY <1>2 DEF VendorIds
    <2> QED BY <2>1, NamesOfTransactions DEF ExistingVendors, Vendor
  <1> QED BY <1>1, <1>2

----------------------------------------------------------------------------
(***************************************************************************)
(* Types                                                                   *)
(***************************************************************************)
\* A request within a group is at one of its transactions, with its vendor.
GroupInProgress ==
    \A r \in Request : requests[r].step \in {"recording", "merging"} =>
        /\ requests[r].txn \in requests[r].todo
        /\ requests[r].vendor \in Vendor

TypeInv == TypeOK /\ GroupInProgress

LEMMA InitType == Init => TypeInv
  <1> SUFFICES ASSUME Init PROVE TypeInv
    OBVIOUS
  <1>1. NewRequest \in ResolveRequest
    BY EmptyRows DEF NewRequest, ResolveRequest
  <1>2. TypeOK
    BY <1>1, EmptyRows DEF Init, TypeOK, NewRequest
  <1>3. GroupInProgress
    BY DEF Init, GroupInProgress, NewRequest
  <1> QED BY <1>2, <1>3 DEF TypeInv

\* An action of one request: what there is to show of its record.
LEMMA OneRequestType ==
    ASSUME TypeInv, NEW r \in Request, NEW q \in ResolveRequest,
           requests' = [requests EXCEPT ![r] = q],
           q.rows # NoCandidates => q.step \in {"grouping", "recording", "merging"},
           q.step \in {"recording", "merging"} => q.txn \in q.todo /\ q.vendor \in Vendor
    PROVE  /\ requests' \in [Request -> ResolveRequest]
           /\ \A p \in Request : requests'[p].rows # NoCandidates => Active(p)'
           /\ GroupInProgress'
  BY DEF TypeInv, TypeOK, GroupInProgress, Active

\* After a MERGE: the next transaction of the group, or the next group.
LEMMA MergedRequest ==
    ASSUME TypeInv, NEW r \in Request, MergeVendorAndTransaction(r)
    PROVE  \E q \in ResolveRequest :
              /\ requests' = [requests EXCEPT ![r] = q]
              /\ q.step \in {"grouping", "recording"}
              /\ q.step = "recording" => q.txn \in q.todo /\ NameOf(q.txn) = NameOf(requests[r].txn)
              /\ q.todo = requests[r].todo \ {requests[r].txn}
              /\ q.listed = requests[r].listed /\ q.known = requests[r].known
              /\ q.vendor = requests[r].vendor /\ q.rows = requests[r].rows
  <1> DEFINE t == requests[r].txn
  <1>a. requests[r] \in ResolveRequest /\ requests \in [Request -> ResolveRequest]
    BY DEF TypeInv, TypeOK
  <1>1. CASE RestOfGroup(r) = {}
    <2> DEFINE q == [requests[r] EXCEPT !.step = "grouping", !.todo = @ \ {t}]
    <2>1. /\ q \in ResolveRequest /\ q.step = "grouping" /\ q.todo = requests[r].todo \ {t}
          /\ q.listed = requests[r].listed /\ q.known = requests[r].known
          /\ q.vendor = requests[r].vendor /\ q.rows = requests[r].rows
      BY <1>a DEF ResolveRequest
    <2>2. requests' = [requests EXCEPT ![r] = q]
      BY <1>1, <1>a DEF MergeVendorAndTransaction
    <2> HIDE DEF q
    <2> QED BY <2>1, <2>2
  <1>2. CASE RestOfGroup(r) # {}
    <2>1. PICK u \in RestOfGroup(r) :
            requests' = [requests EXCEPT ![r].step = "recording",
                                         ![r].todo = @ \ {t}, ![r].txn = u]
      BY <1>2 DEF MergeVendorAndTransaction
    <2>2. u \in requests[r].todo \ {t} /\ u \in Transaction /\ NameOf(u) = NameOf(t)
      BY <1>a DEF RestOfGroup, ResolveRequest
    <2> DEFINE q == [requests[r] EXCEPT !.step = "recording", !.todo = @ \ {t}, !.txn = u]
    <2>3. /\ q \in ResolveRequest /\ q.step = "recording" /\ q.txn = u
          /\ q.todo = requests[r].todo \ {t}
          /\ q.listed = requests[r].listed /\ q.known = requests[r].known
          /\ q.vendor = requests[r].vendor /\ q.rows = requests[r].rows
      BY <1>a, <2>2 DEF ResolveRequest
    <2>4. requests' = [requests EXCEPT ![r] = q]
      BY <1>a, <2>1
    <2> HIDE DEF q
    <2> QED BY <2>2, <2>3, <2>4
  <1> QED BY <1>1, <1>2

LEMMA NextType == TypeInv /\ [Next]_vars => TypeInv'
  <1> SUFFICES ASSUME TypeInv, [Next]_vars PROVE TypeInv'
    OBVIOUS
  <1> USE DEF TypeInv
  <1>1. ASSUME NEW t \in Transaction, ImportTransaction(t) PROVE TypeInv'
    BY <1>1 DEF ImportTransaction, TypeOK, GroupInProgress, Active
  <1> SUFFICES ASSUME NEW r \in Request, BeginResolve(r) \/ Continue(r) \/ Fail(r)
               PROVE  TypeInv'
    <2>1. CASE UNCHANGED vars
      BY <2>1 DEF vars, TypeOK, GroupInProgress, Active
    <2> QED BY <1>1, <2>1 DEF Next
  <1>a. requests[r] \in ResolveRequest
    BY DEF TypeOK
  <1>2. CASE BeginResolve(r)
    <2> DEFINE q == [NewRequest EXCEPT !.step = "grouping",
                             !.listed = ListTransactionsWithVendor,
                             !.todo = ListTransactionsWithVendor,
                             !.known = {n \in Spelling : NamedIn(candidates, n) # {}},
                             !.after = {p \in Request : requests[p].step = "failed"}]
    <2>1. ListTransactionsWithVendor \in SUBSET Transaction
      BY DEF ListTransactionsWithVendor, TypeOK
    <2>2. q \in ResolveRequest /\ q.step = "grouping"
      BY <2>1, EmptyRows DEF NewRequest, ResolveRequest
    <2>3. requests' = [requests EXCEPT ![r] = q]
      BY <1>2 DEF BeginResolve
    <2> HIDE DEF q
    <2> QED BY <1>2, <2>2, <2>3, OneRequestType DEF BeginResolve, TypeOK
  <1>3. CASE BeginGroup(r)
    <2>0. PICK t \in requests[r].todo : \E v \in VendorIds(r, NameOf(t)) :
              requests' = [requests EXCEPT ![r].step = "recording", ![r].vendor = v,
                                           ![r].txn = t]
      BY <1>3 DEF BeginGroup
    <2>1. PICK v \in VendorIds(r, NameOf(t)) :
              requests' = [requests EXCEPT ![r].step = "recording", ![r].vendor = v,
                                           ![r].txn = t]
      BY <2>0
    <2>2. t \in Transaction /\ v \in Vendor
      BY <1>a, <2>1, IdsOfGroups DEF ResolveRequest, TypeOK
    <2> DEFINE q == [requests[r] EXCEPT !.step = "recording", !.vendor = v, !.txn = t]
    <2>3. q \in ResolveRequest /\ q.step = "recording" /\ q.txn \in q.todo /\ q.vendor \in Vendor
      BY <1>a, <2>1, <2>2 DEF ResolveRequest
    <2>4. requests' = [requests EXCEPT ![r] = q]
      BY <2>1 DEF TypeOK
    <2> HIDE DEF q
    <2> QED BY <1>3, <2>3, <2>4, OneRequestType DEF BeginGroup, TypeOK
  <1>4. CASE RecordCandidate(r)
    <2> DEFINE t == requests[r].txn
               rows == IF candidates[t] = None
                       THEN [requests[r].rows EXCEPT ![t] = requests[r].vendor]
                       ELSE requests[r].rows
               q == [requests[r] EXCEPT !.step = "merging", !.rows = rows]
    <2>1. requests[r].txn \in requests[r].todo /\ requests[r].vendor \in Vendor
      BY <1>4 DEF RecordCandidate, GroupInProgress
    <2>2. rows \in Candidates
      BY <1>a, <2>1 DEF ResolveRequest, Candidates
    <2>3. requests' = [requests EXCEPT ![r] = q]
      BY <1>4 DEF RecordCandidate, TypeOK
    <2> HIDE DEF rows
    <2>4. q \in ResolveRequest /\ q.step = "merging" /\ q.txn \in q.todo /\ q.vendor \in Vendor
      BY <1>a, <2>1, <2>2 DEF ResolveRequest
    <2> HIDE DEF q
    <2> QED BY <1>4, <2>3, <2>4, OneRequestType DEF RecordCandidate, TypeOK
  <1>5. CASE MergeVendorAndTransaction(r)
    <2> DEFINE t == requests[r].txn
               v == requests[r].vendor
    <2>1. t \in Transaction /\ v \in Vendor /\ requests[r].step = "merging"
      BY <1>5, <1>a DEF MergeVendorAndTransaction, GroupInProgress, ResolveRequest
    <2>2. vendors' \in [Vendor -> Spelling \cup {None}] /\ paid' \subseteq Transaction \X Vendor
      BY <1>5, <2>1, NamesOfTransactions DEF MergeVendorAndTransaction, TypeOK
    <2>3. PICK q \in ResolveRequest :
            /\ requests' = [requests EXCEPT ![r] = q]
            /\ q.step \in {"grouping", "recording"}
            /\ q.step = "recording" => q.txn \in q.todo /\ q.vendor \in Vendor
      BY <1>5, <2>1, MergedRequest
    <2> QED BY <1>5, <2>2, <2>3, OneRequestType DEF MergeVendorAndTransaction, TypeOK
  <1>6. CASE CommitResolve(r)
    <2> DEFINE q == [requests[r] EXCEPT !.step = "resolved", !.rows = NoCandidates]
    <2>1. candidates' \in Candidates
      BY <1>6, <1>a DEF CommitResolve, TypeOK, Candidates, ResolveRequest
    <2>2. q \in ResolveRequest /\ q.step = "resolved" /\ q.rows = NoCandidates
      BY <1>a, EmptyRows DEF ResolveRequest
    <2>3. requests' = [requests EXCEPT ![r] = q]
      BY <1>6 DEF CommitResolve, TypeOK
    <2> HIDE DEF q
    <2> QED BY <1>6, <2>1, <2>2, <2>3, OneRequestType DEF CommitResolve, TypeOK
  <1>7. CASE Fail(r)
    <2> DEFINE q == [requests[r] EXCEPT !.step = "failed", !.rows = NoCandidates]
    <2>1. q \in ResolveRequest /\ q.step = "failed" /\ q.rows = NoCandidates
      BY <1>a, EmptyRows DEF ResolveRequest
    <2>2. requests' = [requests EXCEPT ![r] = q]
      BY <1>7 DEF Fail, TypeOK
    <2> HIDE DEF q
    <2> QED BY <1>7, <2>1, <2>2, OneRequestType DEF Fail, TypeOK
  <1> QED BY <1>2, <1>3, <1>4, <1>5, <1>6, <1>7 DEF Continue

\* Rows, nodes, edges and requests are well formed, and only a request in
\* progress holds rows: the types of resolve_vendors, for every instance.
THEOREM TypeCorrect == Spec => []TypeOK
  <1>1. TypeInv => TypeOK
    BY DEF TypeInv
  <1> QED BY <1>1, InitType, NextType, PTL DEF Spec

----------------------------------------------------------------------------
(***************************************************************************)
(* Known names                                                             *)
(***************************************************************************)
\* A request that has nothing of a vendor.
Lacks(request, v) ==
    /\ request.vendor # v
    /\ \A t \in Transaction : request.rows[t] # v

\* A vendor that neither store has.
Absent(v) == \A t \in Transaction : candidates[t] # v /\ <<t, v>> \notin paid

\* No id r minted for the name is anywhere.
Unminted(r, name) ==
    /\ Absent(<<r, name>>)
    /\ \A q \in Request : Lacks(requests[q], <<r, name>>)

\* Rows are never removed, so a name that was known stays known, and a request
\* that finds a row of a name does not mint for it.
KnownInv ==
    \A r \in Request : \A n \in Spelling :
        /\ n \in requests[r].known => NamedIn(candidates, n) # {}
        /\ requests[r].step = "new" \/ n \in requests[r].known => Unminted(r, n)

LEMMA InitKnown == Init => KnownInv
  <1> SUFFICES ASSUME Init, NEW r \in Request, NEW n \in Spelling
               PROVE  n \notin requests[r].known /\ Unminted(r, n)
    BY DEF KnownInv
  <1>1. <<r, n>> \in Vendor
    BY DEF Vendor
  <1>2. <<r, n>> # None
    BY <1>1, NoneIsNothing
  <1>3. Absent(<<r, n>>)
    BY <1>2, EmptyRows DEF Init, Absent
  <1>4. Lacks(NewRequest, <<r, n>>)
    BY <1>2, EmptyRows DEF NewRequest, Lacks
  <1>5. \A q \in Request : requests[q] = NewRequest
    BY DEF Init
  <1>6. NewRequest.known = {}
    BY DEF NewRequest
  <1> QED BY <1>3, <1>4, <1>5, <1>6 DEF Unminted

\* A transaction that has a candidate keeps one.
LEMMA RowsKept ==
    ASSUME TypeInv, [Next]_vars, NEW t \in Transaction, candidates[t] # None
    PROVE  candidates'[t] # None
  <1>1. CASE \E r \in Request : CommitResolve(r)
    BY <1>1 DEF CommitResolve
  <1>2. CASE ~\E r \in Request : CommitResolve(r)
    BY <1>2 DEF Next, Continue, vars, ImportTransaction, BeginResolve, BeginGroup,
                RecordCandidate, MergeVendorAndTransaction, Fail
  <1> QED BY <1>1, <1>2

LEMMA KnownStays ==
    ASSUME TypeInv, [Next]_vars, NEW n \in Spelling, NamedIn(candidates, n) # {}
    PROVE  NamedIn(candidates', n) # {}
  <1>1. PICK t \in Transaction : candidates[t] # None /\ NameOf(t) = n
    BY DEF NamedIn
  <1>2. candidates'[t] # None
    BY <1>1, RowsKept
  <1> QED BY <1>1, <1>2 DEF NamedIn

\* An action of one request that keeps its history, and after which a vendor
\* that was nowhere is in neither store nor its hands.
LEMMA KnownOfOthers ==
    ASSUME TypeInv, KnownInv, [Next]_vars, NEW r \in Request, NEW q,
           requests' = [requests EXCEPT ![r] = q],
           q.known = requests[r].known, q.step # "new",
           \A p \in Request, n \in Spelling :
               (requests[p].step = "new" \/ n \in requests[p].known) /\ Unminted(p, n) =>
                   Absent(<<p, n>>)' /\ Lacks(q, <<p, n>>)
    PROVE  KnownInv'
  <1> SUFFICES ASSUME NEW p \in Request, NEW n \in Spelling
               PROVE  /\ n \in requests'[p].known => NamedIn(candidates', n) # {}
                      /\ requests'[p].step = "new" \/ n \in requests'[p].known =>
                            Unminted(p, n)'
    BY DEF KnownInv
  <1>1. requests \in [Request -> ResolveRequest]
    BY DEF TypeInv, TypeOK
  <1>2. requests'[p].known = requests[p].known
    BY <1>1
  <1>3. requests'[p].step = "new" => requests[p].step = "new"
    BY <1>1
  <1>4. n \in requests'[p].known => NamedIn(candidates', n) # {}
    BY <1>2, KnownStays DEF KnownInv
  <1>5. ASSUME requests'[p].step = "new" \/ n \in requests'[p].known PROVE Unminted(p, n)'
    <2>1. /\ requests[p].step = "new" \/ n \in requests[p].known
          /\ Unminted(p, n)
      BY <1>2, <1>3, <1>5 DEF KnownInv
    <2>2. Absent(<<p, n>>)' /\ Lacks(q, <<p, n>>)
      BY <2>1
    <2>3. \A o \in Request : requests'[o] = IF o = r THEN q ELSE requests[o]
      BY <1>1
    <2>4. \A o \in Request : Lacks(requests'[o], <<p, n>>)
      BY <2>1, <2>2, <2>3 DEF Unminted
    <2> QED BY <2>2, <2>4 DEF Unminted
  <1> QED BY <1>4, <1>5

LEMMA NextKnown == TypeInv /\ KnownInv /\ [Next]_vars => KnownInv'
  <1> SUFFICES ASSUME TypeInv, KnownInv, [Next]_vars PROVE KnownInv'
    OBVIOUS
  <1>0. CASE UNCHANGED <<candidates, paid, requests>>
    BY <1>0 DEF KnownInv, Unminted, Absent, Lacks, NamedIn
  <1>1. ASSUME NEW t \in Transaction, ImportTransaction(t) PROVE KnownInv'
    BY <1>0, <1>1 DEF ImportTransaction
  <1> SUFFICES ASSUME NEW r \in Request, BeginResolve(r) \/ Continue(r) \/ Fail(r)
               PROVE  KnownInv'
    BY <1>0, <1>1 DEF Next, vars
  <1>a. /\ requests \in [Request -> ResolveRequest]
        /\ requests[r] \in ResolveRequest
        /\ candidates \in Candidates
    BY DEF TypeInv, TypeOK
  <1>2. CASE BeginResolve(r)
    <2> SUFFICES ASSUME NEW p \in Request, NEW n \in Spelling
                 PROVE  /\ n \in requests'[p].known => NamedIn(candidates', n) # {}
                        /\ requests'[p].step = "new" \/ n \in requests'[p].known =>
                              Unminted(p, n)'
      BY DEF KnownInv
    <2>1. /\ candidates' = candidates /\ paid' = paid
          /\ requests[r].step = "new"
          /\ \A o \in Request : o # r => requests'[o] = requests[o]
          /\ requests'[r].known = {m \in Spelling : NamedIn(candidates, m) # {}}
          /\ requests'[r].vendor = None
          /\ requests'[r].rows = NoCandidates
      BY <1>2, <1>a DEF BeginResolve, NewRequest
    <2>2. n \in requests'[p].known => NamedIn(candidates', n) # {}
      BY <2>1 DEF KnownInv
    <2>3. ASSUME requests'[p].step = "new" \/ n \in requests'[p].known PROVE Unminted(p, n)'
      <3>1. Unminted(p, n)
        BY <2>1, <2>3 DEF KnownInv
      <3>2. <<p, n>> # None
        BY NoneIsNothing DEF Vendor
      <3> QED BY <2>1, <3>1, <3>2, EmptyRows DEF Unminted, Absent, Lacks
    <2> QED BY <2>2, <2>3
  <1>3. CASE BeginGroup(r)
    <2>0. PICK t \in requests[r].todo : \E v \in VendorIds(r, NameOf(t)) :
              requests' = [requests EXCEPT ![r].step = "recording", ![r].vendor = v,
                                           ![r].txn = t]
      BY <1>3 DEF BeginGroup
    <2>1. PICK v \in VendorIds(r, NameOf(t)) :
              requests' = [requests EXCEPT ![r].step = "recording", ![r].vendor = v,
                                           ![r].txn = t]
      BY <2>0
    <2> DEFINE q == [requests[r] EXCEPT !.step = "recording", !.vendor = v, !.txn = t]
    <2>2. /\ requests' = [requests EXCEPT ![r] = q]
          /\ q.step = "recording" /\ q.known = requests[r].known
          /\ q.vendor = v /\ q.rows = requests[r].rows
      BY <1>a, <2>1 DEF ResolveRequest
    <2>3. t \in Transaction /\ requests[r].rows \in Candidates
      BY <1>a DEF ResolveRequest
    <2>4. requests[r].step = "grouping" /\ candidates' = candidates /\ paid' = paid
      BY <1>3 DEF BeginGroup
    <2> HIDE DEF q
    <2>5. ASSUME NEW p \in Request, NEW n \in Spelling, Unminted(p, n),
                 requests[p].step = "new" \/ n \in requests[p].known
          PROVE  v # <<p, n>>
      <3>1. CASE \E u \in Transaction : /\ NameOf(u) = NameOf(t)
                                        /\ v \in {candidates[u], requests[r].rows[u]}
        BY <2>5, <3>1 DEF Unminted, Absent, Lacks
      <3>2. CASE v = <<r, NameOf(t)>> /\ NamedIn(candidates, NameOf(t)) = {}
        <4>1. NameOf(t) \notin requests[r].known
          BY <3>2, <2>3, NamesOfTransactions DEF KnownInv
        <4> QED BY <3>2, <4>1, <2>4, <2>5
      <3> QED BY <1>a, <2>3, <3>1, <3>2, IdsOfGroups
    <2>6. \A p \in Request, n \in Spelling :
             (requests[p].step = "new" \/ n \in requests[p].known) /\ Unminted(p, n) =>
                   Absent(<<p, n>>)' /\ Lacks(q, <<p, n>>)
      BY <2>2, <2>4, <2>5 DEF Unminted, Absent, Lacks
    <2> QED BY <2>2, <2>6, KnownOfOthers
  <1>4. CASE RecordCandidate(r)
    <2> DEFINE t == requests[r].txn
               rows == IF candidates[t] = None
                       THEN [requests[r].rows EXCEPT ![t] = requests[r].vendor]
                       ELSE requests[r].rows
               q == [requests[r] EXCEPT !.step = "merging", !.rows = rows]
    <2>1. \A u \in Transaction : rows[u] \in {requests[r].rows[u], requests[r].vendor}
      BY <1>a DEF ResolveRequest, Candidates
    <2>2. requests' = [requests EXCEPT ![r] = q]
      BY <1>4, <1>a DEF RecordCandidate
    <2> HIDE DEF rows
    <2>3. /\ q.step = "merging" /\ q.known = requests[r].known
          /\ q.vendor = requests[r].vendor /\ q.rows = rows
      BY <1>a DEF ResolveRequest
    <2>4. candidates' = candidates /\ paid' = paid
      BY <1>4 DEF RecordCandidate
    <2> HIDE DEF q
    <2>5. \A p \in Request, n \in Spelling :
             (requests[p].step = "new" \/ n \in requests[p].known) /\ Unminted(p, n) =>
                   Absent(<<p, n>>)' /\ Lacks(q, <<p, n>>)
      BY <2>1, <2>3, <2>4 DEF Unminted, Absent, Lacks
    <2> QED BY <2>2, <2>3, <2>5, KnownOfOthers
  <1>5. CASE MergeVendorAndTransaction(r)
    <2>1. PICK q \in ResolveRequest :
            /\ requests' = [requests EXCEPT ![r] = q]
            /\ q.step \in {"grouping", "recording"} /\ q.known = requests[r].known
            /\ q.vendor = requests[r].vendor /\ q.rows = requests[r].rows
      BY <1>5, <1>a, MergedRequest
    <2>2. candidates' = candidates /\ paid' = paid \cup {<<requests[r].txn, requests[r].vendor>>}
      BY <1>5 DEF MergeVendorAndTransaction
    <2>3. \A p \in Request, n \in Spelling :
             (requests[p].step = "new" \/ n \in requests[p].known) /\ Unminted(p, n) =>
                   Absent(<<p, n>>)' /\ Lacks(q, <<p, n>>)
      BY <2>1, <2>2 DEF Unminted, Absent, Lacks
    <2> QED BY <2>1, <2>3, KnownOfOthers
  <1>6. CASE CommitResolve(r)
    <2> DEFINE q == [requests[r] EXCEPT !.step = "resolved", !.rows = NoCandidates]
    <2>1. /\ requests' = [requests EXCEPT ![r] = q]
          /\ q.step = "resolved" /\ q.known = requests[r].known
          /\ q.vendor = requests[r].vendor /\ q.rows = NoCandidates
      BY <1>6, <1>a DEF CommitResolve, ResolveRequest
    <2>2. /\ paid' = paid
          /\ \A u \in Transaction : candidates'[u] \in {candidates[u], requests[r].rows[u]}
      BY <1>6 DEF CommitResolve
    <2> HIDE DEF q
    <2>3. ASSUME NEW p \in Request, NEW n \in Spelling, Unminted(p, n)
          PROVE  Absent(<<p, n>>)' /\ Lacks(q, <<p, n>>)
      <3>1. <<p, n>> # None
        BY NoneIsNothing DEF Vendor
      <3> QED BY <2>1, <2>2, <2>3, <3>1, EmptyRows DEF Unminted, Absent, Lacks
    <2> QED BY <2>1, <2>3, KnownOfOthers
  <1>7. CASE Fail(r)
    <2> DEFINE q == [requests[r] EXCEPT !.step = "failed", !.rows = NoCandidates]
    <2>1. /\ requests' = [requests EXCEPT ![r] = q]
          /\ q.step = "failed" /\ q.known = requests[r].known
          /\ q.vendor = requests[r].vendor /\ q.rows = NoCandidates
      BY <1>7, <1>a DEF Fail, ResolveRequest
    <2>2. paid' = paid /\ candidates' = candidates
      BY <1>7 DEF Fail
    <2> HIDE DEF q
    <2>3. ASSUME NEW p \in Request, NEW n \in Spelling, Unminted(p, n)
          PROVE  Absent(<<p, n>>)' /\ Lacks(q, <<p, n>>)
      <3>1. <<p, n>> # None
        BY NoneIsNothing DEF Vendor
      <3> QED BY <2>1, <2>2, <2>3, <3>1, EmptyRows DEF Unminted, Absent, Lacks
    <2> QED BY <2>1, <2>3, KnownOfOthers
  <1> QED BY <1>2, <1>3, <1>4, <1>5, <1>6, <1>7 DEF Continue

\* "A previously-resolved vendor name is looked up and reused, never re-minted":
\* whatever overlaps or fails, find_existing_vendor_id keeps a request from
\* giving a new id to a name that had one when it read its transactions.
THEOREM KnownNamesAlwaysReused == Spec => []KnownNamesReused
  <1>1. TypeInv /\ KnownInv => KnownNamesReused
    <2> SUFFICES ASSUME TypeInv, KnownInv, NEW r \in Request, NEW n \in requests[r].known
                 PROVE  /\ <<r, n>> \notin ListVendors
                        /\ \A t \in Transaction :
                              <<r, n>> \notin {candidates[t], requests[r].rows[t]}
      BY DEF KnownNamesReused
    <2>1. n \in Spelling
      BY DEF TypeInv, TypeOK, ResolveRequest
    <2>2. Unminted(r, n)
      BY <2>1 DEF KnownInv
    <2> QED BY <2>2 DEF Unminted, Absent, Lacks, ListVendors, VendorNetwork
  <1> QED BY <1>1, InitType, NextType, InitKnown, NextKnown, PTL DEF Spec

----------------------------------------------------------------------------
(***************************************************************************)
(* Two stores                                                              *)
(***************************************************************************)
\* The ids minted for a name, whoever minted them.
VendorsNamed(name) == Request \X {name}

\* The vendor a transaction resolved to, or is resolving to, was minted for its
\* name, and so are its edges; a node, once merged, bears that name.
NamesInv ==
    /\ \A t \in Transaction : candidates[t] \in VendorsNamed(NameOf(t)) \cup {None}
    /\ \A r \in Request, t \in Transaction :
          requests[r].rows[t] \in VendorsNamed(NameOf(t)) \cup {None}
    /\ \A r \in Request : requests[r].step \in {"recording", "merging"} =>
          requests[r].vendor \in VendorsNamed(NameOf(requests[r].txn))
    /\ \A r \in Request, n \in Spelling : vendors[<<r, n>>] \in {n, None}
    /\ \A t \in Transaction : \A v \in Vendor : <<t, v>> \in paid =>
          v \in VendorsNamed(NameOf(t)) /\ vendors[v] = NameOf(t)

\* A row is merged before the next one is inserted, and so before the commit.
MergedInv ==
    /\ \A t \in Transaction : candidates[t] # None => <<t, candidates[t]>> \in paid
    /\ \A r \in Request, t \in Transaction : requests[r].rows[t] # None =>
          \/ <<t, requests[r].rows[t]>> \in paid
          \/ /\ requests[r].step = "merging" /\ requests[r].txn = t
             /\ requests[r].rows[t] = requests[r].vendor

\* Has a row, the request's own or a committed one.
HasRow(r, t) == candidates[t] # None \/ requests[r].rows[t] # None

\* What has been listed is still to do or has a row.
Accounted(r) ==
    /\ Active(r) => \A t \in requests[r].listed : t \in requests[r].todo \/ HasRow(r, t)
    /\ requests[r].step = "merging" => HasRow(r, requests[r].txn)
    /\ requests[r].step = "resolved" => \A t \in requests[r].listed : candidates[t] # None

ListedInv == \A r \in Request : Accounted(r)

ReachInv == NamesInv /\ MergedInv /\ ListedInv

LEMMA InitReach == Init => ReachInv
  <1> SUFFICES ASSUME Init PROVE ReachInv
    OBVIOUS
  <1>1. \A r \in Request : requests[r] = NewRequest
    BY DEF Init
  <1>2. NewRequest.rows = NoCandidates /\ NewRequest.step = "new"
    BY DEF NewRequest
  <1>3. NamesInv
    <2>1. \A r \in Request, n \in Spelling : vendors[<<r, n>>] = None
      BY DEF Init, Vendor
    <2> QED BY <1>1, <1>2, <2>1, EmptyRows DEF Init, NamesInv
  <1>4. MergedInv
    BY <1>1, <1>2, EmptyRows DEF Init, MergedInv
  <1>5. ListedInv
    BY <1>1, <1>2 DEF ListedInv, Accounted, Active
  <1> QED BY <1>3, <1>4, <1>5 DEF ReachInv

\* What each step of a request leaves of its record, and of the stores.
LEMMA BegunRequest ==
    ASSUME TypeInv, NEW r \in Request, BeginResolve(r)
    PROVE  /\ requests'[r].step = "grouping"
           /\ requests'[r].rows = NoCandidates
           /\ requests'[r].todo = requests'[r].listed
           /\ \A p \in Request : p # r => requests'[p] = requests[p]
  BY DEF TypeInv, TypeOK, BeginResolve, NewRequest

LEMMA GroupedRequest ==
    ASSUME TypeInv, NEW r \in Request, BeginGroup(r)
    PROVE  /\ requests[r].step = "grouping" /\ requests'[r].step = "recording"
           /\ requests'[r].txn \in Transaction
           /\ requests'[r].vendor \in VendorIds(r, NameOf(requests'[r].txn))
           /\ requests'[r].rows = requests[r].rows
           /\ requests'[r].todo = requests[r].todo /\ requests'[r].listed = requests[r].listed
           /\ \A p \in Request : p # r => requests'[p] = requests[p]
  <1>1. PICK t \in requests[r].todo : \E v \in VendorIds(r, NameOf(t)) :
            requests' = [requests EXCEPT ![r].step = "recording", ![r].vendor = v,
                                         ![r].txn = t]
    BY DEF BeginGroup
  <1>2. PICK v \in VendorIds(r, NameOf(t)) :
            requests' = [requests EXCEPT ![r].step = "recording", ![r].vendor = v,
                                         ![r].txn = t]
    BY <1>1
  <1>3. requests[r] \in ResolveRequest /\ requests \in [Request -> ResolveRequest]
    BY DEF TypeInv, TypeOK
  <1>4. requests'[r] = [requests[r] EXCEPT !.step = "recording", !.vendor = v, !.txn = t]
    BY <1>2, <1>3
  <1> QED BY <1>2, <1>3, <1>4 DEF BeginGroup, ResolveRequest

LEMMA RecordedRequest ==
    ASSUME TypeInv, NEW r \in Request, RecordCandidate(r)
    PROVE  LET t == requests[r].txn
           IN  /\ requests[r].step = "recording" /\ requests'[r].step = "merging"
               /\ t \in Transaction /\ requests'[r].txn = t
               /\ requests[r].rows[t] = None
               /\ requests[r].vendor \in Vendor /\ requests'[r].vendor = requests[r].vendor
               /\ \A u \in Transaction : requests'[r].rows[u] =
                     IF u = t /\ candidates[t] = None THEN requests[r].vendor
                     ELSE requests[r].rows[u]
               /\ requests'[r].todo = requests[r].todo
               /\ requests'[r].listed = requests[r].listed
               /\ \A p \in Request : p # r => requests'[p] = requests[p]
  <1> DEFINE t == requests[r].txn
             rows == IF candidates[t] = None
                     THEN [requests[r].rows EXCEPT ![t] = requests[r].vendor]
                     ELSE requests[r].rows
  <1>1. requests[r] \in ResolveRequest /\ requests \in [Request -> ResolveRequest]
    BY DEF TypeInv, TypeOK
  <1>2. requests[r].step = "recording" /\ t \in Transaction /\ requests[r].vendor \in Vendor
    BY <1>1 DEF RecordCandidate, TypeInv, GroupInProgress, ResolveRequest
  <1>3. \A u \in Transaction :
            rows[u] = IF u = t /\ candidates[t] = None THEN requests[r].vendor
                      ELSE requests[r].rows[u]
    BY <1>1 DEF ResolveRequest, Candidates
  <1>4. requests[r].rows[t] = None
    BY <1>2 DEF RecordCandidate, WaitsFor
  <1>5. requests'[r] = [requests[r] EXCEPT !.step = "merging", !.rows = rows]
    BY <1>1 DEF RecordCandidate
  <1>6. \A p \in Request : p # r => requests'[p] = requests[p]
    BY <1>1 DEF RecordCandidate
  <1> HIDE DEF rows
  <1> QED BY <1>1, <1>2, <1>3, <1>4, <1>5, <1>6 DEF ResolveRequest

LEMMA EndedRequest ==
    ASSUME TypeInv, NEW r \in Request, CommitResolve(r) \/ Fail(r)
    PROVE  /\ requests'[r].step = IF CommitResolve(r) THEN "resolved" ELSE "failed"
           /\ requests'[r].rows = NoCandidates
           /\ requests'[r].listed = requests[r].listed
           /\ \A p \in Request : p # r => requests'[p] = requests[p]
  <1>1. requests[r] \in ResolveRequest /\ requests \in [Request -> ResolveRequest]
    BY DEF TypeInv, TypeOK
  <1>2. CASE CommitResolve(r)
    BY <1>1, <1>2 DEF CommitResolve, ResolveRequest
  <1>3. CASE ~CommitResolve(r)
    BY <1>1, <1>3 DEF Fail, ResolveRequest
  <1> QED BY <1>2, <1>3

LEMMA MergedStores ==
    ASSUME TypeInv, NEW r \in Request, MergeVendorAndTransaction(r)
    PROVE  LET t == requests[r].txn  v == requests[r].vendor
           IN  /\ requests[r].step = "merging" /\ t \in Transaction /\ v \in Vendor
               /\ candidates' = candidates
               /\ paid' = paid \cup {<<t, v>>}
               /\ \A w \in Vendor : vendors'[w] =
                     IF w = v /\ vendors[w] = None THEN NameOf(t) ELSE vendors[w]
  BY DEF TypeInv, TypeOK, GroupInProgress, MergeVendorAndTransaction, ResolveRequest

LEMMA NextNames == TypeInv /\ NamesInv /\ [Next]_vars => NamesInv'
  <1> SUFFICES ASSUME TypeInv, NamesInv, [Next]_vars PROVE NamesInv'
    OBVIOUS
  <1>0. CASE UNCHANGED <<candidates, vendors, paid, requests>>
    BY <1>0 DEF NamesInv
  <1>1. ASSUME NEW t \in Transaction, ImportTransaction(t) PROVE NamesInv'
    BY <1>0, <1>1 DEF ImportTransaction
  <1> SUFFICES ASSUME NEW r \in Request, BeginResolve(r) \/ Continue(r) \/ Fail(r)
               PROVE  NamesInv'
    BY <1>0, <1>1 DEF Next, vars
  <1>2. CASE BeginResolve(r)
    <2>1. UNCHANGED <<candidates, vendors, paid>>
      BY <1>2 DEF BeginResolve
    <2> QED BY <1>2, <2>1, BegunRequest, EmptyRows DEF NamesInv
  <1>3. CASE BeginGroup(r)
    <2>1. UNCHANGED <<candidates, vendors, paid>>
      BY <1>3 DEF BeginGroup
    <2> DEFINE t == requests'[r].txn
               v == requests'[r].vendor
    <2>2. t \in Transaction /\ v \in VendorIds(r, NameOf(t))
      BY <1>3, GroupedRequest
    <2>3. candidates \in Candidates /\ requests[r].rows \in Candidates
      BY DEF TypeInv, TypeOK, ResolveRequest
    <2>4. v \in Vendor
      BY <2>2, <2>3, IdsOfGroups
    <2>5. v \in VendorsNamed(NameOf(t))
      <3>1. CASE \E u \in Transaction : /\ NameOf(u) = NameOf(t)
                                        /\ v \in {candidates[u], requests[r].rows[u]}
        <4>1. PICK u \in Transaction : /\ NameOf(u) = NameOf(t)
                                       /\ v \in {candidates[u], requests[r].rows[u]}
          BY <3>1
        <4>2. v \in VendorsNamed(NameOf(u)) \cup {None}
          BY <4>1 DEF NamesInv
        <4> QED BY <2>4, <4>1, <4>2, NoneIsNothing
      <3>2. CASE v = <<r, NameOf(t)>>
        BY <3>2 DEF VendorsNamed
      <3> QED BY <2>2, <2>3, <3>1, <3>2, IdsOfGroups
    <2> QED BY <1>3, <2>1, <2>5, GroupedRequest DEF NamesInv
  <1>4. CASE RecordCandidate(r)
    <2>1. UNCHANGED <<candidates, vendors, paid>>
      BY <1>4 DEF RecordCandidate
    <2>2. requests[r].vendor \in VendorsNamed(NameOf(requests[r].txn))
      BY <1>4, RecordedRequest DEF NamesInv
    <2>3. \A u \in Transaction :
              requests'[r].rows[u] \in VendorsNamed(NameOf(u)) \cup {None}
      BY <1>4, <2>2, RecordedRequest DEF NamesInv
    <2>4. requests'[r].vendor \in VendorsNamed(NameOf(requests'[r].txn))
      BY <1>4, <2>2, RecordedRequest
    <2> QED BY <1>4, <2>1, <2>3, <2>4, RecordedRequest DEF NamesInv
  <1>5. CASE MergeVendorAndTransaction(r)
    <2> DEFINE t == requests[r].txn
               v == requests[r].vendor
    <2>1. PICK q \in ResolveRequest :
              /\ requests' = [requests EXCEPT ![r] = q]
              /\ q.step \in {"grouping", "recording"}
              /\ q.step = "recording" => NameOf(q.txn) = NameOf(t)
              /\ q.vendor = v /\ q.rows = requests[r].rows
      BY <1>5, MergedRequest
    <2>2. \A p \in Request : requests'[p] = IF p = r THEN q ELSE requests[p]
      BY <2>1 DEF TypeInv, TypeOK
    <2>3. /\ requests[r].step = "merging" /\ t \in Transaction /\ v \in Vendor
          /\ candidates' = candidates /\ paid' = paid \cup {<<t, v>>}
          /\ \A w \in Vendor : vendors'[w] =
                IF w = v /\ vendors[w] = None THEN NameOf(t) ELSE vendors[w]
      BY <1>5, MergedStores
    <2>4. v \in VendorsNamed(NameOf(t))
      BY <2>3 DEF NamesInv
    <2>5. PICK m \in Request : v = <<m, NameOf(t)>>
      BY <2>4 DEF VendorsNamed
    <2>6. NameOf(t) \in Spelling /\ NameOf(t) # None
      BY <2>3, NamesOfTransactions, NoneIsNothing
    <2>7. vendors'[v] = NameOf(t)
      BY <2>3, <2>5, <2>6 DEF NamesInv
    <2>8. ASSUME NEW p \in Request, NEW n \in Spelling
          PROVE  vendors'[<<p, n>>] \in {n, None}
      <3>1. <<p, n>> \in Vendor
        BY DEF Vendor
      <3>2. CASE <<p, n>> = v
        BY <2>5, <2>7, <3>2
      <3>3. CASE <<p, n>> # v
        BY <2>3, <3>1, <3>3 DEF NamesInv
      <3> QED BY <3>2, <3>3
    <2>9. ASSUME NEW u \in Transaction, NEW w \in Vendor, <<u, w>> \in paid'
          PROVE  w \in VendorsNamed(NameOf(u)) /\ vendors'[w] = NameOf(u)
      <3>1. CASE u = t /\ w = v
        BY <2>4, <2>7, <3>1
      <3>2. CASE ~(u = t /\ w = v)
        <4>1. <<u, w>> \in paid
          BY <2>3, <2>9, <3>2
        <4>2. w \in VendorsNamed(NameOf(u)) /\ vendors[w] = NameOf(u) /\ NameOf(u) # None
          BY <4>1, NamesOfTransactions, NoneIsNothing DEF NamesInv
        <4> QED BY <2>3, <4>2
      <3> QED BY <3>1, <3>2
    <2>10. ASSUME NEW p \in Request
           PROVE  /\ \A u \in Transaction :
                        requests'[p].rows[u] \in VendorsNamed(NameOf(u)) \cup {None}
                  /\ requests'[p].step \in {"recording", "merging"} =>
                        requests'[p].vendor \in VendorsNamed(NameOf(requests'[p].txn))
      <3>1. CASE p = r
        BY <2>1, <2>2, <2>4, <3>1 DEF NamesInv
      <3>2. CASE p # r
        BY <2>2, <3>2 DEF NamesInv
      <3> QED BY <3>1, <3>2
    <2>11. \A u \in Transaction : candidates'[u] \in VendorsNamed(NameOf(u)) \cup {None}
      BY <2>3 DEF NamesInv
    <2> QED BY <2>8, <2>9, <2>10, <2>11 DEF NamesInv
  <1>6. CASE CommitResolve(r)
    <2>1. /\ UNCHANGED <<vendors, paid>>
          /\ \A u \in Transaction : candidates'[u] \in {candidates[u], requests[r].rows[u]}
      BY <1>6 DEF CommitResolve
    <2>2. \A u \in Transaction : candidates'[u] \in VendorsNamed(NameOf(u)) \cup {None}
      BY <2>1 DEF NamesInv
    <2> QED BY <1>6, <2>1, <2>2, EndedRequest, EmptyRows DEF NamesInv
  <1>7. CASE Fail(r)
    <2>1. UNCHANGED <<candidates, vendors, paid>>
      BY <1>7 DEF Fail
    <2> QED BY <1>7, <2>1, EndedRequest, EmptyRows DEF NamesInv
  <1> QED BY <1>2, <1>3, <1>4, <1>5, <1>6, <1>7 DEF Continue

LEMMA NextMerged == TypeInv /\ MergedInv /\ [Next]_vars => MergedInv'
  <1> SUFFICES ASSUME TypeInv, MergedInv, [Next]_vars PROVE MergedInv'
    OBVIOUS
  <1>0. CASE UNCHANGED <<candidates, paid, requests>>
    BY <1>0 DEF MergedInv
  <1>1. ASSUME NEW t \in Transaction, ImportTransaction(t) PROVE MergedInv'
    BY <1>0, <1>1 DEF ImportTransaction
  <1> SUFFICES ASSUME NEW r \in Request, BeginResolve(r) \/ Continue(r) \/ Fail(r)
               PROVE  MergedInv'
    BY <1>0, <1>1 DEF Next, vars
  <1>2. CASE BeginResolve(r)
    <2>1. UNCHANGED <<candidates, paid>>
      BY <1>2 DEF BeginResolve
    <2> QED BY <1>2, <2>1, BegunRequest, EmptyRows DEF MergedInv
  <1>3. CASE BeginGroup(r)
    <2>1. UNCHANGED <<candidates, paid>>
      BY <1>3 DEF BeginGroup
    <2> QED BY <1>3, <2>1, GroupedRequest DEF MergedInv
  <1>4. CASE RecordCandidate(r)
    <2>1. UNCHANGED <<candidates, paid>>
      BY <1>4 DEF RecordCandidate
    <2> QED BY <1>4, <2>1, RecordedRequest DEF MergedInv
  <1>5. CASE MergeVendorAndTransaction(r)
    <2>1. PICK q \in ResolveRequest :
              requests' = [requests EXCEPT ![r] = q] /\ q.rows = requests[r].rows
      BY <1>5, MergedRequest
    <2>2. \A p \in Request : requests'[p] = IF p = r THEN q ELSE requests[p]
      BY <2>1 DEF TypeInv, TypeOK
    <2>3. candidates' = candidates
          /\ paid' = paid \cup {<<requests[r].txn, requests[r].vendor>>}
      BY <1>5, MergedStores
    <2> QED BY <2>1, <2>2, <2>3 DEF MergedInv
  <1>6. CASE CommitResolve(r)
    <2>1. /\ paid' = paid /\ requests[r].step = "grouping"
          /\ \A u \in Transaction : candidates'[u] =
                IF requests[r].rows[u] # None THEN requests[r].rows[u] ELSE candidates[u]
      BY <1>6 DEF CommitResolve
    <2> QED BY <1>6, <2>1, EndedRequest, EmptyRows DEF MergedInv
  <1>7. CASE Fail(r)
    <2>1. UNCHANGED <<candidates, paid>>
      BY <1>7 DEF Fail
    <2> QED BY <1>7, <2>1, EndedRequest, EmptyRows DEF MergedInv
  <1> QED BY <1>2, <1>3, <1>4, <1>5, <1>6, <1>7 DEF Continue

\* What the others listed keeps its rows.
LEMMA ListedByOthers ==
    ASSUME TypeInv, ListedInv, [Next]_vars, NEW p \in Request, requests'[p] = requests[p]
    PROVE  Accounted(p)'
  <1>1. requests[p] \in ResolveRequest
    BY DEF TypeInv, TypeOK
  <1>2. requests[p].listed \subseteq Transaction
    BY <1>1 DEF ResolveRequest
  <1>3. \A t \in Transaction : HasRow(p, t) => HasRow(p, t)'
    BY RowsKept DEF HasRow
  <1>4. requests[p].step = "merging" => requests[p].txn \in Transaction
    BY <1>1 DEF TypeInv, GroupInProgress, ResolveRequest
  <1>5. Accounted(p)
    BY DEF ListedInv
  <1>6. Active(p)' <=> Active(p)
    BY DEF Active
  <1>7. Active(p)' => \A t \in requests'[p].listed : t \in requests'[p].todo \/ HasRow(p, t)'
    BY <1>2, <1>3, <1>5, <1>6 DEF Accounted
  <1>8. requests'[p].step = "merging" => HasRow(p, requests[p].txn)'
    BY <1>3, <1>4, <1>5 DEF Accounted, HasRow
  <1>9. requests'[p].step = "resolved" => \A t \in requests'[p].listed : candidates'[t] # None
    BY <1>2, <1>5, RowsKept DEF Accounted
  <1> QED BY <1>7, <1>8, <1>9 DEF Accounted, HasRow

LEMMA NextListed == TypeInv /\ ListedInv /\ [Next]_vars => ListedInv'
  <1> SUFFICES ASSUME TypeInv, ListedInv, [Next]_vars PROVE ListedInv'
    OBVIOUS
  <1>0. CASE UNCHANGED <<candidates, requests>>
    BY <1>0 DEF ListedInv, Accounted, Active, HasRow
  <1>1. ASSUME NEW t \in Transaction, ImportTransaction(t) PROVE ListedInv'
    BY <1>0, <1>1 DEF ImportTransaction
  <1> SUFFICES ASSUME NEW r \in Request, BeginResolve(r) \/ Continue(r) \/ Fail(r)
               PROVE  ListedInv'
    BY <1>0, <1>1 DEF Next, vars
  <1>a. /\ requests \in [Request -> ResolveRequest]
        /\ requests[r] \in ResolveRequest /\ requests[r].listed \subseteq Transaction
    BY DEF TypeInv, TypeOK, ResolveRequest
  <1>b. ASSUME Accounted(r)', \A p \in Request : p # r => requests'[p] = requests[p]
        PROVE  ListedInv'
    <2>1. ASSUME NEW p \in Request PROVE Accounted(p)'
      <3>1. CASE p = r
        BY <1>b, <3>1
      <3>2. CASE p # r
        <4>1. requests'[p] = requests[p]
          BY <1>b, <3>2
        <4> QED BY <4>1, ListedByOthers
      <3> QED BY <3>1, <3>2
    <2> QED BY <2>1 DEF ListedInv
  <1>c. Accounted(r)
    BY DEF ListedInv
  <1>2. CASE BeginResolve(r)
    BY <1>2, <1>b, BegunRequest DEF Accounted
  <1>3. CASE BeginGroup(r)
    <2>1. candidates' = candidates
      BY <1>3 DEF BeginGroup
    <2>2. \A t \in Transaction : HasRow(r, t)' <=> HasRow(r, t)
      BY <1>3, <2>1, GroupedRequest DEF HasRow
    <2>3. \A t \in requests[r].listed : t \in requests[r].todo \/ HasRow(r, t)
      BY <1>3, <1>c, GroupedRequest DEF Accounted, Active
    <2>4. \A t \in requests'[r].listed : t \in requests'[r].todo \/ HasRow(r, t)'
      BY <1>3, <1>a, <2>2, <2>3, GroupedRequest
    <2> QED BY <1>3, <1>b, <2>4, GroupedRequest DEF Accounted
  <1>4. CASE RecordCandidate(r)
    <2>1. candidates' = candidates /\ requests[r].vendor # None
      BY <1>4, RecordedRequest, NoneIsNothing DEF RecordCandidate
    <2>2. \A u \in Transaction : HasRow(r, u) => HasRow(r, u)'
      BY <1>4, <2>1, RecordedRequest DEF HasRow
    <2>3. \A u \in requests[r].listed : u \in requests[r].todo \/ HasRow(r, u)
      BY <1>4, <1>c, RecordedRequest DEF Accounted, Active
    <2>4. \A u \in requests'[r].listed : u \in requests'[r].todo \/ HasRow(r, u)'
      BY <1>4, <1>a, <2>2, <2>3, RecordedRequest
    <2>5. Accounted(r)'
      BY <1>4, <2>1, <2>4, RecordedRequest DEF Accounted, HasRow
    <2> QED BY <1>4, <1>b, <2>5, RecordedRequest
  <1>5. CASE MergeVendorAndTransaction(r)
    <2> DEFINE t == requests[r].txn
    <2>1. PICK q \in ResolveRequest :
              /\ requests' = [requests EXCEPT ![r] = q]
              /\ q.step \in {"grouping", "recording"}
              /\ q.todo = requests[r].todo \ {t}
              /\ q.listed = requests[r].listed /\ q.rows = requests[r].rows
      BY <1>5, MergedRequest
    <2>2. \A p \in Request : requests'[p] = IF p = r THEN q ELSE requests[p]
      BY <1>a, <2>1
    <2>3. requests[r].step = "merging" /\ candidates' = candidates
      BY <1>5, MergedStores
    <2>4. \A u : HasRow(r, u)' <=> HasRow(r, u)
      BY <2>1, <2>2, <2>3 DEF HasRow
    <2>5. /\ HasRow(r, t)
          /\ \A u \in requests[r].listed : u \in requests[r].todo \/ HasRow(r, u)
      BY <1>c, <2>3 DEF Accounted, Active
    <2>6. Accounted(r)'
      BY <2>1, <2>2, <2>4, <2>5 DEF Accounted
    <2> QED BY <1>b, <2>2, <2>6
  <1>6. CASE CommitResolve(r)
    <2>1. /\ requests[r].step = "grouping" /\ requests[r].todo = {}
          /\ \A u \in Transaction : candidates'[u] =
                IF requests[r].rows[u] # None THEN requests[r].rows[u] ELSE candidates[u]
      BY <1>6 DEF CommitResolve
    <2>2. \A u \in requests[r].listed : HasRow(r, u)
      BY <1>c, <2>1 DEF Accounted, Active
    <2>3. \A u \in requests[r].listed : candidates'[u] # None
      BY <1>a, <2>1, <2>2 DEF HasRow
    <2>4. Accounted(r)'
      BY <1>6, <2>3, EndedRequest DEF Accounted, Active
    <2> QED BY <1>6, <1>b, <2>4, EndedRequest
  <1>7. CASE Fail(r)
    <2>1. ~CommitResolve(r)
      BY <1>7, <1>a DEF Fail, CommitResolve, ResolveRequest
    <2>2. requests'[r].step = "failed"
      BY <1>7, <2>1, EndedRequest
    <2>3. Accounted(r)'
      BY <2>2 DEF Accounted, Active
    <2> QED BY <1>7, <1>b, <2>3, EndedRequest
  <1> QED BY <1>2, <1>3, <1>4, <1>5, <1>6, <1>7 DEF Continue

\* Whatever fails or overlaps, the graph follows the bridge tables: each MERGE
\* of resolve_vendors comes before the commit of its row, under one id per row
\* and a name that is the id's own.
THEOREM ResolutionAlwaysReachesGraph == Spec => []ResolutionReachesGraph
  <1>1. TypeInv /\ ReachInv => ResolutionReachesGraph
    <2> SUFFICES ASSUME TypeInv, ReachInv PROVE ResolutionReachesGraph
      OBVIOUS
    <2>1. \A t \in Transaction : candidates[t] # None => t \in VendorNetwork(candidates[t])
      BY DEF ReachInv, MergedInv, VendorNetwork
    <2>2. \A v \in ListVendors : \A t \in VendorNetwork(v) : vendors[v] = NameOf(t)
      BY DEF ReachInv, NamesInv, ListVendors, VendorNetwork
    <2>3. \A r \in Request : requests[r].step = "resolved" =>
              \A t \in requests[r].listed : candidates[t] # None
      BY DEF ReachInv, ListedInv, Accounted
    <2> QED BY <2>1, <2>2, <2>3 DEF ResolutionReachesGraph
  <1>2. TypeInv /\ ReachInv /\ [Next]_vars => ReachInv'
    BY NextNames, NextMerged, NextListed DEF ReachInv
  <1> QED BY <1>1, <1>2, InitType, NextType, InitReach, PTL DEF Spec
----------------------------------------------------------------------------
(***************************************************************************)
(* Waiting                                                                 *)
(***************************************************************************)
\* Nobody waits for nothing: of resolutions in progress that wait for no other
\* ones, one at least does not wait, or is in a circle, which PostgreSQL breaks.
NobodyWaitsInVain ==
    \A S \in SUBSET {r \in Request : Active(r)} :
        S # {} /\ (\A r \in S, q \in Request : WaitsFor(r, q) /\ Active(q) => q \in S) =>
            \E r \in S : (\E q \in Request : WaitsFor(r, q)) => Deadlocked(r)

\* A request has nothing left to do for a row of its own but its MERGE.
RowsDone ==
    \A r \in Request, t \in Transaction :
        requests[r].rows[t] # None /\ t \in requests[r].todo =>
            requests[r].step = "merging" /\ requests[r].txn = t

InProgress == {r \in Request : Active(r)}

\* However many requests there may be, finitely many are in progress.
WaitInv == RowsDone /\ IsFiniteSet(InProgress)

LEMMA InitWait == Init => WaitInv
  <1> SUFFICES ASSUME Init PROVE WaitInv
    OBVIOUS
  <1>1. \A r \in Request : requests[r].step = "new" /\ requests[r].rows = NoCandidates
    BY DEF Init, NewRequest
  <1>2. RowsDone
    BY <1>1, EmptyRows DEF RowsDone
  <1>3. InProgress = {}
    BY <1>1 DEF InProgress, Active
  <1> QED BY <1>2, <1>3, FS_EmptySet DEF WaitInv

LEMMA NextWait == TypeInv /\ WaitInv /\ [Next]_vars => WaitInv'
  <1> SUFFICES ASSUME TypeInv, WaitInv, [Next]_vars PROVE WaitInv'
    OBVIOUS
  <1>0. CASE UNCHANGED requests
    BY <1>0 DEF WaitInv, RowsDone, InProgress, Active
  <1> SUFFICES ASSUME NEW r \in Request, BeginResolve(r) \/ Continue(r) \/ Fail(r)
               PROVE  WaitInv'
    BY <1>0 DEF Next, vars, ImportTransaction
  <1>a. requests[r] \in ResolveRequest
    BY DEF TypeInv, TypeOK
  \* What the step has to keep of the record it changes.
  <1>1. ASSUME \A p \in Request : p # r => requests'[p] = requests[p],
               \A t \in Transaction :
                   requests'[r].rows[t] # None /\ t \in requests'[r].todo =>
                       requests'[r].step = "merging" /\ requests'[r].txn = t
        PROVE  WaitInv'
    <2>1. RowsDone'
      BY <1>1 DEF WaitInv, RowsDone
    <2>2. InProgress' \subseteq InProgress \cup {r}
      BY <1>1 DEF InProgress, Active
    <2>3. IsFiniteSet(InProgress')
      BY <2>2, FS_AddElement, FS_Subset DEF WaitInv
    <2> QED BY <2>1, <2>3 DEF WaitInv
  <1>2. CASE BeginResolve(r)
    BY <1>1, <1>2, BegunRequest, EmptyRows
  <1>3. CASE BeginGroup(r)
    BY <1>1, <1>3, GroupedRequest DEF WaitInv, RowsDone
  <1>4. CASE RecordCandidate(r)
    BY <1>1, <1>4, RecordedRequest DEF WaitInv, RowsDone
  <1>5. CASE MergeVendorAndTransaction(r)
    <2>1. PICK q \in ResolveRequest :
            /\ requests' = [requests EXCEPT ![r] = q]
            /\ q.todo = requests[r].todo \ {requests[r].txn} /\ q.rows = requests[r].rows
      BY <1>5, MergedRequest
    <2>2. requests'[r] = q /\ \A p \in Request : p # r => requests'[p] = requests[p]
      BY <2>1 DEF TypeInv, TypeOK
    <2>3. \A t \in Transaction : q.rows[t] # None => t \notin q.todo
      BY <2>1 DEF WaitInv, RowsDone
    <2> QED BY <1>1, <2>2, <2>3
  <1>6. CASE CommitResolve(r) \/ Fail(r)
    BY <1>1, <1>6, EndedRequest, EmptyRows
  <1> QED BY <1>2, <1>3, <1>4, <1>5, <1>6 DEF Continue

\* A row that is waited for belongs to another request, in progress.
LEMMA WaitedFor ==
    ASSUME TypeInv, WaitInv, NEW r \in Request, NEW q \in Request, WaitsFor(r, q)
    PROVE  q # r /\ Active(q)
  <1>1. /\ requests[r].step = "recording" /\ requests[r].txn \in requests[r].todo
        /\ requests[r].txn \in Transaction
        /\ requests[q].rows[requests[r].txn] # None
    BY DEF WaitsFor, TypeInv, TypeOK, GroupInProgress, ResolveRequest
  <1>2. requests[q].rows # NoCandidates
    BY <1>1, EmptyRows
  <1>3. q # r
    BY <1>1 DEF WaitInv, RowsDone
  <1> QED BY <1>2, <1>3 DEF TypeInv, TypeOK

\* Requests that each wait for one of them: a smallest such set is a circle,
\* since without one that nobody of it waits for it would be smaller still.
LEMMA CircleOfWaits ==
    ASSUME TypeInv, WaitInv, NEW S \in SUBSET InProgress, S # {},
           \A r \in S : \E w \in S : WaitsFor(r, w)
    PROVE  \E r \in S : Deadlocked(r)
  <1> DEFINE R == StrictSubsetOrdering(S)
             waiting == {T \in SUBSET S : T # {} /\ \A r \in T : \E w \in T : WaitsFor(r, w)}
  <1>1. IsFiniteSet(S)
    BY FS_Subset DEF WaitInv
  <1>2. waiting \subseteq FiniteSubsetsOf(S) /\ S \in waiting
    BY <1>1, FS_Subset DEF FiniteSubsetsOf
  <1>3. PICK T \in waiting : \A U \in waiting : ~ (<<U, T>> \in R)
    <2>1. IsWellFoundedOn(R, FiniteSubsetsOf(S))
      BY FS_StrictSubsetOrderingWellFounded
    <2>2. waiting # {}
      BY <1>2
    <2> HIDE DEF R, waiting
    <2> QED BY <1>2, <2>1, <2>2, WFMin
  <1>4. T \subseteq S /\ T # {} /\ S \subseteq Request
    BY DEF InProgress
  <1>5. ASSUME NEW q \in T PROVE \E w \in T : WaitsFor(w, q)
    <2> SUFFICES ASSUME \A w \in T : ~ WaitsFor(w, q) PROVE FALSE
      OBVIOUS
    <2> DEFINE U == T \ {q}
    <2>1. PICK v \in T : WaitsFor(q, v)
      BY <1>3
    <2>2. v # q
      BY <1>4, <2>1, WaitedFor
    <2>3. ASSUME NEW r \in U PROVE \E w \in U : WaitsFor(r, w)
      BY <1>3
    <2>4. U \in waiting
      BY <1>4, <2>1, <2>2, <2>3
    <2>5. <<U, T>> \in R
      BY <1>4 DEF StrictSubsetOrdering
    <2> QED BY <1>3, <2>4, <2>5
  <1>6. PICK r \in T : TRUE
    BY <1>4
  <1>7. Deadlocked(r)
    <2>1. T \in SUBSET Request /\ \A q \in T : \E w \in T : WaitsFor(q, w)
      BY <1>3, <1>4
    <2> QED BY <1>5, <1>6, <2>1 DEF Deadlocked
  <1> QED BY <1>4, <1>6, <1>7

\* However many resolutions wait for each other's rows, one can go on or is in a
\* circle, and it is enough that PostgreSQL breaks circles: an ended request
\* has let go of its rows.
THEOREM NobodyEverWaitsInVain == Spec => []NobodyWaitsInVain
  <1>1. TypeInv /\ WaitInv => NobodyWaitsInVain
    <2> SUFFICES ASSUME TypeInv, WaitInv,
                        NEW S \in SUBSET {r \in Request : Active(r)}, S # {},
                        \A r \in S, q \in Request : WaitsFor(r, q) /\ Active(q) => q \in S,
                        \A r \in S : \E q \in Request : WaitsFor(r, q)
                 PROVE  \E r \in S : Deadlocked(r)
      BY DEF NobodyWaitsInVain
    <2>1. ASSUME NEW r \in S PROVE \E w \in S : WaitsFor(r, w)
      <3>1. PICK q \in Request : WaitsFor(r, q)
        OBVIOUS
      <3> QED BY <3>1, WaitedFor
    <2> QED BY <2>1, CircleOfWaits DEF InProgress
  <1> QED BY <1>1, InitType, NextType, InitWait, NextWait, PTL DEF Spec
=============================================================================
