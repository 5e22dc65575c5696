-------------------------- MODULE ReportingProofs --------------------------
(***************************************************************************)
(* Theorems about Reporting, for every set of engagements, findings,       *)
(* chunks, reports and concurrent requests.                                *)
(***************************************************************************)
EXTENDS Reporting, TLAPS

(***************************************************************************)
(* The kind of record a request is, from the step it has reached           *)
(***************************************************************************)
LEMMA RequestKinds ==
    ASSUME TypeOK, NEW p \in Worker
    PROVE  /\ requests[p] # Idle =>
                 requests[p] \in DispositionRequest \cup GenerateRequest \cup ExportRequest
           /\ requests[p].step \in {"reviewing", "reselected"} =>
                 requests[p] \in DispositionRequest
           /\ requests[p].step \in {"listed", "citing_body"} =>
                 requests[p] \in GenerateRequest
           /\ requests[p].step \in {"opened", "citing_pdf", "truncated", "stored", "serving"} =>
                 requests[p] \in ExportRequest
  BY DEF TypeOK, Idle, DispositionRequest, GenerateRequest, ExportRequest

LEMMA RowTypes ==
    ASSUME TypeOK
    PROVE  /\ \A f \in Finding : findings[f] # None => findings[f] \in FindingRow
           /\ \A r \in Report : reports[r] # None => reports[r] \in ReportRow
  BY DEF TypeOK

LEMMA CitationsType ==
    ASSUME TypeOK, NEW f \in Finding
    PROVE  CitationsOf(f) \subseteq {f} \X Chunk
  BY DEF TypeOK, CitationsOf, EvidenceRow

LEMMA DisposedRowType ==
    ASSUME NEW p \in Worker, requests[p] \in DispositionRequest,
           findings[requests[p].finding] \in FindingRow
    PROVE  DisposedRow(p) \in FindingRow
  <1> DEFINE row == findings[requests[p].finding]
  <1>1. /\ requests[p].row \in FindingRow
        /\ requests[p].to \in FindingStatus
        /\ requests[p].by \in Reviewer
        /\ requests[p].reason \in Reason \cup {None}
    BY DEF DispositionRequest, FindingStatus
  <1>2. /\ Flushed(requests[p].row.status, requests[p].to, row.status) \in FindingStatus
        /\ Flushed(requests[p].row.reviewed_by, requests[p].by, row.reviewed_by) \in Reviewer \cup {None}
        /\ Flushed(requests[p].row.disposition_reason, requests[p].reason,
                   row.disposition_reason) \in Reason \cup {None}
    BY <1>1 DEF Flushed, FindingRow
  <1>3. row \in FindingRow
    OBVIOUS
  <1>4. DisposedRow(p) =
          [row EXCEPT
             !.status = Flushed(requests[p].row.status, requests[p].to, row.status),
             !.reviewed_by = Flushed(requests[p].row.reviewed_by, requests[p].by, row.reviewed_by),
             !.disposition_reason = Flushed(requests[p].row.disposition_reason,
                                            requests[p].reason, row.disposition_reason)]
    BY DEF DisposedRow
  <1> HIDE DEF row
  <1> QED BY <1>2, <1>3, <1>4 DEF FindingRow

(***************************************************************************)
(* Type correctness                                                        *)
(***************************************************************************)
\* What a request or a report names exists: the rows a later step reads are
\* there, and a report about to be inserted has its version.  TypeOK alone is
\* not inductive.
NamedRowsExist ==
    /\ \A p \in Worker :
          /\ requests[p].step \in {"reviewing", "reselected"} =>
                findings[requests[p].finding] # None
          /\ requests[p].step \in {"listed", "citing_body"} =>
                \A f \in requests[p].finding_ids : findings[f] # None
          /\ requests[p].step = "citing_body" => requests[p].version # 0
          /\ requests[p].step \in {"opened", "citing_pdf", "truncated", "stored", "serving"} =>
                reports[requests[p].report] # None
    /\ \A r \in Report : reports[r] # None =>
          \A f \in reports[r].finding_ids : findings[f] # None

TypeInv == TypeOK /\ NamedRowsExist

LEMMA InitTypeInv == Init => TypeInv
  BY DEF Init, TypeInv, TypeOK, NamedRowsExist, Idle

LEMMA TypeInvStep == TypeInv /\ [Next]_vars => TypeInv'
  <1> SUFFICES ASSUME TypeInv, [Next]_vars PROVE TypeInv'
    OBVIOUS
  <1> USE ChunkAssumption, DownloadedAssumption, NoneAssumption
  <1> USE DEF TypeInv
  <1>1. ASSUME NEW f \in Finding, NEW e \in Engagement, CreateFinding(f, e)
        PROVE  TypeInv'
    <2>1. TypeOK'
      BY <1>1 DEF CreateFinding, TypeOK, FindingRow, FindingStatus
    <2>2. NamedRowsExist'
      <3>1. findings'[f] # None
        BY <1>1 DEF CreateFinding, FindingRow, FindingStatus, TypeOK
      <3> QED BY <3>1, <1>1 DEF CreateFinding, NamedRowsExist, TypeOK
    <2> QED BY <2>1, <2>2
  <1>2. ASSUME NEW f \in Finding, NEW c \in Chunk, AttachEvidence(f, c)
        PROVE  TypeInv'
    BY <1>2, RowTypes DEF AttachEvidence, TypeOK, NamedRowsExist, FindingRow, EvidenceRow
  <1>3. ASSUME NEW p \in Worker, NEW u \in Reviewer, NEW f \in Finding, NEW to \in Disposed,
               NEW why \in Reason \cup {None}, ReviewFinding(p, u, f, to, why)
        PROVE  TypeInv'
    <2>1. findings[f] \in FindingRow /\ findings[f].status \in FindingStatus
      BY <1>3, RowTypes DEF ReviewFinding, FindingRow
    <2>2. requests'[p] \in DispositionRequest
      BY <1>3, <2>1 DEF ReviewFinding, TypeOK, DispositionRequest
    <2>3. TypeOK'
      BY <1>3, <2>2 DEF ReviewFinding, TypeOK
    <2>4. NamedRowsExist'
      BY <1>3 DEF ReviewFinding, NamedRowsExist, TypeOK
    <2> QED BY <2>3, <2>4
  <1>4. ASSUME NEW p \in Worker, NEW e \in Engagement, BeginReport(p, e)
        PROVE  TypeInv'
    <2>1. requests'[p] \in GenerateRequest
      BY <1>4 DEF BeginReport, TypeOK, GenerateRequest, ConfirmedIn
    <2>2. TypeOK'
      BY <1>4, <2>1 DEF BeginReport, TypeOK
    <2>3. NamedRowsExist'
      BY <1>4 DEF BeginReport, NamedRowsExist, TypeOK, ConfirmedIn
    <2> QED BY <2>2, <2>3
  <1>5. ASSUME NEW p \in Worker, NEW r \in Report, OpenReport(p, r)
        PROVE  TypeInv'
    <2>1. requests'[p] \in ExportRequest
      BY <1>5 DEF OpenReport, TypeOK, ExportRequest
    <2>2. TypeOK'
      BY <1>5, <2>1 DEF OpenReport, TypeOK
    <2>3. NamedRowsExist'
      BY <1>5 DEF OpenReport, NamedRowsExist, TypeOK
    <2> QED BY <2>2, <2>3
  <1>6. ASSUME NEW p \in Worker, ReselectFinding(p)
        PROVE  TypeInv'
    <2>1. requests[p] \in DispositionRequest /\ findings[requests[p].finding] \in FindingRow
      BY <1>6, RequestKinds, RowTypes DEF ReselectFinding, NamedRowsExist, DispositionRequest
    <2>2. requests'[p] \in DispositionRequest
      BY <1>6, <2>1 DEF ReselectFinding, TypeOK, DispositionRequest
    <2>3. TypeOK'
      BY <1>6, <2>2 DEF ReselectFinding, TypeOK
    <2>4. NamedRowsExist'
      BY <1>6, <2>1 DEF ReselectFinding, NamedRowsExist, TypeOK, DispositionRequest
    <2> QED BY <2>3, <2>4
  <1>7. ASSUME NEW p \in Worker, CommitDisposition(p)
        PROVE  TypeInv'
    <2>1. requests[p] \in DispositionRequest /\ findings[requests[p].finding] \in FindingRow
      BY <1>7, RequestKinds, RowTypes DEF CommitDisposition, NamedRowsExist, DispositionRequest
    <2>2. DisposedRow(p) \in FindingRow
      BY <2>1, DisposedRowType
    <2>3. DispositionEvent(p) \in AuditEvent
      BY <2>1 DEF DispositionEvent, AuditEvent, DispositionRequest
    <2>4. TypeOK'
      <3>1. events' \in Seq(AuditEvent)
        BY <1>7, <2>3 DEF CommitDisposition, RecordedEvents, TypeOK
      <3>2. findings' \in [Finding -> FindingRow \cup {None}]
        BY <1>7, <2>2 DEF CommitDisposition, TypeOK
      <3> QED BY <1>7, <3>1, <3>2 DEF CommitDisposition, TypeOK
    <2>5. NamedRowsExist'
      <3>1. \A f \in Finding : findings[f] # None => findings'[f] # None
        BY <1>7, <2>2 DEF CommitDisposition, TypeOK
      <3>2. /\ \A q \in Worker : requests'[q] = requests[q] \/ requests'[q] = Idle
            /\ UNCHANGED reports
        BY <1>7 DEF CommitDisposition, TypeOK
      <3> QED
        BY <3>1, <3>2, RequestKinds, RowTypes
        DEF NamedRowsExist, DispositionRequest, GenerateRequest, ReportRow, Idle
    <2> QED BY <2>4, <2>5
  <1>8. ASSUME NEW p \in Worker, ReadVersion(p)
        PROVE  TypeInv'
    <2>1. requests[p] \in GenerateRequest
      BY <1>8, RequestKinds DEF ReadVersion
    <2>2. PICK v \in {1} \cup {w + 1 : w \in VersionsOf(requests[p].engagement)} :
              requests' = [requests EXCEPT ![p].step = "citing_body", ![p].version = v]
      BY <1>8 DEF ReadVersion
    <2>3. v \in Nat \ {0}
      BY <2>2, RowTypes DEF VersionsOf, ReportsOf, ReportRow
    <2>4. requests'[p] \in GenerateRequest
      BY <2>1, <2>2, <2>3 DEF TypeOK, GenerateRequest
    <2>5. TypeOK'
      BY <1>8, <2>2, <2>4 DEF ReadVersion, TypeOK
    <2>6. NamedRowsExist'
      <3>1. /\ requests'[p].finding_ids = requests[p].finding_ids
            /\ requests'[p].step = "citing_body"
            /\ requests'[p].version = v
        BY <2>1, <2>2 DEF TypeOK, GenerateRequest
      <3>2. /\ \A q \in Worker : q # p => requests'[q] = requests[q]
            /\ UNCHANGED <<findings, reports>>
        BY <1>8, <2>2 DEF ReadVersion, TypeOK
      <3>3. requests[p].step = "listed"
        BY <1>8 DEF ReadVersion
      <3> QED BY <2>3, <3>1, <3>2, <3>3 DEF NamedRowsExist
    <2> QED BY <2>5, <2>6
  <1>9. ASSUME NEW p \in Worker, ReadCitations(p)
        PROVE  TypeInv'
    <2>1. PICK f \in requests[p].todo :
              requests' = [requests EXCEPT ![p].todo = @ \ {f},
                                           ![p].citations = @ \cup CitationsOf(f)]
      BY <1>9 DEF ReadCitations
    <2>2. requests[p] \in GenerateRequest \cup ExportRequest
      BY <1>9, RequestKinds DEF ReadCitations
    <2>3. CitationsOf(f) \subseteq Citation
      BY <2>1, <2>2, CitationsType DEF Citation, GenerateRequest, ExportRequest
    <2>4. /\ requests[p] \in GenerateRequest => requests'[p] \in GenerateRequest
          /\ requests[p] \in ExportRequest => requests'[p] \in ExportRequest
      <3>1. CASE requests[p] \in GenerateRequest
        BY <3>1, <2>1, <2>3 DEF TypeOK, GenerateRequest, ExportRequest
      <3>2. CASE requests[p] \in ExportRequest
        BY <3>2, <2>1, <2>3 DEF TypeOK, GenerateRequest, ExportRequest
      <3> QED BY <2>2, <3>1, <3>2
    <2>5. TypeOK'
      BY <1>9, <2>1, <2>2, <2>4 DEF ReadCitations, TypeOK
    <2>6. NamedRowsExist'
      BY <1>9, <2>1, <2>2 DEF ReadCitations, NamedRowsExist, TypeOK, GenerateRequest,
         ExportRequest
    <2> QED BY <2>5, <2>6
  <1>10. ASSUME NEW p \in Worker, NEW r \in Report, InsertReport(p, r)
         PROVE  TypeInv'
    <2>1. requests[p] \in GenerateRequest
      BY <1>10, RequestKinds DEF InsertReport
    <2>2. requests[p].version # 0
      BY <1>10 DEF InsertReport, NamedRowsExist
    <2>3. reports'[r] \in ReportRow
      BY <1>10, <2>1, <2>2 DEF InsertReport, TypeOK, GenerateRequest, ReportRow
    <2>4. TypeOK'
      BY <1>10, <2>3 DEF InsertReport, TypeOK
    <2>5. NamedRowsExist'
      <3>1. \A f \in reports'[r].finding_ids : findings'[f] # None
        BY <1>10, <2>1 DEF InsertReport, NamedRowsExist, TypeOK
      <3>2. \A s \in Report : reports[s] # None => reports'[s] # None
        BY <1>10, <2>3 DEF InsertReport, TypeOK
      <3>3. \A s \in Report : s # r => reports'[s] = reports[s]
        BY <1>10 DEF InsertReport, TypeOK
      <3>4. /\ \A q \in Worker : requests'[q] = requests[q] \/ requests'[q] = Idle
            /\ UNCHANGED findings
        BY <1>10 DEF InsertReport, TypeOK
      <3> QED
        BY <3>1, <3>2, <3>3, <3>4, RequestKinds DEF NamedRowsExist, ExportRequest, Idle
    <2> QED BY <2>4, <2>5
  <1>11. ASSUME NEW p \in Worker, RefuseReport(p) \/ FailRequest(p)
         PROVE  TypeInv'
    BY <1>11 DEF RefuseReport, FailRequest, TypeOK, NamedRowsExist, Idle
  <1>12. ASSUME NEW p \in Worker, ListFindings(p)
         PROVE  TypeInv'
    <2>1. requests[p] \in ExportRequest /\ reports[requests[p].report] \in ReportRow
      BY <1>12, RequestKinds, RowTypes DEF ListFindings, NamedRowsExist, ExportRequest
    <2>2. \A f \in reports[requests[p].report].finding_ids :
              f \in Finding /\ findings[f].status \in FindingStatus
      <3>1. requests[p].report \in Report /\ reports[requests[p].report] # None
        BY <1>12, <2>1 DEF ListFindings, NamedRowsExist, ExportRequest
      <3>2. reports[requests[p].report].finding_ids \subseteq Finding
        BY <2>1 DEF ReportRow
      <3>3. \A f \in reports[requests[p].report].finding_ids : findings[f] # None
        BY <3>1 DEF NamedRowsExist
      <3>4. \A f \in Finding : findings[f] # None => findings[f].status \in FindingStatus
        BY RowTypes DEF FindingRow
      <3> QED BY <3>2, <3>3, <3>4
    <2>3. requests'[p] \in ExportRequest
      <3> DEFINE ids == reports[requests[p].report].finding_ids
                 shown == {<<f, findings[f].status>> : f \in ids}
      <3>1. ids \in SUBSET Finding /\ shown \in SUBSET (Finding \X FindingStatus)
        BY <2>2
      <3>2. requests' = [requests EXCEPT ![p] =
                [requests[p] EXCEPT !.step = "citing_pdf", !.shown = shown, !.todo = ids]]
        BY <1>12, <2>1 DEF ListFindings, TypeOK, ExportRequest
      <3> HIDE DEF ids, shown
      <3> QED BY <2>1, <3>1, <3>2 DEF TypeOK, ExportRequest
    <2>4. TypeOK'
      BY <1>12, <2>3 DEF ListFindings, TypeOK
    <2>5. NamedRowsExist'
      BY <1>12, <2>1 DEF ListFindings, NamedRowsExist, TypeOK, ExportRequest
    <2> QED BY <2>4, <2>5
  <1>13. ASSUME NEW p \in Worker, TruncateFile(p)
         PROVE  TypeInv'
    <2>1. requests[p] \in ExportRequest
      BY <1>13, RequestKinds DEF TruncateFile
    <2>2. TypeOK'
      BY <1>13, <2>1 DEF TruncateFile, TypeOK, ExportRequest, FileContent
    <2>3. NamedRowsExist'
      BY <1>13, <2>1 DEF TruncateFile, NamedRowsExist, TypeOK, ExportRequest
    <2> QED BY <2>2, <2>3
  <1>14. ASSUME NEW p \in Worker, WriteFile(p)
         PROVE  TypeInv'
    <2>1. requests[p] \in ExportRequest /\ Rendered(p) \in Pdf
      BY <1>14, RequestKinds DEF WriteFile, ExportRequest, Rendered, Pdf
    <2>2. TypeOK'
      BY <1>14, <2>1 DEF WriteFile, TypeOK, ExportRequest, FileContent
    <2>3. NamedRowsExist'
      BY <1>14, <2>1 DEF WriteFile, NamedRowsExist, TypeOK, ExportRequest
    <2> QED BY <2>2, <2>3
  <1>15. ASSUME NEW p \in Worker, CommitExport(p)
         PROVE  TypeInv'
    <2> DEFINE r == requests[p].report
    <2>1. /\ requests[p] \in ExportRequest
          /\ Rendered(p) \in Pdf
          /\ reports[r] \in ReportRow
      BY <1>15, RequestKinds, RowTypes
      DEF CommitExport, ExportRequest, Rendered, Pdf, NamedRowsExist
    <2>2. r \in Report
      BY <2>1 DEF ExportRequest
    <2>3. [reports[r] EXCEPT !.exported = TRUE] \in ReportRow
      BY <2>1 DEF ReportRow
    <2>4. /\ reports' = [reports EXCEPT ![r] = [reports[r] EXCEPT !.exported = TRUE]]
          /\ requests' = [requests EXCEPT ![p] = Idle]
          /\ served' = [served EXCEPT ![r] = @ \cup {Rendered(p)}]
          /\ UNCHANGED <<findings, evidence, files, events>>
      BY <1>15 DEF CommitExport
    <2> HIDE DEF r
    <2>5. TypeOK'
      BY <2>1, <2>2, <2>3, <2>4 DEF TypeOK, FileContent
    <2>6. NamedRowsExist'
      <3>1. /\ \A s \in Report : reports[s] # None =>
                  reports'[s] # None /\ reports'[s].finding_ids = reports[s].finding_ids
            /\ \A s \in Report : reports'[s] # None => reports[s] # None
        BY <2>1, <2>2, <2>3, <2>4 DEF TypeOK, ReportRow
      <3>2. \A q \in Worker : requests'[q] = requests[q] \/ requests'[q] = Idle
        BY <2>4 DEF TypeOK
      <3> QED
        BY <2>4, <3>1, <3>2, RequestKinds DEF NamedRowsExist, ExportRequest, Idle
    <2> QED BY <2>5, <2>6
  <1>16. ASSUME NEW p \in Worker, ServeStored(p)
         PROVE  TypeInv'
    <2>1. requests[p] \in ExportRequest
      BY <1>16, RequestKinds DEF ServeStored
    <2>2. TypeOK'
      BY <1>16, <2>1 DEF ServeStored, TypeOK, ExportRequest
    <2>3. NamedRowsExist'
      BY <1>16, <2>1 DEF ServeStored, NamedRowsExist, TypeOK, Idle
    <2> QED BY <2>2, <2>3
  <1>17. CASE UNCHANGED vars
    BY <1>17 DEF vars, TypeOK, NamedRowsExist
  <1> QED
    BY <1>1, <1>2, <1>3, <1>4, <1>5, <1>6, <1>7, <1>8, <1>9, <1>10, <1>11, <1>12,
       <1>13, <1>14, <1>15, <1>16, <1>17 DEF Next, Continue

\* Rows, documents, audit events and the state of every request stay well formed
\* in every execution; the rows a request goes back to are still there.
THEOREM TypeCorrect == Spec => []TypeOK
  <1>1. TypeInv => TypeOK
    BY DEF TypeInv
  <1> QED BY <1>1, InitTypeInv, TypeInvStep, PTL DEF Spec

LEMMA TypeInvAlways == Spec => []TypeInv
  BY InitTypeInv, TypeInvStep, PTL DEF Spec

(***************************************************************************)
(* What a step can do to the tables                                        *)
(***************************************************************************)
\* A report row keeps its content, and a new one comes from InsertReport.
LEMMA ReportsStep ==
    ASSUME TypeInv, [Next]_vars, NEW r \in Report
    PROVE  /\ reports[r] # None =>
                 /\ reports'[r] # None
                 /\ reports'[r].engagement = reports[r].engagement
                 /\ reports'[r].version = reports[r].version
                 /\ reports'[r].finding_ids = reports[r].finding_ids
                 /\ reports'[r].body = reports[r].body
           /\ reports[r] = None /\ reports'[r] # None =>
                 \E p \in Worker : InsertReport(p, r)
  <1> USE NoneAssumption DEF TypeInv
  <1>1. ASSUME NEW p \in Worker, CommitExport(p) PROVE reports[r] # None =>
                 /\ reports'[r] # None
                 /\ reports'[r].engagement = reports[r].engagement
                 /\ reports'[r].version = reports[r].version
                 /\ reports'[r].finding_ids = reports[r].finding_ids
                 /\ reports'[r].body = reports[r].body
    <2> DEFINE s == requests[p].report
    <2>1. s \in Report /\ reports[s] \in ReportRow
      BY <1>1, RequestKinds, RowTypes DEF CommitExport, ExportRequest, NamedRowsExist
    <2>2. reports' = [reports EXCEPT ![s] = [reports[s] EXCEPT !.exported = TRUE]]
      BY <1>1 DEF CommitExport
    <2> HIDE DEF s
    <2>3. [reports[s] EXCEPT !.exported = TRUE] \in ReportRow
      BY <2>1 DEF ReportRow
    <2> QED BY <2>1, <2>2, <2>3 DEF TypeOK, ReportRow
  <1>2. ASSUME NEW p \in Worker, CommitExport(p), reports[r] = None PROVE reports'[r] = None
    <2>1. requests[p].report # r
      BY <1>2 DEF CommitExport, NamedRowsExist
    <2> QED BY <1>2, <2>1 DEF CommitExport, TypeOK
  <1>3. ASSUME NEW p \in Worker, NEW s \in Report, InsertReport(p, s), s # r
        PROVE  reports'[r] = reports[r]
    BY <1>3 DEF InsertReport, TypeOK
  <1>4. ASSUME NEW p \in Worker, InsertReport(p, r) PROVE reports[r] = None
    BY <1>4 DEF InsertReport
  <1>5. \/ UNCHANGED reports
        \/ \E p \in Worker : CommitExport(p)
        \/ \E p \in Worker, s \in Report : InsertReport(p, s)
    BY DEF Next, Continue, vars, CreateFinding, AttachEvidence, ReviewFinding, BeginReport,
           OpenReport, ReselectFinding, CommitDisposition, ReadVersion, ReadCitations,
           RefuseReport, ListFindings, TruncateFile, WriteFile, ServeStored, FailRequest
  <1> QED BY <1>1, <1>2, <1>3, <1>4, <1>5

\* A finding stays in its engagement, and only CommitDisposition and CreateFinding
\* touch the table.
LEMMA FindingsStep ==
    ASSUME TypeInv, [Next]_vars, NEW f \in Finding
    PROVE  /\ findings[f] # None =>
                 findings'[f] # None /\ findings'[f].engagement = findings[f].engagement
           /\ \/ findings'[f] = findings[f]
              \/ \E e \in Engagement : CreateFinding(f, e)
              \/ \E p \in Worker : CommitDisposition(p) /\ requests[p].finding = f
  <1> USE NoneAssumption DEF TypeInv
  <1>1. ASSUME NEW p \in Worker, CommitDisposition(p), requests[p].finding = f
        PROVE  findings'[f] # None /\ findings'[f].engagement = findings[f].engagement
    <2>1. findings' \in [Finding -> FindingRow \cup {None}]
      BY TypeInvStep DEF TypeOK
    <2>2. findings[f] \in FindingRow
      BY <1>1, RowTypes DEF CommitDisposition, NamedRowsExist
    <2>3. DisposedRow(p).engagement = findings[f].engagement
      BY <1>1, <2>2 DEF DisposedRow, FindingRow
    <2>4. findings'[f] = DisposedRow(p)
      BY <1>1 DEF CommitDisposition, TypeOK
    <2>5. requests[p] \in DispositionRequest
      BY <1>1, RequestKinds DEF CommitDisposition
    <2>6. findings'[f] # None
      BY <1>1, <2>2, <2>4, <2>5, DisposedRowType
    <2> QED BY <2>3, <2>4, <2>6
  <1>2. \/ UNCHANGED findings
        \/ \E g \in Finding, e \in Engagement : CreateFinding(g, e)
        \/ \E p \in Worker : CommitDisposition(p)
    BY DEF Next, Continue, vars, AttachEvidence, ReviewFinding, BeginReport, OpenReport,
           ReselectFinding, ReadVersion, ReadCitations, InsertReport, RefuseReport,
           ListFindings, TruncateFile, WriteFile, CommitExport, ServeStored, FailRequest
  <1>3. ASSUME NEW g \in Finding, NEW e \in Engagement, CreateFinding(g, e), g # f
        PROVE  findings'[f] = findings[f]
    BY <1>3 DEF CreateFinding, TypeOK
  <1>4. ASSUME NEW p \in Worker, CommitDisposition(p), requests[p].finding # f
        PROVE  findings'[f] = findings[f]
    BY <1>4 DEF CommitDisposition, TypeOK
  <1>5. ASSUME NEW e \in Engagement, CreateFinding(f, e)
        PROVE  findings[f] = None
    BY <1>5 DEF CreateFinding
  <1> QED BY <1>1, <1>2, <1>3, <1>4, <1>5

\* A request is left alone, ends, or takes one of its own steps.
LEMMA RequestsStep ==
    ASSUME TypeInv, [Next]_vars, NEW p \in Worker
    PROVE  \/ requests'[p] \in {requests[p], Idle}
           \/ \E u \in Reviewer, f \in Finding, to \in Disposed, why \in Reason \cup {None} :
                 ReviewFinding(p, u, f, to, why)
           \/ \E e \in Engagement : BeginReport(p, e)
           \/ \E r \in Report : OpenReport(p, r)
           \/ ReselectFinding(p) \/ ReadVersion(p) \/ ReadCitations(p)
           \/ ListFindings(p) \/ TruncateFile(p) \/ WriteFile(p)
  <1>1. ASSUME NEW q \in Worker, q # p,
               \/ \E u \in Reviewer, f \in Finding, to \in Disposed, why \in Reason \cup {None} :
                     ReviewFinding(q, u, f, to, why)
               \/ \E e \in Engagement : BeginReport(q, e)
               \/ \E r \in Report : OpenReport(q, r)
               \/ Continue(q)
               \/ FailRequest(q)
        PROVE  requests'[p] = requests[p]
    BY <1>1 DEF TypeInv, TypeOK, ReviewFinding, BeginReport, OpenReport, Continue,
        ReselectFinding, CommitDisposition, ReadVersion, ReadCitations, InsertReport,
        RefuseReport, ListFindings, TruncateFile, WriteFile, CommitExport, ServeStored,
        FailRequest
  <1>2. ASSUME \/ CommitDisposition(p) \/ RefuseReport(p) \/ CommitExport(p)
               \/ ServeStored(p) \/ FailRequest(p)
               \/ \E r \in Report : InsertReport(p, r)
        PROVE  requests'[p] = Idle
    BY <1>2 DEF TypeInv, TypeOK, CommitDisposition, InsertReport, RefuseReport,
        CommitExport, ServeStored, FailRequest
  <1>3. ASSUME \/ \E f \in Finding, e \in Engagement : CreateFinding(f, e)
               \/ \E f \in Finding, c \in Chunk : AttachEvidence(f, c)
               \/ UNCHANGED vars
        PROVE  requests'[p] = requests[p]
    BY <1>3 DEF CreateFinding, AttachEvidence, vars
  <1> QED BY <1>1, <1>2, <1>3 DEF Next, Continue

\* The same for a request of generate_report: what it has read, it keeps.
LEMMA GenerateStep ==
    ASSUME TypeInv, [Next]_vars, NEW p \in Worker,
           requests'[p].step \in {"listed", "citing_body"}
    PROVE  \/ requests'[p] = requests[p]
           \/ \E e \in Engagement : BeginReport(p, e)
           \/ /\ ReadVersion(p)
              /\ requests'[p].step = "citing_body"
              /\ requests'[p].engagement = requests[p].engagement
              /\ requests'[p].finding_ids = requests[p].finding_ids
              /\ requests'[p].todo = requests[p].todo
              /\ requests'[p].citations = requests[p].citations
           \/ /\ ReadCitations(p)
              /\ requests'[p].step = requests[p].step
              /\ requests'[p].engagement = requests[p].engagement
              /\ requests'[p].finding_ids = requests[p].finding_ids
              /\ requests'[p].version = requests[p].version
  <1> USE DEF TypeInv
  <1>1. ~ \E u \in Reviewer, f \in Finding, to \in Disposed, why \in Reason \cup {None} :
             ReviewFinding(p, u, f, to, why)
    BY DEF ReviewFinding, TypeOK
  <1>2. ~ \E r \in Report : OpenReport(p, r)
    BY DEF OpenReport, TypeOK
  <1>3. ~ ReselectFinding(p)
    <2>1. ASSUME ReselectFinding(p) PROVE requests'[p].step = "reselected"
      <3>1. requests[p] \in DispositionRequest
        BY <2>1, RequestKinds DEF ReselectFinding
      <3> QED BY <2>1, <3>1 DEF ReselectFinding, TypeOK, DispositionRequest
    <2> QED BY <2>1
  <1>4. ASSUME ListFindings(p) \/ TruncateFile(p) \/ WriteFile(p) PROVE FALSE
    <2>1. requests[p] \in ExportRequest
      BY <1>4, RequestKinds DEF ListFindings, TruncateFile, WriteFile
    <2>2. requests'[p].step \in {"citing_pdf", "truncated", "stored"}
      <3>1. CASE ListFindings(p)
        BY <3>1, <2>1 DEF ListFindings, TypeOK, ExportRequest
      <3>2. CASE TruncateFile(p) \/ WriteFile(p)
        BY <3>2, <2>1 DEF TruncateFile, WriteFile, TypeOK, ExportRequest
      <3> QED BY <1>4, <3>1, <3>2
    <2> QED BY <2>2
  <1>5. requests'[p] # Idle
    BY DEF Idle
  <1>6. ASSUME ReadVersion(p)
        PROVE  /\ requests'[p].step = "citing_body"
               /\ requests'[p].engagement = requests[p].engagement
               /\ requests'[p].finding_ids = requests[p].finding_ids
               /\ requests'[p].todo = requests[p].todo
               /\ requests'[p].citations = requests[p].citations
    <2>1. requests[p] \in GenerateRequest
      BY <1>6, RequestKinds DEF ReadVersion
    <2>2. PICK v : requests' = [requests EXCEPT ![p].step = "citing_body", ![p].version = v]
      BY <1>6 DEF ReadVersion
    <2> QED BY <2>1, <2>2 DEF TypeOK, GenerateRequest
  <1>7. ASSUME ReadCitations(p)
        PROVE  /\ requests'[p].step = requests[p].step
               /\ requests'[p].engagement = requests[p].engagement
               /\ requests'[p].finding_ids = requests[p].finding_ids
               /\ requests'[p].version = requests[p].version
    <2>1. PICK f : requests' = [requests EXCEPT ![p].todo = @ \ {f},
                                                ![p].citations = @ \cup CitationsOf(f)]
      BY <1>7 DEF ReadCitations
    <2>2. requests[p] \in GenerateRequest \cup ExportRequest
      BY <1>7, RequestKinds DEF ReadCitations
    <2> QED BY <2>1, <2>2 DEF TypeOK, GenerateRequest, ExportRequest
  <1> QED BY <1>1, <1>2, <1>3, <1>4, <1>5, <1>6, <1>7, RequestsStep

\* The trail only gains one event, at its end, and only with a disposition.
LEMMA EventsStep ==
    ASSUME TypeInv, [Next]_vars
    PROVE  \/ UNCHANGED events
           \/ \E p \in Worker : /\ CommitDisposition(p)
                                /\ events' = Append(events, DispositionEvent(p))
  BY DEF Next, Continue, vars, CreateFinding, AttachEvidence, ReviewFinding, BeginReport,
         OpenReport, ReselectFinding, ReadVersion, ReadCitations, InsertReport,
         RefuseReport, ListFindings, TruncateFile, WriteFile, CommitExport, ServeStored,
         FailRequest, CommitDisposition, RecordedEvents

(***************************************************************************)
(* Report numbers                                                          *)
(***************************************************************************)
\* The version a request has read is 1 or follows one that is taken.
VersionReached(p) ==
    \/ requests[p].version = 1
    \/ requests[p].version - 1 \in VersionsOf(requests[p].engagement)

VersionInv ==
    /\ VersionsNumbered
    /\ \A p \in Worker : requests[p].step = "citing_body" => VersionReached(p)

LEMMA VersionsGrow ==
    ASSUME TypeInv, [Next]_vars, NEW e
    PROVE  VersionsOf(e) \subseteq VersionsOf(e)'
  BY ReportsStep DEF VersionsOf, ReportsOf

LEMMA VersionInvStep == TypeInv /\ TypeInv' /\ VersionInv /\ [Next]_vars => VersionInv'
  <1> SUFFICES ASSUME TypeInv, TypeInv', VersionInv, [Next]_vars PROVE VersionInv'
    OBVIOUS
  <1>1. ASSUME NEW p \in Worker, requests'[p].step = "citing_body"
        PROVE  VersionReached(p)'
    <2>1. CASE /\ requests[p].step = "citing_body"
               /\ requests'[p].version = requests[p].version
               /\ requests'[p].engagement = requests[p].engagement
      BY <2>1, VersionsGrow DEF VersionInv, VersionReached
    <2>2. CASE ReadVersion(p)
      <3>1. PICK v \in {1} \cup {w + 1 : w \in VersionsOf(requests[p].engagement)} :
                /\ IsNextVersion(requests[p].engagement, v)
                /\ requests' = [requests EXCEPT ![p].step = "citing_body", ![p].version = v]
        BY <2>2 DEF ReadVersion
      <3>2. requests[p] \in GenerateRequest
        BY <2>2, RequestKinds DEF ReadVersion, TypeInv
      <3>3. requests'[p].version = v /\ requests'[p].engagement = requests[p].engagement
        BY <3>1, <3>2 DEF TypeInv, TypeOK, GenerateRequest
      <3>4. VersionsOf(requests[p].engagement) \subseteq Nat
        BY RowTypes DEF TypeInv, VersionsOf, ReportsOf, ReportRow
      <3>5. v = 1 \/ v - 1 \in VersionsOf(requests[p].engagement)
        BY <3>1, <3>4 DEF IsNextVersion
      <3> QED BY <3>3, <3>5, VersionsGrow DEF VersionReached
    <2>3. ~ \E e \in Engagement : BeginReport(p, e)
      BY <1>1 DEF BeginReport, TypeInv, TypeOK
    <2> QED BY <1>1, <2>1, <2>2, <2>3, GenerateStep
  <1>2. ASSUME NEW r \in Report, NEW e \in Engagement,
               reports'[r] # None, reports[r] # None, reports'[r].engagement = e
        PROVE  reports'[r].version = 1 \/ reports'[r].version - 1 \in VersionsOf(e)'
    <2>1. reports[r].engagement = e /\ reports'[r].version = reports[r].version
      BY <1>2, ReportsStep
    <2>2. reports[r].version = 1 \/ reports[r].version - 1 \in VersionsOf(e)
      BY <1>2, <2>1 DEF VersionInv, VersionsNumbered
    <2> QED BY <2>1, <2>2, VersionsGrow
  <1>3. ASSUME NEW r \in Report, NEW p \in Worker, InsertReport(p, r)
        PROVE  /\ \A e \in Engagement : reports'[r].engagement = e =>
                     \/ reports'[r].version = 1
                     \/ reports'[r].version - 1 \in VersionsOf(e)'
               /\ \A s \in Report :
                     /\ s # r
                     /\ reports'[s] # None
                     /\ reports'[s].engagement = reports'[r].engagement
                     => reports'[s].version # reports'[r].version
    <2>1. /\ reports'[r].version = requests[p].version
          /\ reports'[r].engagement = requests[p].engagement
          /\ \A s \in Report \ {r} : reports'[s] = reports[s]
      BY <1>3 DEF InsertReport, TypeInv, TypeOK
    <2>2. VersionReached(p)
      BY <1>3 DEF InsertReport, VersionInv
    <2>3. requests[p].version \notin VersionsOf(requests[p].engagement)
      BY <1>3 DEF InsertReport, VersionTaken
    <2>4. \A e \in Engagement : reports'[r].engagement = e =>
             \/ reports'[r].version = 1
             \/ reports'[r].version - 1 \in VersionsOf(e)'
      BY <2>1, <2>2, VersionsGrow DEF VersionReached
    <2>5. \A s \in Report : reports[s] # None /\ reports[s].engagement = requests[p].engagement
                             => reports[s].version # requests[p].version
      BY <2>3 DEF VersionsOf, ReportsOf
    <2> QED BY <2>1, <2>4, <2>5
  <1>4. ASSUME NEW r \in Report, NEW s \in Report, r # s,
               reports'[r] # None, reports'[s] # None,
               reports'[r].engagement = reports'[s].engagement
        PROVE  reports'[r].version # reports'[s].version
    <2>1. CASE reports[r] # None /\ reports[s] # None
      BY <1>4, <2>1, ReportsStep DEF VersionInv, VersionsNumbered, ReportsOf
    <2>2. CASE reports[r] = None
      BY <1>4, <2>2, <1>3, ReportsStep
    <2>3. CASE reports[s] = None
      BY <1>4, <2>3, <1>3, ReportsStep
    <2> QED BY <2>1, <2>2, <2>3
  <1>5. VersionsNumbered'
    <2>1. \A r \in Report : reports'[r] # None => reports'[r].engagement \in Engagement
      BY DEF TypeInv, TypeOK, ReportRow
    <2>2. ASSUME NEW r \in Report, reports'[r] # None
          PROVE  \/ reports'[r].version = 1
                 \/ \E e \in Engagement : /\ reports'[r].engagement = e
                                          /\ reports'[r].version - 1 \in VersionsOf(e)'
      BY <2>1, <2>2, <1>2, <1>3, ReportsStep
    <2> QED BY <1>4, <2>2 DEF VersionsNumbered, ReportsOf
  <1> QED BY <1>1, <1>5 DEF VersionInv

\* The reports of an engagement are numbered 1, 2, ... without repetition or gap,
\* although the next number is read before other requests insert theirs.
THEOREM VersionsAlwaysNumbered == Spec => []VersionsNumbered
  <1>1. Init => VersionInv
    BY DEF Init, VersionInv, VersionsNumbered, Idle
  <1>2. VersionInv => VersionsNumbered
    BY DEF VersionInv
  <1> QED BY <1>1, <1>2, TypeInvAlways, VersionInvStep, PTL DEF Spec

(***************************************************************************)
(* Reports list signed-off findings only                                   *)
(***************************************************************************)
\* A confirmed row has its confirmation in the trail, and whatever a report or
\* a request that compiles one lists was confirmed when it was listed.
SignedInv ==
    /\ \A f \in Finding : findings[f] # None /\ findings[f].status = "confirmed" => SignedOff(f)
    /\ \A p \in Worker : requests[p].step \in {"listed", "citing_body"} =>
          \A f \in requests[p].finding_ids : SignedOff(f)
    /\ OnlyConfirmedReported

LEMMA SignedOffStays ==
    ASSUME TypeInv, [Next]_vars, NEW f \in Finding, SignedOff(f)
    PROVE  SignedOff(f)'
  <1>1. CASE UNCHANGED events
    BY <1>1 DEF SignedOff
  <1>2. ASSUME NEW p \in Worker, events' = Append(events, DispositionEvent(p))
        PROVE  SignedOff(f)'
    <2>1. \A i \in DOMAIN events : i \in DOMAIN events' /\ events'[i] = events[i]
      BY <1>2 DEF TypeInv, TypeOK
    <2> QED BY <2>1 DEF SignedOff
  <1> QED BY <1>1, <1>2, EventsStep

LEMMA SignedInvStep == TypeInv /\ TypeInv' /\ SignedInv /\ [Next]_vars => SignedInv'
  <1> SUFFICES ASSUME TypeInv, TypeInv', SignedInv, [Next]_vars PROVE SignedInv'
    OBVIOUS
  <1>1. ASSUME NEW f \in Finding, findings'[f] # None, findings'[f].status = "confirmed"
        PROVE  SignedOff(f)'
    <2>1. CASE findings'[f] = findings[f]
      BY <1>1, <2>1, SignedOffStays DEF SignedInv
    <2>2. CASE \E e \in Engagement : CreateFinding(f, e)
      BY <1>1, <2>2 DEF CreateFinding, TypeInv, TypeOK
    <2>3. ASSUME NEW p \in Worker, CommitDisposition(p), requests[p].finding = f
          PROVE  SignedOff(f)'
      <3>1. /\ requests[p] \in DispositionRequest
            /\ findings[f] # None
            /\ findings[f] \in FindingRow
        BY <2>3, RequestKinds, RowTypes DEF TypeInv, CommitDisposition, NamedRowsExist
      <3>2. findings'[f] = DisposedRow(p)
        BY <2>3 DEF CommitDisposition, TypeInv, TypeOK
      <3>3. DisposedRow(p).status =
               Flushed(requests[p].row.status, requests[p].to, findings[f].status)
        BY <2>3, <3>1 DEF DisposedRow, FindingRow
      <3>4. CASE findings[f].status = "confirmed"
        BY <3>1, <3>4, SignedOffStays DEF SignedInv
      <3>5. CASE requests[p].to = "confirmed"
        <4>1. events' = Append(events, DispositionEvent(p))
          BY <2>3 DEF CommitDisposition, RecordedEvents
        <4>2. /\ Len(events) + 1 \in DOMAIN events'
              /\ events'[Len(events) + 1] = DispositionEvent(p)
          BY <4>1 DEF TypeInv, TypeOK
        <4> QED BY <2>3, <3>5, <4>2 DEF SignedOff, DispositionEvent
      <3> QED BY <1>1, <3>2, <3>3, <3>4, <3>5 DEF Flushed
    <2> QED BY <1>1, <2>1, <2>2, <2>3, FindingsStep
  <1>2. ASSUME NEW p \in Worker, requests'[p].step \in {"listed", "citing_body"},
               NEW f \in requests'[p].finding_ids
        PROVE  SignedOff(f)'
    <2>1. f \in Finding
      <3>1. requests'[p] \in GenerateRequest
        BY <1>2 DEF TypeInv, TypeOK, Idle, DispositionRequest, GenerateRequest, ExportRequest
      <3> QED BY <1>2, <3>1 DEF GenerateRequest
    <2>2. CASE requests'[p] = requests[p]
      BY <1>2, <2>1, <2>2, SignedOffStays DEF SignedInv
    <2>3. CASE \E e \in Engagement : BeginReport(p, e)
      <3>1. \E e \in Engagement : f \in ConfirmedIn(e)
        BY <1>2, <2>3 DEF BeginReport, TypeInv, TypeOK
      <3> QED BY <2>1, <3>1, SignedOffStays DEF ConfirmedIn, SignedInv
    <2>4. CASE ReadVersion(p) /\ requests'[p].finding_ids = requests[p].finding_ids
      BY <1>2, <2>1, <2>4, SignedOffStays DEF SignedInv, ReadVersion
    <2>5. CASE /\ requests'[p].step = requests[p].step
               /\ requests'[p].finding_ids = requests[p].finding_ids
      BY <1>2, <2>1, <2>5, SignedOffStays DEF SignedInv
    <2> QED BY <1>2, <2>2, <2>3, <2>4, <2>5, GenerateStep
  <1>3. ASSUME NEW r \in Report, reports'[r] # None, NEW f \in reports'[r].finding_ids
        PROVE  SignedOff(f)'
    <2>1. f \in Finding
      BY <1>3 DEF TypeInv, TypeOK, ReportRow
    <2>2. CASE reports[r] # None
      BY <1>3, <2>1, <2>2, ReportsStep, SignedOffStays DEF SignedInv, OnlyConfirmedReported
    <2>3. ASSUME NEW p \in Worker, InsertReport(p, r)
          PROVE  SignedOff(f)'
      <3>1. f \in requests[p].finding_ids /\ requests[p].step = "citing_body"
        BY <1>3, <2>3 DEF InsertReport, TypeInv, TypeOK
      <3> QED BY <2>1, <3>1, SignedOffStays DEF SignedInv
    <2> QED BY <1>3, <2>2, <2>3, ReportsStep
  <1> QED BY <1>1, <1>2, <1>3 DEF SignedInv, OnlyConfirmedReported

\* No report lists a finding that no reviewer confirmed, for any number of
\* reviewers and report requests, overlapping in any way.
THEOREM OnlyConfirmedAlwaysReported == Spec => []OnlyConfirmedReported
  <1>1. Init => SignedInv
    BY DEF Init, SignedInv, OnlyConfirmedReported, Idle
  <1>2. SignedInv => OnlyConfirmedReported
    BY DEF SignedInv
  <1> QED BY <1>1, <1>2, TypeInvAlways, SignedInvStep, PTL DEF Spec

(***************************************************************************)
(* The audit trail and the finding rows                                    *)
(***************************************************************************)
\* A disposition request reached its state by its own two SELECTs.
LEMMA DispositionStep ==
    ASSUME TypeInv, [Next]_vars, NEW p \in Worker,
           requests'[p].step \in {"reviewing", "reselected"}
    PROVE  \/ requests'[p] = requests[p]
           \/ \E u \in Reviewer, f \in Finding, to \in Disposed, why \in Reason \cup {None} :
                 ReviewFinding(p, u, f, to, why)
           \/ ReselectFinding(p)
  <1> USE DEF TypeInv
  <1>1. ~ \E e \in Engagement : BeginReport(p, e)
    BY DEF BeginReport, TypeOK
  <1>2. ~ \E r \in Report : OpenReport(p, r)
    BY DEF OpenReport, TypeOK
  <1>3. ~ ReadVersion(p)
    <2> SUFFICES ASSUME ReadVersion(p) PROVE requests'[p].step = "citing_body"
      OBVIOUS
    <2>1. requests[p] \in GenerateRequest
      BY RequestKinds DEF ReadVersion
    <2> QED BY <2>1 DEF ReadVersion, TypeOK, GenerateRequest
  <1>4. ~ ReadCitations(p)
    <2> SUFFICES ASSUME ReadCitations(p) PROVE requests'[p].step \in {"citing_body", "citing_pdf"}
      OBVIOUS
    <2>1. requests[p] \in GenerateRequest \cup ExportRequest
      BY RequestKinds DEF ReadCitations
    <2>2. PICK f : requests' = [requests EXCEPT ![p].todo = @ \ {f},
                                                ![p].citations = @ \cup CitationsOf(f)]
      BY DEF ReadCitations
    <2> QED BY <2>1, <2>2 DEF ReadCitations, TypeOK, GenerateRequest, ExportRequest
  <1>5. ASSUME ListFindings(p) \/ TruncateFile(p) \/ WriteFile(p) PROVE FALSE
    <2>1. requests[p] \in ExportRequest
      BY <1>5, RequestKinds DEF ListFindings, TruncateFile, WriteFile
    <2>2. requests'[p].step \in {"citing_pdf", "truncated", "stored"}
      <3>1. CASE ListFindings(p)
        BY <3>1, <2>1 DEF ListFindings, TypeOK, ExportRequest
      <3>2. CASE TruncateFile(p) \/ WriteFile(p)
        BY <3>2, <2>1 DEF TruncateFile, WriteFile, TypeOK, ExportRequest
      <3> QED BY <1>5, <3>1, <3>2
    <2> QED BY <2>2
  <1>6. requests'[p] # Idle
    BY DEF Idle
  <1> QED BY <1>1, <1>2, <1>3, <1>4, <1>5, <1>6, RequestsStep

\* What the commit of a disposition does to the row and to the trail.
LEMMA DispositionEffect ==
    ASSUME TypeInv, NEW p \in Worker, CommitDisposition(p),
           NEW f \in Finding, requests[p].finding = f
    PROVE  LET q == requests[p]
           IN  /\ findings[f] # None
               /\ q.to \in Disposed /\ q.by \in Reviewer /\ q.row.status \in FindingStatus
               /\ findings'[f].status = Flushed(q.row.status, q.to, findings[f].status)
               /\ findings'[f].reviewed_by =
                     Flushed(q.row.reviewed_by, q.by, findings[f].reviewed_by)
               /\ \A g \in Finding \ {f} : findings'[g] = findings[g]
               /\ EventsOf(f)' = EventsOf(f) \cup {Len(events) + 1}
               /\ \A g \in Finding \ {f} : EventsOf(g)' = EventsOf(g)
               /\ events'[Len(events) + 1] = DispositionEvent(p)
               /\ \A i \in DOMAIN events : events'[i] = events[i]
               /\ DOMAIN events = 1 .. Len(events)
  <1> DEFINE q == requests[p]
  <1>1. q \in DispositionRequest /\ findings[f] # None /\ findings[f] \in FindingRow
    <2>1. q \in DispositionRequest /\ findings[f] # None
      BY RequestKinds DEF CommitDisposition, TypeInv, NamedRowsExist
    <2> QED BY <2>1, RowTypes DEF TypeInv
  <1>2. q.to \in Disposed /\ q.by \in Reviewer /\ q.row.status \in FindingStatus
    <2>1. q.to \in Disposed /\ q.by \in Reviewer /\ q.row \in FindingRow
      BY <1>1 DEF DispositionRequest
    <2> QED BY <2>1 DEF FindingRow
  <1>3. findings'[f] = DisposedRow(p) /\ \A g \in Finding \ {f} : findings'[g] = findings[g]
    BY <1>2 DEF CommitDisposition, TypeInv, TypeOK
  <1>4. /\ DisposedRow(p).status = Flushed(q.row.status, q.to, findings[f].status)
        /\ DisposedRow(p).reviewed_by = Flushed(q.row.reviewed_by, q.by, findings[f].reviewed_by)
    BY <1>1 DEF DisposedRow, FindingRow
  <1>5. events' = Append(events, DispositionEvent(p)) /\ events \in Seq(AuditEvent)
    BY DEF CommitDisposition, RecordedEvents, TypeInv, TypeOK
  <1>6. /\ DOMAIN events' = DOMAIN events \cup {Len(events) + 1}
        /\ DOMAIN events = 1 .. Len(events)
        /\ events'[Len(events) + 1] = DispositionEvent(p)
        /\ \A i \in DOMAIN events : events'[i] = events[i]
    BY <1>5
  <1>7. DispositionEvent(p).finding = f
    BY DEF DispositionEvent
  <1>8. /\ EventsOf(f)' = EventsOf(f) \cup {Len(events) + 1}
        /\ \A g \in Finding \ {f} : EventsOf(g)' = EventsOf(g)
    <2>1. \A g : EventsOf(g)' = {i \in DOMAIN events' : events'[i].finding = g}
      BY DEF EventsOf
    <2>2. \A g : EventsOf(g)' =
             {i \in DOMAIN events : events[i].finding = g}
             \cup {i \in {Len(events) + 1} : DispositionEvent(p).finding = g}
      BY <1>6, <2>1
    <2>3. \A g : EventsOf(g) = {i \in DOMAIN events : events[i].finding = g}
      BY DEF EventsOf
    <2>4. EventsOf(f)' = EventsOf(f) \cup {Len(events) + 1}
      BY <1>7, <2>2, <2>3
    <2>5. ASSUME NEW g \in Finding \ {f} PROVE EventsOf(g)' = EventsOf(g)
      BY <1>7, <2>2, <2>3
    <2> QED BY <2>4, <2>5
  <1> QED BY <1>1, <1>2, <1>3, <1>4, <1>6, <1>8

\* The row a disposition loaded is explained by an event j, and what the row has
\* become since by j or a later one: so a column the flush leaves out has the
\* value of an event after j.
LoadedExplained(p) ==
    LET q == requests[p]
        f == q.finding
    IN  /\ q.row.status # "draft" =>
              \E j \in EventsOf(f) :
                 /\ events[j].after = q.row.status
                 /\ \/ findings[f].status = events[j].after
                    \/ \E k \in EventsOf(f) : j < k /\ findings[f].status = events[k].after
        /\ q.row.reviewed_by # None =>
              \E j \in EventsOf(f) :
                 /\ events[j].actor = q.row.reviewed_by
                 /\ \/ findings[f].reviewed_by = events[j].actor
                    \/ \E k \in EventsOf(f) : j < k /\ findings[f].reviewed_by = events[k].actor

TrailInv ==
    /\ TrailAccountsForRow
    /\ \A f \in Finding :
          /\ findings[f] = None => EventsOf(f) = {}
          /\ findings[f] # None /\ findings[f].status = "draft" => findings[f].reviewed_by = None
    /\ \A p \in Worker : requests[p].step \in {"reviewing", "reselected"} => LoadedExplained(p)

\* What one commit does to the status, and, the same way, to the reviewer.
LEMMA FlushedStatus ==
    ASSUME TypeInv, TrailInv, NEW p \in Worker, CommitDisposition(p),
           NEW f \in Finding, requests[p].finding = f,
           NEW last, last = Len(events) + 1
    PROVE  /\ StatusFrom(last, f)'
           /\ findings'[f].status \in Disposed
           /\ \/ findings'[f].status = findings[f].status
              \/ findings'[f].status = events'[last].after
  <1> DEFINE q == requests[p]
  <1>0. DispositionEvent(p).after = q.to /\ DispositionEvent(p).actor = q.by
    BY DEF DispositionEvent
  <1>1. /\ q.to \in Disposed
        /\ findings'[f].status = Flushed(q.row.status, q.to, findings[f].status)
        /\ EventsOf(f)' = EventsOf(f) \cup {last}
        /\ events'[last].after = q.to
        /\ \A i \in DOMAIN events : events'[i] = events[i]
        /\ DOMAIN events = 1 .. Len(events)
    BY <1>0, DispositionEffect
  <1>2. \A i \in EventsOf(f) : i \in DOMAIN events /\ i < last /\ events[i].after \in Disposed
    <2>1. events \in Seq(AuditEvent) /\ Len(events) \in Nat
      BY DEF TypeInv, TypeOK
    <2>2. \A i \in EventsOf(f) : i \in 1 .. Len(events) /\ events[i] \in AuditEvent
      BY <1>1, <2>1 DEF EventsOf
    <2> QED BY <1>1, <2>1, <2>2 DEF AuditEvent
  <1>3. LoadedExplained(p)
    BY DEF CommitDisposition, TrailInv
  <1>4. CASE q.row.status # q.to
    BY <1>1, <1>4 DEF Flushed, StatusFrom
  <1>5. CASE q.row.status = q.to
    <2>1. findings'[f].status = findings[f].status /\ q.row.status # "draft"
      BY <1>1, <1>5 DEF Flushed, Disposed
    <2>2. PICK j \in EventsOf(f) :
              /\ events[j].after = q.row.status
              /\ \/ findings[f].status = events[j].after
                 \/ \E k \in EventsOf(f) : j < k /\ findings[f].status = events[k].after
      BY <1>3, <2>1 DEF LoadedExplained
    <2>3. CASE findings[f].status = events[j].after
      BY <1>1, <1>5, <2>1, <2>2, <2>3 DEF StatusFrom
    <2>4. CASE \E k \in EventsOf(f) : j < k /\ findings[f].status = events[k].after
      <3>1. PICK k \in EventsOf(f) : j < k /\ findings[f].status = events[k].after
        BY <2>4
      <3>2. /\ j \in EventsOf(f)' /\ k \in EventsOf(f)'
            /\ j < k /\ k < last
            /\ events'[j].after = events'[last].after
            /\ findings'[f].status = events'[k].after
        BY <1>1, <1>2, <1>5, <2>1, <2>2, <3>1
      <3> QED BY <1>2, <2>1, <3>1, <3>2 DEF StatusFrom
    <2> QED BY <2>2, <2>3, <2>4
  <1> QED BY <1>4, <1>5

LEMMA FlushedReviewer ==
    ASSUME TypeInv, TrailInv, NEW p \in Worker, CommitDisposition(p),
           NEW f \in Finding, requests[p].finding = f,
           NEW last, last = Len(events) + 1
    PROVE  /\ ReviewerFrom(last, f)'
           /\ findings'[f].reviewed_by \in Reviewer
           /\ \/ findings'[f].reviewed_by = findings[f].reviewed_by
              \/ findings'[f].reviewed_by = events'[last].actor
  <1> DEFINE q == requests[p]
  <1>0. DispositionEvent(p).after = q.to /\ DispositionEvent(p).actor = q.by
    BY DEF DispositionEvent
  <1>1. /\ q.by \in Reviewer
        /\ findings'[f].reviewed_by = Flushed(q.row.reviewed_by, q.by, findings[f].reviewed_by)
        /\ EventsOf(f)' = EventsOf(f) \cup {last}
        /\ events'[last].actor = q.by
        /\ \A i \in DOMAIN events : events'[i] = events[i]
        /\ DOMAIN events = 1 .. Len(events)
    BY <1>0, DispositionEffect
  <1>2. \A i \in EventsOf(f) : i \in DOMAIN events /\ i < last /\ events[i].actor \in Reviewer
    <2>1. events \in Seq(AuditEvent) /\ Len(events) \in Nat
      BY DEF TypeInv, TypeOK
    <2>2. \A i \in EventsOf(f) : i \in 1 .. Len(events) /\ events[i] \in AuditEvent
      BY <1>1, <2>1 DEF EventsOf
    <2> QED BY <1>1, <2>1, <2>2 DEF AuditEvent
  <1>3. LoadedExplained(p)
    BY DEF CommitDisposition, TrailInv
  <1>4. CASE q.row.reviewed_by # q.by
    BY <1>1, <1>4 DEF Flushed, ReviewerFrom
  <1>5. CASE q.row.reviewed_by = q.by
    <2>1. findings'[f].reviewed_by = findings[f].reviewed_by /\ q.row.reviewed_by # None
      BY <1>1, <1>5, NoneAssumption DEF Flushed
    <2>2. PICK j \in EventsOf(f) :
              /\ events[j].actor = q.row.reviewed_by
              /\ \/ findings[f].reviewed_by = events[j].actor
                 \/ \E k \in EventsOf(f) : j < k /\ findings[f].reviewed_by = events[k].actor
      BY <1>3, <2>1 DEF LoadedExplained
    <2>3. CASE findings[f].reviewed_by = events[j].actor
      BY <1>1, <1>5, <2>1, <2>2, <2>3 DEF ReviewerFrom
    <2>4. CASE \E k \in EventsOf(f) : j < k /\ findings[f].reviewed_by = events[k].actor
      <3>1. PICK k \in EventsOf(f) : j < k /\ findings[f].reviewed_by = events[k].actor
        BY <2>4
      <3>2. /\ j \in EventsOf(f)' /\ k \in EventsOf(f)'
            /\ j < k /\ k < last
            /\ events'[j].actor = events'[last].actor
            /\ findings'[f].reviewed_by = events'[k].actor
        BY <1>1, <1>2, <1>5, <2>1, <2>2, <3>1
      <3> QED BY <1>2, <2>1, <3>1, <3>2 DEF ReviewerFrom
    <2> QED BY <2>2, <2>3, <2>4
  <1> QED BY <1>4, <1>5

LEMMA TrailInvStep == TypeInv /\ TypeInv' /\ TrailInv /\ [Next]_vars => TrailInv'
  <1> SUFFICES ASSUME TypeInv, TypeInv', TrailInv, [Next]_vars PROVE TrailInv'
    OBVIOUS
  <1> USE NoneAssumption
  <1>1. ASSUME NEW p \in Worker, CommitDisposition(p)
        PROVE  TrailInv'
    <2>a. PICK last : last = Len(events) + 1
      OBVIOUS
    <2>0. PICK f \in Finding : requests[p].finding = f
      BY <1>1, RequestKinds DEF CommitDisposition, TypeInv, DispositionRequest
    <2>1. /\ findings[f] # None
          /\ \A g \in Finding \ {f} : findings'[g] = findings[g]
          /\ EventsOf(f)' = EventsOf(f) \cup {last}
          /\ \A g \in Finding \ {f} : EventsOf(g)' = EventsOf(g)
          /\ \A i \in DOMAIN events : events'[i] = events[i]
          /\ DOMAIN events = 1 .. Len(events)
      BY <1>1, <2>0, <2>a, DispositionEffect
    <2>2. /\ StatusFrom(last, f)'
          /\ findings'[f].status \in Disposed
          /\ findings'[f].status = findings[f].status \/ findings'[f].status = events'[last].after
      BY <1>1, <2>0, <2>a, FlushedStatus
    <2>3. /\ ReviewerFrom(last, f)'
          /\ \/ findings'[f].reviewed_by = findings[f].reviewed_by
             \/ findings'[f].reviewed_by = events'[last].actor
      BY <1>1, <2>0, <2>a, FlushedReviewer
    <2>4. \A g : EventsOf(g) \subseteq 1 .. Len(events)
      BY <2>1 DEF EventsOf
    <2>5. Len(events) \in Nat
      BY DEF TypeInv, TypeOK
    <2>6. last \in EventsOf(f)' /\ \A j \in EventsOf(f)' : j <= last
      BY <2>1, <2>4, <2>5, <2>a
    <2>7. findings'[f] # None /\ findings'[f].status # "draft"
      BY <1>1, <2>1, <2>2, FindingsStep DEF Disposed
    <2>8. ASSUME NEW g \in Finding \ {f}
           PROVE  /\ findings'[g] = findings[g]
                  /\ EventsOf(g)' = EventsOf(g)
                  /\ \A i \in EventsOf(g)' : events'[i] = events[i]
      BY <2>1, <2>4
    <2>9. TrailAccountsForRow'
      <3> SUFFICES ASSUME NEW g \in Finding, findings'[g] # None
                   PROVE  IF findings'[g].status = "draft"
                          THEN EventsOf(g)' = {}
                          ELSE \E i \in EventsOf(g)' :
                                  /\ \A j \in EventsOf(g)' : j <= i
                                  /\ StatusFrom(i, g)'
                                  /\ ReviewerFrom(i, g)'
        BY DEF TrailAccountsForRow
      <3>1. CASE g = f
        BY <2>2, <2>3, <2>6, <2>7, <3>1
      <3>2. CASE g # f
        BY <2>8, <3>2 DEF TrailInv, TrailAccountsForRow, StatusFrom, ReviewerFrom
      <3> QED BY <3>1, <3>2
    <2>10. \A g \in Finding :
              /\ findings'[g] = None => EventsOf(g)' = {}
              /\ findings'[g] # None /\ findings'[g].status = "draft" =>
                    findings'[g].reviewed_by = None
      BY <2>7, <2>8 DEF TrailInv
    <2>11. ASSUME NEW o \in Worker, requests'[o].step \in {"reviewing", "reselected"}
           PROVE  LoadedExplained(o)'
      <3>1. o # p /\ requests'[o] = requests[o]
        BY <1>1, <2>11 DEF CommitDisposition, TypeInv, TypeOK, Idle
      <3>2. PICK g \in Finding : requests[o].finding = g
        BY <2>11, <3>1, RequestKinds DEF TypeInv, DispositionRequest
      <3>3. LoadedExplained(o)
        BY <2>11, <3>1 DEF TrailInv
      <3>4. CASE g # f
        BY <2>8, <3>1, <3>2, <3>3, <3>4 DEF LoadedExplained
      <3>5. CASE g = f
        <4>1. \A i \in EventsOf(f) : /\ i < last /\ events'[i] = events[i]
                                     /\ i \in EventsOf(f)'
          BY <2>1, <2>4, <2>5, <2>a
        <4>2. ASSUME requests[o].row.status # "draft"
              PROVE  \E j \in EventsOf(f)' :
                        /\ events'[j].after = requests[o].row.status
                        /\ \/ findings'[f].status = events'[j].after
                           \/ \E k \in EventsOf(f)' :
                                 j < k /\ findings'[f].status = events'[k].after
          <5>1. PICK j \in EventsOf(f) :
                    /\ events[j].after = requests[o].row.status
                    /\ \/ findings[f].status = events[j].after
                       \/ \E k \in EventsOf(f) :
                             j < k /\ findings[f].status = events[k].after
            BY <3>2, <3>3, <3>5, <4>2 DEF LoadedExplained
          <5> QED BY <2>2, <2>6, <4>1, <5>1
        <4>3. ASSUME requests[o].row.reviewed_by # None
              PROVE  \E j \in EventsOf(f)' :
                        /\ events'[j].actor = requests[o].row.reviewed_by
                        /\ \/ findings'[f].reviewed_by = events'[j].actor
                           \/ \E k \in EventsOf(f)' :
                                 j < k /\ findings'[f].reviewed_by = events'[k].actor
          <5>1. PICK j \in EventsOf(f) :
                    /\ events[j].actor = requests[o].row.reviewed_by
                    /\ \/ findings[f].reviewed_by = events[j].actor
                       \/ \E k \in EventsOf(f) :
                             j < k /\ findings[f].reviewed_by = events[k].actor
            BY <3>2, <3>3, <3>5, <4>3 DEF LoadedExplained
          <5> QED BY <2>3, <2>6, <4>1, <5>1
        <4> QED BY <3>1, <3>2, <3>5, <4>2, <4>3 DEF LoadedExplained
      <3> QED BY <3>4, <3>5
    <2> QED BY <2>9, <2>10, <2>11 DEF TrailInv
  <1>2. ASSUME UNCHANGED events,
               \A f \in Finding : \/ findings'[f] = findings[f]
                                  \/ \E e \in Engagement : CreateFinding(f, e)
        PROVE  TrailInv'
    <2>1. \A f : EventsOf(f)' = EventsOf(f)
      BY <1>2 DEF EventsOf
    <2>2. ASSUME NEW f \in Finding, NEW e \in Engagement, CreateFinding(f, e)
          PROVE  /\ findings[f] = None
                 /\ findings'[f].status = "draft"
                 /\ findings'[f].reviewed_by = None
      BY <2>2 DEF CreateFinding, TypeInv, TypeOK
    <2>3. TrailAccountsForRow'
      BY <1>2, <2>1, <2>2 DEF TrailInv, TrailAccountsForRow, StatusFrom, ReviewerFrom
    <2>4. \A f \in Finding :
              /\ findings'[f] = None => EventsOf(f)' = {}
              /\ findings'[f] # None /\ findings'[f].status = "draft" =>
                    findings'[f].reviewed_by = None
      BY <1>2, <2>1, <2>2 DEF TrailInv
    <2>5. ASSUME NEW p \in Worker, requests'[p].step \in {"reviewing", "reselected"}
          PROVE  LoadedExplained(p)'
      <3>1. CASE requests'[p] = requests[p]
        <4>1. PICK f \in Finding : requests[p].finding = f
          BY <2>5, <3>1, RequestKinds DEF TypeInv, DispositionRequest
        <4>2. findings[f] # None
          BY <2>5, <3>1, <4>1 DEF TypeInv, NamedRowsExist
        <4>3. findings'[f] = findings[f] /\ EventsOf(f)' = EventsOf(f)
          BY <1>2, <2>1, <2>2, <4>2
        <4> QED BY <1>2, <2>5, <3>1, <4>1, <4>3 DEF TrailInv, LoadedExplained
      <3>2. ASSUME NEW u \in Reviewer, NEW f \in Finding, NEW to \in Disposed,
                   NEW why \in Reason \cup {None}, ReviewFinding(p, u, f, to, why)
            PROVE  LoadedExplained(p)'
        <4>1. requests'[p].row.status = "draft" /\ requests'[p].row.reviewed_by = None
          BY <3>2 DEF ReviewFinding, AwaitsDisposition, TypeInv, TypeOK, TrailInv
        <4> QED BY <4>1 DEF LoadedExplained
      <3>3. CASE ReselectFinding(p)
        <4>0. PICK f \in Finding : requests[p].finding = f
          BY <3>3, RequestKinds DEF ReselectFinding, TypeInv, DispositionRequest
        <4>1. requests[p] \in DispositionRequest /\ findings[f] # None
          BY <3>3, <4>0, RequestKinds DEF ReselectFinding, TypeInv, NamedRowsExist
        <4>2. requests'[p].finding = f /\ requests'[p].row = findings[f]
          BY <3>3, <4>0, <4>1 DEF ReselectFinding, TypeInv, TypeOK, DispositionRequest
        <4>3. /\ findings'[f] = findings[f] /\ events' = events /\ EventsOf(f)' = EventsOf(f)
          BY <1>2, <2>1, <2>2, <4>1
        <4>4. ASSUME findings[f].status # "draft" \/ findings[f].reviewed_by # None
              PROVE  \E i \in EventsOf(f) : StatusFrom(i, f) /\ ReviewerFrom(i, f)
          BY <4>1, <4>4 DEF TrailInv, TrailAccountsForRow
        <4>5. ASSUME findings[f].status # "draft" \/ findings[f].reviewed_by # None
              PROVE  /\ \E j \in EventsOf(f) : events[j].after = findings[f].status
                     /\ \E j \in EventsOf(f) : events[j].actor = findings[f].reviewed_by
          BY <4>4, <4>5 DEF StatusFrom, ReviewerFrom
        <4> QED BY <4>2, <4>3, <4>5 DEF LoadedExplained
      <3> QED BY <2>5, <3>1, <3>2, <3>3, DispositionStep
    <2> QED BY <2>3, <2>4, <2>5 DEF TrailInv
  <1>3. \/ \E p \in Worker : CommitDisposition(p)
        \/ /\ UNCHANGED events
           /\ \A f \in Finding : \/ findings'[f] = findings[f]
                                 \/ \E e \in Engagement : CreateFinding(f, e)
    BY EventsStep, FindingsStep
  <1> QED BY <1>1, <1>2, <1>3

LEMMA TrailInvAlways == Spec => []TrailInv
  <1>1. Init => TrailInv
    BY DEF Init, TrailInv, TrailAccountsForRow, EventsOf, Idle
  <1> QED BY <1>1, TypeInvAlways, TrailInvStep, PTL DEF Spec

\* Every disposition leaves the event that explains the row, whoever else (or the
\* same user) disposes of the finding at the same time: no disposed row without
\* its event, no event of a draft, and status and reviewer are the last event's
\* but where it repeats an earlier one with another event between.
THEOREM TrailAlwaysAccounts == Spec => []TrailAccountsForRow
  <1>1. TrailInv => TrailAccountsForRow
    BY DEF TrailInv
  <1> QED BY <1>1, TrailInvAlways, PTL

(***************************************************************************)
(* The record only grows                                                   *)
(***************************************************************************)
LEMMA EvidenceGrows ==
    ASSUME TypeInv, [Next]_vars
    PROVE  evidence \subseteq evidence'
  BY DEF Next, Continue, vars, CreateFinding, AttachEvidence, ReviewFinding, BeginReport,
         OpenReport, ReselectFinding, CommitDisposition, ReadVersion, ReadCitations,
         InsertReport, RefuseReport, ListFindings, TruncateFile, WriteFile, CommitExport,
         ServeStored, FailRequest

\* The row of a report names a PDF from the commit of an export on, and from
\* nothing else.
LEMMA ExportedStep ==
    ASSUME TypeInv, [Next]_vars, NEW r \in Report, reports[r] # None
    PROVE  /\ reports[r].exported => reports'[r].exported
           /\ \/ reports'[r].exported = reports[r].exported
              \/ \E p \in Worker : CommitExport(p) /\ requests[p].report = r
  <1> USE DEF TypeInv
  <1>1. ASSUME NEW p \in Worker, CommitExport(p)
        PROVE  /\ reports[r].exported => reports'[r].exported
               /\ requests[p].report # r => reports'[r].exported = reports[r].exported
    <2> DEFINE s == requests[p].report
    <2>1. s \in Report /\ reports[s] \in ReportRow
      BY <1>1, RequestKinds, RowTypes DEF CommitExport, ExportRequest, NamedRowsExist
    <2>2. reports' = [reports EXCEPT ![s] = [reports[s] EXCEPT !.exported = TRUE]]
      BY <1>1 DEF CommitExport
    <2> HIDE DEF s
    <2>3. [reports[s] EXCEPT !.exported = TRUE].exported
      BY <2>1 DEF ReportRow
    <2>4. /\ s = r => reports'[r] = [reports[s] EXCEPT !.exported = TRUE]
          /\ s # r => reports'[r] = reports[r]
      BY <2>1, <2>2 DEF TypeOK
    <2> QED BY <2>3, <2>4 DEF s
  <1>2. ASSUME NEW p \in Worker, NEW s \in Report, InsertReport(p, s)
        PROVE  reports'[r] = reports[r]
    BY <1>2 DEF InsertReport, TypeOK
  <1>3. \/ UNCHANGED reports
        \/ \E p \in Worker : CommitExport(p)
        \/ \E p \in Worker, s \in Report : InsertReport(p, s)
    BY DEF Next, Continue, vars, CreateFinding, AttachEvidence, ReviewFinding, BeginReport,
           OpenReport, ReselectFinding, CommitDisposition, ReadVersion, ReadCitations,
           RefuseReport, ListFindings, TruncateFile, WriteFile, ServeStored, FailRequest
  <1> QED BY <1>1, <1>2, <1>3

\* A reviewer's UPDATE leaves a disposed row disposed: it writes a disposition, or
\* keeps the one that is committed.
LEMMA DisposedStays ==
    ASSUME TypeInv, TrailInv, [Next]_vars,
           NEW f \in Finding, findings[f] # None, findings[f].status # "draft"
    PROVE  findings'[f] # None /\ findings'[f].status # "draft"
  <1>1. findings'[f] # None
    BY FindingsStep
  <1>2. ASSUME NEW p \in Worker, CommitDisposition(p), requests[p].finding = f
        PROVE  findings'[f].status # "draft"
    <2>1. PICK last : last = Len(events) + 1
      OBVIOUS
    <2>2. findings'[f].status \in Disposed
      BY <1>2, <2>1, FlushedStatus
    <2> QED BY <2>2 DEF Disposed
  <1>3. ASSUME NEW e \in Engagement, CreateFinding(f, e) PROVE FALSE
    BY <1>3 DEF CreateFinding
  <1> QED BY <1>1, <1>2, <1>3, FindingsStep

\* No step takes anything back: citations, audit events, the content of a report,
\* its PDF, a disposition.
THEOREM RecordAlwaysGrows == Spec => RecordOnlyGrows
  <1>1. TypeInv /\ TypeInv' /\ TrailInv /\ [Next]_vars => [RecordGrows]_vars
    <2> SUFFICES ASSUME TypeInv, TypeInv', TrailInv, [Next]_vars PROVE RecordGrows
      OBVIOUS
    <2>1. SubSeq(events', 1, Len(events)) = events
      <3>1. events \in Seq(AuditEvent)
        BY DEF TypeInv, TypeOK
      <3>2. CASE UNCHANGED events
        BY <3>1, <3>2
      <3>3. ASSUME NEW p \in Worker, events' = Append(events, DispositionEvent(p))
            PROVE  SubSeq(events', 1, Len(events)) = events
        BY <3>1, <3>3
      <3> QED BY <3>2, <3>3, EventsStep
    <2>2. ASSUME NEW r \in Report, reports[r] # None
          PROVE  /\ reports'[r] # None
                 /\ ReportContent(reports'[r]) = ReportContent(reports[r])
                 /\ reports[r].exported => reports'[r].exported
      <3>1. reports[r] \in ReportRow /\ reports'[r] \in ReportRow
        BY <2>2, ReportsStep DEF TypeInv, TypeOK
      <3>2. ReportContent(reports'[r]) = ReportContent(reports[r])
        BY <2>2, <3>1, ReportsStep DEF ReportContent, ReportRow
      <3> QED BY <2>2, <3>2, ReportsStep, ExportedStep
    <2> QED BY <2>1, <2>2, EvidenceGrows, DisposedStays DEF RecordGrows
  <1> QED BY <1>1, TypeInvAlways, TrailInvAlways, PTL DEF Spec, RecordOnlyGrows

(***************************************************************************)
(* Nothing crosses an engagement boundary                                  *)
(***************************************************************************)
\* A request that compiles a report has listed findings of its own engagement
\* only, cites them only, and cites chunks of that engagement only.
CompilesOwn(p) ==
    LET q == requests[p]
    IN  /\ \A f \in q.finding_ids : findings[f].engagement = q.engagement
        /\ q.todo \subseteq q.finding_ids
        /\ \A cited \in q.citations : /\ cited[1] \in q.finding_ids
                                      /\ ChunkEngagement[cited[2]] = q.engagement

BoundaryInv ==
    /\ EngagementBoundary
    /\ \A p \in Worker : requests[p].step \in {"listed", "citing_body"} => CompilesOwn(p)

\* What one SELECT of citations adds to a compiling request, and takes from its
\* list.
LEMMA CitationsRead ==
    ASSUME TypeInv, NEW p \in Worker, ReadCitations(p)
    PROVE  \E f \in requests[p].todo :
              /\ requests'[p].todo = requests[p].todo \ {f}
              /\ requests'[p].citations = requests[p].citations \cup CitationsOf(f)
  <1>1. PICK f \in requests[p].todo :
            requests' = [requests EXCEPT ![p].todo = @ \ {f},
                                         ![p].citations = @ \cup CitationsOf(f)]
    BY DEF ReadCitations
  <1>2. requests[p] \in GenerateRequest \cup ExportRequest
    BY RequestKinds DEF ReadCitations, TypeInv
  <1>3. /\ requests'[p].todo = requests[p].todo \ {f}
        /\ requests'[p].citations = requests[p].citations \cup CitationsOf(f)
    <2> DEFINE cited == CitationsOf(f)
    <2>1. requests' = [requests EXCEPT ![p].todo = @ \ {f}, ![p].citations = @ \cup cited]
      BY <1>1
    <2> HIDE DEF cited
    <2>2. /\ requests'[p].todo = requests[p].todo \ {f}
          /\ requests'[p].citations = requests[p].citations \cup cited
      BY <1>2, <2>1 DEF TypeInv, TypeOK, GenerateRequest, ExportRequest
    <2> QED BY <2>2 DEF cited
  <1> QED BY <1>3

LEMMA BoundaryInvStep == TypeInv /\ TypeInv' /\ BoundaryInv /\ [Next]_vars => BoundaryInv'
  <1> SUFFICES ASSUME TypeInv, TypeInv', BoundaryInv, [Next]_vars PROVE BoundaryInv'
    OBVIOUS
  <1>1. ASSUME NEW x \in evidence'
        PROVE  /\ findings'[x.finding] # None
               /\ x.engagement = findings'[x.finding].engagement
               /\ x.engagement = ChunkEngagement[x.chunk]
    <2>1. x \in EvidenceRow /\ x.finding \in Finding
      BY <1>1 DEF TypeInv, TypeOK, EvidenceRow
    <2>2. /\ findings[x.finding] # None
          /\ x.engagement = findings[x.finding].engagement
          /\ x.engagement = ChunkEngagement[x.chunk]
      <3>1. CASE x \in evidence
        BY <3>1 DEF BoundaryInv, EngagementBoundary
      <3>2. CASE x \notin evidence
        <4>1. PICK f \in Finding, c \in Chunk : AttachEvidence(f, c)
          BY <1>1, <3>2 DEF Next, Continue, vars, CreateFinding, ReviewFinding, BeginReport,
             OpenReport, ReselectFinding, CommitDisposition, ReadVersion, ReadCitations,
             InsertReport, RefuseReport, ListFindings, TruncateFile, WriteFile, CommitExport,
             ServeStored, FailRequest
        <4>2. x = [finding |-> f, engagement |-> findings[f].engagement, chunk |-> c]
          BY <1>1, <3>2, <4>1 DEF AttachEvidence
        <4> QED BY <4>1, <4>2 DEF AttachEvidence, SameEngagement
      <3> QED BY <3>1, <3>2
    <2> QED BY <2>1, <2>2, FindingsStep
  <1>2. ASSUME NEW p \in Worker, requests'[p].step \in {"listed", "citing_body"}
        PROVE  CompilesOwn(p)'
    <2>1. requests'[p] \in GenerateRequest
      BY <1>2 DEF TypeInv, TypeOK, Idle, DispositionRequest, GenerateRequest, ExportRequest
    \* The findings listed before the step are still of their engagement after it.
    <2>2. ASSUME requests[p].step \in {"listed", "citing_body"},
                 requests'[p].engagement = requests[p].engagement,
                 requests'[p].finding_ids = requests[p].finding_ids
          PROVE  /\ CompilesOwn(p)
                 /\ \A f \in requests'[p].finding_ids :
                       findings'[f].engagement = requests'[p].engagement
      <3>1. CompilesOwn(p)
        BY <2>2 DEF BoundaryInv
      <3>2. \A f \in requests[p].finding_ids : f \in Finding /\ findings[f] # None
        BY <2>1, <2>2 DEF GenerateRequest, TypeInv, NamedRowsExist
      <3> QED BY <2>2, <3>1, <3>2, FindingsStep DEF CompilesOwn
    <2>3. CASE requests'[p] = requests[p]
      BY <1>2, <2>2, <2>3 DEF CompilesOwn
    <2>4. CASE \E e \in Engagement : BeginReport(p, e)
      <3>1. PICK e \in Engagement : BeginReport(p, e)
        BY <2>4
      <3>2. /\ requests'[p].engagement = e
            /\ requests'[p].finding_ids = ConfirmedIn(e)
            /\ requests'[p].todo = ConfirmedIn(e)
            /\ requests'[p].citations = {}
            /\ UNCHANGED findings
        BY <3>1 DEF BeginReport, TypeInv, TypeOK
      <3> QED BY <3>2 DEF CompilesOwn, ConfirmedIn
    <2>5. CASE /\ ReadVersion(p)
               /\ requests'[p].engagement = requests[p].engagement
               /\ requests'[p].finding_ids = requests[p].finding_ids
               /\ requests'[p].todo = requests[p].todo
               /\ requests'[p].citations = requests[p].citations
      BY <2>2, <2>5 DEF CompilesOwn, ReadVersion
    <2>6. CASE /\ ReadCitations(p)
               /\ requests'[p].step = requests[p].step
               /\ requests'[p].engagement = requests[p].engagement
               /\ requests'[p].finding_ids = requests[p].finding_ids
      <3>1. PICK f \in requests[p].todo :
                /\ requests'[p].todo = requests[p].todo \ {f}
                /\ requests'[p].citations = requests[p].citations \cup CitationsOf(f)
        BY <2>6, CitationsRead
      <3>2. CompilesOwn(p) /\ f \in requests[p].finding_ids
        BY <1>2, <2>2, <2>6, <3>1 DEF CompilesOwn
      <3>3. findings[f].engagement = requests[p].engagement
        BY <3>2 DEF CompilesOwn
      <3>4. \A cited \in CitationsOf(f) :
                cited[1] = f /\ ChunkEngagement[cited[2]] = requests[p].engagement
        BY <3>3 DEF CitationsOf, BoundaryInv, EngagementBoundary
      <3> QED BY <1>2, <2>2, <2>6, <3>1, <3>2, <3>4 DEF CompilesOwn
    <2> QED BY <1>2, <2>3, <2>4, <2>5, <2>6, GenerateStep
  <1>3. ASSUME NEW r \in Report, reports'[r] # None, NEW cited \in reports'[r].body
        PROVE  /\ cited[1] \in reports'[r].finding_ids
               /\ ChunkEngagement[cited[2]] = reports'[r].engagement
    <2>1. CASE reports[r] # None
      BY <1>3, <2>1, ReportsStep DEF BoundaryInv, EngagementBoundary
    <2>2. ASSUME NEW p \in Worker, InsertReport(p, r)
          PROVE  /\ cited[1] \in reports'[r].finding_ids
                 /\ ChunkEngagement[cited[2]] = reports'[r].engagement
      <3>1. /\ reports'[r].body = requests[p].citations
            /\ reports'[r].finding_ids = requests[p].finding_ids
            /\ reports'[r].engagement = requests[p].engagement
            /\ requests[p].step = "citing_body"
        BY <2>2 DEF InsertReport, TypeInv, TypeOK
      <3> QED BY <1>3, <3>1 DEF BoundaryInv, CompilesOwn
    <2> QED BY <1>3, <2>1, <2>2, ReportsStep
  <1> QED BY <1>1, <1>2, <1>3 DEF BoundaryInv, EngagementBoundary

LEMMA BoundaryInvAlways == Spec => []BoundaryInv
  <1>1. Init => BoundaryInv
    BY DEF Init, BoundaryInv, EngagementBoundary, Idle
  <1> QED BY <1>1, TypeInvAlways, BoundaryInvStep, PTL DEF Spec

\* No evidence row and no citation of a report ties a finding to a chunk of another
\* engagement, although every caller may read and write every engagement.
THEOREM BoundaryAlwaysHolds == Spec => []EngagementBoundary
  <1>1. BoundaryInv => EngagementBoundary
    BY DEF BoundaryInv
  <1> QED BY <1>1, BoundaryInvAlways, PTL

(***************************************************************************)
(* Exports are complete                                                    *)
(***************************************************************************)
\* A request of the PDF export is left alone, or takes a step of its own.
LEMMA ExportStep ==
    ASSUME TypeInv, [Next]_vars, NEW p \in Worker,
           requests'[p].step \in {"opened", "citing_pdf", "truncated", "stored", "serving"}
    PROVE  \/ requests'[p] = requests[p]
           \/ \E r \in Report : OpenReport(p, r)
           \/ ListFindings(p)
           \/ /\ ReadCitations(p)
              /\ requests'[p].step = requests[p].step
              /\ requests'[p].report = requests[p].report
              /\ requests'[p].shown = requests[p].shown
           \/ TruncateFile(p)
           \/ WriteFile(p)
  <1> USE DEF TypeInv
  <1>1. ~ \E u \in Reviewer, f \in Finding, to \in Disposed, why \in Reason \cup {None} :
             ReviewFinding(p, u, f, to, why)
    BY DEF ReviewFinding, TypeOK
  <1>2. ~ \E e \in Engagement : BeginReport(p, e)
    BY DEF BeginReport, TypeOK
  <1>3. ~ ReselectFinding(p)
    <2> SUFFICES ASSUME ReselectFinding(p) PROVE requests'[p].step = "reselected"
      OBVIOUS
    <2>1. requests[p] \in DispositionRequest
      BY RequestKinds DEF ReselectFinding
    <2> QED BY <2>1 DEF ReselectFinding, TypeOK, DispositionRequest
  <1>4. ~ ReadVersion(p)
    <2> SUFFICES ASSUME ReadVersion(p) PROVE requests'[p].step = "citing_body"
      OBVIOUS
    <2>1. requests[p] \in GenerateRequest
      BY RequestKinds DEF ReadVersion
    <2> QED BY <2>1 DEF ReadVersion, TypeOK, GenerateRequest
  <1>5. requests'[p] # Idle
    BY DEF Idle
  <1>6. ASSUME ReadCitations(p)
        PROVE  /\ requests'[p].step = requests[p].step
               /\ requests'[p].report = requests[p].report
               /\ requests'[p].shown = requests[p].shown
    <2>1. PICK f \in requests[p].todo :
              requests' = [requests EXCEPT ![p].todo = @ \ {f},
                                           ![p].citations = @ \cup CitationsOf(f)]
      BY <1>6 DEF ReadCitations
    <2> DEFINE cited == CitationsOf(f)
    <2>2. requests' = [requests EXCEPT ![p].todo = @ \ {f}, ![p].citations = @ \cup cited]
      BY <2>1
    <2> HIDE DEF cited
    <2>3. requests[p] \in GenerateRequest \cup ExportRequest
      BY <1>6, RequestKinds DEF ReadCitations
    <2> QED BY <2>2, <2>3 DEF TypeOK, GenerateRequest, ExportRequest
  <1> QED BY <1>1, <1>2, <1>3, <1>4, <1>5, <1>6, RequestsStep

\* What the file operations do to the request that performs them.
LEMMA FileRequestStep ==
    ASSUME TypeInv, NEW p \in Worker, TruncateFile(p) \/ WriteFile(p)
    PROVE  /\ requests[p] \in ExportRequest
           /\ requests'[p].report = requests[p].report
           /\ requests'[p].shown = requests[p].shown
           /\ requests'[p].todo = requests[p].todo
           /\ requests'[p].citations = requests[p].citations
           /\ requests'[p].step = IF TruncateFile(p) THEN "truncated" ELSE "stored"
  <1>1. requests[p] \in ExportRequest
    BY RequestKinds DEF TruncateFile, WriteFile, TypeInv
  <1>2. CASE TruncateFile(p)
    BY <1>1, <1>2 DEF TruncateFile, TypeInv, TypeOK, ExportRequest
  <1>3. CASE ~ TruncateFile(p) /\ WriteFile(p)
    BY <1>1, <1>3 DEF WriteFile, TypeInv, TypeOK, ExportRequest
  <1> QED BY <1>2, <1>3

\* Only an export touches the file of its report, and it never unlinks it.
LEMMA FilesStep ==
    ASSUME TypeInv, [Next]_vars, NEW r \in Report
    PROVE  \/ files'[r] = files[r]
           \/ \E p \in Worker : /\ TruncateFile(p) /\ requests[p].report = r
                                /\ files'[r] = Empty
           \/ \E p \in Worker : /\ WriteFile(p) /\ requests[p].report = r
                                /\ files'[r] \in {Rendered(p), Torn}
  <1>1. ASSUME NEW p \in Worker, TruncateFile(p), files'[r] # files[r]
        PROVE  requests[p].report = r /\ files'[r] = Empty
    BY <1>1 DEF TruncateFile, TypeInv, TypeOK
  <1>2. ASSUME NEW p \in Worker, WriteFile(p), files'[r] # files[r]
        PROVE  requests[p].report = r /\ files'[r] \in {Rendered(p), Torn}
    BY <1>2 DEF WriteFile, TypeInv, TypeOK
  <1>3. \/ UNCHANGED files
        \/ \E p \in Worker : TruncateFile(p)
        \/ \E p \in Worker : WriteFile(p)
    BY DEF Next, Continue, vars, CreateFinding, AttachEvidence, ReviewFinding, BeginReport,
           OpenReport, ReselectFinding, CommitDisposition, ReadVersion, ReadCitations,
           InsertReport, RefuseReport, ListFindings, CommitExport, ServeStored, FailRequest
  <1> QED BY <1>1, <1>2, <1>3

\* A caller is handed the bytes its request rendered, or the stored file.
LEMMA ServedStep ==
    ASSUME TypeInv, [Next]_vars, NEW r \in Report, NEW pdf \in served'[r]
    PROVE  \/ pdf \in served[r]
           \/ \E p \in Worker : /\ CommitExport(p) /\ requests[p].report = r
                                /\ pdf = Rendered(p)
           \/ \E p \in Worker : /\ ServeStored(p) /\ requests[p].report = r
                                /\ pdf = files[r]
  <1>1. ASSUME NEW p \in Worker, CommitExport(p), pdf \notin served[r]
        PROVE  requests[p].report = r /\ pdf = Rendered(p)
    BY <1>1 DEF CommitExport, TypeInv, TypeOK
  <1>2. ASSUME NEW p \in Worker, ServeStored(p), pdf \notin served[r]
        PROVE  requests[p].report = r /\ pdf = files[r]
    BY <1>2 DEF ServeStored, TypeInv, TypeOK
  <1>3. \/ UNCHANGED served
        \/ \E p \in Worker : CommitExport(p)
        \/ \E p \in Worker : ServeStored(p)
    BY DEF Next, Continue, vars, CreateFinding, AttachEvidence, ReviewFinding, BeginReport,
           OpenReport, ReselectFinding, CommitDisposition, ReadVersion, ReadCitations,
           InsertReport, RefuseReport, ListFindings, TruncateFile, WriteFile, FailRequest
  <1> QED BY <1>1, <1>2, <1>3

\* The document is whole for the report and the evidence of the next state.
WholeNext(pdf, r) ==
    /\ {row[1] : row \in pdf.shown} = reports'[r].finding_ids
    /\ reports'[r].body \subseteq pdf.citations
    /\ \A cited \in pdf.citations :
          cited[1] \in reports'[r].finding_ids /\ cited \in CitationsOf(cited[1])'

Evidenced(cited) == cited \in CitationsOf(cited[1])

\* What an export has read of its report, and what it still has to read.
ExportReads(p) ==
    LET q == requests[p]
    IN  /\ q.step \in {"opened", "citing_pdf", "truncated", "stored"} =>
              \A cited \in q.citations :
                 cited[1] \in reports[q.report].finding_ids /\ Evidenced(cited)
        /\ q.step = "citing_pdf" => q.todo \subseteq reports[q.report].finding_ids
        /\ q.step \in {"citing_pdf", "truncated", "stored"} =>
              /\ {row[1] : row \in q.shown} = reports[q.report].finding_ids
              /\ \A cited \in reports[q.report].body :
                    cited \in q.citations \/ cited[1] \in q.todo
        /\ q.step \in {"truncated", "stored"} => q.todo = {} /\ files[q.report] # None
        /\ q.step = "serving" => reports[q.report].exported

ExportInv ==
    /\ ExportsComplete
    /\ \A p \in Worker :
          /\ ExportReads(p)
          /\ requests[p].step \in {"listed", "citing_body"} =>
                \A cited \in requests[p].citations : Evidenced(cited)
    /\ \A r \in Report :
          /\ reports[r] = None => files[r] = None /\ served[r] = {}
          /\ reports[r] # None => \A cited \in reports[r].body : Evidenced(cited)
          /\ files[r] \in Pdf => Whole(files[r], r)

LEMMA EvidencedStays ==
    ASSUME TypeInv, [Next]_vars, NEW cited, Evidenced(cited)
    PROVE  Evidenced(cited)'
  BY EvidenceGrows DEF Evidenced, CitationsOf

LEMMA WholeStays ==
    ASSUME TypeInv, [Next]_vars, NEW r \in Report, reports[r] # None, NEW pdf,
           Whole(pdf, r)
    PROVE  WholeNext(pdf, r)
  <1>1. /\ reports'[r].finding_ids = reports[r].finding_ids
        /\ reports'[r].body = reports[r].body
    BY ReportsStep
  <1>2. \A cited \in pdf.citations : cited \in CitationsOf(cited[1])'
    BY EvidencedStays DEF Whole, Evidenced
  <1> QED BY <1>1, <1>2 DEF Whole, WholeNext

\* The document an export renders, or has left in the file, is whole.
LEMMA RenderedWhole ==
    ASSUME TypeInv, ExportInv, NEW p \in Worker,
           requests[p].step \in {"truncated", "stored"}
    PROVE  /\ requests[p].report \in Report /\ reports[requests[p].report] # None
           /\ Rendered(p) \in Pdf
           /\ Whole(Rendered(p), requests[p].report)
           /\ files[requests[p].report] # None
  <1>1. requests[p] \in ExportRequest
    BY RequestKinds DEF TypeInv
  <1>2. Rendered(p) \in Pdf
    BY <1>1 DEF Rendered, Pdf, ExportRequest
  <1>3. requests[p].report \in Report /\ reports[requests[p].report] # None
    BY <1>1 DEF ExportRequest, TypeInv, NamedRowsExist
  <1>4. ExportReads(p)
    BY DEF ExportInv
  <1>5. /\ {row[1] : row \in requests[p].shown} = reports[requests[p].report].finding_ids
        /\ reports[requests[p].report].body \subseteq requests[p].citations
        /\ files[requests[p].report] # None
        /\ \A cited \in requests[p].citations :
              /\ cited[1] \in reports[requests[p].report].finding_ids
              /\ cited \in CitationsOf(cited[1])
    BY <1>4 DEF ExportReads, Evidenced
  <1> QED BY <1>2, <1>3, <1>5 DEF Whole, Rendered

LEMMA ExportReadsStep ==
    ASSUME TypeInv, TypeInv', BoundaryInv, ExportInv, [Next]_vars, NEW p \in Worker
    PROVE  ExportReads(p)'
  <1> DEFINE r == requests'[p].report
  <1>1. SUFFICES ASSUME requests'[p].step \in
                           {"opened", "citing_pdf", "truncated", "stored", "serving"}
                 PROVE  ExportReads(p)'
    BY DEF ExportReads
  <1>2. requests'[p] \in ExportRequest /\ r \in Report
    <2>1. requests'[p] \in {Idle} \cup DispositionRequest \cup GenerateRequest \cup ExportRequest
      BY DEF TypeInv, TypeOK
    <2>2. requests'[p] \in ExportRequest
      BY <1>1, <2>1 DEF Idle, DispositionRequest, GenerateRequest
    <2> QED BY <2>2 DEF ExportRequest
  \* A file once there is not unlinked, and the report keeps its content.
  <1>3. files[r] # None => files'[r] # None
    <2>1. \A o \in Worker : Rendered(o) # None \/ ~ WriteFile(o)
      BY RequestKinds, NoneAssumption
      DEF TypeInv, WriteFile, Rendered, ExportRequest, Pdf, FileContent
    <2>2. Empty # None /\ Torn # None
      BY NoneAssumption DEF FileContent
    <2> QED BY <1>2, <2>1, <2>2, FilesStep
  <1>4. reports[r] # None =>
           /\ reports'[r].finding_ids = reports[r].finding_ids
           /\ reports'[r].body = reports[r].body
           /\ reports[r].exported => reports'[r].exported
    BY <1>2, ReportsStep, ExportedStep
  <1>5. CASE requests'[p] = requests[p]
    <2>1. ExportReads(p) /\ reports[r] # None
      BY <1>1, <1>5 DEF ExportInv, TypeInv, NamedRowsExist
    <2>2. \A cited : Evidenced(cited) => Evidenced(cited)'
      BY EvidencedStays
    <2> QED BY <1>3, <1>4, <1>5, <2>1, <2>2 DEF ExportReads
  <1>6. CASE \E s \in Report : OpenReport(p, s)
    <2>1. /\ reports[r] # None
          /\ requests'[p].step = IF reports[r].exported THEN "serving" ELSE "opened"
          /\ requests'[p].citations = {}
      BY <1>6 DEF OpenReport, TypeInv, TypeOK
    <2> QED BY <1>4, <2>1 DEF ExportReads
  <1>7. CASE ListFindings(p)
    <2> DEFINE ids == reports[requests[p].report].finding_ids
               shown == {<<f, findings[f].status>> : f \in ids}
    <2>1. requests[p] \in ExportRequest /\ reports[requests[p].report] # None
      BY <1>7, RequestKinds DEF ListFindings, TypeInv, NamedRowsExist
    <2>2. requests' = [requests EXCEPT ![p].step = "citing_pdf", ![p].shown = shown,
                                       ![p].todo = ids]
      BY <1>7 DEF ListFindings
    <2>3. {row[1] : row \in shown} = ids
      <3>1. \A f : <<f, findings[f].status>>[1] = f
        OBVIOUS
      <3>2. ASSUME NEW f \in ids PROVE f \in {row[1] : row \in shown}
        <4>1. <<f, findings[f].status>> \in shown
          OBVIOUS
        <4> QED BY <3>1, <4>1
      <3>3. ASSUME NEW row \in shown PROVE row[1] \in ids
        BY <3>1
      <3> QED BY <3>2, <3>3
    <2> HIDE DEF ids, shown
    <2>4. /\ r = requests[p].report
          /\ requests'[p].step = "citing_pdf"
          /\ requests'[p].shown = shown
          /\ requests'[p].todo = ids
          /\ requests'[p].citations = requests[p].citations
      BY <2>1, <2>2 DEF TypeInv, TypeOK, ExportRequest
    <2>5. \A cited \in reports[r].body : cited[1] \in reports[r].finding_ids
      BY <1>2, <2>1, <2>4 DEF BoundaryInv, EngagementBoundary
    <2>6. ASSUME NEW cited \in requests'[p].citations
          PROVE  cited[1] \in ids /\ Evidenced(cited)'
      BY <1>7, <2>4, <2>6, EvidencedStays DEF ListFindings, ExportInv, ExportReads, ids
    <2> QED BY <1>4, <2>1, <2>3, <2>4, <2>5, <2>6 DEF ExportReads, ids
  <1>8. CASE /\ ReadCitations(p)
             /\ requests'[p].step = requests[p].step
             /\ r = requests[p].report
             /\ requests'[p].shown = requests[p].shown
    <2>1. PICK f \in requests[p].todo :
              /\ requests'[p].todo = requests[p].todo \ {f}
              /\ requests'[p].citations = requests[p].citations \cup CitationsOf(f)
      BY <1>8, CitationsRead
    <2>2. requests[p].step = "citing_pdf" /\ reports[r] # None
      BY <1>1, <1>8 DEF ReadCitations, TypeInv, NamedRowsExist
    <2>3. /\ {row[1] : row \in requests[p].shown} = reports[r].finding_ids
          /\ \A cited \in reports[r].body :
                cited \in requests[p].citations \/ cited[1] \in requests[p].todo
      BY <1>8, <2>2 DEF ExportInv, ExportReads
    <2>4. \A cited \in reports[r].body : cited \in CitationsOf(cited[1])
      BY <1>2, <2>2 DEF ExportInv, Evidenced
    <2>5. \A cited \in reports'[r].body :
              cited \in requests'[p].citations \/ cited[1] \in requests'[p].todo
      BY <1>4, <2>1, <2>2, <2>3, <2>4
    <2>6. /\ requests[p].todo \subseteq reports[r].finding_ids
          /\ \A cited \in requests[p].citations :
                cited[1] \in reports[r].finding_ids /\ Evidenced(cited)
      BY <1>8, <2>2 DEF ExportInv, ExportReads
    <2>7. ASSUME NEW cited \in requests'[p].citations
          PROVE  cited[1] \in reports[r].finding_ids /\ Evidenced(cited)'
      <3>1. cited \in CitationsOf(f) => cited[1] = f /\ Evidenced(cited)
        BY DEF CitationsOf, Evidenced
      <3> QED BY <2>1, <2>6, <3>1, EvidencedStays
    <2> QED BY <1>4, <1>8, <2>1, <2>2, <2>3, <2>5, <2>6, <2>7 DEF ExportReads
  <1>9. CASE TruncateFile(p) \/ WriteFile(p)
    <2>1. /\ requests[p] \in ExportRequest
          /\ r = requests[p].report
          /\ requests'[p].shown = requests[p].shown
          /\ requests'[p].todo = requests[p].todo
          /\ requests'[p].citations = requests[p].citations
          /\ requests'[p].step \in {"truncated", "stored"}
      BY <1>9, FileRequestStep
    <2>2. /\ reports[r] # None
          /\ requests[p].step \in {"citing_pdf", "truncated"}
          /\ requests[p].todo = {}
          /\ ExportReads(p)
      BY <1>9, <2>1 DEF TruncateFile, WriteFile, TypeInv, NamedRowsExist, ExportInv,
         ExportReads
    <2>3. files'[r] # None
      <3>1. CASE TruncateFile(p)
        BY <1>2, <2>1, <3>1, NoneAssumption DEF TruncateFile, TypeInv, TypeOK, FileContent
      <3>2. CASE WriteFile(p)
        BY <1>3, <2>1, <2>2, <3>2 DEF WriteFile, ExportReads
      <3> QED BY <1>9, <3>1, <3>2
    <2>4. ASSUME NEW cited \in requests'[p].citations
          PROVE  cited[1] \in reports[r].finding_ids /\ Evidenced(cited)'
      BY <2>1, <2>2, <2>4, EvidencedStays DEF ExportReads
    <2> QED BY <1>4, <2>1, <2>2, <2>3, <2>4 DEF ExportReads
  <1> QED BY <1>1, <1>5, <1>6, <1>7, <1>8, <1>9, ExportStep

LEMMA ExportInvStep ==
    TypeInv /\ TypeInv' /\ BoundaryInv /\ ExportInv /\ [Next]_vars => ExportInv'
  <1> SUFFICES ASSUME TypeInv, TypeInv', BoundaryInv, ExportInv, [Next]_vars
               PROVE  ExportInv'
    OBVIOUS
  <1>1. ASSUME NEW p \in Worker, requests'[p].step \in {"listed", "citing_body"},
               NEW cited \in requests'[p].citations
        PROVE  Evidenced(cited)'
    <2>1. CASE /\ requests[p].step \in {"listed", "citing_body"}
               /\ requests'[p].citations = requests[p].citations
      BY <1>1, <2>1, EvidencedStays DEF ExportInv
    <2>2. CASE \E e \in Engagement : BeginReport(p, e)
      BY <1>1, <2>2 DEF BeginReport, TypeInv, TypeOK
    <2>3. CASE ReadCitations(p) /\ requests'[p].step = requests[p].step
      <3>1. PICK f \in requests[p].todo :
                requests'[p].citations = requests[p].citations \cup CitationsOf(f)
        BY <2>3, CitationsRead
      <3>2. cited \in CitationsOf(f) => Evidenced(cited)
        BY DEF Evidenced, CitationsOf
      <3> QED BY <1>1, <2>3, <3>1, <3>2, EvidencedStays DEF ExportInv
    <2> QED BY <1>1, <2>1, <2>2, <2>3, GenerateStep DEF ReadVersion
  <1>2. ASSUME NEW r \in Report, reports'[r] # None, NEW cited \in reports'[r].body
        PROVE  Evidenced(cited)'
    <2>1. CASE reports[r] # None
      BY <1>2, <2>1, ReportsStep, EvidencedStays DEF ExportInv
    <2>2. ASSUME NEW p \in Worker, InsertReport(p, r) PROVE Evidenced(cited)'
      <3>1. reports'[r].body = requests[p].citations /\ requests[p].step = "citing_body"
        BY <2>2 DEF InsertReport, TypeInv, TypeOK
      <3> QED BY <1>2, <3>1, EvidencedStays DEF ExportInv
    <2> QED BY <1>2, <2>1, <2>2, ReportsStep
  \* Files and downloads are of reports that exist.
  <1>3. ASSUME NEW r \in Report, reports'[r] = None
        PROVE  files'[r] = None /\ served'[r] = {}
    <2>1. reports[r] = None /\ files[r] = None /\ served[r] = {}
      BY <1>3, ReportsStep DEF ExportInv
    <2>2. ASSUME NEW p \in Worker, requests[p].report = r,
                 TruncateFile(p) \/ WriteFile(p) \/ CommitExport(p) \/ ServeStored(p)
          PROVE  FALSE
      BY <2>1, <2>2 DEF TruncateFile, WriteFile, CommitExport, ServeStored, TypeInv,
         NamedRowsExist
    <2>3. files'[r] = None
      BY <2>1, <2>2, FilesStep
    <2>4. \A pdf : pdf \notin served'[r]
      BY <2>1, <2>2, ServedStep
    <2> QED BY <2>3, <2>4
  <1>4. ASSUME NEW r \in Report, files'[r] \in Pdf
        PROVE  Whole(files[r], r)'
    <2>0. WholeNext(files'[r], r)
      <3>1. CASE files'[r] = files[r]
        <4>1. files[r] # None
          BY <1>4, <3>1, NoneAssumption DEF FileContent
        <4>2. reports[r] # None /\ Whole(files[r], r)
          BY <1>4, <3>1, <4>1 DEF ExportInv
        <4>3. WholeNext(files[r], r)
          BY <4>2, WholeStays
        <4> QED BY <3>1, <4>3
      <3>2. ASSUME NEW p \in Worker, WriteFile(p), requests[p].report = r,
                   files'[r] = Rendered(p)
            PROVE  WholeNext(files'[r], r)
        <4>1. reports[r] # None /\ Whole(Rendered(p), r)
          BY <3>2, RenderedWhole DEF WriteFile
        <4> QED BY <3>2, <4>1, WholeStays
      <3> QED BY <1>4, <3>1, <3>2, FilesStep, FileAssumption
    <2> QED BY <2>0 DEF Whole, WholeNext
  <1>5. ASSUME NEW r \in Report, NEW pdf \in served'[r] \ {Empty, Torn, None}
        PROVE  WholeNext(pdf, r)
    <2>1. reports[r] # None /\ Whole(pdf, r)
      <3>1. CASE pdf \in served[r]
        BY <1>5, <3>1 DEF ExportInv, ExportsComplete, Untorn
      <3>2. ASSUME NEW p \in Worker, CommitExport(p), requests[p].report = r, pdf = Rendered(p)
            PROVE  reports[r] # None /\ Whole(pdf, r)
        BY <3>2, RenderedWhole DEF CommitExport
      <3>3. ASSUME NEW p \in Worker, ServeStored(p), requests[p].report = r, pdf = files[r]
            PROVE  reports[r] # None /\ Whole(pdf, r)
        <4>1. reports[r] # None
          BY <3>3 DEF ServeStored, TypeInv, NamedRowsExist
        <4>2. files[r] \in Pdf
          BY <1>5, <3>3 DEF TypeInv, TypeOK, FileContent
        <4> QED BY <3>3, <4>1, <4>2 DEF ExportInv
      <3> QED BY <1>5, <3>1, <3>2, <3>3, ServedStep
    <2> QED BY <2>1, WholeStays
  <1>6. ASSUME NEW r \in Report, reports'[r] # None, reports'[r].exported
        PROVE  files'[r] # None
    <2>1. files[r] # None
      <3>1. CASE reports[r] = None
        <4>1. PICK p \in Worker : InsertReport(p, r)
          BY <1>6, <3>1, ReportsStep
        <4>2. ~ reports'[r].exported
          BY <4>1 DEF InsertReport, TypeInv, TypeOK
        <4> QED BY <1>6, <4>2
      <3>2. CASE reports[r] # None /\ reports'[r].exported = reports[r].exported
        BY <1>6, <3>2 DEF ExportInv, ExportsComplete
      <3>3. ASSUME NEW p \in Worker, CommitExport(p), requests[p].report = r
            PROVE  files[r] # None
        BY <3>3, RenderedWhole DEF CommitExport
      <3> QED BY <3>1, <3>2, <3>3, ExportedStep
    <2>2. \A p \in Worker : WriteFile(p) => Rendered(p) # None
      BY RenderedWhole, NoneAssumption DEF WriteFile, FileContent
    <2> QED BY <2>1, <2>2, FilesStep, NoneAssumption DEF FileContent
  <1>7. ASSUME NEW r \in Report PROVE None \notin served'[r]
    <2>1. None \notin served[r]
      BY DEF ExportInv, ExportsComplete
    <2>2. ASSUME NEW p \in Worker, CommitExport(p) PROVE Rendered(p) # None
      BY <2>2, RenderedWhole, NoneAssumption DEF CommitExport, FileContent
    <2>3. ASSUME NEW p \in Worker, ServeStored(p), requests[p].report = r
          PROVE  files[r] # None
      <3>1. reports[r] # None /\ reports[r].exported
        BY <2>3 DEF ServeStored, TypeInv, NamedRowsExist, ExportInv, ExportReads
      <3> QED BY <3>1 DEF ExportInv, ExportsComplete
    <2> QED BY <2>1, <2>2, <2>3, ServedStep
  <1>8. ExportsComplete'
    BY <1>5, <1>6, <1>7 DEF ExportsComplete, Untorn, Whole, WholeNext
  <1> QED BY <1>1, <1>2, <1>3, <1>4, <1>8, ExportReadsStep DEF ExportInv

\* Every untorn PDF a caller is handed shows the findings of its report, every
\* citation of its body and none that is not evidence of these findings; a report
\* whose row names a PDF has the file.  For any number of exports of a report at
\* once, failing anywhere, whatever is attached or disposed of meanwhile.
THEOREM ExportsAlwaysComplete == Spec => []ExportsComplete
  <1>1. Init => ExportInv
    BY NoneAssumption, FileAssumption
    DEF Init, ExportInv, ExportsComplete, Untorn, ExportReads, Idle, FileContent
  <1>2. ExportInv => ExportsComplete
    BY DEF ExportInv
  <1> QED BY <1>1, <1>2, TypeInvAlways, BoundaryInvAlways, ExportInvStep, PTL DEF Spec
============================================================================
