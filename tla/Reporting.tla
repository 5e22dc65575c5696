----------------------------- MODULE Reporting -----------------------------
(***************************************************************************)
(* The reporting context of apps/api: findings, the citations attached to  *)
(* them, the human disposition of a finding, report generation and the     *)
(* lazy PDF export.                                                        *)
(*                                                                         *)
(* Every HTTP request is one database transaction at PostgreSQL's default  *)
(* isolation, READ COMMITTED: each SELECT sees what is committed when it   *)
(* runs, writes become visible at commit, and any exception rolls back.    *)
(* A request that reads something another request may change is held by a  *)
(* worker, one step per SELECT or file operation.  The last statements of  *)
(* a request (flush, audit insert, commit) are one step: the row lock the  *)
(* UPDATE takes is kept until the commit and no request takes a second     *)
(* one.  Requests whose reads are of immutable facts only are one step.    *)
(*                                                                         *)
(* Abstracted: titles, severities, control ids, wording and layout; a      *)
(* rendered document is the set of findings and citations it shows.  Every *)
(* caller is a member of every engagement, the case that the engagement    *)
(* check of attach_evidence exists for.                                    *)
(***************************************************************************)
EXTENDS Naturals, Sequences

CONSTANTS
    Engagement,       \* engagements
    Finding,          \* identifiers findings may be given
    Chunk,            \* ingested document chunks
    ChunkEngagement,  \* the engagement each chunk belongs to
    Report,           \* identifiers reports may be given
    Downloaded,       \* the reports callers ask the PDF of
    Worker,           \* requests served at the same time
    Reviewer,         \* the users who dispose of findings
    Reason,           \* non-blank disposition reasons
    None,             \* SQL NULL, a missing row or a missing file
    Empty,            \* a file open(.., "wb") has truncated
    Torn              \* a file holding bytes of two documents

VARIABLES
    findings,   \* reporting.findings
    evidence,   \* reporting.finding_evidence
    reports,    \* reporting.reports with reporting.report_findings
    files,      \* the PDF stored for a report
    events,     \* audit_trail.events, in commit order
    requests,   \* what each worker is doing
    served      \* history: the PDFs returned to callers

vars == <<findings, evidence, reports, files, events, requests, served>>

(***************************************************************************)
(* Rows and documents                                                      *)
(***************************************************************************)
Disposed == {"confirmed", "rejected"}

FindingStatus == {"draft"} \cup Disposed

FindingRow ==
    [engagement : Engagement, status : FindingStatus,
     reviewed_by : Reviewer \cup {None}, disposition_reason : Reason \cup {None}]

EvidenceRow == [finding : Finding, engagement : Engagement, chunk : Chunk]

\* A citation as a document shows it: which finding, which chunk.
Citation == Finding \X Chunk

ReportRow ==
    [engagement : Engagement, version : Nat \ {0}, finding_ids : SUBSET Finding,
     body : SUBSET Citation, exported : BOOLEAN]

\* An exported document: each finding with the status printed under it.
Pdf == [shown : SUBSET (Finding \X FindingStatus), citations : SUBSET Citation]

FileContent == Pdf \cup {Empty, Torn}

AuditEvent ==
    [finding : Finding, actor : Reviewer, before : FindingStatus,
     after : Disposed, reason : Reason \cup {None}]

Idle == [step |-> "idle"]

DispositionRequest ==
    [step : {"reviewing", "reselected"}, finding : Finding, by : Reviewer,
     to : Disposed, reason : Reason \cup {None}, before : FindingStatus,
     row : FindingRow]

GenerateRequest ==
    [step : {"listed", "citing_body"}, engagement : Engagement,
     finding_ids : SUBSET Finding, version : Nat,
     todo : SUBSET Finding, citations : SUBSET Citation]

ExportRequest ==
    [step : {"opened", "citing_pdf", "truncated", "stored", "serving"},
     report : Report, shown : SUBSET (Finding \X FindingStatus),
     todo : SUBSET Finding, citations : SUBSET Citation]

ASSUME ChunkAssumption == ChunkEngagement \in [Chunk -> Engagement]

ASSUME DownloadedAssumption == Downloaded \subseteq Report

ASSUME NoneAssumption ==
    None \notin FindingRow \cup ReportRow \cup FileContent \cup Reviewer \cup Reason

ASSUME FileAssumption == Empty \notin Pdf /\ Torn \notin Pdf

Init ==
    /\ findings = [f \in Finding |-> None]
    /\ evidence = {}
    /\ reports = [r \in Report |-> None]
    /\ files = [r \in Report |-> None]
    /\ events = <<>>
    /\ requests = [p \in Worker |-> Idle]
    /\ served = [r \in Report |-> {}]

----------------------------------------------------------------------------
(***************************************************************************)
(* Findings and evidence                                                   *)
(***************************************************************************)
\* Mutated form: the status is left to a default the table does not have.
CreateFindingUnset(f, e) ==
    /\ findings[f] = None
    /\ findings' = [findings EXCEPT ![f] =
          [engagement |-> e, status |-> None,
           reviewed_by |-> None, disposition_reason |-> None]]
    /\ UNCHANGED <<evidence, reports, files, events, requests, served>>

\* POST .../findings: always a draft; one INSERT.
CreateFinding(f, e) ==
    /\ findings[f] = None
    /\ findings' = [findings EXCEPT ![f] =
          [engagement |-> e, status |-> "draft",
           reviewed_by |-> None, disposition_reason |-> None]]
    /\ UNCHANGED <<evidence, reports, files, events, requests, served>>

\* Mutated form: the guard is missing.
AnyEngagement(f, c) == TRUE

\* The cross-engagement guard of attach_evidence.
SameEngagement(f, c) == ChunkEngagement[c] = findings[f].engagement

\* POST .../findings/{f}/evidence.  Whatever the finding's status: a disposed
\* finding still accepts citations.
AttachEvidence(f, c) ==
    /\ findings[f] # None
    /\ SameEngagement(f, c)
    /\ evidence' = evidence \cup
          {[finding |-> f, engagement |-> findings[f].engagement, chunk |-> c]}
    /\ UNCHANGED <<findings, reports, files, events, requests, served>>

CitationsOf(f) == {<<f, row.chunk>> : row \in {x \in evidence : x.finding = f}}

----------------------------------------------------------------------------
(***************************************************************************)
(* Disposition: confirm_finding and reject_finding                         *)
(***************************************************************************)
\* A rejection needs a non-blank reason, a confirmation carries none.
ReasonFor(to) == IF to = "rejected" THEN Reason ELSE {None}

AwaitsDisposition(row) == row.status = "draft"

\* The first SELECT and the 404/409 checks on what it returned.  Nothing keeps
\* one user from having several requests under way.
ReviewFinding(p, u, f, to, why) ==
    /\ requests[p] = Idle
    /\ why \in ReasonFor(to)
    /\ findings[f] # None
    /\ AwaitsDisposition(findings[f])
    /\ requests' = [requests EXCEPT ![p] =
          [step |-> "reviewing", finding |-> f, by |-> u, to |-> to, reason |-> why,
           before |-> findings[f].status, row |-> findings[f]]]
    /\ UNCHANGED <<findings, evidence, reports, files, events, served>>

\* update_disposition loads the row again and does not look at its status.
ReselectFinding(p) ==
    /\ requests[p].step = "reviewing"
    /\ requests' = [requests EXCEPT ![p].step = "reselected",
                                    ![p].row = findings[requests[p].finding]]
    /\ UNCHANGED <<findings, evidence, reports, files, events, served>>

\* The UPDATE names only the columns whose new value differs from the loaded
\* one; a column it leaves out keeps what is committed by then.
Flushed(loaded, new, current) == IF new = loaded THEN current ELSE new

\* Mutated form: an UPDATE guarded by status = 'draft' whose row count nobody
\* looks at.
DisposedRowIfDraft(p) ==
    LET q == requests[p]
    IN  IF AwaitsDisposition(findings[q.finding])
        THEN [findings[q.finding] EXCEPT !.status = q.to, !.reviewed_by = q.by,
                                         !.disposition_reason = q.reason]
        ELSE findings[q.finding]

DisposedRow(p) ==
    LET q == requests[p]
    IN  [findings[q.finding] EXCEPT
            !.status = Flushed(q.row.status, q.to, @),
            !.reviewed_by = Flushed(q.row.reviewed_by, q.by, @),
            !.disposition_reason = Flushed(q.row.disposition_reason, q.reason, @)]

DispositionEvent(p) ==
    LET q == requests[p]
    IN  [finding |-> q.finding, actor |-> q.by, before |-> q.before,
         after |-> q.to, reason |-> q.reason]

\* Mutated form: the trail keeps the latest event of a finding only.
LatestEventOnly(p) ==
    LET OfOthers(event) == event.finding # requests[p].finding
    IN  Append(SelectSeq(events, OfOthers), DispositionEvent(p))

RecordedEvents(p) == Append(events, DispositionEvent(p))

\* Flush, audit insert and commit, in one transaction.
CommitDisposition(p) ==
    /\ requests[p].step = "reselected"
    /\ findings' = [findings EXCEPT ![requests[p].finding] = DisposedRow(p)]
    /\ events' = RecordedEvents(p)
    /\ requests' = [requests EXCEPT ![p] = Idle]
    /\ UNCHANGED <<evidence, reports, files, served>>

----------------------------------------------------------------------------
(***************************************************************************)
(* Report generation                                                       *)
(***************************************************************************)
\* Mutated form: everything a reviewer has not rejected.
NotRejectedIn(e) ==
    {f \in Finding : /\ findings[f] # None
                     /\ findings[f].engagement = e
                     /\ findings[f].status # "rejected"}

ConfirmedIn(e) ==
    {f \in Finding : /\ findings[f] # None
                     /\ findings[f].engagement = e
                     /\ findings[f].status = "confirmed"}

BeginReport(p, e) ==
    /\ requests[p] = Idle
    /\ requests' = [requests EXCEPT ![p] =
          [step |-> "listed", engagement |-> e, finding_ids |-> ConfirmedIn(e),
           version |-> 0, todo |-> ConfirmedIn(e), citations |-> {}]]
    /\ UNCHANGED <<findings, evidence, reports, files, events, served>>

ReportsOf(e) == {r \in Report : reports[r] # None /\ reports[r].engagement = e}

VersionsOf(e) == {reports[r].version : r \in ReportsOf(e)}

IsNextVersion(e, v) ==
    \E top \in VersionsOf(e) \cup {0} :
        /\ \A w \in VersionsOf(e) : w <= top
        /\ v = top + 1

\* COALESCE(MAX(version), 0) + 1 over the committed reports.
ReadVersion(p) ==
    /\ requests[p].step = "listed"
    /\ \E v \in {1} \cup {w + 1 : w \in VersionsOf(requests[p].engagement)} :
          /\ IsNextVersion(requests[p].engagement, v)
          /\ requests' = [requests EXCEPT ![p].step = "citing_body",
                                          ![p].version = v]
    /\ UNCHANGED <<findings, evidence, reports, files, events, served>>

\* One SELECT per listed finding, for the Markdown body and for the PDF.
ReadCitations(p) ==
    /\ requests[p].step \in {"citing_body", "citing_pdf"}
    /\ \E f \in requests[p].todo :
          requests' = [requests EXCEPT ![p].todo = @ \ {f},
                                       ![p].citations = @ \cup CitationsOf(f)]
    /\ UNCHANGED <<findings, evidence, reports, files, events, served>>

\* Mutated form: the constraint is not there.
NeverTaken(p) == FALSE

\* The unique constraint on (engagement_id, version).
VersionTaken(p) == requests[p].version \in VersionsOf(requests[p].engagement)

InsertReport(p, r) ==
    /\ requests[p].step = "citing_body"
    /\ requests[p].todo = {}
    /\ ~ VersionTaken(p)
    /\ reports[r] = None
    /\ reports' = [reports EXCEPT ![r] =
          [engagement |-> requests[p].engagement, version |-> requests[p].version,
           finding_ids |-> requests[p].finding_ids, body |-> requests[p].citations,
           exported |-> FALSE]]
    /\ requests' = [requests EXCEPT ![p] = Idle]
    /\ UNCHANGED <<findings, evidence, files, events, served>>

\* IntegrityError: the request ends in a 500 and leaves nothing.
RefuseReport(p) ==
    /\ requests[p].step = "citing_body"
    /\ requests[p].todo = {}
    /\ VersionTaken(p)
    /\ requests' = [requests EXCEPT ![p] = Idle]
    /\ UNCHANGED <<findings, evidence, reports, files, events, served>>

----------------------------------------------------------------------------
(***************************************************************************)
(* PDF export: GET .../reports/{r}/pdf                                     *)
(***************************************************************************)
OpenReport(p, r) ==
    /\ requests[p] = Idle
    /\ r \in Downloaded
    /\ reports[r] # None
    /\ requests' = [requests EXCEPT ![p] =
          [step |-> IF reports[r].exported THEN "serving" ELSE "opened",
           report |-> r, shown |-> {}, todo |-> {}, citations |-> {}]]
    /\ UNCHANGED <<findings, evidence, reports, files, events, served>>

\* Mutated form: the export lists the findings confirmed at that time.
ListConfirmedFindings(p) ==
    LET report == reports[requests[p].report]
        ids == report.finding_ids \cap ConfirmedIn(report.engagement)
    IN  /\ requests[p].step = "opened"
        /\ requests' = [requests EXCEPT
              ![p].step = "citing_pdf",
              ![p].shown = {<<f, findings[f].status>> : f \in ids},
              ![p].todo = ids]
        /\ UNCHANGED <<findings, evidence, reports, files, events, served>>

\* list_for_engagement, filtered to the findings the report lists: their rows
\* as they are now.
ListFindings(p) ==
    LET report == reports[requests[p].report]
    IN  /\ requests[p].step = "opened"
        /\ requests' = [requests EXCEPT
              ![p].step = "citing_pdf",
              ![p].shown = {<<f, findings[f].status>> : f \in report.finding_ids},
              ![p].todo = report.finding_ids]
        /\ UNCHANGED <<findings, evidence, reports, files, events, served>>

Rendered(p) == [shown |-> requests[p].shown, citations |-> requests[p].citations]

\* Path.write_bytes opens the report's one path for writing ...
TruncateFile(p) ==
    /\ requests[p].step = "citing_pdf"
    /\ requests[p].todo = {}
    /\ files' = [files EXCEPT ![requests[p].report] = Empty]
    /\ requests' = [requests EXCEPT ![p].step = "truncated"]
    /\ UNCHANGED <<findings, evidence, reports, events, served>>

\* ... and writes from offset zero: over another writer's bytes the longer
\* document leaves its tail.
WriteFile(p) ==
    LET r == requests[p].report
    IN  /\ requests[p].step = "truncated"
        /\ \E content \in {Rendered(p)} \cup (IF files[r] = Empty THEN {} ELSE {Torn}) :
              files' = [files EXCEPT ![r] = content]
        /\ requests' = [requests EXCEPT ![p].step = "stored"]
        /\ UNCHANGED <<findings, evidence, reports, events, served>>

\* set_exported_uri, unconditional, and the commit; the caller is given the
\* bytes this request rendered.
CommitExport(p) ==
    LET r == requests[p].report
    IN  /\ requests[p].step = "stored"
        /\ reports' = [reports EXCEPT ![r].exported = TRUE]
        /\ served' = [served EXCEPT ![r] = @ \cup {Rendered(p)}]
        /\ requests' = [requests EXCEPT ![p] = Idle]
        /\ UNCHANGED <<findings, evidence, files, events>>

ServeStored(p) ==
    LET r == requests[p].report
    IN  /\ requests[p].step = "serving"
        /\ served' = [served EXCEPT ![r] = @ \cup {files[r]}]
        /\ requests' = [requests EXCEPT ![p] = Idle]
        /\ UNCHANGED <<findings, evidence, reports, files, events>>

----------------------------------------------------------------------------
\* An exception, a dropped connection or the end of the process: the
\* transaction rolls back; what was done to the file stays.
FailRequest(p) ==
    /\ requests[p] # Idle
    /\ requests' = [requests EXCEPT ![p] = Idle]
    /\ UNCHANGED <<findings, evidence, reports, files, events, served>>

\* What a worker does once its request has begun.
Continue(p) ==
    \/ ReselectFinding(p)
    \/ CommitDisposition(p)
    \/ ReadVersion(p)
    \/ ReadCitations(p)
    \/ \E r \in Report : InsertReport(p, r)
    \/ RefuseReport(p)
    \/ ListFindings(p)
    \/ TruncateFile(p)
    \/ WriteFile(p)
    \/ CommitExport(p)
    \/ ServeStored(p)

Next ==
    \/ \E f \in Finding, e \in Engagement : CreateFinding(f, e)
    \/ \E f \in Finding, c \in Chunk : AttachEvidence(f, c)
    \/ \E p \in Worker, u \in Reviewer, f \in Finding, to \in Disposed,
          why \in Reason \cup {None} : ReviewFinding(p, u, f, to, why)
    \/ \E p \in Worker, e \in Engagement : BeginReport(p, e)
    \/ \E p \in Worker, r \in Report : OpenReport(p, r)
    \/ \E p \in Worker : Continue(p)
    \/ \E p \in Worker : FailRequest(p)

Spec == Init /\ [][Next]_vars

----------------------------------------------------------------------------
(***************************************************************************)
(* Properties                                                              *)
(***************************************************************************)
\* Every variable has its type: rows, documents and requests are well formed.
TypeOK ==
    /\ findings \in [Finding -> FindingRow \cup {None}]
    /\ evidence \subseteq EvidenceRow
    /\ reports \in [Report -> ReportRow \cup {None}]
    /\ files \in [Report -> FileContent \cup {None}]
    /\ events \in Seq(AuditEvent)
    /\ requests \in [Worker -> {Idle} \cup DispositionRequest
                                 \cup GenerateRequest \cup ExportRequest]
    /\ served \in [Report -> SUBSET (FileContent \cup {None})]

SignedOff(f) ==
    \E i \in DOMAIN events : events[i].finding = f /\ events[i].after = "confirmed"

\* A report compiled by generate_report lists only findings that some reviewer
\* confirmed, and the audit trail holds that confirmation: no unconfirmed
\* draft reaches a report, whatever other requests commit meanwhile.
OnlyConfirmedReported ==
    \A r \in Report : reports[r] # None =>
        \A f \in reports[r].finding_ids : SignedOff(f)

\* The reports of an engagement are numbered without repetition and without a
\* gap, although next_version_for_engagement and the INSERT are apart.
VersionsNumbered ==
    \A r \in Report : reports[r] # None =>
        /\ \A s \in ReportsOf(reports[r].engagement) :
              reports[s].version = reports[r].version => s = r
        /\ \/ reports[r].version = 1
           \/ reports[r].version - 1 \in VersionsOf(reports[r].engagement)

EventsOf(f) == {i \in DOMAIN events : events[i].finding = f}

\* The committed status is the one event i decided, or event i repeated an
\* earlier decision and its flush kept that of an event between the two.
StatusFrom(i, f) ==
    \/ findings[f].status = events[i].after
    \/ \E j, k \in EventsOf(f) :
          /\ j < k /\ k < i
          /\ events[j].after = events[i].after
          /\ findings[f].status = events[k].after

ReviewerFrom(i, f) ==
    \/ findings[f].reviewed_by = events[i].actor
    \/ \E j, k \in EventsOf(f) :
          /\ j < k /\ k < i
          /\ events[j].actor = events[i].actor
          /\ findings[f].reviewed_by = events[k].actor

\* The audit trail accounts for a finding's row: a draft has no disposition
\* event; a disposed row has the status and the reviewer of the last event, each
\* with one exception, that the last event repeats the status (the reviewer) of
\* an earlier one and another event lies between.  An event without its update,
\* an update without its event, or an update that the row has overtaken would
\* break it.
TrailAccountsForRow ==
    \A f \in Finding : findings[f] # None =>
        IF findings[f].status = "draft"
        THEN EventsOf(f) = {}
        ELSE \E i \in EventsOf(f) :
                /\ \A j \in EventsOf(f) : j <= i
                /\ StatusFrom(i, f)
                /\ ReviewerFrom(i, f)

\* Nothing crosses an engagement boundary: an evidence row ties a finding to a
\* chunk of its engagement, and a report cites only chunks of its own.
EngagementBoundary ==
    /\ \A x \in evidence :
          /\ findings[x.finding] # None
          /\ x.engagement = findings[x.finding].engagement
          /\ x.engagement = ChunkEngagement[x.chunk]
    /\ \A r \in Report : reports[r] # None =>
          \A cited \in reports[r].body :
              /\ cited[1] \in reports[r].finding_ids
              /\ ChunkEngagement[cited[2]] = reports[r].engagement

\* A document with the findings of report r, every citation the Markdown body
\* has, and none that is not evidence of these findings.
Whole(pdf, r) ==
    /\ {row[1] : row \in pdf.shown} = reports[r].finding_ids
    /\ reports[r].body \subseteq pdf.citations
    /\ \A cited \in pdf.citations :
          cited[1] \in reports[r].finding_ids /\ cited \in CitationsOf(cited[1])

\* The untorn documents callers of a report were given.
Untorn(r) == served[r] \ {Empty, Torn, None}

\* Whenever exports fail, overlap or read afresh what others change: an untorn
\* PDF handed to a caller has all of the report and nothing that is not evidence
\* of its findings; a report whose row names a PDF has that file, and no caller
\* is sent to a missing one.  It may have more than the body: PdfMirrorsReport.
ExportsComplete ==
    \A r \in Report :
        /\ \A pdf \in Untorn(r) : Whole(pdf, r)
        /\ reports[r] # None /\ reports[r].exported => files[r] # None
        /\ None \notin served[r]

\* What render_report_pdf says of itself, that it mirrors the Markdown's content
\* exactly: an untorn PDF has the citations of the body generate_report took,
\* and every finding is still confirmed in it.
PdfMirrorsReport ==
    \A r \in Report : \A pdf \in Untorn(r) :
        /\ pdf.citations = reports[r].body
        /\ pdf.shown = reports[r].finding_ids \X {"confirmed"}

ReportContent(row) == [row EXCEPT !.exported = TRUE]

\* The record only grows: citations and audit events are never lost, a report's
\* content never changes, its PDF is never unlinked, and no finding returns to
\* draft.
RecordGrows ==
    /\ evidence \subseteq evidence'
    /\ SubSeq(events', 1, Len(events)) = events
    /\ \A r \in Report : reports[r] # None =>
          /\ reports'[r] # None
          /\ ReportContent(reports'[r]) = ReportContent(reports[r])
          /\ reports[r].exported => reports'[r].exported
    /\ \A f \in Finding : findings[f] # None /\ findings[f].status # "draft" =>
          findings'[f] # None /\ findings'[f].status # "draft"

RecordOnlyGrows == [][RecordGrows]_vars
============================================================================
