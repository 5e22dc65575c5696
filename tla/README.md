# AuditMind AI: specifications

TLA+ models of the AuditMind AI backend, the TLC runs that check them on small
instances, and TLAPS proofs of what holds at every size. The code is under
`src/apps/api` (a FastAPI modular monolith over PostgreSQL, Neo4j and a local
file store) and `src/services/agent-orchestrator` (a FastAPI service that runs a
LangGraph agent graph and calls the first one over HTTP).

## 1. Inventory

| Component | State it keeps | Operations | Hard behaviour |
|---|---|---|---|
| reporting (`apps/api`) | findings, evidence, reports, one PDF file per report | create finding, attach evidence, confirm, reject, generate report, download PDF | check-then-write without locks, version numbers, a file outside the transaction, re-reads long after a snapshot |
| investigations (`apps/api`) | cases, items | create, add item, remove item, close | the open check is on an earlier read; removal by item id alone |
| risk (`apps/api`) | transactions, anomalies, risk scores | import, scan, dispose, score | a scan's filter against concurrent dispositions and scans; ties in the sort order; refreshed scores |
| ingestion (`apps/api`) | documents, chunks, blobs | upload, list, chunk the text | deduplication by hash under concurrency; parsing failure; a blob outside the transaction; word windows and overlaps at their limits |
| retrieval (`apps/api`) | chunk embeddings | embed, two searches | overlapping embeds of one document |
| audit trail (`apps/api`) | events, append only | record, list | must agree with the rows it explains |
| knowledge graph (`apps/api`) | vendor candidates (PostgreSQL), vendor graph (Neo4j) | resolve, list, network | two stores and one transaction; requests that wait for each other's rows |
| identity (`apps/api`) | users, credentials, memberships; the identity set on a database connection; the cached signing keys of Entra ID | register, log in, find the signing key, provision on first sight, check membership | two unique indexes against concurrent first requests; a pooled connection that carries an identity; overlapping key refreshes |
| agent graph (orchestrator) | the channels and the checkpoint of a run's thread | start, every node, resume | re-plan loop, parallel specialists, failing calls, repeated and overlapping resumption, failures after the graph has returned |
| runs and interrupts (orchestrator) | runs, interrupts, chat messages (PostgreSQL), checkpoints (process memory) | start, resolve by endpoint, resolve from the chat | two stores with different lifetimes; overlapping resolutions; restarts |
| copilot (orchestrator) | chat messages | answer, direct action, investigate, resolve | an action committed elsewhere while the turn rolls back, or after it gave up |
| evaluation, model validation, combination | none | read-only statistics | numeric edges |
| web frontend, settings, telemetry, infrastructure | none of their own | | |

How they interact: every request to `apps/api` or to the orchestrator is one
database transaction (`shared/database.py`: commit when the handler returns,
roll back on any exception). Reporting, investigations and risk write an audit
event in the transaction of the change it explains. Reporting reads
ingestion's chunks to check the engagement of a citation; investigations reads
findings, anomalies and transactions. The orchestrator posts draft findings and
their citations to reporting, one committed transaction per HTTP call, and
starts runs either from its own endpoint or from a chat turn. Ingestion chunks
what it parses in the same transaction. The knowledge graph reads risk's
transactions. Every request but sign-up and login goes through identity first,
in its own transaction.

What makes each correct: reporting reports only confirmed findings, with
contiguous versions, within one engagement, and with a trail that explains every
row; a case holds its engagement's subjects once and can account for what it
held; a risk flag is supported by data and nothing found is dropped; a document
is unique, whole and embedded once, and its chunks hold every word of it; the
graph follows the bridge tables and a known vendor name is not minted again; an
account is one user with one credential, and an identity ends with its
transaction; a run reaches a person only screened, publishes only on approval,
stops, and is listed for review exactly while it waits; a chat turn records what
became of the run it started and of the success it reports.

## 2. How the models are built

PostgreSQL runs at READ COMMITTED, so a transaction is not a step. A **worker**
holds a request; each SELECT that reads something another request may change is
a step of its own, and the statements from the first write to the commit are one
step. That last merge is sound because the row lock taken by the first UPDATE or
INSERT is kept to the commit, nothing uncommitted is visible, and a lock that is waited for
is either released by a commit or, where two upserts of risk scores lock the same
rows in opposite orders, ends in PostgreSQL's deadlock error, which is `Fail`. A request whose reads
are of immutable facts only is one step. Every request can fail at any step
(`Fail`): an exception, a dropped connection, a killed process; the database
part is undone, files and checkpoints are not. `FastAPI` of the pinned version
commits before it sends the response, so an answered request is a committed one.

An ORM detail matters and is modelled: the second SELECT of an update builds a
new object, and the UPDATE names only the columns whose new value differs from
that object's (`Flushed`). Overlapping updates may therefore leave a row that
mixes them. A request carries its user, and nothing keeps one user from having
several requests under way: a double submit is two of them.

What is abstracted everywhere: text, titles, amounts, timestamps. Callers are
members of every engagement, except in `Identity`, which models the membership
check itself: elsewhere the role checks read one row and refuse, and the
cross-engagement guards of the code matter only for a caller who belongs to
both.

## 3. Modules

| Module | Models | Correspondence |
|---|---|---|
| `Reporting` | `apps/api` reporting with its audit events and files | `requests[p].step` is the line a handler has reached: `reviewing` and `reselected` are the two SELECTs of a disposition, `listed` and `citing_body` those of `generate_report`, `opened` ... `stored` those of the PDF export. `TruncateFile` and `WriteFile` are the two halves of `Path.write_bytes`; a write over another writer's bytes may leave a `Torn` file |
| `AgentGraph` | one run of the LangGraph graph, its resumptions, and its draft finding in `apps/api` | `next` is LangGraph's pointer of pending nodes in the run's last checkpoint, one action per node, `RouteAfter...` the routers; `call` is the `ainvoke` of `start_run` in progress. Each resumption (`resumed`) runs on a copy of the checkpoint it read and writes its own checkpoints, so that two may overlap. `guardrail_out` is several steps, one per HTTP call, each of which can fail before or after the server commits. `StartRaises` and `ResumeRaises` are an exception anywhere, after `ainvoke` has returned included: in `set_status`, in opening the interrupt, in the commit |
| `ReviewGate` | what the human-in-the-loop gate promises | abstract specification: work, pause, decide, a report falls due with an approval, publish. The reviewers of one pause are not kept apart: a decision may replace another |
| `AgentRuns` | rows of runs, interrupts and messages against in-memory checkpoints | `threads` is the `InMemorySaver`; `Restart` empties it. The graph up to the interrupt is one of three outcomes here, each shown possible by `AgentGraph` |
| `Copilot` (extends `AgentRuns`) | chat turns over the runs and over `apps/api` | a turn is routed to an answer, an action or a run, whatever the router's model says. `EndCall` is `apps/api` ending the request a turn sent it, before or after the turn stopped waiting. A run started by a turn is `BeginRun` of `AgentRuns` in the turn's transaction; a turn rolled back with it is `undone` and keeps the run's identifier, so that the run's absence can be stated |
| `Investigations` | cases, items, the close, their audit events | |
| `Risk` | import, the rule engine, the scan filter, disposition, the rule-engine signal of a score | `Orders` is every order the SELECT may return; `Duplicates` is the pass over it |
| `Chunking` | `chunk_text` as operators | a text is the sequence of its blocks' word counts; a chunk is the sequence of the words it holds, each named by its place, so that a lost, repeated or reordered word shows. `ReadBlocks[i]` is the state of the loop after `i` blocks, `AddParagraph` the body of the loop, `SplitLargeParagraph` the windows of a long paragraph, `MergeTrailing` the merge at the end |
| `Ingestion` (extends `Chunking`) | upload and deduplication, parsing failure, chunking, embedding | a content is a model value; `Parsed` is what a parser makes of it under a claimed type: a text or an error |
| `KnowledgeGraph` | `resolve_vendors` over two stores | the loop is the steps `grouping` (look a name up, or mint), `recording` (the INSERT) and `merging` (the MERGE). Inserted rows are in the request (`rows`) until it commits; a MERGE is visible at once and never undone. `WaitsFor` is an INSERT that waits for another transaction's row, `Deadlocked` a circle of them, which PostgreSQL ends with an error |
| `SigningKeys` | `JWKSClient` of `shared/auth.py` and the provider's document | a refresh is three steps: the provider answers (`AnswerKeys`), the answer is stored (`StoreKeys`), the key is looked up (`FindKey`) |
| `Identity` (extends `SigningKeys`) | sign-up, login, and what precedes every other request | one step per SELECT and INSERT. `Connect` takes a connection of the pool, `EndTransaction` gives it back and clears the transaction-local identity. `BeginCall` follows the token's check, that is a found key. `Hashed` is what bcrypt's hash tells of a password, the first 72 bytes |
| `MC...` | definitions of the small instances, and `Bounds`, the union of instances a run keeps to | |
| `ReportingProofs`, `AgentGraphProofs`, `AgentRunsProofs`, `InvestigationsProofs`, `RiskProofs`, `IngestionProofs`, `KnowledgeGraphProofs`, `IdentityProofs` | theorems about the module of that name; `AgentRunsProofs` also about `Copilot`, `IngestionProofs` about `Chunking`, `IdentityProofs` also about `SigningKeys` | |

`AgentGraph` relies on LangGraph for three facts, taken as external: the
checkpoint is written at the end of each superstep, a failed node leaves the
thread at the last finished superstep, and resuming a finished thread runs
nothing.

Operators commented *Mutated form* are plausible faulty versions of the
definition that follows them; each is used to show that a property would notice.
They are no part of any specification.

## 4. Runs

| Run | Instance | Shows |
|---|---|---|
| `reporting` | three instances: `Exports`, 2 requests of one user on 1 finding and 1 report of either of 2 engagements, with downloads; `Reports`, 2 requests of one user on 2 findings and 2 reports of one engagement; `Dispositions`, 3 requests of 2 users that dispose of one finding (486,032 states in all) | `EngagementBoundary`, `ExportsComplete` (a linked file is there, and an untorn PDF handed out has all of its report), `OnlyConfirmedReported`, `VersionsNumbered`, `TrailAccountsForRow`, `RecordOnlyGrows` |
| `agent_graph` | 3 specialists, 1 passage, 2 re-plans (the default of `settings.py`), 2 resumptions that may overlap where one specialist and at most one re-plan led to the review (216,693 states) | screening before review, the draft matches what is reviewed, the status tells the path, the run stops, and the graph implements `ReviewGate` |
| `agent_runs` | 1 run, 2 reviewers, 1 chat turn (281,190 states) | a run awaits review exactly while its interrupt is open, is resumable unless a restart lost it, never moves back; a turn records what became of its run and of the success it reports, and one rolled back leaves no run; every request on a run ends |
| `investigation_cases` | two instances: `TwoRequests`, 2 requests of one user with one conclusion on 2 cases and 2 items; `ThreeCloses`, 3 closes of one case by 2 users with 2 conclusions (96,989 states) | contents of a case, and an audit trail that accounts for its items and its close |
| `risk_scan` | 2 payments of one invoice on one day, two thresholds, a deviating set, 2 anomalies; two instances: `TwoRequests`, 2 requests of one user, up to two dispositions; `ThreeDispositions`, 3 dispositions of one anomaly by 2 users (430,304 states) | supported flags, no finding dropped, the audit trail |
| `ingestion_uploads` | 2 engagements, 2 files, 2 claimed types, 4 documents, 3 workers; every text of at most 4 blocks of 0 to 9 words, chunks of 5 words, 3 at least, 40% overlap | one whole document per file and engagement, embedded once, its chunks holding every word in order within the size policy |
| `knowledge_graph` | 4 transactions: 2 spellings of one vendor, another vendor, a blank name; 2 requests | `ResolutionReachesGraph`, `KnownNamesReused`, and every resolution ends |
| `identity` | 3 requests, 2 connections, 1 engagement, one address in two spellings, a blank one; two instances: `KeysRotate`, 2 signing keys and 1 Entra identity, no passwords; `OneKey`, 1 key, 2 Entra identities and 3 passwords of which two long ones have one hash (491,007 states) | whole and unique accounts, identities that end with their transaction, logins that find their account, valid keys refused only while refreshes overlap |
| `reporting_mirror` | 1 finding, 1 chunk, 1 report, 2 workers | **violated**: a citation attached before the first download is in the PDF and not in the Markdown |
| `agent_graph_rejected` | as `agent_graph` | **violated**: a rejection after an approval is recorded as a run without a report, and there is one |
| `agent_runs_durable` | 1 run, 2 reviewers | **violated**: the decision is undone when the resumption raises |
| `kg_self_healing` | as `knowledge_graph` | **violated**: the resolution after a failed one leaves a transaction paid to two vendors |

The violated properties are sentences of the code's own comments, quoted in
`PROJECT.json`. `PdfMirrorsReport` needs a request between the snapshot and the
first download; `DecisionDurable` needs an exception after the first write,
which the unit tests' in-memory repositories do not roll back;
`RejectedRunHasNoReport` needs one run resolved twice, one request after the
other; `SelfHealed` needs a failure between a MERGE and the commit.

Bounds. Two requests are the smallest number that overlap, and each worker may
begin any number of them; two of everything that is compared (engagements,
findings, versions, items, files) is the smallest number that can be confused.
What a row and its trail say of each other needs three overlapping updates: one
whose flush leaves a column out, one that it agrees with, and one in between; and
two users, of whom one submits twice. The full product of both is too large, so a
run of those models keeps to a union of small instances: the constraint `Bounds`
of its `MC` module, whose disjuncts are named in the table. Every behaviour that
stays within the union is explored. The instances leave out what cannot matter to
their question: a disposition reads and writes the finding's row and the trail
only; an export reads rows and citations and writes files no report request looks
at; the closes of a case read no item; the key lookups of `SigningKeys` share no
state with the tables of `Identity`, and an identity of Entra ID has no password.

In `AgentGraph` two resumptions overlap only on the runs one specialist and at
most one re-plan lead to: what a resumption reads and writes (the pointer, the
decision, the report) does not depend on which drafts there are. One resumption
is checked on every run.

In `KnowledgeGraph` and `Identity` a request is made once, so that a minted id
or a session is told apart by its request: two resolutions overlap or follow
each other; three requests are the smallest number with which one account can be
made, used and raced for. Identifiers are bounded sets: a run stops creating when
they are used up, which is why most runs do not check deadlock. The trail grows
with dispositions, closes and removals, of which there are at most as many as
requests that began while the row was open, or as items; the instances that are
about something else stop after two dispositions or closes.
Runs of the orchestrator share no state, so one run identifier suffices, and
turns share only the runs, so one turn beside the two endpoints does. The
checkpoint of `AgentGraph` is bounded by the re-plan budget. The chunk sizes are
scaled down so that four blocks cross every limit: a block below, at and above
the target, an overlap of two words, a remainder below the minimum. Symmetry is
used only in runs without liveness properties.

Fairness. Only a request that has begun is assumed to go on: `StartStep` and
each resumption's `ResumeStep` of `AgentGraph`, `CommitTurnRun` or `ContinueRun`
of each reviewer in `Copilot`'s `ChatSpec`, `Continue` of each resolution in
`KnowledgeGraph`'s `FairSpec`. The event loop resumes a coroutine whose awaited call has returned, and every call
returns or times out (`httpx` has a timeout; a lock wait ends with the other
transaction, and a circle of waits ends in PostgreSQL's deadlock error, the only
failure that is part of `Continue`). No fairness is assumed of the start of
requests, of other failures or of restarts. `RunStops` and the two
`EveryRequestAnswered` need nothing else.

## 5. Proofs

Every safety invariant and action property of the passing runs is proved for all
values of the constants. Each proof is the same argument: initial states satisfy
an inductive invariant, each action preserves it (one lemma per action or group
of actions, one step per conjunct it can disturb), the invariant implies the
property, and the temporal step is closed by PTL. The inductive invariants were
model-checked on the runs' instances before they were proved. The assumptions are
the named `ASSUME`s of the modules, which TLC evaluates on every run. No constant
set is assumed finite (the specialists are among the four the code has); the
records of one import are.

`ReportingProofs`, for any findings, chunks, engagements, reports, workers and
reasons:

| Theorem | Inductive invariant |
|---|---|
| `TypeCorrect`: `TypeOK` | `TypeInv`: `TypeOK` with `NamedRowsExist`: a request in progress names a finding or a report that exists, without which an update of a row could be an update of `None` |
| `VersionsAlwaysNumbered`: `VersionsNumbered` | `VersionInv`: with the fact that a version a request carries is one above some committed version or is 1: versions are never removed, so the fact survives the other requests, and the unique constraint does the rest |
| `OnlyConfirmedAlwaysReported`: `OnlyConfirmedReported` | `SignedInv`: with the facts that a finding whose row is confirmed is signed off, and so is each finding on a request's list: events are never removed |
| `TrailAlwaysAccounts`: `TrailAccountsForRow` | `TrailInv`: with the facts that a finding not yet created or still a draft has no event and no reviewer, and `LoadedExplained`: the status and the reviewer a disposition in progress has loaded are those of an event, and what the row has now is of that event or of a later one. So a column its UPDATE leaves out has the value of an event after the one it repeats, whoever the users are |
| `RecordAlwaysGrows`: `RecordOnlyGrows` | of each step, from `TypeInv` and `TrailInv` |
| `BoundaryAlwaysHolds`: `EngagementBoundary` | `BoundaryInv`: with `CompilesOwn`: what a request compiling a report has listed and cited is of its engagement, though it was read before the report exists |
| `ExportsAlwaysComplete`: `ExportsComplete` | `ExportInv`: an export has listed what the report lists, each citation of the body is read or still to read (evidence is never removed), what it has read is evidence of these findings, and a whole file on disk has all of its report whoever wrote it |

`AgentGraphProofs`, for any of the specialists, any passages, evidence and
re-plan budget, and any number of resumptions. `GraphInv` is `TypeOK` with five
parts:

| Theorem | Part of `GraphInv` |
|---|---|
| `TypeCorrect`: `TypeOK` | `Standing`: which nodes may be pending under which call; a node is not reached with the budget spent |
| `ReviewAlwaysScreened`: `ReviewFollowsScreening` | `Screening`: an injection stops the run where it is found, and what passes the judge is made of the drafts of the last plan |
| `DraftAlwaysMatches`: `DraftMatchesReview` | `Posting`: while citations are posted, what is posted and what is left make up the evidence |
| `StatusAlwaysTellsPath`: `StatusTellsPath` | `Stopping`: a call that has reached its end was reviewed or says why not, and a run that awaits its first decision stands before `hitl`, whatever failed after the graph returned |
| `GraphImplementsGate`: `ImplementsReviewGate` | `Reviews`: a report, or a report due, is held with an approval, by the thread and by the copy of each resumption; a copy that has left `hitl` has a decision, and so has the thread. Under `GraphInv` each action is a step of `ReviewGate` or leaves what it sees alone |
| `EveryStepAlwaysCounts`: `EveryStepCounts` | `Standing` and `Posting` place the run on the graph (`Distances`), and each action of `start_run` lowers `StepsLeft`, ends the call or posts a citation. `StepsLeft` is the plans left, times more than a round has steps, plus the steps to the next plan |

`AgentRunsProofs`, for any runs, reviewers and turns:

| Theorem | Inductive invariant |
|---|---|
| `TypeCorrect`, `InterruptsAlwaysMatch`: `AwaitingIffOpen`, `PausedAlwaysResumable`: `PausedRunResumable` | `RunsInv`: with `RequestFits`: the run of a start is not there yet and has its checkpoint when the graph stops; a resolution has loaded an interrupt that is still there, and undecided if it still is; and no two requests start one run |
| `RunsAlwaysMoveForward`: `RunsMoveForward` | of each step, from `RunsInv` |
| `ChatImplementsRuns`: `ChatSpec => Spec` | every step of the chat is one of `AgentRuns` or leaves its state alone, so the theorems above hold of the chat as well |
| `TurnsAlwaysTell`: `TurnsTellWhatHappened` | `ChatInv` and `UndoneInv`, on top of `RunsInv`. `ChatInv`: a turn that investigates owns a start of its user's, a reply of "done" follows a commit in `apps/api`, a resolution from the chat is of a run its user was told of. `UndoneInv`: the run of an undone turn has no row and no request that starts it (its identifier is a new UUID, which nobody takes again) |

`InvestigationsProofs` (`CasesInv`), for any cases, items, subjects and workers:

| Theorem | Why the invariant needs more than the property |
|---|---|
| `TypeCorrect`: `TypeOK`, `ContentsAlwaysRight`: `CaseContents` | a request that adds has checked a case and an engagement that cannot change |
| `TrailAlwaysAccounts`: `TrailAccountsForCase` | an item that is gone has its removal on record, so additions are as many as known items, by an induction over cardinalities; the closer and the conclusion a close in progress has loaded are those of an event, and the row's are of that one or of a later one (`LoadedTrailed`) |

`RiskProofs` (`RiskInv`), for any transactions, payments, dates, thresholds,
deviating sets, anomalies and workers:

| Theorem | Why the invariant needs more than the property |
|---|---|
| `TypeCorrect`: `TypeOK`, `FlagsAlwaysSupported`: `FlagsSupported` | what a scan in progress has found is supported and stays so, whatever is imported meanwhile; `CandidatesSupported` is what the rules give for every order of the list; what a scoring request has rated is an anomaly's severity |
| `ScansAlwaysRecord`: `ScansLeaveNothing` | what a scan in progress has seen open is on record for good |
| `TrailAlwaysAccounts`: `TrailAccountsForAnomaly` | `TrailInv`, on top of `RiskInv`: the status and the reviewer a disposition in progress has loaded are those of an event, and the row's are of that one or of a later one (`LoadedTrailed`) |

`IngestionProofs` (`IngestInv`), for any contents, types, documents and requests,
whatever text the parser makes of a content, and all sizes of chunks that fit
together as `ChunkingAssumption` says:

| Theorem | Why the invariant needs more than the property |
|---|---|
| `TypeCorrect`: `TypeOK`, `OneDocumentAlways`: `OneDocumentPerContent` | two uploads in progress never have one identifier, and theirs are not in use; the unique index does the rest |
| `DocumentsAlwaysWhole`: `DocumentsWhole` | an upload that has stored has its file, and files are never removed |
| `EmbeddedAlwaysOnce`: `EmbeddedOnce` | an embedding in progress has listed all chunks of its document; the rows are finitely many and their number is the sum of what was answered |
| `StoredTextAlwaysWhole`: `StoredTextWhole` | the content of a stored document parses to a text (no document is stored of a content the parser refused); the rest is a fact about every text, `EveryTextWellChunked` |

`EveryTextWellChunked` is the one proof about an algorithm: whatever the sizes of
its blocks, a text is cut into chunks that hold every word, in order, cut only
where the code means to, and within the size bound. It goes by induction on the
blocks `chunk_text` has read, and the loop keeps `Reading`: the chunks so far are
a chain (each a run of consecutive words that goes on where the one before it
ended, or overlaps it inside a split paragraph) that holds all words before the
buffer; the buffer is a run that ends where a paragraph does and is shorter than
target and floor together; after each block the last chunk made reaches the
floor, since a short one is made only just before the windows of a long
paragraph. `LongParagraph` and `ShortParagraph` are the two branches of the loop,
`FlushCovers` the flush at its end, `MergeWellMade` the merge of a trailing
fragment; `ChunksHoldText` finds a word's chunk as the first that reaches it. The
induction is first-order, so that no theorem with an operator parameter is
needed: a set of naturals has a least element (`LeastNatural`, from the library's
well-foundedness of strict inclusion on finite sets), hence a set with 0 and the
successors of its members holds all naturals (`EveryNatural`). The same induction
shows that the recursive functions `ReadBlocks` and `BlockEnds` satisfy their
equations (`ReadBlocksStep`, `BlockEndsStep`).

`KnowledgeGraphProofs`, for any transactions, spellings and requests, any names
and any normalization:

| Theorem | Inductive invariant |
|---|---|
| `TypeCorrect`: `TypeOK` | `TypeInv`: with `GroupInProgress`: a request within a group is at a transaction it still has to do, and has a vendor, without which a row or an edge could be to `None` |
| `KnownNamesAlwaysReused`: `KnownNamesReused` | `KnownInv`: a name that was known keeps a committed row (rows are never removed), and no id is anywhere, in either store or in the hands of any request, that a request would have minted for a name it knew, or before it began |
| `ResolutionAlwaysReachesGraph`: `ResolutionReachesGraph` | `ReachInv`: every row, edge and vendor in use was minted for its transaction's name; a row has its edge, except one inserted a moment ago by a request about to merge it; what was listed is still to do or has a row, committed or the request's own |
| `NobodyEverWaitsInVain`: `NobodyWaitsInVain` | `WaitInv`: finitely many requests are in progress, and none has a row to insert that it has inserted; so whom one waits for is another, in progress. A smallest set of requests that wait for each other is a circle (`CircleOfWaits`): one that nobody of it waited for could be left out |

`IdentityProofs`, for any requests, addresses, passwords, hashes of them, subjects,
engagements and connections, and any number of keys. A step touches the key lookups or the
rest, so there are two invariants:

| Theorem | Inductive invariant |
|---|---|
| `ValidTokensAccepted`: `ValidTokenAccepted` | `KeyInv`: a lookup nobody disturbs is the only one refreshing, its answer holds the key if that is valid, and what it has stored is still there when it looks |
| `TypeCorrect`: `TypeOK`, `IdentityAlwaysOwn`: `OwnIdentityOnly` | `IdInv`: a setting belongs to the request that has the connection; it is unset up to the binding and the request's user after it |
| `AccountsAlwaysWhole`: `AccountsWhole` | `IdInv`: the keys of a row inserted and not committed are free in the table and in the other transactions, and only a sign-up inserts a local subject |
| `LoginsAlwaysFind`: `LoginFindsAccount` | `IdInv`: stored addresses are in the form `strip().lower()` leaves; an account that was there when a login began is there for good, and is the only one of its address; only a row that was signed up here has a credential, so a blank address, which is the address of every provisioned row, logs nobody in |
| `NobodyEverWaitsInVain`: `NobodyWaitsInVain` | `IdInv`: who has inserted a row is past every wait, who has a connection is in progress; a request that holds a connection waits for a row at most |

The assumptions of `Identity` that serve these proofs: `Lower` is idempotent where it
leaves anything (it is `strip().lower()`), sign-up refuses the empty address, which
nobody types as it is (a schema wants three characters), a password has a hash and
two may have one, a local subject is no subject of Entra ID, which
`identity/application/services.py:36-39` says of the prefix `local:`, and the pool
has a connection (SQLAlchemy's default has five).

Model-checked only:

* `RunStops` and the two `EveryRequestAnswered`: liveness needs fairness and
  `ENABLED`, which the prover does not handle.

Three theorems state the part of it that depends on the code and not on the
scheduler. No run lists them; the modules of the theorems define what they say,
and it was model-checked on the runs' instances.

* `EveryStepAlwaysCounts` (`AgentGraphProofs`) is the variant behind `RunStops`,
  for any re-plan budget: each step of `start_run` lowers a natural number,
  posts one of the citations there are to post, or ends the call. A resumption has
  two nodes at most and no loop.
* `NobodyEverWaitsInVain` (`KnowledgeGraphProofs`): the waits of any number of
  resolutions leave one that can go on, or a circle for PostgreSQL to break. The
  run behind `EveryRequestAnswered` has two resolutions.
* `NobodyEverWaitsInVain` (`IdentityProofs`): with every connection of the pool in
  use, somebody who has one does not wait, though a request keeps its connection
  while its INSERT waits for another's row. No run states liveness of `Identity`.

No module here declares a `RECURSIVE` operator: recursion is written as recursive
functions.

## 6. What the models show beyond the runs

* **Two reviewers of one draft.** Both may load it as a draft and both dispose of
  it, though `reporting/domain/entities.py:24` makes confirmed and rejected
  terminal: the row ends with one decision, the trail holds both.
* **Row and last event may differ.** An UPDATE leaves out a column whose value its
  second SELECT already found. With three overlapping reviewers that may be the
  status, after the third has changed it: the row then has the last event's
  reviewer with another reviewer's decision, and a stale reason may stay. With one
  reviewer who submits twice and another in between it is the reviewer: the row
  names one and the last event the other. The same holds of an anomaly
  (`risk/infrastructure/repository.py:164`) and of the closer and the conclusion of
  a case (`investigations/infrastructure/repository.py:95`). The three trail
  properties state the exception, and that it is the only one: the last event
  repeats the value of an earlier one, and the row has that of an event between.
* **The PDF is not the Markdown.** It is rendered from what is there at the first
  download: citations attached since the snapshot are in it, and a finding that an
  overlapping rejection has overtaken is printed as rejected, under a heading that
  counts it as confirmed. `reporting_mirror` shows it. What holds is that nothing of
  the report is missing (`ExportsComplete`).
* **A restart strands waiting runs.** After `Restart` a waiting run stays
  `awaiting_human_review` for ever and every resolution raises
  (`PausedRunResumable` excepts it). `orchestrator.py` speaks of a durable
  interrupt; `dependencies.py:162-171` says the saver is in memory.
* **Two resolutions at once** can leave the interrupt's decision and the run's
  status in disagreement, and can publish after a rejection: two resumptions read
  one checkpoint, the rejection ends the thread, and the approval writes its
  checkpoints over it. `ReviewGate` therefore promises less than a reader may
  expect: no report without an approval, held beside that approval, but not that an
  earlier rejection stops it.
* **Failures after the graph has returned.** When `set_status`
  (`orchestrator.py:168-169`) or the commit fails after a resumption, the row still
  awaits a review of a thread that is at its end. Resolving it again runs nothing,
  and records what the second argument says: after a rejection that was lost this
  way an approval gives a completed run without a report. After a failed start the
  draft finding the graph has posted stays in `apps/api` without a run.
* **Failed runs leave no row.** `set_status(FAILED)` is rolled back with the
  rest, so no run is ever seen failed, though `orchestrator.py:86-89` says so.
* **A closed case still changes**: a request that found it open may add or remove
  after the close has committed, and a removal names the item alone, so a closed
  case loses an item through the path of an open one.
* **A parsing failure leaves no failed document.** `ingestion/application/services.py:85-89`
  marks it failed and raises: the mark is rolled back, the file stays.
* **Chunk sizes.** A buffer below the minimum is not flushed, so a chunk may
  exceed the target by what it held; an undersized chunk before an oversized
  paragraph stays undersized. If the overlap were shorter than the minimum by
  more than a word, the final merge would repeat the overlap: the last window of
  a split paragraph holds at least one word more than it. With the defaults (375
  words, 40 at least, an overlap of 45) it never does, and `ChunkingAssumption`
  says so. The size bound needs a floor of at least one word, which the proof
  found and `ChunkingAssumption` says: with a floor of 0 a buffer of exactly the
  target is not below their sum. Offsets of a split paragraph are approximate and
  are not modelled.
* **Chat turns.** "Failed" may be reported of an action that commits after the
  turn's timeout, and so may an action of a turn that is rolled back; sending the turn
  again repeats it (an import then exists twice). The two messages of a turn share `created_at`, so their order in the
  list is not defined.
* **Vendors.** Two resolutions at once may mint two ids for one name; both rows
  stay, and no later run merges them. A name of tabs survives SQL's `trim()` and
  normalizes to the empty name.
* **Sign-in.** A token of a valid key is refused when an older answer of the
  provider is stored over a newer one. A user row provisioned on first sight is
  rolled back with a refused request, though `identity/application/services.py:126-127`
  speaks of the first authenticated request that creates it. The losers of
  simultaneous first sign-ins or sign-ups get the error of the unique index, a 500.
* **Passwords and blank addresses.** bcrypt (`>=4.0,<5.0`) reads the first 72 bytes
  of a password (`identity/infrastructure/security.py:19-23`) and the schemas admit
  256 characters: long passwords that begin alike log in alike. A login of three
  blanks passes the schema and normalizes to the empty address, the one of every
  provisioned row (`dependencies.py:61`): it is refused while there is at most one
  such row, and raises, a 500, when there are two (`repository.py:55`).
* **Later reports may list fewer findings.** A report is numbered after it lists,
  so version 2 may have been listed before version 1.
* **Audit order.** `occurred_at` is the time the transaction began, so the list
  endpoint may show two events in the opposite order of their commits.
* **Two scans at once** create the same anomaly twice; a dispositioned anomaly
  still counts in a score, though `combiner.py:67-68` says an open one.
* **Leftovers.** Failed uploads leave files; a submission that fails half-way
  leaves a draft finding with some of its citations and a run that does not know
  it; embedding a document under another engagement's path makes its chunks
  unsearchable in their own.

## 7. Not modelled, and the plan

In order of importance:

1. A composition of `AgentGraph` with `Reporting`: the draft a run posts is
   disposed of by people like any other.
2. The weights of `combiner.py` and the windows of the bootstrap interval, if
   integers can stand for their floats without making the properties hollow.

Left out for good: the web frontend (a view of the two interfaces), the LLM
gateway, telemetry, settings and deployment (no state of the system), PostgreSQL's
and Neo4j's own search and ranking, the evaluation metrics and the model
validation report (read-only statistics), and floating-point model scores. Which
roles an endpoint allows is a constant of its route; `Identity` lets a member be
refused anywhere.
