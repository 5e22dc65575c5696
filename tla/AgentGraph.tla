----------------------------- MODULE AgentGraph -----------------------------
(***************************************************************************)
(* One agent run of services/agent-orchestrator: the LangGraph graph of    *)
(* graph.py over the nodes of nodes.py, from start_run to the reviewer's   *)
(* decision, with the draft finding it posts to apps/api on the way.       *)
(*                                                                         *)
(* The checkpoint of the run's thread is the channels plus "next", the     *)
(* nodes of the current superstep that have still to run.  A node is a     *)
(* step, except guardrail_out, whose calls of apps/api are steps of their  *)
(* own: each of them is a committed transaction there.                     *)
(*                                                                         *)
(* Nothing keeps two resumptions of a run apart.  Each goes on from the    *)
(* checkpoint it has loaded and writes its own, over whatever another one  *)
(* has written meanwhile.                                                  *)
(*                                                                         *)
(* Abstracted: text.  A model's answer is whether it raises, whether it is *)
(* empty and, for the judge, whether its score reaches the floor; the      *)
(* engineered context is the set of specialists whose drafts are in it.    *)
(* The rows a request writes and a restart, which drops the thread, are in *)
(* AgentRuns.                                                              *)
(***************************************************************************)
EXTENDS Naturals, Sequences, FiniteSets

CONSTANTS
    Specialist,   \* the evidence specialists, named as in AgentRole
    Chunk,        \* passages a search may return
    MaxReplans,   \* settings.max_replans
    Resumption,   \* requests that may resume the run at once
    None

ASSUME SpecialistAssumption ==
    /\ "retrieval" \in Specialist
    /\ Specialist \subseteq {"retrieval", "sql", "knowledge_graph", "fraud_detection"}

ASSUME ReplanAssumption == MaxReplans \in Nat

VARIABLES
    call,           \* "start" while start_run is in progress, None after
    next,           \* nodes of the current superstep still to run
    injected,       \* whether the task holds an injection phrase
    plan,           \* channel plan: the specialists it dispatches to
    retry_count,    \* channel retry_count
    evidence,       \* channel evidence_retrieval: how often each chunk is in it
    drafts,         \* specialists with a non-empty draft in their channel
    context,        \* channel engineered_context
    score,          \* channel evaluation_score: whether it reaches the floor
    flags,          \* channel guardrail_flags, by kind
    hitl_decision,  \* channel hitl_decision
    final_output,   \* channel final_output: whether the report is there
    submitted,      \* channel submitted_finding_id: whether it is set
    posting,        \* citations guardrail_out has still to post, or None
    findings,       \* the findings this run has created in apps/api
    status,         \* the status recorded for the run, None before
    resumed         \* per resumption in progress: its decision and its copy of
                    \* what changes in the thread from hitl on

channels == <<plan, retry_count, evidence, drafts, context, score, flags,
              hitl_decision, final_output, submitted>>

vars == <<call, next, injected, channels, posting, findings, status, resumed>>

HitlDecision == {"approve", "reject", "edit"}

FlagKind == {"prompt_injection", "pii"}

Node == Specialist \cup {"guardrail_in", "planner", "context_engineering",
                         "evaluation", "guardrail_out", "hitl", "report_generation"}

RunStatus == {"awaiting_human_review", "completed", "cannot_conclude", "halted"}

Counts == [Chunk -> Nat]

ASSUME NoneAssumption == None \notin HitlDecision \cup {"start"} \cup RunStatus \cup Counts

NoChunks == [c \in Chunk |-> 0]

FindingDraft == [description : SUBSET Specialist, citations : Counts]

Execution ==
    [decision : HitlDecision, next : {{}, {"hitl"}, {"report_generation"}},
     hitl_decision : HitlDecision \cup {None}, final_output : BOOLEAN]

ASSUME NoExecution == None \notin Execution

Init ==
    /\ call = None
    /\ next = {}
    /\ injected = FALSE
    /\ plan = {}
    /\ retry_count = 0
    /\ evidence = NoChunks
    /\ drafts = {}
    /\ context = {}
    /\ score = FALSE
    /\ flags = {}
    /\ hitl_decision = None
    /\ final_output = FALSE
    /\ submitted = FALSE
    /\ posting = None
    /\ findings = <<>>
    /\ status = None
    /\ resumed = [r \in Resumption |-> None]

----------------------------------------------------------------------------
(***************************************************************************)
(* start_run and the nodes up to the evaluation                            *)
(***************************************************************************)
StartRun ==
    /\ status = None
    /\ call = None
    /\ call' = "start"
    /\ next' = {"guardrail_in"}
    /\ injected' \in BOOLEAN
    /\ UNCHANGED <<channels, posting, findings, status, resumed>>

GuardrailIn ==
    /\ next = {"guardrail_in"}
    /\ flags' = IF injected THEN flags \cup {"prompt_injection"} ELSE flags
    /\ next' = IF "prompt_injection" \in flags' THEN {} ELSE {"planner"}
    /\ UNCHANGED <<call, injected, plan, retry_count, evidence, drafts, context, score,
                   hitl_decision, final_output, submitted, posting, findings, status, resumed>>

FanOut(wanted) == IF wanted = {} THEN {"context_engineering"} ELSE wanted

\* Mutated form: a re-plan is not counted.
UncountedPlanner ==
    /\ next = {"planner"}
    /\ plan' \in (SUBSET Specialist) \ {{}}
    /\ next' = FanOut(plan')
    /\ UNCHANGED <<call, injected, retry_count, evidence, drafts, context, score, flags,
                   hitl_decision, final_output, submitted, posting, findings, status, resumed>>

\* The parser falls back to retrieval, so the plan is never empty; only a plan
\* that replaces one counts against the budget.
Planner ==
    /\ next = {"planner"}
    /\ plan' \in (SUBSET Specialist) \ {{}}
    /\ retry_count' = IF plan = {} THEN retry_count ELSE retry_count + 1
    /\ next' = FanOut(plan')
    /\ UNCHANGED <<call, injected, evidence, drafts, context, score, flags,
                   hitl_decision, final_output, submitted, posting, findings, status, resumed>>

\* The superstep ends, and the join is reached, when its last node has run.
Join(remaining) == IF remaining = {} THEN {"context_engineering"} ELSE remaining

\* The channel of the fraud agent is overwritten, the others are appended to.
DraftsWith(s, answered) ==
    IF answered THEN drafts \cup {s}
    ELSE IF s = "fraud_detection" THEN drafts \ {s}
    ELSE drafts

GatheredWith(s, found) ==
    IF s = "retrieval"
    THEN [c \in Chunk |-> IF c \in found THEN evidence[c] + 1 ELSE evidence[c]]
    ELSE evidence

RunSpecialist(s) ==
    /\ s \in next
    /\ next' = Join(next \ {s})
    /\ \E answered \in BOOLEAN : drafts' = DraftsWith(s, answered)
    /\ \E found \in SUBSET Chunk : evidence' = GatheredWith(s, found)
    /\ UNCHANGED <<call, injected, plan, retry_count, context, score, flags,
                   hitl_decision, final_output, submitted, posting, findings, status, resumed>>

ContextEngineering ==
    /\ next = {"context_engineering"}
    /\ context' = drafts
    /\ next' = {"evaluation"}
    /\ UNCHANGED <<call, injected, plan, retry_count, evidence, drafts, score, flags,
                   hitl_decision, final_output, submitted, posting, findings, status, resumed>>

\* Mutated form: an empty context is scored like any other.
AnyScore(gathered) == BOOLEAN

\* Nothing gathered scores 0.0 without a model call.
Scores(gathered) == IF gathered = {} THEN {FALSE} ELSE BOOLEAN

\* Mutated form: the budget allows one re-plan too many.
RouteWithExtraReplan(passed) ==
    IF passed THEN {"guardrail_out"}
    ELSE IF retry_count <= MaxReplans THEN {"planner"} ELSE {}

RouteAfterEvaluation(passed) ==
    IF passed THEN {"guardrail_out"}
    ELSE IF retry_count < MaxReplans THEN {"planner"} ELSE {}

Evaluation ==
    /\ next = {"evaluation"}
    /\ score' \in Scores(context)
    /\ next' = RouteAfterEvaluation(score')
    /\ UNCHANGED <<call, injected, plan, retry_count, evidence, drafts, context, flags,
                   hitl_decision, final_output, submitted, posting, findings, status, resumed>>

----------------------------------------------------------------------------
(***************************************************************************)
(* guardrail_out and the draft finding                                     *)
(***************************************************************************)
RouteAfterGuardrailOut(found) == IF "prompt_injection" \in found THEN {} ELSE {"hitl"}

\* The scan.  A token shaped like an SSN is a soft flag; the draft finding is
\* submitted when there is a context and at least one retrieved chunk.
GuardrailOut ==
    /\ next = {"guardrail_out"}
    /\ posting = None
    /\ \E leak \in BOOLEAN :
          flags' = IF leak /\ context # {} THEN flags \cup {"pii"} ELSE flags
    /\ IF context # {} /\ evidence # NoChunks
       THEN posting' = evidence /\ UNCHANGED next
       ELSE next' = RouteAfterGuardrailOut(flags') /\ UNCHANGED posting
    /\ UNCHANGED <<call, injected, plan, retry_count, evidence, drafts, context, score,
                   hitl_decision, final_output, submitted, findings, status, resumed>>

\* POST .../findings has not been answered yet.
FindingPending == posting # None /\ findings = <<>>

WithFinding == Append(findings, [description |-> context, citations |-> NoChunks])

WithCitation(c) ==
    [findings EXCEPT ![Len(findings)].citations[c] = @ + 1]

PostFinding ==
    /\ FindingPending
    /\ findings' = WithFinding
    /\ UNCHANGED <<call, next, injected, channels, posting, status, resumed>>

\* One POST .../evidence for each chunk of each retrieval draft.
PostEvidence ==
    /\ posting # None
    /\ findings # <<>>
    /\ \E c \in Chunk :
          /\ posting[c] > 0
          /\ posting' = [posting EXCEPT ![c] = @ - 1]
          /\ findings' = WithCitation(c)
    /\ UNCHANGED <<call, next, injected, channels, status, resumed>>

FinishSubmission ==
    /\ posting = NoChunks
    /\ findings # <<>>
    /\ submitted' = TRUE
    /\ posting' = None
    /\ next' = RouteAfterGuardrailOut(flags)
    /\ UNCHANGED <<call, injected, plan, retry_count, evidence, drafts, context, score, flags,
                   hitl_decision, final_output, findings, status, resumed>>

\* Mutated form: the identifier is kept when a later call fails.
SubmissionFailsWithId ==
    /\ posting # None
    /\ posting' = None
    /\ submitted' = (findings # <<>>)
    /\ next' = RouteAfterGuardrailOut(flags)
    /\ UNCHANGED <<call, injected, plan, retry_count, evidence, drafts, context, score, flags,
                   hitl_decision, final_output, findings, status, resumed>>

\* A call fails or times out; apps/api may have committed it all the same.  The
\* node swallows the error and the run goes on without the finding's id.
SubmissionFails ==
    /\ posting # None
    /\ posting' = None
    /\ findings' \in {findings} \cup
          (IF FindingPending THEN {WithFinding}
           ELSE {WithCitation(c) : c \in {k \in Chunk : posting[k] > 0}})
    /\ next' = RouteAfterGuardrailOut(flags)
    /\ UNCHANGED <<call, injected, channels, status, resumed>>

----------------------------------------------------------------------------
(***************************************************************************)
(* Where ainvoke stops, and the resumption after a review                  *)
(***************************************************************************)
\* interrupt_before = [hitl]: start_run's execution stops there.
StopsHere == next = {} \/ next = {"hitl"}

\* Mutated form: any guardrail flag is read as a stop.
TerminalStatusAnyFlag ==
    IF next # {} THEN "awaiting_human_review"
    ELSE IF flags # {} \/ ~ score THEN "halted"
    ELSE "cannot_conclude"

\* _classify_terminal_status.
TerminalStatus ==
    IF next # {} THEN "awaiting_human_review"
    ELSE IF "prompt_injection" \in flags THEN "halted"
    ELSE "cannot_conclude"

StopStart ==
    /\ call = "start"
    /\ StopsHere
    /\ status' = TerminalStatus
    /\ call' = None
    /\ UNCHANGED <<next, injected, channels, posting, findings, resumed>>

\* A node, a call of apps/api that fails otherwise than in transport, set_status,
\* the interrupt or the commit raises: start_run's transaction rolls back.  No
\* run is left, its thread has an identifier nobody knows, and a draft it has
\* posted stays in apps/api without a run.  The next run begins from nothing.
StartRaises ==
    /\ call = "start"
    /\ call' = None
    /\ next' = {}
    /\ injected' = FALSE
    /\ plan' = {} /\ retry_count' = 0
    /\ evidence' = NoChunks /\ drafts' = {} /\ context' = {}
    /\ score' = FALSE /\ flags' = {}
    /\ submitted' = FALSE /\ posting' = None /\ findings' = <<>>
    /\ UNCHANGED <<hitl_decision, final_output, status, resumed>>

\* start_run opens an interrupt for the review of a paused run, and for no
\* other; the interrupt row stays when it is resolved.
InterruptOpened == status = "awaiting_human_review" \/ hitl_decision # None

\* Command(resume=decision) into the run's thread, from its last checkpoint.
\* Nothing asks whether the interrupt is resolved already, or being resolved.
Resume(r, decision) ==
    /\ resumed[r] = None
    /\ InterruptOpened
    /\ resumed' = [resumed EXCEPT ![r] =
          [decision |-> decision, next |-> next, hitl_decision |-> hitl_decision,
           final_output |-> final_output]]
    /\ UNCHANGED <<call, next, injected, channels, posting, findings, status>>

StandsAt(r, node) == resumed[r] # None /\ resumed[r].next = {node}

\* A superstep of a resumption ends: its copy is the thread's last checkpoint.
Checkpoint(r, copy) ==
    /\ resumed' = [resumed EXCEPT ![r] = copy]
    /\ next' = copy.next
    /\ hitl_decision' = copy.hitl_decision
    /\ final_output' = copy.final_output
    /\ UNCHANGED <<call, injected, plan, retry_count, evidence, drafts, context, score,
                   flags, submitted, posting, findings, status>>

\* Mutated form: only a rejection stops the run.
RouteUnlessRejected(decision) == IF decision = "reject" THEN {} ELSE {"report_generation"}

RouteAfterHitl(decision) == IF decision = "approve" THEN {"report_generation"} ELSE {}

Hitl(r) ==
    /\ StandsAt(r, "hitl")
    /\ Checkpoint(r, [resumed[r] EXCEPT !.hitl_decision = resumed[r].decision,
                                        !.next = RouteAfterHitl(resumed[r].decision)])

ReportGeneration(r) ==
    /\ StandsAt(r, "report_generation")
    /\ Checkpoint(r, [resumed[r] EXCEPT !.final_output = TRUE, !.next = {}])

\* resume_after_review records the status its own argument asks for.
StopResume(r) ==
    /\ resumed[r] # None
    /\ resumed[r].next = {}
    /\ status' = IF resumed[r].decision = "approve" THEN "completed" ELSE "halted"
    /\ resumed' = [resumed EXCEPT ![r] = None]
    /\ UNCHANGED <<call, next, injected, channels, posting, findings>>

\* report_generation raises, or set_status or the commit does when the thread is
\* at its end: the resolution rolls back, what the thread holds stays.
ResumeRaises(r) ==
    /\ resumed[r] # None
    /\ resumed' = [resumed EXCEPT ![r] = None]
    /\ UNCHANGED <<call, next, injected, channels, posting, findings, status>>

\* What runs once start_run has called ainvoke: each of these implies
\* call = "start".
StartStep ==
    \/ GuardrailIn
    \/ Planner
    \/ \E s \in Specialist : RunSpecialist(s)
    \/ ContextEngineering
    \/ Evaluation
    \/ GuardrailOut
    \/ PostFinding
    \/ PostEvidence
    \/ FinishSubmission
    \/ SubmissionFails
    \/ StopStart
    \/ StartRaises

ResumeStep(r) == Hitl(r) \/ ReportGeneration(r) \/ StopResume(r) \/ ResumeRaises(r)

Next ==
    \/ StartRun
    \/ StartStep
    \/ \E r \in Resumption, d \in HitlDecision : Resume(r, d)
    \/ \E r \in Resumption : ResumeStep(r)

Spec == Init /\ [][Next]_vars

\* Each ainvoke runs its superstep loop to the end: every call it awaits returns
\* or times out, and the event loop resumes every request.
FairSpec ==
    /\ Spec
    /\ WF_vars(StartStep)
    /\ \A r \in Resumption : WF_vars(ResumeStep(r))

----------------------------------------------------------------------------
(***************************************************************************)
(* Properties                                                              *)
(***************************************************************************)
\* Every channel, and what is recorded outside the thread, has its type.
TypeOK ==
    /\ call \in {None, "start"}
    /\ next \subseteq Node
    /\ injected \in BOOLEAN
    /\ plan \subseteq Specialist
    /\ retry_count \in 0 .. MaxReplans
    /\ evidence \in Counts
    /\ drafts \subseteq Specialist
    /\ context \subseteq Specialist
    /\ score \in BOOLEAN
    /\ flags \subseteq FlagKind
    /\ hitl_decision \in {None} \cup HitlDecision
    /\ final_output \in BOOLEAN
    /\ submitted \in BOOLEAN
    /\ posting \in {None} \cup Counts
    /\ findings \in Seq(FindingDraft)
    /\ status \in {None} \cup RunStatus
    /\ resumed \in [Resumption -> {None} \cup Execution]

\* A reviewer is shown screened drafts only: when the graph stands at hitl the
\* judge has passed a non-empty context, no injection was found, and the score
\* is of this context, not of one an earlier plan produced.
ReviewFollowsScreening ==
    next = {"hitl"} =>
        /\ score
        /\ context # {} /\ context = drafts
        /\ "prompt_injection" \notin flags

\* What apps/api holds is what the reviewer is asked about: a run drafts one
\* finding at most, after the judge has passed its context, with that context
\* as its description and no citation the run did not retrieve; and when the
\* run knows the finding's id, every citation is there.
DraftMatchesReview ==
    /\ Len(findings) <= 1
    /\ \A i \in DOMAIN findings :
          /\ score
          /\ findings[i].description = context
          /\ \A c \in Chunk : findings[i].citations[c] <= evidence[c]
    /\ submitted => findings # <<>> /\ findings[Len(findings)].citations = evidence

\* The status recorded for a run tells what became of it, whatever fails after it
\* was decided.  _classify_terminal_status reads the path off the final state
\* alone, and reads it right: a run that ended without a review was stopped by
\* the input scan, before it gathered anything, or has spent its whole re-plan
\* budget.  A run said to await a review, or to be completed, had passed the judge
\* and the scan; the one stands before hitl unless a decision has reached its
\* thread whose request has not recorded it, the other has had a decision.
StatusTellsPath ==
    /\ status = "halted" /\ hitl_decision = None =>
          injected /\ plan = {} /\ findings = <<>>
    /\ status = "cannot_conclude" =>
          /\ ~ injected /\ ~ score
          /\ retry_count = MaxReplans
          /\ findings = <<>>
    /\ status \in {"awaiting_human_review", "completed"} =>
          /\ ~ injected /\ score /\ context # {}
          /\ hitl_decision = None => status # "completed" /\ next = {"hitl"}

\* Every call of start_run comes to an end, the re-plan loop being bounded, and
\* so does every one of resume_after_review.
RunStops ==
    /\ call = "start" ~> call = None
    /\ \A r \in Resumption : resumed[r] # None ~> resumed[r] = None

\* The graph implements the human-in-the-loop gate.
Phase ==
    CASE call = "start" -> "working"
      [] call = None /\ status = None -> "idle"
      [] call = None /\ status # None /\ next = {"hitl"} -> "paused"
      [] OTHER -> "closed"

\* An approval has passed hitl, and its report is still to be written.
ReportDue ==
    \/ next = {"report_generation"}
    \/ \E r \in Resumption : StandsAt(r, "report_generation")

Gate == INSTANCE ReviewGate WITH
            phase <- Phase, decision <- hitl_decision, published <- final_output,
            due <- ReportDue

\* Every run keeps the promise of ReviewGate, however many resumptions overlap,
\* with whatever decisions, and whatever fails: nothing is decided before the run
\* has paused, no report is written that an approval has not asked for, and the
\* thread never holds a report beside another decision.  It does not promise that
\* a decision stays, nor that an earlier rejection stops an approval.
ImplementsReviewGate == Gate!Spec

\* Resuming with a rejection ends a run "without a published report".  A resume
\* that follows an approval, completed or failed in report_generation, breaks it.
RejectedRunHasNoReport == status = "halted" => ~ final_output
=============================================================================
