-------------------------- MODULE AgentGraphProofs --------------------------
(***************************************************************************)
(* Theorems about AgentGraph, for every set of specialists and of chunks,  *)
(* every re-plan budget and any number of overlapping resumptions.         *)
(***************************************************************************)
EXTENDS AgentGraph, FiniteSetTheorems, TLAPS

(***************************************************************************)
(* The inductive invariant                                                 *)
(***************************************************************************)
\* The supersteps a run can stand at: one node, or the specialists of a plan
\* that have not run yet.
Superstep ==
    \/ next \subseteq Specialist
    \/ next \in {{"guardrail_in"}, {"planner"}, {"context_engineering"}, {"evaluation"},
                 {"guardrail_out"}, {"hitl"}, {"report_generation"}}

\* Before guardrail_out: nothing has been sent to apps/api.
Gathering ==
    next # {} /\ next \notin {{"guardrail_out"}, {"hitl"}, {"report_generation"}}

\* A run has been started, and its start has not been undone.
Started == call # None \/ status # None

\* Which call stands where.  Only start_run's walks the graph up to hitl; before
\* it the thread is as a new one; the budget is not spent while a re-plan is due.
Standing ==
    /\ Superstep
    /\ call # "start" => next \in {{}, {"hitl"}, {"report_generation"}}
    /\ call = "start" => status = None /\ next # {"report_generation"}
    /\ status = None => /\ hitl_decision = None /\ ~ final_output
                        /\ \A r \in Resumption : resumed[r] = None
    /\ ~ Started =>
          /\ next = {} /\ plan = {} /\ retry_count = 0 /\ evidence = NoChunks
          /\ drafts = {} /\ context = {} /\ ~ score /\ flags = {}
          /\ ~ submitted /\ posting = None /\ findings = <<>>
    /\ next = {"guardrail_in"} => plan = {}
    /\ next = {"planner"} => plan = {} \/ retry_count < MaxReplans

\* An injection stops the run where it is found; what passes the judge is the
\* context made of the drafts of the last plan.
Screening ==
    /\ "prompt_injection" \in flags =>
          injected /\ plan = {} /\ findings = <<>> /\ next = {} /\ hitl_decision = None
    /\ Gathering => flags = {}
    /\ injected => "prompt_injection" \in flags \/ next = {"guardrail_in"} \/ ~ Started
    /\ next = {"evaluation"} => context = drafts
    /\ next \in {{"guardrail_out"}, {"hitl"}} => score /\ context # {} /\ context = drafts

\* While guardrail_out posts, what is posted and what is left make up the
\* evidence; nothing is posted before, and it posts once.
Posting ==
    /\ Gathering => findings = <<>> /\ posting = None /\ ~ submitted
    /\ next = {"guardrail_out"} => ~ submitted /\ (posting = None => findings = <<>>)
    /\ posting # None =>
          /\ next = {"guardrail_out"}
          /\ IF findings = <<>>
             THEN posting = evidence
             ELSE \A c \in Chunk : findings[1].citations[c] + posting[c] = evidence[c]
    /\ DraftMatchesReview

\* A stopped run was reviewed, or says why it was not.
Stopping ==
    /\ next = {} /\ call = "start" =>
          \/ "prompt_injection" \in flags
          \/ ~ score /\ retry_count = MaxReplans /\ findings = <<>>
    /\ status = "awaiting_human_review" /\ hitl_decision = None => next = {"hitl"}
    /\ status = "cannot_conclude" => hitl_decision = None
    /\ status \in {"halted", "cannot_conclude"} /\ hitl_decision = None => next = {}
    /\ StatusTellsPath

\* What a resumption's copy, and the thread it was taken from, hold: a report, or
\* a report due, with an approval; a decision, once the copy has left hitl.
Reviews ==
    /\ next = {"hitl"} => hitl_decision = None
    /\ final_output \/ next = {"report_generation"} => hitl_decision = "approve"
    /\ InterruptOpened => status # None /\ score /\ context # {} /\ ~ injected
    /\ \A r \in Resumption : resumed[r] # None =>
          /\ InterruptOpened
          /\ resumed[r].next = {"hitl"} => ~ resumed[r].final_output
          /\ resumed[r].next # {"hitl"} =>
                hitl_decision # None /\ resumed[r].hitl_decision # None
          /\ resumed[r].final_output \/ resumed[r].next = {"report_generation"} =>
                resumed[r].hitl_decision = "approve"

GraphInv == TypeOK /\ Standing /\ Screening /\ Posting /\ Stopping /\ Reviews

(***************************************************************************)
(* Drafts and citations                                                    *)
(***************************************************************************)
LEMMA FindingShape ==
    ASSUME TypeOK, DraftMatchesReview
    PROVE  \/ findings = <<>>
           \/ /\ findings # <<>>
              /\ Len(findings) = 1 /\ DOMAIN findings = {1}
              /\ findings[1] \in FindingDraft
              /\ findings[1].citations \in Counts
  <1>0. findings \in Seq(FindingDraft)
    BY DEF TypeOK
  <1>1. Len(findings) \in {0, 1}
    <2>1. Len(findings) \in Nat
      BY <1>0
    <2>2. Len(findings) <= 1
      BY DEF DraftMatchesReview
    <2>3. \A n \in Nat : n <= 1 => n \in {0, 1}
      OBVIOUS
    <2> QED BY <2>1, <2>2, <2>3
  <1>2. Len(findings) = 1 => findings[1] \in FindingDraft
    <2>1. findings \in [1 .. Len(findings) -> FindingDraft]
      BY <1>0
    <2> QED BY <2>1
  <1> QED BY <1>0, <1>1, <1>2 DEF FindingDraft

\* The finding is created without citations, from the context.
LEMMA FindingPosted ==
    ASSUME TypeOK, findings = <<>>
    PROVE  /\ WithFinding \in Seq(FindingDraft)
           /\ WithFinding # <<>>
           /\ Len(WithFinding) = 1 /\ DOMAIN WithFinding = {1}
           /\ WithFinding[1].description = context
           /\ WithFinding[1].citations = NoChunks
  <1> DEFINE row == [description |-> context, citations |-> NoChunks]
  <1>1. row \in FindingDraft
    BY DEF TypeOK, FindingDraft, NoChunks, Counts
  <1>2. WithFinding = <<row>>
    BY DEF WithFinding
  <1>3. row.description = context /\ row.citations = NoChunks
    OBVIOUS
  <1> HIDE DEF row
  <1> QED BY <1>1, <1>2, <1>3

\* A citation is counted once and changes nothing else.
LEMMA CitationPosted ==
    ASSUME TypeOK, DraftMatchesReview, findings # <<>>, NEW c \in Chunk
    PROVE  /\ WithCitation(c) \in Seq(FindingDraft)
           /\ WithCitation(c) # <<>>
           /\ Len(WithCitation(c)) = 1 /\ DOMAIN WithCitation(c) = {1}
           /\ WithCitation(c)[1].description = findings[1].description
           /\ \A k \in Chunk : WithCitation(c)[1].citations[k] =
                 findings[1].citations[k] + (IF k = c THEN 1 ELSE 0)
  <1>1. /\ Len(findings) = 1 /\ DOMAIN findings = {1}
        /\ findings[1] \in FindingDraft
        /\ findings[1].citations \in Counts
        /\ findings \in Seq(FindingDraft)
    BY FindingShape DEF TypeOK
  <1> DEFINE counted == [findings[1].citations EXCEPT ![c] = @ + 1]
             row == [findings[1] EXCEPT !.citations = counted]
  <1>2. counted \in Counts
    BY <1>1 DEF Counts
  <1>3. \A k \in Chunk : counted[k] = findings[1].citations[k] + (IF k = c THEN 1 ELSE 0)
    BY <1>1 DEF Counts
  <1>4. WithCitation(c) = [findings EXCEPT ![1] = row]
    BY <1>1 DEF WithCitation
  <1> HIDE DEF counted
  <1>5. /\ row \in FindingDraft
        /\ row.description = findings[1].description
        /\ row.citations = counted
    BY <1>1, <1>2 DEF FindingDraft
  <1> HIDE DEF row
  <1>6. /\ [findings EXCEPT ![1] = row] \in Seq(FindingDraft)
        /\ Len([findings EXCEPT ![1] = row]) = 1
        /\ DOMAIN [findings EXCEPT ![1] = row] = {1}
        /\ [findings EXCEPT ![1] = row][1] = row
    BY <1>1, <1>5
  <1> QED BY <1>3, <1>4, <1>5, <1>6

\* A run that has posted nothing has nothing to compare.
LEMMA NothingDrafted ==
    findings' = <<>> /\ ~ submitted' => DraftMatchesReview'
  BY DEF DraftMatchesReview

\* During start_run there is nothing to review.
LEMMA NothingReviewed ==
    ASSUME GraphInv, call = "start", next' # {"report_generation"},
           UNCHANGED <<status, hitl_decision, final_output, resumed>>
    PROVE  Reviews'
  <1>1. /\ status = None /\ hitl_decision = None /\ ~ final_output
        /\ \A r \in Resumption : resumed[r] = None
    BY DEF GraphInv, Standing
  <1>2. ~ InterruptOpened'
    BY <1>1, NoneAssumption DEF InterruptOpened, RunStatus
  <1> QED BY <1>1, <1>2 DEF Reviews

\* While specialists gather, a step that only moves on to others, or to the context,
\* leaves what the run has not reached yet as it was.
LEMMA GathersOn ==
    ASSUME GraphInv, Gathering, next # {"guardrail_in"}, Superstep', Gathering',
           next' \notin {{"guardrail_in"}, {"planner"}, {"evaluation"}},
           UNCHANGED <<call, injected, flags, hitl_decision, final_output, submitted,
                       posting, findings, status, resumed>>
    PROVE  Standing' /\ Screening' /\ Posting' /\ Stopping' /\ Reviews'
  <1>1. /\ call = "start" /\ status = None /\ Started
        /\ hitl_decision = None /\ ~ final_output
        /\ \A r \in Resumption : resumed[r] = None
    <2>1. next \notin {{}, {"hitl"}, {"report_generation"}}
      BY DEF Gathering
    <2>2. call = "start" /\ status = None
      BY <2>1 DEF GraphInv, Standing
    <2> QED BY <2>2, NoneAssumption DEF GraphInv, Standing, Started
  <1>2. flags = {} /\ ~ injected
    BY <1>1 DEF GraphInv, Screening
  <1>3. findings = <<>> /\ posting = None /\ ~ submitted
    BY DEF GraphInv, Posting
  <1>4. next' \notin {{}, {"guardrail_out"}, {"hitl"}, {"report_generation"}}
    BY DEF Gathering
  <1>5. Started'
    BY <1>1, NoneAssumption DEF Started
  <1>6. Standing'
    BY <1>1, <1>4, <1>5 DEF Standing
  <1>7. Screening'
    BY <1>2, <1>4 DEF Screening
  <1>8. Posting'
    BY <1>3, <1>4, NothingDrafted DEF Posting
  <1>9. Stopping'
    <2>1. status' = None /\ None \notin RunStatus
      BY <1>1, NoneAssumption
    <2> QED BY <1>4, <2>1 DEF Stopping, StatusTellsPath, RunStatus
  <1>10. Reviews'
    BY <1>1, <1>4, NothingReviewed
  <1> QED BY <1>6, <1>7, <1>8, <1>9, <1>10

LEMMA PlannerKeeps ==
    ASSUME GraphInv, Planner
    PROVE  GraphInv'
  <1>0. TypeOK /\ Standing
    BY DEF GraphInv
  <1>1. next' = plan' /\ plan' # {} /\ plan' \subseteq Specialist
    <2>1. next' = FanOut(plan') /\ plan' \in (SUBSET Specialist) \ {{}}
      BY DEF Planner
    <2>2. plan' # {} /\ plan' \subseteq Specialist
      BY <2>1
    <2> QED BY <2>1, <2>2 DEF FanOut
  <1>2. UNCHANGED <<call, injected, flags, hitl_decision, final_output, submitted,
                    posting, findings, status, resumed>>
    BY DEF Planner
  <1>3. TypeOK'
    <2>1. retry_count' \in 0 .. MaxReplans
      BY <1>0, ReplanAssumption DEF Planner, TypeOK, Standing
    <2>2. next' \subseteq Node
      BY <1>1 DEF Node
    <2>3. UNCHANGED <<evidence, drafts, context, score>>
      BY DEF Planner
    <2> QED BY <1>0, <1>1, <1>2, <2>1, <2>2, <2>3 DEF TypeOK
  <1>4. ASSUME NEW n, next' = {n} PROVE n \in Specialist
    BY <1>1, <1>4
  <1>5. /\ Superstep' /\ Gathering'
        /\ next' \notin {{"guardrail_in"}, {"planner"}, {"evaluation"}}
    BY <1>1, <1>4, SpecialistAssumption DEF Superstep, Gathering
  <1>6. Gathering /\ next # {"guardrail_in"}
    BY DEF Planner, Gathering
  <1> QED BY <1>2, <1>3, <1>5, <1>6, GathersOn DEF GraphInv

LEMMA RunSpecialistKeeps ==
    ASSUME GraphInv, NEW s \in Specialist, RunSpecialist(s)
    PROVE  GraphInv'
  <1>0. TypeOK /\ Standing
    BY DEF GraphInv
  <1>1. \/ next' # {} /\ next' \subseteq Specialist
        \/ next' = {"context_engineering"}
    <2>1. s \in next /\ next' = Join(next \ {s})
      BY DEF RunSpecialist
    <2>2. next \subseteq Specialist
      <3>1. ASSUME NEW n, next = {n} PROVE n \in Specialist
        BY <2>1, <3>1
      <3> QED BY <1>0, <3>1, SpecialistAssumption DEF Standing, Superstep
    <2>3. CASE next \ {s} = {}
      BY <2>1, <2>3 DEF Join
    <2>4. CASE next \ {s} # {}
      BY <2>1, <2>2, <2>4 DEF Join
    <2> QED BY <2>3, <2>4
  <1>2. UNCHANGED <<call, injected, flags, hitl_decision, final_output, submitted,
                    posting, findings, status, resumed>>
    BY DEF RunSpecialist
  <1>3. TypeOK'
    <2>1. \E found \in SUBSET Chunk : evidence' = GatheredWith(s, found)
      BY DEF RunSpecialist
    <2>2. evidence' \in Counts
      BY <1>0, <2>1 DEF GatheredWith, TypeOK, Counts
    <2>3. drafts' \subseteq Specialist
      BY <1>0 DEF RunSpecialist, DraftsWith, TypeOK
    <2>4. next' \subseteq Node
      BY <1>1 DEF Node
    <2>5. UNCHANGED <<plan, retry_count, context, score>>
      BY DEF RunSpecialist
    <2> QED BY <1>0, <1>2, <2>2, <2>3, <2>4, <2>5 DEF TypeOK
  <1>4. ASSUME NEW n, next' = {n} PROVE n \in Specialist \cup {"context_engineering"}
    BY <1>1, <1>4
  <1>5. /\ Superstep' /\ Gathering'
        /\ next' \notin {{"guardrail_in"}, {"planner"}, {"evaluation"}}
    BY <1>1, <1>4, SpecialistAssumption DEF Superstep, Gathering
  <1>6. Gathering /\ next # {"guardrail_in"}
    <2>1. s \in next
      BY DEF RunSpecialist
    <2> QED BY <2>1, SpecialistAssumption DEF Gathering
  <1> QED BY <1>2, <1>3, <1>5, <1>6, GathersOn DEF GraphInv

LEMMA InitGraphInv == Init => GraphInv
  <1> SUFFICES ASSUME Init PROVE GraphInv
    OBVIOUS
  <1> USE SpecialistAssumption, ReplanAssumption, NoneAssumption
  <1>0. \A r \in Resumption : resumed[r] = None
    BY DEF Init
  <1>1. TypeOK
    <2>1. NoChunks \in Counts /\ 0 \in 0 .. MaxReplans
      BY DEF NoChunks, Counts
    <2>2. /\ retry_count \in 0 .. MaxReplans /\ evidence \in Counts
          /\ findings \in Seq(FindingDraft)
      BY <2>1 DEF Init
    <2>3. /\ call \in {None, "start"}
          /\ resumed \in [Resumption -> {None} \cup Execution]
          /\ next \subseteq Node
          /\ plan \subseteq Specialist /\ drafts \subseteq Specialist
          /\ context \subseteq Specialist /\ flags \subseteq FlagKind
          /\ injected \in BOOLEAN /\ score \in BOOLEAN
          /\ final_output \in BOOLEAN /\ submitted \in BOOLEAN
          /\ hitl_decision \in {None} \cup HitlDecision
          /\ posting \in {None} \cup Counts /\ status \in {None} \cup RunStatus
      BY DEF Init
    <2> QED BY <2>2, <2>3 DEF TypeOK
  <1>2. Standing
    BY <1>0 DEF Init, Standing, Superstep, HitlDecision
  <1>3. Screening
    BY DEF Init, Screening, Gathering, Started
  <1>4. Posting
    BY DEF Init, Posting, Gathering, DraftMatchesReview
  <1>5. Stopping
    BY DEF Init, Stopping, StatusTellsPath, HitlDecision, RunStatus
  <1>6. Reviews
    BY <1>0 DEF Init, Reviews, InterruptOpened, RunStatus
  <1> QED BY <1>1, <1>2, <1>3, <1>4, <1>5, <1>6 DEF GraphInv

\* A resumption that only takes a copy, or gives up its own, leaves the run as it
\* is.
LEMMA CopyKeeps ==
    ASSUME GraphInv, NEW r \in Resumption, NEW copy \in {None} \cup Execution,
           InterruptOpened,
           copy # None =>
              /\ copy.next = {"hitl"} => ~ copy.final_output
              /\ copy.next # {"hitl"} => hitl_decision # None /\ copy.hitl_decision # None
              /\ copy.final_output \/ copy.next = {"report_generation"} =>
                    copy.hitl_decision = "approve",
           resumed' = [resumed EXCEPT ![r] = copy],
           UNCHANGED <<call, next, injected, channels, posting, findings, status>>
    PROVE  GraphInv'
  <1> USE DEF GraphInv, channels
  <1>1. resumed \in [Resumption -> {None} \cup Execution]
    BY DEF TypeOK
  <1>2. TypeOK'
    BY <1>1 DEF TypeOK
  <1>3. \A q \in Resumption : resumed'[q] = IF q = r THEN copy ELSE resumed[q]
    BY <1>1
  <1>4. Standing'
    BY <1>1, <1>3 DEF Standing, Superstep, Started, Reviews
  <1>5. Screening' /\ Posting' /\ Stopping'
    BY DEF Screening, Posting, Gathering, Stopping, DraftMatchesReview, StatusTellsPath, Started
  <1>6. Reviews'
    BY <1>3 DEF Reviews, InterruptOpened
  <1> QED BY <1>2, <1>4, <1>5, <1>6

\* A resumption writes its checkpoint, whatever the thread held.
LEMMA CheckpointKeeps ==
    ASSUME GraphInv, NEW r \in Resumption, resumed[r] # None, resumed[r] \in Execution,
           resumed \in [Resumption -> {None} \cup Execution],
           status # None, call = None, posting = None, InterruptOpened,
           Hitl(r) \/ ReportGeneration(r)
    PROVE  GraphInv'
  <1> USE NoneAssumption, NoExecution DEF GraphInv
  <1>1. PICK copy \in Execution :
           /\ Checkpoint(r, copy)
           /\ copy.next \in {{}, {"report_generation"}}
           /\ copy.hitl_decision \in HitlDecision
           /\ copy.final_output \/ copy.next = {"report_generation"} =>
                 copy.hitl_decision = "approve"
    <2>1. CASE Hitl(r)
      <3> DEFINE copy == [resumed[r] EXCEPT !.hitl_decision = resumed[r].decision,
                                            !.next = RouteAfterHitl(resumed[r].decision)]
      <3>1. /\ copy \in Execution
            /\ copy.next = RouteAfterHitl(resumed[r].decision)
            /\ copy.hitl_decision = resumed[r].decision
            /\ copy.final_output = resumed[r].final_output
            /\ resumed[r].decision \in HitlDecision
        BY DEF Execution, RouteAfterHitl
      <3>2. ~ resumed[r].final_output
        BY <2>1 DEF Hitl, StandsAt, Reviews
      <3>3. /\ Checkpoint(r, copy)
            /\ copy.next \in {{}, {"report_generation"}}
            /\ copy.next = {"report_generation"} => copy.hitl_decision = "approve"
        BY <2>1, <3>1 DEF Hitl, RouteAfterHitl
      <3> HIDE DEF copy
      <3> QED BY <3>1, <3>2, <3>3
    <2>2. CASE ReportGeneration(r)
      <3> DEFINE copy == [resumed[r] EXCEPT !.final_output = TRUE, !.next = {}]
      <3>1. /\ copy \in Execution
            /\ copy.next = {} /\ copy.final_output
            /\ copy.hitl_decision = resumed[r].hitl_decision
        BY DEF Execution
      <3>2. resumed[r].hitl_decision = "approve"
        BY <2>2 DEF ReportGeneration, StandsAt, Reviews
      <3> QED BY <2>2, <3>1, <3>2 DEF ReportGeneration, HitlDecision
    <2> QED BY <2>1, <2>2
  <1>2. /\ hitl_decision' \in HitlDecision /\ hitl_decision' # None
        /\ next' \in {{}, {"report_generation"}}
        /\ final_output' \/ next' = {"report_generation"} => hitl_decision' = "approve"
        /\ UNCHANGED <<call, injected, plan, retry_count, evidence, drafts, context, score,
                       flags, submitted, posting, findings, status>>
    BY <1>1 DEF Checkpoint
  <1>3. \A q \in Resumption : resumed'[q] = IF q = r THEN copy ELSE resumed[q]
    BY <1>1 DEF Checkpoint
  <1>4. TypeOK'
    <2>1. resumed' \in [Resumption -> {None} \cup Execution]
      BY <1>1 DEF Checkpoint
    <2>2. final_output' \in BOOLEAN
      BY <1>1 DEF Checkpoint, Execution
    <2>3. next' \subseteq Node
      BY <1>2 DEF Node
    <2> QED BY <1>2, <2>1, <2>2, <2>3 DEF TypeOK
  <1>5. /\ score /\ context # {} /\ ~ injected /\ "prompt_injection" \notin flags
    BY DEF Reviews, Screening, Stopping, InterruptOpened
  <1>6. Started /\ Started' /\ call' = None /\ None # "start"
    BY <1>2 DEF Started
  <1>7. Standing'
    BY <1>2, <1>6 DEF Standing, Superstep
  <1>8. Screening'
    BY <1>2, <1>5, <1>6 DEF Screening, Gathering
  <1>9. Posting'
    BY <1>2 DEF Posting, Gathering, DraftMatchesReview
  <1>10. Stopping'
    <2>1. status # "cannot_conclude"
      BY DEF Stopping, InterruptOpened
    <2> QED BY <1>2, <1>5, <1>6, <2>1 DEF Stopping, StatusTellsPath
  <1>11. Reviews'
    <2>1. InterruptOpened'
      BY <1>2 DEF InterruptOpened
    <2> QED BY <1>1, <1>2, <1>3, <1>5, <2>1 DEF Reviews
  <1> QED BY <1>4, <1>7, <1>8, <1>9, <1>10, <1>11

\* The status of the resolution is recorded of a run that has been decided.
LEMMA StopResumeKeeps ==
    ASSUME GraphInv, NEW r \in Resumption, resumed[r] # None,
           resumed \in [Resumption -> {None} \cup Execution],
           status # None, call = None, InterruptOpened, StopResume(r)
    PROVE  GraphInv'
  <1> USE NoneAssumption DEF GraphInv, channels
  <1>1. /\ hitl_decision # None
        /\ score /\ context # {} /\ ~ injected
        /\ status' \in {"completed", "halted"} /\ status' # None
        /\ UNCHANGED <<call, next, injected, channels, posting, findings>>
    BY DEF StopResume, Reviews, RunStatus
  <1>2. \A q \in Resumption : resumed'[q] = IF q = r THEN None ELSE resumed[q]
    BY DEF StopResume
  <1>3. TypeOK'
    BY <1>1 DEF StopResume, TypeOK, RunStatus
  <1>4. Started /\ Started'
    BY <1>1 DEF Started
  <1>5. Standing'
    BY <1>1, <1>4 DEF Standing, Superstep
  <1>6. Screening' /\ Posting'
    BY <1>1, <1>4 DEF Screening, Posting, Gathering, DraftMatchesReview
  <1>7. Stopping'
    BY <1>1 DEF Stopping, StatusTellsPath
  <1>8. Reviews'
    BY <1>1, <1>2 DEF Reviews, InterruptOpened
  <1> QED BY <1>3, <1>5, <1>6, <1>7, <1>8

LEMMA GraphInvStep == GraphInv /\ [Next]_vars => GraphInv'
  <1> SUFFICES ASSUME GraphInv, [Next]_vars PROVE GraphInv'
    OBVIOUS
  <1> USE SpecialistAssumption, ReplanAssumption, NoneAssumption DEF GraphInv, channels,
         Node, HitlDecision, RunStatus, FlagKind
  <1>1. ASSUME StartRun PROVE GraphInv'
    <2>1. TypeOK'
      BY <1>1 DEF StartRun, TypeOK
    <2>2. Standing'
      BY <1>1 DEF StartRun, TypeOK, Standing, Superstep, Started
    <2>3. Screening'
      BY <1>1 DEF StartRun, TypeOK, Standing, Screening, Gathering, Superstep, Started
    <2>4. Posting'
      BY <1>1 DEF StartRun, TypeOK, Standing, Screening, Posting, Gathering,
         DraftMatchesReview, Superstep, Started
    <2>5. Stopping'
      BY <1>1 DEF StartRun, TypeOK, Standing, Screening, Posting, Stopping, StatusTellsPath,
         Gathering, Superstep, Started
    <2>6. Reviews'
      BY <1>1 DEF StartRun, Standing, Reviews, InterruptOpened
    <2> QED BY <2>1, <2>2, <2>3, <2>4, <2>5, <2>6
  <1>2. ASSUME GuardrailIn PROVE GraphInv'
    <2>1. TypeOK'
      BY <1>2 DEF GuardrailIn, TypeOK
    <2>2. Standing'
      BY <1>2 DEF GuardrailIn, TypeOK, Standing, Superstep, Started
    <2>3. Screening'
      BY <1>2 DEF GuardrailIn, TypeOK, Standing, Screening, Posting, Gathering, Superstep,
         Started
    <2>4. Posting'
      BY <1>2 DEF GuardrailIn, TypeOK, Standing, Screening, Posting, Gathering,
         DraftMatchesReview, Superstep, Started
    <2>5. Stopping'
      BY <1>2 DEF GuardrailIn, TypeOK, Standing, Screening, Posting, Stopping,
         StatusTellsPath, Gathering, Superstep, Started
    <2>6. Reviews'
      <3>1. call = "start" /\ next' # {"report_generation"}
        BY <1>2 DEF GuardrailIn, Standing
      <3> QED BY <1>2, <3>1, NothingReviewed DEF GuardrailIn
    <2> QED BY <2>1, <2>2, <2>3, <2>4, <2>5, <2>6
  <1>3. ASSUME Planner PROVE GraphInv'
    BY <1>3, PlannerKeeps
  <1>4. ASSUME NEW s \in Specialist, RunSpecialist(s) PROVE GraphInv'
    BY <1>4, RunSpecialistKeeps
  <1>5. ASSUME ContextEngineering PROVE GraphInv'
    <2>1. TypeOK'
      BY <1>5 DEF ContextEngineering, TypeOK
    <2>2. Standing'
      BY <1>5 DEF ContextEngineering, TypeOK, Standing, Superstep, Started
    <2>3. Screening'
      BY <1>5 DEF ContextEngineering, TypeOK, Standing, Screening, Gathering, Superstep,
         Started
    <2>4. Posting'
      <3>1. findings' = <<>> /\ posting' = None /\ ~ submitted'
        BY <1>5 DEF ContextEngineering, Posting, Gathering
      <3> QED BY <3>1, NothingDrafted DEF Posting
    <2>5. Stopping'
      BY <1>5 DEF ContextEngineering, TypeOK, Standing, Screening, Posting, Stopping,
         StatusTellsPath, Gathering, Superstep, Started
    <2>6. Reviews'
      <3>1. call = "start" /\ next' # {"report_generation"}
        BY <1>5 DEF ContextEngineering, Standing
      <3> QED BY <1>5, <3>1, NothingReviewed DEF ContextEngineering
    <2> QED BY <2>1, <2>2, <2>3, <2>4, <2>5, <2>6
  <1>6. ASSUME Evaluation PROVE GraphInv'
    <2>1. TypeOK'
      <3>1. score' \in BOOLEAN
        BY <1>6 DEF Evaluation, Scores
      <3>2. next' \subseteq Node
        BY <1>6 DEF Evaluation, RouteAfterEvaluation
      <3> QED BY <1>6, <3>1, <3>2 DEF Evaluation, TypeOK
    <2>2. Standing'
      BY <1>6 DEF Evaluation, Scores, RouteAfterEvaluation, TypeOK, Standing, Superstep,
         Started
    <2>3. Screening'
      BY <1>6 DEF Evaluation, Scores, RouteAfterEvaluation, TypeOK, Standing, Screening,
         Gathering, Superstep, Started
    <2>4. Posting'
      <3>1. findings' = <<>> /\ posting' = None /\ ~ submitted'
        BY <1>6 DEF Evaluation, Posting, Gathering
      <3> QED BY <3>1, NothingDrafted DEF Posting
    <2>5. Stopping'
      <3>1. next' = {} => ~ score' /\ retry_count' = MaxReplans /\ findings' = <<>>
        <4>1. findings' = <<>> /\ retry_count' = retry_count
          BY <1>6 DEF Evaluation, Posting, Gathering
        <4>2. next' = {} => ~ score' /\ ~ (retry_count < MaxReplans)
          BY <1>6 DEF Evaluation, RouteAfterEvaluation
        <4>3. retry_count \in 0 .. MaxReplans
          BY DEF TypeOK
        <4> QED BY <4>1, <4>2, <4>3
      <3>2. call = "start" /\ call' = "start" /\ status' = None /\ hitl_decision' = None
        BY <1>6 DEF Evaluation, Standing, TypeOK
      <3>3. next' \in {{}, {"planner"}, {"guardrail_out"}}
        BY <1>6 DEF Evaluation, RouteAfterEvaluation
      <3> QED BY <3>1, <3>2, <3>3 DEF Stopping, StatusTellsPath
    <2>6. Reviews'
      <3>1. call = "start" /\ next' # {"report_generation"}
        BY <1>6 DEF Evaluation, RouteAfterEvaluation, Standing
      <3> QED BY <1>6, <3>1, NothingReviewed DEF Evaluation
    <2> QED BY <2>1, <2>2, <2>3, <2>4, <2>5, <2>6
  <1>7. ASSUME GuardrailOut PROVE GraphInv'
    <2>1. TypeOK'
      BY <1>7 DEF GuardrailOut, RouteAfterGuardrailOut, TypeOK
    <2>2. Standing'
      BY <1>7 DEF GuardrailOut, RouteAfterGuardrailOut, TypeOK, Standing, Superstep, Started
    <2>3. Screening'
      BY <1>7 DEF GuardrailOut, RouteAfterGuardrailOut, TypeOK, Standing, Screening,
         Gathering, Superstep, Started
    <2>4. Posting'
      BY <1>7 DEF GuardrailOut, RouteAfterGuardrailOut, TypeOK, Standing, Screening,
         Posting, Gathering, DraftMatchesReview, Superstep, Started
    <2>5. Stopping'
      BY <1>7 DEF GuardrailOut, RouteAfterGuardrailOut, TypeOK, Standing, Screening,
         Posting, Stopping, StatusTellsPath, Gathering, Superstep, Started
    <2>6. Reviews'
      <3>1. call = "start" /\ next' # {"report_generation"}
        BY <1>7 DEF GuardrailOut, RouteAfterGuardrailOut, Standing
      <3> QED BY <1>7, <3>1, NothingReviewed DEF GuardrailOut
    <2> QED BY <2>1, <2>2, <2>3, <2>4, <2>5, <2>6
  <1>8. ASSUME PostFinding PROVE GraphInv'
    <2>1. TypeOK'
      <3>1. findings' \in Seq(FindingDraft)
        BY <1>8, FindingPosted DEF PostFinding, FindingPending
      <3> QED BY <1>8, <3>1 DEF PostFinding, TypeOK
    <2>2. Standing'
      BY <1>8 DEF PostFinding, FindingPending, TypeOK, Standing, Superstep, Started
    <2>3. Screening'
      BY <1>8 DEF PostFinding, FindingPending, Screening, Posting, Gathering, Started
    <2>4. Posting'
      <3>1. /\ next = {"guardrail_out"} /\ next' = next
            /\ posting = evidence /\ posting' = posting /\ evidence' = evidence
            /\ score' /\ context' = context
            /\ ~ submitted' /\ posting # None
        BY <1>8 DEF PostFinding, FindingPending, Posting, Screening
      <3>2. /\ findings' # <<>>
            /\ Len(findings') = 1 /\ DOMAIN findings' = {1}
            /\ findings'[1].description = context
            /\ findings'[1].citations = NoChunks
        BY <1>8, FindingPosted DEF PostFinding, FindingPending
      <3>3. \A c \in Chunk : findings'[1].citations[c] = 0 /\ evidence[c] \in Nat
        BY <3>2 DEF NoChunks, TypeOK, Counts
      <3>4. DraftMatchesReview'
        BY <3>1, <3>2, <3>3 DEF DraftMatchesReview
      <3>5. \A c \in Chunk : findings'[1].citations[c] + posting'[c] = evidence'[c]
        BY <3>1, <3>3
      <3> QED BY <3>1, <3>2, <3>4, <3>5 DEF Posting, Gathering
    <2>5. Stopping'
      BY <1>8 DEF PostFinding, FindingPending, TypeOK, Standing, Screening, Posting,
         Stopping, StatusTellsPath, Gathering, Superstep, Started
    <2>6. Reviews'
      <3>1. call = "start" /\ next' # {"report_generation"}
        BY <1>8 DEF PostFinding, FindingPending, Posting, Standing
      <3> QED BY <1>8, <3>1, NothingReviewed DEF PostFinding
    <2> QED BY <2>1, <2>2, <2>3, <2>4, <2>5, <2>6
  <1>9. ASSUME PostEvidence PROVE GraphInv'
    <2>0. PICK c \in Chunk : /\ posting[c] > 0
                             /\ posting' = [posting EXCEPT ![c] = @ - 1]
                             /\ findings' = WithCitation(c)
      BY <1>9 DEF PostEvidence
    <2>1. TypeOK'
      <3>1. findings' \in Seq(FindingDraft)
        BY <1>9, <2>0, CitationPosted DEF PostEvidence, Posting
      <3>2. posting' \in Counts
        BY <1>9, <2>0 DEF PostEvidence, TypeOK, Counts
      <3> QED BY <1>9, <3>1, <3>2 DEF PostEvidence, TypeOK
    <2>2. Standing'
      BY <1>9 DEF PostEvidence, TypeOK, Standing, Superstep, Started
    <2>3. Screening'
      BY <1>9 DEF PostEvidence, TypeOK, Standing, Screening, Gathering, Superstep, Started
    <2>4. Posting'
      <3>1. /\ next = {"guardrail_out"} /\ next' = next
            /\ evidence' = evidence
            /\ score' /\ context' = context
            /\ ~ submitted' /\ posting # None /\ findings # <<>>
            /\ \A k \in Chunk : findings[1].citations[k] + posting[k] = evidence[k]
        BY <1>9 DEF PostEvidence, Posting, Screening
      <3>2. /\ findings' # <<>>
            /\ Len(findings') = 1 /\ DOMAIN findings' = {1}
            /\ findings'[1].description = findings[1].description
            /\ \A k \in Chunk : findings'[1].citations[k] =
                  findings[1].citations[k] + (IF k = c THEN 1 ELSE 0)
        BY <2>0, <3>1, CitationPosted DEF Posting
      <3>3. /\ findings[1].description = context
            /\ findings[1].citations \in Counts
        BY <3>1, FindingShape DEF Posting, DraftMatchesReview
      <3>4. /\ posting' \in Counts
            /\ \A k \in Chunk : posting'[k] = posting[k] - (IF k = c THEN 1 ELSE 0)
        BY <2>0, <3>1 DEF TypeOK, Counts
      <3>5. \A k \in Chunk : /\ posting[k] \in Nat /\ posting'[k] \in Nat
                             /\ findings[1].citations[k] \in Nat
        BY <2>0, <3>1, <3>3, <3>4 DEF TypeOK, Counts
      <3>6. \A k \in Chunk : findings'[1].citations[k] + posting'[k] = evidence[k]
        BY <3>1, <3>2, <3>4, <3>5
      <3>7. \A k \in Chunk : findings'[1].citations[k] <= evidence[k]
        BY <3>2, <3>5, <3>6
      <3>8. DraftMatchesReview'
        BY <3>1, <3>2, <3>3, <3>7 DEF DraftMatchesReview
      <3> QED BY <3>1, <3>2, <3>4, <3>6, <3>8 DEF Posting, Gathering
    <2>5. Stopping'
      BY <1>9 DEF PostEvidence, TypeOK, Standing, Screening, Posting, Stopping,
         StatusTellsPath, Gathering, Superstep, Started
    <2>6. Reviews'
      <3>1. call = "start" /\ next' # {"report_generation"}
        BY <1>9 DEF PostEvidence, Posting, Standing
      <3> QED BY <1>9, <3>1, NothingReviewed DEF PostEvidence
    <2> QED BY <2>1, <2>2, <2>3, <2>4, <2>5, <2>6
  <1>10. ASSUME FinishSubmission PROVE GraphInv'
    <2>1. TypeOK'
      BY <1>10 DEF FinishSubmission, RouteAfterGuardrailOut, TypeOK
    <2>2. Standing'
      BY <1>10 DEF FinishSubmission, RouteAfterGuardrailOut, TypeOK, Standing, Superstep,
         Started
    <2>3. Screening'
      <3>1. next = {"guardrail_out"} /\ next' = {"hitl"}
        BY <1>10 DEF FinishSubmission, RouteAfterGuardrailOut, Screening, Posting, TypeOK,
           NoChunks, Counts
      <3> QED BY <1>10, <3>1 DEF FinishSubmission, Screening, Gathering, Started
    <2>4. Posting'
      <3>1. /\ next = {"guardrail_out"} /\ next' = {"hitl"}
            /\ findings # <<>> /\ findings' = findings /\ posting' = None
            /\ evidence' = evidence /\ context' = context /\ score' = score
            /\ \A k \in Chunk : findings[1].citations[k] + posting[k] = evidence[k]
        BY <1>10 DEF FinishSubmission, RouteAfterGuardrailOut, Screening, Posting, TypeOK,
           NoChunks, Counts
      <3>2. findings[1].citations \in Counts /\ Len(findings) = 1
        BY <3>1, FindingShape DEF Posting
      <3>3. \A k \in Chunk : findings[1].citations[k] = evidence[k]
        BY <1>10, <3>1, <3>2 DEF FinishSubmission, NoChunks, Counts
      <3>4. findings[1].citations = evidence
        BY <3>2, <3>3 DEF TypeOK, Counts
      <3>5. DraftMatchesReview'
        BY <3>1, <3>2, <3>4 DEF DraftMatchesReview, Posting
      <3> QED BY <3>1, <3>5 DEF Posting, Gathering
    <2>5. Stopping'
      BY <1>10 DEF FinishSubmission, RouteAfterGuardrailOut, TypeOK, Standing, Screening,
         Posting, Stopping, StatusTellsPath, Gathering, Superstep, Started
    <2>6. Reviews'
      <3>1. call = "start" /\ next' # {"report_generation"}
        <4>1. posting # None
          BY <1>10 DEF FinishSubmission, NoChunks, Counts
        <4>2. next = {"guardrail_out"}
          BY <4>1 DEF Posting
        <4>3. next' \in {{}, {"hitl"}}
          BY <1>10 DEF FinishSubmission, RouteAfterGuardrailOut
        <4> QED BY <4>2, <4>3 DEF Standing
      <3> QED BY <1>10, <3>1, NothingReviewed DEF FinishSubmission
    <2> QED BY <2>1, <2>2, <2>3, <2>4, <2>5, <2>6
  <1>11. ASSUME SubmissionFails PROVE GraphInv'
    <2>0. /\ posting # None /\ next = {"guardrail_out"} /\ next' = {"hitl"}
          /\ ~ submitted /\ posting' = None
      BY <1>11 DEF SubmissionFails, RouteAfterGuardrailOut, Screening, Posting
    <2>1. TypeOK'
      <3>1. findings' \in Seq(FindingDraft)
        BY <1>11, FindingPosted, CitationPosted
        DEF SubmissionFails, FindingPending, TypeOK, Posting
      <3> QED BY <1>11, <2>0, <3>1 DEF SubmissionFails, TypeOK
    <2>2. Standing'
      BY <1>11 DEF SubmissionFails, RouteAfterGuardrailOut, FindingPending, TypeOK,
         Standing, Superstep, Started
    <2>3. Screening'
      BY <1>11, <2>0 DEF SubmissionFails, Screening, Gathering, Started
    <2>4. Posting'
      <3>1. /\ score' /\ context' = context /\ evidence' = evidence /\ ~ submitted'
        BY <1>11, <2>0 DEF SubmissionFails, Screening
      <3>2. CASE findings' = findings
        BY <2>0, <3>1, <3>2 DEF Posting, Gathering, DraftMatchesReview
      <3>3. CASE findings = <<>> /\ findings' = WithFinding
        <4>1. /\ Len(findings') = 1 /\ DOMAIN findings' = {1}
              /\ findings'[1].description = context
              /\ findings'[1].citations = NoChunks
          BY <3>3, FindingPosted
        <4>2. \A c \in Chunk : findings'[1].citations[c] <= evidence[c]
          BY <4>1 DEF NoChunks, TypeOK, Counts
        <4> QED BY <2>0, <3>1, <4>1, <4>2 DEF Posting, Gathering, DraftMatchesReview
      <3>4. ASSUME NEW c \in Chunk, posting[c] > 0, findings # <<>>,
                   findings' = WithCitation(c)
            PROVE  Posting'
        <4>1. /\ Len(findings') = 1 /\ DOMAIN findings' = {1}
              /\ findings'[1].description = findings[1].description
              /\ \A k \in Chunk : findings'[1].citations[k] =
                    findings[1].citations[k] + (IF k = c THEN 1 ELSE 0)
          BY <3>4, CitationPosted DEF Posting
        <4>2. /\ findings[1].description = context
              /\ findings[1].citations \in Counts
          BY <3>4, FindingShape DEF Posting, DraftMatchesReview
        <4>3. \A k \in Chunk : findings[1].citations[k] + posting[k] = evidence[k]
          BY <2>0, <3>4 DEF Posting
        <4>4. \A k \in Chunk : posting[k] \in Nat /\ findings[1].citations[k] \in Nat
          BY <2>0, <4>2 DEF TypeOK, Counts
        <4>5. \A k \in Chunk : findings'[1].citations[k] <= evidence[k]
          BY <3>4, <4>1, <4>3, <4>4
        <4> QED BY <2>0, <3>1, <4>1, <4>2, <4>5 DEF Posting, Gathering, DraftMatchesReview
      <3> QED BY <1>11, <3>2, <3>3, <3>4 DEF SubmissionFails, FindingPending
    <2>5. Stopping'
      BY <1>11 DEF SubmissionFails, RouteAfterGuardrailOut, FindingPending, TypeOK,
         Standing, Screening, Posting, Stopping, StatusTellsPath, Gathering, Superstep,
         Started
    <2>6. Reviews'
      <3>1. call = "start" /\ next' # {"report_generation"}
        BY <1>11 DEF SubmissionFails, RouteAfterGuardrailOut, Posting, Standing
      <3> QED BY <1>11, <3>1, NothingReviewed DEF SubmissionFails
    <2> QED BY <2>1, <2>2, <2>3, <2>4, <2>5, <2>6
  <1>12. ASSUME StopStart PROVE GraphInv'
    <2>1. TypeOK'
      BY <1>12 DEF StopStart, StopsHere, TerminalStatus, TypeOK
    <2>2. Standing'
      BY <1>12 DEF StopStart, StopsHere, TerminalStatus, TypeOK, Standing, Superstep, Started
    <2>3. Screening'
      BY <1>12 DEF StopStart, StopsHere, TerminalStatus, TypeOK, Standing, Screening,
         Gathering, Superstep, Started
    <2>4. Posting'
      BY <1>12 DEF StopStart, StopsHere, TerminalStatus, TypeOK, Standing, Screening,
         Posting, Gathering, DraftMatchesReview, Superstep, Started
    <2>5. Stopping'
      BY <1>12 DEF StopStart, StopsHere, TerminalStatus, TypeOK, Standing, Screening,
         Posting, Stopping, StatusTellsPath, Gathering, Superstep, Started
    <2>6. Reviews'
      BY <1>12 DEF StopStart, StopsHere, TerminalStatus, TypeOK, Standing, Screening,
         Stopping, Reviews, InterruptOpened
    <2> QED BY <2>1, <2>2, <2>3, <2>4, <2>5, <2>6
  <1>13. ASSUME StartRaises PROVE GraphInv'
    <2>1. status = None /\ hitl_decision = None /\ ~ final_output
          /\ \A r \in Resumption : resumed[r] = None
      BY <1>13 DEF StartRaises, Standing
    <2>2. Init'
      <3>1. resumed = [r \in Resumption |-> None]
        BY <2>1 DEF TypeOK
      <3>2. final_output = FALSE
        BY <2>1 DEF TypeOK
      <3> QED BY <1>13, <2>1, <3>1, <3>2 DEF StartRaises, Init
    <2> QED BY <2>2, InitGraphInv, PTL
  <1>14. ASSUME NEW r \in Resumption, ResumeStep(r) PROVE GraphInv'
    <2> USE DEF StandsAt
    <2>1. resumed[r] # None /\ resumed \in [Resumption -> {None} \cup Execution]
      BY <1>14 DEF ResumeStep, Hitl, ReportGeneration, StopResume, ResumeRaises, TypeOK
    <2>2. resumed[r] \in Execution
      BY <2>1
    <2>3. /\ status # None /\ call = None /\ posting = None /\ InterruptOpened
          /\ next \in {{}, {"hitl"}, {"report_generation"}}
      BY <2>1 DEF TypeOK, Standing, Posting, Reviews
    <2>4. CASE Hitl(r) \/ ReportGeneration(r)
      BY <2>1, <2>2, <2>3, <2>4, CheckpointKeeps
    <2>5. CASE StopResume(r)
      BY <2>1, <2>2, <2>3, <2>5, StopResumeKeeps
    <2>6. CASE ResumeRaises(r)
      BY <2>1, <2>3, <2>6, CopyKeeps DEF ResumeRaises
    <2> QED BY <1>14, <2>4, <2>5, <2>6 DEF ResumeStep
  <1>15. ASSUME NEW r \in Resumption, NEW d \in HitlDecision, Resume(r, d) PROVE GraphInv'
    <2> DEFINE copy == [decision |-> d, next |-> next, hitl_decision |-> hitl_decision,
                        final_output |-> final_output]
    <2>1. /\ status # None /\ call = None /\ InterruptOpened
          /\ next \in {{}, {"hitl"}, {"report_generation"}}
      BY <1>15 DEF Resume, TypeOK, Standing, Reviews
    <2>2. copy \in Execution
      BY <2>1 DEF TypeOK, Execution
    <2>3. /\ copy.next = {"hitl"} => ~ copy.final_output
          /\ copy.next # {"hitl"} => hitl_decision # None /\ copy.hitl_decision # None
          /\ copy.final_output \/ copy.next = {"report_generation"} =>
                copy.hitl_decision = "approve"
      BY <2>1 DEF Reviews, Stopping, InterruptOpened
    <2> HIDE DEF copy
    <2> QED BY <1>15, <2>1, <2>2, <2>3, CopyKeeps DEF Resume, copy
  <1>16. CASE UNCHANGED vars
    BY <1>16 DEF vars, TypeOK, Standing, Screening, Posting, Gathering, Stopping, Reviews,
       DraftMatchesReview, StatusTellsPath, Superstep, Started, InterruptOpened
  <1> QED BY <1>1, <1>2, <1>3, <1>4, <1>5, <1>6, <1>7, <1>8, <1>9, <1>10, <1>11, <1>12, <1>13,
             <1>14, <1>15, <1>16
          DEF Next, StartStep

LEMMA GraphInvAlways == Spec => []GraphInv
  BY InitGraphInv, GraphInvStep, PTL DEF Spec

(***************************************************************************)
(* What follows from it                                                    *)
(***************************************************************************)
\* Every channel keeps its type; in particular a run never re-plans more often
\* than settings.max_replans allows, however the judge scores it.
THEOREM TypeCorrect == Spec => []TypeOK
  <1>1. GraphInv => TypeOK
    BY DEF GraphInv
  <1> QED BY <1>1, GraphInvAlways, PTL

\* A run that pauses for a review has passed the judge and the input scan with
\* the context it stands at, whatever specialists it ran and however often it
\* planned.
THEOREM ReviewAlwaysScreened == Spec => []ReviewFollowsScreening
  <1>1. GraphInv => ReviewFollowsScreening
    BY DEF GraphInv, Screening, ReviewFollowsScreening
  <1> QED BY <1>1, GraphInvAlways, PTL

\* The draft finding in apps/api is the one the reviewer is asked about, wherever
\* the calls that post it fail, for any evidence.
THEOREM DraftAlwaysMatches == Spec => []DraftMatchesReview
  <1>1. GraphInv => DraftMatchesReview
    BY DEF GraphInv, Posting
  <1> QED BY <1>1, GraphInvAlways, PTL

\* The recorded status names the path the run took, however many resumptions
\* overlap and wherever one fails.
THEOREM StatusAlwaysTellsPath == Spec => []StatusTellsPath
  <1>1. GraphInv => StatusTellsPath
    BY DEF GraphInv, Stopping
  <1> QED BY <1>1, GraphInvAlways, PTL

(***************************************************************************)
(* Each step of a call counts                                              *)
(***************************************************************************)
\* How far a call is from its end: the plans it may still make, and the steps up
\* to the next one.
PlansLeft == MaxReplans - retry_count + (IF plan = {} THEN 1 ELSE 0)

StepsToNextPlan ==
    CASE next = {} -> 0
      [] next \in {{"planner"}, {"report_generation"}} -> 1
      [] next \in {{"guardrail_in"}, {"hitl"}} -> 2
      [] next = {"guardrail_out"} ->
            IF posting = None THEN 5 ELSE IF findings = <<>> THEN 4 ELSE 3
      [] next = {"evaluation"} -> 6
      [] next = {"context_engineering"} -> 7
      [] OTHER -> 7 + Cardinality(next)

StepsLeft == PlansLeft * (8 + Cardinality(Specialist)) + StepsToNextPlan

CitationSent ==
    \E c \in Chunk : posting[c] > 0 /\ posting' = [posting EXCEPT ![c] = @ - 1]

\* No step of start_run is for nothing, whatever the judge scores and the models
\* answer: it ends the call, brings its end nearer, or posts one of the citations
\* there are to post.  So LangGraph's loop ends for every budget.
EveryStepCounts ==
    [][call = "start" =>
          /\ StepsLeft \in Nat
          /\ \/ call' = None
             \/ StepsLeft' < StepsLeft
             \/ StepsLeft' = StepsLeft /\ CitationSent]_vars

LEMMA SpecialistsCounted ==
    /\ Cardinality(Specialist) \in Nat
    /\ \A T \in SUBSET Specialist :
          /\ Cardinality(T) \in Nat /\ Cardinality(T) <= Cardinality(Specialist)
          /\ \A s \in T : Cardinality(T \ {s}) = Cardinality(T) - 1
  <1>1. IsFiniteSet({"retrieval", "sql", "knowledge_graph", "fraud_detection"})
    <2>1. IsFiniteSet({} \cup {"retrieval"})
      BY FS_EmptySet, FS_AddElement
    <2>2. IsFiniteSet({"retrieval"} \cup {"sql"})
      BY <2>1, FS_AddElement
    <2>3. IsFiniteSet({"retrieval", "sql"} \cup {"knowledge_graph"})
      <3>1. {"retrieval"} \cup {"sql"} = {"retrieval", "sql"}
        OBVIOUS
      <3> QED BY <2>2, <3>1, FS_AddElement
    <2>4. IsFiniteSet({"retrieval", "sql", "knowledge_graph"} \cup {"fraud_detection"})
      <3>1. {"retrieval", "sql"} \cup {"knowledge_graph"} = {"retrieval", "sql", "knowledge_graph"}
        OBVIOUS
      <3> QED BY <2>3, <3>1, FS_AddElement
    <2>5. {"retrieval", "sql", "knowledge_graph"} \cup {"fraud_detection"}
             = {"retrieval", "sql", "knowledge_graph", "fraud_detection"}
      OBVIOUS
    <2> QED BY <2>4, <2>5
  <1>2. IsFiniteSet(Specialist)
    BY <1>1, SpecialistAssumption, FS_Subset
  <1>3. ASSUME NEW T \in SUBSET Specialist
        PROVE  /\ IsFiniteSet(T) /\ Cardinality(T) \in Nat
               /\ Cardinality(T) <= Cardinality(Specialist)
    BY <1>2, <1>3, FS_Subset, FS_CardinalityType
  <1>4. ASSUME NEW T \in SUBSET Specialist, NEW s \in T
        PROVE  Cardinality(T \ {s}) = Cardinality(T) - 1
    BY <1>3, <1>4, FS_RemoveElement
  <1> QED BY <1>2, <1>3, <1>4, FS_CardinalityType

\* The number of steps to the next plan, or to the end, by where the run stands.
Distances ==
    /\ PlansLeft \in Nat
    /\ StepsToNextPlan \in 0 .. 7 + Cardinality(Specialist)
    /\ next = {} => StepsToNextPlan = 0
    /\ next \in {{"planner"}, {"report_generation"}} => StepsToNextPlan = 1
    /\ next \in {{"guardrail_in"}, {"hitl"}} => StepsToNextPlan = 2
    /\ next = {"guardrail_out"} =>
          StepsToNextPlan = IF posting = None THEN 5 ELSE IF findings = <<>> THEN 4 ELSE 3
    /\ next = {"evaluation"} => StepsToNextPlan = 6
    /\ next = {"context_engineering"} => StepsToNextPlan = 7
    /\ next \subseteq Specialist /\ next # {} => StepsToNextPlan = 7 + Cardinality(next)

LEMMA DistancesKnown == GraphInv => Distances
  <1> SUFFICES ASSUME TypeOK, Superstep PROVE Distances
    BY DEF GraphInv, Standing
  <1> DEFINE nodes == {{"planner"}, {"report_generation"}, {"guardrail_in"}, {"hitl"},
                       {"guardrail_out"}, {"evaluation"}, {"context_engineering"}}
  <1>1. PlansLeft \in Nat
    <2>1. retry_count \in 0 .. MaxReplans
      BY DEF TypeOK
    <2> QED BY <2>1, ReplanAssumption DEF PlansLeft
  <1>2. Cardinality(Specialist) \in Nat
    BY SpecialistsCounted
  <1>3. CASE next = {}
    <2>1. StepsToNextPlan = 0
      BY <1>3 DEF StepsToNextPlan
    <2> QED BY <1>1, <1>2, <1>3, <2>1 DEF Distances
  <1>4. CASE next \in nodes
    <2>1. next # {} /\ ~ (next \subseteq Specialist)
      BY <1>4, SpecialistAssumption
    <2>2. StepsToNextPlan =
             IF next \in {{"planner"}, {"report_generation"}} THEN 1
             ELSE IF next \in {{"guardrail_in"}, {"hitl"}} THEN 2
             ELSE IF next = {"guardrail_out"}
                  THEN IF posting = None THEN 5 ELSE IF findings = <<>> THEN 4 ELSE 3
             ELSE IF next = {"evaluation"} THEN 6 ELSE 7
      BY <1>4 DEF StepsToNextPlan
    <2> QED BY <1>1, <1>2, <1>4, <2>1, <2>2 DEF Distances
  <1>5. CASE next \subseteq Specialist /\ next # {}
    <2>1. next \notin nodes
      BY <1>5, SpecialistAssumption
    <2>2. StepsToNextPlan = 7 + Cardinality(next)
      BY <1>5, <2>1 DEF StepsToNextPlan
    <2>3. Cardinality(next) \in Nat /\ Cardinality(next) <= Cardinality(Specialist)
      BY <1>5, SpecialistsCounted
    <2>4. StepsToNextPlan \in 0 .. 7 + Cardinality(Specialist)
      BY <1>2, <2>2, <2>3
    <2> QED BY <1>1, <1>5, <2>1, <2>2, <2>4 DEF Distances
  <1>6. next = {} \/ next \in nodes \/ (next \subseteq Specialist /\ next # {})
    BY DEF Superstep
  <1> QED BY <1>3, <1>4, <1>5, <1>6

\* What the two numbers say of their sum.
LEMMA Nearer ==
    ASSUME NEW p \in Nat, NEW q \in Nat, NEW R \in Nat, NEW d \in Nat, NEW e \in Nat
    PROVE  /\ p * R + d \in Nat
           /\ q = p /\ e < d => q * R + e < p * R + d
           /\ p = q + 1 /\ e < R => q * R + e < p * R + d
  <1>1. p * R \in Nat /\ q * R \in Nat
    OBVIOUS
  <1>2. p = q + 1 => p * R = q * R + R
    OBVIOUS
  <1> QED BY <1>1, <1>2

LEMMA StepCounts ==
    ASSUME GraphInv, Distances, Distances', Next, call = "start"
    PROVE  /\ StepsLeft \in Nat
           /\ \/ call' = None
              \/ StepsLeft' < StepsLeft
              \/ StepsLeft' = StepsLeft /\ CitationSent
  <1> USE SpecialistAssumption
  <1> DEFINE Closer == PlansLeft' = PlansLeft /\ StepsToNextPlan' < StepsToNextPlan
             Planned == PlansLeft = PlansLeft' + 1
  <1>1. /\ PlansLeft \in Nat /\ PlansLeft' \in Nat
        /\ 8 + Cardinality(Specialist) \in Nat
        /\ StepsToNextPlan \in Nat /\ StepsToNextPlan' \in Nat
        /\ StepsToNextPlan' < 8 + Cardinality(Specialist)
    <2>1. Cardinality(Specialist) \in Nat
      BY SpecialistsCounted
    <2> QED BY <2>1 DEF Distances
  <1>2. StepsLeft \in Nat
    BY <1>1, Nearer DEF StepsLeft
  <1>3. Closer \/ Planned => StepsLeft' < StepsLeft
    <2>1. \A p, q, R, d, e \in Nat :
             /\ q = p /\ e < d => q * R + e < p * R + d
             /\ p = q + 1 /\ e < R => q * R + e < p * R + d
      BY Nearer
    <2> QED BY <1>1, <2>1 DEF StepsLeft
  <1>4. UNCHANGED <<plan, retry_count>> => PlansLeft' = PlansLeft
    BY DEF PlansLeft
  <1>5. CASE GuardrailIn
    <2>1. next = {"guardrail_in"} /\ next' \in {{}, {"planner"}}
      BY <1>5 DEF GuardrailIn
    <2>2. Closer
      BY <1>4, <1>5, <2>1 DEF GuardrailIn, Distances
    <2> QED BY <1>2, <1>3, <2>2
  <1>6. CASE Planner
    <2>1. retry_count \in Nat
      BY ReplanAssumption DEF GraphInv, TypeOK
    <2>2. Planned
      BY <1>6, <2>1, ReplanAssumption DEF Planner, PlansLeft
    <2> QED BY <1>2, <1>3, <2>2
  <1>7. ASSUME NEW s \in Specialist, RunSpecialist(s)
        PROVE  StepsLeft' < StepsLeft
    <2>1. s \in next /\ next \subseteq Specialist
      BY <1>7 DEF RunSpecialist, GraphInv, Standing, Superstep
    <2>2. /\ Cardinality(next) \in Nat /\ Cardinality(next \ {s}) \in Nat
          /\ Cardinality(next \ {s}) = Cardinality(next) - 1
      BY <2>1, SpecialistsCounted
    <2>3. StepsToNextPlan = 7 + Cardinality(next)
      BY <2>1 DEF Distances
    <2>4. CASE next \ {s} = {}
      <3>1. next' = {"context_engineering"}
        BY <1>7, <2>4 DEF RunSpecialist, Join
      <3>2. StepsToNextPlan' = 7
        BY <3>1 DEF Distances
      <3>3. Closer
        BY <1>4, <1>7, <2>2, <2>3, <3>2 DEF RunSpecialist
      <3> QED BY <1>3, <3>3
    <2>5. CASE next \ {s} # {}
      <3>1. next' = next \ {s}
        BY <1>7, <2>5 DEF RunSpecialist, Join
      <3>2. next' \subseteq Specialist /\ next' # {}
        BY <2>1, <2>5, <3>1
      <3>3. StepsToNextPlan' = 7 + Cardinality(next')
        BY <3>2 DEF Distances
      <3>4. Closer
        BY <1>4, <1>7, <2>2, <2>3, <3>1, <3>3 DEF RunSpecialist
      <3> QED BY <1>3, <3>4
    <2> QED BY <2>4, <2>5
  <1>8. CASE ContextEngineering
    <2>1. Closer
      BY <1>4, <1>8 DEF ContextEngineering, Distances
    <2> QED BY <1>2, <1>3, <2>1
  <1>9. CASE Evaluation
    <2>1. next' \in {{"guardrail_out"}, {"planner"}, {}}
      BY <1>9 DEF Evaluation, RouteAfterEvaluation
    <2>2. StepsToNextPlan' \in {5, 4, 3, 1, 0} /\ StepsToNextPlan = 6
      BY <1>9, <2>1 DEF Evaluation, Distances
    <2>3. Closer
      BY <1>4, <1>9, <2>2 DEF Evaluation
    <2> QED BY <1>2, <1>3, <2>3
  <1>10. CASE GuardrailOut
    <2>1. next = {"guardrail_out"} /\ posting = None /\ findings' = findings /\ findings = <<>>
      BY <1>10 DEF GuardrailOut, GraphInv, Posting
    <2>2. StepsToNextPlan = 5
      BY <2>1 DEF Distances
    <2>3. \/ next' \in {{}, {"hitl"}}
          \/ next' = next /\ posting' = evidence
      BY <1>10 DEF GuardrailOut, RouteAfterGuardrailOut
    <2>4. evidence # None
      BY NoneAssumption DEF GraphInv, TypeOK
    <2>5. StepsToNextPlan' \in {0, 2, 4}
      BY <2>1, <2>3, <2>4 DEF Distances
    <2>6. Closer
      BY <1>4, <1>10, <2>2, <2>5 DEF GuardrailOut
    <2> QED BY <1>2, <1>3, <2>6
  <1>11. ASSUME PostFinding PROVE StepsLeft' < StepsLeft
    <2>1. posting # None /\ findings = <<>> /\ next = {"guardrail_out"}
      BY <1>11 DEF PostFinding, FindingPending, GraphInv, Posting
    <2>2. findings' # <<>> /\ posting' = posting /\ next' = next
      BY <1>11, <2>1, FindingPosted DEF PostFinding, GraphInv
    <2>3. StepsToNextPlan = 4 /\ StepsToNextPlan' = 3
      BY <2>1, <2>2 DEF Distances
    <2>4. Closer
      BY <1>4, <1>11, <2>3 DEF PostFinding, channels
    <2> QED BY <1>3, <2>4
  <1>12. ASSUME PostEvidence PROVE StepsLeft' = StepsLeft /\ CitationSent
    <2>1. posting # None /\ findings # <<>> /\ next = {"guardrail_out"} /\ next' = next
      BY <1>12 DEF PostEvidence, GraphInv, Posting
    <2>2. PICK c \in Chunk : /\ posting[c] > 0
                             /\ posting' = [posting EXCEPT ![c] = @ - 1]
                             /\ findings' = WithCitation(c)
      BY <1>12 DEF PostEvidence
    <2>3. posting' # None
      <3>1. posting \in Counts
        BY <2>1 DEF GraphInv, TypeOK
      <3>2. posting[c] \in Nat /\ posting[c] - 1 \in Nat
        BY <2>2, <3>1 DEF Counts
      <3>3. posting' \in Counts
        BY <2>2, <3>1, <3>2 DEF Counts
      <3> QED BY <3>3, NoneAssumption
    <2>4. findings' # <<>>
      BY <2>1, <2>2, CitationPosted DEF GraphInv, Posting
    <2>5. StepsToNextPlan = 3 /\ StepsToNextPlan' = 3
      BY <2>1, <2>3, <2>4 DEF Distances
    <2>6. PlansLeft' = PlansLeft
      BY <1>4, <1>12 DEF PostEvidence, channels
    <2> QED BY <2>2, <2>5, <2>6 DEF StepsLeft, CitationSent
  <1>13. ASSUME FinishSubmission \/ SubmissionFails PROVE StepsLeft' < StepsLeft
    <2>1. posting # None /\ next = {"guardrail_out"}
      BY <1>13, NoneAssumption DEF FinishSubmission, SubmissionFails, NoChunks, Counts,
                                   GraphInv, Posting
    <2>2. StepsToNextPlan \in {4, 3}
      BY <2>1 DEF Distances
    <2>3. next' \in {{}, {"hitl"}}
      BY <1>13 DEF FinishSubmission, SubmissionFails, RouteAfterGuardrailOut
    <2>4. StepsToNextPlan' \in {0, 2}
      BY <2>3 DEF Distances
    <2>5. Closer
      BY <1>4, <1>13, <2>2, <2>4 DEF FinishSubmission, SubmissionFails, channels
    <2> QED BY <1>3, <2>5
  <1>14. CASE StopStart \/ StartRaises
    BY <1>2, <1>14 DEF StopStart, StartRaises
  <1>15. /\ ~ StartRun
         /\ \A r \in Resumption : ~ ResumeStep(r) /\ \A d \in HitlDecision : ~ Resume(r, d)
    <2>1. /\ \A r \in Resumption : resumed[r] = None
          /\ ~ InterruptOpened /\ call # None
      BY NoneAssumption DEF GraphInv, Standing, InterruptOpened, RunStatus
    <2> QED BY <2>1 DEF StartRun, Resume, ResumeStep, Hitl, ReportGeneration, StandsAt,
                        StopResume, ResumeRaises
  <1> QED BY <1>2, <1>5, <1>6, <1>7, <1>8, <1>9, <1>10, <1>11, <1>12, <1>13, <1>14, <1>15
          DEF Next, StartStep

\* Every step of start_run brings its end nearer or posts a citation, for every
\* budget, every set of specialists and whatever the models answer: with fair
\* scheduling, which the runs assume, this is why a call of the graph ends.
THEOREM EveryStepAlwaysCounts == Spec => EveryStepCounts
  <1>1. GraphInv /\ Distances /\ Distances' /\ [Next]_vars =>
           [call = "start" =>
               /\ StepsLeft \in Nat
               /\ \/ call' = None
                  \/ StepsLeft' < StepsLeft
                  \/ StepsLeft' = StepsLeft /\ CitationSent]_vars
    BY StepCounts
  <1> QED BY <1>1, DistancesKnown, GraphInvAlways, PTL DEF Spec, EveryStepCounts

(***************************************************************************)
(* The graph implements the review gate                                    *)
(***************************************************************************)
LEMMA GateInit == Init => Gate!Init
  <1> SUFFICES ASSUME Init PROVE Gate!Init
    OBVIOUS
  <1>1. Phase = "idle"
    BY NoneAssumption DEF Init, Phase
  <1>2. ~ ReportDue
    BY DEF Init, ReportDue, StandsAt
  <1> QED BY <1>1, <1>2 DEF Init, Gate!Init, ReportDue

\* The copy of a resumption says whether its report is due; the others' copies, and
\* the thread, say the rest.
LEMMA DueUnless ==
    ASSUME NEW r \in Resumption, NEW copy \in {None} \cup Execution, NoExecution,
           resumed \in [Resumption -> {None} \cup Execution],
           resumed' = [resumed EXCEPT ![r] = copy],
           next' # {"report_generation"} \/ next' = next,
           copy = None \/ copy.next # {"report_generation"}
    PROVE  ReportDue' \in {ReportDue, FALSE}
  <1>1. \A q \in Resumption : resumed'[q] = IF q = r THEN copy ELSE resumed[q]
    OBVIOUS
  <1>2. ReportDue' => ReportDue
    BY <1>1 DEF ReportDue, StandsAt
  <1>3. ReportDue \in BOOLEAN /\ ReportDue' \in BOOLEAN
    BY DEF ReportDue
  <1> QED BY <1>2, <1>3

LEMMA GateStep == GraphInv /\ GraphInv' /\ [Next]_vars => [Gate!Next]_(Gate!gate)
  <1> SUFFICES ASSUME GraphInv, GraphInv', [Next]_vars,
                      ~ UNCHANGED <<Phase, hitl_decision, final_output, ReportDue>>
               PROVE  Gate!Next
    BY DEF Gate!gate
  <1> USE NoneAssumption, NoExecution DEF channels
  <1>0. resumed \in [Resumption -> {None} \cup Execution]
    BY DEF GraphInv, TypeOK
  \* While start_run is in progress, nothing can be resumed.
  <1>1. ASSUME call = "start" \/ status = None
        PROVE  ~ ReportDue /\ \A r \in Resumption : resumed[r] = None
    <2>1. status = None /\ next # {"report_generation"}
      BY <1>1, SpecialistAssumption DEF GraphInv, TypeOK, Standing, Started
    <2> QED BY <2>1 DEF GraphInv, Standing, ReportDue, StandsAt
  <1>2. ASSUME call' = "start" \/ status' = None
        PROVE  ~ ReportDue'
    <2>1. status' = None /\ next' # {"report_generation"}
      BY <1>2, SpecialistAssumption DEF GraphInv, TypeOK, Standing, Started
    <2> QED BY <2>1 DEF GraphInv, Standing, ReportDue, StandsAt
  <1>3. ASSUME call = "start", call' = "start", UNCHANGED <<hitl_decision, final_output>>
        PROVE  FALSE
    <2>1. ~ ReportDue /\ ~ ReportDue'
      BY <1>1, <1>2, <1>3
    <2>2. ReportDue' = ReportDue
      BY <2>1 DEF ReportDue
    <2> QED BY <1>3, <2>2 DEF Phase
  <1>4. ASSUME \/ GuardrailIn \/ Planner \/ (\E s \in Specialist : RunSpecialist(s))
               \/ ContextEngineering \/ Evaluation \/ GuardrailOut
        PROVE  FALSE
    <2>1. /\ call' = call /\ (Gathering \/ next = {"guardrail_out"})
          /\ UNCHANGED <<hitl_decision, final_output>>
      BY <1>4, SpecialistAssumption DEF GuardrailIn, Planner, RunSpecialist,
                  ContextEngineering, Evaluation, GuardrailOut, Gathering
    <2>2. call = "start"
      BY <2>1 DEF GraphInv, Standing, Gathering
    <2> QED BY <1>3, <2>1, <2>2
  <1>5. ASSUME \/ PostFinding \/ PostEvidence \/ FinishSubmission \/ SubmissionFails
        PROVE  FALSE
    <2>1. posting # None /\ call' = call /\ UNCHANGED <<hitl_decision, final_output>>
      BY <1>5 DEF PostFinding, FindingPending, PostEvidence, FinishSubmission, SubmissionFails,
                  NoChunks, Counts
    <2>2. call = "start"
      BY <2>1 DEF GraphInv, Posting, Standing
    <2> QED BY <1>3, <2>1, <2>2
  <1>6. CASE StartRun
    <2>1. ~ ReportDue /\ ~ ReportDue'
      BY <1>1, <1>2, <1>6 DEF StartRun
    <2>2. Phase = "idle" /\ Phase' = "working"
      BY <1>6 DEF StartRun, Phase
    <2>3. ReportDue' = ReportDue
      BY <2>1 DEF ReportDue
    <2> QED BY <1>6, <2>2, <2>3 DEF StartRun, Gate!Next, Gate!Begin
  <1>7. CASE StopStart
    <2>1. ~ ReportDue /\ UNCHANGED <<next, resumed, hitl_decision, final_output>>
      BY <1>1, <1>7 DEF StopStart
    <2>2. ReportDue' = ReportDue
      BY <2>1 DEF ReportDue, StandsAt
    <2>3. Phase = "working" /\ Phase' \in {"paused", "closed", "idle"}
      BY <1>7 DEF StopStart, Phase
    <2> QED BY <2>1, <2>2, <2>3 DEF Gate!Next, Gate!Stop
  <1>8. CASE StartRaises
    <2>1. ~ ReportDue /\ ~ ReportDue'
      BY <1>1, <1>2, <1>8 DEF StartRaises, GraphInv, Standing
    <2>2. ReportDue' = ReportDue
      BY <2>1 DEF ReportDue
    <2>3. Phase = "working" /\ Phase' = "idle"
      BY <1>8 DEF StartRaises, Phase, GraphInv, Standing
    <2> QED BY <1>8, <2>2, <2>3 DEF StartRaises, Gate!Next, Gate!Stop
  <1>9. ASSUME NEW r \in Resumption, NEW d \in HitlDecision, Resume(r, d) PROVE FALSE
    <2> DEFINE copy == [decision |-> d, next |-> next, hitl_decision |-> hitl_decision,
                        final_output |-> final_output]
    <2>1. \A q \in Resumption : resumed'[q] = IF q = r THEN copy ELSE resumed[q]
      BY <1>0, <1>9 DEF Resume
    <2>2. copy # None /\ copy.next = next
      <3>1. resumed'[r] \in {None} \cup Execution
        BY DEF GraphInv, TypeOK
      <3>2. next \in {{}, {"hitl"}, {"report_generation"}}
        BY <1>9 DEF Resume, GraphInv, Standing, Reviews
      <3>3. copy \in Execution
        BY <3>2 DEF Execution, GraphInv, TypeOK
      <3> QED BY <3>3
    <2> HIDE DEF copy
    <2>3. resumed[r] = None /\ UNCHANGED <<call, next, hitl_decision, final_output, status>>
      BY <1>9 DEF Resume
    <2>4. ReportDue' = ReportDue
      BY <2>1, <2>2, <2>3 DEF ReportDue, StandsAt
    <2> QED BY <2>3, <2>4 DEF Phase
  \* What a resumption does is seen at once, whichever copy it goes on from.
  <1>10. ASSUME NEW r \in Resumption, ResumeStep(r)
         PROVE  /\ resumed[r] # None /\ resumed[r] \in Execution
                /\ call = None /\ status # None
                /\ (next = {"hitl"} \/ hitl_decision # None)
    <2>1. resumed[r] # None
      BY <1>10 DEF ResumeStep, Hitl, ReportGeneration, StandsAt, StopResume, ResumeRaises
    <2> QED BY <1>0, <2>1 DEF GraphInv, TypeOK, Standing, Stopping, Reviews, InterruptOpened
  <1>11. ASSUME NEW r \in Resumption, Hitl(r) PROVE Gate!Next
    <2> DEFINE d == resumed[r].decision
               copy == [resumed[r] EXCEPT !.hitl_decision = d, !.next = RouteAfterHitl(d)]
    <2>1. /\ resumed[r] \in Execution /\ call = None /\ status # None
          /\ (next = {"hitl"} \/ hitl_decision # None)
      BY <1>10, <1>11 DEF ResumeStep
    <2>2. /\ copy \in Execution /\ d \in HitlDecision
          /\ copy.next = RouteAfterHitl(d) /\ copy.hitl_decision = d
          /\ copy.final_output = resumed[r].final_output
      BY <2>1 DEF Execution, RouteAfterHitl
    <2>3. Checkpoint(r, copy) /\ ~ resumed[r].final_output
      BY <1>11 DEF Hitl, StandsAt, GraphInv, Reviews
    <2>4. /\ hitl_decision' = d /\ final_output' = FALSE
          /\ next' = RouteAfterHitl(d) /\ UNCHANGED <<call, status>>
          /\ resumed' = [resumed EXCEPT ![r] = copy]
      BY <2>1, <2>2, <2>3 DEF Checkpoint, Execution
    <2>5. Phase' = "closed"
      BY <2>1, <2>4 DEF Phase, RouteAfterHitl
    <2>6. Phase = "paused" \/ hitl_decision # None
      BY <2>1 DEF Phase
    <2>7. ReportDue' \in IF d = "approve" THEN {TRUE} ELSE {ReportDue, FALSE}
      <3>1. CASE d = "approve"
        BY <2>4, <3>1 DEF RouteAfterHitl, ReportDue
      <3>2. CASE d # "approve"
        <4>1. next' = {} /\ copy.next = {}
          BY <2>2, <2>4, <3>2 DEF RouteAfterHitl
        <4> HIDE DEF copy
        <4> QED BY <1>0, <2>2, <2>4, <3>2, <4>1, DueUnless
      <3> QED BY <3>1, <3>2
    <2>8. d \in Gate!Decision
      BY <2>2 DEF HitlDecision, Gate!Decision
    <2> HIDE DEF d
    <2> QED BY <2>4, <2>5, <2>6, <2>7, <2>8 DEF Gate!Next, Gate!Decide
  <1>12. ASSUME NEW r \in Resumption, ReportGeneration(r) PROVE Gate!Next
    <2> DEFINE copy == [resumed[r] EXCEPT !.final_output = TRUE, !.next = {}]
    <2>1. resumed[r] \in Execution /\ call = None /\ status # None
      BY <1>10, <1>12 DEF ResumeStep
    <2>2. /\ copy \in Execution /\ copy.next = {} /\ copy.final_output = TRUE
          /\ copy.hitl_decision = resumed[r].hitl_decision
      BY <2>1 DEF Execution
    <2>3. /\ Checkpoint(r, copy) /\ resumed[r].hitl_decision = "approve"
          /\ ReportDue
      BY <1>12 DEF ReportGeneration, StandsAt, GraphInv, Reviews, ReportDue
    <2>4. /\ hitl_decision' = "approve" /\ final_output' = TRUE
          /\ next' = {} /\ UNCHANGED <<call, status>>
          /\ resumed' = [resumed EXCEPT ![r] = copy]
      BY <2>2, <2>3 DEF Checkpoint
    <2> HIDE DEF copy
    <2>5. Phase' = "closed"
      BY <2>1, <2>4 DEF Phase
    <2>6. ReportDue' \in {ReportDue, FALSE}
      BY <1>0, <2>2, <2>4, DueUnless
    <2> QED BY <2>3, <2>4, <2>5, <2>6 DEF Gate!Next, Gate!Publish
  <1>13. ASSUME NEW r \in Resumption, StopResume(r) \/ ResumeRaises(r) PROVE Gate!Next
    <2>1. call = None /\ status # None
      BY <1>10, <1>13 DEF ResumeStep
    <2>2. /\ UNCHANGED <<call, next, hitl_decision, final_output>>
          /\ status' # None
          /\ resumed' = [resumed EXCEPT ![r] = None]
      BY <1>13, <2>1 DEF StopResume, ResumeRaises, RunStatus
    <2>3. Phase' = Phase
      BY <2>1, <2>2 DEF Phase
    <2>4. ReportDue' \in {ReportDue, FALSE}
      BY <1>0, <2>2, DueUnless
    <2>5. ReportDue /\ ReportDue' = FALSE
      BY <2>2, <2>3, <2>4 DEF ReportDue
    <2> QED BY <2>2, <2>3, <2>5 DEF Gate!Next, Gate!GiveUp
  <1>14. CASE UNCHANGED vars
    BY <1>14 DEF vars, Phase, ReportDue, StandsAt
  <1> QED BY <1>4, <1>5, <1>6, <1>7, <1>8, <1>9, <1>11, <1>12, <1>13, <1>14
          DEF Next, StartStep, ResumeStep

\* Every run, however it is scored, interrupted, failed and resumed, by however
\* many requests at once, keeps the promise of ReviewGate: nothing is decided
\* before it has paused, and a report is written for an approval only and stands
\* beside one.
THEOREM GraphImplementsGate == Spec => ImplementsReviewGate
  BY GateInit, GateStep, GraphInvAlways, PTL DEF Spec, ImplementsReviewGate, Gate!Spec
=============================================================================
