----------------------------- MODULE AgentRuns -----------------------------
(***************************************************************************)
(* Agent runs as services/agent-orchestrator keeps them: the rows of       *)
(* agent.runs, agent.hitl_interrupts and agent.messages in PostgreSQL, the *)
(* graph's checkpoints in the memory of the process, and the requests that *)
(* start a run or resolve its review, from the endpoints of main.py or     *)
(* from the copilot chat.                                                  *)
(*                                                                         *)
(* A request is one transaction: what it writes is visible when it ends    *)
(* well, and gone when it raises.  A checkpoint is visible at once to      *)
(* whoever resumes the same thread, whatever becomes of the transaction.   *)
(* What the graph does up to hitl is AgentGraph's; here it pauses, ends or *)
(* raises.  Reasons are left out: an endpoint asks for one, and stores it, *)
(* together with the decision.                                             *)
(***************************************************************************)
EXTENDS Naturals, FiniteSets

CONSTANTS
    Run,        \* identifiers runs may be given
    Reviewer,   \* users, each with one request at a time
    None

VARIABLES
    runs,        \* agent.runs: the status of each committed run
    interrupts,  \* agent.hitl_interrupts: the row of a run that paused
    messages,    \* agent.messages that name a run
    threads,     \* the process's InMemorySaver: where the last checkpoint of a
                 \* thread stands, None if there is none with the run's task
    requests,    \* what each reviewer's request is doing
    lost         \* history: the runs whose checkpoint a restart has dropped

vars == <<runs, interrupts, messages, threads, requests, lost>>

HitlDecision == {"approve", "reject", "edit"}

RunStatus == {"awaiting_human_review", "completed", "cannot_conclude", "halted"}

HitlInterrupt ==
    [decision : HitlDecision \cup {None}, reviewer_id : Reviewer \cup {None}]

OpenInterrupt == [decision |-> None, reviewer_id |-> None]

Message == [user : Reviewer, run : Run, run_status : RunStatus]

\* Where the thread's last checkpoint stands: before hitl, before
\* report_generation, or at the end, with the report or without.
Position == {"paused", "approved", "reported", "ended"}

Idle == [step |-> "idle"]

StartRequest ==
    [step : {"running", "stopped"}, run : Run, chat : BOOLEAN,
     status : RunStatus \cup {None}]

ResolveRequest ==
    [step : {"checked", "recorded", "resuming"}, run : Run, chat : BOOLEAN,
     decision : HitlDecision, row : HitlInterrupt, position : Position \cup {None}]

ASSUME NoneAssumption ==
    None \notin HitlDecision \cup RunStatus \cup Position \cup Reviewer \cup HitlInterrupt

Init ==
    /\ runs = [r \in Run |-> None]
    /\ interrupts = [r \in Run |-> None]
    /\ messages = {}
    /\ threads = [r \in Run |-> None]
    /\ requests = [p \in Reviewer |-> Idle]
    /\ lost = {}

----------------------------------------------------------------------------
(***************************************************************************)
(* start_run, by POST .../agent-runs or by an "investigate" turn           *)
(***************************************************************************)
Unused(r) ==
    /\ runs[r] = None
    /\ threads[r] = None
    /\ \A p \in Reviewer : requests[p] # Idle => requests[p].run # r

BeginRun(p, r, chat) ==
    /\ requests[p] = Idle
    /\ Unused(r)
    /\ requests' = [requests EXCEPT ![p] =
          [step |-> "running", run |-> r, chat |-> chat, status |-> None]]
    /\ UNCHANGED <<runs, interrupts, messages, threads, lost>>

\* Mutated form: a checkpointer of the request's own.
ForgetPause(p) ==
    /\ requests[p].step = "running"
    /\ requests' = [requests EXCEPT ![p].step = "stopped",
                                    ![p].status = "awaiting_human_review"]
    /\ UNCHANGED <<runs, interrupts, messages, threads, lost>>

\* The graph reaches hitl.
PauseRun(p) ==
    /\ requests[p].step = "running"
    /\ threads' = [threads EXCEPT ![requests[p].run] = "paused"]
    /\ requests' = [requests EXCEPT ![p].step = "stopped",
                                    ![p].status = "awaiting_human_review"]
    /\ UNCHANGED <<runs, interrupts, messages, lost>>

\* Mutated form: the status create_run gave the run is never changed.
EndRunUnclassified(p) ==
    /\ requests[p].step = "running"
    /\ threads' = [threads EXCEPT ![requests[p].run] = "ended"]
    /\ requests' = [requests EXCEPT ![p].step = "stopped", ![p].status = "running"]
    /\ UNCHANGED <<runs, interrupts, messages, lost>>

EndRun(p) ==
    /\ requests[p].step = "running"
    /\ threads' = [threads EXCEPT ![requests[p].run] = "ended"]
    /\ \E status \in {"halted", "cannot_conclude"} :
          requests' = [requests EXCEPT ![p].step = "stopped", ![p].status = status]
    /\ UNCHANGED <<runs, interrupts, messages, lost>>

\* The turn's message, when the request came from the chat.
Reported(p, status) ==
    IF requests[p].chat
    THEN messages \cup {[user |-> p, run |-> requests[p].run, run_status |-> status]}
    ELSE messages

\* The run, its interrupt if it paused, and the message that names it are
\* committed together.
CommitRun(p) ==
    LET q == requests[p]
    IN  /\ q.step = "stopped"
        /\ runs' = [runs EXCEPT ![q.run] = q.status]
        /\ interrupts' = IF q.status = "awaiting_human_review"
                         THEN [interrupts EXCEPT ![q.run] = OpenInterrupt]
                         ELSE interrupts
        /\ messages' = Reported(p, q.status)
        /\ requests' = [requests EXCEPT ![p] = Idle]
        /\ UNCHANGED <<threads, lost>>

----------------------------------------------------------------------------
(***************************************************************************)
(* Resolving the review                                                    *)
(***************************************************************************)
\* resolve: the row as it is loaded, with the decision set on the object.
Recorded(r, chat, d) ==
    [step |-> "recorded", run |-> r, chat |-> chat, decision |-> d,
     row |-> interrupts[r], position |-> None]

\* POST .../hitl-interrupts/{id}/resolve: the interrupt must be the run's;
\* whether it is resolved already is not asked.
ResolveInterrupt(p, r, d) ==
    /\ requests[p] = Idle
    /\ interrupts[r] # None
    /\ requests' = [requests EXCEPT ![p] = Recorded(r, FALSE, d)]
    /\ UNCHANGED <<runs, interrupts, messages, threads, lost>>

OpenFor(r) == interrupts[r] = OpenInterrupt

\* resolve_checkpoint: a message of the caller's own names the run, and an
\* interrupt of the run is open ...
CheckCheckpoint(p, r, d) ==
    /\ requests[p] = Idle
    /\ \E m \in messages : m.user = p /\ m.run = r
    /\ OpenFor(r)
    /\ requests' = [requests EXCEPT ![p] =
          [Recorded(r, TRUE, d) EXCEPT !.step = "checked"]]
    /\ UNCHANGED <<runs, interrupts, messages, threads, lost>>

\* ... when it is listed; resolve loads it again.
ResolveCheckpoint(p) ==
    /\ requests[p].step = "checked"
    /\ requests' = [requests EXCEPT ![p] =
          Recorded(requests[p].run, TRUE, requests[p].decision)]
    /\ UNCHANGED <<runs, interrupts, messages, threads, lost>>

\* ainvoke(Command(resume)) goes on from the thread's last checkpoint.
ResumeThread(p) ==
    /\ requests[p].step = "recorded"
    /\ threads[requests[p].run] # None
    /\ requests' = [requests EXCEPT ![p].step = "resuming",
                                    ![p].position = threads[requests[p].run]]
    /\ UNCHANGED <<runs, interrupts, messages, threads, lost>>

\* Mutated form: the request waits for a checkpoint that is not there.
AwaitThread(p) == FALSE

\* Without one it goes through guardrail_in to the planner, whose first read of
\* the task raises: all is rolled back.
ResumeNothing(p) ==
    /\ requests[p].step = "recorded"
    /\ threads[requests[p].run] = None
    /\ requests' = [requests EXCEPT ![p] = Idle]
    /\ UNCHANGED <<runs, interrupts, messages, threads, lost>>

\* A superstep ends and writes its checkpoint, over whatever another
\* resumption of the thread has written.
Checkpoint(p, position) ==
    /\ requests' = [requests EXCEPT ![p].position = position]
    /\ threads' = [threads EXCEPT ![requests[p].run] = position]
    /\ UNCHANGED <<runs, interrupts, messages, lost>>

RunHitl(p) ==
    /\ requests[p].step = "resuming"
    /\ requests[p].position = "paused"
    /\ Checkpoint(p, IF requests[p].decision = "approve" THEN "approved" ELSE "ended")

RunReport(p) ==
    /\ requests[p].step = "resuming"
    /\ requests[p].position = "approved"
    /\ Checkpoint(p, "reported")

\* Mutated form: an edit leaves the run to be reviewed again.
ResumeStatusEditReopens(d) ==
    CASE d = "approve" -> "completed"
      [] d = "reject" -> "halted"
      [] d = "edit" -> "awaiting_human_review"

ResumeStatus(d) == IF d = "approve" THEN "completed" ELSE "halted"

\* The UPDATE names the columns that differ from the row that was loaded.
Flushed(loaded, new, current) == IF new = loaded THEN current ELSE new

\* The reviewer, text on a uuid column, always differs.
ResolvedInterrupt(p) ==
    LET q == requests[p]
    IN  [interrupts[q.run] EXCEPT
            !.decision = Flushed(q.row.decision, q.decision, @),
            !.reviewer_id = p]

\* The interrupt is flushed before set_status loads the run, and the row lock
\* is held to the commit: one step.
FinishResolve(p) ==
    LET q == requests[p]
    IN  /\ q.step = "resuming"
        /\ q.position \in {"reported", "ended"}
        /\ interrupts' = [interrupts EXCEPT ![q.run] = ResolvedInterrupt(p)]
        /\ runs' = [runs EXCEPT ![q.run] = ResumeStatus(q.decision)]
        /\ messages' = Reported(p, ResumeStatus(q.decision))
        /\ requests' = [requests EXCEPT ![p] = Idle]
        /\ UNCHANGED <<threads, lost>>

----------------------------------------------------------------------------
\* Mutated form: the decision is committed before the run is resumed.
FailDecisionKept(p) ==
    /\ requests[p] # Idle
    /\ interrupts' = IF requests[p].step = "resuming"
                     THEN [interrupts EXCEPT ![requests[p].run] = ResolvedInterrupt(p)]
                     ELSE interrupts
    /\ requests' = [requests EXCEPT ![p] = Idle]
    /\ UNCHANGED <<runs, messages, threads, lost>>

\* Mutated form: start_run commits the run before the rest of the request.
FailRunKept(p) ==
    /\ requests[p] # Idle
    /\ runs' = IF requests[p].step = "stopped"
               THEN [runs EXCEPT ![requests[p].run] = requests[p].status] ELSE runs
    /\ requests' = [requests EXCEPT ![p] = Idle]
    /\ UNCHANGED <<interrupts, messages, threads, lost>>

\* A node, a statement or the commit raises: set_status(FAILED) included, the
\* transaction rolls back; the checkpoints stay.
Fail(p) ==
    /\ requests[p] # Idle
    /\ requests' = [requests EXCEPT ![p] = Idle]
    /\ UNCHANGED <<runs, interrupts, messages, threads, lost>>

\* The process ends and another starts.
Restart ==
    /\ threads' = [r \in Run |-> None]
    /\ requests' = [p \in Reviewer |-> Idle]
    /\ lost' = lost \cup {r \in Run : runs[r] # None}
    /\ UNCHANGED <<runs, interrupts, messages>>

\* What a request does once it has begun.
Continue(p) ==
    \/ PauseRun(p)
    \/ EndRun(p)
    \/ CommitRun(p)
    \/ ResolveCheckpoint(p)
    \/ ResumeThread(p)
    \/ ResumeNothing(p)
    \/ RunHitl(p)
    \/ RunReport(p)
    \/ FinishResolve(p)

Next ==
    \/ \E p \in Reviewer, r \in Run, chat \in BOOLEAN : BeginRun(p, r, chat)
    \/ \E p \in Reviewer, r \in Run, d \in HitlDecision : ResolveInterrupt(p, r, d)
    \/ \E p \in Reviewer, r \in Run, d \in HitlDecision : CheckCheckpoint(p, r, d)
    \/ \E p \in Reviewer : Continue(p)
    \/ \E p \in Reviewer : Fail(p)
    \/ Restart

Spec == Init /\ [][Next]_vars

----------------------------------------------------------------------------
(***************************************************************************)
(* Properties                                                              *)
(***************************************************************************)
\* Rows, checkpoints and requests are well formed.
TypeOK ==
    /\ runs \in [Run -> RunStatus \cup {None}]
    /\ interrupts \in [Run -> HitlInterrupt \cup {None}]
    /\ messages \subseteq Message
    /\ threads \in [Run -> Position \cup {None}]
    /\ requests \in [Reviewer -> {Idle} \cup StartRequest \cup ResolveRequest]
    /\ lost \subseteq Run

\* A run awaits a human review exactly while its interrupt is open, so a
\* reviewer who lists the open interrupts finds every waiting run and no other:
\* a failed or half-done resolution leaves neither row behind the other.
AwaitingIffOpen ==
    \A r \in Run :
        /\ runs[r] = "awaiting_human_review" <=> OpenFor(r)
        /\ interrupts[r] # None =>
              (interrupts[r].decision = None <=> interrupts[r].reviewer_id = None)

\* A waiting run can be resumed: the process holds its checkpoint, unless a
\* restart since has dropped it.  (After one it never can: the README.)
PausedRunResumable ==
    \A r \in Run :
        runs[r] = "awaiting_human_review" => threads[r] # None \/ r \in lost

\* A run's record moves one way: it never disappears, it never awaits a review
\* again after one, and a run that ended without a review is never given one.
MovesForward(r) ==
    /\ runs'[r] # None
    /\ runs'[r] = "awaiting_human_review" => runs[r] = "awaiting_human_review"
    /\ interrupts[r] = None => runs'[r] = runs[r] /\ interrupts'[r] = None

RunsMoveForward == [][\A r \in Run : runs[r] # None => MovesForward(r)]_vars

\* Every request comes to an end, one that resumes a run whose checkpoint is
\* gone included.
EveryRequestAnswered == \A p \in Reviewer : requests[p] # Idle ~> requests[p] = Idle

\* resolve_hitl_interrupt "records the reviewer's decision first (durable
\* regardless of what happens next)".  A resumption that raises takes the
\* decision back.
DecisionDurable ==
    [][\A p \in Reviewer :
          requests[p] # Idle /\ requests[p].step = "resuming" /\ requests'[p] = Idle =>
              interrupts'[requests[p].run] # OpenInterrupt]_vars
=============================================================================
