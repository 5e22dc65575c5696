------------------------------ MODULE Copilot ------------------------------
(***************************************************************************)
(* The chat of services/agent-orchestrator over the agent runs: what       *)
(* send_message does with a turn, whether the router answers it, calls an  *)
(* action of apps/api or starts a run.                                     *)
(*                                                                         *)
(* A turn's two messages, the user's and the assistant's, are written in   *)
(* one transaction; an action commits in apps/api, whenever that gets      *)
(* there and whether the turn still waits for it or not.  Contents, the    *)
(* actions' arguments and what the router makes of them are left out: any  *)
(* turn may be routed anywhere.                                            *)
(***************************************************************************)
EXTENDS AgentRuns

CONSTANT Turn   \* turns that may be sent: a bound

VARIABLES
    turns,   \* what each turn is doing, and how it ended
    calls    \* apps/api: what became of the request a turn sent it

chatVars == <<vars, turns, calls>>

\* What the assistant's message reports.
Outcome == {"answered", "done", "failed", "run"}

TurnState ==
    [step : {"unsent", "rolled back"}]
        \cup [step : {"routing", "acting"}, user : Reviewer]
        \cup [step : {"investigating"}, user : Reviewer, run : Run]
        \cup [step : {"undone"}, run : Run]
        \cup [step : {"replying", "kept"}, outcome : Outcome \ {"run"}]
        \cup [step : {"kept"}, user : Reviewer, outcome : {"run"}, run : Run]

CallState == {"none", "sent", "committed", "refused"}

ChatInit ==
    /\ Init
    /\ turns = [t \in Turn |-> [step |-> "unsent"]]
    /\ calls = [t \in Turn |-> "none"]

\* The assistant's message, written after the user's; both wait for the commit.
Reply(t, outcome) ==
    turns' = [turns EXCEPT ![t] = [step |-> "replying", outcome |-> outcome]]

RolledBack == [step |-> "rolled back"]

\* What is left of a turn that was starting a run: history, which run it was.
Undone(t) == [step |-> "undone", run |-> turns[t].run]

\* A run is given a new uuid, which no turn has ever had.
Fresh(r) == \A t \in Turn : turns[t].step \in {"investigating", "undone"} => turns[t].run # r

----------------------------------------------------------------------------
SendMessage(t, p) ==
    /\ turns[t].step = "unsent"
    /\ turns' = [turns EXCEPT ![t] = [step |-> "routing", user |-> p]]
    /\ UNCHANGED <<vars, calls>>

\* An answer, what cannot be parsed, or a tool that is not there.
Answer(t) ==
    /\ turns[t].step = "routing"
    /\ Reply(t, "answered")
    /\ UNCHANGED <<vars, calls>>

\* The handler posts to one endpoint.
DispatchAction(t) ==
    /\ turns[t].step = "routing"
    /\ turns' = [turns EXCEPT ![t].step = "acting"]
    /\ calls' = [calls EXCEPT ![t] = "sent"]
    /\ UNCHANGED vars

\* apps/api ends the request, before or after the caller has given up.
EndCall(t) ==
    /\ calls[t] = "sent"
    /\ \E end \in {"committed", "refused"} : calls' = [calls EXCEPT ![t] = end]
    /\ UNCHANGED <<vars, turns>>

\* apps/api commits before it answers.
Summarize(t) ==
    /\ turns[t].step = "acting"
    /\ calls[t] = "committed"
    /\ Reply(t, "done")
    /\ UNCHANGED <<vars, calls>>

\* A refusal, a timeout or a connection that breaks: in any state of the call.
ReportFailure(t) ==
    /\ turns[t].step = "acting"
    /\ Reply(t, "failed")
    /\ UNCHANGED <<vars, calls>>

\* start_run, within the turn.
DispatchInvestigation(t, r) ==
    /\ turns[t].step = "routing"
    /\ BeginRun(turns[t].user, r, TRUE)
    /\ Fresh(r)
    /\ turns' = [turns EXCEPT ![t] =
          [step |-> "investigating", user |-> turns[t].user, run |-> r]]
    /\ UNCHANGED calls

\* The turns whose request p's is.
Investigating(p) ==
    {t \in Turn : turns[t].step = "investigating" /\ turns[t].user = p}

CommitTurnRun(p) ==
    /\ CommitRun(p)
    /\ turns' = [t \in Turn |->
          IF t \in Investigating(p)
          THEN [step |-> "kept", user |-> p, outcome |-> "run", run |-> turns[t].run]
          ELSE turns[t]]
    /\ UNCHANGED calls

CommitTurn(t) ==
    /\ turns[t].step = "replying"
    /\ turns' = [turns EXCEPT ![t].step = "kept"]
    /\ UNCHANGED <<vars, calls>>

\* The router, a statement or the commit raises.
FailTurn(t) ==
    /\ turns[t].step \in {"routing", "acting", "replying"}
    /\ turns' = [turns EXCEPT ![t] = RolledBack]
    /\ UNCHANGED <<vars, calls>>

\* A request on a run fails, and with it the turn that started the run.
FailRequest(p) ==
    /\ Fail(p)
    /\ turns' = [t \in Turn |-> IF t \in Investigating(p) THEN Undone(t) ELSE turns[t]]
    /\ UNCHANGED calls

RestartChat ==
    /\ Restart
    /\ turns' = [t \in Turn |->
          CASE turns[t].step = "investigating" -> Undone(t)
            [] turns[t].step \in {"routing", "acting", "replying"} -> RolledBack
            [] OTHER -> turns[t]]
    /\ UNCHANGED calls

\* What a request on a run does before it commits, as in AgentRuns.
ContinueRun(p) ==
    /\ requests[p].step # "stopped"
    /\ Continue(p)
    /\ UNCHANGED <<turns, calls>>

ChatNext ==
    \/ \E t \in Turn, p \in Reviewer : SendMessage(t, p)
    \/ \E t \in Turn : Answer(t)
    \/ \E t \in Turn : DispatchAction(t)
    \/ \E t \in Turn : EndCall(t)
    \/ \E t \in Turn : Summarize(t)
    \/ \E t \in Turn : ReportFailure(t)
    \/ \E t \in Turn, r \in Run : DispatchInvestigation(t, r)
    \/ \E p \in Reviewer : CommitTurnRun(p)
    \/ \E t \in Turn : CommitTurn(t)
    \/ \E t \in Turn : FailTurn(t)
    \/ \E p \in Reviewer : FailRequest(p)
    \/ RestartChat
    \/ \E p \in Reviewer : ContinueRun(p)
    \/ \E p \in Reviewer, r \in Run :
          BeginRun(p, r, FALSE) /\ Fresh(r) /\ UNCHANGED <<turns, calls>>
    \/ \E p \in Reviewer, r \in Run, d \in HitlDecision :
          ResolveInterrupt(p, r, d) /\ UNCHANGED <<turns, calls>>
    \/ \E p \in Reviewer, r \in Run, d \in HitlDecision :
          CheckCheckpoint(p, r, d) /\ UNCHANGED <<turns, calls>>

\* The event loop resumes a request on a run whose awaited call has returned or
\* timed out, and each one does; nothing is asked of apps/api nor of other turns.
ChatSpec ==
    /\ ChatInit
    /\ [][ChatNext]_chatVars
    /\ \A p \in Reviewer : WF_chatVars(CommitTurnRun(p) \/ ContinueRun(p))

----------------------------------------------------------------------------
(***************************************************************************)
(* Properties                                                              *)
(***************************************************************************)
\* A turn that reports an action done had it committed in apps/api; one that
\* reports a run has its message, and the run is there; no other turn has one.
KeptTurnsTell ==
    /\ turns \in [Turn -> TurnState]
    /\ calls \in [Turn -> CallState]
    /\ \A t \in Turn : turns[t].step = "kept" =>
          /\ turns[t].outcome = "done" => calls[t] = "committed"
          /\ turns[t].outcome = "run" =>
                /\ runs[turns[t].run] # None
                /\ \E m \in messages : m.user = turns[t].user /\ m.run = turns[t].run
    /\ \A m \in messages : \E t \in Turn :
          turns[t].step = "kept" /\ turns[t].outcome = "run" /\ turns[t].run = m.run

\* The run that a turn was starting when it was rolled back is not there, and has
\* no interrupt for anyone to resolve.
UndoneTurnsLeaveNoRun ==
    \A t \in Turn : turns[t].step = "undone" =>
        runs[turns[t].run] = None /\ interrupts[turns[t].run] = None

\* A turn's record is what became of the run it started and of the success it
\* reports, whoever fails or restarts in between.  Of an action it says less: one
\* that a turn reports failed, or that a turn rolled back has called, may have
\* been committed all the same.
TurnsTellWhatHappened == KeptTurnsTell /\ UndoneTurnsLeaveNoRun
=============================================================================
