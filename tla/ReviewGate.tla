----------------------------- MODULE ReviewGate -----------------------------
(***************************************************************************)
(* What the human-in-the-loop gate of an agent run promises, whatever the  *)
(* graph does before and after it: a run is worked on, then stops on its   *)
(* own or pauses; nothing is decided of a run that has not paused; a       *)
(* report is written only when an approval has asked for it, and is        *)
(* recorded together with that approval.  Stated by hitl's place in        *)
(* graph.py and by routing.route_after_hitl.                               *)
(*                                                                         *)
(* The reviewers of one pause are not kept apart, so a decision may        *)
(* replace another one, and the report with it.                            *)
(***************************************************************************)
CONSTANT None

VARIABLES
    phase,      \* where the run is
    decision,   \* the reviewer's decision the run holds
    published,  \* whether the run holds the report
    due         \* whether an approval waits for its report

gate == <<phase, decision, published, due>>

Decision == {"approve", "reject", "edit"}

Init ==
    /\ phase = "idle"
    /\ decision = None
    /\ published = FALSE
    /\ due = FALSE

Begin ==
    /\ phase = "idle"
    /\ phase' = "working"
    /\ UNCHANGED <<decision, published, due>>

\* The run pauses, stops without a review, or leaves no trace of itself.
Stop ==
    /\ phase = "working"
    /\ phase' \in {"paused", "closed", "idle"}
    /\ UNCHANGED <<decision, published, due>>

Decide(d) ==
    /\ phase = "paused" \/ decision # None
    /\ phase' = "closed"
    /\ decision' = d
    /\ published' = FALSE
    /\ due' \in IF d = "approve" THEN {TRUE} ELSE {due, FALSE}

\* Another approval may still wait for its own.
Publish ==
    /\ due
    /\ phase' = "closed"
    /\ decision' = "approve"
    /\ published' = TRUE
    /\ due' \in {due, FALSE}

\* The report could not be written, and what asked for it has been replaced.
GiveUp ==
    /\ due
    /\ due' = FALSE
    /\ UNCHANGED <<phase, decision, published>>

Next == Begin \/ Stop \/ (\E d \in Decision : Decide(d)) \/ Publish \/ GiveUp

Spec == Init /\ [][Next]_gate
=============================================================================
