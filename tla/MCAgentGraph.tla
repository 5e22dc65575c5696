---------------------------- MODULE MCAgentGraph ----------------------------
(***************************************************************************)
(* Small instances of AgentGraph: the retrieval specialist, whose drafts   *)
(* carry the citations, with one whose channel is appended to and the one  *)
(* whose channel is overwritten; the re-plan budget of settings.py.        *)
(***************************************************************************)
EXTENDS AgentGraph, TLC

ThreeSpecialists == {"retrieval", "sql", "fraud_detection"}

\* Two resumptions overlap on the runs that one specialist and one re-plan lead to,
\* which already differ in all that a resumption reads.
Bounds ==
    Cardinality({r \in Resumption : resumed[r] # None}) > 1 =>
        plan \cup drafts \subseteq {"retrieval"} /\ retry_count <= 1
=============================================================================
