---------------------------- MODULE MCAgentRuns ----------------------------
(***************************************************************************)
(* Small instances of AgentRuns and of the chat over it.  The identifiers  *)
(* bound the runs that are ever started and the turns that are ever sent;  *)
(* everything else is finite then.                                         *)
(***************************************************************************)
EXTENDS Copilot
=============================================================================
