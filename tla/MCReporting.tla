---------------------------- MODULE MCReporting ----------------------------
(***************************************************************************)
(* Small instances of Reporting.  The identifier pools bound the findings  *)
(* and reports that are ever created; everything else is finite then.      *)
(***************************************************************************)
EXTENDS Reporting, FiniteSets, TLC

CONSTANTS e1, e2, c1, c2, u1

\* One chunk in each engagement: enough for a citation to be refused.
TwoChunks == (c1 :> e1) @@ (c2 :> e2)

OneChunk == c1 :> e1

\* Workers are interchangeable, and so are findings and reports, when no
\* liveness property is checked.
Symmetry ==
    Permutations(Worker) \cup Permutations(Finding) \cup Permutations(Report)

----------------------------------------------------------------------------
(***************************************************************************)
(* The run keeps to one of three instances.                                *)
(***************************************************************************)
Busy == {p \in Worker : requests[p] # Idle}

Disposing == {p \in Busy : requests[p] \in DispositionRequest}

Users == {events[n].actor : n \in DOMAIN events} \cup {requests[p].by : p \in Disposing}

Created(rows) == {x \in DOMAIN rows : rows[x] # None}

\* Two requests at once, of one user, ...
TwoRequests ==
    /\ Cardinality(Busy) <= 2
    /\ Users \subseteq {u1}
    /\ \A f \in Finding : Cardinality(EventsOf(f)) <= 2

\* ... on one finding and one report of either engagement, with its export, ...
Exports ==
    /\ TwoRequests
    /\ Cardinality(Created(findings)) <= 1
    /\ Cardinality(Created(reports)) <= 1

\* ... or on two findings and two reports of one engagement, without any export.
Reports ==
    /\ TwoRequests
    /\ \A f \in Created(findings) : findings[f].engagement = e1
    /\ \A r \in Created(reports) : reports[r].engagement = e1 /\ files[r] = None
    /\ \A p \in Busy \ Disposing :
          requests[p] \in GenerateRequest /\ requests[p].engagement = e1

\* Three requests at once, of two users, that dispose of the only finding.
Dispositions ==
    /\ Cardinality(Created(findings)) <= 1
    /\ Created(reports) = {}
    /\ Busy = Disposing

Bounds == Exports \/ Reports \/ Dispositions
============================================================================
