------------------------------ MODULE MCRisk ------------------------------
(***************************************************************************)
(* Small instances of Risk.  The identifier pool bounds the anomalies that *)
(* are ever created; everything else is finite then.                       *)
(***************************************************************************)
EXTENDS Risk, TLC

CONSTANTS t1, t2, invoice

\* The same invoice twice on one day: which is the repetition depends on the order.
TwoPayments == [t \in {t1, t2} |-> invoice]

OneDay == [t \in {t1, t2} |-> 0]

\* The digits of the second payment alone deviate.
SecondDeviates == {t2} :> 2

Symmetry ==
    Permutations(Worker) \cup Permutations(Reviewer) \cup Permutations(Anomaly)

----------------------------------------------------------------------------
(***************************************************************************)
(* The run keeps to one of two instances.                                  *)
(***************************************************************************)
Busy == {p \in Worker : requests[p] # Idle}

Disposing == {p \in Busy : requests[p] \in DispositionRequest}

Users == {events[n].actor : n \in DOMAIN events} \cup {requests[p].by : p \in Disposing}

\* Two requests at once, of one user, on any transactions and anomalies, until two
\* dispositions are recorded.
TwoRequests ==
    /\ Cardinality(Busy) <= 2
    /\ Cardinality(Users) <= 1
    /\ Len(events) <= 2

\* Three requests at once, of two users, that dispose of the only anomaly.
ThreeDispositions ==
    /\ Cardinality({a \in Anomaly : anomalies[a] # None}) <= 1
    /\ \A t \in Transaction : scores[t] = None
    /\ Busy = Disposing

Bounds == TwoRequests \/ ThreeDispositions
============================================================================
