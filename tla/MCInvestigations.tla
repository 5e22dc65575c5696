-------------------------- MODULE MCInvestigations --------------------------
(***************************************************************************)
(* Small instances of Investigations.  The identifier pools bound the      *)
(* cases and items that are ever created; everything else is finite then.  *)
(***************************************************************************)
EXTENDS Investigations, TLC

CONSTANTS e1, e2, s1

\* A case of the other engagement has to refuse it.
OneSubject == s1 :> e1

Symmetry == Permutations(Investigation) \cup Permutations(Item)
               \cup Permutations(Worker) \cup Permutations(User)
               \cup Permutations(Conclusion)

----------------------------------------------------------------------------
(***************************************************************************)
(* The run keeps to one of two instances.                                  *)
(***************************************************************************)
Busy == {p \in Worker : requests[p] # Idle}

Closing == {p \in Busy : requests[p] \in CloseRequest}

Closes == {n \in DOMAIN events : events[n].action = "closed"}

\* Two requests at once, all of one user and with one conclusion, on any cases
\* and items.
TwoRequests ==
    /\ Cardinality(Busy) <= 2
    /\ Cardinality({events[n].actor : n \in DOMAIN events}
                       \cup {requests[p].by : p \in Busy}) <= 1
    /\ Cardinality({events[n].conclusion : n \in Closes}
                       \cup {requests[p].conclusion : p \in Closing}) <= 1
    /\ \A i \in Investigation : Cardinality(ClosesOf(i)) <= 2

\* Three requests at once, of two users and with two conclusions, that close the
\* only case.
ThreeCloses ==
    /\ Cardinality({i \in Investigation : cases[i] # None}) <= 1
    /\ Busy = Closing
    /\ \A n \in DOMAIN events : n \in Closes

Bounds == TwoRequests \/ ThreeCloses
=============================================================================
