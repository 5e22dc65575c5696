--------------------------- MODULE Investigations ---------------------------
(***************************************************************************)
(* The investigations context of apps/api: cases, the items gathered in    *)
(* them, and the documented close.  Requests are transactions, as in       *)
(* Reporting: a step is a SELECT, and the statements from the first write  *)
(* to the commit.  An INSERT that refers to the case takes a key-share     *)
(* lock only, which the UPDATE of the close does not wait for.             *)
(*                                                                         *)
(* Subjects (findings, anomalies, transactions) are never deleted and      *)
(* never change engagement, so looking one up is no step of its own.       *)
(* Abstracted: titles, notes and timestamps.  Every caller is a member of  *)
(* every engagement.                                                       *)
(***************************************************************************)
EXTENDS Naturals, Sequences, FiniteSets

CONSTANTS
    Engagement,         \* engagements
    Investigation,      \* identifiers investigations may be given
    Item,               \* identifiers items may be given
    Subject,            \* findings, anomalies and transactions
    SubjectEngagement,  \* the engagement each subject belongs to
    Worker,             \* requests served at the same time
    User,               \* the users who make them
    Conclusion,         \* non-blank conclusions
    None

VARIABLES
    cases,     \* investigations.investigations
    items,     \* investigations.investigation_items
    events,    \* the audit events of this context, in commit order
    requests   \* what each worker is doing

vars == <<cases, items, events, requests>>

Case ==
    [engagement : Engagement, status : {"open", "closed"},
     closed_by : User \cup {None}, conclusion : Conclusion \cup {None}]

InvestigationItem ==
    [investigation : Investigation, engagement : Engagement, subject : Subject]

\* Which of the last three fields an event carries depends on its action.
AuditEvent ==
    [action : {"item_added", "item_removed", "closed"},
     investigation : Investigation, actor : User,
     subject : Subject \cup {None}, item : Item \cup {None},
     conclusion : Conclusion \cup {None}]

Idle == [step |-> "idle"]

AddRequest ==
    [step : {"adding"}, by : User, investigation : Investigation, subject : Subject]

RemoveRequest ==
    [step : {"removing", "deleting"}, by : User, investigation : Investigation,
     item : Item]

CloseRequest ==
    [step : {"closing", "reloaded"}, by : User, investigation : Investigation,
     conclusion : Conclusion, row : Case]

ASSUME SubjectAssumption == SubjectEngagement \in [Subject -> Engagement]

ASSUME NoneAssumption ==
    None \notin Case \cup InvestigationItem \cup User \cup Conclusion \cup Subject \cup Item

Init ==
    /\ cases = [i \in Investigation |-> None]
    /\ items = [x \in Item |-> None]
    /\ events = <<>>
    /\ requests = [p \in Worker |-> Idle]

IsOpen(i) == cases[i] # None /\ cases[i].status = "open"

Event(p, action, s, x, why) ==
    [action |-> action, investigation |-> requests[p].investigation,
     actor |-> requests[p].by, subject |-> s, item |-> x, conclusion |-> why]

Done(p) == requests' = [requests EXCEPT ![p] = Idle]

----------------------------------------------------------------------------
\* Mutated form: the status is left to a default the table does not have.
CreateInvestigationUnset(i, e) ==
    /\ cases[i] = None
    /\ cases' = [cases EXCEPT ![i] =
          [engagement |-> e, status |-> None, closed_by |-> None, conclusion |-> None]]
    /\ UNCHANGED <<items, events, requests>>

CreateInvestigation(i, e) ==
    /\ cases[i] = None
    /\ cases' = [cases EXCEPT ![i] =
          [engagement |-> e, status |-> "open", closed_by |-> None, conclusion |-> None]]
    /\ UNCHANGED <<items, events, requests>>

SubjectMatches(i, s) == SubjectEngagement[s] = cases[i].engagement

\* add_item up to the INSERT: the case is open, the subject is of its engagement.
BeginAdd(p, u, i, s) ==
    /\ requests[p] = Idle
    /\ IsOpen(i)
    /\ SubjectMatches(i, s)
    /\ requests' = [requests EXCEPT ![p] =
          [step |-> "adding", by |-> u, investigation |-> i, subject |-> s]]
    /\ UNCHANGED <<cases, items, events>>

InCase(i, s) ==
    \E x \in Item : items[x] # None /\ items[x].investigation = i /\ items[x].subject = s

\* Mutated form: the constraint is not there.
NeverTaken(p) == FALSE

\* The unique constraint on (investigation, subject).
SubjectTaken(p) == InCase(requests[p].investigation, requests[p].subject)

NewId(x) == items[x] = None /\ \A n \in DOMAIN events : events[n].item # x

\* INSERT, audit event and commit.  The event names the subject, not the item.
CommitAdd(p, x) ==
    LET q == requests[p]
    IN  /\ q.step = "adding"
        /\ ~ SubjectTaken(p)
        /\ NewId(x)
        /\ items' = [items EXCEPT ![x] =
              [investigation |-> q.investigation, subject |-> q.subject,
               engagement |-> cases[q.investigation].engagement]]
        /\ events' = Append(events, Event(p, "item_added", q.subject, None, None))
        /\ Done(p)
        /\ UNCHANGED cases

RefuseAdd(p) ==
    /\ requests[p].step = "adding"
    /\ SubjectTaken(p)
    /\ Done(p)
    /\ UNCHANGED <<cases, items, events>>

----------------------------------------------------------------------------
\* remove_item: the case of the path is open; that the item is in it is not
\* looked at.  A client knows the identifiers of committed items only.
BeginRemove(p, u, i, x) ==
    /\ requests[p] = Idle
    /\ IsOpen(i)
    /\ items[x] # None
    /\ requests' = [requests EXCEPT ![p] =
          [step |-> "removing", by |-> u, investigation |-> i, item |-> x]]
    /\ UNCHANGED <<cases, items, events>>

LoadItem(p) ==
    /\ requests[p].step = "removing"
    /\ items[requests[p].item] # None
    /\ requests' = [requests EXCEPT ![p].step = "deleting"]
    /\ UNCHANGED <<cases, items, events>>

\* scalar_one raises.
ItemMissing(p) ==
    /\ requests[p].step = "removing"
    /\ items[requests[p].item] = None
    /\ Done(p)
    /\ UNCHANGED <<cases, items, events>>

\* Mutated form: a removal through another case's path leaves no event.
RemovalEventIfInCase(p) ==
    LET x == requests[p].item
    IN  IF items[x] # None /\ items[x].investigation = requests[p].investigation
        THEN Append(events, Event(p, "item_removed", None, x, None))
        ELSE events

RemovalEvent(p) ==
    Append(events, Event(p, "item_removed", None, requests[p].item, None))

\* DELETE, audit event and commit.  The DELETE of a row another request has
\* deleted since matches nothing, which is a warning, not an error.
CommitRemove(p) ==
    /\ requests[p].step = "deleting"
    /\ items' = [items EXCEPT ![requests[p].item] = None]
    /\ events' = RemovalEvent(p)
    /\ Done(p)
    /\ UNCHANGED cases

----------------------------------------------------------------------------
\* close_investigation: the first SELECT and the check on what it returned.
\* Nothing keeps one user from having several requests under way.
BeginClose(p, u, i, why) ==
    /\ requests[p] = Idle
    /\ IsOpen(i)
    /\ requests' = [requests EXCEPT ![p] =
          [step |-> "closing", by |-> u, investigation |-> i, conclusion |-> why,
           row |-> cases[i]]]
    /\ UNCHANGED <<cases, items, events>>

\* close loads the row again and does not look at its status.
ReloadCase(p) ==
    /\ requests[p].step = "closing"
    /\ requests' = [requests EXCEPT ![p].step = "reloaded",
                                    ![p].row = cases[requests[p].investigation]]
    /\ UNCHANGED <<cases, items, events>>

\* The UPDATE names the columns that differ from the row that was loaded.
Flushed(loaded, new, current) == IF new = loaded THEN current ELSE new

\* Mutated form: an UPDATE guarded by status = 'open' whose row count nobody
\* looks at.
ClosedRowIfOpen(p) ==
    LET q == requests[p]
    IN  IF IsOpen(q.investigation)
        THEN [cases[q.investigation] EXCEPT !.status = "closed", !.closed_by = q.by,
                                            !.conclusion = q.conclusion]
        ELSE cases[q.investigation]

ClosedRow(p) ==
    LET q == requests[p]
    IN  [cases[q.investigation] EXCEPT
            !.status = Flushed(q.row.status, "closed", @),
            !.closed_by = Flushed(q.row.closed_by, q.by, @),
            !.conclusion = Flushed(q.row.conclusion, q.conclusion, @)]

CommitClose(p) ==
    LET q == requests[p]
    IN  /\ q.step = "reloaded"
        /\ cases' = [cases EXCEPT ![q.investigation] = ClosedRow(p)]
        /\ events' = Append(events, Event(p, "closed", None, None, q.conclusion))
        /\ Done(p)
        /\ UNCHANGED items

----------------------------------------------------------------------------
\* The transaction rolls back.
Fail(p) ==
    /\ requests[p] # Idle
    /\ Done(p)
    /\ UNCHANGED <<cases, items, events>>

Next ==
    \/ \E i \in Investigation, e \in Engagement : CreateInvestigation(i, e)
    \/ \E p \in Worker, u \in User, i \in Investigation, s \in Subject :
          BeginAdd(p, u, i, s)
    \/ \E p \in Worker, u \in User, i \in Investigation, x \in Item :
          BeginRemove(p, u, i, x)
    \/ \E p \in Worker, u \in User, i \in Investigation, why \in Conclusion :
          BeginClose(p, u, i, why)
    \/ \E p \in Worker, x \in Item : CommitAdd(p, x)
    \/ \E p \in Worker : RefuseAdd(p)
    \/ \E p \in Worker : LoadItem(p)
    \/ \E p \in Worker : ItemMissing(p)
    \/ \E p \in Worker : CommitRemove(p)
    \/ \E p \in Worker : ReloadCase(p)
    \/ \E p \in Worker : CommitClose(p)
    \/ \E p \in Worker : Fail(p)

Spec == Init /\ [][Next]_vars

----------------------------------------------------------------------------
(***************************************************************************)
(* Properties                                                              *)
(***************************************************************************)
\* Rows, events and requests are well formed.
TypeOK ==
    /\ cases \in [Investigation -> Case \cup {None}]
    /\ items \in [Item -> InvestigationItem \cup {None}]
    /\ events \in Seq(AuditEvent)
    /\ requests \in [Worker -> {Idle} \cup AddRequest \cup RemoveRequest \cup CloseRequest]

\* A case holds subjects of its own engagement only, and each once, however
\* many requests add the same one.
CaseContents ==
    \A x \in Item : items[x] # None =>
        LET i == items[x].investigation
        IN  /\ cases[i] # None
            /\ items[x].engagement = cases[i].engagement
            /\ SubjectEngagement[items[x].subject] = cases[i].engagement
            /\ \A y \in Item : items[y] # None /\ items[y].investigation = i
                                  /\ items[y].subject = items[x].subject => x = y

Additions(i, s) ==
    {n \in DOMAIN events : /\ events[n].action = "item_added"
                           /\ events[n].investigation = i
                           /\ events[n].subject = s}

RemovalsOf(x) ==
    {n \in DOMAIN events : events[n].action = "item_removed" /\ events[n].item = x}

ClosesOf(i) ==
    {n \in DOMAIN events : events[n].action = "closed" /\ events[n].investigation = i}

\* The trail accounts for the working set, although removals overlap and name
\* the wrong case: an item that is there was added to its case by a recorded
\* event and no event removes it; every row that is gone has such an event, so
\* the additions recorded are the items there and the items removed.
TrailAccountsForItems ==
    /\ \A x \in Item : items[x] # None =>
          /\ RemovalsOf(x) = {}
          /\ Additions(items[x].investigation, items[x].subject) # {}
    /\ Cardinality({n \in DOMAIN events : events[n].action = "item_added"}) =
          Cardinality({x \in Item : items[x] # None \/ RemovalsOf(x) # {}})

\* The committed closer is the one of event n, or event n repeated an earlier
\* closer and its flush kept that of an event between the two.
CloserFrom(n, i) ==
    \/ cases[i].closed_by = events[n].actor
    \/ \E j, k \in ClosesOf(i) :
          /\ j < k /\ k < n
          /\ events[j].actor = events[n].actor
          /\ cases[i].closed_by = events[k].actor

ConclusionFrom(n, i) ==
    \/ cases[i].conclusion = events[n].conclusion
    \/ \E j, k \in ClosesOf(i) :
          /\ j < k /\ k < n
          /\ events[j].conclusion = events[n].conclusion
          /\ cases[i].conclusion = events[k].conclusion

\* The trail accounts for the closes, although several requests, of one user or
\* of several, may close a case at once: an open case has no close event; a
\* closed one has the closer and the conclusion of the last, each except where
\* the last repeats that of an earlier close and another lies between.
TrailAccountsForClose ==
    \A i \in Investigation : cases[i] # None =>
        IF cases[i].status = "open"
        THEN ClosesOf(i) = {}
        ELSE \E n \in ClosesOf(i) :
                /\ \A m \in ClosesOf(i) : m <= n
                /\ CloserFrom(n, i)
                /\ ConclusionFrom(n, i)

\* The trail accounts for the items of a case and for its close.
TrailAccountsForCase == TrailAccountsForItems /\ TrailAccountsForClose
=============================================================================
