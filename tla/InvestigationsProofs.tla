------------------------ MODULE InvestigationsProofs ------------------------
(***************************************************************************)
(* Theorems about Investigations, for every set of cases, of items and of  *)
(* requests at once.                                                       *)
(***************************************************************************)
EXTENDS Investigations, FiniteSetTheorems, TLAPS

Adding(p) == requests[p].step = "adding"

Removing(p) == requests[p].step \in {"removing", "deleting"}

Closing(p) == requests[p].step \in {"closing", "reloaded"}

LEMMA RequestKinds ==
    ASSUME TypeOK, NEW p \in Worker
    PROVE  /\ Adding(p) => requests[p] \in AddRequest
           /\ Removing(p) => requests[p] \in RemoveRequest
           /\ Closing(p) => requests[p] \in CloseRequest
           /\ requests[p] = Idle => ~ Adding(p) /\ ~ Removing(p) /\ ~ Closing(p)
  BY DEF TypeOK, Idle, AddRequest, RemoveRequest, CloseRequest, Adding, Removing, Closing

(***************************************************************************)
(* The inductive invariant                                                 *)
(***************************************************************************)
\* A row of an open case, as it is or as it was loaded, names no one.
Pristine(row) == row.status = "open" => row.closed_by = None /\ row.conclusion = None

\* An item that is there, or was and has its removal on record.
Known(x) == items[x] # None \/ RemovalsOf(x) # {}

KnownItems == {x \in Item : items[x] # None \/ RemovalsOf(x) # {}}

\* What a request has found and nobody can take back: a case and its engagement,
\* an item, that a case is closed.
RequestFits(p) ==
    LET q == requests[p]
    IN  /\ Adding(p) => /\ cases[q.investigation] # None
                        /\ SubjectMatches(q.investigation, q.subject)
        /\ Removing(p) => Known(q.item)
        /\ Closing(p) => /\ cases[q.investigation] # None
                         /\ q.row.status = "closed" =>
                              cases[q.investigation].status = "closed"

\* Case i has the closer (the conclusion) of close j or of a later one.
CloserSince(j, i) ==
    \/ cases[i].closed_by = events[j].actor
    \/ \E k \in ClosesOf(i) : j < k /\ cases[i].closed_by = events[k].actor

ConclusionSince(j, i) ==
    \/ cases[i].conclusion = events[j].conclusion
    \/ \E k \in ClosesOf(i) : j < k /\ cases[i].conclusion = events[k].conclusion

\* What a close has loaded of row and what it finds when it commits: a closer or a
\* conclusion that was there is explained by an event, and so is what became of it.
LoadedTrailed(p) ==
    LET q == requests[p]
        i == q.investigation
    IN  /\ q.row.closed_by # None =>
              \E j \in ClosesOf(i) : events[j].actor = q.row.closed_by /\ CloserSince(j, i)
        /\ q.row.conclusion # None =>
              \E j \in ClosesOf(i) :
                 events[j].conclusion = q.row.conclusion /\ ConclusionSince(j, i)

AdditionEvents == {n \in DOMAIN events : events[n].action = "item_added"}

ItemTrailed(x) ==
    items[x] # None =>
        /\ RemovalsOf(x) = {}
        /\ Additions(items[x].investigation, items[x].subject) # {}

Counted ==
    /\ IsFiniteSet(KnownItems)
    /\ Cardinality(AdditionEvents) = Cardinality(KnownItems)

CloseTrailed(i) ==
    IF ~ IsOpen(i) /\ cases[i] # None
    THEN \E n \in ClosesOf(i) :
            /\ \A m \in ClosesOf(i) : m <= n
            /\ CloserFrom(n, i)
            /\ ConclusionFrom(n, i)
    ELSE ClosesOf(i) = {}

ItemFits(x) ==
    items[x] # None =>
        LET i == items[x].investigation
        IN  /\ cases[i] # None
            /\ items[x].engagement = cases[i].engagement
            /\ SubjectEngagement[items[x].subject] = cases[i].engagement

ItemsApart ==
    \A x, y \in Item :
        /\ items[x] # None /\ items[y] # None
        /\ items[x].investigation = items[y].investigation
        /\ items[x].subject = items[y].subject
        => x = y

CasesInv ==
    /\ TypeOK
    /\ \A p \in Worker : RequestFits(p)
    /\ \A i \in Investigation : cases[i] # None => Pristine(cases[i])
    /\ \A x \in Item : ItemFits(x) /\ ItemTrailed(x)
    /\ ItemsApart
    /\ Counted
    /\ \A i \in Investigation : CloseTrailed(i)
    /\ \A p \in Worker : Closing(p) => LoadedTrailed(p)

LEMMA InvContents == CasesInv => CaseContents
  BY DEF CasesInv, ItemFits, ItemsApart, CaseContents

LEMMA InvTrail == CasesInv => TrailAccountsForItems /\ TrailAccountsForClose
  <1>1. CasesInv => TrailAccountsForItems
    BY DEF CasesInv, ItemTrailed, Counted, AdditionEvents, KnownItems, TrailAccountsForItems
  <1>2. CasesInv => TrailAccountsForClose
    BY DEF CasesInv, CloseTrailed, IsOpen, TrailAccountsForClose
  <1> QED BY <1>1, <1>2

LEMMA InitCasesInv == Init => CasesInv
  <1> SUFFICES ASSUME Init PROVE CasesInv
    OBVIOUS
  <1>1. TypeOK
    BY DEF Init, TypeOK
  <1>2. DOMAIN events = {} /\ KnownItems = {} /\ AdditionEvents = {}
    BY DEF Init, KnownItems, RemovalsOf, AdditionEvents
  <1>3. Counted
    BY <1>2, FS_EmptySet DEF Counted
  <1>4. \A p \in Worker : RequestFits(p) /\ ~ Closing(p)
    BY DEF Init, RequestFits, Adding, Removing, Closing, Idle
  <1>5. \A i \in Investigation : CloseTrailed(i) /\ cases[i] = None
    BY <1>2 DEF Init, CloseTrailed, ClosesOf
  <1> QED BY <1>1, <1>3, <1>4, <1>5 DEF Init, CasesInv, ItemFits, ItemTrailed, ItemsApart

(***************************************************************************)
(* What the steps do                                                       *)
(***************************************************************************)
\* The others' requests are left alone.
Others(p) == \A o \in Worker : o # p => requests'[o] = requests[o]

LEMMA EndsRequest ==
    ASSUME TypeOK, NEW p \in Worker, Done(p)
    PROVE  requests'[p] = Idle /\ Others(p) /\ RequestFits(p)' /\ ~ Closing(p)'
  BY DEF TypeOK, Done, Others, RequestFits, Adding, Removing, Closing, Idle

\* An event is recorded after those that are there.
LEMMA Recorded ==
    ASSUME events \in Seq(AuditEvent), NEW e \in AuditEvent, events' = Append(events, e)
    PROVE  LET n == Len(events) + 1
           IN  /\ events' \in Seq(AuditEvent) /\ n \in Nat
               /\ DOMAIN events' = DOMAIN events \cup {n} /\ n \notin DOMAIN events
               /\ events'[n] = e
               /\ \A m \in DOMAIN events : events'[m] = events[m] /\ m \in Nat /\ m <= n
  OBVIOUS

\* A step that writes no table: each request still fits, if its own does.
LEMMA TablesUnchanged ==
    ASSUME CasesInv, UNCHANGED <<cases, items, events>>, NEW p \in Worker, Others(p),
           requests' \in [Worker -> {Idle} \cup AddRequest \cup RemoveRequest \cup CloseRequest],
           RequestFits(p)', Closing(p)' => LoadedTrailed(p)'
    PROVE  CasesInv'
  <1>1. TypeOK'
    BY DEF CasesInv, TypeOK
  <1>2. ASSUME NEW o \in Worker PROVE RequestFits(o)'
    <2>1. CASE o = p
      BY <2>1
    <2>2. CASE o # p
      BY <2>2 DEF CasesInv, Others, RequestFits, Adding, Removing, Closing, Known,
                  RemovalsOf, SubjectMatches
    <2> QED BY <2>1, <2>2
  <1>3. ASSUME NEW o \in Worker, Closing(o)' PROVE LoadedTrailed(o)'
    <2>1. CASE o = p
      BY <1>3, <2>1
    <2>2. CASE o # p
      BY <1>3, <2>2 DEF CasesInv, Others, Closing, LoadedTrailed, CloserSince,
                        ConclusionSince, ClosesOf
    <2> QED BY <2>1, <2>2
  <1> QED BY <1>1, <1>2, <1>3
      DEF CasesInv, ItemFits, ItemTrailed, ItemsApart, Counted, KnownItems, AdditionEvents,
          CloseTrailed, CloserFrom, ConclusionFrom, RemovalsOf, Additions, ClosesOf, IsOpen

\* A step that leaves a case and its close events alone leaves what they explain.
LEMMA LoadedStays ==
    ASSUME NEW p \in Worker, LoadedTrailed(p), requests'[p] = requests[p],
           NEW i \in Investigation, requests[p].investigation = i, cases'[i] = cases[i],
           ClosesOf(i)' = ClosesOf(i), \A m \in ClosesOf(i) : events'[m] = events[m]
    PROVE  LoadedTrailed(p)'
  BY DEF LoadedTrailed, CloserSince, ConclusionSince

LEMMA CloseTrailedStays ==
    ASSUME NEW i \in Investigation, CloseTrailed(i), cases'[i] = cases[i],
           ClosesOf(i)' = ClosesOf(i), \A m \in ClosesOf(i) : events'[m] = events[m]
    PROVE  CloseTrailed(i)'
  BY DEF CloseTrailed, CloserFrom, ConclusionFrom, IsOpen

\* A commit that closes nothing: cases are as they were, and so are close events.
LEMMA ClosesUntouched ==
    ASSUME CasesInv, NEW p \in Worker, Others(p), ~ Closing(p)', UNCHANGED cases,
           \A j \in Investigation : ClosesOf(j)' = ClosesOf(j),
           \A j \in Investigation : \A m \in ClosesOf(j) : events'[m] = events[m]
    PROVE  /\ \A j \in Investigation :
                 CloseTrailed(j)' /\ (cases'[j] # None => Pristine(cases'[j]))
           /\ \A o \in Worker : Closing(o)' => LoadedTrailed(o)'
  <1>1. ASSUME NEW j \in Investigation
        PROVE  CloseTrailed(j)' /\ (cases'[j] # None => Pristine(cases'[j]))
    BY CloseTrailedStays DEF CasesInv
  <1>2. ASSUME NEW o \in Worker, Closing(o)' PROVE LoadedTrailed(o)'
    <2>1. requests'[o] = requests[o] /\ Closing(o) /\ LoadedTrailed(o)
      BY <1>2 DEF Others, Closing, CasesInv
    <2>2. requests[o].investigation \in Investigation
      BY <2>1, RequestKinds DEF CasesInv, CloseRequest
    <2> QED BY <2>1, <2>2, LoadedStays
  <1> QED BY <1>1, <1>2

LEMMA TrailGrows ==
    ASSUME events \in Seq(AuditEvent), NEW e \in AuditEvent, events' = Append(events, e)
    PROVE  LET n == Len(events) + 1
           IN  /\ \A x : RemovalsOf(x)' =
                      IF e.action = "item_removed" /\ e.item = x
                      THEN RemovalsOf(x) \cup {n} ELSE RemovalsOf(x)
               /\ \A i, s : Additions(i, s)' =
                      IF e.action = "item_added" /\ e.investigation = i /\ e.subject = s
                      THEN Additions(i, s) \cup {n} ELSE Additions(i, s)
               /\ \A i : ClosesOf(i)' =
                      IF e.action = "closed" /\ e.investigation = i
                      THEN ClosesOf(i) \cup {n} ELSE ClosesOf(i)
               /\ AdditionEvents' =
                      IF e.action = "item_added"
                      THEN AdditionEvents \cup {n} ELSE AdditionEvents
  <1> DEFINE n == Len(events) + 1
  <1>1. /\ DOMAIN events' = DOMAIN events \cup {n} /\ n \notin DOMAIN events
        /\ events'[n] = e /\ \A m \in DOMAIN events : events'[m] = events[m]
    BY Recorded
  <1> HIDE DEF n
  <1>2. ASSUME NEW x
        PROVE  RemovalsOf(x)' = IF e.action = "item_removed" /\ e.item = x
                                THEN RemovalsOf(x) \cup {n} ELSE RemovalsOf(x)
    BY <1>1 DEF RemovalsOf
  <1>3. ASSUME NEW i, NEW s
        PROVE  Additions(i, s)' =
                 IF e.action = "item_added" /\ e.investigation = i /\ e.subject = s
                 THEN Additions(i, s) \cup {n} ELSE Additions(i, s)
    BY <1>1 DEF Additions
  <1>4. ASSUME NEW i
        PROVE  ClosesOf(i)' = IF e.action = "closed" /\ e.investigation = i
                              THEN ClosesOf(i) \cup {n} ELSE ClosesOf(i)
    BY <1>1 DEF ClosesOf
  <1>5. AdditionEvents' = IF e.action = "item_added"
                          THEN AdditionEvents \cup {n} ELSE AdditionEvents
    BY <1>1 DEF AdditionEvents
  <1> QED BY <1>2, <1>3, <1>4, <1>5 DEF n

LEMMA AdditionsFinite == ASSUME events \in Seq(AuditEvent) PROVE IsFiniteSet(AdditionEvents)
  <1>1. AdditionEvents \subseteq 1 .. Len(events) /\ Len(events) \in Nat
    BY DEF AdditionEvents
  <1>2. IsFiniteSet(1 .. Len(events))
    BY <1>1, FS_Interval
  <1> QED BY <1>1, <1>2, FS_Subset

(***************************************************************************)
(* The steps that write a table keep the invariant                         *)
(***************************************************************************)
LEMMA CreateKeeps ==
    ASSUME CasesInv, NEW i \in Investigation, NEW e \in Engagement, CreateInvestigation(i, e)
    PROVE  CasesInv'
  <1> DEFINE c == [engagement |-> e, status |-> "open", closed_by |-> None, conclusion |-> None]
  <1>1. /\ cases[i] = None /\ cases' = [cases EXCEPT ![i] = c]
        /\ UNCHANGED <<items, events, requests>>
    BY DEF CreateInvestigation
  <1>2. c \in Case /\ c.status = "open" /\ Pristine(c) /\ c # None
    BY NoneAssumption DEF Case, Pristine
  <1> HIDE DEF c
  <1>3. TypeOK'
    BY <1>1, <1>2 DEF CasesInv, TypeOK
  <1>4. cases'[i] = c /\ \A j \in Investigation : j # i => cases'[j] = cases[j]
    BY <1>1 DEF CasesInv, TypeOK
  <1>5. ASSUME NEW p \in Worker PROVE RequestFits(p)'
    <2>1. RequestFits(p) /\ TypeOK
      BY DEF CasesInv
    <2>2. Adding(p) \/ Closing(p) => requests[p].investigation \in Investigation \ {i}
      BY <1>1, <2>1, RequestKinds DEF RequestFits, AddRequest, CloseRequest
    <2> QED BY <1>1, <1>4, <2>1, <2>2
        DEF RequestFits, Adding, Removing, Closing, Known, RemovalsOf, SubjectMatches
  <1>6. ASSUME NEW x \in Item PROVE ItemFits(x)' /\ ItemTrailed(x)'
    <2>1. ItemFits(x) /\ ItemTrailed(x)
      BY DEF CasesInv
    <2>2. items[x] # None => items[x].investigation \in Investigation \ {i}
      BY <1>1, <2>1 DEF CasesInv, TypeOK, InvestigationItem, ItemFits
    <2> QED BY <1>1, <1>4, <2>1, <2>2 DEF ItemFits, ItemTrailed, RemovalsOf, Additions
  <1>7. ASSUME NEW j \in Investigation
        PROVE  CloseTrailed(j)' /\ (cases'[j] # None => Pristine(cases'[j]))
    <2>1. ClosesOf(j)' = ClosesOf(j) /\ CloseTrailed(j)
      BY <1>1 DEF ClosesOf, CasesInv
    <2>2. CASE j = i
      BY <1>1, <1>2, <1>4, <2>1, <2>2 DEF CloseTrailed, IsOpen
    <2>3. CASE j # i
      BY <1>1, <1>4, <2>1, <2>3, CloseTrailedStays DEF CasesInv
    <2> QED BY <2>2, <2>3
  <1>8. ItemsApart' /\ Counted'
    BY <1>1 DEF CasesInv, ItemsApart, Counted, KnownItems, AdditionEvents, RemovalsOf
  <1>9. ASSUME NEW p \in Worker, Closing(p)' PROVE LoadedTrailed(p)'
    <2>1. /\ requests'[p] = requests[p] /\ Closing(p) /\ LoadedTrailed(p)
          /\ TypeOK /\ RequestFits(p)
      BY <1>1, <1>9 DEF Closing, CasesInv
    <2>2. requests[p].investigation \in Investigation \ {i}
      BY <1>1, <2>1, RequestKinds DEF RequestFits, CloseRequest
    <2> QED BY <1>1, <1>4, <2>1, <2>2, LoadedStays DEF ClosesOf
  <1> QED BY <1>3, <1>5, <1>6, <1>7, <1>8, <1>9 DEF CasesInv

\* An item added is a new one, of a subject the case did not hold, and is counted
\* once among the items as its event is among the additions.
LEMMA AddKeeps ==
    ASSUME CasesInv, NEW p \in Worker, NEW x \in Item, CommitAdd(p, x)
    PROVE  CasesInv'
  <1>0. TypeOK /\ RequestFits(p)
    BY DEF CasesInv
  <1>a. /\ Adding(p) /\ requests[p] \in AddRequest /\ requests[p].by \in User
        /\ requests[p].investigation \in Investigation /\ requests[p].subject \in Subject
    BY <1>0, RequestKinds DEF CommitAdd, Adding, AddRequest
  <1>b. PICK i \in Investigation : requests[p].investigation = i
    BY <1>a
  <1>c. PICK s \in Subject : requests[p].subject = s
    BY <1>a
  <1> DEFINE e == Event(p, "item_added", s, None, None)
             w == [investigation |-> i, subject |-> s, engagement |-> cases[i].engagement]
             n == Len(events) + 1
  <1>1. cases[i] # None /\ cases[i] \in Case /\ SubjectMatches(i, s)
    BY <1>0, <1>a, <1>b, <1>c DEF RequestFits, TypeOK
  <1>2. /\ ~ InCase(i, s) /\ NewId(x) /\ Done(p) /\ UNCHANGED cases
        /\ items' = [items EXCEPT ![x] = w] /\ events' = Append(events, e)
    BY <1>b, <1>c DEF CommitAdd, SubjectTaken
  <1>3. /\ e \in AuditEvent /\ e.action = "item_added" /\ e.investigation = i
        /\ e.subject = s /\ e.item = None
    BY <1>a, <1>b DEF Event, AuditEvent
  <1>4. /\ w \in InvestigationItem /\ w # None /\ w.investigation = i /\ w.subject = s
        /\ w.engagement = cases[i].engagement
    BY <1>1, NoneAssumption DEF InvestigationItem, Case
  <1> HIDE DEF e, w
  <1>5. requests'[p] = Idle /\ Others(p) /\ RequestFits(p)' /\ ~ Closing(p)'
    BY <1>0, <1>2, EndsRequest
  <1>6. items'[x] = w /\ \A y \in Item : y # x => items'[y] = items[y]
    BY <1>0, <1>2 DEF TypeOK
  <1>7. TypeOK'
    <2>1. events' \in Seq(AuditEvent)
      BY <1>0, <1>2, <1>3 DEF TypeOK
    <2>2. requests' \in [Worker -> {Idle} \cup AddRequest \cup RemoveRequest \cup CloseRequest]
      BY <1>0, <1>2 DEF TypeOK, Done
    <2>3. items' \in [Item -> InvestigationItem \cup {None}]
      BY <1>0, <1>2, <1>4 DEF TypeOK
    <2> QED BY <1>0, <1>2, <2>1, <2>2, <2>3 DEF TypeOK
  <1>8. events \in Seq(AuditEvent)
    BY <1>0 DEF TypeOK
  <1>9. /\ \A y \in Item : RemovalsOf(y)' = RemovalsOf(y)
        /\ \A j \in Investigation : ClosesOf(j)' = ClosesOf(j)
        /\ AdditionEvents' = AdditionEvents \cup {n}
        /\ \A j, o : Additions(j, o) \subseteq Additions(j, o)'
        /\ n \in Additions(i, s)' /\ n \notin AdditionEvents
    <2>1. n \notin AdditionEvents
      BY <1>8 DEF AdditionEvents
    <2>2. /\ \A j, o : Additions(j, o)' =
                IF i = j /\ s = o
                THEN Additions(j, o) \cup {n} ELSE Additions(j, o)
          /\ AdditionEvents' = AdditionEvents \cup {n}
          /\ \A y \in Item : RemovalsOf(y)' = RemovalsOf(y)
          /\ \A j \in Investigation : ClosesOf(j)' = ClosesOf(j)
      BY <1>2, <1>3, <1>8, TrailGrows
    <2>3. \A j, o : Additions(j, o) \subseteq Additions(j, o)'
      BY <2>2
    <2>4. n \in Additions(i, s)'
      BY <2>2
    <2> QED BY <2>1, <2>2, <2>3, <2>4
  <1>10. RemovalsOf(x) = {} /\ items[x] = None
    BY <1>2 DEF NewId, RemovalsOf
  <1>11. ASSUME NEW o \in Worker PROVE RequestFits(o)'
    <2>1. CASE o = p
      BY <1>5, <2>1
    <2>2. CASE o # p
      <3>1. RequestFits(o) /\ requests'[o] = requests[o]
        BY <1>5, <2>2 DEF CasesInv, Others
      <3>2. \A y \in Item : Known(y) => Known(y)'
        BY <1>4, <1>6, <1>9 DEF Known
      <3>3. Removing(o) => requests[o].item \in Item
        BY <1>0, RequestKinds DEF RemoveRequest
      <3> QED BY <1>2, <3>1, <3>2, <3>3
          DEF RequestFits, Adding, Removing, Closing, SubjectMatches
    <2> QED BY <2>1, <2>2
  <1>12. ASSUME NEW y \in Item PROVE ItemFits(y)' /\ ItemTrailed(y)'
    <2>1. CASE y = x
      BY <1>1, <1>2, <1>4, <1>6, <1>9, <1>10, <2>1
      DEF ItemFits, ItemTrailed, SubjectMatches
    <2>2. CASE y # x
      <3>1. ItemFits(y) /\ ItemTrailed(y) /\ items'[y] = items[y]
        BY <1>6, <2>2 DEF CasesInv
      <3> QED BY <1>2, <1>9, <3>1 DEF ItemFits, ItemTrailed
    <2> QED BY <2>1, <2>2
  <1>13. ItemsApart'
    BY <1>2, <1>4, <1>6 DEF CasesInv, ItemsApart, InCase
  <1>14. Counted'
    <2>1. KnownItems' = KnownItems \cup {x} /\ x \notin KnownItems
      BY <1>4, <1>6, <1>9, <1>10 DEF KnownItems
    <2>2. IsFiniteSet(AdditionEvents) /\ Counted
      BY <1>8, AdditionsFinite DEF CasesInv
    <2>3. /\ IsFiniteSet(KnownItems \cup {x})
          /\ Cardinality(KnownItems \cup {x}) = Cardinality(KnownItems) + 1
      BY <2>1, <2>2, FS_AddElement DEF Counted
    <2>4. Cardinality(AdditionEvents \cup {n}) = Cardinality(AdditionEvents) + 1
      BY <1>9, <2>2, FS_AddElement
    <2> HIDE DEF n
    <2> QED BY <1>9, <2>1, <2>2, <2>3, <2>4 DEF Counted
  <1>15. /\ \A j \in Investigation :
               CloseTrailed(j)' /\ (cases'[j] # None => Pristine(cases'[j]))
         /\ \A o \in Worker : Closing(o)' => LoadedTrailed(o)'
    <2>1. \A j \in Investigation : \A m \in ClosesOf(j) : events'[m] = events[m]
      BY <1>2, <1>3, <1>8, Recorded DEF ClosesOf
    <2> QED BY <1>2, <1>5, <1>9, <2>1, ClosesUntouched
  <1> QED BY <1>7, <1>11, <1>12, <1>13, <1>14, <1>15 DEF CasesInv

\* A removal is on record even when its row is gone already; the item stays among
\* those counted.
LEMMA RemoveKeeps ==
    ASSUME CasesInv, NEW p \in Worker, CommitRemove(p)
    PROVE  CasesInv'
  <1>0. TypeOK /\ RequestFits(p)
    BY DEF CasesInv
  <1>a. /\ Removing(p) /\ requests[p] \in RemoveRequest /\ requests[p].by \in User
        /\ requests[p].investigation \in Investigation /\ requests[p].item \in Item
    BY <1>0, RequestKinds DEF CommitRemove, Removing, RemoveRequest
  <1>b. PICK x \in Item : requests[p].item = x
    BY <1>a
  <1> DEFINE e == Event(p, "item_removed", None, x, None)
             n == Len(events) + 1
  <1>1. Known(x)
    BY <1>0, <1>a, <1>b DEF RequestFits
  <1>2. /\ Done(p) /\ UNCHANGED cases
        /\ items' = [items EXCEPT ![x] = None] /\ events' = Append(events, e)
    BY <1>b DEF CommitRemove, RemovalEvent
  <1>3. e \in AuditEvent /\ e.action = "item_removed" /\ e.item = x
    BY <1>a DEF Event, AuditEvent
  <1> HIDE DEF e
  <1>5. requests'[p] = Idle /\ Others(p) /\ RequestFits(p)' /\ ~ Closing(p)'
    BY <1>0, <1>2, EndsRequest
  <1>6. items'[x] = None /\ \A y \in Item : y # x => items'[y] = items[y]
    BY <1>0, <1>2 DEF TypeOK
  <1>7. TypeOK'
    <2>1. events' \in Seq(AuditEvent)
      BY <1>0, <1>2, <1>3 DEF TypeOK
    <2>2. requests' \in [Worker -> {Idle} \cup AddRequest \cup RemoveRequest \cup CloseRequest]
      BY <1>0, <1>2 DEF TypeOK, Done
    <2>3. items' \in [Item -> InvestigationItem \cup {None}]
      BY <1>0, <1>2 DEF TypeOK
    <2> QED BY <1>0, <1>2, <2>1, <2>2, <2>3 DEF TypeOK
  <1>8. events \in Seq(AuditEvent)
    BY <1>0 DEF TypeOK
  <1>9. /\ \A y \in Item : y # x => RemovalsOf(y)' = RemovalsOf(y)
        /\ RemovalsOf(x)' = RemovalsOf(x) \cup {n}
        /\ \A j \in Investigation : ClosesOf(j)' = ClosesOf(j)
        /\ AdditionEvents' = AdditionEvents
        /\ \A j, o : Additions(j, o)' = Additions(j, o)
    BY <1>2, <1>3, <1>8, TrailGrows
  <1>10. RemovalsOf(x)' # {}
    BY <1>9
  <1>11. ASSUME NEW y \in Item PROVE Known(y)' = Known(y)
    <2>1. CASE y = x
      BY <1>1, <1>10, <2>1 DEF Known
    <2>2. CASE y # x
      BY <1>6, <1>9, <2>2 DEF Known
    <2> QED BY <2>1, <2>2
  <1>12. ASSUME NEW o \in Worker PROVE RequestFits(o)'
    <2>1. CASE o = p
      BY <1>5, <2>1
    <2>2. CASE o # p
      <3>1. RequestFits(o) /\ requests'[o] = requests[o]
        BY <1>5, <2>2 DEF CasesInv, Others
      <3>2. Removing(o) => requests[o].item \in Item
        BY <1>0, RequestKinds DEF RemoveRequest
      <3> QED BY <1>2, <1>11, <3>1, <3>2
          DEF RequestFits, Adding, Removing, Closing, SubjectMatches
    <2> QED BY <2>1, <2>2
  <1>13. ASSUME NEW y \in Item PROVE ItemFits(y)' /\ ItemTrailed(y)'
    <2>1. CASE y = x
      BY <1>6, <2>1 DEF ItemFits, ItemTrailed
    <2>2. CASE y # x
      <3>1. ItemFits(y) /\ ItemTrailed(y) /\ items'[y] = items[y]
        BY <1>6, <2>2 DEF CasesInv
      <3> QED BY <1>2, <1>9, <2>2, <3>1 DEF ItemFits, ItemTrailed
    <2> QED BY <2>1, <2>2
  <1>14. ItemsApart'
    BY <1>6 DEF CasesInv, ItemsApart
  <1>15. Counted'
    <2>1. KnownItems = {y \in Item : Known(y)} /\ KnownItems' = {y \in Item : Known(y)'}
      BY DEF KnownItems, Known
    <2>2. KnownItems' = KnownItems /\ Counted
      BY <1>11, <2>1 DEF CasesInv
    <2> QED BY <1>9, <2>2 DEF Counted
  <1>16. /\ \A j \in Investigation :
               CloseTrailed(j)' /\ (cases'[j] # None => Pristine(cases'[j]))
         /\ \A o \in Worker : Closing(o)' => LoadedTrailed(o)'
    <2>1. \A j \in Investigation : \A m \in ClosesOf(j) : events'[m] = events[m]
      BY <1>2, <1>3, <1>8, Recorded DEF ClosesOf
    <2> QED BY <1>2, <1>5, <1>9, <2>1, ClosesUntouched
  <1> QED BY <1>7, <1>12, <1>13, <1>14, <1>15, <1>16 DEF CasesInv

\* What a close makes of the row: the user and the conclusion of the request, or
\* where the row it loaded had them, what the row has by now.
LEMMA ClosedRowFits ==
    ASSUME CasesInv, NEW p \in Worker, Closing(p), NEW i \in Investigation,
           requests[p].investigation = i
    PROVE  LET q == requests[p]
           IN  /\ ClosedRow(p) \in Case
               /\ ClosedRow(p).engagement = cases[i].engagement
               /\ ClosedRow(p).status = "closed"
               /\ \/ ClosedRow(p).closed_by = q.by
                  \/ q.row.closed_by = q.by /\ ClosedRow(p).closed_by = cases[i].closed_by
               /\ \/ ClosedRow(p).conclusion = q.conclusion
                  \/ /\ q.row.conclusion = q.conclusion
                     /\ ClosedRow(p).conclusion = cases[i].conclusion
  <1> DEFINE q == requests[p]
             c == cases[i]
             status == Flushed(q.row.status, "closed", c.status)
             closer == Flushed(q.row.closed_by, q.by, c.closed_by)
             why == Flushed(q.row.conclusion, q.conclusion, c.conclusion)
  <1>0. TypeOK /\ RequestFits(p)
    BY DEF CasesInv
  <1>1. q \in CloseRequest /\ q.row \in Case /\ q.conclusion \in Conclusion /\ q.by \in User
    BY <1>0, RequestKinds DEF CloseRequest
  <1>2. /\ c \in Case
        /\ q.row.status = "closed" => c.status = "closed"
    BY <1>0 DEF RequestFits, TypeOK
  <1>3. ClosedRow(p) = [c EXCEPT !.status = status, !.closed_by = closer, !.conclusion = why]
    BY <1>2 DEF ClosedRow, Case
  <1>4. /\ status = "closed"
        /\ closer \in User \cup {None} /\ why \in Conclusion \cup {None}
        /\ closer = q.by \/ (q.row.closed_by = q.by /\ closer = c.closed_by)
        /\ why = q.conclusion \/ (q.row.conclusion = q.conclusion /\ why = c.conclusion)
    BY <1>1, <1>2 DEF Flushed, Case
  <1> HIDE DEF status, closer, why
  <1> QED BY <1>2, <1>3, <1>4 DEF Case

LEMMA CloseKeeps ==
    ASSUME CasesInv, NEW p \in Worker, CommitClose(p)
    PROVE  CasesInv'
  <1>0. TypeOK /\ RequestFits(p)
    BY DEF CasesInv
  <1>a. /\ Closing(p) /\ requests[p] \in CloseRequest
        /\ requests[p].investigation \in Investigation /\ requests[p].conclusion \in Conclusion
    BY <1>0, RequestKinds DEF CommitClose, Closing, CloseRequest
  <1>b. PICK i \in Investigation : requests[p].investigation = i
    BY <1>a
  <1>c. PICK why \in Conclusion : requests[p].conclusion = why
    BY <1>a
  <1>d. PICK u \in User : requests[p].by = u
    BY <1>a DEF CloseRequest
  <1>e. /\ LoadedTrailed(p)
        /\ requests[p].row.closed_by = u =>
             \E j \in ClosesOf(i) : events[j].actor = u /\ CloserSince(j, i)
        /\ requests[p].row.conclusion = why =>
             \E j \in ClosesOf(i) : events[j].conclusion = why /\ ConclusionSince(j, i)
    BY <1>a, <1>b, NoneAssumption DEF CasesInv, LoadedTrailed
  <1> DEFINE e == Event(p, "closed", None, None, why)
             c == ClosedRow(p)
             n == Len(events) + 1
  <1>1. cases[i] # None
    BY <1>0, <1>a, <1>b DEF RequestFits
  <1>2. /\ Done(p) /\ UNCHANGED items
        /\ cases' = [cases EXCEPT ![i] = c] /\ events' = Append(events, e)
    BY <1>b, <1>c DEF CommitClose
  <1>3. /\ e \in AuditEvent /\ e.action = "closed" /\ e.investigation = i /\ e.actor = u
        /\ e.item = None /\ e.conclusion = why
    BY <1>b, <1>d DEF Event, AuditEvent
  <1>4. /\ c \in Case /\ c # None /\ c.engagement = cases[i].engagement
        /\ c.status = "closed"
        /\ \/ c.closed_by = u
           \/ requests[p].row.closed_by = u /\ c.closed_by = cases[i].closed_by
        /\ \/ c.conclusion = why
           \/ requests[p].row.conclusion = why /\ c.conclusion = cases[i].conclusion
    BY <1>a, <1>b, <1>c, <1>d, ClosedRowFits, NoneAssumption
  <1> HIDE DEF e, c
  <1>5. requests'[p] = Idle /\ Others(p) /\ RequestFits(p)' /\ ~ Closing(p)'
    BY <1>0, <1>2, EndsRequest
  <1>6. cases'[i] = c /\ \A j \in Investigation : j # i => cases'[j] = cases[j]
    BY <1>0, <1>2 DEF TypeOK
  <1>7. TypeOK'
    <2>1. events' \in Seq(AuditEvent)
      BY <1>0, <1>2, <1>3 DEF TypeOK
    <2>2. requests' \in [Worker -> {Idle} \cup AddRequest \cup RemoveRequest \cup CloseRequest]
      BY <1>0, <1>2 DEF TypeOK, Done
    <2>3. cases' \in [Investigation -> Case \cup {None}]
      BY <1>0, <1>2, <1>4 DEF TypeOK
    <2> QED BY <1>0, <1>2, <2>1, <2>2, <2>3 DEF TypeOK
  <1>8. events \in Seq(AuditEvent)
    BY <1>0 DEF TypeOK
  <1>9. /\ \A x \in Item : RemovalsOf(x)' = RemovalsOf(x)
        /\ \A j \in Investigation : j # i => ClosesOf(j)' = ClosesOf(j)
        /\ ClosesOf(i)' = ClosesOf(i) \cup {n}
        /\ AdditionEvents' = AdditionEvents
        /\ \A j, s : Additions(j, s)' = Additions(j, s)
    BY <1>2, <1>3, <1>8, TrailGrows
  <1>10. ASSUME NEW j \in Investigation, cases[j] # None
         PROVE  /\ cases'[j] # None /\ cases'[j].engagement = cases[j].engagement
                /\ cases[j].status = "closed" => cases'[j].status = "closed"
    BY <1>4, <1>6, <1>10
  <1>11. ASSUME NEW o \in Worker PROVE RequestFits(o)'
    <2>1. CASE o = p
      BY <1>5, <2>1
    <2>2. CASE o # p
      <3>1. RequestFits(o) /\ requests'[o] = requests[o]
        BY <1>5, <2>2 DEF CasesInv, Others
      <3>2. /\ Adding(o) \/ Closing(o) => requests[o].investigation \in Investigation
            /\ Removing(o) => requests[o].item \in Item
        BY <1>0, RequestKinds DEF AddRequest, RemoveRequest, CloseRequest
      <3>3. Adding(o)' = Adding(o) /\ Removing(o)' = Removing(o) /\ Closing(o)' = Closing(o)
        BY <3>1 DEF Adding, Removing, Closing
      <3> QED BY <1>2, <1>9, <1>10, <3>1, <3>2, <3>3
          DEF RequestFits, SubjectMatches, Known
    <2> QED BY <2>1, <2>2
  <1>12. ASSUME NEW x \in Item PROVE ItemFits(x)' /\ ItemTrailed(x)'
    <2>1. ItemFits(x) /\ ItemTrailed(x)
      BY DEF CasesInv
    <2>2. items[x] # None => items[x].investigation \in Investigation
      BY <1>0 DEF TypeOK, InvestigationItem
    <2> QED BY <1>2, <1>9, <1>10, <2>1, <2>2 DEF ItemFits, ItemTrailed
  <1>13. ItemsApart' /\ Counted'
    BY <1>2, <1>9 DEF CasesInv, ItemsApart, Counted, KnownItems
  \* The event of this close is the last one of the case, and explains the row.
  <1>14. PICK last : last = Len(events) + 1
    OBVIOUS
  <1>15. /\ CloserFrom(last, i)' /\ ConclusionFrom(last, i)'
         /\ last \in ClosesOf(i)' /\ \A m \in ClosesOf(i)' : m <= last
         /\ \A m \in ClosesOf(i) : m \in ClosesOf(i)' /\ m < last /\ events'[m] = events[m]
         /\ cases'[i].closed_by \in {cases[i].closed_by, events'[last].actor}
         /\ cases'[i].conclusion \in {cases[i].conclusion, events'[last].conclusion}
    <2>1. /\ ClosesOf(i)' = ClosesOf(i) \cup {last} /\ events'[last] = e /\ last \in Nat
          /\ \A m \in ClosesOf(i) : m < last /\ events'[m] = events[m] /\ m \in Nat
      <3>1. /\ events'[n] = e /\ n \in Nat /\ n \notin DOMAIN events
            /\ \A m \in DOMAIN events : events'[m] = events[m] /\ m \in Nat /\ m <= n
        BY <1>2, <1>3, <1>8, Recorded
      <3>2. \A m \in ClosesOf(i) : m \in DOMAIN events /\ m # n
        BY <3>1 DEF ClosesOf
      <3> QED BY <1>9, <1>14, <3>1, <3>2
    <2>2. CloserFrom(last, i)'
      <3>1. CASE c.closed_by = u
        BY <1>3, <1>6, <2>1, <3>1 DEF CloserFrom
      <3>2. CASE requests[p].row.closed_by = u /\ c.closed_by = cases[i].closed_by
        <4>1. PICK j \in ClosesOf(i) : events[j].actor = u /\ CloserSince(j, i)
          BY <1>e, <3>2
        <4> QED BY <1>3, <1>6, <2>1, <3>2, <4>1 DEF CloserFrom, CloserSince
      <3> QED BY <1>4, <3>1, <3>2
    <2>3. ConclusionFrom(last, i)'
      <3>1. CASE c.conclusion = why
        BY <1>3, <1>6, <2>1, <3>1 DEF ConclusionFrom
      <3>2. CASE requests[p].row.conclusion = why /\ c.conclusion = cases[i].conclusion
        <4>1. PICK j \in ClosesOf(i) : events[j].conclusion = why /\ ConclusionSince(j, i)
          BY <1>e, <3>2
        <4> QED BY <1>3, <1>6, <2>1, <3>2, <4>1 DEF ConclusionFrom, ConclusionSince
      <3> QED BY <1>4, <3>1, <3>2
    <2> QED BY <1>3, <1>4, <1>6, <2>1, <2>2, <2>3
  <1>16. ASSUME NEW j \in Investigation
         PROVE  CloseTrailed(j)' /\ (cases'[j] # None => Pristine(cases'[j]))
    <2>0. CloseTrailed(j)
      BY DEF CasesInv
    <2>1. /\ \A m \in ClosesOf(j) : events'[m] = events[m] /\ m <= n /\ m \in Nat
          /\ events'[n] = e /\ n \in Nat
      BY <1>2, <1>3, <1>8, Recorded DEF ClosesOf
    <2>2. CASE j # i
      BY <1>6, <1>9, <2>0, <2>1, <2>2, CloseTrailedStays DEF CasesInv
    <2>3. CASE j = i
      <3>1. /\ CloserFrom(last, i)' /\ ConclusionFrom(last, i)'
            /\ last \in ClosesOf(i)' /\ \A m \in ClosesOf(i)' : m <= last
        BY <1>15
      <3> QED BY <1>4, <1>6, <2>3, <3>1 DEF CloseTrailed, IsOpen, Pristine
    <2> QED BY <2>2, <2>3
  <1>17. ASSUME NEW o \in Worker, Closing(o)' PROVE LoadedTrailed(o)'
    <2>1. /\ requests'[o] = requests[o] /\ Closing(o) /\ LoadedTrailed(o)
          /\ requests[o].investigation \in Investigation
      <3>1. requests'[o] = requests[o] /\ Closing(o) /\ LoadedTrailed(o)
        BY <1>5, <1>17 DEF Others, Closing, CasesInv
      <3> QED BY <1>0, <3>1, RequestKinds DEF CloseRequest
    <2>2. CASE requests[o].investigation # i
      <3>1. PICK j \in Investigation : requests[o].investigation = j
        BY <2>1
      <3>2. /\ cases'[j] = cases[j] /\ ClosesOf(j)' = ClosesOf(j)
            /\ \A m \in ClosesOf(j) : events'[m] = events[m]
        BY <1>2, <1>3, <1>6, <1>8, <1>9, <2>2, <3>1, Recorded DEF ClosesOf
      <3> QED BY <2>1, <3>1, <3>2, LoadedStays
    <2>3. CASE requests[o].investigation = i
      <3>1. ASSUME NEW j \in ClosesOf(i)
            PROVE  /\ j \in ClosesOf(i)' /\ events'[j] = events[j]
                   /\ CloserSince(j, i) => CloserSince(j, i)'
                   /\ ConclusionSince(j, i) => ConclusionSince(j, i)'
        <4>1. /\ \A m \in ClosesOf(i) : m \in ClosesOf(i)' /\ m < last /\ events'[m] = events[m]
              /\ last \in ClosesOf(i)'
              /\ cases'[i].closed_by \in {cases[i].closed_by, events'[last].actor}
              /\ cases'[i].conclusion \in {cases[i].conclusion, events'[last].conclusion}
          BY <1>15
        <4>2. CloserSince(j, i) => CloserSince(j, i)'
          BY <4>1 DEF CloserSince
        <4>3. ConclusionSince(j, i) => ConclusionSince(j, i)'
          BY <4>1 DEF ConclusionSince
        <4> QED BY <4>1, <4>2, <4>3
      <3>2. ASSUME requests[o].row.closed_by # None
            PROVE  \E j \in ClosesOf(i)' :
                      events'[j].actor = requests[o].row.closed_by /\ CloserSince(j, i)'
        BY <2>1, <2>3, <3>1, <3>2 DEF LoadedTrailed
      <3>3. ASSUME requests[o].row.conclusion # None
            PROVE  \E j \in ClosesOf(i)' :
                      events'[j].conclusion = requests[o].row.conclusion /\ ConclusionSince(j, i)'
        BY <2>1, <2>3, <3>1, <3>3 DEF LoadedTrailed
      <3> QED BY <2>1, <2>3, <3>2, <3>3 DEF LoadedTrailed
    <2> QED BY <2>2, <2>3
  <1> QED BY <1>7, <1>11, <1>12, <1>13, <1>16, <1>17 DEF CasesInv

LEMMA ReadsKeep ==
    ASSUME CasesInv, NEW p \in Worker,
           \/ \E u \in User, i \in Investigation, s \in Subject : BeginAdd(p, u, i, s)
           \/ \E u \in User, i \in Investigation, x \in Item : BeginRemove(p, u, i, x)
           \/ \E u \in User, i \in Investigation, why \in Conclusion : BeginClose(p, u, i, why)
           \/ RefuseAdd(p) \/ LoadItem(p) \/ ItemMissing(p) \/ ReloadCase(p) \/ Fail(p)
    PROVE  CasesInv'
  <1> DEFINE Requests == {Idle} \cup AddRequest \cup RemoveRequest \cup CloseRequest
  <1>0. TypeOK /\ RequestFits(p) /\ requests \in [Worker -> Requests]
    BY DEF CasesInv, TypeOK
  <1>1. ASSUME NEW q \in Requests, requests' = [requests EXCEPT ![p] = q]
        PROVE  requests' \in [Worker -> Requests] /\ requests'[p] = q /\ Others(p)
    BY <1>0, <1>1 DEF Others
  <1>2. ASSUME NEW u \in User, NEW i \in Investigation, NEW s \in Subject, BeginAdd(p, u, i, s)
        PROVE  CasesInv'
    <2> DEFINE q == [step |-> "adding", by |-> u, investigation |-> i, subject |-> s]
    <2>1. q \in AddRequest /\ q.step = "adding" /\ q.investigation = i /\ q.subject = s
      BY DEF AddRequest
    <2>2. /\ requests' = [requests EXCEPT ![p] = q] /\ UNCHANGED <<cases, items, events>>
          /\ cases[i] # None /\ SubjectMatches(i, s)
      BY <1>2 DEF BeginAdd, IsOpen
    <2> HIDE DEF q
    <2>3. requests' \in [Worker -> Requests] /\ requests'[p] = q /\ Others(p)
      BY <1>1, <2>1, <2>2
    <2>4. RequestFits(p)' /\ ~ Closing(p)'
      BY <2>1, <2>2, <2>3 DEF RequestFits, Adding, Removing, Closing, SubjectMatches
    <2> QED BY <2>2, <2>3, <2>4, TablesUnchanged
  <1>3. ASSUME NEW u \in User, NEW i \in Investigation, NEW x \in Item, BeginRemove(p, u, i, x)
        PROVE  CasesInv'
    <2> DEFINE q == [step |-> "removing", by |-> u, investigation |-> i, item |-> x]
    <2>1. q \in RemoveRequest /\ q.step = "removing" /\ q.item = x
      BY DEF RemoveRequest
    <2>2. /\ requests' = [requests EXCEPT ![p] = q] /\ UNCHANGED <<cases, items, events>>
          /\ items[x] # None
      BY <1>3 DEF BeginRemove
    <2> HIDE DEF q
    <2>3. requests' \in [Worker -> Requests] /\ requests'[p] = q /\ Others(p)
      BY <1>1, <2>1, <2>2
    <2>4. RequestFits(p)' /\ ~ Closing(p)'
      BY <2>1, <2>2, <2>3 DEF RequestFits, Adding, Removing, Closing, Known
    <2> QED BY <2>2, <2>3, <2>4, TablesUnchanged
  <1>4. ASSUME NEW q \in CloseRequest, NEW i \in Investigation, q.investigation = i,
               q.row = cases[i], cases[i] # None,
               UNCHANGED <<cases, items, events>>, requests' = [requests EXCEPT ![p] = q]
        PROVE  CasesInv'
    <2>1. cases[i] \in Case /\ Pristine(cases[i])
      BY <1>0, <1>4 DEF TypeOK, CasesInv
    <2>2. requests' \in [Worker -> Requests] /\ requests'[p] = q /\ Others(p)
      BY <1>1, <1>4
    <2>3. q.step \in {"closing", "reloaded"}
      BY DEF CloseRequest
    <2>4. RequestFits(p)'
      BY <1>4, <2>1, <2>2, <2>3 DEF RequestFits, Adding, Removing, Closing
    <2>5. /\ q.row.closed_by # None =>
               \E j \in ClosesOf(i) : events[j].actor = q.row.closed_by /\ CloserSince(j, i)
          /\ q.row.conclusion # None =>
               \E j \in ClosesOf(i) :
                  events[j].conclusion = q.row.conclusion /\ ConclusionSince(j, i)
      <3>1. CASE cases[i].status = "open"
        BY <1>4, <2>1, <3>1 DEF Pristine
      <3>2. CASE cases[i].status # "open"
        <4>1. PICK n \in ClosesOf(i) : CloserFrom(n, i) /\ ConclusionFrom(n, i)
          BY <1>4, <3>2 DEF CasesInv, CloseTrailed, IsOpen
        <4>2. \E j \in ClosesOf(i) : events[j].actor = cases[i].closed_by
          BY <4>1 DEF CloserFrom
        <4>3. \E j \in ClosesOf(i) : events[j].conclusion = cases[i].conclusion
          BY <4>1 DEF ConclusionFrom
        <4> QED BY <1>4, <4>2, <4>3 DEF CloserSince, ConclusionSince
      <3> QED BY <3>1, <3>2
    <2>6. LoadedTrailed(p)'
      BY <1>4, <2>2, <2>5 DEF LoadedTrailed, CloserSince, ConclusionSince, ClosesOf
    <2> QED BY <1>4, <2>2, <2>4, <2>6, TablesUnchanged
  <1>5. ASSUME NEW u \in User, NEW i \in Investigation, NEW why \in Conclusion,
               BeginClose(p, u, i, why)
        PROVE  CasesInv'
    <2> DEFINE q == [step |-> "closing", by |-> u, investigation |-> i, conclusion |-> why,
                     row |-> cases[i]]
    <2>1. /\ cases[i] # None /\ cases[i] \in Case /\ Pristine(cases[i])
          /\ cases[i].status = "open"
      BY <1>0, <1>5 DEF BeginClose, IsOpen, CasesInv, TypeOK
    <2>3. q \in CloseRequest /\ q.investigation = i /\ q.row = cases[i]
      BY <2>1 DEF CloseRequest
    <2>4. requests' = [requests EXCEPT ![p] = q] /\ UNCHANGED <<cases, items, events>>
      BY <1>5 DEF BeginClose
    <2> HIDE DEF q
    <2> QED BY <1>4, <2>1, <2>3, <2>4
  <1>6. CASE ReloadCase(p)
    <2>1. Closing(p) /\ requests[p] \in CloseRequest
      BY <1>0, <1>6, RequestKinds DEF ReloadCase, Closing
    <2>2. PICK i \in Investigation : requests[p].investigation = i
      BY <2>1 DEF CloseRequest
    <2>3. cases[i] # None /\ cases[i] \in Case
      BY <1>0, <2>1, <2>2 DEF RequestFits, TypeOK
    <2> DEFINE q == [requests[p] EXCEPT !.step = "reloaded", !.row = cases[i]]
    <2>4. q \in CloseRequest /\ q.investigation = i /\ q.row = cases[i]
      BY <2>1, <2>2, <2>3 DEF CloseRequest
    <2>5. requests' = [requests EXCEPT ![p] = q] /\ UNCHANGED <<cases, items, events>>
      BY <1>0, <1>6, <2>1, <2>2 DEF ReloadCase
    <2> HIDE DEF q
    <2> QED BY <1>4, <2>3, <2>4, <2>5
  <1>7. CASE LoadItem(p)
    <2>1. Removing(p) /\ requests[p] \in RemoveRequest
      BY <1>0, <1>7, RequestKinds DEF LoadItem, Removing
    <2> DEFINE q == [requests[p] EXCEPT !.step = "deleting"]
    <2>2. q \in RemoveRequest /\ q.step = "deleting" /\ q.item = requests[p].item
      BY <2>1 DEF RemoveRequest
    <2>3. requests' = [requests EXCEPT ![p] = q] /\ UNCHANGED <<cases, items, events>>
      BY <1>7 DEF LoadItem
    <2> HIDE DEF q
    <2>4. requests' \in [Worker -> Requests] /\ requests'[p] = q /\ Others(p)
      BY <1>1, <2>2, <2>3
    <2>5. RequestFits(p)' /\ ~ Closing(p)'
      BY <1>0, <2>1, <2>2, <2>3, <2>4
      DEF RequestFits, Adding, Removing, Closing, Known, RemovalsOf
    <2> QED BY <2>3, <2>4, <2>5, TablesUnchanged
  <1>8. CASE RefuseAdd(p) \/ ItemMissing(p) \/ Fail(p)
    <2>1. Done(p) /\ UNCHANGED <<cases, items, events>>
      BY <1>8 DEF RefuseAdd, ItemMissing, Fail
    <2>2. requests' \in [Worker -> Requests]
      BY <1>1, <2>1 DEF Done
    <2> QED BY <1>0, <2>1, <2>2, EndsRequest, TablesUnchanged
  <1> QED BY <1>2, <1>3, <1>5, <1>6, <1>7, <1>8

LEMMA CasesInvStep == CasesInv /\ [Next]_vars => CasesInv'
  <1> SUFFICES ASSUME CasesInv, [Next]_vars PROVE CasesInv'
    OBVIOUS
  <1>1. CASE UNCHANGED vars
    BY <1>1
    DEF vars, CasesInv, TypeOK, RequestFits, Adding, Removing, Closing, Known, SubjectMatches,
        ItemFits, ItemTrailed, ItemsApart, Counted, KnownItems, AdditionEvents, CloseTrailed,
        LoadedTrailed, CloserSince, ConclusionSince, CloserFrom, ConclusionFrom,
        RemovalsOf, Additions, ClosesOf, IsOpen
  <1>2. CASE Next
    BY <1>2, CreateKeeps, AddKeeps, RemoveKeeps, CloseKeeps, ReadsKeep DEF Next
  <1> QED BY <1>1, <1>2

LEMMA CasesInvAlways == Spec => []CasesInv
  BY InitCasesInv, CasesInvStep, PTL DEF Spec

(***************************************************************************)
(* The theorems                                                            *)
(***************************************************************************)
\* Rows, events and requests are well formed, whatever requests overlap or fail.
THEOREM TypeCorrect == Spec => []TypeOK
  <1>1. CasesInv => TypeOK
    BY DEF CasesInv
  <1> QED BY <1>1, CasesInvAlways, PTL

\* A case holds subjects of its own engagement, and each once, however many requests
\* add the same one.
THEOREM ContentsAlwaysRight == Spec => []CaseContents
  BY InvContents, CasesInvAlways, PTL

\* The events account for what is in a case, for what was taken out of it, and for
\* how it was closed, although removals overlap and name the wrong case and several
\* requests, of one user or of several, close it at once.
THEOREM TrailAlwaysAccounts == Spec => []TrailAccountsForCase
  <1>1. TrailAccountsForItems /\ TrailAccountsForClose => TrailAccountsForCase
    BY DEF TrailAccountsForCase
  <1> QED BY <1>1, InvTrail, CasesInvAlways, PTL
=============================================================================
