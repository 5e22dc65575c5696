SPECIFICATION Spec
CONSTANTS
    e1 = e1
    e2 = e2
    s1 = s1
    Engagement = {e1, e2}
    Investigation = {i1, i2}
    Item = {x1, x2}
    Subject = {s1}
    SubjectEngagement <- OneSubject
    Worker = {p1, p2, p3}
    User = {u1, u2}
    Conclusion = {c1, c2}
    None = None
SYMMETRY Symmetry
CONSTRAINT Bounds
INVARIANTS
    TypeOK
    CaseContents
    TrailAccountsForCase
CHECK_DEADLOCK FALSE
