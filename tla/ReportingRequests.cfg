SPECIFICATION Spec
CONSTANTS
    e1 = e1
    e2 = e2
    c1 = c1
    c2 = c2
    u1 = u1
    Engagement = {e1, e2}
    Finding = {f1, f2}
    Chunk = {c1, c2}
    ChunkEngagement <- TwoChunks
    Report = {r1, r2}
    Downloaded = {r1, r2}
    Worker = {p1, p2, p3}
    Reviewer = {u1, u2}
    Reason = {because}
    None = None
    Empty = Empty
    Torn = Torn
SYMMETRY Symmetry
CONSTRAINT Bounds
INVARIANTS
    TypeOK
    EngagementBoundary
    ExportsComplete
    OnlyConfirmedReported
    VersionsNumbered
    TrailAccountsForRow
PROPERTY
    RecordOnlyGrows
CHECK_DEADLOCK FALSE
