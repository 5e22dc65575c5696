SPECIFICATION Spec
CONSTANTS
    e1 = e1
    e2 = e2
    c1 = c1
    c2 = c2
    u1 = u1
    Engagement = {e1}
    Finding = {f1}
    Chunk = {c1}
    ChunkEngagement <- OneChunk
    Report = {r1}
    Downloaded = {r1}
    Worker = {p1, p2}
    Reviewer = {u1}
    Reason = {because}
    None = None
    Empty = Empty
    Torn = Torn
INVARIANT
    PdfMirrorsReport
CHECK_DEADLOCK FALSE
