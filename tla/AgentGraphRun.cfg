SPECIFICATION FairSpec
CONSTANTS
    Specialist <- ThreeSpecialists
    Chunk = {c1}
    MaxReplans = 2
    Resumption = {p1, p2}
    None = None
CONSTRAINT Bounds
INVARIANTS
    TypeOK
    ReviewFollowsScreening
    DraftMatchesReview
    StatusTellsPath
PROPERTIES
    ImplementsReviewGate
    RunStops
CHECK_DEADLOCK FALSE
