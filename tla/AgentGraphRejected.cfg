SPECIFICATION Spec
CONSTANTS
    Specialist <- ThreeSpecialists
    Chunk = {c1}
    MaxReplans = 2
    Resumption = {p1}
    None = None
INVARIANT
    RejectedRunHasNoReport
CHECK_DEADLOCK FALSE
