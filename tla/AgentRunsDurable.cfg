SPECIFICATION Spec
CONSTANTS
    Run = {r1}
    Reviewer = {p1, p2}
    None = None
PROPERTY
    DecisionDurable
