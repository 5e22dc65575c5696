SPECIFICATION ChatSpec
CONSTANTS
    Run = {r1}
    Reviewer = {p1, p2}
    Turn = {t1}
    None = None
INVARIANTS
    TypeOK
    AwaitingIffOpen
    PausedRunResumable
    TurnsTellWhatHappened
PROPERTIES
    RunsMoveForward
    EveryRequestAnswered
