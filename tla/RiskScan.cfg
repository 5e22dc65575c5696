SPECIFICATION Spec
CONSTANTS
    t1 = t1
    t2 = t2
    invoice = invoice
    Transaction = {t1, t2}
    Payment <- TwoPayments
    Day <- OneDay
    Structuring = {{t1}, {t1, t2}}
    RoundDollar = {}
    Deviation <- SecondDeviates
    ProximityDays = 3
    Anomaly = {a1, a2}
    Worker = {p1, p2, p3}
    Reviewer = {u1, u2}
    None = None
SYMMETRY Symmetry
CONSTRAINT Bounds
INVARIANTS
    TypeOK
    FlagsSupported
    ScansLeaveNothing
    TrailAccountsForAnomaly
CHECK_DEADLOCK FALSE
