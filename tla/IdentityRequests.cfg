SPECIFICATION Spec
CONSTANTS
    LastKey = 2
    Request = {r1, r2, r3}
    None = None
    Address <- MCAddress
    Lower <- MCLower
    Invalid = {""}
    short = short
    long = long
    longer = longer
    Password = {short, long, longer}
    Hashed <- MCHashed
    EntraSubject = {oid1, oid2}
    Engagement = {e1}
    DefaultEngagement = e1
    Connection = {c1, c2}
    Empty = ""
SYMMETRY Symmetry
CONSTRAINT Bounds
INVARIANTS
    TypeOK
    AccountsWhole
    OwnIdentityOnly
    LoginFindsAccount
    ValidTokenAccepted
CHECK_DEADLOCK FALSE
