SPECIFICATION Spec
CONSTANTS
    Transaction <- MCTransaction
    Spelling <- MCSpelling
    VendorName <- MCVendorName
    Normalize <- MCNormalize
    Blank <- MCBlank
    Request = {r1, r2}
    None = None
INVARIANT SelfHealed
CHECK_DEADLOCK FALSE
