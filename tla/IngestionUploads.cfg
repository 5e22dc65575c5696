SPECIFICATION Spec
CONSTANTS
    c1 = c1
    Engagement = {e1, e2}
    Content = {c1, c2}
    MimeType = {"text", "pdf"}
    Document = {d1, d2, d3, d4}
    Worker = {p1, p2, p3}
    Text <- ShortTexts
    TargetWords = 5
    MinWords = 3
    OverlapPercent = 40
    Parsed <- TextFiles
    None = None
SYMMETRY Symmetry
INVARIANTS
    TypeOK
    OneDocumentPerContent
    DocumentsWhole
    EmbeddedOnce
    StoredTextWhole
CHECK_DEADLOCK FALSE
