SPECIFICATION Spec
CONSTANTS
    d1 = d1  d2 = d2  h1 = h1  h2 = h2  safe = safe  virus = virus  png = png  pdf = pdf
    Requests = {r1, r2}
    Developers = {d1}
    Heads = {h1}
    Tails = {safe, virus}
    Exts = {pdf}
    ImageExts = {}
    Infected <- MCInfected
    Uploads <- MCDocuments
    RenditionCount = 2
    DeliveryLimit = 1
    MaxDeliveryCount = 1
    ScanAttempts = 2
    None = None
    Scanners = {s1}
    Imagers = {}
INVARIANTS TypeOK TaskHasRow TaskUnlessError AckHandled TaintedNeverServed EvidenceKept
SYMMETRY MCSymmetry
