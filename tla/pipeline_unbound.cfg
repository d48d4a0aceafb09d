SPECIFICATION Spec
CONSTANTS
    d1 = d1  d2 = d2  h1 = h1  h2 = h2  safe = safe  virus = virus  png = png  pdf = pdf
    Requests = {r1}
    Developers = {d1}
    Heads = {h1}
    Tails = {safe}
    Exts = {pdf}
    ImageExts = {}
    Infected = {}
    Uploads <- MCOneDocument
    RenditionCount = 1
    DeliveryLimit = 1
    MaxDeliveryCount = 1
    ScanAttempts = 2
    None = None
    Scanners = {s1}
    Imagers = {}
INVARIANT AcceptedIsScheduled
