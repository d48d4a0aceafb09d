\* Two requests with one key, one admission an hour, two hours
SPECIFICATION FairSpec
CONSTANTS
    Keys = {k1}
    Requests = {r1, r2}
    KeyOf <- MCKeyOf
    Limit = 1
    Resends = 1
    MaxWindow = 2
INVARIANTS TypeOK WithinLimit QuotaUsable ServedIsCharged
PROPERTIES RevokedStaysOut OutdatedClears AllAnswered
