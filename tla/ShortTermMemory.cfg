\* Two sessions: every order of writes, reads, expiry and deletion.
SPECIFICATION Spec
CONSTANTS
    s1 = s1  s2 = s2
    Sessions = {s1, s2}
    TTL = 2
    MaxMessages = 2
    ListLimit = 1
    MaxAppends = 3
    Watched = {s1}
INVARIANTS
    IInv
    ReadableIsListed
PROPERTIES
    HistoryGoesWithSession
