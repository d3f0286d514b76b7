\* One session: a variable is set just after the session expired.
SPECIFICATION Spec
CONSTANTS
    s1 = s1
    Sessions = {s1}
    TTL = 2
    MaxMessages = 2
    ListLimit = 1
    MaxAppends = 3
    Watched = {s1}
INVARIANT
    EveryKeyExpires
