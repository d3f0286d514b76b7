\* A plan of two calls, two attempts each, against servers that hang and crash; two
\* callers over several token lives.
SPECIFICATION CallSpec
CONSTANTS
    Calls = {1, 2}
    MaxAttempts = 2
    MaxCrashes = 1
    Plans <- MCPlans
    AdminTools = {"malformed"}
    Roles = {"scientist"}
    Users = {c1, c2}
    Life = 4
    Margin = 2
    MaxDelay = 1
    MaxUnaudited = 1
    MaxTime = 8
INVARIANTS
    IInv
    AuditMatchesAnswer
    CompletedByItsRun
    CompletedWorkIsSeen
    EffectsBounded
    TokenInv
    NeverExpiredOnArrival
PROPERTIES
    PlanEnds
\* A plan ends, and the clock stops at its bound.
CHECK_DEADLOCK FALSE
