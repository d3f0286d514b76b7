\* As in ToolCall.cfg; no token is asked for.
SPECIFICATION CallSpec
CONSTANTS
    Calls = {1, 2}
    MaxAttempts = 1
    MaxCrashes = 0
    Plans <- MCPlans
    AdminTools = {"malformed"}
    Roles = {"scientist"}
    Users = {c1}
    Life = 4
    Margin = 2
    MaxDelay = 1
    MaxUnaudited = 1
    MaxTime = 0
INVARIANTS
    EveryCallIsAudited
\* A plan ends.
CHECK_DEADLOCK FALSE
