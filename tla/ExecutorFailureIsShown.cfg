\* The status query still shows an execution that failed as running.
SPECIFICATION Spec
CONSTANTS
    a = a  b = b  c = c
    Steps = {a, b, c}
    Plans <- MCPlans
    MaxConcurrent = 2
    MaxRetries = 0
    MaxReplans = 1
INVARIANT
    FailureIsShown
\* The execution ends.
CHECK_DEADLOCK FALSE
