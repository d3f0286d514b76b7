\* A task is announced as completed with steps skipped or never run.
SPECIFICATION Spec
CONSTANTS
    a = a  b = b  c = c
    Steps = {a, b, c}
    Plans <- MCPlans
    MaxConcurrent = 3
    MaxRetries = 0
    MaxReplans = 0
INVARIANT
    AllStepsCompleted
\* The execution ends.
CHECK_DEADLOCK FALSE
