\* Joins, chains, wide and broken plans, two at a time, a retry and a replan.
SPECIFICATION FairSpec
CONSTANTS
    a = a  b = b  c = c
    Steps = {a, b, c}
    Plans <- MCPlans
    MaxConcurrent = 2
    MaxRetries = 1
    MaxReplans = 1
INVARIANTS
    TopologicalOrder
    FreshApproval
    NoOrphans
    CompletedExplained
    ObservedInOrder
    IInv
    HistoryInv
PROPERTIES
    Terminates
    ImplementsLifecycle
    ImplementsRun
\* The execution ends.
CHECK_DEADLOCK FALSE
