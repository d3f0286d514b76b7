\* Two messages, one after the other or overlapping, a client that comes, goes
\* and resumes, and a restart; two revisions of plans of up to two steps, one of
\* three tools high-risk.
SPECIFICATION PartsSpec
CONSTANTS
    MaxRuns = 2
    MaxEmits = 2
    MaxRestarts = 1
    Outputs = {1, 2, 3}
    Clients = {c1}
    MaxStored = 2
    QueueSize = 2
    t1 = t1  t2 = t2  t3 = t3
    Tools = {t1, t2, t3}
    HighRisk = {t1}
    MaxSteps = 2
    MaxRetries = 2
    MaxReplans = 2
INVARIANTS
    IInv
    ActiveIsReachable
    ReceivedInOrder
    HighRiskConfirmed
    PlannerInv
PROPERTIES
    ListenersAreReleased
    ReleasedHaveAll
    RunsKeepTheirLifecycle
    RevisionsNarrow
    PlanningEnds
\* A session ends up idle.
CHECK_DEADLOCK FALSE
