\* An event emitted between the last replayed event and the subscription is lost.
SPECIFICATION Spec
CONSTANTS
    MaxRuns = 1
    MaxEmits = 3
    MaxRestarts = 0
    Outputs = {1, 2}
    Clients = {c1}
    MaxStored = 3
    QueueSize = 2
INVARIANT
    ResumeLosesNothing
\* A session ends up idle.
CHECK_DEADLOCK FALSE
