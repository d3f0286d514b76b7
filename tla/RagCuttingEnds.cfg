\* All texts of up to five characters; no servers, and nothing is indexed.
SPECIFICATION SourcesSpec
CONSTANTS
    a = a
    Servers = {a}
    c1 = c1
    Callers = {c1}
    TTL = 1
    MaxChanges = 0
    Texts <- SomeTexts
    Size = 4
    Overlap = 2
    MaxLength = 5
    MaxStretch = 5
    d1 = d1
    Documents = {d1}
    MaxChunks = 1
    BatchSize = 1
    MaxVersions = 0
PROPERTIES
    CuttingEnds
\* The loop ends.
CHECK_DEADLOCK FALSE
