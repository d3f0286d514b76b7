\* Two callers, servers that come and go; all texts of up to five characters, and
\* those of up to nine with Chinese stops only; three calls for two documents of
\* up to five chunks, three batches each.
SPECIFICATION SourcesSpec
CONSTANTS
    s1 = s1  s2 = s2
    Servers = {s1, s2}
    c1 = c1  c2 = c2
    Callers = {c1, c2}
    TTL = 2
    MaxChanges = 3
    Texts <- SomeTexts
    Size = 4
    Overlap = 2
    MaxLength = 5
    MaxStretch = 9
    d1 = d1  d2 = d2
    Documents = {d1, d2}
    MaxChunks = 5
    BatchSize = 2
    MaxVersions = 3
INVARIANTS
    RegistryIInv
    RegisteredWithinTTL
    CutInv
    PassedIsCovered
    IInv
    IndexedIsKept
PROPERTIES
    CallsEnd
    EvenTextsEnd
\* The loop ends.
CHECK_DEADLOCK FALSE
