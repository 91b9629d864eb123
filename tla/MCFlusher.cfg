SPECIFICATION FairSpec
CONSTANTS
    Gateway = g
    Processes = {g}
    Keys = {k1, k2}
    BatchSize = 2
    MaxCount = 2
    MaxEntries = 3
    MaxFaults = 2
INVARIANTS StopLeavesNoCount LossBound
PROPERTIES AuditTrailSpec UsageMonotone UsageReachesSQL BufferDrains
