SPECIFICATION Spec
CONSTANTS
    Processes = {g1, g2}
    Keys = {k1}
    BatchSize = 2
    MaxCount = 3
    MaxEntries = 3
    MaxFaults = 0
INVARIANT ConsumedOnce
