SPECIFICATION Spec
CONSTANTS
    Chats = {c1, c2}
    Threads = {t1, t2}
    Cap = 4
    MaxTurns = 4
    MaxFaults = 2
SYMMETRY MCSymmetry
INVARIANTS HistoryBound WholeTurns HistoryExpires ListedHasMeta
CHECK_DEADLOCK FALSE
