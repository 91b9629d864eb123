SPECIFICATION Spec
CONSTANTS
    c1 = c1
    c2 = c2
    Clients = {c1, c2}
    Endpoints = {"chat", "openai"}
    Daily = 1
    Monthly = 2
    ZoneOffset = 1
    MaxDay = 2
    MaxAnswers = 4
SYMMETRY MCSymmetry
CHECK_DEADLOCK FALSE
INVARIANTS DailyBound QuotaWithinUsage MonthlyBound
