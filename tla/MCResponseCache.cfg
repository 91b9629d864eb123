SPECIFICATION CacheSpec
CONSTANTS
    Requests = {r1, r2, r3}
    Conversations = {c1, c2}
    Providers = {p1, p2}
    Models = {m1, m2}
    Questions = {q1, q2}
    ConvTTL = 1
    GlobalTTL = 2
    None = None
SYMMETRY MCSymmetry
INVARIANT AnswersItsQuestion
PROPERTIES HitsAreFresh NoSecondCall
