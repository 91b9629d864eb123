SPECIFICATION FairSpec
CONSTANTS
    plan = plan
    personal = personal
    other = other
    s1 = s1
    Users = {s1, u1, u2}
    Orgs = {personal, other}
    Catalog = {plan}
    Startup <- MCStartup
    Threads = {t1, t2}
    MaxUsers <- MCMaxUsers
    MaxCrashes = 1
    None = None
INVARIANTS OneKey KeylessBound MembershipBound
PROPERTY StartsUp
CHECK_DEADLOCK FALSE
