SPECIFICATION EngineSpec
CONSTANTS
    Requests = {r1, r2, r3}
    Credentials = {"login", "key"}
    UserOf <- MCUserOf
    OrgOf <- MCOrgOf
    KeyOf <- MCKeyOf
    IpOf <- MCIpOf
    Rps <- MCRps
    Models = {m}
    ModelLimit <- MCModelLimit
    GatewayLimit = 4
    IpLimit = 3
    OrgFactor = 1
    Window = 1
    Threads = 2
    None = None
SYMMETRY MCSymmetry
VIEW MCView
INVARIANTS WindowBound AdmittedCharged
PROPERTIES HalfTheRate
CHECK_DEADLOCK FALSE
