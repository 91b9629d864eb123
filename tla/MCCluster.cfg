SPECIFICATION TimedSpec
CONSTANTS
    n1 = n1
    n2 = n2
    Nodes <- MCNodes
    NodeSeq <- MCNodeSeq
    Requests = {r1}
    Providers = {"ollama", "mistral"}
    MaxModels = 1
    KeyTTL = 6
    Interval = 2
    MaxCheck = 1
    MaxFaults = 1
INVARIANTS Detected CountBounds
PROPERTY RecoveryNoticed
