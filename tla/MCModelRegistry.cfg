SPECIFICATION RegistrySpec
CONSTANTS
    n1 = n1
    n2 = n2
    NodeSeq <- MCNodeSeq
    Models <- MCModels
    Names <- MCNames
    Tagged <- MCTagged
    Containing <- MCContaining
    Clients = {r1}
    MaxFaults = 2
INVARIANTS ListsKept NamedIsServed
PROPERTY Relisted
