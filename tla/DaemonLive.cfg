SPECIFICATION FairSpec
CONSTANTS
    Clients = {c1}
    Labels = {l1}
    None = None
    MaxConns = 1
PROPERTIES
    EveryWaitEnds
    CancelFreesSlot
