CONSTANTS
    None = None
    Settle = 1
    Cooldown = 2
    ByteFresh = 3
    RxFresh = 3
    Poll = 1
    Jump = 2
    Second = 2
    Subnets = {"s1"}
    MaxQueue = 1
    MaxBytes = 2
SPECIFICATION LiveSpec
INVARIANT TypeOK
PROPERTIES RateNotInflated FlowingLinkNotRestarted DeadLinkRestarted
