SPECIFICATION Spec
CONSTANTS
    Procs = {p, q}
    Keys = {corp, lab}
    None = none
    MaxRt = 2
    MaxFaults = 1
SYMMETRY Symmetry
INVARIANTS
    TypeOK
    PointerResolves
    UpHandsRefreshToken
PROPERTIES
    CredentialNotLost
    NoRollback
