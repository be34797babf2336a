SPECIFICATION Spec
CONSTANTS
    Platforms = {"macos", "linux", "windows"}
    Suffixes = {corp, lab}
    Malformed = malformed
    Blank = blank
    Servers = {a, b}
    MaxServers = 1
    None = none
    MaxFaults = 1
    MaxCrashes = 1
    Links = {l1, l2}
    Host = {"resolved", "plain"}
    Guids = {1, 2, 3, 4, 5, 6}
    MaxDomains = 1
SYMMETRY Symmetry
VIEW Seen
INVARIANTS
    TypeOK
    NothingLeftBehind
    ForeignKept
    ReportMatchesResolver
