\* Two destinations, so that an apply can fail half way; two gateways and two
\* interfaces, so that both can change; one destination that is also
\* on the host's LAN; one kind of failing call.
SPECIFICATION Spec
CONSTANTS
    Platforms = {"linux", "macos", "windows"}
    Nets = {n1, n2}
    Gateways = {g1, g2}
    Interfaces = {i1, i2}
    Uplink = en0
    None = None
    MaxHostRoutes = 1
    MaxFaults = 1
SYMMETRY Symmetry
INVARIANTS
    TypeOK
    NoStaleRoute
    ConnectedRoutesLive
    RecordedRoutesAreCleared
