\* Two retries, one handshake state, one address, two outages: retries after
\* every kind of failure, a stale status at the start of an attempt, every
\* phase of the watchdog, and a cancellation in every state of the task.
SPECIFICATION FairSpec
CONSTANTS
    MaxRetries = 2
    Handshake = {"Auth"}
    Ips = {"ip"}
    NoIp = "none"
    MaxOutages = 2
INVARIANTS
    TypeOK
    WatchdogTracksStatus
    HealthyMeansNoError
    NoResidue
    AtMostOneLateSpawn
    ReconnectsAreOutages
PROPERTIES
    NoApplyAfterCancel
    ImplementsTunnel
    CancelEndsRun
    NoWedge
