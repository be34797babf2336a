SPECIFICATION FairSpec
CONSTANTS
    MaxRetries = 1
    Handshake = {"Auth"}
    Ips = {"ip"}
    NoIp = "none"
    MaxOutages = 1
PROPERTY DroppedSocketIsRetried
