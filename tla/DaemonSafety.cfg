\* Two clients, racing with each other, converge, the watcher and shutdown; two
\* connections, before and after a restart.
SPECIFICATION Spec
CONSTANTS
    Clients = {c1, c2}
    Labels = {l1}
    None = None
    MaxConns = 2
SYMMETRY Symmetry
INVARIANTS
    TypeOK
    OneTunnel
PROPERTY NoReconvergeAfterDown
