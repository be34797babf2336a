SPECIFICATION Spec
CONSTANTS
    Clients = {c1}
    Labels = {l1}
    None = None
    MaxConns = 1
SYMMETRY Symmetry
PROPERTY ConvergeRespectsDown
