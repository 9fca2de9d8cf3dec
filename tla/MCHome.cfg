SPECIFICATION Spec
CONSTANTS
    None = None
    Node = {n1}
    Endpoint = {e1, e2}
    Room = {r1}
    Name = {a, b}
    Value = {x, y, w}
    Wide = {w}
    Client = {c1}
    MaxWire = 2
    MaxPending = 2
    Owner <- Together
SYMMETRY Symmetry
INVARIANTS
    TypeOK
    References
    CopyHoldsHome
PROPERTIES
    OneEventTellsAll
