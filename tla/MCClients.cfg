SPECIFICATION ClientsSpec
CONSTANTS
    None = None
    Device = {d1}
    NodeId = {n1, n2}
    MatterId = {m1, m2}
    Op = {o1, o2}
    Client = {c1}
    MaxWire = 2
    Faults = {"persist", "delete", "removal", "undo", "drop", "crash"}
SYMMETRY Symmetry
INVARIANTS
    CopyHoldsRoster
    NeverFalselyOffline
    StaleOnlyIfHushed
    EventBeforeResponse
