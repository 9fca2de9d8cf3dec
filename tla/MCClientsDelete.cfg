SPECIFICATION ClientsSpec
CONSTANTS
    None = None
    Device = {d1}
    NodeId = {n1}
    MatterId = {m1}
    Op = {o1}
    Client = {c1}
    MaxWire = 3
    Faults = {"delete"}
INVARIANTS
    OfflineAfterFailedDelete
