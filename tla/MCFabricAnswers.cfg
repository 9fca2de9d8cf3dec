SPECIFICATION FairSpec
CONSTANTS
    None = None
    Device = {d1}
    NodeId = {n1, n2}
    MatterId = {m1, m2}
    Op = {o1, o2}
    Faults = {"attach", "persist", "removal", "undo", "drop", "crash"}
PROPERTIES
    EveryRequestAnswered
