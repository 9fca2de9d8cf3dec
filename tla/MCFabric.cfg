SPECIFICATION Spec
CONSTANTS
    None = None
    Device = {d1, d2}
    NodeId = {n1, n2}
    MatterId = {m1, m2}
    Op = {o1, o2}
    Faults = {"attach", "persist", "delete", "removal", "undo", "drop", "reset", "crash", "power"}
SYMMETRY Symmetry
INVARIANTS
    TypeOK
    Controllable
    OneNodePerPeer
    FlagHasOwner
    AnswersHold
PROPERTIES
    OrphanOnlyByFailure
    StrandedOnlyByForce
    RosterSpec
