SPECIFICATION FairSpec
CONSTANTS
    Socket = {s1, s2}
    Guest = {g1}
    MaxOwed = 3
INVARIANTS
    GoneInTwo
    SubscribersConnected
PROPERTIES
    ReapedOwing
    StopResolves
