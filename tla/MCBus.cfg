SPECIFICATION Spec
CONSTANTS
    None = None
    Event = {e1, e2}
    Handler = {h1, h2}
    Subscription = {s1, s2, s3, s4}
    MaxDepth = 3
SYMMETRY Symmetry
INVARIANTS
    HeardIffSubscribed
    EachToldOnce
