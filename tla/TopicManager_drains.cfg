SPECIFICATION FairSpec
CONSTANTS
    n1 = n1
    n2 = n2
    Session = {s1, s2}
    Name = {n1}
    Type = {"1"}
    TypeOf <- OneType
    Topic = {x1, x2}
    Handler = {h1, h2}
    None = None
    ConcurrentClose = FALSE
    Torn = FALSE
INVARIANTS Inv FiledFindable
PROPERTIES NoLostHandler RequestsFinish MapDrains
CHECK_DEADLOCK FALSE
