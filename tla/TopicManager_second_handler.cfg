SPECIFICATION Spec
CONSTANTS
    n1 = n1
    n2 = n2
    Session = {s1, s2}
    Name = {n1}
    Type = {"1"}
    TypeOf <- OneType
    Topic = {x1, x2, x3}
    Handler = {h1, h2, h3}
    None = None
    ConcurrentClose = FALSE
    Torn = FALSE
CHECK_DEADLOCK FALSE
INVARIANT OneHandlerPerTopic
