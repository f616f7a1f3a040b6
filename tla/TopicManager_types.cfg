SPECIFICATION Spec
CONSTANTS
    n1 = n1
    n2 = n2
    Session = {s1, s2}
    Name = {n1, n2}
    Type = {"1", "2"}
    TypeOf <- TwoTypes
    Topic = {x1, x2}
    Handler = {h1, h2}
    None = None
    ConcurrentClose = FALSE
    Torn = TRUE
SYMMETRY Alike
INVARIANTS ClosedIsForgotten
PROPERTIES UnsubscribeAllCompletes RegistrySpec
CHECK_DEADLOCK FALSE
