SPECIFICATION BoundedSpec
CONSTANTS
    t1 = t1
    t2 = t2
    Thread = {t1, t2}
    Session = {s1}
    Handler = {h1, h2}
    Conn = {c1, c2}
    Sid = {i1, i2}
    None = None
    Lossy = TRUE
    Failing = FALSE
    MaxCalls <- MCMaxCalls
    MaxLosses = 1
INVARIANTS OneConnection SubscriptionsMatch
PROPERTIES CallsFinish ReceivedWhileReading
CHECK_DEADLOCK FALSE
