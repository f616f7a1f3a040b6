SPECIFICATION Spec
CONSTANTS
    Thread = {t1, t2}
    Session = {s1, s2}
    Handler = {h1}
    Conn = {c1, c2}
    Sid = {i1, i2}
    None = None
    Lossy = TRUE
    Failing = TRUE
SYMMETRY Alike
VIEW AllButLost
INVARIANTS TypeOK
PROPERTIES ContractSpec NextIsRegistered FullRound
