SPECIFICATION Spec
CONSTANTS
  a = a
  b = b
  Servers = {a, b}
  Links = {1, 2}
  Configs <- MCMutual
  AuthRequired = TRUE
  MaxDials = 2
  MaxFaults <- MCOneFault
INVARIANTS ReconnectUnlessConnected
CHECK_DEADLOCK FALSE
