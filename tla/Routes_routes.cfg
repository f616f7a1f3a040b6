SPECIFICATION Spec
CONSTANTS
  a = a
  b = b
  Servers = {a, b}
  Links = {1, 2}
  Configs <- MCConfigs
  AuthRequired = TRUE
  MaxDials = 2
  MaxFaults <- MCMaxFaults
INVARIANTS TypeOK RemotesTrue NotGivenUp SettledAgree
PROPERTIES Connected
CHECK_DEADLOCK FALSE
