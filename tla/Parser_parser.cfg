SPECIFICATION Spec
CONSTANTS
  Inputs <- MCInputs
  ScratchCap = 8
  MaxPayload = 10
  MaxReads = 4
INVARIANTS TypeOK CallsAsSent WholeStream
CHECK_DEADLOCK FALSE
