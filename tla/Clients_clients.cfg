SPECIFICATION Spec
CONSTANTS
  c1 = c1
  c2 = c2
  Conns = {c1, c2}
  Sids = {1}
  MaxSubs <- MCMaxSubs
  MaxPubs <- MCMaxPubs
  Maxes = {0, 1}
  Pinged = {c1}
  MaxUnasked <- MCMaxUnasked
  MaxPingsOut = 1
  MaxFaults = 1
  Slow = {c2}
  Verbose = FALSE
INVARIANTS TypeOK ClosedLeavesNothing LimitKept LimitEndsInterest WrittenIsFlushed
PROPERTIES SilentIsClosed
CHECK_DEADLOCK FALSE
