SPECIFICATION Spec
CONSTANTS
  a = a
  b = b
  p1 = p1
  p2 = p2
  p3 = p3
  q1 = q1
  q2 = q2
  m1 = m1
  m2 = m2
  Servers = {a, b}
  Subs = {p1, p2, p3, q1, q2}
  Queue = {q1, q2}
  Msgs = {m1, m2}
  Home <- MCHome
  Origin <- MCOrigin
  Maxes = {0, 1}
  Closing = {p3, q2}
  Linked <- MCLinked
  Unlinked <- MCUnlinked
SYMMETRY Symmetry
INVARIANTS TypeOK AtMostOnce  EachIsReached
CHECK_DEADLOCK FALSE
