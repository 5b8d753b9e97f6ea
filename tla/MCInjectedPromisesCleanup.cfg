SPECIFICATION Spec
CONSTANTS
  Commands = {p1, p2}
  Earlier = {m1}
  Age = 2
  Interval = 1
  Start = 2
  MaxTime = 5
INVARIANT
  CleanupOncePerInterval
SYMMETRY Symmetry
\* Commands end and the clock stops at its bound.
CHECK_DEADLOCK FALSE
