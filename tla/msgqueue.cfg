SPECIFICATION Spec
CONSTANTS
  g = g
  h = h
  j = j
  a = a
  b = b
  Sessions = {g, h, j}
  Answered = {g, h}
  People = {a, b}
  Targets = {{a}, {b}}
  MaxMessages = 2
  MaxSends = 2
  MaxStarts = 2
  MaxQueue = 3
SYMMETRY Symmetry
INVARIANTS NoneLost NoneTwice NoneWaits NoneOvertakes
CHECK_DEADLOCK FALSE
