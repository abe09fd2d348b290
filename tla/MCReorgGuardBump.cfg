SPECIFICATION Spec
CONSTANTS
  g = g
  a1 = a1
  a2 = a2
  b1 = b1
  b2 = b2
  Block = {g, a1, a2, b1, b2}
  None = None
  Genesis = g
  Parent <- Fork
  LastEpoch = 2
  FromEpoch = 0
  Part = {p1, p2}
  MaxPops = 2
INVARIANTS
  ReadsAreConsistent
