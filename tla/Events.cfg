CONSTANTS
  Writers = {w1, w2, w3}
  Games = {g1, g2}
  Session = session
  Limit = 2
  MaxId = 5
SPECIFICATION Spec
SYMMETRY Symmetry
INVARIANTS OnlyOthersOvertake SessionEventsDelivered MissedWereLate
