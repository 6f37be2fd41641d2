CONSTANTS
  Clients = {c1, c2}
  Games = {"g1", "g2"}
  Players = {"p1", "p2", "p3", "p4", "p5", "p6", "p7"}
  FirstSeats <- MCSeats
  Scores = {"s1"}
  NoScore = "noScore"
  Keys = {"k1"}
  NoKey = "noKey"
  Requests <- PublishRequests
  MaxRequests = 2
SPECIFICATION Spec
SYMMETRY ClientSymmetry
INVARIANTS TypeOK GameCheckHolds SessionCheckHolds
PROPERTIES TakesEffectAtOnce OneBumpPerChange LockedStructureFrozen
