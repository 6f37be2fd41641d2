CONSTANTS
  Clients = {c1, c2}
  Contents = {"open", "done"}
  Complete = {"done"}
  NoContent = "empty"
  MaxRequests = 3
SPECIFICATION FairSpec
INVARIANTS CheckHolds SourceHasTournament
PROPERTIES TakesEffectAtOnce ReplacesWhatWasSeen VersionedPutKeepsFormat RequestsEnd
CHECK_DEADLOCK FALSE
