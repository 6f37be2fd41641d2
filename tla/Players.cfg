CONSTANTS
  Clients = {c1, c2}
  Spellings = {"Ana", "ANA", "Budi"}
  Keys = {"ana", "budi"}
  Normal <- MCNormal
  Players = {1, 2, 3}
  Tiers = {"B", "C"}
  None = None
  Requests <- MCRequests
  MaxRequests = 3
SPECIFICATION FairSpec
INVARIANTS AnswersAgree
PROPERTIES ChangesByWholeRequests TierIsSticky RenameKeepsOldName RequestsEnd
CHECK_DEADLOCK FALSE
