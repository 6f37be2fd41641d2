CONSTANTS
  Last = 3
  Tournaments = {2}
  FirstSources <- MCFirstSources
  Players = {"p1", "p2", "p3", "p4", "p5"}
  Sides <- MCSides
  Placeholders <- MCPlaceholders
  Tiers = {"B"}
  NoTier = "noTier"
  Clients = {c1}
  Ticker = ticker
  Requests <- MCRequests
  Promotions <- MCPromotions
  AutoReconcile = FALSE
  MaxVersion = 2
  Budget = 3
SPECIFICATION FairSpec
INVARIANTS LedgerIsReplay FingerprintBacked
PROPERTIES NewestIsIngested
CHECK_DEADLOCK FALSE
