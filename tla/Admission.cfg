CONSTANTS
  Addresses = {"a1", "a2"}
  Burst = 1
  Unit = 2
  Rate = 1
  IdleTimeout = 2
  MaxIPs = 1
  Clients = {c1, c2}
  Ticker = ticker
  MaxConns = 3
SPECIFICATION FairSpec
PROPERTIES LimitsByTokens RequestsEnd
