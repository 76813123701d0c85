CONSTANTS
  d1 = d1 d2 = d2 d3 = d3 t1 = t1 t2 = t2 e1 = e1 e2 = e2 e3 = e3
  Free = Free NoRow = NoRow
  Deliveries = {d1, d2, d3}
  Events = {e1, e2, e3}
  EventOf <- Of
  OwnHandlers = {e1}
  BaseHandlers = {e1, e2}
  Tickers = {t1, t2}
  UseLock = TRUE
  MaxAttempts = 2
  MaxFaults = 1
  MaxAges = 1
SPECIFICATION FairSpec
INVARIANT TimeoutsExclusive
PROPERTIES TerminalIsFinal NoLostUpdate TimeoutServed
