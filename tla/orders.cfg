CONSTANTS
  o1 = o1 o2 = o2 c1 = c1 consumer = consumer ticker = ticker r1 = r1 r2 = r2
  Orders = {o1, o2}
  Clients = {c1}
  Consumer = consumer
  Ticker = ticker
  Runners = {r1}
  Baskets <- MCBaskets
  MaxRequests = 2
  MaxFaults = 2
SPECIFICATION Spec
CHECK_DEADLOCK FALSE
INVARIANTS StreamIsLegal AnswersBacked
PROPERTIES SummaryFollows PlacedIsDecided
