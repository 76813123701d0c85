CONSTANTS
  good = good unhandled = unhandled unknown = unknown malformed = malformed badtenant = badtenant w1 = w1
  Events <- AllEvents
  Kind <- AllKinds
  NumHandlers = 2
  Workers = {w1}
  Concurrency = 2
  MaxDeliver = 2
  UseDLQ = TRUE
  MaxMessages = 2
  MaxFaults = 1
SPECIFICATION FairSpec
INVARIANTS FateAccounted ExclusiveUnlessDisturbed
PROPERTIES EventuallySettled
