CONSTANTS
  q1 = q1 q2 = q2
  Requests = {q1, q2}
  Leeway = 1
  Capacity = 1 Unit = 3 Refill = 1 SlowRefill = 3 MinTtl = 1
  Inputs <- MCInputs
  Tokens <- MCTokens
  Revocable = {"full"}
  Stacks <- MCStacks
  HomeOf <- MCHomeOf
  Here = "eu"
  DefaultRegion = "unknown"
  Urls = {"us"}
  HandlerErrors = {"ConflictError"}
  Checks <- MCChecks
  Skew = 1
  MaxArrivals = 3
  MaxTime = 2
  MaxFaults = 1
SYMMETRY Alike
SPECIFICATION Spec
CHECK_DEADLOCK FALSE
INVARIANTS BucketBound PrincipalIsOwn AnswersObservable
