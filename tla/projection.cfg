CONSTANTS
  r1 = r1 r2 = r2 p1 = p1 p2 = p2 a1 = a1 a2 = a2
  NoWrite = NoWrite
  Runners = {r1, r2}
  Registered <- TwoProjections
  Aggregates = {a1}
  BatchSize = 2
  Poison <- SecondRaises
  MaxLength = 2
  MaxFailures = 1
  MaxRebuilds = 1
  MaxResets = 1
SPECIFICATION FairProjectionSpec
INVARIANT NoSkip
PROPERTY EventuallyApplied
