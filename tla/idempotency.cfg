CONSTANTS
  q1 = q1 q2 = q2 q3 = q3 a = a b = b v = v
  Null = Null NoKey = NoKey NoFp = NoFp
  Requests = {q1, q2, q3}
  Payloads = {a, b}
  Payload <- TwoBodies
  Values = {v}
  MaxFaults = 2
SPECIFICATION FairSpec
INVARIANTS AtMostOneRun AnswersJustified
PROPERTIES ClaimEnds
