SPECIFICATION RepositorySpec
CONSTANTS
  Sessions = {s1, s2}
  Conns = {c1, c2}
  Tenants = {a}
  None = None
  Ids = {1, 2}
  PageSize = 1
  MaxTxns = 3
  MaxVersion = 3
  MaxChanges = 1
INVARIANTS PathContained WalkComplete
PROPERTY LostOnlyByReuse
SYMMETRY Symmetry
CHECK_DEADLOCK FALSE
