CONSTANTS
  c1 = c1 c2 = c2 a1 = a1 a2 = a2 e1 = e1 e2 = e2 f1 = f1 f2 = f2
  NoSnapshot = NoSnapshot NoView = NoView
  Callers = {c1, c2}
  Aggregates = {a1, a2}
  DomainEvents = {e1, e2}
  Fields = {f1, f2}
  Applies <- Writes
  Kept <- KeptByA1
  SnapshotEvery = 2
  MaxVersion <- Versions
  MaxPending = 2
  MaxRollbacks = 1
SPECIFICATION EventStoreSpec
SYMMETRY CallerSymmetry
INVARIANTS InstanceIsReplay SnapshotFaithful
PROPERTY ImplementsLog
