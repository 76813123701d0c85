SPECIFICATION ContainerSpec
CONSTANTS
  Tasks = {t1, t2}
  Keys = {"service", "client", "uow", "handler"}
  Scopes = {s1}
  None = None
  Classes <- MCClasses
  Registries <- MCRegistries
  Extra <- MCExtra
  MaxResolves = 2
  MaxChanges = 1
INVARIANTS InstancesShared DisposedUnlessLate
PROPERTY ResolveEnds
CHECK_DEADLOCK FALSE
