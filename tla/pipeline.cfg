CONSTANTS
  c1 = c1 c2 = c2 c3 = c3 r1 = r1 r2 = r2 NoCommand = NoCommand
  Commands = {c1, c2, c3}
  Rows = {r1, r2}
  RowsOf <- MCRowsOf
  Parent <- MCParent
  TypeOf <- MCTypeOf
  EventOf <- MCEventOf
  RoleOf <- MCRoleOf
  Messages <- MCMessages
  Behaviors <- MCBehaviors
  Startups <- MCStartups
  MaxAttempts = 2
  MaxFaults = 3
SPECIFICATION FairSpec
INVARIANTS WritesChain OutboxIsAtomic UowIsOwn EventsAccounted
PROPERTY Answered
