\* One delegation whose result arrives while the platform is away for a moment.
SPECIFICATION FairSpec
CONSTANTS
  d1 = d1
  c1 = c1
  c2 = c2
  Delegations = {d1}
  Conversations = {c1, c2}
  MaxChildren = 1
  Retained = 0
  MaxCrashes = 1
  MaxFaults = 0
  MaxCommands = 0
  None = None
PROPERTY PersistedReturns
CHECK_DEADLOCK FALSE
