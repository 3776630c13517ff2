\* Two delegations share one slot, and no completed row is retained, so that
\* the second dispatch retires the first row.  One crash, one failing write or
\* hand-over, and one change of the conversation or command that discards what
\* waits.  The system stops when all is delivered.
SPECIFICATION FairSpec
CONSTANTS
  d1 = d1
  d2 = d2
  c1 = c1
  c2 = c2
  Delegations = {d1, d2}
  Conversations = {c1, c2}
  MaxChildren = 1
  Retained = 0
  MaxCrashes = 1
  MaxFaults = 1
  MaxCommands = 1
  None = None
INVARIANTS TypeOK AckHonest RepeatsExplained DurableFirst OwnConversation
PROPERTIES ResultReturns SlotFreed
CHECK_DEADLOCK FALSE
