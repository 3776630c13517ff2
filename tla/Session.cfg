\* Up to four inputs: messages of three senders, one command, and a reset confirmed
\* late.
SPECIFICATION FairSpec
CONSTANTS
  c1 = c1
  s1 = s1
  s2 = s2
  s3 = s3
  Messages = {1, 2, 3, 4}
  Senders = {s1, s2, s3}
  Refusable = {2}
  Task = {1, 2, 3, 4}
  Commands = {c1}
  Writes <- MCWrites
  MaxInputs = 4
  MaxDepth = 1
  None = None
INVARIANTS TypeOK OneProcessor Accounted InOrder LossExplained NoHeal NotStranded ClaimExplained
PROPERTIES CommandGuardKept Answered Released
CHECK_DEADLOCK FALSE
