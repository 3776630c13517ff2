\* Two questions out of two approvals and two clarifications, asked by two runs,
\* and two inputs: answers, /stop or a session boundary.
SPECIFICATION FairSpec
CONSTANTS
  Approvals = {1, 2}
  Clarifies = {3, 4}
  Runs = {1, 2}
  MaxAsked = 2
  MaxInputs = 2
  Once = Once
  Deny = Deny
  Blank = Blank
  None = None
INVARIANTS TypeOK DecisionHonoured AnswerReturned OverlapOnly
PROPERTY Released
CHECK_DEADLOCK FALSE
