\* Two runs of one session that overlap once the first is stopped, a request
\* each (or both of one run), and answers from another session or user.
\* The system stops when both runs have ended.
SPECIFICATION FairSpec
CONSTANTS
  q1 = q1
  q2 = q2
  r1 = r1
  r2 = r2
  s1 = s1
  s2 = s2
  a1 = a1
  a2 = a2
  Requests = {q1, q2}
  Runs = {r1, r2}
  Sessions = {s1, s2}
  Actors = {a1, a2}
  SessionOf <- MCSessionOf
  ActorOf <- MCActorOf
  None = None
INVARIANTS TypeOK CancelHonoured ReportTrue NoOrphan FilesGone
PROPERTIES GrantKept CallReturns
CHECK_DEADLOCK FALSE
