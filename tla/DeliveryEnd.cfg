\* The end of a stopped run meets the request of the run that replaced it.
SPECIFICATION Spec
CONSTANTS
  q1 = q1
  r1 = r1
  r2 = r2
  s1 = s1
  s2 = s2
  a1 = a1
  a2 = a2
  Requests = {q1}
  Runs = {r1, r2}
  Sessions = {s1, s2}
  Actors = {a1, a2}
  SessionOf <- MCSessionOf
  ActorOf <- MCActorOf
  None = None
PROPERTY OwnEndOnly
CHECK_DEADLOCK FALSE
