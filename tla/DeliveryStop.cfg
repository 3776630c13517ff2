\* One run with one request: it is stopped while it waits for the user.
SPECIFICATION Spec
CONSTANTS
  q1 = q1
  r1 = r1
  s1 = s1
  s2 = s2
  a1 = a1
  a2 = a2
  Requests = {q1}
  Runs = {r1}
  Sessions = {s1, s2}
  Actors = {a1, a2}
  SessionOf <- MCSessionOf
  ActorOf <- MCActorOf
  None = None
PROPERTY StopWithdraws
CHECK_DEADLOCK FALSE
