SPECIFICATION Spec
CONSTANTS
  s1 = s1  s2 = s2  q1 = q1  q2 = q2  q3 = q3
  Scheduler = {s1, s2}
  Pid = {q1, q2, q3}
  None = None
  MaxEnds = 1
  MaxFaults = 0
  MaxOthers = 0
INVARIANT NoOverlap
