SPECIFICATION Spec
CONSTANTS
  p1 = p1  p2 = p2  i1 = i1  b1 = b1  a1 = a1
  s1 = s1  s2 = s2  r1 = r1  l1 = l1  f1 = f1  f2 = f2
  Process <- OneProcess
  Incident <- OneIncident
  Bundle = {b1}
  PromotionBundle = {}
  Artifact = {a1}
  Signal = {s1}
  Run = {r1}
  LocalRun = {l1}
  Fingerprint = {f1}
  None = None
  Requested = {"started"}
  Operations <- LifecycleRequests
  MaxEvents = 5
  MaxCrashes = 2
  MaxTruncations = 0
PROPERTY ImplementsLifecycle
