SPECIFICATION Spec
CONSTANTS
  t1 = t1  t2 = t2  r1 = r1  r2 = r2  f1 = f1  m1 = m1  p1 = p1  p2 = p2
  proxy = proxy
  Tests = {t1}
  Sidecars = {proxy}
  Detached = {}
  SharedCtr = SharedCtr
  ReusedCtr = ReusedCtr
  None = None
  RyukEnabled = FALSE
  Resources = {r1}
  Fixtures = {f1}
  Messages = {}
  Prefixes = {p1}
  UniquePrefixes = TRUE
  OptionSets <- MCPlain
  ArtifactDirSet = FALSE
  Faults = {"setup"}
INVARIANTS ExitLeavesNoContainer
