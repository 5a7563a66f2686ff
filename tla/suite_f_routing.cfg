SPECIFICATION SuiteSpec
CONSTANTS
  t1 = t1  t2 = t2  r1 = r1  f1 = f1  p1 = p1  p2 = p2  s1 = s1  s2 = s2
  Tests = {t1}
  Sidecars = {s1}
  Detached = {}
  SharedCtr = SharedCtr
  ReusedCtr = ReusedCtr
  None = None
  RyukEnabled = TRUE
  Resources = {r1}
  Fixtures = {f1}
  Messages = {}
  Prefixes = {p1, p2}
  UniquePrefixes = TRUE
  OptionSets <- MCPlain
  ArtifactDirSet = FALSE
  Faults = {}
  SidecarList <- MCOne
  AsyncSidecars = {}
  HarnessFaults = {}
INVARIANTS TrafficGoesThroughSidecar
