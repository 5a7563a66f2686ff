SPECIFICATION FairSuiteSpec
CONSTANTS
  t1 = t1  t2 = t2  r1 = r1  f1 = f1  p1 = p1  p2 = p2  s1 = s1  s2 = s2
  Tests = {t1, t2}
  Sidecars = {s1, s2}
  Detached = {s2}
  SharedCtr = SharedCtr
  ReusedCtr = ReusedCtr
  None = None
  RyukEnabled = TRUE
  Resources = {r1}
  Fixtures = {}
  Messages = {}
  Prefixes = {p1, p2}
  UniquePrefixes = FALSE
  OptionSets <- MCRouted
  ArtifactDirSet = FALSE
  Faults = {"setup", "terraform"}
  SidecarList <- MCList
  AsyncSidecars = {s1}
  HarnessFaults = {"start", "sidecar", "stop"}
INVARIANTS SuiteTypeOK NoTestStartsItsOwn SidecarHasDownstream ExitCodeHonest CollisionsAreReported
PROPERTIES ContainersAreLeased SuiteEnds CleanupCompletes
