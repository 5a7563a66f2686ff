SPECIFICATION DetailSpec
CONSTANTS
  t1 = t1  proxy = proxy  p1 = p1  s3 = s3  ecs = ecs  h1 = h1  h2 = h2
  root = root  sub = sub  ext = ext  f = f  l1 = l1  l2 = l2  r1 = r1  r2 = r2
  a1 = a1  a2 = a2  k1 = k1  k2 = k2  v1 = v1  empty = empty  g1 = g1  g2 = g2
  Test = t1
  SharedCtr = SharedCtr
  ReusedCtr = ReusedCtr
  None = None
  Nil = Nil
  Nowhere = Nowhere
  NoPtr = NoPtr
  Empty = empty
  Proxies = {proxy}
  Prefixes = {p1}
  Services = {s3, ecs}
  Hooks = {h1, h2}
  StartFaults = {"docker", "hooks", "create", "endpoint"}
  Dirs = {root, sub, ext}
  Files = {f}
  Links = {l1, l2}
  Module = root
  TopDirs = {root, ext}
  Order <- MCOrder
  MaxPath = 4
  CopyFaults = {"io"}
  Catalog = {s3}
  Declared = {r1, r2}
  Arns = {a1, a2}
  Keys = {k1, k2}
  Values = {v1, empty}
  Flags = {g1, g2}
  Key = k1
  Wanted = v1
  Cases <- MCCases
INVARIANTS DetailTypeOK EditionIsReal StartedIsReady FailedStartCleansUp CopyIsSound CopyIsComplete BodyIsRouted VerdictIsTrue EveryGapIsReported ProbeIsTrue ExtractsAgree
PROPERTIES NewIsAtomic
