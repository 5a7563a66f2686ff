SPECIFICATION DetailSpec
CONSTANTS
  t1 = t1  proxy = proxy  p1 = p1  s3 = s3  ecs = ecs  h1 = h1  h2 = h2
  root = root  sub = sub  ext = ext  f = f  l1 = l1  l2 = l2  r1 = r1  r2 = r2
  a1 = a1  a2 = a2  k1 = k1  k2 = k2  v1 = v1  empty = empty  g1 = g1  g2 = g2
  Test = t1
  SharedCtr = SharedCtr
  ReusedCtr = ReusedCtr
  None = None
  Nil = Nil
  Nowhere = Nowhere
  NoPtr = NoPtr
  Empty = empty
  Proxies = {proxy}
  Prefixes = {p1}
  Services = {s3}
  Hooks = {}
  StartFaults = {}
  Dirs = {root, sub}
  Files = {}
  Links = {l1}
  Module = root
  TopDirs = {root}
  Order <- MCLinkOrder
  MaxPath = 4
  CopyFaults = {}
  Catalog = {s3}
  Declared = {r1}
  Arns = {a1}
  Keys = {k1}
  Values = {empty}
  Flags = {g1, g2}
  Key = k1
  Wanted = empty
  Cases <- MCLinks
INVARIANTS CyclesAreRejected
