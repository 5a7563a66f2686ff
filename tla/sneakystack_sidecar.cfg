SPECIFICATION SneakystackSpec
CONSTANTS
  q1 = q1  q2 = q2  q3 = q3  k1 = k1  i1 = i1  i2 = i2  a = a
  Requests = {q1, q2, q3}
  Callers = {q1, q2, q3}
  Kinds = {k1}
  Ids = {i1, i2}
  Objects = {a}
  Absent = Absent
  Standalone = FALSE
  ContextLives = FALSE
  AcceptBreaks = TRUE
INVARIANTS SneakystackTypeOK NoConcurrentMapWrite LockBelongsToRequests ReachableOnceStarted StopDrains
PROPERTIES StoreIsAtomic
