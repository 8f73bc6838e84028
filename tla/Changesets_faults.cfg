\* Two requests at once and everything that can go wrong.
SPECIFICATION FairSpec
CONSTANTS
  Requests = {r1, r2}
  i1 = i1
  i2 = i2
  Ids = {i1, i2, n1, n2, n3, n4}
  c1 = c1
  Clients = {c1}
  a = a
  b = b
  Contents = {a, b}
  None = None
  Initial <- MCInitial
  Bodies <- AllBodies
  Rollbacks = TRUE
  Console = FALSE
  Faults = {"reject", "unread", "lost", "database", "crash"}
INVARIANTS TypeOK CommittedIsAccurate StopsAtFirstFailure
PROPERTIES Answered
