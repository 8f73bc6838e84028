\* The write path against the abstract ledger, console edits included.
SPECIFICATION Spec
CONSTANTS
  Requests = {r1, r2}
  i1 = i1
  i2 = i2
  Ids = {i1, n1, n2}
  c1 = c1
  Clients = {}
  a = a
  b = b
  Contents = {a, b}
  None = None
  Initial <- MCInitial
  Bodies <- RecordBodies
  Rollbacks = TRUE
  Console = TRUE
  Faults = {"reject", "unread"}
INVARIANTS OneWriteAtATime
PROPERTIES ImplementsLedger
