\* One request at a time: edits, rollbacks and rollbacks of rollbacks.
SPECIFICATION SerialSpec
CONSTANTS
  Requests = {r1, r2, r3}
  i1 = i1
  i2 = i2
  Ids = {i1, i2, n1, n2, n3, n4}
  c1 = c1
  Clients = {c1}
  a = a
  b = b
  Contents = {a, b}
  None = None
  Initial <- MCInitial
  Bodies <- ChangeBodies
  Rollbacks = TRUE
  Console = FALSE
  Faults = {"reject", "database"}
SYMMETRY NewIds
INVARIANTS RollbackRestores RollbackFindsRecords
