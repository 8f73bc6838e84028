\* A write whose answer is lost.
SPECIFICATION Spec
CONSTANTS
  Requests = {r1, r2}
  i1 = i1
  i2 = i2
  Ids = {i1, i2, n1, n2, n3, n4}
  c1 = c1
  Clients = {c1}
  a = a
  b = b
  Contents = {a, b}
  None = None
  Initial <- MCInitial
  Bodies <- EditBodies
  Rollbacks = FALSE
  Console = FALSE
  Faults = {"lost"}
SYMMETRY NewIds
INVARIANTS NothingUnrecorded
