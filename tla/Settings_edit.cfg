\* Two requests from pages of any age, one failure, one edit in the console.
SPECIFICATION Spec
CONSTANTS
  Requests = {r1, r2}
  Profiles = {1, 2}
  Merged = {doh}
  Networks = {n1, n2, n3}
  ADVERTISEMENT = ads
  Initial <- MCInitial
  Forms <- MCForms
  Console <- MCConsole
  Edits = 1
  Failures = 1
  None = None
  ads = ads
  adult = adult
  n1 = n1
  n2 = n2
  n3 = n3
  doh = doh
  old = old
  new = new
SYMMETRY Interchangeable
INVARIANTS TypeOK NeverEmptied
PROPERTIES AdBlockingAsAsked RestIsKept
