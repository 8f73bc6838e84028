\* Three requests that apply or adopt, one edit in the console, pages of one record.
SPECIFICATION MCFairSpec
CONSTANTS
  Requests = {1, 2, 3}
  Ids = {1, 2, 3, 4, 5}
  a = a
  b = b
  Contents = {a, b}
  None = None
  Initial <- MCInitial
  Bodies <- MCBodies
  PageLimit = 1
  Edits = 1
INVARIANTS TypeOK NothingElseDrifts
PROPERTIES AdoptionRepairs Ends
