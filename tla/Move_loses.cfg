\* One page, one failed write: an address of a name that has two is lost.
SPECIFICATION Spec
CONSTANTS
  Pages = {p1}
  Ids = {1, 2, 3, 4, 5, 6, 7, 8, 9}
  a = a
  cname = cname
  v = v
  w = w
  Types = {a, cname}
  CNAME = cname
  Labels = {"www", "ftp", "old", "notold", "net", "new", "home", "arpa"}
  Values = {v, w}
  Src <- Old
  Dst <- New
  Initial <- MCInitial
  None = None
  Failures = 1

INVARIANT AnswersStay
