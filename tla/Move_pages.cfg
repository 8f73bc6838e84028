\* Two pages move one domain under itself; two writes fail.
SPECIFICATION Spec
CONSTANTS
  Pages = {p1, p2}
  Ids = {1, 2, 3, 4, 5, 6, 7, 8}
  a = a
  cname = cname
  v = v
  w = w
  Types = {a, cname}
  CNAME = cname
  Labels = {"www", "ftp", "old", "notold", "net", "new", "home", "arpa"}
  Values = {v, w}
  Src <- Old
  Dst <- Nested
  Initial <- MCInitial
  None = None
  Failures = 2
SYMMETRY Interchangeable
INVARIANTS TypeOK NamesStay OthersUntouched
