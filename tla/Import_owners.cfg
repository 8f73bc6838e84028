\* A zone file whose entries share an owner that is written once.
SPECIFICATION Spec
CONSTANTS
  None = None
  Lines <- RoundRobin
  Modes = {"text"}
  Supported <- MCSupported
  NameValued = {"CNAME", "MX"}
  Ranked = {"MX"}
  Given <- Net
  Localhost <- Loop
  Bad <- NoAddress
  Initial <- MCInitial
  Published = {}
  Others <- MCOthers
  MaxLines = 3
  Sources = 1
  Previews = 1
  Changes = 0
  Failures = 0
INVARIANT NamesAsWritten
