\* Three kinds of source, two lines; three previews, one change by others, one failure.
SPECIFICATION Spec
CONSTANTS
  None = None
  Lines <- MCLines
  Modes = {"pihole", "technitium", "text"}
  Supported <- MCSupported
  NameValued = {"CNAME", "MX"}
  Ranked = {"MX"}
  Given <- Net
  Localhost <- Loop
  Bad <- NoAddress
  Initial <- MCInitial
  Published = {}
  Others <- MCOthers
  MaxLines = 2
  Sources = 1
  Previews = 3
  Changes = 1
  Failures = 1
INVARIANTS TypeOK AgainIsNothing
  
