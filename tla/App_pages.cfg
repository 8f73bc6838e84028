\* Two browsers, four requests at once, one edit in the console.
SPECIFICATION MCSpec
CONSTANTS
  Requests = {1, 2, 3, 4}
  Browsers = {1, 2}
  Users = {"ann"}
  None = None
  Configs <- MCConfigs
  Bare = Bare
  Ungrouped = Ungrouped
  Declarable <- MCDeclarable
  p1 = p1
  p2 = p2
  tv = tv
  stranger = stranger
  Clients = {tv}
  Strangers = {stranger}
  Fixed = {tv}
  Hostnames <- MCHostnames
  Plain <- MCPlain
  Fresh <- MCFresh
  Traffic <- MCTraffic
  Null = Null
  Lan = {"tv", "nas", "gw1", "gw2"}
  Sinkholes = {"zero"}
  Resolvers = {"doh"}
  Policies = {p1, p2}
  PolicyNames <- MCPolicyNames
  Standing <- MCStanding
  Gateways = {"gw1", "gw2"}
  Limit = 1
  Edits = 1
INVARIANTS TypeOK NamesUnique HistoryAgrees NothingMissing HistoryTells EachInItsZone NobodyActs GateMatches FiguresFit DashboardAgrees
PROPERTIES MovesOnlyItsOwn SignInSticks
CHECK_DEADLOCK FALSE
