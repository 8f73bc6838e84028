\* Four flows, pages of one, two pages in reach; two pollers.
SPECIFICATION FairSpec
CONSTANTS
  Flows <- MCFlows
  PageSize = 1
  MaxPages = 2
  Faults = 1
  Requests = 1
INVARIANTS TypeOK CountsAddUp
PROPERTIES NothingIsSkipped GetsStored
