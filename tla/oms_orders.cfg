SPECIFICATION FairSpec
CONSTANTS
  Sizes = {2}
  Routes = {"kalshi", "polymarket"}
  Connectors = {"kalshi"}
  MinOrder = 1
  MaxRetries = 1
  LiveModes = {TRUE, FALSE}
  NoId = NoId
  MaxOrders = 2
  MaxAccepted = 2
INVARIANTS
  Bookkeeping
  FillsPublished
PROPERTIES
  TerminalIsFinal
  OutcomesAreSeen
CHECK_DEADLOCK FALSE
