SPECIFICATION FairSpec
CONSTANTS
  Sizes = {2}
  Routes = {"kalshi"}
  Connectors = {"kalshi"}
  MinOrder = 1
  MaxRetries = 1
  LiveModes = {TRUE}
  NoId = NoId
  MaxOrders = 1
  MaxAccepted = 1
PROPERTIES
  AgedOrdersEnd
CHECK_DEADLOCK FALSE
