SPECIFICATION Spec
CONSTANTS
  Markets = {m1, m2}
  Directions = {"Buy", "Sell"}
  Sources = {s1, s2}
  NoSource = none
  Bankroll = 5
  MaxPosition = 3
  PriceScale = 4
  Prices = {1, 3}
  Quantities = {2, 5}
  PositionTtl = 1
  TtlPeriod = 2
  MtmInterval = 1
  MaxLag = 0
  MaxTime = 4
  MaxEvents = 3
SYMMETRY Symmetry
INVARIANTS
  Ledger
  AttributionComplete
PROPERTIES
  ExpiresInTimeAtMarket
CHECK_DEADLOCK FALSE
