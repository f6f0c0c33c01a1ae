SPECIFICATION Spec
CONSTANTS
  Markets = {m1}
  Directions = {"Buy", "Sell"}
  Sources = {s1}
  NoSource = none
  Bankroll = 5
  MaxPosition = 3
  PriceScale = 4
  Prices = {1, 3}
  Quantities = {2}
  PositionTtl = 1
  TtlPeriod = 2
  MtmInterval = 1
  MaxLag = 0
  MaxTime = 4
  MaxEvents = 3
PROPERTIES
  ExpiresAtLastPrice
CHECK_DEADLOCK FALSE
