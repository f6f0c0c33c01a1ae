SPECIFICATION FairSpec
CONSTANTS
  Receivers = {r1, r2}
  Events = {e1, e2}
  Capacity = 2
  MaxSent = 4
INVARIANTS
  DeliveredOrCounted
PROPERTIES
  ImplementsChannel
  EventuallyBehind
CHECK_DEADLOCK FALSE
