\* Two intents, one of them a sale, over four instants.
CONSTANTS
  Key = {buy, sell}
  SellKey = {sell}
  Foreign = {buy}
  Requests = {sell, Passive}
  None = None
  Passive = Passive
  Lease = 2
  Cooldown = 2
  RingSize = 1
  Modes = 2
  SellRetries = 1
  MaxClock = 3
  MaxOrders = 2
  MaxEvents = 2
SPECIFICATION Spec
INVARIANTS
  NoBlindRepeat
  CooldownHolds
  UnsettledIsLeased
  PauseSurvives
CHECK_DEADLOCK FALSE
