\* Calls of /readyz against two background refreshes and one provider.
CONSTANTS
  Caller = {k1, k2, k3}
  Refresher = {r1, r2}
  Provider = {p1}
  Enabled = TRUE
  None = None
  MaxProbes = 4
  DropAt = {"lock", "wait", "probe", "store"}
SPECIFICATION ReadyFairSpec
PROPERTIES
  EveryCallAnswered
CHECK_DEADLOCK FALSE
