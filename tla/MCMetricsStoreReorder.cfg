CONSTANTS
  Tracked = {r1, r2}
  Measured = {c1}
  Profile = {p1, p2}
  Source = {llm}
  Nobody = Nobody
  Absent = Absent
  Torn = Torn
  MaxCrash = 0
SPECIFICATION MetricsSpec
SYMMETRY MCSymmetry
INVARIANTS
  FileCurrentAtRest
CHECK_DEADLOCK FALSE
