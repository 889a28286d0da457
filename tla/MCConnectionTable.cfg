\* Four connections for three entries: the table fills up, and up to three
\* entries are overdue in one scan.
SPECIFICATION Spec
CONSTANTS
  k1 = k1
  k2 = k2
  k3 = k3
  k4 = k4
  Conns = {k1, k2, k3, k4}
  None = None
  MAX_CONN = 3
  CONN_IDLE_TIMEOUT = 1
SYMMETRY ConnSymmetry
INVARIANTS TableExact
PROPERTIES ScanExact
