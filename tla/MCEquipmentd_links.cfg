\* A PMC, its restarted successor, a TMC and a client with commands for both.
SPECIFICATION Spec
CONSTANTS
  SeqModulus = 2048
  p1 = p1
  p2 = p2
  t1 = t1
  c1 = c1
  Nobody = Nobody
  Pmcs = {p1, p2}
  Tmcs = {t1}
  Clients = {c1}
  Talkative = {p1, p2, t1}
  MaxFd = 3
  MAX_CONN = 2
  REQUEST_TRACKER_MAX = 1
  SockBuf = 1
  MODULE_STALE = 0
  REQUEST_TIMEOUT = 0
  CONN_IDLE_TIMEOUT = 1
  ClientLines <- LinkLines
  EventStates = {}
  MaxLines = 1
  MaxEvents = 0
  MaxInFlight = 1
SYMMETRY PmcSymmetry
INVARIANTS LinkIdentity
PROPERTIES LinkDropCause
