\* A PMC with nothing to report for longer than the idle limit.
SPECIFICATION Spec
CONSTANTS
  SeqModulus = 2048
  p1 = p1
  c1 = c1
  Nobody = Nobody
  Pmcs = {p1}
  Tmcs = {}
  Clients = {c1}
  Talkative = {}
  MaxFd = 2
  MAX_CONN = 2
  REQUEST_TRACKER_MAX = 2
  SockBuf = 2
  MODULE_STALE = 0
  REQUEST_TIMEOUT = 0
  CONN_IDLE_TIMEOUT = 1
  ClientLines <- NoLines
  EventStates = {}
  MaxLines = 0
  MaxEvents = 0
  MaxInFlight = 2
INVARIANTS LinkIdentity
