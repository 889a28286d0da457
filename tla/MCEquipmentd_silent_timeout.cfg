\* A request the PMC never answers.
SPECIFICATION Spec
CONSTANTS
  SeqModulus = 2048
  p1 = p1
  c1 = c1
  Nobody = Nobody
  Pmcs = {p1}
  Tmcs = {}
  Clients = {c1}
  Talkative = {p1}
  MaxFd = 2
  MAX_CONN = 2
  REQUEST_TRACKER_MAX = 2
  SockBuf = 2
  MODULE_STALE = 0
  REQUEST_TIMEOUT = 0
  CONN_IDLE_TIMEOUT = 1
  ClientLines <- OneCommand
  EventStates = {}
  MaxLines = 1
  MaxEvents = 0
  MaxInFlight = 2
PROPERTIES TimeoutIsReported
