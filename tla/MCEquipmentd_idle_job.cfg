\* Both devices report IDLE and nobody sends a command.
SPECIFICATION Spec
CONSTANTS
  SeqModulus = 2048
  p1 = p1
  Nobody = Nobody
  Pmcs = {p1}
  Tmcs = {}
  Clients = {}
  Talkative = {p1}
  MaxFd = 2
  MAX_CONN = 2
  REQUEST_TRACKER_MAX = 2
  SockBuf = 2
  MODULE_STALE = 0
  REQUEST_TIMEOUT = 0
  CONN_IDLE_TIMEOUT = 1
  ClientLines <- NoLines
  EventStates = {"IDLE"}
  MaxLines = 1
  MaxEvents = 2
  MaxInFlight = 2
INVARIANTS IdleJobStarts
