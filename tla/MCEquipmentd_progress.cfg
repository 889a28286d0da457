\* A PMC whose two devices report what an idle job waits for, or a fault: the
\* scheduler and the fault latch; slots and connections under fairness of the
\* loop and of the clock alone.
SPECIFICATION FairSpec
CONSTANTS
  SeqModulus = 2048
  p1 = p1
  c1 = c1
  Nobody = Nobody
  Pmcs = {p1}
  Tmcs = {}
  Clients = {c1}
  Talkative = {p1}
  MaxFd = 2
  MAX_CONN = 2
  REQUEST_TRACKER_MAX = 1
  SockBuf = 1
  MODULE_STALE = 0
  REQUEST_TIMEOUT = 0
  CONN_IDLE_TIMEOUT = 1
  ClientLines <- ResetAndLong
  EventStates = {"IDLE", "FAULT"}
  MaxLines = 1
  MaxEvents = 2
  MaxInFlight = 1
INVARIANTS SchedulerInert
PROPERTIES FaultLatchHeld SlotsReclaimed ConnectionsReaped
