\* Any three requests at any time of a transfer, a reader that lags.  The
\* process may end (with its connection), and nothing happens after that.
SPECIFICATION FairSpec
CONSTANTS
  TRANSFER_TIME = 3
  STATUS_PERIOD = 2
  SockBuf = 3
  MaxRequests = 3
INVARIANTS TypeOK ReportedIsActual AckedCommandHolds
PROPERTIES TransferTakesItsTime TransferEnds KeepsReporting
CHECK_DEADLOCK FALSE
