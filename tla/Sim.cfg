\* Any four lines in any order and at any time, the code's five ticks, a
\* reader that lags.  The process may end (SIGPIPE), and nothing happens after
\* that.
SPECIFICATION FairSpec
CONSTANTS
  PROCESSING_TICKS = 5
  SockBuf = 3
  MaxCommands = 4
  MaxWarmth = 80
INVARIANTS TypeOK ReportedIsActual HeaterFollowsState DoneMeansProcessed
PROPERTIES AckTakesEffect ProcessingEnds OrphanEnds
CHECK_DEADLOCK FALSE
