SPECIFICATION FairSpec
CONSTANTS
  PROCESSING_TICKS = 1
  AuxEnabled = TRUE
  NSims = 2
  DevOf <- OneDevice
  Requests <- DeviceRequests
  MaxRequests = 2
  SockBuf = 2
INVARIANTS TypeOK CacheConverges HeaterBehindProcess HeaterAccounted
PROPERTIES LedgerImplemented NoSilentLoss RequestsAnswered
CHECK_DEADLOCK FALSE
