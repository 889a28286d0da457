SPECIFICATION FairSpec
CONSTANTS
  BufSize = 16
  ReadSize = 6
  ParseCap = 8
  FormatCaps = {8, 10}
  Readers <- MCReaders
  Messages <- MCMessages
  ForeignLines <- MCForeignLines
  MaxLines = 2
INVARIANTS DeliveredAsSent
PROPERTIES AllDelivered
CHECK_DEADLOCK FALSE
