SPECIFICATION FairSpec
CONSTANTS
  MaxOwed = 2
  MaxLines = 3
  BannerLines = 2
INVARIANTS TypeOK
PROPERTIES ReplyIsOwn PromiseKept CallReturns
